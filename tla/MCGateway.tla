------------------------------- MODULE MCGateway -------------------------------
(* Small instances of Gateway.                                                *)
EXTENDS Gateway

CONSTANTS a1, a2, n1, n2

\* Each process under its own id.
OwnNames == (a1 :> n1) @@ (a2 :> n2)
OneName == a1 :> n1

\* Two messages of the first adapter, the second a command.
TwoOfOne == (1 :> a1) @@ (2 :> a1)
ChatThenCommand == (1 :> "message") @@ (2 :> "ack")

Sockets == Permutations(Socket)
================================================================================
