--------------------------------- MODULE Delivery ---------------------------------
(******************************************************************************)
(* What the gateway and its queue promise of the messages of users, whatever  *)
(* breaks: a message is handled at most once, one at a time and, of those     *)
(* that took one connection, in the order in which they were written; it is   *)
(* answered at most once, and its answer shown at most once.  Anything may be *)
(* lost on the way, and nothing that is lost is sent again.                   *)
(******************************************************************************)
EXTENDS Naturals

CONSTANTS
  Message,      \* numbers in the order in which the messages are written
  Sender,       \* [Message -> who writes it]
  Connection,   \* what messages travel on
  None          \* no connection

VARIABLES
  stage,        \* [Message -> Stage]
  route         \* [Message -> Connection or None]: what the message took

vars == <<stage, route>>

Stage == {"unwritten", "underway", "handled", "answered", "shown", "gone"}

\* Written before m by the same sender.
Earlier(m) == {n \in Message : n < m /\ Sender[n] = Sender[m]}

--------------------------------------------------------------------------------

Init ==
  /\ stage = [m \in Message |-> "unwritten"]
  /\ route = [m \in Message |-> None]

\* A message is put on a connection, where it may be lost at once, or nowhere.
Write(m) ==
  /\ stage[m] = "unwritten"
  /\ \A n \in Earlier(m) : stage[n] # "unwritten"
  /\ \/ /\ stage' = [stage EXCEPT ![m] = "gone"]
        /\ UNCHANGED route
     \/ \E c \in Connection, to \in {"underway", "gone"} :
          /\ stage' = [stage EXCEPT ![m] = to]
          /\ route' = [route EXCEPT ![m] = c]

\* The core takes up a message when it has done with the one before: nothing that was written
\* earlier on the same connection can still come.
Handle(m) ==
  /\ stage[m] = "underway"
  /\ \A n \in Message : stage[n] # "handled"
  /\ \A n \in Earlier(m) : route[n] = route[m] => stage[n] # "underway"
  /\ stage' = [stage EXCEPT ![m] = "handled"]
  /\ UNCHANGED route

Answer(m) ==
  /\ stage[m] = "handled"
  /\ stage' = [stage EXCEPT ![m] = "answered"]
  /\ UNCHANGED route

Show(m) ==
  /\ stage[m] = "answered"
  /\ stage' = [stage EXCEPT ![m] = "shown"]
  /\ UNCHANGED route

\* Messages, or their answers, are lost together.
Lose(S) ==
  /\ \A m \in S : stage[m] \in {"underway", "handled", "answered"}
  /\ stage' = [m \in Message |-> IF m \in S THEN "gone" ELSE stage[m]]
  /\ UNCHANGED route

Next ==
  \/ \E m \in Message : Write(m) \/ Handle(m) \/ Answer(m) \/ Show(m)
  \/ \E S \in SUBSET Message : Lose(S)

Spec == Init /\ [][Next]_vars
================================================================================
