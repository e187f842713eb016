------------------------------ MODULE MCHeartbeat ------------------------------
(* Small instances of Heartbeat.                                              *)
EXTENDS Heartbeat, TLC

\* A window over midnight, one that does not, and a time that does not parse.
Night == [start |-> 6, end |-> 1]
Noon == [start |-> 2, end |-> 5]
Settings == {Noon, Unparsed}
NoSettings == {}
OnlyUnparsed == {Unparsed}

Users == Permutations(User)
================================================================================
