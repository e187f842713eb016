---------------------------- MODULE ProposalLifecycle ----------------------------
(******************************************************************************)
(* What a proposal record promises, whoever writes it: its status moves only  *)
(* along an edge of a transition table, a write becomes durable with some     *)
(* later commit on the shared connection, and a restart returns every row to  *)
(* its last committed status.                                                 *)
(*                                                                            *)
(* The table is a parameter.  RecordStore._VALID_TRANSITIONS is the table the *)
(* code documents (ValidTransitions below).                                   *)
(******************************************************************************)

CONSTANTS
  Proposal,     \* proposal ids (certain_records.id)
  Edges         \* the allowed status changes, a set of <<from, to>> pairs

VARIABLES
  status,       \* [Proposal -> Status]: what a reader of the connection sees
  durable       \* [Proposal -> Status]: what a restart finds on disk

vars == <<status, durable>>

Absent == "absent"      \* no such row

ProposalStatus == {"pending", "approved", "rejected", "executed", "expired"}

Status == ProposalStatus \cup {Absent}

\* RecordStore._VALID_TRANSITIONS, as a set of edges.
ValidTransitions ==
  ({"pending"} \X {"approved", "rejected", "expired"})
    \cup ({"approved"} \X {"executed", "expired"})

--------------------------------------------------------------------------------

Init ==
  /\ status  = [p \in Proposal |-> Absent]
  /\ durable = [p \in Proposal |-> Absent]

\* A new proposal is inserted; it is born pending.
Create(p) ==
  /\ status[p] = Absent
  /\ status' = [status EXCEPT ![p] = "pending"]
  /\ UNCHANGED durable

\* One status moves along an edge of the table.
Move(p, to) ==
  /\ <<status[p], to>> \in Edges
  /\ status' = [status EXCEPT ![p] = to]
  /\ UNCHANGED durable

\* commit() by any task makes every visible write durable.
Commit ==
  /\ durable' = status
  /\ UNCHANGED status

\* The process dies: uncommitted writes are gone.
Restart ==
  /\ status' = durable
  /\ UNCHANGED durable

Next ==
  \/ \E p \in Proposal : Create(p) \/ \E to \in ProposalStatus : Move(p, to)
  \/ Commit
  \/ Restart

Spec == Init /\ [][Next]_vars
================================================================================
