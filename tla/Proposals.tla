------------------------------- MODULE Proposals -------------------------------
(******************************************************************************)
(* Improvement proposals, from the HEARTBEAT decision that stores one to its  *)
(* execution or expiry.                                                       *)
(*                                                                            *)
(* Two asyncio tasks work on the rows over one shared SQLite connection:      *)
(*   - the engine (CoreEngine, fed by the message queue) runs /approve and    *)
(*     /reject, one command at a time;                                        *)
(*   - the heartbeat (HeartbeatLoop) either sleeps, which expires old         *)
(*     proposals, or executes approved ones and then stores new ones.         *)
(* Each await of the code ends a step, so the steps of the two interleave.    *)
(* A commit() by any task makes the statements of every task durable; a crash *)
(* loses whatever was not committed.  The state of a skill run or of soul.yaml*)
(* is not rolled back.                                                        *)
(******************************************************************************)
EXTENDS Naturals

CONSTANTS
  Proposal,     \* proposal ids
  User,         \* internal user ids that resolve_user can return
  SystemUser,   \* "__system__", the owner of a proposal with no target user
  NoProposal,   \* no proposal
  Owner,        \* [Proposal -> User \cup {SystemUser}]: the user_id column
  KindOf,       \* [Proposal -> Kind]: metadata.proposal_type
  Asked,        \* [Proposal -> Payload]: proposed_skill in the AI's decision
  MaxCrashes    \* bound: how often the process may be killed

Absent == "absent"

Kind == {"general", "skill_execution", "trait_change", "skill_proposal"}

Payload == {"empty", "valid"}

Verdict == {"approved", "rejected"}

Status == {Absent, "pending", "approved", "rejected", "executed", "expired"}

ASSUME ConstantsOK ==
  /\ SystemUser \notin User
  /\ NoProposal \notin Proposal
  /\ Owner \in [Proposal -> User \cup {SystemUser}]
  /\ KindOf \in [Proposal -> Kind]
  /\ Asked \in [Proposal -> Payload]
  /\ MaxCrashes \in Nat

VARIABLES
  \* certain_records
  db,           \* [Proposal -> Status]: the rows as the connection sees them
  disk,         \* [Proposal -> Status]: the rows a restart finds
  old,          \* rows created before now - proposal_expiry_days
  \* the engine task
  engPc,        \* where the command handler is
  cmd,          \* the command it is handling
  engHit,       \* did its UPDATE match a row
  \* the heartbeat task
  hbPc,         \* where the tick is
  todo,         \* the ids its SELECT returned, still to be visited
  cur,          \* the proposal it is executing
  target,       \* the status it is about to write
  hbHit,        \* did its UPDATE match a row
  sleepDone,    \* _sleep_done_today
  \* the world
  quiet,        \* the wall clock is inside the quiet-hours window
  crashes,
  \* history
  consent,      \* [Proposal -> SUBSET User]: whose /approve set the row
  overtaken,    \* rows a sleep phase was about to expire when they were answered
  told,         \* [Proposal -> Verdict or "none"]: the ACK the owner received
  handled,      \* [Proposal -> Nat]: times the executor took the proposal up
  done          \* proposals whose effect took place (skill returned, traits set)

dbVars     == <<db, disk, old>>
engVars    == <<engPc, cmd, engHit>>
hbVars     == <<hbPc, todo, cur, target, hbHit, sleepDone>>
worldVars  == <<quiet, crashes>>
history    == <<consent, overtaken, told, handled, done>>
vars       == <<dbVars, engVars, hbVars, worldVars, history>>

Command == [user : User, op : Verdict, id : Proposal]

NoCommand == [user |-> SystemUser, op |-> "none", id |-> NoProposal]

--------------------------------------------------------------------------------
(* RecordStore.update_proposal_status: one conditional UPDATE, then a commit. *)

\* The statuses from which the UPDATE's WHERE clause lets a row reach s.
Sources(s) ==
  CASE s \in Verdict     -> {"pending"}
    [] s = "executed"    -> {"approved"}
    [] s = "expired"     -> {"pending", "approved"}

Matches(p, s) == db[p] \in Sources(s)

\* Mutation: the UPDATE names the id only.
BlindUpdate(p, s) == db' = [db EXCEPT ![p] = s]

ConditionalUpdate(p, s) ==
  db' = IF Matches(p, s) THEN [db EXCEPT ![p] = s] ELSE db

Committed == disk' = db

--------------------------------------------------------------------------------
(* The engine: _cmd_approve and _cmd_reject.                                  *)

\* A message /approve <id> or /reject <id> leaves the queue; resolve_user names
\* its sender.
Receive(u, op, p) ==
  /\ engPc = "idle"
  /\ engPc' = "check"
  /\ cmd' = [user |-> u, op |-> op, id |-> p]
  /\ UNCHANGED <<dbVars, engHit, hbVars, worldVars, history>>

\* Mutation: the ownership test is dropped.
CheckWithoutOwner ==
  /\ engPc = "check"
  /\ IF db[cmd.id] = "pending"
       THEN engPc' = "update" /\ UNCHANGED cmd
       ELSE engPc' = "idle" /\ cmd' = NoCommand
  /\ UNCHANGED <<dbVars, engHit, hbVars, worldVars, history>>

\* get_proposal, the ownership test and the status test; a failed test sends a
\* refusal and ends the command.
Check ==
  /\ engPc = "check"
  /\ IF db[cmd.id] = "pending" /\ Owner[cmd.id] = cmd.user
       THEN /\ engPc' = "update"
            /\ UNCHANGED cmd
       ELSE /\ engPc' = "idle"
            /\ cmd' = NoCommand
  /\ UNCHANGED <<dbVars, engHit, hbVars, worldVars, history>>

\* The UPDATE of update_proposal_status.
Decide ==
  /\ engPc = "update"
  /\ ConditionalUpdate(cmd.id, cmd.op)
  /\ engHit' = Matches(cmd.id, cmd.op)
  /\ consent' = IF engHit' /\ cmd.op = "approved"
                  THEN [consent EXCEPT ![cmd.id] = @ \cup {cmd.user}]
                  ELSE consent
  /\ overtaken' = IF ~engHit' THEN overtaken
                  ELSE IF hbPc = "expiring" /\ cmd.id \in todo
                    THEN overtaken \cup {cmd.id}
                    ELSE overtaken \ {cmd.id}
  /\ engPc' = "commit"
  /\ UNCHANGED <<disk, old, cmd, hbVars, worldVars, told, handled, done>>

\* Mutation: the user is answered before the UPDATE is committed.
DecideUncommitted ==
  /\ engPc = "commit"
  /\ engPc' = IF engHit THEN "reply" ELSE "idle"
  /\ cmd' = IF engHit THEN cmd ELSE NoCommand
  /\ engHit' = FALSE
  /\ UNCHANGED <<dbVars, hbVars, worldVars, history>>

\* Its commit; when no row matched it raises ValueError, handle_message sends
\* the error reply and the command is over.
DecideCommit ==
  /\ engPc = "commit"
  /\ Committed
  /\ IF engHit
       THEN /\ engPc' = "reply"
            /\ UNCHANGED cmd
       ELSE /\ engPc' = "idle"
            /\ cmd' = NoCommand
  /\ engHit' = FALSE
  /\ UNCHANGED <<db, old, hbVars, worldVars, history>>

\* _send_reply: the user learns the verdict.
Reply ==
  /\ engPc = "reply"
  /\ told' = [told EXCEPT ![cmd.id] = cmd.op]
  /\ engPc' = "idle"
  /\ cmd' = NoCommand
  /\ UNCHANGED <<dbVars, engHit, hbVars, worldVars, consent, overtaken,
                 handled, done>>

\* The reply finds the adapter's socket closed: the command is over, unheard.
ReplyFails ==
  /\ engPc = "reply"
  /\ engPc' = "idle"
  /\ cmd' = NoCommand
  /\ UNCHANGED <<dbVars, engHit, hbVars, worldVars, history>>

--------------------------------------------------------------------------------
(* The heartbeat inside quiet hours: SleepPhase.run and expire_old_proposals. *)

\* _tick finds itself in the window and has not slept yet.
FallAsleep ==
  /\ hbPc = "idle"
  /\ quiet
  /\ ~sleepDone
  /\ hbPc' = "sleeping"
  /\ UNCHANGED <<dbVars, engVars, todo, cur, target, hbHit, sleepDone, worldVars,
                 history>>

\* Mutation: the age test is inverted.
ExpireSelectRecent ==
  /\ hbPc = "sleeping"
  /\ todo' = {p \in Proposal \ old : db[p] = "pending"}
  /\ hbPc' = IF todo' = {} THEN "idle" ELSE "expiring"
  /\ sleepDone' = (todo' = {})
  /\ UNCHANGED <<dbVars, engVars, cur, target, hbHit, worldVars, history>>

\* The SELECT of expire_old_proposals, with the status test on its snapshot.
ExpireSelect ==
  /\ hbPc = "sleeping"
  /\ todo' = {p \in old : db[p] = "pending"}
  /\ IF todo' = {}
       THEN /\ hbPc' = "idle"
            /\ sleepDone' = TRUE
       ELSE /\ hbPc' = "expiring"
            /\ UNCHANGED sleepDone
  /\ UNCHANGED <<dbVars, engVars, cur, target, hbHit, worldVars, history>>

\* The UPDATE of one row: by id alone, whatever its status has become.
ExpireRow(p) ==
  /\ hbPc = "expiring"
  /\ p \in todo
  /\ db' = [db EXCEPT ![p] = "expired"]
  /\ todo' = todo \ {p}
  /\ UNCHANGED <<disk, old, engVars, hbPc, cur, target, hbHit, sleepDone, worldVars,
                 history>>

\* The commit after the loop; the sleep phase ends.
ExpireCommit ==
  /\ hbPc = "expiring"
  /\ todo = {}
  /\ Committed
  /\ hbPc' = "idle"
  /\ sleepDone' = TRUE
  /\ UNCHANGED <<db, old, engVars, todo, cur, target, hbHit, worldVars, history>>

--------------------------------------------------------------------------------
(* The heartbeat outside quiet hours: ProposalExecutor.execute_approved.      *)

\* Mutation: get_pending_proposals is called with its default status.
SelectPending ==
  /\ hbPc = "idle"
  /\ ~quiet
  /\ sleepDone' = FALSE
  /\ todo' = {p \in Proposal : db[p] = "pending"}
  /\ hbPc' = "loop"
  /\ UNCHANGED <<dbVars, engVars, cur, target, hbHit, worldVars, history>>

\* _tick outside the window; get_pending_proposals(status = approved).
SelectApproved ==
  /\ hbPc = "idle"
  /\ ~quiet
  /\ sleepDone' = FALSE
  /\ todo' = {p \in Proposal : db[p] = "approved"}
  /\ hbPc' = "loop"
  /\ UNCHANGED <<dbVars, engVars, cur, target, hbHit, worldVars, history>>

\* The next proposal of the list.
TakeUp(p, next, to) ==
  /\ hbPc = "loop"
  /\ p \in todo
  /\ todo' = todo \ {p}
  /\ cur' = p
  /\ handled' = [handled EXCEPT ![p] = @ + 1]
  /\ hbPc' = next
  /\ target' = to
  /\ UNCHANGED <<dbVars, engVars, hbHit, sleepDone, worldVars, consent, overtaken,
                 told>>

\* A general proposal has no effect: it is only marked executed.
TakeGeneral(p) ==
  /\ KindOf[p] = "general"
  /\ TakeUp(p, "mark", "executed")
  /\ UNCHANGED done

\* Mutation: the row is marked executed before the skill has run.
TakeSkillMarkedFirst(p) ==
  /\ KindOf[p] = "skill_execution"
  /\ TakeUp(p, "mark", "executed")
  /\ UNCHANGED done

\* _execute_skill_proposal: the skill is in the registry and starts running.
TakeSkill(p) ==
  /\ KindOf[p] = "skill_execution"
  /\ TakeUp(p, "running", "none")
  /\ UNCHANGED done

\* Mutation: a missing skill is reported but its row is left approved.
TakeMissingSkillUnmarked(p) ==
  /\ KindOf[p] = "skill_execution"
  /\ TakeUp(p, "loop", "none")
  /\ UNCHANGED done

\* _execute_skill_proposal: the skill is gone from the registry.
TakeMissingSkill(p) ==
  /\ KindOf[p] = "skill_execution"
  /\ TakeUp(p, "mark", "expired")
  /\ UNCHANGED done

\* _execute_trait_proposal: apply_trait_change is one synchronous call, saving
\* soul.yaml before it returns.
TakeTrait(p) ==
  /\ KindOf[p] = "trait_change"
  /\ TakeUp(p, "mark", "executed")
  /\ done' = done \cup {p}

\* apply_trait_change raises, soul.yaml cannot be written.
TakeTraitFails(p) ==
  /\ KindOf[p] = "trait_change"
  /\ TakeUp(p, "mark", "expired")
  /\ UNCHANGED done

\* What a skill_proposal row holds.  _layer2_evaluate builds its
\* HeartbeatDecision without the proposed_skill the AI answered, so
\* store_skill_creation_proposal stores the field's default, an empty dict.
StoredPayload(p) == "empty"

\* _execute_skill_creation: install_proposed_skill refuses the empty name.
TakeCreation(p) ==
  /\ KindOf[p] = "skill_proposal"
  /\ LET installs == StoredPayload(p) = "valid"
     IN  /\ TakeUp(p, "mark", IF installs THEN "executed" ELSE "expired")
         /\ done' = IF installs THEN done \cup {p} ELSE done

\* skill.execute returns a result.
SkillReturns ==
  /\ hbPc = "running"
  /\ hbPc' = "mark"
  /\ target' = "executed"
  /\ done' = done \cup {cur}
  /\ UNCHANGED <<dbVars, engVars, todo, cur, hbHit, sleepDone, worldVars,
                 consent, overtaken, told, handled>>

\* skill.execute raises: rate limit, timeout or an error of the skill.
SkillRaises ==
  /\ hbPc = "running"
  /\ hbPc' = "mark"
  /\ target' = "expired"
  /\ UNCHANGED <<dbVars, engVars, todo, cur, hbHit, sleepDone, worldVars, history>>

\* The UPDATE of update_proposal_status(cur, target).
Mark ==
  /\ hbPc = "mark"
  /\ ConditionalUpdate(cur, target)
  /\ hbHit' = Matches(cur, target)
  /\ hbPc' = "markCommit"
  /\ UNCHANGED <<disk, old, engVars, todo, cur, target, sleepDone, worldVars, history>>

\* An exception while cur is being recorded or reported.  After a successful
\* effect the code is inside the try, whose handler writes EXPIRED; elsewhere the
\* exception leaves execute_approved and ends the tick.
RaiseHandling ==
  IF target = "executed" /\ KindOf[cur] # "general"
    THEN /\ hbPc' = "mark"
         /\ target' = "expired"
         /\ UNCHANGED <<cur, todo>>
    ELSE /\ hbPc' = "idle"
         /\ cur' = NoProposal
         /\ target' = "none"
         /\ todo' = {}

\* Its commit; when no row matched it raises ValueError.
MarkCommit ==
  /\ hbPc = "markCommit"
  /\ Committed
  /\ hbHit' = FALSE
  /\ IF hbHit
       THEN /\ hbPc' = "notify"
            /\ UNCHANGED <<cur, target, todo>>
       ELSE RaiseHandling
  /\ UNCHANGED <<db, old, engVars, sleepDone, worldVars, history>>

\* _notify_result: sent, or dropped because nobody is linked or connected.
Notify ==
  /\ hbPc = "notify"
  /\ hbPc' = "loop"
  /\ cur' = NoProposal
  /\ target' = "none"
  /\ UNCHANGED <<dbVars, engVars, todo, hbHit, sleepDone, worldVars, history>>

\* The send inside _notify_result raises: the adapter's socket just closed.
NotifyFails ==
  /\ hbPc = "notify"
  /\ RaiseHandling
  /\ UNCHANGED <<dbVars, engVars, hbHit, sleepDone, worldVars, history>>

\* The list is finished; the tick goes on to its two decision layers.
FinishExecution ==
  /\ hbPc = "loop"
  /\ todo = {}
  /\ hbPc' = "decide"
  /\ UNCHANGED <<dbVars, engVars, todo, cur, target, hbHit, sleepDone, worldVars,
                 history>>

--------------------------------------------------------------------------------
(* The heartbeat stores new proposals: _execute_decision and the store_*      *)
(* methods of ProposalExecutor, which insert, commit and notify.              *)

StoreInsert(p) ==
  /\ hbPc = "decide"
  /\ db[p] = Absent
  /\ db' = [db EXCEPT ![p] = "pending"]
  /\ hbPc' = "stored"
  /\ UNCHANGED <<disk, old, engVars, todo, cur, target, hbHit, sleepDone, worldVars,
                 history>>

StoreCommit ==
  /\ hbPc = "stored"
  /\ Committed
  /\ hbPc' = "decide"
  /\ UNCHANGED <<db, old, engVars, todo, cur, target, hbHit, sleepDone, worldVars,
                 history>>

\* Every selected user has been evaluated, or an exception ended the tick.
EndTick ==
  /\ hbPc = "decide"
  /\ hbPc' = "idle"
  /\ UNCHANGED <<dbVars, engVars, todo, cur, target, hbHit, sleepDone, worldVars,
                 history>>

--------------------------------------------------------------------------------
(* The rest of the process and the world.                                     *)

\* Another task (post-processing, a link command) commits the shared connection.
ForeignCommit ==
  /\ disk # db
  /\ Committed
  /\ UNCHANGED <<db, old, engVars, hbVars, worldVars, history>>

\* A row grows older than proposal_expiry_days.
Age(p) ==
  /\ db[p] # Absent
  /\ p \notin old
  /\ old' = old \cup {p}
  /\ UNCHANGED <<db, disk, engVars, hbVars, worldVars, history>>

ClockTurns ==
  /\ quiet' = ~quiet
  /\ UNCHANGED <<dbVars, engVars, hbVars, crashes, history>>

\* The process is killed and started again.
Crash ==
  /\ crashes < MaxCrashes
  /\ crashes' = crashes + 1
  /\ db' = disk
  /\ old' = {p \in old : disk[p] # Absent}
  /\ engPc' = "idle" /\ cmd' = NoCommand /\ engHit' = FALSE
  /\ hbPc' = "idle" /\ todo' = {} /\ cur' = NoProposal /\ target' = "none"
  /\ hbHit' = FALSE /\ sleepDone' = FALSE
  /\ UNCHANGED <<disk, quiet, history>>

--------------------------------------------------------------------------------

Init ==
  /\ db = [p \in Proposal |-> Absent]
  /\ disk = db
  /\ old = {}
  /\ engPc = "idle" /\ cmd = NoCommand /\ engHit = FALSE
  /\ hbPc = "idle" /\ todo = {} /\ cur = NoProposal /\ target = "none"
  /\ hbHit = FALSE /\ sleepDone = FALSE
  /\ quiet = FALSE /\ crashes = 0
  /\ consent = [p \in Proposal |-> {}]
  /\ overtaken = {}
  /\ told = [p \in Proposal |-> "none"]
  /\ handled = [p \in Proposal |-> 0]
  /\ done = {}

Engine ==
  \/ \E u \in User, op \in Verdict, p \in Proposal : Receive(u, op, p)
  \/ Check
  \/ Decide
  \/ DecideCommit
  \/ Reply
  \/ ReplyFails

Sleep ==
  \/ FallAsleep
  \/ ExpireSelect
  \/ \E p \in Proposal : ExpireRow(p)
  \/ ExpireCommit

Execute ==
  \/ SelectApproved
  \/ \E p \in Proposal :
       \/ TakeGeneral(p)
       \/ TakeSkill(p)
       \/ TakeMissingSkill(p)
       \/ TakeTrait(p)
       \/ TakeTraitFails(p)
       \/ TakeCreation(p)
  \/ SkillReturns
  \/ SkillRaises
  \/ Mark
  \/ MarkCommit
  \/ Notify
  \/ NotifyFails
  \/ FinishExecution

Store ==
  \/ \E p \in Proposal : StoreInsert(p)
  \/ StoreCommit
  \/ EndTick

World ==
  \/ ForeignCommit
  \/ \E p \in Proposal : Age(p)
  \/ ClockTurns
  \/ Crash

Next == Engine \/ Sleep \/ Execute \/ Store \/ World

Spec == Init /\ [][Next]_vars

\* Every coroutine that can run is resumed; a skill ends within its wall-clock
\* timeout; the wall clock enters and leaves the window; and a tick that finds the
\* process outside the window comes again and again.
Fairness ==
  /\ WF_vars(Check \/ Decide \/ DecideCommit \/ Reply \/ ReplyFails)
  /\ WF_vars(ExpireSelect \/ (\E p \in Proposal : ExpireRow(p)) \/ ExpireCommit)
  /\ WF_vars(Execute /\ hbPc # "idle")
  /\ WF_vars(StoreCommit \/ EndTick)
  /\ WF_vars(ClockTurns)
  /\ WF_vars(FallAsleep)
  /\ SF_vars(SelectApproved)

FairSpec == Spec /\ Fairness

--------------------------------------------------------------------------------
(* Properties.                                                                *)

TypeOK ==
  /\ db \in [Proposal -> Status] /\ disk \in [Proposal -> Status]
  /\ old \subseteq Proposal
  /\ engPc \in {"idle", "check", "update", "commit", "reply"}
  /\ cmd \in Command \cup {NoCommand}
  /\ (engPc # "idle") => cmd \in Command
  /\ engHit \in BOOLEAN
  /\ hbPc \in {"idle", "sleeping", "expiring", "loop", "running", "mark",
               "markCommit", "notify", "decide", "stored"}
  /\ todo \subseteq Proposal
  /\ cur \in Proposal \cup {NoProposal}
  /\ (hbPc \in {"running", "mark", "markCommit", "notify"}) => cur \in Proposal
  /\ target \in {"none", "executed", "expired"}
  /\ (hbPc \in {"mark", "markCommit", "notify"}) => target # "none"
  /\ hbHit \in BOOLEAN /\ sleepDone \in BOOLEAN /\ quiet \in BOOLEAN
  /\ crashes \in 0..MaxCrashes
  /\ consent \in [Proposal -> SUBSET User]
  /\ overtaken \subseteq Proposal
  /\ told \in [Proposal -> Verdict \cup {"none"}]
  /\ handled \in [Proposal -> Nat]
  /\ done \subseteq Proposal

\* No proposal is taken up for execution unless the user it belongs to approved
\* it: not one that is pending, rejected, stale or another user's
\* (ProposalExecutor.execute_approved against CoreEngine._cmd_approve).
ConsentBeforeHandling ==
  \A p \in Proposal : handled[p] > 0 => Owner[p] \in consent[p]

\* A proposal is taken up at most once in each life of the process: only a crash
\* between its effect and the commit of its new status runs it again.
HandledOncePerLife ==
  \A p \in Proposal : handled[p] <= 1 + crashes

\* A verdict given before a sleep phase read its list, or after it was done with
\* the row, stands once its user was told of it.  The connection and the disk keep
\* it, no crash reverts it and no later command or sleep phase changes it: a
\* rejection stays one, and an approved row changes only by the executor, which
\* may record it as expired once it has taken it up.  A verdict that overtook the
\* sleep phase may be overwritten, by "expired" alone.
VerdictStands ==
  \A p \in Proposal : \A status \in {db[p], disk[p]} :
    /\ told[p] = "approved" =>
         \/ status \in {"approved", "executed"}
         \/ status = "expired" /\ (handled[p] > 0 \/ p \in overtaken)
    /\ told[p] = "rejected" =>
         \/ status = "rejected"
         \/ status = "expired" /\ p \in overtaken

\* A proposal recorded as executed did take effect, whatever crashed or failed on
\* the way: the effect comes first, the status after it.
ExecutedTookEffect ==
  \A p \in Proposal :
    /\ KindOf[p] \in {"skill_execution", "trait_change"}
    /\ "executed" \in {db[p], disk[p]}
    => p \in done

\* An approval the user was told of is acted on: it does not expire without the
\* executor having taken the proposal up.
ApprovalIsActedOn ==
  \A p \in Proposal :
    told[p] = "approved" /\ db[p] = "expired" => handled[p] > 0

\* A rejection the user was told of is final, as the table of valid transitions
\* has no edge out of rejected.
RejectionIsFinal ==
  \A p \in Proposal : told[p] = "rejected" => db[p] = "rejected"

\* When the AI proposed a skill with a valid name and source and its owner
\* approved, executing the proposal installs it.
ValidSkillInstalls ==
  \A p \in Proposal :
    /\ KindOf[p] = "skill_proposal" /\ Asked[p] = "valid"
    /\ handled[p] > 0
    => db[p] # "expired"

\* An approved proposal does not stay approved for ever: some tick outside quiet
\* hours executes it or gives it up, whatever the other proposals of the list do.
ApprovedIsResolved ==
  \A p \in Proposal : db[p] = "approved" ~> db[p] # "approved"

\* A proposal nobody answers does not stay pending for ever: provided that sleep
\* phases keep happening (ticks are up to 24 hours apart and may all miss the
\* window), an old one is expired, however the commands interleave with them.
StaleIsExpired ==
  []<>(hbPc = "sleeping") =>
    \A p \in Proposal : (p \in old /\ db[p] = "pending") ~> db[p] # "pending"

\* What the code does with a row: the documented table, and one more edge, an
\* expiry that overwrites a rejection.
Lifecycle == INSTANCE ProposalLifecycle
  WITH status <- db, durable <- disk,
       Edges <- {<<"pending", "approved">>, <<"pending", "rejected">>,
                 <<"pending", "expired">>, <<"approved", "executed">>,
                 <<"approved", "expired">>, <<"rejected", "expired">>}

LifecycleSpec == Lifecycle!Spec
================================================================================
