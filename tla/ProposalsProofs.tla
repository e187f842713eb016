---------------------------- MODULE ProposalsProofs ----------------------------
(******************************************************************************)
(* Proofs about Proposals, for every set of proposals and users.              *)
(******************************************************************************)
EXTENDS Proposals, TLAPS

USE DEF dbVars, engVars, hbVars, worldVars, history

--------------------------------------------------------------------------------
(* Type correctness.                                                          *)

\* The initial state is well typed.
LEMMA InitTypeOK == Init => TypeOK
<1> SUFFICES ASSUME Init PROVE TypeOK
  OBVIOUS
<1>1. db \in [Proposal -> Status] /\ disk \in [Proposal -> Status]
  BY DEF Init, Status
<1>2. crashes \in 0..MaxCrashes
  BY ConstantsOK DEF ConstantsOK, Init
<1>3. /\ consent \in [Proposal -> SUBSET User]
      /\ told \in [Proposal -> Verdict \cup {"none"}]
      /\ handled \in [Proposal -> Nat]
  BY DEF Init
<1> QED
  BY <1>1, <1>2, <1>3 DEF Init, TypeOK

\* Every step of the engine preserves the types.
LEMMA EngineTypeOK == TypeOK /\ Engine => TypeOK'
<1> SUFFICES ASSUME TypeOK, Engine PROVE TypeOK'
  OBVIOUS
<1> USE ConstantsOK DEF ConstantsOK, TypeOK, Verdict, Command
<1>1. ASSUME NEW u \in User, NEW op \in Verdict, NEW p \in Proposal, Receive(u, op, p)
      PROVE  TypeOK'
  BY <1>1 DEF Receive
<1>2. CASE Check
  BY <1>2 DEF Check
<1>3. CASE Decide
  BY <1>3 DEF Decide, ConditionalUpdate, Matches, Status
<1>4. CASE DecideCommit
  BY <1>4 DEF DecideCommit, Committed
<1>5. CASE Reply
  BY <1>5 DEF Reply
<1>6. CASE ReplyFails
  BY <1>6 DEF ReplyFails
<1> QED
  BY <1>1, <1>2, <1>3, <1>4, <1>5, <1>6 DEF Engine

\* Every step of the sleep phase preserves the types.
LEMMA SleepTypeOK == TypeOK /\ Sleep => TypeOK'
<1> SUFFICES ASSUME TypeOK, Sleep PROVE TypeOK'
  OBVIOUS
<1> USE ConstantsOK DEF ConstantsOK, TypeOK
<1>1. CASE FallAsleep
  BY <1>1 DEF FallAsleep
<1>2. CASE ExpireSelect
  BY <1>2 DEF ExpireSelect
<1>3. ASSUME NEW p \in Proposal, ExpireRow(p) PROVE TypeOK'
  BY <1>3 DEF ExpireRow, Status
<1>4. CASE ExpireCommit
  BY <1>4 DEF ExpireCommit, Committed
<1> QED
  BY <1>1, <1>2, <1>3, <1>4 DEF Sleep

\* Every step of the executor preserves the types.
LEMMA ExecuteTypeOK == TypeOK /\ Execute => TypeOK'
<1> SUFFICES ASSUME TypeOK, Execute PROVE TypeOK'
  OBVIOUS
<1> USE ConstantsOK DEF ConstantsOK, TypeOK
<1>1. CASE SelectApproved
  BY <1>1 DEF SelectApproved
<1>2. ASSUME NEW p \in Proposal, TakeGeneral(p) PROVE TypeOK'
  BY <1>2 DEF TakeGeneral, TakeUp
<1>3. ASSUME NEW p \in Proposal, TakeSkill(p) PROVE TypeOK'
  BY <1>3 DEF TakeSkill, TakeUp
<1>4. ASSUME NEW p \in Proposal, TakeMissingSkill(p) PROVE TypeOK'
  BY <1>4 DEF TakeMissingSkill, TakeUp
<1>5. ASSUME NEW p \in Proposal, TakeTrait(p) PROVE TypeOK'
  BY <1>5 DEF TakeTrait, TakeUp
<1>6. ASSUME NEW p \in Proposal, TakeTraitFails(p) PROVE TypeOK'
  BY <1>6 DEF TakeTraitFails, TakeUp
<1>7. ASSUME NEW p \in Proposal, TakeCreation(p) PROVE TypeOK'
  BY <1>7 DEF TakeCreation, TakeUp
<1>8. CASE SkillReturns
  BY <1>8 DEF SkillReturns
<1>9. CASE SkillRaises
  BY <1>9 DEF SkillRaises
<1>10. CASE Mark
  BY <1>10 DEF Mark, ConditionalUpdate, Matches, Status
<1>11. CASE MarkCommit
  BY <1>11 DEF MarkCommit, RaiseHandling, Committed
<1>12. CASE Notify
  BY <1>12 DEF Notify
<1>13. CASE NotifyFails
  BY <1>13 DEF NotifyFails, RaiseHandling
<1>14. CASE FinishExecution
  BY <1>14 DEF FinishExecution
<1>15. ASSUME \E p \in Proposal :
                \/ TakeGeneral(p) \/ TakeSkill(p) \/ TakeMissingSkill(p)
                \/ TakeTrait(p) \/ TakeTraitFails(p) \/ TakeCreation(p)
       PROVE  TypeOK'
  BY <1>2, <1>3, <1>4, <1>5, <1>6, <1>7, <1>15
<1> QED
  BY <1>1, <1>8, <1>9, <1>10, <1>11, <1>12, <1>13, <1>14, <1>15 DEF Execute

\* Storing proposals, other tasks, the clock and a crash preserve the types.
LEMMA RestTypeOK == TypeOK /\ (Store \/ World) => TypeOK'
<1> SUFFICES ASSUME TypeOK, Store \/ World PROVE TypeOK'
  OBVIOUS
<1> USE ConstantsOK DEF ConstantsOK, TypeOK
<1>1. ASSUME NEW p \in Proposal, StoreInsert(p) PROVE TypeOK'
  BY <1>1 DEF StoreInsert, Status
<1>2. CASE StoreCommit
  BY <1>2 DEF StoreCommit, Committed
<1>3. CASE EndTick
  BY <1>3 DEF EndTick
<1>4. CASE ForeignCommit
  BY <1>4 DEF ForeignCommit, Committed
<1>5. ASSUME NEW p \in Proposal, Age(p) PROVE TypeOK'
  BY <1>5 DEF Age
<1>6. CASE ClockTurns
  BY <1>6 DEF ClockTurns
<1>7. CASE Crash
  <2>1. crashes' \in 0..MaxCrashes
    BY <1>7 DEF Crash
  <2>2. old' \subseteq Proposal
    BY <1>7 DEF Crash
  <2> QED
    BY <1>7, <2>1, <2>2 DEF Crash
<1> QED
  BY <1>1, <1>2, <1>3, <1>4, <1>5, <1>6, <1>7 DEF Store, World

\* Every reachable state is well typed: the command handler and the executor
\* always know which proposal they are working on.
THEOREM TypeCorrect == Spec => []TypeOK
<1>1. TypeOK /\ [Next]_vars => TypeOK'
  <2>1. TypeOK /\ UNCHANGED vars => TypeOK'
    BY DEF TypeOK, vars
  <2> QED
    BY <2>1, EngineTypeOK, SleepTypeOK, ExecuteTypeOK, RestTypeOK DEF Next
<1> QED
  BY InitTypeOK, <1>1, PTL DEF Spec

--------------------------------------------------------------------------------
(* The inductive invariant of the two tasks.                                  *)

\* What a copy of row p can be once its owner has had this verdict recorded.
Stands(p, op, status) ==
  /\ op = "approved" =>
       \/ status \in {"approved", "executed"}
       \/ status = "expired" /\ (handled[p] > 0 \/ p \in overtaken)
  /\ op = "rejected" =>
       \/ status = "rejected"
       \/ status = "expired" /\ p \in overtaken

Executing == {"loop", "running", "mark", "markCommit", "notify"}

HasEffect(p) == KindOf[p] \in {"skill_execution", "trait_change"}

\* The command in flight: past its test the owner sent it, past its UPDATE the row
\* shows its verdict, past its commit the disk does.
EngineInv ==
  /\ engPc = "update" => Owner[cmd.id] = cmd.user
  /\ (engPc = "commit" /\ engHit) \/ engPc = "reply" =>
       Stands(cmd.id, cmd.op, db[cmd.id])
  /\ engPc = "reply" => Stands(cmd.id, cmd.op, disk[cmd.id])

\* The tick in flight: nobody else touches the approved rows of its list, nor the
\* row it is executing.
ExecutorInv ==
  /\ hbPc \in Executing => \A p \in todo : db[p] = "approved"
  /\ hbPc \in Executing \ {"loop"} => cur \notin todo /\ handled[cur] > 0
  /\ hbPc = "running" => db[cur] = "approved"
  /\ hbPc = "mark" =>
       \/ db[cur] = "approved"
       \/ target = "expired" /\ db[cur] = "executed"
  /\ hbPc \in {"markCommit", "notify"} => db[cur] \in {"executed", "expired"}
  /\ hbPc \in {"markCommit", "notify"} /\ target = "executed" =>
       db[cur] = "executed"

\* The rows a sleep phase has still to expire were pending when it read them and
\* may only have been answered since, by a verdict that overtook it.
SleepInv ==
  hbPc = "expiring" =>
    \A p \in todo : db[p] = "pending" \/ (db[p] \in Verdict /\ p \in overtaken)

\* A row that is or was approved has its owner's consent.
ConsentInv ==
  \A p \in Proposal :
    \/ {db[p], disk[p]} \cap {"approved", "executed"} # {}
    \/ handled[p] > 0
    => Owner[p] \in consent[p]

\* A row the executor could still take up has not been taken up in this life.
OnceInv ==
  \A p \in Proposal :
    /\ handled[p] <= 1 + crashes
    /\ \/ db[p] \in {Absent, "pending"}
       \/ db[p] = "approved" /\ ~(hbPc \in {"running", "mark"} /\ cur = p)
       => handled[p] <= crashes

\* A row about to be marked executed has had its effect.
EffectInv ==
  /\ hbPc = "mark" /\ target = "executed" /\ HasEffect(cur) => cur \in done
  /\ ExecutedTookEffect

IInv ==
  /\ TypeOK
  /\ EngineInv
  /\ ExecutorInv
  /\ SleepInv
  /\ ConsentInv
  /\ OnceInv
  /\ VerdictStands
  /\ EffectInv

\* The initial state satisfies it.
LEMMA InitIInv == Init => IInv
<1> SUFFICES ASSUME Init PROVE IInv
  OBVIOUS
<1>1. TypeOK
  BY InitTypeOK
<1>2. EngineInv /\ ExecutorInv /\ SleepInv
  BY DEF Init, EngineInv, ExecutorInv, SleepInv, Executing
<1>3. ConsentInv /\ OnceInv /\ VerdictStands /\ EffectInv
  BY DEF Init, ConsentInv, OnceInv, VerdictStands, EffectInv, ExecutedTookEffect,
         Absent
<1> QED
  BY <1>1, <1>2, <1>3 DEF IInv

\* No step disturbs the command in flight.
LEMMA EngineStep == IInv /\ Next => EngineInv'
<1> SUFFICES ASSUME IInv, Next PROVE EngineInv'
  OBVIOUS
<1> USE DEF IInv, TypeOK, EngineInv, ExecutorInv, SleepInv, VerdictStands, Stands,
           Executing, Absent, Verdict, Command
<1>1. CASE Engine
  <2>1. ASSUME NEW u \in User, NEW op \in Verdict, NEW p \in Proposal,
               Receive(u, op, p)
        PROVE  EngineInv'
    BY <2>1 DEF Receive
  <2>2. CASE Check
    BY <2>2 DEF Check
  <2>3. CASE Decide
    BY <2>3 DEF Decide, ConditionalUpdate, Matches, Sources
  <2>4. CASE DecideCommit
    BY <2>4 DEF DecideCommit, Committed
  <2>5. CASE Reply \/ ReplyFails
    BY <2>5 DEF Reply, ReplyFails
  <2> QED
    BY <1>1, <2>1, <2>2, <2>3, <2>4, <2>5 DEF Engine
<1>2. CASE Sleep
  <2>1. CASE FallAsleep \/ ExpireSelect \/ ExpireCommit
    BY <2>1 DEF FallAsleep, ExpireSelect, ExpireCommit, Committed
  <2>2. ASSUME NEW p \in Proposal, ExpireRow(p) PROVE EngineInv'
    BY <2>2 DEF ExpireRow
  <2> QED
    BY <1>2, <2>1, <2>2 DEF Sleep
<1>3. CASE Execute
  <2>1. CASE SelectApproved
    BY <2>1 DEF SelectApproved
  <2>2. ASSUME NEW p \in Proposal,
               \/ TakeGeneral(p) \/ TakeSkill(p) \/ TakeMissingSkill(p)
               \/ TakeTrait(p) \/ TakeTraitFails(p) \/ TakeCreation(p)
        PROVE  EngineInv'
    BY <2>2 DEF TakeGeneral, TakeSkill, TakeMissingSkill, TakeTrait,
                TakeTraitFails, TakeCreation, TakeUp
  <2>3. CASE SkillReturns \/ SkillRaises
    BY <2>3 DEF SkillReturns, SkillRaises
  <2>4. CASE Mark
    BY <2>4 DEF Mark, ConditionalUpdate, Matches, Sources
  <2>5. CASE MarkCommit
    BY <2>5 DEF MarkCommit, RaiseHandling, Committed
  <2>6. CASE Notify \/ NotifyFails
    BY <2>6 DEF Notify, NotifyFails, RaiseHandling
  <2>7. CASE FinishExecution
    BY <2>7 DEF FinishExecution
  <2> QED
    BY <1>3, <2>1, <2>2, <2>3, <2>4, <2>5, <2>6, <2>7 DEF Execute
<1>4. CASE Store
  <2>1. ASSUME NEW p \in Proposal, StoreInsert(p) PROVE EngineInv'
    BY <2>1 DEF StoreInsert
  <2>2. CASE StoreCommit \/ EndTick
    BY <2>2 DEF StoreCommit, EndTick, Committed
  <2> QED
    BY <1>4, <2>1, <2>2 DEF Store
<1>5. CASE World
  <2>1. CASE ForeignCommit
    BY <2>1 DEF ForeignCommit, Committed
  <2>2. ASSUME NEW p \in Proposal, Age(p) PROVE EngineInv'
    BY <2>2 DEF Age
  <2>3. CASE ClockTurns
    BY <2>3 DEF ClockTurns
  <2>4. CASE Crash
    BY <2>4 DEF Crash
  <2> QED
    BY <1>5, <2>1, <2>2, <2>3, <2>4 DEF World
<1> QED
  BY <1>1, <1>2, <1>3, <1>4, <1>5 DEF Next

\* No step disturbs the tick in flight.
LEMMA ExecutorStep == IInv /\ Next => ExecutorInv'
<1> SUFFICES ASSUME IInv, Next PROVE ExecutorInv'
  OBVIOUS
<1> USE DEF IInv, TypeOK, ExecutorInv, Executing, Absent, Verdict, Command
<1>1. CASE Engine
  <2>1. ASSUME NEW u \in User, NEW op \in Verdict, NEW p \in Proposal,
               Receive(u, op, p)
        PROVE  ExecutorInv'
    BY <2>1 DEF Receive
  <2>2. CASE Check
    BY <2>2 DEF Check
  <2>3. CASE Decide
    BY <2>3 DEF Decide, ConditionalUpdate, Matches, Sources
  <2>4. CASE DecideCommit
    BY <2>4 DEF DecideCommit, Committed
  <2>5. CASE Reply \/ ReplyFails
    BY <2>5 DEF Reply, ReplyFails
  <2> QED
    BY <1>1, <2>1, <2>2, <2>3, <2>4, <2>5 DEF Engine
<1>2. CASE Sleep
  <2>1. CASE FallAsleep \/ ExpireSelect \/ ExpireCommit
    BY <2>1 DEF FallAsleep, ExpireSelect, ExpireCommit, Committed
  <2>2. ASSUME NEW p \in Proposal, ExpireRow(p) PROVE ExecutorInv'
    BY <2>2 DEF ExpireRow
  <2> QED
    BY <1>2, <2>1, <2>2 DEF Sleep
<1>3. CASE Execute
  <2>1. CASE SelectApproved
    BY <2>1 DEF SelectApproved
  <2>2. ASSUME NEW p \in Proposal,
               \/ TakeGeneral(p) \/ TakeSkill(p) \/ TakeMissingSkill(p)
               \/ TakeTrait(p) \/ TakeTraitFails(p) \/ TakeCreation(p)
        PROVE  ExecutorInv'
    BY <2>2 DEF TakeGeneral, TakeSkill, TakeMissingSkill, TakeTrait,
                TakeTraitFails, TakeCreation, TakeUp
  <2>3. CASE SkillReturns \/ SkillRaises
    BY <2>3 DEF SkillReturns, SkillRaises
  <2>4. CASE Mark
    BY <2>4 DEF Mark, ConditionalUpdate, Matches, Sources
  <2>5. CASE MarkCommit
    BY <2>5 DEF MarkCommit, RaiseHandling, Committed
  <2>6. CASE Notify \/ NotifyFails
    BY <2>6 DEF Notify, NotifyFails, RaiseHandling
  <2>7. CASE FinishExecution
    BY <2>7 DEF FinishExecution
  <2> QED
    BY <1>3, <2>1, <2>2, <2>3, <2>4, <2>5, <2>6, <2>7 DEF Execute
<1>4. CASE Store
  <2>1. ASSUME NEW p \in Proposal, StoreInsert(p) PROVE ExecutorInv'
    BY <2>1 DEF StoreInsert
  <2>2. CASE StoreCommit \/ EndTick
    BY <2>2 DEF StoreCommit, EndTick, Committed
  <2> QED
    BY <1>4, <2>1, <2>2 DEF Store
<1>5. CASE World
  <2>1. CASE ForeignCommit
    BY <2>1 DEF ForeignCommit, Committed
  <2>2. ASSUME NEW p \in Proposal, Age(p) PROVE ExecutorInv'
    BY <2>2 DEF Age
  <2>3. CASE ClockTurns
    BY <2>3 DEF ClockTurns
  <2>4. CASE Crash
    BY <2>4 DEF Crash
  <2> QED
    BY <1>5, <2>1, <2>2, <2>3, <2>4 DEF World
<1> QED
  BY <1>1, <1>2, <1>3, <1>4, <1>5 DEF Next

\* Only an answer changes a row a sleep phase is about to expire.
LEMMA SleepStep == IInv /\ Next => SleepInv'
<1> SUFFICES ASSUME IInv, Next PROVE SleepInv'
  OBVIOUS
<1> USE DEF IInv, TypeOK, ExecutorInv, SleepInv, Executing, Absent, Verdict, Command
<1>1. CASE Engine
  <2>1. ASSUME NEW u \in User, NEW op \in Verdict, NEW p \in Proposal,
               Receive(u, op, p)
        PROVE  SleepInv'
    BY <2>1 DEF Receive
  <2>2. CASE Check
    BY <2>2 DEF Check
  <2>3. CASE Decide
    BY <2>3 DEF Decide, ConditionalUpdate, Matches, Sources
  <2>4. CASE DecideCommit
    BY <2>4 DEF DecideCommit, Committed
  <2>5. CASE Reply \/ ReplyFails
    BY <2>5 DEF Reply, ReplyFails
  <2> QED
    BY <1>1, <2>1, <2>2, <2>3, <2>4, <2>5 DEF Engine
<1>2. CASE Sleep
  <2>1. CASE FallAsleep \/ ExpireSelect \/ ExpireCommit
    BY <2>1 DEF FallAsleep, ExpireSelect, ExpireCommit, Committed
  <2>2. ASSUME NEW p \in Proposal, ExpireRow(p) PROVE SleepInv'
    BY <2>2 DEF ExpireRow
  <2> QED
    BY <1>2, <2>1, <2>2 DEF Sleep
<1>3. CASE Execute
  <2>1. CASE SelectApproved
    BY <2>1 DEF SelectApproved
  <2>2. ASSUME NEW p \in Proposal,
               \/ TakeGeneral(p) \/ TakeSkill(p) \/ TakeMissingSkill(p)
               \/ TakeTrait(p) \/ TakeTraitFails(p) \/ TakeCreation(p)
        PROVE  SleepInv'
    BY <2>2 DEF TakeGeneral, TakeSkill, TakeMissingSkill, TakeTrait,
                TakeTraitFails, TakeCreation, TakeUp
  <2>3. CASE SkillReturns \/ SkillRaises
    BY <2>3 DEF SkillReturns, SkillRaises
  <2>4. CASE Mark
    BY <2>4 DEF Mark, ConditionalUpdate, Matches, Sources
  <2>5. CASE MarkCommit
    BY <2>5 DEF MarkCommit, RaiseHandling, Committed
  <2>6. CASE Notify \/ NotifyFails
    BY <2>6 DEF Notify, NotifyFails, RaiseHandling
  <2>7. CASE FinishExecution
    BY <2>7 DEF FinishExecution
  <2> QED
    BY <1>3, <2>1, <2>2, <2>3, <2>4, <2>5, <2>6, <2>7 DEF Execute
<1>4. CASE Store
  <2>1. ASSUME NEW p \in Proposal, StoreInsert(p) PROVE SleepInv'
    BY <2>1 DEF StoreInsert
  <2>2. CASE StoreCommit \/ EndTick
    BY <2>2 DEF StoreCommit, EndTick, Committed
  <2> QED
    BY <1>4, <2>1, <2>2 DEF Store
<1>5. CASE World
  <2>1. CASE ForeignCommit
    BY <2>1 DEF ForeignCommit, Committed
  <2>2. ASSUME NEW p \in Proposal, Age(p) PROVE SleepInv'
    BY <2>2 DEF Age
  <2>3. CASE ClockTurns
    BY <2>3 DEF ClockTurns
  <2>4. CASE Crash
    BY <2>4 DEF Crash
  <2> QED
    BY <1>5, <2>1, <2>2, <2>3, <2>4 DEF World
<1> QED
  BY <1>1, <1>2, <1>3, <1>4, <1>5 DEF Next

\* A row becomes approved by its owner's command and executed from approved only.
LEMMA ConsentStep == IInv /\ Next => ConsentInv'
<1> SUFFICES ASSUME IInv, Next PROVE ConsentInv'
  OBVIOUS
<1> USE DEF IInv, TypeOK, EngineInv, ExecutorInv, ConsentInv, Executing, Absent,
           Verdict, Command
<1>1. CASE Engine
  <2>1. ASSUME NEW u \in User, NEW op \in Verdict, NEW p \in Proposal,
               Receive(u, op, p)
        PROVE  ConsentInv'
    BY <2>1 DEF Receive
  <2>2. CASE Check
    BY <2>2 DEF Check
  <2>3. CASE Decide
    BY <2>3 DEF Decide, ConditionalUpdate, Matches, Sources
  <2>4. CASE DecideCommit
    BY <2>4 DEF DecideCommit, Committed
  <2>5. CASE Reply \/ ReplyFails
    BY <2>5 DEF Reply, ReplyFails
  <2> QED
    BY <1>1, <2>1, <2>2, <2>3, <2>4, <2>5 DEF Engine
<1>2. CASE Sleep
  <2>1. CASE FallAsleep \/ ExpireSelect \/ ExpireCommit
    BY <2>1 DEF FallAsleep, ExpireSelect, ExpireCommit, Committed
  <2>2. ASSUME NEW p \in Proposal, ExpireRow(p) PROVE ConsentInv'
    BY <2>2 DEF ExpireRow
  <2> QED
    BY <1>2, <2>1, <2>2 DEF Sleep
<1>3. CASE Execute
  <2>1. CASE SelectApproved
    BY <2>1 DEF SelectApproved
  <2>2. ASSUME NEW p \in Proposal,
               \/ TakeGeneral(p) \/ TakeSkill(p) \/ TakeMissingSkill(p)
               \/ TakeTrait(p) \/ TakeTraitFails(p) \/ TakeCreation(p)
        PROVE  ConsentInv'
    BY <2>2 DEF TakeGeneral, TakeSkill, TakeMissingSkill, TakeTrait,
                TakeTraitFails, TakeCreation, TakeUp
  <2>3. CASE SkillReturns \/ SkillRaises
    BY <2>3 DEF SkillReturns, SkillRaises
  <2>4. CASE Mark
    BY <2>4 DEF Mark, ConditionalUpdate, Matches, Sources
  <2>5. CASE MarkCommit
    BY <2>5 DEF MarkCommit, RaiseHandling, Committed
  <2>6. CASE Notify \/ NotifyFails
    BY <2>6 DEF Notify, NotifyFails, RaiseHandling
  <2>7. CASE FinishExecution
    BY <2>7 DEF FinishExecution
  <2> QED
    BY <1>3, <2>1, <2>2, <2>3, <2>4, <2>5, <2>6, <2>7 DEF Execute
<1>4. CASE Store
  <2>1. ASSUME NEW p \in Proposal, StoreInsert(p) PROVE ConsentInv'
    BY <2>1 DEF StoreInsert
  <2>2. CASE StoreCommit \/ EndTick
    BY <2>2 DEF StoreCommit, EndTick, Committed
  <2> QED
    BY <1>4, <2>1, <2>2 DEF Store
<1>5. CASE World
  <2>1. CASE ForeignCommit
    BY <2>1 DEF ForeignCommit, Committed
  <2>2. ASSUME NEW p \in Proposal, Age(p) PROVE ConsentInv'
    BY <2>2 DEF Age
  <2>3. CASE ClockTurns
    BY <2>3 DEF ClockTurns
  <2>4. CASE Crash
    BY <2>4 DEF Crash
  <2> QED
    BY <1>5, <2>1, <2>2, <2>3, <2>4 DEF World
<1> QED
  BY <1>1, <1>2, <1>3, <1>4, <1>5 DEF Next

\* Taking a proposal up moves it out of reach of the executor until a crash.
LEMMA OnceStep == IInv /\ Next => OnceInv'
<1> SUFFICES ASSUME IInv, Next PROVE OnceInv'
  OBVIOUS
<1> USE DEF IInv, TypeOK, EngineInv, ExecutorInv, OnceInv, Executing, Absent,
           Verdict, Command
<1>1. CASE Engine
  <2>1. ASSUME NEW u \in User, NEW op \in Verdict, NEW p \in Proposal,
               Receive(u, op, p)
        PROVE  OnceInv'
    BY <2>1 DEF Receive
  <2>2. CASE Check
    BY <2>2 DEF Check
  <2>3. CASE Decide
    BY <2>3 DEF Decide, ConditionalUpdate, Matches, Sources
  <2>4. CASE DecideCommit
    BY <2>4 DEF DecideCommit, Committed
  <2>5. CASE Reply \/ ReplyFails
    BY <2>5 DEF Reply, ReplyFails
  <2> QED
    BY <1>1, <2>1, <2>2, <2>3, <2>4, <2>5 DEF Engine
<1>2. CASE Sleep
  <2>1. CASE FallAsleep \/ ExpireSelect \/ ExpireCommit
    BY <2>1 DEF FallAsleep, ExpireSelect, ExpireCommit, Committed
  <2>2. ASSUME NEW p \in Proposal, ExpireRow(p) PROVE OnceInv'
    BY <2>2 DEF ExpireRow
  <2> QED
    BY <1>2, <2>1, <2>2 DEF Sleep
<1>3. CASE Execute
  <2>1. CASE SelectApproved
    BY <2>1 DEF SelectApproved
  <2>2. ASSUME NEW p \in Proposal,
               \/ TakeGeneral(p) \/ TakeSkill(p) \/ TakeMissingSkill(p)
               \/ TakeTrait(p) \/ TakeTraitFails(p) \/ TakeCreation(p)
        PROVE  OnceInv'
    BY <2>2 DEF TakeGeneral, TakeSkill, TakeMissingSkill, TakeTrait,
                TakeTraitFails, TakeCreation, TakeUp
  <2>3. CASE SkillReturns \/ SkillRaises
    BY <2>3 DEF SkillReturns, SkillRaises
  <2>4. CASE Mark
    BY <2>4 DEF Mark, ConditionalUpdate, Matches, Sources
  <2>5. CASE MarkCommit
    BY <2>5 DEF MarkCommit, RaiseHandling, Committed
  <2>6. CASE Notify \/ NotifyFails
    BY <2>6 DEF Notify, NotifyFails, RaiseHandling
  <2>7. CASE FinishExecution
    BY <2>7 DEF FinishExecution
  <2> QED
    BY <1>3, <2>1, <2>2, <2>3, <2>4, <2>5, <2>6, <2>7 DEF Execute
<1>4. CASE Store
  <2>1. ASSUME NEW p \in Proposal, StoreInsert(p) PROVE OnceInv'
    BY <2>1 DEF StoreInsert
  <2>2. CASE StoreCommit \/ EndTick
    BY <2>2 DEF StoreCommit, EndTick, Committed
  <2> QED
    BY <1>4, <2>1, <2>2 DEF Store
<1>5. CASE World
  <2>1. CASE ForeignCommit
    BY <2>1 DEF ForeignCommit, Committed
  <2>2. ASSUME NEW p \in Proposal, Age(p) PROVE OnceInv'
    BY <2>2 DEF Age
  <2>3. CASE ClockTurns
    BY <2>3 DEF ClockTurns
  <2>4. CASE Crash
    BY <2>4 DEF Crash
  <2> QED
    BY <1>5, <2>1, <2>2, <2>3, <2>4 DEF World
<1> QED
  BY <1>1, <1>2, <1>3, <1>4, <1>5 DEF Next

\* A verdict the user was told of keeps its place in both copies of the row.
LEMMA VerdictStep == IInv /\ Next => VerdictStands'
<1> SUFFICES ASSUME IInv, Next PROVE VerdictStands'
  OBVIOUS
<1> USE DEF IInv, TypeOK, EngineInv, ExecutorInv, VerdictStands, SleepInv, Stands, Executing,
           Absent, Verdict, Command
<1>1. CASE Engine
  <2>1. ASSUME NEW u \in User, NEW op \in Verdict, NEW p \in Proposal,
               Receive(u, op, p)
        PROVE  VerdictStands'
    BY <2>1 DEF Receive
  <2>2. CASE Check
    BY <2>2 DEF Check
  <2>3. CASE Decide
    <3>1. UNCHANGED <<disk, told, handled>>
      BY <2>3 DEF Decide, history
    <3>2. CASE Matches(cmd.id, cmd.op)
      <4>1. cmd.id \in Proposal /\ db[cmd.id] = "pending"
        BY <2>3, <3>2 DEF Decide, Matches, Sources
      <4>2. told[cmd.id] \notin {"approved", "rejected"}
        BY <4>1
      <4>3. \A p \in Proposal : p # cmd.id =>
              db'[p] = db[p] /\ (p \in overtaken' <=> p \in overtaken)
        BY <2>3, <3>2 DEF Decide, ConditionalUpdate
      <4> QED
        BY <3>1, <4>2, <4>3 DEF VerdictStands
    <3>3. CASE ~Matches(cmd.id, cmd.op)
      <4>1. UNCHANGED <<db, overtaken>>
        BY <2>3, <3>3 DEF Decide, ConditionalUpdate
      <4> QED
        BY <3>1, <4>1
    <3> QED
      BY <3>2, <3>3
  <2>4. CASE DecideCommit
    BY <2>4 DEF DecideCommit, Committed
  <2>5. CASE Reply \/ ReplyFails
    BY <2>5 DEF Reply, ReplyFails
  <2> QED
    BY <1>1, <2>1, <2>2, <2>3, <2>4, <2>5 DEF Engine
<1>2. CASE Sleep
  <2>1. CASE FallAsleep \/ ExpireSelect \/ ExpireCommit
    BY <2>1 DEF FallAsleep, ExpireSelect, ExpireCommit, Committed
  <2>2. ASSUME NEW p \in Proposal, ExpireRow(p) PROVE VerdictStands'
    BY <2>2 DEF ExpireRow
  <2> QED
    BY <1>2, <2>1, <2>2 DEF Sleep
<1>3. CASE Execute
  <2>1. CASE SelectApproved
    BY <2>1 DEF SelectApproved
  <2>2. ASSUME NEW p \in Proposal,
               \/ TakeGeneral(p) \/ TakeSkill(p) \/ TakeMissingSkill(p)
               \/ TakeTrait(p) \/ TakeTraitFails(p) \/ TakeCreation(p)
        PROVE  VerdictStands'
    BY <2>2 DEF TakeGeneral, TakeSkill, TakeMissingSkill, TakeTrait,
                TakeTraitFails, TakeCreation, TakeUp
  <2>3. CASE SkillReturns \/ SkillRaises
    BY <2>3 DEF SkillReturns, SkillRaises
  <2>4. CASE Mark
    BY <2>4 DEF Mark, ConditionalUpdate, Matches, Sources
  <2>5. CASE MarkCommit
    BY <2>5 DEF MarkCommit, RaiseHandling, Committed
  <2>6. CASE Notify \/ NotifyFails
    BY <2>6 DEF Notify, NotifyFails, RaiseHandling
  <2>7. CASE FinishExecution
    BY <2>7 DEF FinishExecution
  <2> QED
    BY <1>3, <2>1, <2>2, <2>3, <2>4, <2>5, <2>6, <2>7 DEF Execute
<1>4. CASE Store
  <2>1. ASSUME NEW p \in Proposal, StoreInsert(p) PROVE VerdictStands'
    BY <2>1 DEF StoreInsert
  <2>2. CASE StoreCommit \/ EndTick
    BY <2>2 DEF StoreCommit, EndTick, Committed
  <2> QED
    BY <1>4, <2>1, <2>2 DEF Store
<1>5. CASE World
  <2>1. CASE ForeignCommit
    BY <2>1 DEF ForeignCommit, Committed
  <2>2. ASSUME NEW p \in Proposal, Age(p) PROVE VerdictStands'
    BY <2>2 DEF Age
  <2>3. CASE ClockTurns
    BY <2>3 DEF ClockTurns
  <2>4. CASE Crash
    BY <2>4 DEF Crash
  <2> QED
    BY <1>5, <2>1, <2>2, <2>3, <2>4 DEF World
<1> QED
  BY <1>1, <1>2, <1>3, <1>4, <1>5 DEF Next

\* A row is marked executed after its effect.
LEMMA EffectStep == IInv /\ Next => EffectInv'
<1> SUFFICES ASSUME IInv, Next PROVE EffectInv'
  OBVIOUS
<1> USE DEF IInv, TypeOK, ExecutorInv, EffectInv, ExecutedTookEffect, HasEffect, Executing,
           Absent, Verdict, Command
<1>1. CASE Engine
  <2>1. ASSUME NEW u \in User, NEW op \in Verdict, NEW p \in Proposal,
               Receive(u, op, p)
        PROVE  EffectInv'
    BY <2>1 DEF Receive
  <2>2. CASE Check
    BY <2>2 DEF Check
  <2>3. CASE Decide
    BY <2>3 DEF Decide, ConditionalUpdate, Matches, Sources
  <2>4. CASE DecideCommit
    BY <2>4 DEF DecideCommit, Committed
  <2>5. CASE Reply \/ ReplyFails
    BY <2>5 DEF Reply, ReplyFails
  <2> QED
    BY <1>1, <2>1, <2>2, <2>3, <2>4, <2>5 DEF Engine
<1>2. CASE Sleep
  <2>1. CASE FallAsleep \/ ExpireSelect \/ ExpireCommit
    BY <2>1 DEF FallAsleep, ExpireSelect, ExpireCommit, Committed
  <2>2. ASSUME NEW p \in Proposal, ExpireRow(p) PROVE EffectInv'
    BY <2>2 DEF ExpireRow
  <2> QED
    BY <1>2, <2>1, <2>2 DEF Sleep
<1>3. CASE Execute
  <2>1. CASE SelectApproved
    BY <2>1 DEF SelectApproved
  <2>2. ASSUME NEW p \in Proposal,
               \/ TakeGeneral(p) \/ TakeSkill(p) \/ TakeMissingSkill(p)
               \/ TakeTrait(p) \/ TakeTraitFails(p) \/ TakeCreation(p)
        PROVE  EffectInv'
    BY <2>2 DEF TakeGeneral, TakeSkill, TakeMissingSkill, TakeTrait,
                TakeTraitFails, TakeCreation, TakeUp
  <2>3. CASE SkillReturns \/ SkillRaises
    BY <2>3 DEF SkillReturns, SkillRaises
  <2>4. CASE Mark
    BY <2>4 DEF Mark, ConditionalUpdate, Matches, Sources
  <2>5. CASE MarkCommit
    BY <2>5 DEF MarkCommit, RaiseHandling, Committed
  <2>6. CASE Notify \/ NotifyFails
    BY <2>6 DEF Notify, NotifyFails, RaiseHandling
  <2>7. CASE FinishExecution
    BY <2>7 DEF FinishExecution
  <2> QED
    BY <1>3, <2>1, <2>2, <2>3, <2>4, <2>5, <2>6, <2>7 DEF Execute
<1>4. CASE Store
  <2>1. ASSUME NEW p \in Proposal, StoreInsert(p) PROVE EffectInv'
    BY <2>1 DEF StoreInsert
  <2>2. CASE StoreCommit \/ EndTick
    BY <2>2 DEF StoreCommit, EndTick, Committed
  <2> QED
    BY <1>4, <2>1, <2>2 DEF Store
<1>5. CASE World
  <2>1. CASE ForeignCommit
    BY <2>1 DEF ForeignCommit, Committed
  <2>2. ASSUME NEW p \in Proposal, Age(p) PROVE EffectInv'
    BY <2>2 DEF Age
  <2>3. CASE ClockTurns
    BY <2>3 DEF ClockTurns
  <2>4. CASE Crash
    BY <2>4 DEF Crash
  <2> QED
    BY <1>5, <2>1, <2>2, <2>3, <2>4 DEF World
<1> QED
  BY <1>1, <1>2, <1>3, <1>4, <1>5 DEF Next

\* The invariant is inductive.
THEOREM Inductive == Spec => []IInv
<1>1. IInv /\ [Next]_vars => IInv'
  <2>1. IInv /\ Next => IInv'
    <3>1. IInv /\ Next => TypeOK'
      BY EngineTypeOK, SleepTypeOK, ExecuteTypeOK, RestTypeOK DEF IInv, Next
    <3> QED
      BY <3>1, EngineStep, ExecutorStep, SleepStep, ConsentStep, OnceStep, VerdictStep,
         EffectStep DEF IInv
  <2>2. IInv /\ UNCHANGED vars => IInv'
    BY DEF IInv, TypeOK, EngineInv, ExecutorInv, SleepInv, ConsentInv, OnceInv,
           VerdictStands, Stands, EffectInv, ExecutedTookEffect, HasEffect, vars
  <2> QED
    BY <2>1, <2>2
<1> QED
  BY InitIInv, <1>1, PTL DEF Spec

--------------------------------------------------------------------------------
(* The properties the runs check.                                             *)

\* Nothing is taken up for execution without its owner's approval.
THEOREM Consent == Spec => []ConsentBeforeHandling
<1>1. IInv => ConsentBeforeHandling
  BY DEF IInv, ConsentInv, ConsentBeforeHandling
<1> QED
  BY <1>1, Inductive, PTL

\* A proposal is taken up at most once per life of the process.
THEOREM OncePerLife == Spec => []HandledOncePerLife
<1>1. IInv => HandledOncePerLife
  BY DEF IInv, OnceInv, HandledOncePerLife
<1> QED
  BY <1>1, Inductive, PTL

\* A verdict the user was told of is durable, and unless it overtook a sleep phase
\* that had already read its row it stands: a rejection for good, an approval until
\* the executor has taken it up.
THEOREM VerdictSafe == Spec => []VerdictStands
<1>1. IInv => VerdictStands
  BY DEF IInv
<1> QED
  BY <1>1, Inductive, PTL

\* A proposal recorded as executed took effect.
THEOREM EffectFirst == Spec => []ExecutedTookEffect
<1>1. IInv => ExecutedTookEffect
  BY DEF IInv, EffectInv
<1> QED
  BY <1>1, Inductive, PTL

--------------------------------------------------------------------------------
(* Refinement.                                                                *)

\* What a command names.
LEMMA CommandFields == \A c \in Command : c.id \in Proposal /\ c.op \in Verdict
  BY DEF Command

\* A verdict is only given on a pending proposal.
LEMMA VerdictSource == \A s \in Verdict : Sources(s) = {"pending"}
  BY DEF Sources, Verdict

\* Each step of the code is a step of the lifecycle of one row, a commit, a
\* restart, or leaves both copies of the rows alone.
LEMMA LifecycleStep == IInv /\ [Next]_vars => [Lifecycle!Next]_(Lifecycle!vars)
<1> SUFFICES ASSUME IInv, [Next]_vars PROVE [Lifecycle!Next]_(Lifecycle!vars)
  OBVIOUS
<1> USE DEF IInv, TypeOK, Lifecycle!Next, Lifecycle!vars, Lifecycle!ProposalStatus
<1>1. CASE Engine
  <2>1. CASE Decide
    <3>1. CASE Matches(cmd.id, cmd.op)
      <4>1. cmd \in Command
        BY <2>1 DEF Decide
      <4>2. cmd.id \in Proposal /\ cmd.op \in Verdict
        BY <4>1, CommandFields
      <4>3. Sources(cmd.op) = {"pending"}
        BY <4>2, VerdictSource
      <4>4. db[cmd.id] = "pending"
        BY <3>1, <4>3 DEF Matches
      <4>5. /\ db' = [db EXCEPT ![cmd.id] = cmd.op]
            /\ disk' = disk
        BY <2>1, <3>1 DEF Decide, ConditionalUpdate
      <4>6. Lifecycle!Move(cmd.id, cmd.op)
        BY <4>2, <4>4, <4>5 DEF Lifecycle!Move, Verdict
      <4> QED
        BY <4>2, <4>6 DEF Verdict
    <3>2. CASE ~Matches(cmd.id, cmd.op)
      BY <2>1, <3>2 DEF Decide, ConditionalUpdate
    <3> QED
      BY <3>1, <3>2
  <2>2. CASE DecideCommit
    BY <2>2 DEF DecideCommit, Committed, Lifecycle!Commit
  <2>3. CASE UNCHANGED <<db, disk>>
    BY <2>3
  <2> QED
    BY <1>1, <2>1, <2>2, <2>3 DEF Engine, Receive, Check, Reply, ReplyFails
<1>2. CASE Sleep
  <2>1. ASSUME NEW p \in Proposal, ExpireRow(p) PROVE Lifecycle!Move(p, "expired")
    <3>1. db[p] \in {"pending", "approved", "rejected"}
      BY <2>1 DEF ExpireRow, SleepInv, Verdict
    <3> QED
      BY <2>1, <3>1 DEF ExpireRow, Lifecycle!Move
  <2>2. CASE ExpireCommit
    BY <2>2 DEF ExpireCommit, Committed, Lifecycle!Commit
  <2>3. CASE UNCHANGED <<db, disk>>
    BY <2>3
  <2> QED
    BY <1>2, <2>1, <2>2, <2>3 DEF Sleep, FallAsleep, ExpireSelect
<1>3. CASE Execute
  <2>1. CASE Mark
    <3>1. CASE Matches(cur, target)
      <4>1. /\ cur \in Proposal /\ target \in {"executed", "expired"}
            /\ <<db[cur], target>> \in {<<"pending", "expired">>,
                                       <<"approved", "executed">>,
                                       <<"approved", "expired">>}
            /\ db' = [db EXCEPT ![cur] = target] /\ disk' = disk
        BY <2>1, <3>1 DEF Mark, ConditionalUpdate, Matches, Sources, Verdict
      <4>2. Lifecycle!Move(cur, target)
        BY <4>1 DEF Lifecycle!Move
      <4> QED
        BY <4>1, <4>2
    <3>2. CASE ~Matches(cur, target)
      BY <2>1, <3>2 DEF Mark, ConditionalUpdate
    <3> QED
      BY <3>1, <3>2
  <2>2. CASE MarkCommit
    BY <2>2 DEF MarkCommit, Committed, Lifecycle!Commit
  <2>3. CASE UNCHANGED <<db, disk>>
    BY <2>3
  <2> QED
    BY <1>3, <2>1, <2>2, <2>3
       DEF Execute, SelectApproved, TakeGeneral, TakeSkill, TakeMissingSkill,
           TakeTrait, TakeTraitFails, TakeCreation, TakeUp, SkillReturns,
           SkillRaises, Notify, NotifyFails, FinishExecution
<1>4. CASE Store
  <2>1. ASSUME NEW p \in Proposal, StoreInsert(p) PROVE Lifecycle!Create(p)
    BY <2>1 DEF StoreInsert, Lifecycle!Create, Lifecycle!Absent, Absent
  <2>2. CASE StoreCommit
    BY <2>2 DEF StoreCommit, Committed, Lifecycle!Commit
  <2>3. CASE EndTick
    BY <2>3 DEF EndTick
  <2> QED
    BY <1>4, <2>1, <2>2, <2>3 DEF Store
<1>5. CASE World
  <2>1. CASE ForeignCommit
    BY <2>1 DEF ForeignCommit, Committed, Lifecycle!Commit
  <2>2. CASE Crash
    BY <2>2 DEF Crash, Lifecycle!Restart
  <2>3. CASE UNCHANGED <<db, disk>>
    BY <2>3
  <2> QED
    BY <1>5, <2>1, <2>2, <2>3 DEF World, Age, ClockTurns
<1>6. CASE UNCHANGED vars
  BY <1>6 DEF vars
<1> QED
  BY <1>1, <1>2, <1>3, <1>4, <1>5, <1>6 DEF Next

\* The two tasks, the sleep phase and the crashes together move every row along
\* the documented table and the one extra edge, rejected to expired.
THEOREM Implements == Spec => LifecycleSpec
<1>1. Init => Lifecycle!Init
  BY DEF Init, Lifecycle!Init, Lifecycle!Absent, Absent
<1> QED
  BY <1>1, Inductive, LifecycleStep, PTL DEF Spec, LifecycleSpec, Lifecycle!Spec
================================================================================
