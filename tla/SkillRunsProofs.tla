---------------------------- MODULE SkillRunsProofs ----------------------------
(******************************************************************************)
(* Proofs about SkillRuns, for any set of callers, any rate limits, and any   *)
(* number of edits, failing builds, kills and records.                        *)
(******************************************************************************)
EXTENDS SkillRuns, Integers, TLAPS

\* What is left of the bucket and what was granted since a grant together are no more than
\* the capacity and what was refilled since.
SpendingInv ==
  bucket # None =>
    \A i \in DOMAIN grants :
      /\ grants[i] <= bucket.last
      /\ (Len(grants) - i + 1) * Minute + bucket.tokens
           <= bucket.limit * (Minute + bucket.last - grants[i])

\* The hash of an environment is not newer than its dependencies; a call that builds
\* installs what it hashed, or something newer.
BuildInv ==
  /\ env.hash <= env.deps
  /\ project = None => \A c \in Caller : pc[c] \notin {"waiting", "venv", "install"}
  /\ \A c \in Caller :
       /\ pc[c] \in {"waiting", "venv", "install"} => ver[c] > 0 /\ ver[c] <= project
       /\ pc[c] \in {"venv", "install"} => ver[c] <= target[c]

\* A process is read from, or waited for, or was abandoned when the agent began to stop.
ChildInv ==
  \A c \in Caller :
    child[c] \in Alive => pc[c] \in {"running", "closing"} \/ (pc[c] = "idle" /\ stopping)

\* While a call is running its process uses what it hashed, or something newer.
UsesInv ==
  \A c \in Caller :
    pc[c] = "running" /\ uses[c] # None => uses[c] > 0 /\ uses[c] >= ver[c]

\* A call that has ended has no hash.
IdleInv == \A c \in Caller : pc[c] = "idle" => ver[c] = 0

\* A new version of pyproject.toml is an edit.
EditsInv == project # None => project <= edits + 1

\* The record of a call in hand is among the rows, and once the call has committed, in a commit.
RecordInv ==
  /\ AckedIsDurable
  /\ \A c \in Caller :
       /\ record[c] <= rows
       /\ request[c] = "committed" => record[c] <= durable

IInv ==
  TypeOK /\ EditsInv /\ SpendingInv /\ GrantsBounded /\ BuildInv /\ ChildInv
  /\ UsesInv /\ IdleInv /\ NoStaleDependencies /\ RecordInv

--------------------------------------------------------------------------------

LEMMA Constants ==
  /\ None \notin Nat /\ Minute \in Nat /\ Minute > 0 /\ Limits \subseteq Nat
  /\ MaxNow \in Nat /\ MaxRecords \in Nat /\ MaxEdits \in Nat /\ MaxFaults \in Nat
  /\ Version \subseteq Nat \ {0}
BY ConstantsOK DEF ConstantsOK, Version

LEMMA Versions == \A v \in Version : v \in Nat /\ v > 0
BY Constants

LEMMA Distributes ==
  ASSUME NEW a \in Int, NEW b \in Int, NEW c \in Int
  PROVE  a * (b + c) = a * b + a * c
OBVIOUS

LEMMA ProductIsNat == \A a, b \in Nat : a * b \in Nat
OBVIOUS

LEMMA ProductIsInt == \A a, b \in Int : a * b \in Int
OBVIOUS

\* Times of grants are times.
LEMMA GrantTimes ==
  ASSUME TypeOK
  PROVE  /\ Len(grants) \in Nat /\ DOMAIN grants = 1..Len(grants)
         /\ \A i \in DOMAIN grants : grants[i] \in Nat
         /\ now \in Nat
BY Constants DEF TypeOK

--------------------------------------------------------------------------------
(* The rate limiter.                                                          *)

\* What a refill makes of the bucket.
LEMMA Refill ==
  ASSUME TypeOK, SpendingInv, skill \in Limits, skill > 0
  PROVE  /\ Refilled \in [limit : Limits \ {0}, tokens : Nat, last : 0..now]
         /\ Refilled.limit = skill /\ Refilled.last = now
         /\ Refilled.tokens <= skill * Minute
         /\ bucket = None \/ bucket.limit # skill => Refilled.tokens = skill * Minute
         /\ bucket # None /\ bucket.limit = skill =>
              \A i \in DOMAIN grants :
                /\ grants[i] <= now
                /\ (Len(grants) - i + 1) * Minute + Refilled.tokens
                     <= skill * (Minute + now - grants[i])
<1>0. skill \in Nat /\ skill * Minute \in Nat /\ now \in Nat
  BY Constants, ProductIsNat DEF TypeOK
<1>1. CASE bucket = None \/ bucket.limit # skill
  <2>1. Refilled = FullBucket
    BY <1>1 DEF Refilled
  <2> QED
    BY <1>0, <1>1, <2>1 DEF FullBucket
<1>2. CASE bucket # None /\ bucket.limit = skill
  <2> DEFINE filled == bucket.tokens + (now - bucket.last) * bucket.limit
             cap == bucket.limit * Minute
             tokens == IF filled < cap THEN filled ELSE cap
  <2>1. /\ bucket \in [limit : Limits \ {0}, tokens : Nat, last : 0..now]
        /\ bucket.tokens \in Nat /\ bucket.last \in Nat /\ bucket.last <= now
    BY <1>2 DEF TypeOK
  <2>2. Refilled = [bucket EXCEPT !.tokens = tokens, !.last = now]
    BY <1>2 DEF Refilled
  <2>3. /\ now - bucket.last \in Nat
        /\ (now - bucket.last) * bucket.limit = skill * (now - bucket.last)
        /\ skill * (now - bucket.last) \in Nat
    BY <1>0, <1>2, <2>1, ProductIsNat
  <2>4. tokens \in Nat /\ tokens <= skill * Minute
    BY <1>0, <1>2, <2>1, <2>3
  <2> HIDE DEF tokens
  <2>5. /\ Refilled.limit = skill /\ Refilled.last = now /\ Refilled.tokens = tokens
        /\ Refilled \in [limit : Limits \ {0}, tokens : Nat, last : 0..now]
    <3>1. Refilled = [limit |-> skill, tokens |-> tokens, last |-> now]
      BY <1>2, <2>1, <2>2
    <3>2. skill \in Limits \ {0} /\ now \in 0..now
      BY <1>0
    <3> QED
      BY <2>4, <3>1, <3>2
  <2>6. ASSUME NEW i \in DOMAIN grants
        PROVE  /\ grants[i] <= now
               /\ (Len(grants) - i + 1) * Minute + tokens <= skill * (Minute + now - grants[i])
    <3> DEFINE spent == (Len(grants) - i + 1) * Minute
    <3>1. /\ grants[i] \in Nat /\ grants[i] <= bucket.last /\ i \in 1..Len(grants)
          /\ spent + bucket.tokens <= skill * (Minute + bucket.last - grants[i])
      BY <1>2, GrantTimes DEF SpendingInv
    <3>2. spent \in Nat
      BY <3>1, Constants, ProductIsNat
    <3>3. skill * (Minute + now - grants[i])
            = skill * (Minute + bucket.last - grants[i]) + skill * (now - bucket.last)
      <4>1. Minute + now - grants[i] = (Minute + bucket.last - grants[i]) + (now - bucket.last)
        BY <1>0, <2>1, <3>1, Constants
      <4>2. Minute + bucket.last - grants[i] \in Int
        BY <2>1, <3>1, Constants
      <4> QED
        BY <1>0, <2>3, <4>1, <4>2, Distributes
    <3>4. tokens <= bucket.tokens + skill * (now - bucket.last)
      BY <1>0, <1>2, <2>1, <2>3 DEF tokens
    <3>5. /\ Minute + bucket.last - grants[i] \in Int /\ Minute + now - grants[i] \in Int
      <4>1. grants[i] \in Int /\ bucket.last \in Int /\ now \in Int /\ Minute \in Int
        BY <1>0, <2>1, <3>1, Constants
      <4> QED
        BY <4>1
    <3>6. /\ skill * (Minute + bucket.last - grants[i]) \in Int
          /\ skill * (Minute + now - grants[i]) \in Int
      BY <1>0, <3>5, ProductIsInt
    <3> DEFINE before == skill * (Minute + bucket.last - grants[i])
               since == skill * (now - bucket.last)
               all == skill * (Minute + now - grants[i])
    <3>7. /\ spent \in Nat /\ bucket.tokens \in Nat /\ tokens \in Nat
          /\ before \in Int /\ since \in Int /\ all \in Int
          /\ spent + bucket.tokens <= before /\ all = before + since
          /\ tokens <= bucket.tokens + since
      BY <2>1, <2>3, <2>4, <3>1, <3>2, <3>3, <3>4, <3>6
    <3> HIDE DEF spent, before, since, all
    <3>8. spent + tokens <= all
      BY <3>7
    <3>9. grants[i] <= now
      BY <1>0, <2>1, <3>1
    <3> QED
      BY <3>8, <3>9 DEF spent, all
  <2> QED
    BY <1>2, <2>4, <2>5, <2>6
<1> QED
  BY <1>1, <1>2

\* The part of the type and of the invariant that is about the bucket.
LimiterInv ==
  /\ bucket = None \/ /\ bucket \in [limit : Limits \ {0}, tokens : Nat, last : 0..now]
                      /\ bucket.tokens <= bucket.limit * Minute
  /\ grants \in Seq(0..MaxNow)
  /\ SpendingInv /\ GrantsBounded

LEMMA GrantKeeps ==
  ASSUME TypeOK, SpendingInv, GrantsBounded, skill \in Limits, Granted, now' = now
  PROVE  LimiterInv'
<1> DEFINE full == Refilled
           kept == IF bucket = None \/ bucket.limit # skill THEN <<>> ELSE grants
           n == Len(kept)
<1>1. /\ skill > 0 /\ full.tokens >= Minute
      /\ bucket' = [full EXCEPT !.tokens = @ - Minute]
      /\ grants' = Append(kept, now)
  BY DEF Granted
<1>2. /\ full \in [limit : Limits \ {0}, tokens : Nat, last : 0..now]
      /\ full.limit = skill /\ full.last = now /\ full.tokens <= skill * Minute
      /\ \A i \in DOMAIN kept :
           /\ kept[i] <= now
           /\ (n - i + 1) * Minute + full.tokens <= skill * (Minute + now - kept[i])
  BY <1>1, Refill
<1> HIDE DEF full
<1>3. /\ kept \in Seq(0..MaxNow) /\ n \in Nat /\ now \in 0..MaxNow /\ now \in Nat
      /\ DOMAIN kept = 1..n /\ \A i \in 1..n : kept[i] \in Nat
  <2>1. now \in 0..MaxNow /\ now \in Nat
    BY GrantTimes DEF TypeOK
  <2> HIDE DEF kept
  <2>2. CASE kept = grants
    BY <2>1, <2>2, GrantTimes DEF TypeOK
  <2>3. CASE kept = <<>>
    BY <2>1, <2>3
  <2>4. kept = grants \/ kept = <<>>
    BY DEF kept
  <2> QED
    BY <2>2, <2>3, <2>4
<1>4. \A i, j \in 1..n : i <= j => (j - i + 1) * Minute <= skill * (Minute + kept[j] - kept[i])
  <2>1. CASE kept = grants /\ bucket # None /\ bucket.limit = skill
    BY <1>3, <2>1 DEF GrantsBounded
  <2>2. CASE kept = <<>>
    BY <2>2
  <2> QED
    BY <2>1, <2>2
<1> HIDE DEF kept
<1>5. /\ grants' \in Seq(0..MaxNow) /\ Len(grants') = n + 1 /\ DOMAIN grants' = 1..(n + 1)
      /\ grants'[n + 1] = now /\ \A i \in 1..n : grants'[i] = kept[i]
  BY <1>1, <1>3
<1>6. /\ bucket' \in [limit : Limits \ {0}, tokens : Nat, last : 0..now]
      /\ bucket'.limit = skill /\ bucket'.last = now /\ bucket'.tokens = full.tokens - Minute
  BY <1>1, <1>2, Constants
<1>7. skill \in Nat /\ skill * Minute \in Nat /\ full.tokens \in Nat
  BY <1>2, Constants, ProductIsNat
<1>8. bucket'.tokens <= bucket'.limit * Minute
  BY <1>2, <1>6, <1>7, Constants
<1> HIDE DEF n
<1>9. ASSUME NEW i \in 1..(n + 1)
      PROVE  /\ grants'[i] <= now
             /\ (n + 1 - i + 1) * Minute + (full.tokens - Minute)
                  <= skill * (Minute + now - grants'[i])
  <2>1. CASE i = n + 1
    BY <1>2, <1>3, <1>5, <1>7, <2>1, Constants
  <2>2. CASE i # n + 1
    <3>1. i \in 1..n /\ i \in DOMAIN kept /\ grants'[i] = kept[i]
      BY <1>3, <1>5, <2>2
    <3>2. (n + 1 - i + 1) * Minute = (n - i + 1) * Minute + Minute
      BY <1>3, <3>1, Constants, Distributes
    <3>3. (n - i + 1) * Minute \in Int /\ skill * (Minute + now - kept[i]) \in Int
      BY <1>3, <1>7, <3>1, Constants
    <3> QED
      BY <1>2, <1>7, <3>1, <3>2, <3>3, Constants
  <2> QED
    BY <2>1, <2>2
<1>10. SpendingInv'
  <2> SUFFICES ASSUME NEW i \in 1..(n + 1)
               PROVE  /\ grants'[i] <= bucket'.last
                      /\ (Len(grants') - i + 1) * Minute + bucket'.tokens
                           <= bucket'.limit * (Minute + bucket'.last - grants'[i])
    BY <1>5 DEF SpendingInv
  <2>1. /\ grants'[i] <= now
        /\ (n + 1 - i + 1) * Minute + (full.tokens - Minute)
             <= skill * (Minute + now - grants'[i])
    BY <1>9
  <2>2. /\ Len(grants') = n + 1 /\ bucket'.tokens = full.tokens - Minute
        /\ bucket'.limit = skill /\ bucket'.last = now
    BY <1>5, <1>6
  <2>3. grants'[i] \in Nat /\ i \in Nat /\ full.tokens - Minute \in Int
    BY <1>3, <1>5, <1>7, Constants
  <2> QED
    BY <1>3, <1>7, <2>1, <2>2, <2>3, Constants
<1>11. ASSUME NEW i \in 1..(n + 1), NEW j \in 1..(n + 1), i <= j
       PROVE  (j - i + 1) * Minute <= skill * (Minute + grants'[j] - grants'[i])
  <2>1. CASE j = n + 1
    <3> DEFINE spent == (n + 1 - i + 1) * Minute
               all == skill * (Minute + now - grants'[i])
    <3>1. grants'[i] \in Nat
      BY <1>3, <1>5
    <3>2. n + 1 - i + 1 \in Int /\ Minute + now - grants'[i] \in Int
      BY <1>3, <3>1, Constants
    <3>3. spent \in Int /\ all \in Int
      BY <1>7, <3>2, Constants, ProductIsInt
    <3>6. full.tokens - Minute \in Nat
      BY <1>1, <1>7, Constants
    <3>4. spent + (full.tokens - Minute) <= all
      BY <1>9
    <3> HIDE DEF spent, all
    <3>5. spent <= all
      BY <3>3, <3>4, <3>6
    <3>7. (n + 1 - i + 1) * Minute <= skill * (Minute + now - grants'[i])
      BY <3>5 DEF spent, all
    <3>8. grants'[j] = now
      BY <1>5, <2>1
    <3> QED
      BY <1>3, <1>7, <2>1, <3>1, <3>7, <3>8, Constants
  <2>2. CASE j # n + 1
    <3>1. i \in 1..n /\ j \in 1..n
      BY <1>3, <1>11, <2>2
    <3> QED
      BY <1>4, <1>5, <1>11, <3>1
  <2> QED
    BY <2>1, <2>2
<1>12. GrantsBounded'
  BY <1>5, <1>6, <1>11 DEF GrantsBounded
<1> QED
  BY <1>5, <1>6, <1>8, <1>10, <1>12 DEF LimiterInv

\* A refusal finds a bucket of the present limit, and refills it.
LEMMA RefusalKeeps ==
  ASSUME TypeOK, SpendingInv, GrantsBounded, NEW c \in Caller, Refused(c)
  PROVE  LimiterInv'
<1>1. /\ skill \in Limits /\ skill > 0 /\ Refilled.tokens < Minute
      /\ bucket' = Refilled /\ grants' = grants /\ now' = now
  BY DEF Refused, TypeOK, world
<1>2. /\ Refilled \in [limit : Limits \ {0}, tokens : Nat, last : 0..now]
      /\ Refilled.limit = skill /\ Refilled.last = now /\ Refilled.tokens <= skill * Minute
      /\ bucket = None \/ bucket.limit # skill => Refilled.tokens = skill * Minute
  BY <1>1, Refill
<1>3. bucket # None /\ bucket.limit = skill
  <2>1. skill * Minute >= Minute
    <3>1. skill \in Nat /\ skill - 1 \in Nat /\ Minute \in Nat
      BY <1>1, Constants
    <3>2. skill * Minute = Minute * (1 + (skill - 1))
      BY <3>1
    <3>3. Minute * (1 + (skill - 1)) = Minute * 1 + Minute * (skill - 1)
      BY <3>1, Distributes
    <3>4. Minute * (skill - 1) \in Nat
      BY <3>1, ProductIsNat
    <3> QED
      BY <3>1, <3>2, <3>3, <3>4
  <2>2. skill * Minute \in Nat /\ Refilled.tokens \in Nat
    BY <1>1, <1>2, Constants, ProductIsNat
  <2> QED
    BY <1>1, <1>2, <2>1, <2>2, Constants
<1>4. \A i \in DOMAIN grants :
        /\ grants[i] <= now
        /\ (Len(grants) - i + 1) * Minute + Refilled.tokens
             <= skill * (Minute + now - grants[i])
  BY <1>1, <1>3, Refill
<1>5. SpendingInv'
  BY <1>1, <1>2, <1>4 DEF SpendingInv
<1>6. GrantsBounded'
  BY <1>1, <1>2, <1>3 DEF GrantsBounded
<1> QED
  BY <1>1, <1>2, <1>5, <1>6 DEF LimiterInv, TypeOK

\* Time passes, or nothing happens to the limiter.
LEMMA LimiterRests ==
  ASSUME TypeOK, SpendingInv, GrantsBounded, UNCHANGED limiter, now' \in Nat, now' >= now
  PROVE  LimiterInv'
<1>1. bucket' = bucket /\ grants' = grants
  BY DEF limiter
<1>2. SpendingInv' /\ GrantsBounded'
  BY <1>1 DEF SpendingInv, GrantsBounded
<1>3. 0..now \subseteq 0..now'
  BY GrantTimes
<1> QED
  BY <1>1, <1>2, <1>3 DEF LimiterInv, TypeOK

LEMMA LimiterStep == IInv /\ [Next]_vars => LimiterInv'
<1> SUFFICES ASSUME IInv, [Next]_vars PROVE LimiterInv'
  OBVIOUS
<1>0. TypeOK /\ SpendingInv /\ GrantsBounded /\ now \in Nat
  BY GrantTimes DEF IInv
<1>1. ASSUME NEW c \in Caller, Execute(c) PROVE LimiterInv'
  <2>1. skill \in Limits /\ now' = now /\ (Granted \/ UNCHANGED limiter)
    BY <1>0, <1>1 DEF Execute, TypeOK, world, Unlimited
  <2> QED
    BY <1>0, <2>1, GrantKeeps, LimiterRests
<1>2. ASSUME NEW c \in Caller, Refused(c) PROVE LimiterInv'
  BY <1>0, <1>2, RefusalKeeps
<1>3. CASE UNCHANGED <<limiter, now>>
  BY <1>0, <1>3, LimiterRests
<1>4. CASE Time
  BY <1>0, <1>4, LimiterRests DEF Time
<1>5. CASE Restart
  BY <1>5 DEF Restart, LimiterInv, SpendingInv, GrantsBounded
<1>6. UNCHANGED vars => UNCHANGED <<limiter, now>>
  BY DEF vars, world
<1>7. ASSUME NEW c \in Caller
      PROVE  Enter(c) \/ Uv(c) \/ Ask(c) \/ Exit(c) \/ (\E last \in Final : Say(c, last))
               => UNCHANGED <<limiter, now>>
  BY DEF Enter, Uv, VenvMade, Installed, BuildFails, Ask, Exit, Say, world
<1>8. ASSUME NEW c \in Caller
      PROVE  Parent(c) \/ CancelBuild(c) \/ CancelRun(c) \/ CancelClose(c)
               => UNCHANGED <<limiter, now>>
  BY DEF Parent, ServeRead, ServeAdd, CommitAdd, AnswerAdd, ReadLast, TimeOut, Leave, Close,
         CancelBuild, CancelRun, CancelClose, world
<1>9. OtherCommit \/ EditProject \/ LoadAll \/ Stop
        \/ (\E limit \in Limits \cup {None} : EditYaml(limit)) => UNCHANGED <<limiter, now>>
  BY DEF OtherCommit, EditProject, LoadAll, Stop, EditYaml, world
<1> QED
  BY <1>1, <1>2, <1>3, <1>4, <1>5, <1>6, <1>7, <1>8, <1>9 DEF Next

--------------------------------------------------------------------------------
(* Types.                                                                     *)

\* The type of everything but the bucket.
RestOK ==
  /\ yaml \in Limits \cup {None} /\ skill \in Limits \cup {None}
  /\ project \in Version \cup {None}
  /\ lock \in Caller \cup {None}
  /\ env \in [python : BOOLEAN, deps : {0} \cup Version, hash : {0} \cup Version]
  /\ pc \in [Caller -> {"idle", "waiting", "venv", "install", "running", "closing"}]
  /\ ver \in [Caller -> {0} \cup Version] /\ target \in [Caller -> {0} \cup Version]
  /\ child \in [Caller -> Alive \cup {"dead"}]
  /\ said \in [Caller -> Final \cup {None}]
  /\ request \in [Caller -> {None, "sent", "inserted", "committed", "answered"}]
  /\ record \in [Caller -> Nat]
  /\ uses \in [Caller -> {0, None} \cup Version]
  /\ rows \in 0..MaxRecords /\ durable \in 0..rows /\ acked \in Nat
  /\ disturbed \subseteq Caller /\ abandoned \subseteq Caller
  /\ now \in 0..MaxNow /\ stopping \in BOOLEAN
  /\ edits \in 0..MaxEdits /\ faults \in 0..MaxFaults

LEMMA TypeIsBoth == TypeOK <=> RestOK /\ (bucket = None \/
                      /\ bucket \in [limit : Limits \ {0}, tokens : Nat, last : 0..now]
                      /\ bucket.tokens <= bucket.limit * Minute) /\ grants \in Seq(0..MaxNow)
BY DEF TypeOK, RestOK

\* What a run needs: the part of the invariant that its steps could disturb.
RunInv ==
  RestOK /\ EditsInv /\ BuildInv /\ ChildInv /\ UsesInv /\ IdleInv /\ NoStaleDependencies
  /\ RecordInv

LEMMA RunFromAll == IInv => RunInv
BY TypeIsBoth DEF IInv, RunInv

\* A call that ends takes its record out of the count; the row stays.
LEMMA ReturnRecords ==
  ASSUME RestOK, RecordInv, NEW c \in Caller,
         request' = [request EXCEPT ![c] = None], record' = [record EXCEPT ![c] = 0],
         UNCHANGED <<rows, durable, acked>>
  PROVE  RecordInv'
<1>0. rows \in Nat /\ 0 <= rows /\ None # "committed"
  BY ConstantsOK DEF RestOK, ConstantsOK
<1>1. record'[c] = 0 /\ request'[c] = None
  BY DEF RestOK
<1>2. \A e \in Caller \ {c} : record'[e] = record[e] /\ request'[e] = request[e]
  BY DEF RestOK
<1>3. AckedIsDurable'
  BY DEF RecordInv, AckedIsDurable
<1>4. ASSUME NEW e \in Caller
      PROVE  record'[e] <= rows /\ (request'[e] = "committed" => record'[e] <= durable)
  <2>1. CASE e = c
    BY <1>0, <1>1, <2>1
  <2>2. CASE e # c
    BY <1>2, <2>2 DEF RecordInv
  <2> QED
    BY <2>1, <2>2
<1> QED
  BY <1>3, <1>4 DEF RecordInv

\* A process is forked with dependencies no older than what its call hashed.
LEMMA SpawnKeeps ==
  ASSUME RunInv, NEW c \in Caller, NEW d, Spawn(c, d),
         d = None \/ (d \in Version /\ ver'[c] <= d),
         \A e \in Caller \ {c} : ver'[e] = ver[e] /\ target'[e] = target[e],
         ver' \in [Caller -> {0} \cup Version], target' \in [Caller -> {0} \cup Version],
         env' \in [python : BOOLEAN, deps : {0} \cup Version, hash : {0} \cup Version],
         env'.hash <= env'.deps, lock' \in Caller \cup {None},
         UNCHANGED <<store, files, world>>
  PROVE  RunInv'
<1> USE DEF RunInv
<1>1. /\ pc' = [pc EXCEPT ![c] = "running"] /\ child' = [child EXCEPT ![c] = "working"]
      /\ uses' = [uses EXCEPT ![c] = d] /\ disturbed' \subseteq disturbed
      /\ abandoned' \subseteq abandoned
      /\ UNCHANGED <<said, request, record, rows, durable, acked, yaml, skill, project, edits,
                     now, stopping, faults>>
  BY DEF Spawn, talk, store, files, world
<1>2. /\ pc'[c] = "running" /\ child'[c] = "working" /\ uses'[c] = d
      /\ \A e \in Caller \ {c} : pc'[e] = pc[e] /\ child'[e] = child[e] /\ uses'[e] = uses[e]
  BY <1>1 DEF RestOK
<1>3. RestOK'
  BY <1>1 DEF RestOK, Alive
<1>4. EditsInv' /\ RecordInv'
  BY <1>1 DEF EditsInv, RecordInv, AckedIsDurable
<1>5. BuildInv' /\ IdleInv'
  BY <1>1, <1>2 DEF BuildInv, IdleInv
<1>6. ChildInv'
  BY <1>1, <1>2 DEF ChildInv
<1>7. NoStaleDependencies' /\ UsesInv'
  <2> SUFFICES ASSUME NEW e \in Caller, child'[e] \in Alive \/ pc'[e] = "running",
                      uses'[e] # None
               PROVE  uses'[e] > 0 /\ uses'[e] >= ver'[e]
    BY DEF NoStaleDependencies, UsesInv
  <2>1. CASE e = c
    <3>1. d \in Version /\ ver'[c] <= d
      BY <1>2, <2>1
    <3>2. d \in Nat /\ d > 0 /\ ver'[c] \in Nat
      <4>1. ver'[c] = 0 \/ ver'[c] \in Version
        OBVIOUS
      <4> QED
        BY <3>1, <4>1, Versions
    <3> QED
      BY <1>2, <2>1, <3>1, <3>2
  <2>2. CASE e # c
    BY <1>2, <2>2 DEF NoStaleDependencies, UsesInv
  <2> QED
    BY <2>1, <2>2
<1> QED
  BY <1>3, <1>4, <1>5, <1>6, <1>7

\* A call that has no process ends.
LEMMA ReturnKeeps ==
  ASSUME RunInv, NEW c \in Caller, Return(c),
         pc[c] \in {"waiting", "venv", "install"} \/ (pc[c] = "idle" /\ ~stopping),
         env' \in [python : BOOLEAN, deps : {0} \cup Version, hash : {0} \cup Version],
         env'.hash <= env'.deps, lock' \in Caller \cup {None}, faults' \in 0..MaxFaults,
         UNCHANGED <<process, store, files, now, stopping>>
  PROVE  RunInv'
<1> USE DEF RunInv
<1>1. /\ pc' = [pc EXCEPT ![c] = "idle"]
      /\ ver' = [ver EXCEPT ![c] = 0] /\ target' = [target EXCEPT ![c] = 0]
      /\ said' = [said EXCEPT ![c] = None] /\ request' = [request EXCEPT ![c] = None]
      /\ record' = [record EXCEPT ![c] = 0]
      /\ UNCHANGED <<child, uses, disturbed, abandoned, rows, durable, acked, yaml, skill,
                     project, edits, now, stopping>>
  BY DEF Return, process, used, store, files
<1>2. /\ pc'[c] = "idle" /\ child[c] \notin Alive /\ ver'[c] = 0
      /\ \A e \in Caller \ {c} : pc'[e] = pc[e] /\ ver'[e] = ver[e] /\ target'[e] = target[e]
  BY <1>1 DEF RestOK, ChildInv
<1>3. RestOK'
  BY <1>1 DEF RestOK
<1>4. EditsInv' /\ RecordInv'
  BY <1>1, ReturnRecords DEF EditsInv
<1>5. BuildInv'
  BY <1>1, <1>2 DEF BuildInv
<1>6. ChildInv' /\ NoStaleDependencies' /\ UsesInv' /\ IdleInv'
  BY <1>1, <1>2 DEF ChildInv, NoStaleDependencies, UsesInv, IdleInv
<1> QED
  BY <1>3, <1>4, <1>5, <1>6

\* A call begins to build what the file holds now.
LEMMA ClearKeeps ==
  ASSUME RunInv, NEW c \in Caller, Clear(c), project # None,
         pc[c] = "waiting" \/ (pc[c] = "idle" /\ ~stopping),
         NEW v \in Version, v <= project, ver' = [ver EXCEPT ![c] = v],
         UNCHANGED <<store, files, world>>
  PROVE  RunInv'
<1> USE DEF RunInv
<1>1. /\ pc' = [pc EXCEPT ![c] = "venv"] /\ target' = [target EXCEPT ![c] = project]
      /\ env' = NoEnv /\ lock' = c /\ disturbed' \subseteq Caller
      /\ UNCHANGED <<said, request, record, child, uses, abandoned, rows, durable, acked, yaml,
                     skill, project, edits, now, stopping, faults>>
  BY DEF Clear, talk, store, files, world, RestOK
<1>2. /\ pc'[c] = "venv" /\ child[c] \notin Alive /\ ver'[c] = v /\ target'[c] = project
      /\ \A e \in Caller \ {c} : pc'[e] = pc[e] /\ ver'[e] = ver[e] /\ target'[e] = target[e]
  BY <1>1 DEF RestOK, ChildInv
<1>3. RestOK'
  BY <1>1 DEF RestOK, NoEnv
<1>4. EditsInv' /\ RecordInv'
  BY <1>1 DEF EditsInv, RecordInv, AckedIsDurable
<1>5. BuildInv'
  BY <1>1, <1>2, Constants DEF BuildInv, NoEnv
<1>6. ChildInv' /\ NoStaleDependencies' /\ UsesInv' /\ IdleInv'
  BY <1>1, <1>2 DEF ChildInv, NoStaleDependencies, UsesInv, IdleInv
<1> QED
  BY <1>3, <1>4, <1>5, <1>6

\* A call under the lock, or one that need not wait for it.
LEMMA EnsureKeeps ==
  ASSUME RunInv, NEW c \in Caller, NEW v \in Version, Ensure(c, v), project # None,
         v <= project, pc[c] = "waiting" \/ (pc[c] = "idle" /\ ~stopping),
         UNCHANGED <<store, files, world>>
  PROVE  RunInv'
<1>0. /\ env \in [python : BOOLEAN, deps : {0} \cup Version, hash : {0} \cup Version]
      /\ env.hash <= env.deps /\ lock \in Caller \cup {None}
      /\ ver \in [Caller -> {0} \cup Version] /\ target \in [Caller -> {0} \cup Version]
  BY DEF RunInv, RestOK, BuildInv
<1>1. CASE Cached(v) /\ Spawn(c, env.deps) /\ ver' = [ver EXCEPT ![c] = v]
           /\ UNCHANGED <<building, target>>
  <2>1. env.hash = v /\ env.deps \in Version
    <3>1. env.hash = v
      BY <1>1 DEF Cached
    <3>2. env.deps # 0
      BY <1>0, <3>1, Constants
    <3> QED
      BY <1>0, <3>1, <3>2
  <2>2. /\ ver'[c] = v /\ \A e \in Caller \ {c} : ver'[e] = ver[e] /\ target'[e] = target[e]
        /\ env' = env /\ lock' = lock
        /\ ver' \in [Caller -> {0} \cup Version] /\ target' = target
    BY <1>0, <1>1 DEF building
  <2> QED
    BY <1>0, <1>1, <2>1, <2>2, SpawnKeeps
<1>2. CASE Clear(c) /\ ver' = [ver EXCEPT ![c] = v]
  BY <1>2, ClearKeeps
<1>3. CASE Return(c) /\ UNCHANGED <<building, process>>
  <2>1. /\ env' = env /\ lock' = lock
        /\ faults' = faults /\ now' = now /\ stopping' = stopping /\ faults \in 0..MaxFaults
    BY <1>3 DEF building, world, RunInv, RestOK
  <2> QED
    BY <1>0, <1>3, <2>1, ReturnKeeps
<1> QED
  BY <1>1, <1>2, <1>3 DEF Ensure

LEMMA ExecuteKeeps ==
  ASSUME RunInv, NEW c \in Caller, Execute(c)
  PROVE  RunInv'
<1>1. /\ pc[c] = "idle" /\ ~stopping /\ Prepare(c) /\ UNCHANGED <<store, files, world>>
  BY DEF Execute
<1>0. /\ env \in [python : BOOLEAN, deps : {0} \cup Version, hash : {0} \cup Version]
      /\ env.hash <= env.deps /\ lock \in Caller \cup {None}
      /\ ver \in [Caller -> {0} \cup Version] /\ target \in [Caller -> {0} \cup Version]
      /\ project \in Version \cup {None}
  BY DEF RunInv, RestOK, BuildInv
<1>2. CASE project = None /\ Spawn(c, None) /\ UNCHANGED <<building, plan>>
  <2>1. env' = env /\ lock' = lock /\ ver' = ver /\ target' = target
    BY <1>2 DEF building, plan
  <2> QED
    BY <1>0, <1>1, <1>2, <2>1, SpawnKeeps
<1>3. CASE project # None /\ Ensure(c, project)
  <2>1. project \in Version /\ project <= project
    BY <1>0, <1>3, Constants
  <2> QED
    BY <1>1, <1>3, <2>1, EnsureKeeps
<1>4. CASE /\ project # None
           /\ pc' = [pc EXCEPT ![c] = "waiting"]
           /\ ver' = [ver EXCEPT ![c] = project]
           /\ UNCHANGED <<building, target, talk, process>>
  <2> USE DEF RunInv
  <2>1. UNCHANGED <<lock, env, target, said, request, record, child, uses, disturbed, abandoned,
                    rows, durable, acked, yaml, skill, project, edits, now, stopping, faults>>
    BY <1>1, <1>4 DEF building, talk, process, used, store, files, world
  <2>2. /\ pc'[c] = "waiting" /\ child[c] \notin Alive /\ ver'[c] = project
        /\ project \in Version /\ project > 0 /\ project <= project
        /\ \A e \in Caller \ {c} : pc'[e] = pc[e] /\ ver'[e] = ver[e]
    <3>1. project \in Version /\ project > 0 /\ project <= project
      BY <1>0, <1>4, Versions
    <3> QED
      BY <1>0, <1>1, <1>4, <3>1 DEF RestOK, ChildInv
  <2>3. RestOK'
    BY <1>4, <2>1, <2>2 DEF RestOK
  <2>4. EditsInv' /\ RecordInv'
    BY <2>1 DEF EditsInv, RecordInv, AckedIsDurable
  <2>5. BuildInv'
    BY <1>4, <2>1, <2>2 DEF BuildInv
  <2>6. ChildInv' /\ NoStaleDependencies' /\ UsesInv' /\ IdleInv'
    BY <2>1, <2>2 DEF ChildInv, NoStaleDependencies, UsesInv, IdleInv
  <2> QED
    BY <2>3, <2>4, <2>5, <2>6
<1> QED
  BY <1>1, <1>2, <1>3, <1>4 DEF Prepare

LEMMA BuildKeeps ==
  ASSUME RunInv, NEW c \in Caller, Enter(c) \/ Uv(c)
  PROVE  RunInv'
<1>0. /\ env \in [python : BOOLEAN, deps : {0} \cup Version, hash : {0} \cup Version]
      /\ env.hash <= env.deps /\ lock \in Caller \cup {None}
      /\ ver \in [Caller -> {0} \cup Version] /\ target \in [Caller -> {0} \cup Version]
      /\ project \in Version \cup {None} /\ faults \in 0..MaxFaults /\ MaxFaults \in Nat
  BY Constants DEF RunInv, RestOK, BuildInv
<1>1. CASE Enter(c)
  <2>1. /\ pc[c] = "waiting" /\ Ensure(c, ver[c]) /\ UNCHANGED <<store, files, world>>
    BY <1>1 DEF Enter
  <2>2. project # None /\ ver[c] > 0 /\ ver[c] <= project
    BY <2>1 DEF RunInv, BuildInv
  <2>3. ver[c] \in Version
    BY <1>0, <2>2
  <2> QED
    BY <2>1, <2>2, <2>3, EnsureKeeps
<1>2. CASE VenvMade(c)
  <2> USE DEF RunInv
  <2>1. /\ pc[c] = "venv" /\ env' = [env EXCEPT !.python = TRUE]
        /\ pc' = [pc EXCEPT ![c] = "install"]
        /\ UNCHANGED <<lock, ver, target, said, request, record, child, uses, disturbed,
                       abandoned, rows, durable, acked, yaml, skill, project, edits, now,
                       stopping, faults>>
    BY <1>2 DEF VenvMade, plan, talk, process, used, store, files, world
  <2>2. pc'[c] = "install" /\ \A e \in Caller \ {c} : pc'[e] = pc[e]
    BY <2>1 DEF RestOK
  <2>3. RestOK' /\ env'.hash = env.hash /\ env'.deps = env.deps
    BY <1>0, <2>1 DEF RestOK
  <2>4. EditsInv' /\ RecordInv' /\ NoStaleDependencies' /\ UsesInv' /\ IdleInv'
    BY <2>1 DEF EditsInv, RecordInv, AckedIsDurable, NoStaleDependencies, UsesInv, IdleInv
  <2>5. BuildInv'
    BY <1>0, <2>1, <2>2, <2>3 DEF BuildInv
  <2>6. ChildInv'
    BY <2>1, <2>2 DEF ChildInv
  <2> QED
    BY <2>3, <2>4, <2>5, <2>6
<1>3. CASE Installed(c)
  <2>1. /\ pc[c] = "install" /\ env' = [env EXCEPT !.deps = target[c], !.hash = ver[c]]
        /\ lock' = None /\ Spawn(c, target[c]) /\ ver' = ver /\ target' = target
        /\ UNCHANGED <<store, files, world>>
    BY <1>3 DEF Installed, plan
  <2>2. ver[c] > 0 /\ ver[c] <= target[c]
    BY <2>1 DEF RunInv, BuildInv
  <2>3. target[c] \in Version
    <3>1. ver[c] \in Version /\ (target[c] = 0 \/ target[c] \in Version)
      BY <1>0, <2>2
    <3> QED
      BY <2>2, <3>1, Versions
  <2>4. /\ env' \in [python : BOOLEAN, deps : {0} \cup Version, hash : {0} \cup Version]
        /\ env'.hash = ver[c] /\ env'.deps = target[c]
    BY <1>0, <2>1
  <2> QED
    BY <1>0, <2>1, <2>2, <2>3, <2>4, SpawnKeeps
<1>4. CASE BuildFails(c)
  <2>1. /\ pc[c] \in {"venv", "install"} /\ faults < MaxFaults /\ faults' = faults + 1
        /\ env' \in {env, [env EXCEPT !.python = TRUE]} /\ lock' = None /\ Return(c)
        /\ UNCHANGED <<process, store, files, now, stopping>>
    BY <1>4 DEF BuildFails
  <2>2. /\ env' \in [python : BOOLEAN, deps : {0} \cup Version, hash : {0} \cup Version]
        /\ env'.hash <= env'.deps
    BY <1>0, <2>1
  <2>3. faults' \in 0..MaxFaults
    BY <1>0, <2>1
  <2> QED
    BY <2>1, <2>2, <2>3, ReturnKeeps
<1> QED
  BY <1>1, <1>2, <1>3, <1>4 DEF Uv

\* A process that works, asks or ends stays with its call.
LEMMA ChildKeeps ==
  ASSUME RunInv, NEW c \in Caller, Ask(c) \/ Exit(c) \/ \E last \in Final : Say(c, last)
  PROVE  RunInv'
<1> USE DEF RunInv
<1>1. /\ child[c] \in Alive
      /\ child' \in [Caller -> Alive \cup {"dead"}]
      /\ \A e \in Caller : child'[e] \in Alive => child[e] \in Alive
      /\ said' \in [Caller -> Final \cup {None}]
      /\ request' \in [Caller -> {None, "sent", "inserted", "committed", "answered"}]
      /\ UNCHANGED <<lock, env, ver, target, record, uses, disturbed, abandoned, rows, durable,
                     acked, yaml, skill, project, edits, now, stopping, faults, pc>>
  BY DEF Ask, Exit, Say, RestOK, Alive, building, plan, used, store, files, world, talk
<1>2. RestOK'
  BY <1>1 DEF RestOK
<1>3. EditsInv' /\ NoStaleDependencies' /\ UsesInv' /\ IdleInv'
  BY <1>1 DEF EditsInv, NoStaleDependencies, UsesInv, IdleInv
<1>4. BuildInv' /\ ChildInv'
  BY <1>1 DEF BuildInv, ChildInv
<1>5. \A e \in Caller : request'[e] = "committed" => request[e] = "committed"
  BY DEF Ask, Exit, Say, RestOK, talk
<1>6. RecordInv'
  BY <1>1, <1>5 DEF RecordInv, AckedIsDurable
<1> QED
  BY <1>2, <1>3, <1>4, <1>6

\* The caller serves what its process asks: nothing is answered before it is durable.
LEMMA ServeKeeps ==
  ASSUME RunInv, NEW c \in Caller,
         ServeRead(c) \/ ServeAdd(c) \/ CommitAdd(c) \/ AnswerAdd(c)
  PROVE  RunInv'
<1> USE DEF RunInv
<1>0. rows \in 0..MaxRecords /\ durable \in 0..rows /\ acked \in Nat /\ MaxRecords \in Nat
      /\ record[c] \in Nat
  BY Constants DEF RestOK
<1>1. /\ pc[c] = "running"
      /\ child' \in [Caller -> Alive \cup {"dead"}]
      /\ \A e \in Caller : child'[e] \in Alive => child[e] \in Alive \/ e = c
      /\ \A e \in Caller \ {c} : child'[e] = child[e]
      /\ request' \in [Caller -> {None, "sent", "inserted", "committed", "answered"}]
      /\ UNCHANGED <<lock, env, ver, target, said, uses, disturbed, abandoned,
                     yaml, skill, project, edits, now, stopping, faults, pc>>
  BY DEF ServeRead, ServeAdd, CommitAdd, AnswerAdd, Answer, RestOK, Alive, building, plan, used,
         process, store, files, world, talk
<1>2. /\ rows' \in 0..MaxRecords /\ durable' \in 0..rows' /\ acked' \in Nat
      /\ acked' <= durable' /\ record' \in [Caller -> Nat]
  <2>1. CASE ServeRead(c)
    BY <1>0, <2>1 DEF ServeRead, store, RestOK, RecordInv, AckedIsDurable
  <2>2. CASE ServeAdd(c)
    BY <1>0, <2>2 DEF ServeAdd, RestOK, RecordInv, AckedIsDurable
  <2>3. CASE CommitAdd(c)
    BY <1>0, <2>3 DEF CommitAdd, talk, RestOK, RecordInv, AckedIsDurable
  <2>4. CASE AnswerAdd(c)
    BY <1>0, <2>4 DEF AnswerAdd, RestOK, RecordInv, AckedIsDurable
  <2> QED
    BY <2>1, <2>2, <2>3, <2>4
<1>3. RestOK'
  BY <1>1, <1>2 DEF RestOK
<1>4. EditsInv' /\ BuildInv' /\ ChildInv'
  BY <1>1, <1>2 DEF EditsInv, BuildInv, ChildInv
<1>5. NoStaleDependencies' /\ UsesInv' /\ IdleInv'
  BY <1>1 DEF NoStaleDependencies, UsesInv, IdleInv
<1>6. ASSUME NEW e \in Caller
      PROVE  record'[e] <= rows' /\ (request'[e] = "committed" => record'[e] <= durable')
  <2>0. /\ record[e] \in Nat /\ record[e] <= rows
        /\ request[e] = "committed" => record[e] <= durable
    BY DEF RestOK, RecordInv
  <2>1. CASE e = c
    <3>1. CASE ServeRead(c) \/ AnswerAdd(c)
      BY <2>0, <2>1, <3>1 DEF ServeRead, AnswerAdd, store, RestOK
    <3>2. CASE ServeAdd(c)
      BY <1>0, <2>1, <3>2 DEF ServeAdd, RestOK
    <3>3. CASE CommitAdd(c)
      BY <2>0, <2>1, <3>3 DEF CommitAdd, RestOK
    <3> QED
      BY <3>1, <3>2, <3>3
  <2>2. CASE e # c
    <3>1. record'[e] = record[e] /\ request'[e] = request[e]
      BY <2>2 DEF ServeRead, ServeAdd, CommitAdd, AnswerAdd, talk, RestOK
    <3>2. rows <= rows' /\ durable <= durable'
      BY <1>0 DEF ServeRead, ServeAdd, CommitAdd, AnswerAdd, store
    <3>3. rows \in Nat /\ durable \in Nat /\ rows' \in Nat /\ durable' \in Nat
      BY <1>0, <1>2
    <3> QED
      BY <2>0, <3>1, <3>2, <3>3
  <2> QED
    BY <2>1, <2>2
<1>7. RecordInv'
  BY <1>2, <1>6 DEF RecordInv, AckedIsDurable
<1> QED
  BY <1>3, <1>4, <1>5, <1>7

\* The caller turns to the end of the process, waits for it, or is cancelled.
LEMMA CloseKeeps ==
  ASSUME RunInv, NEW c \in Caller,
         \/ ReadLast(c) \/ TimeOut(c) \/ CancelRun(c)
         \/ Close(c) \/ CancelClose(c) \/ CancelBuild(c)
  PROVE  RunInv'
<1> USE DEF RunInv
<1>1. ASSUME NEW kill \in BOOLEAN, Leave(c, kill), UNCHANGED world
      PROVE  RunInv'
  <2>1. /\ pc[c] = "running" /\ pc' = [pc EXCEPT ![c] = "closing"]
        /\ child' = IF kill THEN [child EXCEPT ![c] = "dead"] ELSE child
        /\ UNCHANGED <<lock, env, ver, target, said, request, record, uses, disturbed, abandoned,
                       rows, durable, acked, yaml, skill, project, edits, now, stopping, faults>>
    BY <1>1 DEF Leave, building, plan, talk, used, store, files, world
  <2>2. /\ pc'[c] = "closing" /\ \A e \in Caller \ {c} : pc'[e] = pc[e] /\ child'[e] = child[e]
        /\ child'[c] \in Alive => child[c] \in Alive
    BY <2>1 DEF RestOK, Alive
  <2>3. RestOK'
    BY <2>1 DEF RestOK
  <2>4. EditsInv' /\ RecordInv' /\ BuildInv' /\ ChildInv'
    BY <2>1, <2>2 DEF EditsInv, RecordInv, AckedIsDurable, BuildInv, ChildInv
  <2>5. NoStaleDependencies' /\ UsesInv' /\ IdleInv'
    BY <2>1, <2>2 DEF NoStaleDependencies, UsesInv, IdleInv
  <2> QED
    BY <2>3, <2>4, <2>5
<1>2. CASE Close(c) \/ CancelClose(c)
  <2>1. /\ pc[c] = "closing" /\ Return(c)
        /\ child' = [child EXCEPT ![c] = "dead"] \/ (child' = child /\ stopping)
        /\ disturbed' = disturbed /\ abandoned' \subseteq Caller
        /\ UNCHANGED <<lock, env, uses, rows, durable, acked, yaml, skill, project, edits, now,
                       stopping, faults>>
    BY <1>2 DEF Close, CancelClose, building, used, store, files, world, RestOK
  <2>2. /\ pc' = [pc EXCEPT ![c] = "idle"]
        /\ ver' = [ver EXCEPT ![c] = 0] /\ target' = [target EXCEPT ![c] = 0]
        /\ said' = [said EXCEPT ![c] = None] /\ request' = [request EXCEPT ![c] = None]
        /\ record' = [record EXCEPT ![c] = 0]
    BY <2>1 DEF Return
  <2>3. /\ pc'[c] = "idle" /\ ver'[c] = 0 /\ (child'[c] \in Alive => child[c] \in Alive /\ stopping)
        /\ \A e \in Caller \ {c} : /\ pc'[e] = pc[e] /\ ver'[e] = ver[e] /\ target'[e] = target[e]
                                   /\ child'[e] = child[e]
    BY <2>1, <2>2 DEF RestOK, Alive
  <2>4. RestOK'
    BY <2>1, <2>2 DEF RestOK
  <2>5. EditsInv' /\ RecordInv'
    BY <2>1, <2>2, ReturnRecords DEF EditsInv
  <2>6. BuildInv' /\ ChildInv'
    BY <2>1, <2>3 DEF BuildInv, ChildInv
  <2>7. UsesInv' /\ IdleInv'
    BY <2>1, <2>3 DEF UsesInv, IdleInv
  <2>8. NoStaleDependencies'
    <3> SUFFICES ASSUME NEW e \in Caller, child'[e] \in Alive, uses[e] # None
                 PROVE  uses[e] > 0 /\ uses[e] >= ver'[e]
      BY <2>1 DEF NoStaleDependencies
    <3>1. child[e] \in Alive
      BY <2>3
    <3>2. uses[e] > 0 /\ uses[e] >= ver[e] /\ uses[e] \in Nat
      BY <3>1, Versions DEF NoStaleDependencies, RestOK
    <3> QED
      BY <2>3, <3>2
  <2> QED
    BY <2>4, <2>5, <2>6, <2>7, <2>8
<1>3. CASE CancelBuild(c)
  <2>1. /\ pc[c] \in {"waiting", "venv", "install"} /\ Return(c)
        /\ lock' \in Caller \cup {None} /\ env' = env
        /\ UNCHANGED <<process, store, files, now, stopping, faults>>
    BY <1>3 DEF CancelBuild, world, RestOK
  <2>2. /\ env' \in [python : BOOLEAN, deps : {0} \cup Version, hash : {0} \cup Version]
        /\ env'.hash <= env'.deps /\ faults' \in 0..MaxFaults
    BY <2>1 DEF RestOK, BuildInv
  <2> QED
    BY <2>1, <2>2, ReturnKeeps
<1> QED
  BY <1>1, <1>2, <1>3 DEF ReadLast, TimeOut, CancelRun

\* What happens around the runs.
LEMMA WorldKeeps ==
  ASSUME RunInv,
         \/ \E c \in Caller : Refused(c)
         \/ OtherCommit \/ EditProject \/ LoadAll \/ Time \/ Stop
         \/ \E limit \in Limits \cup {None} : EditYaml(limit)
         \/ UNCHANGED vars
  PROVE  RunInv'
<1> USE DEF RunInv
<1>1. UNCHANGED <<lock, env, ver, target, said, request, record, child, uses, disturbed, abandoned,
                  rows, acked, pc>>
  BY DEF Refused, OtherCommit, EditProject, LoadAll, Time, Stop, EditYaml, vars, building, plan,
         talk, process, used, store
<1>2. /\ durable' = durable \/ durable' = rows
      /\ (stopping => stopping') /\ stopping' \in BOOLEAN
      /\ yaml' \in Limits \cup {None} /\ skill' \in Limits \cup {None}
  BY DEF Refused, OtherCommit, EditProject, LoadAll, Time, Stop, EditYaml, vars, store, world,
         files, RestOK
<1>3. \/ project' = project /\ edits' = edits
      \/ project # None /\ project' = project + 1 /\ edits' = edits + 1 /\ edits < MaxEdits
      \/ project' = project /\ edits' = edits + 1 /\ edits < MaxEdits
  BY DEF Refused, OtherCommit, EditProject, LoadAll, Time, Stop, EditYaml, vars, world, files
<1>4. now' \in 0..MaxNow /\ faults' \in 0..MaxFaults
  BY Constants DEF Refused, OtherCommit, EditProject, LoadAll, Time, Stop, EditYaml, vars, world,
         RestOK
<1>5. /\ project' \in Version \cup {None} /\ edits' \in 0..MaxEdits /\ EditsInv'
      /\ project' = None <=> project = None
      /\ project # None => project <= project' /\ project \in Nat /\ project' \in Nat
  <2>1. edits \in 0..MaxEdits /\ MaxEdits \in Nat /\ None \notin Nat
    BY Constants DEF RestOK
  <2>2. CASE project = None
    BY <1>3, <2>1, <2>2 DEF EditsInv, RestOK
  <2>3. CASE project # None
    <3>1. project \in 1..(MaxEdits + 1) /\ project <= edits + 1
      BY <2>3 DEF RestOK, EditsInv, Version
    <3> QED
      BY <1>3, <2>1, <2>3, <3>1 DEF EditsInv, Version
  <2> QED
    BY <2>2, <2>3
<1>6. RestOK' /\ RecordInv'
  <2>1. /\ rows \in 0..MaxRecords /\ durable \in 0..rows /\ acked <= durable /\ MaxRecords \in Nat
        /\ acked \in Nat
    BY Constants DEF RestOK, RecordInv, AckedIsDurable
  <2>2. durable' \in 0..rows /\ acked <= durable'
    BY <1>2, <2>1
  <2> QED
    BY <1>1, <1>2, <1>4, <1>5, <2>2 DEF RestOK, RecordInv, AckedIsDurable
<1>7. BuildInv'
  <2>1. \A c \in Caller : pc[c] \in {"waiting", "venv", "install"} =>
          project # None /\ ver[c] > 0 /\ ver[c] <= project'
    <3> SUFFICES ASSUME NEW c \in Caller, pc[c] \in {"waiting", "venv", "install"}
                 PROVE  project # None /\ ver[c] > 0 /\ ver[c] <= project'
      OBVIOUS
    <3>1. project # None /\ ver[c] > 0 /\ ver[c] <= project /\ (ver[c] = 0 \/ ver[c] \in Version)
      BY DEF BuildInv, RestOK
    <3> QED
      BY <1>5, <3>1, Versions
  <2> QED
    BY <1>1, <1>5, <2>1 DEF BuildInv
<1>8. ChildInv' /\ NoStaleDependencies' /\ UsesInv' /\ IdleInv'
  BY <1>1, <1>2 DEF ChildInv, NoStaleDependencies, UsesInv, IdleInv
<1> QED
  BY <1>5, <1>6, <1>7, <1>8

\* The agent starts again with what is on the disk.
LEMMA RestartKeeps == RunInv /\ Restart => RunInv'
<1> SUFFICES ASSUME RunInv, Restart PROVE RunInv'
  OBVIOUS
<1> USE DEF RunInv
<1>1. /\ pc' = [c \in Caller |-> "idle"] /\ child' = [c \in Caller |-> "dead"]
      /\ said' = [c \in Caller |-> None] /\ request' = [c \in Caller |-> None]
      /\ record' = [c \in Caller |-> 0] /\ ver' = [c \in Caller |-> 0]
      /\ target' = [c \in Caller |-> 0] /\ uses' = [c \in Caller |-> None]
      /\ disturbed' = {} /\ abandoned' = {} /\ lock' = None /\ rows' = durable /\ skill' = yaml
      /\ stopping' = FALSE
      /\ UNCHANGED <<env, durable, acked, yaml, project, edits, now>>
  BY DEF Restart
<1>2. faults' \in 0..MaxFaults
  BY Constants DEF Restart, RestOK
<1>3. durable \in 0..MaxRecords /\ durable \in 0..durable
  BY Constants DEF RestOK
<1>4. RestOK'
  BY <1>1, <1>2, <1>3 DEF RestOK
<1>5. \A c \in Caller : pc'[c] = "idle" /\ child'[c] \notin Alive
  BY <1>1 DEF Alive
<1>6. EditsInv' /\ ChildInv' /\ UsesInv' /\ IdleInv' /\ NoStaleDependencies'
  BY <1>1, <1>5 DEF EditsInv, ChildInv, UsesInv, IdleInv, NoStaleDependencies
<1>8. RecordInv'
  <2>1. /\ \A c \in Caller : record'[c] = 0 /\ request'[c] = None
        /\ durable \in Nat /\ None # "committed"
    BY <1>1, <1>3, ConstantsOK DEF ConstantsOK
  <2> QED
    BY <1>1, <2>1 DEF RecordInv, AckedIsDurable
<1>7. BuildInv'
  BY <1>1, <1>5 DEF BuildInv
<1> QED
  BY <1>4, <1>6, <1>7, <1>8

LEMMA RunStep == IInv /\ [Next]_vars => RunInv'
<1> SUFFICES ASSUME RunInv, [Next]_vars PROVE RunInv'
  BY RunFromAll
<1> QED
  BY ExecuteKeeps, BuildKeeps, ChildKeeps, ServeKeeps, CloseKeeps, WorldKeeps, RestartKeeps
     DEF Next, Parent

LEMMA InitAll == Init => IInv
<1> SUFFICES ASSUME Init PROVE IInv
  OBVIOUS
<1>1. \A c \in Caller : pc[c] = "idle" /\ child[c] \notin Alive /\ uses[c] = None
  BY DEF Init, Alive
<1>2. TypeOK
  <2>1. 1 \in Version
    BY Constants DEF Version
  <2>2. RestOK
    <3>1. /\ 0 \in 0..MaxRecords /\ 0 \in 0..0 /\ 0 \in 0..MaxNow /\ 0 \in 0..MaxEdits
          /\ 0 \in 0..MaxFaults
      BY Constants
    <3> QED
      BY <2>1, <3>1 DEF Init, RestOK, NoEnv
  <2>3. bucket = None /\ grants \in Seq(0..MaxNow)
    BY DEF Init
  <2> QED
    BY <2>2, <2>3, TypeIsBoth
<1>3. EditsInv /\ SpendingInv /\ GrantsBounded /\ RecordInv
  BY Constants DEF Init, EditsInv, SpendingInv, GrantsBounded, RecordInv, AckedIsDurable
<1>4. BuildInv /\ ChildInv /\ UsesInv /\ IdleInv /\ NoStaleDependencies
  BY <1>1 DEF Init, BuildInv, ChildInv, UsesInv, IdleInv, NoStaleDependencies, NoEnv
<1> QED
  BY <1>2, <1>3, <1>4 DEF IInv

--------------------------------------------------------------------------------

\* The limiter, the builds and the processes agree at every step.
THEOREM InductiveInvariant == Spec => []IInv
<1>1. IInv /\ [Next]_vars => IInv'
  <2> SUFFICES ASSUME IInv, [Next]_vars PROVE IInv'
    OBVIOUS
  <2>1. LimiterInv' /\ RunInv'
    BY LimiterStep, RunStep
  <2>2. TypeOK'
    BY <2>1 DEF LimiterInv, RunInv, RestOK, TypeOK
  <2> QED
    BY <2>1, <2>2 DEF IInv, LimiterInv, RunInv
<1> QED
  BY <1>1, InitAll, PTL DEF Spec

\* Every variable keeps its type.
THEOREM TypeCorrect == Spec => []TypeOK
<1>1. IInv => TypeOK
  BY DEF IInv
<1> QED
  BY <1>1, InductiveInvariant, PTL

\* Whatever the order of calls, refusals, pauses and changes of the limit, between any two
\* grants of one bucket there are no more than its capacity and its refill allow.
THEOREM GrantsAlwaysBounded == Spec => []GrantsBounded
<1>1. IInv => GrantsBounded
  BY DEF IInv
<1> QED
  BY <1>1, InductiveInvariant, PTL

\* Through failing builds, edits, shutdowns and kills, a skill runs with all dependencies
\* of the version its call hashed or of a later one.
THEOREM NeverStaleDependencies == Spec => []NoStaleDependencies
<1>1. IInv => NoStaleDependencies
  BY DEF IInv
<1> QED
  BY <1>1, InductiveInvariant, PTL

\* A record whose call was answered survives every kill: it was inserted before a commit, its
\* own or another's, and answered after its own.
THEOREM AckedAlwaysDurable == Spec => []AckedIsDurable
<1>1. IInv => AckedIsDurable
  BY DEF IInv, RecordInv
<1> QED
  BY <1>1, InductiveInvariant, PTL

--------------------------------------------------------------------------------
(* Who may remove an environment.                                             *)

\* Who builds holds the lock, and nobody else.
LockInv == \A c \in Caller : pc[c] \in {"venv", "install"} <=> lock = c

Uses(c) == child[c] \in Alive /\ uses[c] # None

\* While one builds, whoever used what was there is disturbed; whoever is not, uses what is
\* there, and hashed it.
EnvInv ==
  /\ \A c \in Caller : pc[c] \in {"venv", "install"} => \A d \in Caller : Uses(d) => d \in disturbed
  /\ \A c \in Caller : pc[c] = "install" => env.python
  /\ \A d \in Caller \ disturbed :
       Uses(d) /\ pc[d] \in {"running", "closing"} => env.python /\ env.hash = ver[d]

\* A call that is served is that of a process that waits for the answer.
AskInv ==
  \A c \in Caller :
    pc[c] # "closing" /\ request[c] \in {"sent", "inserted", "committed"} => child[c] = "asking"

SharedInv == LockInv /\ EnvInv

\* A call that neither builds nor uses an environment anew moves on.
LEMMA SharedQuiet ==
  ASSUME RestOK, SharedInv, NEW c \in Caller,
         \A e \in Caller \ {c} : pc'[e] = pc[e] /\ ver'[e] = ver[e],
         \A e \in Caller : Uses(e)' => Uses(e),
         pc'[c] \notin {"venv", "install"},
         pc'[c] \in {"running", "closing"} => pc[c] \in {"running", "closing"} /\ ver'[c] = ver[c],
         env' = env, disturbed' = disturbed,
         \/ lock' = lock /\ pc[c] \notin {"venv", "install"}
         \/ lock' = None /\ pc[c] \in {"venv", "install"}
  PROVE  SharedInv'
<1>1. LockInv'
  BY ConstantsOK DEF ConstantsOK, SharedInv, LockInv
<1>2. EnvInv'
  BY DEF SharedInv, EnvInv
<1> QED
  BY <1>1, <1>2 DEF SharedInv

LEMMA SharedEnsure ==
  ASSUME RunInv, SharedInv, NEW c \in Caller, NEW v \in Version, Ensure(c, v), lock = None,
         pc[c] = "waiting" \/ (pc[c] = "idle" /\ ~stopping)
  PROVE  SharedInv'
<1>0. /\ child[c] \notin Alive /\ \A e \in Caller : pc[e] \notin {"venv", "install"}
      /\ pc \in [Caller -> {"idle", "waiting", "venv", "install", "running", "closing"}]
      /\ child \in [Caller -> Alive \cup {"dead"}]
      /\ uses \in [Caller -> {0, None} \cup Version]
      /\ ver \in [Caller -> {0} \cup Version] /\ None \notin Caller
  BY ConstantsOK DEF ConstantsOK, RunInv, RestOK, ChildInv, SharedInv, LockInv
<1>1. CASE Cached(v) /\ Spawn(c, env.deps) /\ ver' = [ver EXCEPT ![c] = v]
           /\ UNCHANGED <<building, target>>
  <2>1. /\ pc'[c] = "running" /\ ver'[c] = v /\ env.python /\ env.hash = v /\ env' = env
        /\ lock' = lock /\ disturbed' = disturbed \ {c}
        /\ \A e \in Caller \ {c} : /\ pc'[e] = pc[e] /\ ver'[e] = ver[e]
                                   /\ child'[e] = child[e] /\ uses'[e] = uses[e]
    BY <1>0, <1>1 DEF Spawn, Cached, building
  <2>2. LockInv'
    BY <1>0, <2>1 DEF LockInv
  <2>3. EnvInv'
    BY <1>0, <2>1 DEF SharedInv, EnvInv, Uses
  <2> QED
    BY <2>2, <2>3 DEF SharedInv
<1>2. CASE Clear(c) /\ ver' = [ver EXCEPT ![c] = v]
  <2>1. /\ pc'[c] = "venv" /\ lock' = c /\ child' = child /\ uses' = uses
        /\ disturbed' = disturbed \cup {d \in Caller : Uses(d)}
        /\ \A e \in Caller \ {c} : pc'[e] = pc[e]
    BY <1>0, <1>2 DEF Clear, Uses
  <2>2. \A d \in Caller : Uses(d)' => d \in disturbed'
    BY <2>1 DEF Uses
  <2> QED
    BY <1>0, <2>1, <2>2 DEF SharedInv, LockInv, EnvInv
<1>3. CASE Return(c) /\ UNCHANGED <<building, process>>
  <2>1. /\ pc'[c] = "idle" /\ \A e \in Caller \ {c} : pc'[e] = pc[e] /\ ver'[e] = ver[e]
        /\ env' = env /\ lock' = lock /\ child' = child /\ uses' = uses /\ disturbed' = disturbed
    BY <1>0, <1>3 DEF Return, building, process, used
  <2>2. \A e \in Caller : Uses(e)' => Uses(e)
    BY <2>1 DEF Uses
  <2> QED
    BY <2>1, <2>2, SharedQuiet DEF RunInv
<1> QED
  BY <1>1, <1>2, <1>3 DEF Ensure

LEMMA SharedExecute ==
  ASSUME RunInv, SharedInv, NEW c \in Caller, Execute(c)
  PROVE  SharedInv'
<1>1. pc[c] = "idle" /\ ~stopping /\ Prepare(c)
  BY DEF Execute
<1>0. /\ child[c] \notin Alive
      /\ pc \in [Caller -> {"idle", "waiting", "venv", "install", "running", "closing"}]
      /\ child \in [Caller -> Alive \cup {"dead"}]
      /\ uses \in [Caller -> {0, None} \cup Version]
      /\ ver \in [Caller -> {0} \cup Version] /\ project \in Version \cup {None}
  BY <1>1 DEF RunInv, RestOK, ChildInv
<1>2. CASE project = None /\ Spawn(c, None) /\ UNCHANGED <<building, plan>>
  <2>1. /\ pc'[c] = "running" /\ uses'[c] = None /\ env' = env /\ ver' = ver
        /\ lock' = lock /\ disturbed' = disturbed \ {c}
        /\ \A e \in Caller \ {c} : /\ pc'[e] = pc[e]
                                   /\ child'[e] = child[e] /\ uses'[e] = uses[e]
    BY <1>0, <1>2 DEF Spawn, building, plan
  <2>2. LockInv'
    BY <1>1, <2>1 DEF SharedInv, LockInv
  <2>3. EnvInv'
    BY <1>1, <2>1 DEF SharedInv, EnvInv, Uses
  <2> QED
    BY <2>2, <2>3 DEF SharedInv
<1>3. CASE project # None /\ lock = None /\ Ensure(c, project)
  BY <1>0, <1>1, <1>3, SharedEnsure
<1>4. CASE /\ pc' = [pc EXCEPT ![c] = "waiting"]
           /\ ver' = [ver EXCEPT ![c] = project]
           /\ UNCHANGED <<building, target, talk, process>>
  <2>1. /\ pc'[c] = "waiting" /\ \A e \in Caller \ {c} : pc'[e] = pc[e] /\ ver'[e] = ver[e]
        /\ env' = env /\ lock' = lock /\ child' = child /\ uses' = uses /\ disturbed' = disturbed
    BY <1>0, <1>4 DEF building, process, used
  <2>2. \A e \in Caller : Uses(e)' => Uses(e)
    BY <2>1 DEF Uses
  <2> QED
    BY <1>0, <1>1, <1>4, <2>1, <2>2, SharedQuiet DEF RunInv
<1> QED
  BY <1>1, <1>2, <1>3, <1>4 DEF Prepare

LEMMA SharedBuild ==
  ASSUME RunInv, SharedInv, NEW c \in Caller, Enter(c) \/ Uv(c)
  PROVE  SharedInv'
<1>0. /\ pc \in [Caller -> {"idle", "waiting", "venv", "install", "running", "closing"}]
      /\ child \in [Caller -> Alive \cup {"dead"}]
      /\ uses \in [Caller -> {0, None} \cup Version]
      /\ ver \in [Caller -> {0} \cup Version] /\ None \notin Caller
      /\ env \in [python : BOOLEAN, deps : {0} \cup Version, hash : {0} \cup Version]
  BY ConstantsOK DEF ConstantsOK, RunInv, RestOK
<1>1. CASE Enter(c)
  <2>1. pc[c] = "waiting" /\ lock = None /\ Ensure(c, ver[c])
    BY <1>1 DEF Enter
  <2>2. ver[c] \in Version
    BY <1>0, <2>1 DEF RunInv, BuildInv
  <2> QED
    BY <2>1, <2>2, SharedEnsure
<1>2. CASE VenvMade(c)
  <2>1. /\ pc[c] = "venv" /\ pc'[c] = "install" /\ \A e \in Caller \ {c} : pc'[e] = pc[e]
        /\ env'.python /\ env'.hash = env.hash
        /\ lock' = lock /\ ver' = ver /\ child' = child /\ uses' = uses /\ disturbed' = disturbed
    BY <1>0, <1>2 DEF VenvMade, plan, process, used
  <2>2. \A e \in Caller : Uses(e)' <=> Uses(e)
    BY <2>1 DEF Uses
  <2> QED
    BY <2>1, <2>2 DEF SharedInv, LockInv, EnvInv
<1>3. CASE Installed(c)
  <2>1. /\ pc[c] = "install" /\ pc'[c] = "running" /\ \A e \in Caller \ {c} : pc'[e] = pc[e]
        /\ env'.python = env.python /\ env'.hash = ver[c] /\ lock' = None /\ ver' = ver
        /\ disturbed' = disturbed \ {c}
        /\ \A e \in Caller \ {c} : child'[e] = child[e] /\ uses'[e] = uses[e]
    BY <1>0, <1>3 DEF Installed, Spawn, plan
  <2>2. \A e \in Caller \ {c} : pc[e] \notin {"venv", "install"}
    BY <2>1 DEF SharedInv, LockInv
  <2>3. env.python /\ \A d \in Caller : Uses(d) => d \in disturbed
    BY <2>1 DEF SharedInv, EnvInv
  <2>4. \A e \in Caller \ {c} : Uses(e)' => e \in disturbed'
    BY <2>1, <2>3 DEF Uses
  <2>5. \A e \in Caller : pc'[e] \notin {"venv", "install"}
    BY <2>1, <2>2
  <2>6. LockInv'
    BY <1>0, <2>1, <2>5 DEF LockInv
  <2>7. EnvInv'
    BY <2>1, <2>3, <2>4, <2>5 DEF EnvInv
  <2> QED
    BY <2>6, <2>7 DEF SharedInv
<1>4. CASE BuildFails(c)
  <2>1. /\ pc[c] \in {"venv", "install"} /\ pc'[c] = "idle" /\ lock' = None
        /\ \A e \in Caller \ {c} : pc'[e] = pc[e]
        /\ child' = child /\ uses' = uses /\ disturbed' = disturbed
    BY <1>0, <1>4 DEF BuildFails, Return, process, used
  <2>2. \A e \in Caller : pc'[e] \notin {"venv", "install"}
    BY <2>1 DEF SharedInv, LockInv
  <2>3. \A e \in Caller : Uses(e)' => e \in disturbed'
    BY <2>1 DEF SharedInv, EnvInv, Uses
  <2> QED
    BY <1>0, <2>1, <2>2, <2>3 DEF SharedInv, LockInv, EnvInv
<1> QED
  BY <1>1, <1>2, <1>3, <1>4 DEF Uv

LEMMA SharedRest ==
  ASSUME RunInv, SharedInv, NEW c \in Caller,
         \/ Ask(c) \/ Exit(c) \/ (\E last \in Final : Say(c, last))
         \/ ReadLast(c) \/ TimeOut(c) \/ CancelRun(c)
         \/ Close(c) \/ CancelClose(c) \/ CancelBuild(c)
  PROVE  SharedInv'
<1>0. /\ pc \in [Caller -> {"idle", "waiting", "venv", "install", "running", "closing"}]
      /\ child \in [Caller -> Alive \cup {"dead"}]
      /\ ver \in [Caller -> {0} \cup Version] /\ RestOK
  BY DEF RunInv, RestOK
<1>1. CASE Ask(c) \/ Exit(c) \/ (\E last \in Final : Say(c, last))
  <2>1. /\ pc' = pc /\ ver' = ver /\ env' = env /\ lock' = lock /\ disturbed' = disturbed
        /\ uses' = uses /\ \A e \in Caller : child'[e] \in Alive => child[e] \in Alive
    BY <1>0, <1>1 DEF Ask, Exit, Say, building, plan, used, Alive
  <2> QED
    BY <2>1 DEF SharedInv, LockInv, EnvInv, Uses
<1>2. CASE ReadLast(c) \/ TimeOut(c) \/ CancelRun(c)
  <2>1. /\ pc[c] = "running" /\ pc'[c] = "closing" /\ \A e \in Caller \ {c} : pc'[e] = pc[e]
        /\ ver' = ver /\ env' = env /\ lock' = lock /\ disturbed' = disturbed /\ uses' = uses
        /\ \A e \in Caller : child'[e] \in Alive => child[e] \in Alive
    BY <1>0, <1>2 DEF ReadLast, TimeOut, CancelRun, Leave, building, plan, used, Alive
  <2>2. \A e \in Caller : Uses(e)' => Uses(e)
    BY <2>1 DEF Uses
  <2> QED
    BY <1>0, <2>1, <2>2, SharedQuiet
<1>3. CASE Close(c) \/ CancelClose(c) \/ CancelBuild(c)
  <2>1. /\ pc'[c] = "idle" /\ \A e \in Caller \ {c} : pc'[e] = pc[e] /\ ver'[e] = ver[e]
        /\ env' = env /\ disturbed' = disturbed /\ uses' = uses
        /\ \A e \in Caller : child'[e] \in Alive => child[e] \in Alive
    BY <1>0, <1>3 DEF Close, CancelClose, CancelBuild, Return, building, process, used, Alive
  <2>2. \/ lock' = lock /\ pc[c] \notin {"venv", "install"}
        \/ lock' = None /\ pc[c] \in {"venv", "install"}
    BY <1>3 DEF Close, CancelClose, CancelBuild, building, SharedInv, LockInv
  <2>3. \A e \in Caller : Uses(e)' => Uses(e)
    BY <2>1 DEF Uses
  <2> QED
    BY <1>0, <2>1, <2>2, <2>3, SharedQuiet
<1> QED
  BY <1>1, <1>2, <1>3

LEMMA AskStep == RunInv /\ AskInv /\ [Next]_vars => AskInv'
<1> SUFFICES ASSUME RunInv, AskInv, [Next]_vars PROVE AskInv'
  OBVIOUS
<1>0. /\ pc \in [Caller -> {"idle", "waiting", "venv", "install", "running", "closing"}]
      /\ child \in [Caller -> Alive \cup {"dead"}]
      /\ request \in [Caller -> {None, "sent", "inserted", "committed", "answered"}]
      /\ None \notin {"sent", "inserted", "committed", "answered"}
  BY ConstantsOK DEF ConstantsOK, RunInv, RestOK
\* It is enough that one call moves on, to its end or with an answer.
<1>1. ASSUME NEW c \in Caller,
             \A e \in Caller \ {c} : pc'[e] = pc[e] /\ child'[e] = child[e] /\ request'[e] = request[e],
             \/ request'[c] \notin {"sent", "inserted", "committed"} \/ pc'[c] = "closing" \/ child'[c] = "asking"
             \/ request'[c] = request[c] /\ child'[c] = child[c] /\ pc[c] # "closing"
      PROVE  AskInv'
  BY <1>1 DEF AskInv
<1>2. ASSUME NEW c \in Caller, NEW d, Spawn(c, d), pc[c] \in {"idle", "waiting", "install"},
             ~(pc[c] = "idle" /\ stopping)
      PROVE  AskInv'
  <2>1. child[c] \notin Alive
    BY <1>2 DEF RunInv, ChildInv
  <2>2. request[c] \notin {"sent", "inserted", "committed"}
    BY <1>2, <2>1 DEF AskInv, Alive
  <2> QED
    BY <1>0, <1>1, <1>2, <2>2 DEF Spawn, talk
<1>3. ASSUME NEW c \in Caller, Return(c), \A e \in Caller \ {c} : child'[e] = child[e]
      PROVE  AskInv'
  BY <1>0, <1>1, <1>3 DEF Return
<1>4. ASSUME NEW c \in Caller, Clear(c), pc[c] \in {"idle", "waiting"} PROVE AskInv'
  BY <1>0, <1>1, <1>4 DEF Clear, talk
<1>5. ASSUME NEW c \in Caller, NEW v, Ensure(c, v), pc[c] \in {"idle", "waiting"},
             ~(pc[c] = "idle" /\ stopping)
      PROVE  AskInv'
  BY <1>2, <1>3, <1>4, <1>5 DEF Ensure, process
<1>6. ASSUME NEW c \in Caller, Execute(c) PROVE AskInv'
  <2>1. pc[c] = "idle" /\ ~stopping /\ Prepare(c)
    BY <1>6 DEF Execute
  <2>2. CASE pc' = [pc EXCEPT ![c] = "waiting"] /\ UNCHANGED <<talk, process>>
    BY <1>0, <1>1, <2>1, <2>2 DEF talk, process
  <2> QED
    BY <1>2, <1>5, <2>1, <2>2 DEF Prepare
<1>7. ASSUME NEW c \in Caller, Enter(c) \/ Uv(c) PROVE AskInv'
  <2>1. CASE Enter(c)
    BY <1>5, <2>1 DEF Enter
  <2>2. CASE VenvMade(c)
    BY <1>0, <1>1, <2>2 DEF VenvMade, talk, process
  <2>3. CASE Installed(c)
    BY <1>2, <2>3 DEF Installed
  <2>4. CASE BuildFails(c)
    BY <1>3, <2>4 DEF BuildFails, process
  <2> QED
    BY <1>7, <2>1, <2>2, <2>3, <2>4 DEF Uv
<1>8. ASSUME NEW c \in Caller, Ask(c) \/ Exit(c) \/ \E last \in Final : Say(c, last) PROVE AskInv'
  <2>1. CASE Ask(c)
    BY <1>0, <1>1, <2>1 DEF Ask
  <2>2. CASE Exit(c) \/ \E last \in Final : Say(c, last)
    <3>1. /\ child[c] \in {"working", "exiting"} /\ request' = request /\ pc' = pc
          /\ \A e \in Caller \ {c} : child'[e] = child[e]
      BY <1>0, <2>2 DEF Exit, Say, talk
    <3>2. pc[c] # "closing" => request[c] \notin {"sent", "inserted", "committed"}
      BY <3>1 DEF AskInv
    <3> QED
      BY <1>1, <3>1, <3>2
  <2> QED
    BY <1>8, <2>1, <2>2
<1>9. ASSUME NEW c \in Caller, ServeRead(c) \/ ServeAdd(c) \/ CommitAdd(c) \/ AnswerAdd(c)
      PROVE  AskInv'
  <2>1. CASE ServeRead(c) \/ AnswerAdd(c)
    BY <1>0, <1>1, <2>1 DEF ServeRead, AnswerAdd, Answer
  <2>2. CASE ServeAdd(c)
    <3>1. child[c] = "asking"
      BY <2>2 DEF ServeAdd, AskInv
    <3> QED
      BY <1>0, <1>1, <2>2, <3>1 DEF ServeAdd, process
  <2>3. CASE CommitAdd(c)
    BY <2>3 DEF CommitAdd, talk, process, AskInv
  <2> QED
    BY <1>9, <2>1, <2>2, <2>3
<1>10. ASSUME NEW c \in Caller, ReadLast(c) \/ TimeOut(c) \/ CancelRun(c) PROVE AskInv'
  <2>1. /\ pc'[c] = "closing" /\ request' = request
        /\ \A e \in Caller \ {c} : pc'[e] = pc[e] /\ child'[e] = child[e]
    BY <1>0, <1>10 DEF ReadLast, TimeOut, CancelRun, Leave, talk
  <2> QED
    BY <1>1, <2>1
<1>11. ASSUME NEW c \in Caller, Close(c) \/ CancelClose(c) \/ CancelBuild(c) PROVE AskInv'
  <2>1. Return(c) /\ \A e \in Caller \ {c} : child'[e] = child[e]
    BY <1>0, <1>11 DEF Close, CancelClose, CancelBuild, process
  <2> QED
    BY <1>3, <2>1
<1>12. CASE \/ \E c \in Caller : Refused(c)
            \/ OtherCommit \/ EditProject \/ LoadAll \/ Time \/ Stop
            \/ \E limit \in Limits \cup {None} : EditYaml(limit)
            \/ UNCHANGED vars
  <2>1. UNCHANGED <<pc, child, request>>
    BY <1>12 DEF Refused, OtherCommit, EditProject, LoadAll, Time, Stop, EditYaml, vars, talk,
       process
  <2> QED
    BY <2>1 DEF AskInv
<1>13. CASE Restart
  BY <1>0, <1>13 DEF Restart, AskInv
<1> QED
  BY <1>6, <1>7, <1>8, <1>9, <1>10, <1>11, <1>12, <1>13 DEF Next, Parent

LEMMA SharedStep == RunInv /\ AskInv /\ SharedInv /\ [Next]_vars => SharedInv'
<1> SUFFICES ASSUME RunInv, AskInv, SharedInv, [Next]_vars PROVE SharedInv'
  OBVIOUS
<1>1. ASSUME NEW c \in Caller, ServeRead(c) \/ ServeAdd(c) \/ CommitAdd(c) \/ AnswerAdd(c)
      PROVE  SharedInv'
  <2>1. /\ UNCHANGED <<pc, ver, env, lock, disturbed, uses>>
        /\ pc[c] = "running" /\ request[c] \in {"sent", "inserted", "committed"}
        /\ \A e \in Caller \ {c} : child'[e] = child[e]
    BY <1>1 DEF ServeRead, ServeAdd, CommitAdd, AnswerAdd, Answer, building, plan, process, used,
       RunInv, RestOK
  <2>2. child[c] \in Alive
    BY <2>1 DEF AskInv, Alive
  <2>3. \A e \in Caller : Uses(e)' => Uses(e)
    BY <2>1, <2>2 DEF Uses
  <2> QED
    BY <2>1, <2>3 DEF SharedInv, LockInv, EnvInv
<1>2. ASSUME UNCHANGED <<pc, ver, env, lock, disturbed, uses, child>>
      PROVE  SharedInv'
  BY <1>2 DEF SharedInv, LockInv, EnvInv, Uses
<1>3. CASE \/ \E c \in Caller : Refused(c)
           \/ OtherCommit \/ EditProject \/ LoadAll \/ Time \/ Stop
           \/ \E limit \in Limits \cup {None} : EditYaml(limit)
           \/ UNCHANGED vars
  BY <1>2, <1>3 DEF Refused, OtherCommit, EditProject, LoadAll, Time, Stop, EditYaml, vars,
     building, plan, process, used
<1>4. CASE Restart
  <2>1. /\ pc' = [c \in Caller |-> "idle"] /\ child' = [c \in Caller |-> "dead"] /\ lock' = None
    BY <1>4 DEF Restart
  <2>2. \A c \in Caller : pc'[c] = "idle" /\ child'[c] \notin Alive /\ lock' # c
    BY <2>1, ConstantsOK DEF Alive, ConstantsOK
  <2> QED
    BY <2>2 DEF SharedInv, LockInv, EnvInv, Uses
<1> QED
  BY <1>1, <1>3, <1>4, SharedExecute, SharedBuild, SharedRest DEF Next, Parent

\* Only a call that hashed something else removes the environment of a running skill.
THEOREM DisturbedByChange == Spec => DisturbedOnlyByChange
<1> DEFINE Changed ==
      \A d \in disturbed' \ disturbed :
        \E c \in Caller \ {d} : lock # c /\ lock' = c /\ ver'[c] # ver[d]
<1>1. Init => AskInv /\ SharedInv
  BY ConstantsOK DEF ConstantsOK, Init, AskInv, SharedInv, LockInv, EnvInv, Uses, Alive
<1>2. ASSUME RunInv, SharedInv, [Next]_vars
      PROVE  Changed
  <2>0. /\ pc \in [Caller -> {"idle", "waiting", "venv", "install", "running", "closing"}]
        /\ child \in [Caller -> Alive \cup {"dead"}]
        /\ uses \in [Caller -> {0, None} \cup Version]
        /\ ver \in [Caller -> {0} \cup Version] /\ None \notin Caller
        /\ project \in Version \cup {None} /\ disturbed \subseteq Caller
    BY <1>2, ConstantsOK DEF ConstantsOK, RunInv, RestOK
  <2>1. ASSUME NEW c \in Caller, NEW v \in Version, Clear(c), ver' = [ver EXCEPT ![c] = v],
               ~Cached(v), lock = None, pc[c] = "waiting" \/ (pc[c] = "idle" /\ ~stopping)
        PROVE  Changed
    <3>1. v # 0 /\ child[c] \notin Alive
      BY <1>2, <2>1, Versions DEF RunInv, ChildInv
    <3>2. /\ lock # c /\ lock' = c /\ ver'[c] = v
          /\ disturbed' = disturbed \cup {d \in Caller : Uses(d)}
      BY <2>0, <2>1 DEF Clear, Uses
    <3>3. ASSUME NEW d \in disturbed' \ disturbed
          PROVE  d \in Caller /\ c # d /\ v # ver[d]
      <4>1. d \in Caller /\ Uses(d) /\ d \notin disturbed /\ c # d
        BY <3>1, <3>2, <3>3 DEF Uses
      <4>2. pc[d] \in {"running", "closing"} \/ pc[d] = "idle"
        BY <1>2, <4>1 DEF RunInv, ChildInv, Uses
      <4>3. CASE pc[d] \in {"running", "closing"}
        BY <1>2, <2>1, <4>1, <4>3 DEF SharedInv, EnvInv, Cached
      <4>4. CASE pc[d] = "idle"
        BY <1>2, <3>1, <4>1, <4>4 DEF RunInv, IdleInv
      <4> QED
        BY <4>1, <4>2, <4>3, <4>4
    <3> QED
      BY <3>2, <3>3
  <2>5. ASSUME disturbed' \subseteq disturbed PROVE Changed
    BY <2>5
  <2>2. ASSUME NEW c \in Caller, NEW v \in Version, Ensure(c, v), lock = None,
               pc[c] = "waiting" \/ (pc[c] = "idle" /\ ~stopping)
        PROVE  Changed
    <3>1. CASE Clear(c) /\ ver' = [ver EXCEPT ![c] = v] /\ ~Cached(v)
      BY <2>1, <2>2, <3>1
    <3>2. CASE Spawn(c, env.deps)
      BY <2>5, <3>2 DEF Spawn
    <3>3. CASE UNCHANGED process
      BY <2>5, <3>3 DEF process, used
    <3> QED
      BY <2>2, <3>1, <3>2, <3>3 DEF Ensure
  <2>3. ASSUME NEW c \in Caller, Execute(c) PROVE Changed
    <3>1. pc[c] = "idle" /\ ~stopping /\ Prepare(c)
      BY <2>3 DEF Execute
    <3>2. CASE project # None /\ lock = None /\ Ensure(c, project)
      <4>1. project \in Version
        BY <2>0, <3>2
      <4> QED
        BY <2>2, <3>1, <3>2, <4>1
    <3>3. CASE Spawn(c, None) \/ UNCHANGED process
      BY <2>5, <3>3 DEF Spawn, process, used
    <3> QED
      BY <3>1, <3>2, <3>3 DEF Prepare, process
  <2>4. ASSUME NEW c \in Caller, Enter(c) PROVE Changed
    <3>1. pc[c] = "waiting" /\ lock = None /\ Ensure(c, ver[c])
      BY <2>4 DEF Enter
    <3>2. ver[c] > 0 /\ ver[c] \in {0} \cup Version
      BY <1>2, <2>0, <3>1 DEF RunInv, BuildInv
    <3> QED
      BY <2>2, <3>1, <3>2
  <2>6. ASSUME NEW c \in Caller, Uv(c) \/ Ask(c) \/ Exit(c) \/ \E last \in Final : Say(c, last)
        PROVE  disturbed' \subseteq disturbed
    BY <2>6 DEF Uv, VenvMade, Installed, BuildFails, Spawn, Ask, Exit, Say, process, used
  <2>7. ASSUME NEW c \in Caller, Parent(c) \/ CancelBuild(c) \/ CancelRun(c) \/ CancelClose(c)
        PROVE  disturbed' \subseteq disturbed
    BY <2>7 DEF Parent, ServeRead, ServeAdd, CommitAdd, AnswerAdd, ReadLast, TimeOut, Leave, Close,
       CancelBuild, CancelRun, CancelClose, process, used
  <2>8. CASE \/ \E c \in Caller : Refused(c)
             \/ OtherCommit \/ EditProject \/ LoadAll \/ Time \/ Stop \/ Restart
             \/ \E limit \in Limits \cup {None} : EditYaml(limit)
             \/ UNCHANGED vars
    <3>1. disturbed' \subseteq disturbed
      BY <2>8 DEF Refused, OtherCommit, EditProject, LoadAll, Time, Stop, Restart, EditYaml, vars,
         process, used
    <3> QED
      BY <2>5, <3>1
  <2> QED
    BY <1>2, <2>3, <2>4, <2>5, <2>6, <2>7, <2>8 DEF Next
<1>3. IInv /\ AskInv /\ SharedInv /\ [Next]_vars => (AskInv /\ SharedInv)' /\ [Changed]_vars
  BY <1>2, AskStep, SharedStep, RunFromAll
<1> QED
  BY <1>1, <1>3, InductiveInvariant, PTL DEF Spec, DisturbedOnlyByChange

--------------------------------------------------------------------------------
(* What is left of a run.                                                     *)

\* Every end of a call kills its process, has seen it dead, or was cancelled in that wait; a
\* call that starts finds no process of the one before.
LEMMA LeftStep == RunInv /\ NoChildLeft /\ [Next]_vars => NoChildLeft'
<1> SUFFICES ASSUME RunInv, NoChildLeft, [Next]_vars PROVE NoChildLeft'
  OBVIOUS
<1>0. /\ pc \in [Caller -> {"idle", "waiting", "venv", "install", "running", "closing"}]
      /\ child \in [Caller -> Alive \cup {"dead"}]
  BY DEF RunInv, RestOK
<1>1. ASSUME NEW c \in Caller,
             \A e \in Caller \ {c} : /\ pc'[e] = pc[e] /\ child'[e] = child[e]
                                     /\ e \in abandoned => e \in abandoned',
             child'[c] \notin Alive \/ pc'[c] \in {"running", "closing"} \/ c \in abandoned'
      PROVE  NoChildLeft'
  BY <1>1 DEF NoChildLeft
<1>2. ASSUME NEW c \in Caller, NEW d, Spawn(c, d) PROVE NoChildLeft'
  BY <1>0, <1>1, <1>2 DEF Spawn
<1>3. ASSUME NEW c \in Caller, child[c] \notin Alive, child' = child, abandoned' = abandoned,
             \A e \in Caller \ {c} : pc'[e] = pc[e]
      PROVE  NoChildLeft'
  BY <1>1, <1>3
\* A call that has not come to its process has none.
<1>4. ASSUME NEW c \in Caller,
             pc[c] \in {"waiting", "venv", "install"} \/ (pc[c] = "idle" /\ ~stopping)
      PROVE  child[c] \notin Alive
  BY <1>4 DEF RunInv, ChildInv
<1>5. ASSUME NEW c \in Caller, NEW v, Ensure(c, v), child[c] \notin Alive PROVE NoChildLeft'
  <2>1. CASE Spawn(c, env.deps)
    BY <1>2, <2>1
  <2>2. CASE Clear(c)
    BY <1>0, <1>3, <1>5, <2>2 DEF Clear
  <2>3. CASE Return(c) /\ UNCHANGED process
    BY <1>0, <1>3, <1>5, <2>3 DEF Return, process, used
  <2> QED
    BY <1>5, <2>1, <2>2, <2>3 DEF Ensure
<1>6. ASSUME NEW c \in Caller, Execute(c) PROVE NoChildLeft'
  <2>1. child[c] \notin Alive /\ Prepare(c)
    BY <1>4, <1>6 DEF Execute
  <2>2. CASE pc' = [pc EXCEPT ![c] = "waiting"] /\ UNCHANGED process
    BY <1>0, <1>3, <2>1, <2>2 DEF process, used
  <2> QED
    BY <1>2, <1>5, <2>1, <2>2 DEF Prepare
<1>7. ASSUME NEW c \in Caller, Enter(c) \/ Uv(c) \/ CancelBuild(c) PROVE NoChildLeft'
  <2>1. CASE Enter(c)
    BY <1>4, <1>5, <2>1 DEF Enter
  <2>2. CASE Installed(c)
    BY <1>2, <2>2 DEF Installed
  <2>3. CASE VenvMade(c) \/ BuildFails(c) \/ CancelBuild(c)
    <3>1. /\ pc[c] \in {"waiting", "venv", "install"} /\ child' = child /\ abandoned' = abandoned
          /\ \A e \in Caller \ {c} : pc'[e] = pc[e]
      BY <1>0, <2>3 DEF VenvMade, BuildFails, CancelBuild, Return, process, used
    <3> QED
      BY <1>3, <1>4, <3>1
  <2> QED
    BY <1>7, <2>1, <2>2, <2>3 DEF Uv
<1>8. ASSUME NEW c \in Caller, Ask(c) \/ Exit(c) \/ \E last \in Final : Say(c, last)
      PROVE  NoChildLeft'
  <2>1. /\ pc' = pc /\ abandoned' = abandoned /\ child[c] \in Alive
        /\ \A e \in Caller \ {c} : child'[e] = child[e]
    BY <1>0, <1>8 DEF Ask, Exit, Say, used, Alive
  <2>2. pc[c] \in {"running", "closing"} \/ c \in abandoned
    BY <2>1 DEF NoChildLeft
  <2> QED
    BY <1>1, <2>1, <2>2
<1>9. ASSUME NEW c \in Caller, ServeRead(c) \/ ServeAdd(c) \/ CommitAdd(c) \/ AnswerAdd(c)
      PROVE  NoChildLeft'
  <2>1. /\ pc' = pc /\ pc[c] = "running" /\ abandoned' = abandoned
        /\ \A e \in Caller \ {c} : child'[e] = child[e]
    BY <1>0, <1>9 DEF ServeRead, ServeAdd, CommitAdd, AnswerAdd, Answer, process, used
  <2> QED
    BY <1>1, <2>1
<1>10. ASSUME NEW c \in Caller, ReadLast(c) \/ TimeOut(c) \/ CancelRun(c) PROVE NoChildLeft'
  <2>1. /\ pc'[c] = "closing" /\ abandoned' = abandoned
        /\ \A e \in Caller \ {c} : pc'[e] = pc[e] /\ child'[e] = child[e]
    BY <1>0, <1>10 DEF ReadLast, TimeOut, CancelRun, Leave, used
  <2> QED
    BY <1>1, <2>1
<1>11. ASSUME NEW c \in Caller, Close(c) PROVE NoChildLeft'
  <2>1. /\ child'[c] \notin Alive /\ abandoned' = abandoned
        /\ \A e \in Caller \ {c} : pc'[e] = pc[e] /\ child'[e] = child[e]
    BY <1>0, <1>11 DEF Close, Return, used, Alive
  <2> QED
    BY <1>1, <2>1
<1>12. ASSUME NEW c \in Caller, CancelClose(c) PROVE NoChildLeft'
  <2>1. /\ abandoned' = abandoned \cup {c} /\ child' = child
        /\ \A e \in Caller \ {c} : pc'[e] = pc[e]
    BY <1>0, <1>12 DEF CancelClose, Return
  <2> QED
    BY <1>1, <2>1
<1>13. CASE \/ \E c \in Caller : Refused(c)
            \/ OtherCommit \/ EditProject \/ LoadAll \/ Time \/ Stop
            \/ \E limit \in Limits \cup {None} : EditYaml(limit)
            \/ UNCHANGED vars
  <2>1. UNCHANGED <<pc, child, abandoned>>
    BY <1>13 DEF Refused, OtherCommit, EditProject, LoadAll, Time, Stop, EditYaml, vars, process, used
  <2> QED
    BY <2>1 DEF NoChildLeft
<1>14. CASE Restart
  BY <1>14 DEF Restart, NoChildLeft, Alive
<1> QED
  BY <1>6, <1>7, <1>8, <1>9, <1>10, <1>11, <1>12, <1>13, <1>14 DEF Next, Parent

\* However a run ends, by its result, an error, a time-out, a failing build or a shutdown, no
\* subprocess outlives its call but one whose parent was cancelled while it waited for it.
THEOREM NoChildEverLeft == Spec => []NoChildLeft
<1>1. Init => NoChildLeft
  BY DEF Init, NoChildLeft, Alive
<1>2. IInv /\ NoChildLeft /\ [Next]_vars => NoChildLeft'
  BY RunFromAll, LeftStep
<1> QED
  BY <1>1, <1>2, InductiveInvariant, PTL DEF Spec
================================================================================
