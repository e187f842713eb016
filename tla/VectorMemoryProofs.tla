--------------------------- MODULE VectorMemoryProofs ---------------------------
(******************************************************************************)
(* Proofs about VectorMemory, for all sets of tasks, rows and contents, any   *)
(* configuration and any number of crashes.                                   *)
(******************************************************************************)
EXTENDS VectorMemory, TLAPS

\* Only rowids that were given out are in use.
SpentInv ==
  /\ \A i \in Id : vec[i] # None \/ meta[i] # None => i \in spent
  /\ \A i \in Id : durable.vec[i] # None \/ durable.meta[i] # None => i \in spent
  /\ \A t \in Task : task[t].todo \subseteq spent
  /\ \A t \in Task : task[t].at \in {"insertMeta", "commitInsert"} => task[t].id \in spent

\* A row between its two INSERTs is nobody else's.
Inserting ==
  /\ \A t \in Task : task[t].at = "insertMeta" =>
       /\ task[t].id \in task[t].touched
       /\ vec[task[t].id] # None /\ meta[task[t].id] = None
       /\ \A u \in Task : task[t].id \notin task[u].todo
  /\ \A t, u \in Task :
       /\ t # u
       /\ task[t].at \in {"insertMeta", "commitInsert"}
       /\ task[u].at \in {"insertMeta", "commitInsert"}
       => task[t].id # task[u].id

\* A row between its two DELETEs has lost its vector.
Deleting ==
  \A t \in Task : task[t].at = "deleteMeta" =>
    task[t].id \in task[t].touched /\ vec[task[t].id] = None

\* Half a memory is one that is being written or deleted, or was when the process died.
HalvesInWork ==
  \A i \in Id \ torn :
    /\ vec[i] # None /\ meta[i] = None =>
         \E t \in Task : task[t].at = "insertMeta" /\ task[t].id = i
    /\ vec[i] = None /\ meta[i] # None =>
         \E t \in Task : task[t].at = "deleteMeta" /\ task[t].id = i

\* What a commit caught half-done is still being worked on, or died.
DurableHalves ==
  \A i \in HalfOf(durable) : i \in torn \/ \E t \in Task : i \in task[t].touched

\* Who has not begun to write works on no row.
Untouched ==
  \A t \in Task : task[t].at \in {"idle", "look", "merge", "commitMerge", "insertVec"}
    => task[t].touched = {}

PairInv ==
  TypeOK /\ SpentInv /\ Inserting /\ Deleting /\ HalvesInWork /\ DurableHalves /\ Untouched

\* What add_* promised of a row, or is about to promise, without deduplication.
Fresh(p) == p.flash \/ now - p.born <= Lifetime[0]

Keeps(table, i, p) ==
  table[i] # None /\ table[i].flash = p.flash /\ table[i].born = p.born

\* A row a search has still to delete was too weak when it was selected; since then only
\* a merge can have changed it.
MayGo(i) ==
  \/ meta[i] = None
  \/ /\ ~meta[i].flash /\ WeakWith(0, meta[i])
     /\ i \in raised \/ Weak(meta[i])

ChosenInv == \A t \in Task : \A i \in task[t].todo : MayGo(i)

NoMerging == \A t \in Task : task[t].at \notin {"look", "merge", "commitMerge"}

PromiseAhead ==
  \A t \in Task : task[t].at \in {"insertMeta", "commitInsert"} =>
    /\ told[task[t].id] = None
    /\ task[t].at = "commitInsert" /\ Fresh(task[t].new) =>
         vec[task[t].id] # None /\ Keeps(meta, task[t].id, task[t].new)

PromiseKept ==
  \A i \in Id : told[i] # None =>
    /\ i \in spent
    /\ Fresh(told[i]) =>
         /\ vec[i] # None /\ Keeps(meta, i, told[i])
         /\ durable.vec[i] # None /\ Keeps(durable.meta, i, told[i])

KeepInv == ~dedup => NoMerging /\ PromiseAhead /\ PromiseKept

IInv == PairInv /\ ChosenInv /\ KeepInv

--------------------------------------------------------------------------------

LEMMA Constants ==
  /\ None \notin Memory /\ None \notin Promise /\ None \notin Id /\ None \notin Topic
  /\ MaxNow \in Nat /\ MaxCrashes \in Nat
  /\ Lifetime[0] \in Nat /\ Lifetime[1] \in Nat /\ Lifetime[0] <= Lifetime[1]
BY ConstantsOK, NoneIsNoRow DEF ConstantsOK, NoneIsNoRow

LEMMA IdleRow == Idle \in TaskRow /\ Idle.at = "idle" /\ Idle.touched = {} /\ Idle.todo = {}
BY DEF Idle, TaskRow, Steps

\* What changes when one task moves on.
LEMMA Moved ==
  ASSUME TypeOK, NEW t \in Task, NEW r \in TaskRow, Go(t, r)
  PROVE  /\ task'[t] = r /\ \A u \in Task \ {t} : task'[u] = task[u]
         /\ task' \in [Task -> TaskRow]
BY DEF Go, TypeOK

LEMMA InitPair == Init => PairInv
<1> SUFFICES ASSUME Init PROVE PairInv
  OBVIOUS
<1>1. TypeOK
  BY IdleRow, Constants DEF Init, TypeOK
<1>2. SpentInv /\ Inserting /\ Deleting /\ HalvesInWork
  BY IdleRow DEF Init, SpentInv, Inserting, Deleting, HalvesInWork
<1>3. DurableHalves /\ Untouched
  BY IdleRow DEF Init, DurableHalves, HalfOf, Untouched
<1> QED
  BY <1>1, <1>2, <1>3 DEF PairInv

\* The type of the state after a task has moved on and the tables have changed.
LEMMA TypeStep ==
  ASSUME TypeOK, NEW t \in Task, NEW r \in TaskRow, Go(t, r),
         UNCHANGED <<dedup, now, torn, crashes>>, raised' \subseteq Id,
         vec' \in [Id -> Topic \cup {None}], meta' \in [Id -> Memory \cup {None}],
         durable' = durable \/ Commit,
         spent \subseteq spent', spent' \subseteq Id,
         r.touched \subseteq spent',
         told' \in [Id -> Promise \cup {None}],
         r.at \in {"merge", "commitMerge", "insertMeta", "commitInsert"} => r.id # None,
         r.at \in {"look", "merge", "commitMerge", "insertVec", "insertMeta", "commitInsert"}
           => r.new # None,
         r.at = "deleteMeta" => r.id \in r.todo
  PROVE  TypeOK'
<1>1. durable'.vec \in [Id -> Topic \cup {None}] /\ durable'.meta \in [Id -> Memory \cup {None}]
  BY DEF TypeOK, Commit
<1>2. task' \in [Task -> TaskRow]
  BY Moved
<1>3. \A u \in Task : task'[u] = r \/ task'[u] = task[u]
  BY Moved
<1>4. \A u \in Task :
        /\ task'[u].touched \subseteq spent'
        /\ task'[u].at \in {"merge", "commitMerge", "insertMeta", "commitInsert"}
             => task'[u].id # None
        /\ task'[u].at \in {"look", "merge", "commitMerge", "insertVec", "insertMeta",
                            "commitInsert"} => task'[u].new # None
        /\ task'[u].at = "deleteMeta" => task'[u].id \in task'[u].todo
  BY <1>3 DEF TypeOK
<1> QED
  BY <1>1, <1>2, <1>4 DEF TypeOK

Busy == {"insertMeta", "commitInsert", "deleteMeta"}

\* A task that is not in the middle of a row moves on without touching the tables.
LEMMA QuietPair ==
  ASSUME PairInv, TypeOK', NEW t \in Task, NEW r \in TaskRow, Go(t, r),
         UNCHANGED <<durable, spent, torn>>,
         vec' = vec, \A i \in Id : meta'[i] = None <=> meta[i] = None,
         task[t].at \notin Busy, r.at \notin Busy,
         r.touched = {}, task[t].touched = {}, r.todo \subseteq task[t].todo \cup Joined
  PROVE  PairInv'
<1>1. task'[t] = r /\ \A u \in Task \ {t} : task'[u] = task[u]
  BY Moved DEF PairInv
<1>2. SpentInv'
  BY <1>1 DEF PairInv, SpentInv, Joined, Busy
<1>3. Inserting'
  BY <1>1 DEF PairInv, Inserting, Joined, Busy, TypeOK
<1>4. Deleting'
  BY <1>1 DEF PairInv, Deleting, Busy
<1>5. HalvesInWork'
  BY <1>1 DEF PairInv, HalvesInWork, Busy
<1>6. DurableHalves'
  <2>1. HalfOf(durable)' = HalfOf(durable)
    BY DEF HalfOf
  <2> QED
    BY <1>1, <2>1 DEF PairInv, DurableHalves
<1>7. Untouched'
  BY <1>1 DEF PairInv, Untouched
<1> QED
  BY <1>2, <1>3, <1>4, <1>5, <1>6, <1>7 DEF PairInv

\* A commit: what is half-done then is the work of another task.
LEMMA CommitPair ==
  ASSUME PairInv, TypeOK', NEW t \in Task, Go(t, Idle), Commit,
         task[t].at \in {"commitMerge", "commitInsert", "commitDelete"},
         UNCHANGED <<vec, meta, spent, torn>>
  PROVE  PairInv'
<1>1. task'[t] = Idle /\ \A u \in Task \ {t} : task'[u] = task[u]
  BY Moved, IdleRow DEF PairInv
<1>2. durable'.vec = vec /\ durable'.meta = meta
  BY DEF Commit
<1>3. SpentInv'
  BY <1>1, <1>2, IdleRow DEF PairInv, SpentInv
<1>4. Inserting'
  BY <1>1, IdleRow DEF PairInv, Inserting
<1>5. Deleting'
  BY <1>1, IdleRow DEF PairInv, Deleting
<1>6. HalvesInWork'
  BY <1>1 DEF PairInv, HalvesInWork
<1>7. DurableHalves'
  <2>0. HalfOf(durable)' = {i \in Id : (vec[i] = None) # (meta[i] = None)}
    BY <1>2 DEF HalfOf
  <2>1. ASSUME NEW i \in HalfOf(durable)', i \notin torn
        PROVE  \E u \in Task : i \in task'[u].touched
    <3>1. i \in Id /\ (vec[i] = None \/ meta[i] = None) /\ ~(vec[i] = None /\ meta[i] = None)
      BY <2>0
    <3>2. \E u \in Task : task[u].at \in {"insertMeta", "deleteMeta"} /\ task[u].id = i
      BY <2>1, <3>1 DEF PairInv, HalvesInWork
    <3> QED
      BY <1>1, <3>2 DEF PairInv, Inserting, Deleting
  <2> QED
    BY <2>1 DEF DurableHalves
<1>8. Untouched'
  BY <1>1, IdleRow DEF PairInv, Untouched
<1> QED
  BY <1>3, <1>4, <1>5, <1>6, <1>7, <1>8 DEF PairInv

--------------------------------------------------------------------------------
(* The steps, for PairInv.                                                    *)

LEMMA PairLook ==
  ASSUME PairInv, NEW t \in Task,
         \/ \E topic \in Topic, flash \in BOOLEAN : Add(t, topic, flash)
         \/ \E i \in Id : FindDuplicate(t, i)
         \/ FindNoDuplicate(t)
         \/ \E found \in SUBSET Id : Search(t, found)
  PROVE  PairInv'
<1> USE DEF PairInv
<1>0. task[t] \in TaskRow /\ now \in 0..MaxNow
  BY DEF TypeOK
<1>1. ASSUME NEW topic \in Topic, NEW flash \in BOOLEAN, Add(t, topic, flash) PROVE PairInv'
  <2> DEFINE m == [topic |-> topic, flash |-> flash, born |-> now,
                   emotion |-> IF flash THEN 1 ELSE 0]
             r == [Idle EXCEPT !.at = IF dedup THEN "look" ELSE "insertVec", !.new = m]
  <2>1. m \in Memory
    BY <1>0 DEF Memory
  <2>2. /\ r \in TaskRow /\ r.at \in {"look", "insertVec"} /\ r.touched = {} /\ r.todo = {}
        /\ r.new = m
    BY <2>1 DEF Idle, TaskRow, Steps
  <2>3. /\ task[t] = Idle /\ Go(t, r)
        /\ UNCHANGED <<dedup, vec, meta, durable, spent, now, told, torn, raised, crashes>>
    BY <1>1 DEF Add
  <2> HIDE DEF r, m
  <2>4. m # None
    BY <2>1, Constants
  <2>5. TypeOK'
    BY <2>2, <2>3, <2>4, TypeStep DEF TypeOK
  <2> QED
    BY <2>2, <2>3, <2>5, IdleRow, QuietPair DEF Busy
<1>2. ASSUME NEW i \in Id, FindDuplicate(t, i) PROVE PairInv'
  <2> DEFINE emotion == Higher(task[t].new.emotion, meta[i].emotion)
             r == [task[t] EXCEPT !.at = "merge", !.id = i, !.new.emotion = emotion]
  <2>0. task[t].new \in Memory /\ meta[i] \in Memory
    BY <1>0, <1>2 DEF FindDuplicate, TypeOK, TaskRow
  <2>a. emotion \in {0, 1}
    BY <2>0 DEF Memory, Higher
  <2> HIDE DEF emotion
  <2>b. [task[t].new EXCEPT !.emotion = emotion] \in Memory
    BY <2>0, <2>a DEF Memory
  <2>1. /\ r \in TaskRow /\ r.at = "merge" /\ r.touched = task[t].touched
        /\ r.todo = task[t].todo /\ r.new \in Memory /\ r.id = i
    BY <1>0, <2>b DEF TaskRow, Steps
  <2>2. /\ task[t].at = "look" /\ Go(t, r)
        /\ UNCHANGED <<dedup, vec, meta, durable, spent, now, told, torn, raised, crashes>>
    BY <1>2 DEF FindDuplicate, emotion
  <2> HIDE DEF r
  <2>3. r.new # None /\ i # None /\ r.touched \subseteq spent
    BY <2>1, <2>2, Constants DEF TypeOK
  <2>4. TypeOK'
    BY <2>1, <2>2, <2>3, TypeStep DEF TypeOK
  <2> QED
    BY <2>1, <2>2, <2>4, QuietPair DEF Busy, Untouched
<1>3. CASE FindNoDuplicate(t)
  <2> DEFINE r == [task[t] EXCEPT !.at = "insertVec"]
  <2>1. /\ r \in TaskRow /\ r.at = "insertVec" /\ r.touched = task[t].touched
        /\ r.todo = task[t].todo /\ r.new = task[t].new
    BY <1>0 DEF TaskRow, Steps
  <2>2. /\ task[t].at = "look" /\ Go(t, r)
        /\ UNCHANGED <<dedup, vec, meta, durable, spent, now, told, torn, raised, crashes>>
    BY <1>3 DEF FindNoDuplicate
  <2> HIDE DEF r
  <2>3. r.new # None /\ r.touched \subseteq spent
    BY <2>1, <2>2 DEF TypeOK
  <2>4. TypeOK'
    BY <2>1, <2>2, <2>3, TypeStep DEF TypeOK
  <2> QED
    BY <2>1, <2>2, <2>4, QuietPair DEF Busy, Untouched
<1>4. ASSUME NEW found \in SUBSET Id, Search(t, found) PROVE PairInv'
  <2> DEFINE weak == {i \in found : Forgotten(meta[i])}
             r == [Idle EXCEPT !.at = "deleteVec", !.todo = weak]
  <2>1. /\ r \in TaskRow /\ r.at = "deleteVec" /\ r.touched = {} /\ r.todo = weak
    BY DEF Idle, TaskRow, Steps
  <2>2. /\ task[t] = Idle /\ Go(t, r) /\ weak \subseteq Joined
        /\ UNCHANGED <<dedup, vec, meta, durable, spent, now, told, torn, raised, crashes>>
    BY <1>4 DEF Search
  <2> HIDE DEF r, weak
  <2>3. TypeOK'
    BY <2>1, <2>2, TypeStep DEF TypeOK
  <2> QED
    BY <2>1, <2>2, <2>3, IdleRow, QuietPair DEF Busy
<1> QED
  BY <1>1, <1>2, <1>3, <1>4

\* The merge changes a row of the metadata, and neither adds nor takes one.
LEMMA PairMerge ==
  ASSUME PairInv, NEW t \in Task, Merge(t)
  PROVE  PairInv'
<1> USE DEF PairInv
<1> DEFINE i == task[t].id
           n == task[t].new
           r == [task[t] EXCEPT !.at = "commitMerge"]
<1>1. /\ task[t] \in TaskRow /\ task[t].at = "merge" /\ i \in Id /\ n \in Memory
      /\ Go(t, r)
      /\ UNCHANGED <<dedup, vec, durable, spent, now, told, torn, crashes>>
      /\ raised' \subseteq raised \cup {i}
  BY DEF Merge, TypeOK, TaskRow
<1>2. /\ r \in TaskRow /\ r.at = "commitMerge" /\ r.touched = task[t].touched
      /\ r.todo = task[t].todo /\ r.new = n /\ r.id = i
  BY <1>1 DEF TaskRow, Steps
<1>3. /\ meta' \in [Id -> Memory \cup {None}]
      /\ \A j \in Id : meta'[j] = None <=> meta[j] = None
  <2>1. CASE meta[i] = None
    BY <2>1 DEF Merge, TypeOK
  <2>2. CASE meta[i] # None
    <3> DEFINE row == [meta[i] EXCEPT !.emotion = n.emotion]
    <3>1. row \in Memory
      BY <1>1, <2>2 DEF TypeOK, Memory
    <3>2. meta' = [meta EXCEPT ![i] = row]
      BY <1>1, <2>2 DEF Merge, TypeOK
    <3> HIDE DEF row
    <3> QED
      BY <1>1, <2>2, <3>1, <3>2, Constants DEF TypeOK
  <2> QED
    BY <2>1, <2>2
<1> HIDE DEF r
<1>4. r.new # None /\ r.id # None /\ r.touched \subseteq spent
  BY <1>1, <1>2, Constants DEF TypeOK
<1>5. TypeOK'
  BY <1>1, <1>2, <1>3, <1>4, TypeStep DEF TypeOK
<1> QED
  BY <1>1, <1>2, <1>3, <1>5, QuietPair DEF Busy, Untouched

\* The promise made when an id is returned is one.
LEMMA TellType ==
  ASSUME TypeOK, NEW t \in Task, Tell(t), task[t].at \in {"commitMerge", "commitInsert"}
  PROVE  told' \in [Id -> Promise \cup {None}]
<1> DEFINE i == task[t].id
           n == task[t].new
           p == IF told[i] = None THEN [flash |-> n.flash, born |-> n.born]
                ELSE [flash |-> told[i].flash \/ n.flash,
                      born |-> IF n.born > told[i].born THEN n.born ELSE told[i].born]
<1>1. i \in Id /\ n \in Memory
  BY DEF TypeOK, TaskRow
<1>2. told[i] \in Promise \cup {None}
  BY <1>1 DEF TypeOK
<1>3. p \in Promise
  BY <1>1, <1>2 DEF Memory, Promise
<1>4. told' = [told EXCEPT ![i] = p]
  BY <1>1 DEF Tell, TypeOK
<1> HIDE DEF p
<1> QED
  BY <1>3, <1>4 DEF TypeOK

LEMMA PairCommit ==
  ASSUME PairInv, NEW t \in Task, CommitMerge(t) \/ CommitInsert(t) \/ CommitDelete(t)
  PROVE  PairInv'
<1> USE DEF PairInv
<1>1. /\ Go(t, Idle) /\ Commit
      /\ task[t].at \in {"commitMerge", "commitInsert", "commitDelete"}
      /\ UNCHANGED <<dedup, vec, meta, spent, now, torn, raised, crashes>>
  BY DEF CommitMerge, CommitInsert, CommitDelete
<1>2. told' \in [Id -> Promise \cup {None}]
  BY TellType DEF CommitMerge, CommitInsert, CommitDelete, TypeOK
<1>3. TypeOK'
  BY <1>1, <1>2, IdleRow, TypeStep DEF TypeOK
<1> QED
  BY <1>1, <1>3, CommitPair

\* A new vector, under a rowid of its own.
LEMMA PairInsertVec ==
  ASSUME PairInv, NEW t \in Task, NEW i \in Id, InsertVec(t, i)
  PROVE  PairInv'
<1> USE DEF PairInv
<1> DEFINE n == task[t].new
           r == [task[t] EXCEPT !.at = "insertMeta", !.id = i, !.touched = {i}]
<1>1. /\ task[t] \in TaskRow /\ task[t].at = "insertVec" /\ n \in Memory /\ i \notin spent
      /\ spent' = spent \cup {i} /\ vec' = [vec EXCEPT ![i] = n.topic] /\ Go(t, r)
      /\ UNCHANGED <<dedup, meta, durable, now, told, torn, raised, crashes>>
  BY DEF InsertVec, TypeOK, TaskRow
<1>2. /\ r \in TaskRow /\ r.at = "insertMeta" /\ r.touched = {i} /\ r.new = n /\ r.id = i
      /\ r.todo = task[t].todo
  BY <1>1 DEF TaskRow, Steps
<1>3. n.topic \in Topic /\ n.topic # None /\ n # None /\ i # None
  BY <1>1, Constants DEF Memory
<1> HIDE DEF r
<1>4. /\ vec' \in [Id -> Topic \cup {None}] /\ vec'[i] # None
      /\ \A j \in Id \ {i} : vec'[j] = vec[j]
  BY <1>1, <1>3 DEF TypeOK
<1>5. TypeOK'
  BY <1>1, <1>2, <1>3, <1>4, TypeStep DEF TypeOK
<1>6. task'[t] = r /\ \A u \in Task \ {t} : task'[u] = task[u]
  BY <1>1, <1>2, Moved
<1>7. /\ vec[i] = None /\ meta[i] = None /\ i \notin torn
      /\ \A u \in Task : i \notin task[u].todo
      /\ \A u \in Task : task[u].at \in {"insertMeta", "commitInsert"} => task[u].id # i
  BY <1>1 DEF SpentInv, TypeOK
<1>8. SpentInv'
  BY <1>1, <1>2, <1>4, <1>6 DEF SpentInv
<1>9. Inserting'
  <2>1. \A u \in Task : task'[u].at = "insertMeta" =>
          /\ task'[u].id \in task'[u].touched
          /\ vec'[task'[u].id] # None /\ meta[task'[u].id] = None
          /\ \A w \in Task : task'[u].id \notin task'[w].todo
    <3> SUFFICES ASSUME NEW u \in Task, task'[u].at = "insertMeta"
                 PROVE  /\ task'[u].id \in task'[u].touched
                        /\ vec'[task'[u].id] # None /\ meta[task'[u].id] = None
                        /\ \A w \in Task : task'[u].id \notin task'[w].todo
      OBVIOUS
    <3>1. \A w \in Task : task'[w].todo = task[w].todo
      BY <1>2, <1>6
    <3>2. CASE u = t
      BY <1>2, <1>4, <1>6, <1>7, <3>1, <3>2
    <3>3. CASE u # t
      <4>1. /\ task'[u] = task[u] /\ task[u].id \in Id /\ task[u].id # i
        BY <1>6, <1>7, <3>3 DEF TypeOK, TaskRow
      <4> QED
        BY <1>4, <3>1, <4>1 DEF Inserting
    <3> QED
      BY <3>2, <3>3
  <2>2. \A u, w \in Task :
          /\ u # w
          /\ task'[u].at \in {"insertMeta", "commitInsert"}
          /\ task'[w].at \in {"insertMeta", "commitInsert"}
          => task'[u].id # task'[w].id
    BY <1>2, <1>6, <1>7 DEF Inserting
  <2> QED
    BY <1>1, <2>1, <2>2 DEF Inserting
<1>10. Deleting'
  <2> SUFFICES ASSUME NEW u \in Task, task'[u].at = "deleteMeta"
               PROVE  task'[u].id \in task'[u].touched /\ vec'[task'[u].id] = None
    BY DEF Deleting
  <2>1. /\ u # t /\ task'[u] = task[u] /\ task[u].id \in task[u].todo
        /\ task[u].id \in Id /\ task[u].id # i
    BY <1>2, <1>6, <1>7 DEF TypeOK, TaskRow
  <2> QED
    BY <1>4, <2>1 DEF Deleting
<1>11. HalvesInWork'
  <2> SUFFICES ASSUME NEW j \in Id, j \notin torn
               PROVE  /\ vec'[j] # None /\ meta[j] = None =>
                           \E u \in Task : task'[u].at = "insertMeta" /\ task'[u].id = j
                      /\ vec'[j] = None /\ meta[j] # None =>
                           \E u \in Task : task'[u].at = "deleteMeta" /\ task'[u].id = j
    BY <1>1 DEF HalvesInWork
  <2>1. CASE j = i
    BY <1>2, <1>4, <1>6, <2>1
  <2>2. CASE j # i
    BY <1>1, <1>4, <1>6, <2>2 DEF HalvesInWork
  <2> QED
    BY <2>1, <2>2
<1>12. DurableHalves'
  <2>1. HalfOf(durable)' = HalfOf(durable)
    BY <1>1 DEF HalfOf
  <2>2. task[t].touched = {}
    BY <1>1 DEF Untouched
  <2> QED
    BY <1>1, <1>6, <2>1, <2>2 DEF DurableHalves
<1>13. Untouched'
  BY <1>2, <1>6 DEF Untouched
<1> QED
  BY <1>5, <1>8, <1>9, <1>10, <1>11, <1>12, <1>13

\* Its metadata completes the memory.
LEMMA PairInsertMeta ==
  ASSUME PairInv, NEW t \in Task, InsertMeta(t)
  PROVE  PairInv'
<1> USE DEF PairInv
<1> DEFINE i == task[t].id
           n == task[t].new
           r == [task[t] EXCEPT !.at = "commitInsert"]
<1>1. /\ task[t] \in TaskRow /\ task[t].at = "insertMeta" /\ n \in Memory /\ i \in Id
      /\ meta' = [meta EXCEPT ![i] = n] /\ Go(t, r)
      /\ UNCHANGED <<dedup, vec, durable, spent, now, told, torn, raised, crashes>>
  BY DEF InsertMeta, TypeOK, TaskRow
<1>2. /\ r \in TaskRow /\ r.at = "commitInsert" /\ r.touched = task[t].touched /\ r.new = n
      /\ r.id = i /\ r.todo = task[t].todo
  BY <1>1 DEF TaskRow, Steps
<1> HIDE DEF r
<1>3. n # None /\ i # None /\ r.touched \subseteq spent
  BY <1>1, <1>2, Constants DEF TypeOK
<1>4. /\ meta' \in [Id -> Memory \cup {None}] /\ meta'[i] # None
      /\ \A j \in Id \ {i} : meta'[j] = meta[j]
  BY <1>1, <1>3 DEF TypeOK
<1>5. TypeOK'
  BY <1>1, <1>2, <1>3, <1>4, TypeStep DEF TypeOK
<1>6. task'[t] = r /\ \A u \in Task \ {t} : task'[u] = task[u]
  BY <1>1, <1>2, Moved
<1>7. /\ vec[i] # None /\ i \in spent
      /\ \A u \in Task \ {t} : task[u].at = "insertMeta" => task[u].id # i
  BY <1>1 DEF Inserting, SpentInv
<1>8. SpentInv'
  BY <1>1, <1>2, <1>4, <1>6, <1>7 DEF SpentInv
<1>9. Inserting'
  <2>1. ASSUME NEW u \in Task, task'[u].at = "insertMeta"
        PROVE  /\ task'[u].id \in task'[u].touched
               /\ vec[task'[u].id] # None /\ meta'[task'[u].id] = None
               /\ \A w \in Task : task'[u].id \notin task'[w].todo
    <3>1. /\ u # t /\ task'[u] = task[u] /\ task[u].id \in Id /\ task[u].id # i
      BY <1>2, <1>6, <1>7, <2>1 DEF TypeOK, TaskRow
    <3>2. \A w \in Task : task'[w].todo = task[w].todo
      BY <1>2, <1>6
    <3> QED
      BY <1>4, <2>1, <3>1, <3>2 DEF Inserting
  <2>2. \A u, w \in Task :
          /\ u # w
          /\ task'[u].at \in {"insertMeta", "commitInsert"}
          /\ task'[w].at \in {"insertMeta", "commitInsert"}
          => task'[u].id # task'[w].id
    BY <1>1, <1>2, <1>6 DEF Inserting
  <2> QED
    BY <1>1, <2>1, <2>2 DEF Inserting
<1>10. Deleting'
  BY <1>1, <1>2, <1>6 DEF Deleting
<1>11. HalvesInWork'
  <2> SUFFICES ASSUME NEW j \in Id, j \notin torn, j # i
               PROVE  /\ vec[j] # None /\ meta[j] = None =>
                           \E u \in Task : task'[u].at = "insertMeta" /\ task'[u].id = j
                      /\ vec[j] = None /\ meta[j] # None =>
                           \E u \in Task : task'[u].at = "deleteMeta" /\ task'[u].id = j
    BY <1>1, <1>4, <1>7 DEF HalvesInWork
  <2> QED
    BY <1>1, <1>6 DEF HalvesInWork
<1>12. DurableHalves'
  <2>1. HalfOf(durable)' = HalfOf(durable)
    BY <1>1 DEF HalfOf
  <2> QED
    BY <1>1, <1>2, <1>6, <2>1 DEF DurableHalves
<1>13. Untouched'
  BY <1>2, <1>6 DEF Untouched
<1> QED
  BY <1>5, <1>8, <1>9, <1>10, <1>11, <1>12, <1>13

\* A memory loses its vector first.
LEMMA PairDeleteVec ==
  ASSUME PairInv, NEW t \in Task, NEW i \in Id, DeleteVec(t, i)
  PROVE  PairInv'
<1> USE DEF PairInv
<1> DEFINE r == [task[t] EXCEPT !.at = "deleteMeta", !.id = i, !.touched = @ \cup {i}]
<1>1. /\ task[t] \in TaskRow /\ task[t].at = "deleteVec" /\ i \in task[t].todo
      /\ vec' = [vec EXCEPT ![i] = None] /\ Go(t, r)
      /\ UNCHANGED <<dedup, meta, durable, spent, now, told, torn, raised, crashes>>
  BY DEF DeleteVec, TypeOK
<1>2. /\ r \in TaskRow /\ r.at = "deleteMeta" /\ r.touched = task[t].touched \cup {i}
      /\ r.id = i /\ r.todo = task[t].todo
  BY <1>1 DEF TaskRow, Steps
<1> HIDE DEF r
<1>3. r.touched \subseteq spent
  BY <1>1, <1>2 DEF TypeOK, SpentInv
<1>4. /\ vec' \in [Id -> Topic \cup {None}] /\ vec'[i] = None
      /\ \A j \in Id \ {i} : vec'[j] = vec[j]
  BY <1>1 DEF TypeOK
<1>5. TypeOK'
  BY <1>1, <1>2, <1>3, <1>4, TypeStep DEF TypeOK
<1>6. task'[t] = r /\ \A u \in Task \ {t} : task'[u] = task[u]
  BY <1>1, <1>2, Moved
<1>7. SpentInv'
  BY <1>1, <1>2, <1>4, <1>6 DEF SpentInv
<1>8. Inserting'
  <2>1. ASSUME NEW u \in Task, task'[u].at = "insertMeta"
        PROVE  /\ task'[u].id \in task'[u].touched
               /\ vec'[task'[u].id] # None /\ meta[task'[u].id] = None
               /\ \A w \in Task : task'[u].id \notin task'[w].todo
    <3>1. /\ u # t /\ task'[u] = task[u] /\ task[u].id \in Id
      BY <1>2, <1>6, <2>1 DEF TypeOK, TaskRow
    <3>2. task[u].id # i
      BY <1>1, <2>1, <3>1 DEF Inserting
    <3>3. \A w \in Task : task'[w].todo = task[w].todo
      BY <1>2, <1>6
    <3> QED
      BY <1>4, <2>1, <3>1, <3>2, <3>3 DEF Inserting
  <2>2. \A u, w \in Task :
          /\ u # w
          /\ task'[u].at \in {"insertMeta", "commitInsert"}
          /\ task'[w].at \in {"insertMeta", "commitInsert"}
          => task'[u].id # task'[w].id
    BY <1>2, <1>6 DEF Inserting
  <2> QED
    BY <1>1, <2>1, <2>2 DEF Inserting
<1>9. Deleting'
  <2> SUFFICES ASSUME NEW u \in Task, task'[u].at = "deleteMeta"
               PROVE  task'[u].id \in task'[u].touched /\ vec'[task'[u].id] = None
    BY DEF Deleting
  <2>1. CASE u = t
    BY <1>2, <1>4, <1>6, <2>1
  <2>2. CASE u # t
    <3>1. /\ task'[u] = task[u] /\ task[u].id \in Id
          /\ task[u].id \in task[u].touched /\ vec[task[u].id] = None
      BY <1>6, <2>2 DEF Deleting, TypeOK
    <3> QED
      BY <1>4, <3>1
  <2> QED
    BY <2>1, <2>2
<1>10. HalvesInWork'
  <2> SUFFICES ASSUME NEW j \in Id, j \notin torn
               PROVE  /\ vec'[j] # None /\ meta[j] = None =>
                           \E u \in Task : task'[u].at = "insertMeta" /\ task'[u].id = j
                      /\ vec'[j] = None /\ meta[j] # None =>
                           \E u \in Task : task'[u].at = "deleteMeta" /\ task'[u].id = j
    BY <1>1 DEF HalvesInWork
  <2>1. CASE j = i
    BY <1>2, <1>4, <1>6, <2>1
  <2>2. CASE j # i
    BY <1>1, <1>4, <1>6, <2>2 DEF HalvesInWork
  <2> QED
    BY <2>1, <2>2
<1>11. DurableHalves'
  <2>1. HalfOf(durable)' = HalfOf(durable)
    BY <1>1 DEF HalfOf
  <2> QED
    BY <1>1, <1>2, <1>6, <2>1 DEF DurableHalves
<1>12. Untouched'
  BY <1>2, <1>6 DEF Untouched
<1> QED
  BY <1>5, <1>7, <1>8, <1>9, <1>10, <1>11, <1>12

\* Then its metadata.
LEMMA PairDeleteMeta ==
  ASSUME PairInv, NEW t \in Task, DeleteMeta(t)
  PROVE  PairInv'
<1> USE DEF PairInv
<1> DEFINE i == task[t].id
           rest == task[t].todo \ {i}
           r == [task[t] EXCEPT !.at = IF rest = {} THEN "commitDelete" ELSE "deleteVec",
                                !.todo = rest, !.id = None]
<1>1. /\ task[t] \in TaskRow /\ task[t].at = "deleteMeta" /\ i \in task[t].todo /\ i \in Id
      /\ meta' = [meta EXCEPT ![i] = None] /\ Go(t, r)
      /\ UNCHANGED <<dedup, vec, durable, spent, now, told, torn, raised, crashes>>
  BY DEF DeleteMeta, TypeOK, TaskRow
<1>2. /\ r \in TaskRow /\ r.at \in {"commitDelete", "deleteVec"}
      /\ r.touched = task[t].touched /\ r.todo = rest
  BY <1>1 DEF TaskRow, Steps
<1> HIDE DEF r
<1>3. r.touched \subseteq spent
  BY <1>1, <1>2 DEF TypeOK
<1>4. /\ meta' \in [Id -> Memory \cup {None}] /\ meta'[i] = None
      /\ \A j \in Id \ {i} : meta'[j] = meta[j]
  BY <1>1 DEF TypeOK
<1>5. TypeOK'
  BY <1>1, <1>2, <1>3, <1>4, TypeStep DEF TypeOK
<1>6. task'[t] = r /\ \A u \in Task \ {t} : task'[u] = task[u]
  BY <1>1, <1>2, Moved
<1>7. SpentInv'
  BY <1>1, <1>2, <1>4, <1>6 DEF SpentInv
<1>8. Inserting'
  <2>1. ASSUME NEW u \in Task, task'[u].at = "insertMeta"
        PROVE  /\ task'[u].id \in task'[u].touched
               /\ vec[task'[u].id] # None /\ meta'[task'[u].id] = None
               /\ \A w \in Task : task'[u].id \notin task'[w].todo
    <3>1. /\ u # t /\ task'[u] = task[u] /\ task[u].id \in Id
      BY <1>2, <1>6, <2>1 DEF TypeOK, TaskRow
    <3>2. task[u].id # i
      BY <1>1, <2>1, <3>1 DEF Inserting
    <3>3. \A w \in Task : task'[w].todo \subseteq task[w].todo
      BY <1>2, <1>6
    <3> QED
      BY <1>4, <2>1, <3>1, <3>2, <3>3 DEF Inserting
  <2>2. \A u, w \in Task :
          /\ u # w
          /\ task'[u].at \in {"insertMeta", "commitInsert"}
          /\ task'[w].at \in {"insertMeta", "commitInsert"}
          => task'[u].id # task'[w].id
    BY <1>2, <1>6 DEF Inserting
  <2> QED
    BY <1>1, <2>1, <2>2 DEF Inserting
<1>9. Deleting'
  BY <1>1, <1>2, <1>6 DEF Deleting
<1>10. HalvesInWork'
  <2> SUFFICES ASSUME NEW j \in Id, j \notin torn
               PROVE  /\ vec[j] # None /\ meta'[j] = None =>
                           \E u \in Task : task'[u].at = "insertMeta" /\ task'[u].id = j
                      /\ vec[j] = None /\ meta'[j] # None =>
                           \E u \in Task : task'[u].at = "deleteMeta" /\ task'[u].id = j
    BY <1>1 DEF HalvesInWork
  <2>1. CASE j = i
    BY <1>1, <1>4, <2>1 DEF Deleting
  <2>2. CASE j # i
    BY <1>1, <1>4, <1>6, <2>2 DEF HalvesInWork
  <2> QED
    BY <2>1, <2>2
<1>11. DurableHalves'
  <2>1. HalfOf(durable)' = HalfOf(durable)
    BY <1>1 DEF HalfOf
  <2> QED
    BY <1>1, <1>2, <1>6, <2>1 DEF DurableHalves
<1>12. Untouched'
  BY <1>2, <1>6 DEF Untouched
<1> QED
  BY <1>5, <1>7, <1>8, <1>9, <1>10, <1>11, <1>12

LEMMA PairAge == PairInv /\ Age => PairInv'
<1> SUFFICES ASSUME PairInv, Age PROVE PairInv'
  OBVIOUS
<1> USE DEF PairInv
<1>1. now' \in 0..MaxNow /\ UNCHANGED <<dedup, vec, meta, durable, spent, task, told, torn, raised, crashes>>
  BY Constants DEF Age, TypeOK
<1>2. TypeOK'
  BY <1>1 DEF TypeOK
<1> QED
  BY <1>1, <1>2
     DEF SpentInv, Inserting, Deleting, HalvesInWork, DurableHalves, HalfOf, Untouched

\* What comes back is what was committed; what was half-done then is known.
LEMMA PairCrash == PairInv /\ Crash => PairInv'
<1> SUFFICES ASSUME PairInv, Crash PROVE PairInv'
  OBVIOUS
<1> USE DEF PairInv
<1>1. /\ vec' = durable.vec /\ meta' = durable.meta
      /\ torn' = torn \cup UNION {task[t].touched : t \in Task}
      /\ task' = [t \in Task |-> Idle] /\ crashes < MaxCrashes /\ crashes' = crashes + 1
      /\ raised' = {} /\ UNCHANGED <<dedup, durable, spent, now, told>>
  BY DEF Crash
<1>2. \A t \in Task : task'[t] = Idle
  BY <1>1
<1>3. torn' \subseteq spent
  BY <1>1 DEF TypeOK
<1>4. crashes' \in 0..MaxCrashes
  BY <1>1, Constants DEF TypeOK
<1>5. \A t \in Task : /\ task'[t].touched \subseteq spent
                      /\ task'[t].at = "idle"
  BY <1>2, IdleRow
<1>6. TypeOK'
  BY <1>1, <1>3, <1>4, <1>5, IdleRow DEF TypeOK
<1>7. SpentInv' /\ Inserting' /\ Deleting' /\ Untouched'
  BY <1>1, <1>2, IdleRow DEF SpentInv, Inserting, Deleting, Untouched
<1>8. \A i \in HalfOf(durable) : i \in torn'
  BY <1>1 DEF DurableHalves
<1>9. HalvesInWork'
  BY <1>1, <1>8 DEF HalvesInWork, HalfOf
<1>10. DurableHalves'
  <2>1. HalfOf(durable)' = HalfOf(durable)
    BY <1>1 DEF HalfOf
  <2> QED
    BY <1>8, <2>1 DEF DurableHalves
<1> QED
  BY <1>6, <1>7, <1>9, <1>10

LEMMA PairStep == PairInv /\ [Next]_vars => PairInv'
<1> SUFFICES ASSUME PairInv, [Next]_vars PROVE PairInv'
  OBVIOUS
<1>1. CASE UNCHANGED vars
  BY <1>1 DEF vars, PairInv, TypeOK, SpentInv, Inserting, Deleting, HalvesInWork,
              DurableHalves, HalfOf, Untouched
<1>2. CASE Next
  BY <1>2, PairLook, PairMerge, PairCommit, PairInsertVec, PairInsertMeta, PairDeleteVec,
     PairDeleteMeta, PairAge, PairCrash DEF Next, Insert, Recall
<1> QED
  BY <1>1, <1>2

--------------------------------------------------------------------------------

\* The two tables, the tasks and the last commit agree at every step.
THEOREM PairInvariant == Spec => []PairInv
BY InitPair, PairStep, PTL DEF Spec

\* However inserts, merges, deletes, commits and crashes interleave, a memory is in both
\* tables or in neither, but for the rows under work now or when the process died.
THEOREM PairedAlways == Spec => []Paired
<1>1. PairInv => Paired
  <2> SUFFICES ASSUME PairInv PROVE Paired
    OBVIOUS
  <2> USE DEF PairInv
  <2> DEFINE here == [vec |-> vec, meta |-> meta]
             working == UNION {task[t].touched : t \in Task}
  <2>1. \A i \in HalfOf(here) : i \in torn \/ \E t \in Task : i \in task[t].touched
    BY DEF HalfOf, HalvesInWork, Inserting, Deleting
  <2>2. \A i \in HalfOf(durable) : i \in torn \/ \E t \in Task : i \in task[t].touched
    BY DEF DurableHalves
  <2>3. \A i : (\E t \in Task : i \in task[t].touched) => i \in working
    OBVIOUS
  <2>4. Paired <=> HalfOf(here) \cup HalfOf(durable) \subseteq working \cup torn
    BY DEF Paired
  <2> HIDE DEF here, working
  <2> QED
    BY <2>1, <2>2, <2>3, <2>4
<1> QED
  BY <1>1, PairInvariant, PTL

--------------------------------------------------------------------------------
(* What a search deletes, with deduplication and without.                     *)

LEMMA InitChosen == Init => ChosenInv
BY IdleRow DEF Init, ChosenInv

\* Rows still to be deleted that keep their metadata or lose it may still be.
LEMMA ChosenKept ==
  ASSUME PairInv, ChosenInv, NEW t \in Task, NEW r \in TaskRow, Go(t, r),
         r.todo \subseteq task[t].todo, UNCHANGED <<now, raised>>,
         \A u \in Task : \A i \in task[u].todo : meta'[i] = meta[i] \/ meta'[i] = None
  PROVE  ChosenInv'
<1>1. task'[t] = r /\ \A u \in Task \ {t} : task'[u] = task[u]
  BY Moved DEF PairInv
<1> SUFFICES ASSUME NEW u \in Task, NEW i \in task'[u].todo PROVE MayGo(i)'
  BY DEF ChosenInv
<1>2. i \in task[u].todo
  BY <1>1
<1>3. MayGo(i) /\ (meta'[i] = meta[i] \/ meta'[i] = None)
  BY <1>2 DEF ChosenInv
<1> QED
  BY <1>3 DEF MayGo, WeakWith, Weak

\* What a merge does to a row: it replaces one emotion_weight by another, and says so when
\* it raises that of a row a search is to delete.
LEMMA MergedRows ==
  ASSUME PairInv, NEW t \in Task, Merge(t), NEW i \in Id, meta[i] # None
  PROVE  /\ meta'[i] # None
         /\ meta'[i].flash = meta[i].flash /\ meta'[i].born = meta[i].born
         /\ meta[i].emotion \in {0, 1} /\ meta'[i].emotion \in {0, 1}
         /\ \/ meta'[i].emotion <= meta[i].emotion
            \/ \A u \in Task : i \notin task[u].todo
            \/ i \in raised'
<1> DEFINE j == task[t].id
           e == task[t].new.emotion
           row == [meta[i] EXCEPT !.emotion = e]
<1>1. meta[i] \in Memory /\ j \in Id /\ task[t].new \in Memory
  BY DEF PairInv, TypeOK, TaskRow, Merge
<1>2. meta[i].emotion \in {0, 1} /\ e \in {0, 1}
  BY <1>1 DEF Memory
<1>3. CASE i # j \/ meta[j] = None
  <2>1. meta'[i] = meta[i]
    BY <1>1, <1>3 DEF Merge, PairInv, TypeOK
  <2> QED
    BY <1>2, <2>1
<1>4. CASE i = j /\ meta[j] # None
  <2>1. /\ meta' = [meta EXCEPT ![i] = row]
        /\ e > meta[i].emotion /\ (\E u \in Task : i \in task[u].todo) => i \in raised'
    BY <1>1, <1>4 DEF Merge, PairInv, TypeOK
  <2>2. /\ row \in Memory /\ row.emotion = e
        /\ row.flash = meta[i].flash /\ row.born = meta[i].born
    BY <1>1, <1>2 DEF Memory
  <2> HIDE DEF row
  <2>3. meta'[i] = row
    BY <2>1 DEF PairInv, TypeOK
  <2> QED
    BY <1>2, <2>1, <2>2, <2>3, Constants
<1> QED
  BY <1>3, <1>4

\* A row that is too weak stays so as it ages, and when its emotion_weight does not rise.
LEMMA ChosenMerge ==
  ASSUME PairInv, ChosenInv, NEW t \in Task, Merge(t)
  PROVE  ChosenInv'
<1>1. /\ now' = now /\ raised \subseteq raised'
      /\ \A u \in Task : task'[u].todo = task[u].todo
      /\ \A i \in Id : meta[i] = None => meta'[i] = None
  BY DEF Merge, Go, PairInv, TypeOK, TaskRow
<1> SUFFICES ASSUME NEW u \in Task, NEW i \in task[u].todo, meta[i] # None PROVE MayGo(i)'
  BY <1>1 DEF ChosenInv, MayGo, PairInv, TypeOK, TaskRow
<1>2. i \in Id /\ MayGo(i) /\ now \in Nat
  BY Constants DEF ChosenInv, PairInv, TypeOK, TaskRow
<1>3. /\ meta'[i].flash = meta[i].flash /\ meta'[i].born = meta[i].born
      /\ meta[i].emotion \in {0, 1} /\ meta'[i].emotion \in {0, 1}
      /\ meta'[i].emotion <= meta[i].emotion \/ i \in raised'
  BY <1>2, MergedRows
<1>4. meta[i].born \in Nat
  BY <1>2, Constants DEF PairInv, TypeOK, Memory
<1>5. ~meta[i].flash /\ WeakWith(0, meta[i]) /\ (i \in raised \/ Weak(meta[i]))
  BY <1>2 DEF MayGo
<1>6. ~meta'[i].flash /\ WeakWith(0, meta[i])'
  BY <1>1, <1>3, <1>5 DEF WeakWith
<1>7. i \in raised' \/ Weak(meta[i])'
  <2>1. CASE i \in raised \/ i \in raised'
    BY <1>1, <2>1
  <2>2. CASE i \notin raised /\ meta'[i].emotion <= meta[i].emotion
    <3>1. Lifetime[meta'[i].emotion] <= Lifetime[meta[i].emotion]
      BY <1>3, <2>2, Constants
    <3>2. now - meta[i].born > Lifetime[meta[i].emotion]
      BY <1>5, <2>2 DEF Weak, WeakWith
    <3>3. Lifetime[meta'[i].emotion] \in Nat /\ Lifetime[meta[i].emotion] \in Nat
      BY <1>3, Constants
    <3>4. now - meta[i].born > Lifetime[meta'[i].emotion]
      BY <1>2, <1>4, <3>1, <3>2, <3>3
    <3> QED
      BY <1>1, <1>3, <3>4 DEF Weak, WeakWith
  <2> QED
    BY <1>3, <2>1, <2>2
<1> QED
  BY <1>6, <1>7 DEF MayGo

LEMMA ChosenAge == PairInv /\ ChosenInv /\ Age => ChosenInv'
<1> SUFFICES ASSUME PairInv, ChosenInv, Age PROVE ChosenInv'
  OBVIOUS
<1>1. now' = now + 1 /\ now \in Nat /\ UNCHANGED <<meta, task, raised>>
  BY Constants DEF Age, PairInv, TypeOK
<1> SUFFICES ASSUME NEW u \in Task, NEW i \in task[u].todo, meta[i] # None PROVE MayGo(i)'
  BY <1>1 DEF ChosenInv, MayGo
<1>2. /\ ~meta[i].flash /\ WeakWith(0, meta[i])
      /\ i \in raised \/ Weak(meta[i])
  BY DEF ChosenInv, MayGo
<1>3. meta[i].born \in Nat /\ Lifetime[meta[i].emotion] \in Nat
  BY Constants DEF PairInv, TypeOK, TaskRow, Memory
<1>4. \A l \in Nat : now - meta[i].born > l => now + 1 - meta[i].born > l
  BY <1>1, <1>3
<1> QED
  BY <1>1, <1>2, <1>3, <1>4, Constants DEF MayGo, WeakWith, Weak

\* A search chooses what is forgotten.
LEMMA ChosenSearch ==
  ASSUME PairInv, ChosenInv, NEW t \in Task, NEW found \in SUBSET Id, Search(t, found)
  PROVE  ChosenInv'
<1> DEFINE weak == {i \in found : Forgotten(meta[i])}
           r == [Idle EXCEPT !.at = "deleteVec", !.todo = weak]
<1>1. Go(t, r) /\ UNCHANGED <<meta, now, raised>> /\ found \subseteq Joined
  BY DEF Search
<1>2. r \in TaskRow /\ r.todo = weak
  BY DEF Idle, TaskRow, Steps
<1>3. \A i \in weak : MayGo(i)
  <2> SUFFICES ASSUME NEW i \in weak PROVE MayGo(i)
    OBVIOUS
  <2>1. /\ i \in Id /\ meta[i] \in Memory /\ ~meta[i].flash
        /\ now - meta[i].born > Lifetime[meta[i].emotion]
    BY <1>1 DEF Joined, Forgotten, Weak, WeakWith, PairInv, TypeOK
  <2>2. now \in Nat /\ meta[i].born \in Nat /\ meta[i].emotion \in {0, 1}
    BY <2>1, Constants DEF Memory, PairInv, TypeOK
  <2>3. Lifetime[0] <= Lifetime[meta[i].emotion] /\ Lifetime[meta[i].emotion] \in Nat
    BY <2>2, Constants
  <2>4. now - meta[i].born > Lifetime[0]
    BY <2>1, <2>2, <2>3, Constants
  <2> QED
    BY <2>1, <2>4 DEF MayGo, Weak, WeakWith
<1> HIDE DEF r, weak
<1>4. task'[t] = r /\ \A u \in Task \ {t} : task'[u] = task[u]
  BY <1>1, <1>2, Moved DEF PairInv
<1>5. \A i : MayGo(i) => MayGo(i)'
  BY <1>1 DEF MayGo, Weak, WeakWith
<1> QED
  BY <1>2, <1>3, <1>4, <1>5 DEF ChosenInv

LEMMA ChosenStep == PairInv /\ ChosenInv /\ [Next]_vars => ChosenInv'
<1> SUFFICES ASSUME PairInv, ChosenInv, [Next]_vars PROVE ChosenInv'
  OBVIOUS
<1> USE DEF PairInv
<1>1. CASE UNCHANGED vars
  BY <1>1 DEF vars, ChosenInv, MayGo, Weak, WeakWith
<1>2. CASE Crash
  BY <1>2, IdleRow DEF Crash, ChosenInv
<1>3. ASSUME NEW t \in Task, InsertMeta(t) PROVE ChosenInv'
  <2> DEFINE r == [task[t] EXCEPT !.at = "commitInsert"]
  <2>1. /\ task[t].at = "insertMeta" /\ Go(t, r) /\ UNCHANGED <<now, raised>>
        /\ \A i \in Id \ {task[t].id} : meta'[i] = meta[i]
    BY <1>3 DEF InsertMeta, TypeOK
  <2>2. r \in TaskRow /\ r.todo = task[t].todo
    BY DEF TypeOK, TaskRow, Steps
  <2>3. \A u \in Task : task[u].todo \subseteq Id \ {task[t].id}
    BY <2>1 DEF Inserting, TypeOK, TaskRow
  <2> HIDE DEF r
  <2> QED
    BY <2>1, <2>2, <2>3, ChosenKept
<1>4. ASSUME NEW t \in Task, DeleteMeta(t) PROVE ChosenInv'
  <2> DEFINE rest == task[t].todo \ {task[t].id}
             r == [task[t] EXCEPT !.at = IF rest = {} THEN "commitDelete" ELSE "deleteVec",
                                  !.todo = rest, !.id = None]
  <2>1. /\ Go(t, r) /\ UNCHANGED <<now, raised>>
        /\ meta' = [meta EXCEPT ![task[t].id] = None]
    BY <1>4 DEF DeleteMeta
  <2>2. r \in TaskRow /\ r.todo \subseteq task[t].todo
    BY DEF TypeOK, TaskRow, Steps
  <2>3. \A i \in Id : meta'[i] = meta[i] \/ meta'[i] = None
    BY <2>1 DEF TypeOK
  <2>4. \A u \in Task : task[u].todo \subseteq Id
    BY DEF TypeOK, TaskRow
  <2> HIDE DEF r
  <2> QED
    BY <2>1, <2>2, <2>3, <2>4, ChosenKept
<1>5. ASSUME NEW t \in Task, NEW r, Go(t, r), r.todo \subseteq task[t].todo,
             UNCHANGED <<meta, now, raised>>
      PROVE  ChosenInv'
  <2>1. task'[t] = r /\ \A u \in Task \ {t} : task'[u] = task[u]
    BY <1>5 DEF Go, TypeOK
  <2>2. \A i : MayGo(i) => MayGo(i)'
    BY <1>5 DEF MayGo, Weak, WeakWith
  <2> QED
    BY <1>5, <2>1, <2>2 DEF ChosenInv
<1>6. ASSUME NEW t \in Task,
             \/ \E topic \in Topic, flash \in BOOLEAN : Add(t, topic, flash)
             \/ \E i \in Id : FindDuplicate(t, i)
             \/ \E i \in Id : InsertVec(t, i)
             \/ \E i \in Id : DeleteVec(t, i)
             \/ FindNoDuplicate(t)
             \/ CommitMerge(t) \/ CommitInsert(t) \/ CommitDelete(t)
      PROVE  \E r : /\ Go(t, r) /\ r.todo \subseteq task[t].todo
                    /\ UNCHANGED <<meta, now, raised>>
  <2>0. task[t] \in TaskRow
    BY DEF TypeOK
  <2>1. ASSUME NEW topic \in Topic, NEW flash \in BOOLEAN, Add(t, topic, flash)
        PROVE  \E r : /\ Go(t, r) /\ r.todo \subseteq task[t].todo
                      /\ UNCHANGED <<meta, now, raised>>
    BY <2>1 DEF Add, Idle
  <2>2. ASSUME NEW i \in Id, FindDuplicate(t, i)
        PROVE  \E r : /\ Go(t, r) /\ r.todo \subseteq task[t].todo
                      /\ UNCHANGED <<meta, now, raised>>
    BY <2>0, <2>2 DEF FindDuplicate, TaskRow
  <2>3. ASSUME NEW i \in Id, InsertVec(t, i)
        PROVE  \E r : /\ Go(t, r) /\ r.todo \subseteq task[t].todo
                      /\ UNCHANGED <<meta, now, raised>>
    BY <2>0, <2>3 DEF InsertVec, TaskRow
  <2>4. ASSUME NEW i \in Id, DeleteVec(t, i)
        PROVE  \E r : /\ Go(t, r) /\ r.todo \subseteq task[t].todo
                      /\ UNCHANGED <<meta, now, raised>>
    BY <2>0, <2>4 DEF DeleteVec, TaskRow
  <2>5. CASE FindNoDuplicate(t)
    BY <2>0, <2>5 DEF FindNoDuplicate, TaskRow
  <2>6. CASE CommitMerge(t) \/ CommitInsert(t) \/ CommitDelete(t)
    BY <2>6, IdleRow DEF CommitMerge, CommitInsert, CommitDelete
  <2> QED
    BY <1>6, <2>1, <2>2, <2>3, <2>4, <2>5, <2>6
<1> QED
  BY <1>1, <1>2, <1>3, <1>4, <1>5, <1>6, ChosenMerge, ChosenSearch, ChosenAge
     DEF Next, Insert, Recall

--------------------------------------------------------------------------------
(* Without deduplication.                                                     *)

\* What is promised still is not forgotten: the least lifetime is that of a memory without
\* emotion.
LEMMA FreshIsStrong ==
  ASSUME TypeOK, NEW i \in Id, NEW p, Keeps(meta, i, p), Fresh(p)
  PROVE  meta[i] # None /\ ~(~meta[i].flash /\ WeakWith(0, meta[i]))
<1>1. /\ meta[i] # None /\ meta[i] \in Memory /\ meta[i].flash = p.flash
      /\ meta[i].born = p.born
  BY DEF Keeps, TypeOK
<1>2. /\ meta[i].born \in 0..MaxNow /\ meta[i].emotion \in {0, 1} /\ now \in 0..MaxNow
      /\ meta[i].flash \in BOOLEAN
  BY <1>1 DEF Memory, TypeOK
<1>4. CASE p.flash
  BY <1>1, <1>4
<1>5. CASE now - p.born <= Lifetime[0]
  BY <1>1, <1>2, <1>5, Constants DEF WeakWith
<1> QED
  BY <1>1, <1>4, <1>5 DEF Fresh

KeepParts == NoMerging /\ PromiseAhead /\ PromiseKept

\* A task that neither writes nor deletes moves on.
LEMMA KeepQuiet ==
  ASSUME TypeOK, KeepParts, NEW t \in Task, NEW r \in TaskRow, Go(t, r),
         UNCHANGED <<vec, meta, durable, spent, now, told>>,
         r.at \notin {"look", "merge", "commitMerge", "insertMeta", "commitInsert"}
  PROVE  KeepParts'
<1>1. task'[t] = r /\ \A u \in Task \ {t} : task'[u] = task[u]
  BY Moved
<1>2. NoMerging'
  BY <1>1 DEF KeepParts, NoMerging
<1>3. PromiseAhead'
  BY <1>1 DEF KeepParts, PromiseAhead, Fresh, Keeps
<1>4. PromiseKept'
  BY DEF KeepParts, PromiseKept, Fresh, Keeps
<1> QED
  BY <1>2, <1>3, <1>4 DEF KeepParts

\* Deleting a half of a row that is too weak breaks no promise.
LEMMA KeepDelete ==
  ASSUME PairInv, ChosenInv, KeepParts, NEW t \in Task,
         DeleteMeta(t) \/ \E i \in Id : DeleteVec(t, i)
  PROVE  KeepParts'
<1> USE DEF PairInv
<1>1. PICK i \in task[t].todo :
        /\ i \in Id
        /\ \A j \in Id \ {i} : vec'[j] = vec[j] /\ meta'[j] = meta[j]
        /\ meta'[i] = meta[i] \/ meta'[i] = None
        /\ UNCHANGED <<durable, spent, now, told>>
        /\ \E r : /\ Go(t, r) /\ r.todo \subseteq task[t].todo
                  /\ r.at \in {"deleteMeta", "deleteVec", "commitDelete"}
  <2>0. task[t] \in TaskRow
    BY DEF TypeOK
  <2>1. CASE DeleteMeta(t)
    <3> DEFINE rest == task[t].todo \ {task[t].id}
               r == [task[t] EXCEPT !.at = IF rest = {} THEN "commitDelete" ELSE "deleteVec",
                                    !.todo = rest, !.id = None]
    <3>1. /\ task[t].id \in task[t].todo /\ task[t].id \in Id
          /\ meta' = [meta EXCEPT ![task[t].id] = None]
          /\ UNCHANGED <<vec, durable, spent, now, told>> /\ Go(t, r)
      BY <2>0, <2>1 DEF DeleteMeta, TypeOK, TaskRow
    <3>2. r.todo \subseteq task[t].todo /\ r.at \in {"deleteVec", "commitDelete"}
      BY <2>0 DEF TaskRow
    <3>3. /\ meta'[task[t].id] = None
          /\ \A j \in Id \ {task[t].id} : meta'[j] = meta[j]
      BY <3>1 DEF TypeOK
    <3> HIDE DEF r
    <3> QED
      BY <3>1, <3>2, <3>3
  <2>2. ASSUME NEW i \in Id, DeleteVec(t, i)
        PROVE  /\ i \in task[t].todo
               /\ \A j \in Id \ {i} : vec'[j] = vec[j]
               /\ UNCHANGED <<meta, durable, spent, now, told>>
               /\ \E r : /\ Go(t, r) /\ r.todo \subseteq task[t].todo
                         /\ r.at \in {"deleteMeta", "deleteVec", "commitDelete"}
    <3> DEFINE r == [task[t] EXCEPT !.at = "deleteMeta", !.id = i, !.touched = @ \cup {i}]
    <3>1. /\ i \in task[t].todo /\ vec' = [vec EXCEPT ![i] = None]
          /\ UNCHANGED <<meta, durable, spent, now, told>> /\ Go(t, r)
      BY <2>2 DEF DeleteVec
    <3>2. r.todo = task[t].todo /\ r.at = "deleteMeta"
      BY <2>0 DEF TaskRow
    <3>3. \A j \in Id \ {i} : vec'[j] = vec[j]
      BY <3>1 DEF TypeOK
    <3> HIDE DEF r
    <3> QED
      BY <3>1, <3>2, <3>3
  <2> QED
    BY <2>1, <2>2
<1>2. PICK r : /\ Go(t, r) /\ r.todo \subseteq task[t].todo
               /\ r.at \in {"deleteMeta", "deleteVec", "commitDelete"}
  BY <1>1
<1>3. task'[t] = r /\ \A u \in Task \ {t} : task'[u] = task[u]
  BY <1>2 DEF Go, TypeOK
<1>4. meta[i] = None \/ (~meta[i].flash /\ WeakWith(0, meta[i]))
  BY <1>1 DEF ChosenInv, MayGo
<1>5. \A p : Keeps(meta, i, p) => ~Fresh(p)
  BY <1>1, <1>4, FreshIsStrong DEF Keeps
<1>6. NoMerging'
  BY <1>2, <1>3 DEF KeepParts, NoMerging
<1>7. PromiseAhead'
  <2> SUFFICES ASSUME NEW u \in Task, task'[u].at \in {"insertMeta", "commitInsert"}
               PROVE  /\ told'[task'[u].id] = None
                      /\ task'[u].at = "commitInsert" /\ Fresh(task[u].new)' =>
                           vec'[task'[u].id] # None
                           /\ Keeps(meta', task'[u].id, task'[u].new)
    BY DEF PromiseAhead, Keeps
  <2>1. task'[u] = task[u] /\ told' = told /\ task[u].id \in Id
    BY <1>1, <1>2, <1>3 DEF TypeOK, TaskRow
  <2>2. told[task[u].id] = None
    BY <2>1 DEF KeepParts, PromiseAhead
  <2>3. ASSUME task[u].at = "commitInsert", Fresh(task[u].new)
        PROVE  vec'[task[u].id] # None /\ Keeps(meta', task[u].id, task[u].new)
    <3>1. vec[task[u].id] # None /\ Keeps(meta, task[u].id, task[u].new)
      BY <2>1, <2>3 DEF KeepParts, PromiseAhead
    <3>2. task[u].id # i
      BY <1>5, <2>3, <3>1
    <3> QED
      BY <1>1, <2>1, <3>1, <3>2 DEF Keeps
  <2>4. Fresh(task[u].new)' => Fresh(task[u].new)
    BY <1>1, <2>1 DEF Fresh
  <2> QED
    BY <2>1, <2>2, <2>3, <2>4
<1>8. PromiseKept'
  <2> SUFFICES ASSUME NEW j \in Id, told[j] # None
               PROVE  /\ j \in spent
                      /\ Fresh(told[j]) =>
                           /\ vec'[j] # None /\ Keeps(meta', j, told[j])
                           /\ durable.vec[j] # None /\ Keeps(durable.meta, j, told[j])
    BY <1>1 DEF PromiseKept, Fresh, Keeps
  <2>1. /\ j \in spent
        /\ Fresh(told[j]) =>
             /\ vec[j] # None /\ Keeps(meta, j, told[j])
             /\ durable.vec[j] # None /\ Keeps(durable.meta, j, told[j])
    BY DEF KeepParts, PromiseKept
  <2>2. Fresh(told[j]) => j # i
    BY <1>5, <2>1
  <2> QED
    BY <1>1, <2>1, <2>2 DEF Keeps
<1> QED
  BY <1>6, <1>7, <1>8 DEF KeepParts

\* A row that completes, or begins, leaves the promises of the others alone.
LEMMA KeepInsert ==
  ASSUME PairInv, PairInv', KeepParts, NEW t \in Task,
         InsertMeta(t) \/ \E i \in Id : InsertVec(t, i)
  PROVE  KeepParts'
<1> USE DEF PairInv
<1>0. task[t] \in TaskRow
  BY DEF TypeOK
<1>1. CASE InsertMeta(t)
  <2> DEFINE i == task[t].id
             n == task[t].new
             r == [task[t] EXCEPT !.at = "commitInsert"]
  <2>1. /\ task[t].at = "insertMeta" /\ n \in Memory /\ i \in Id
        /\ meta' = [meta EXCEPT ![i] = n] /\ Go(t, r)
        /\ UNCHANGED <<vec, durable, spent, now, told>>
    BY <1>0, <1>1 DEF InsertMeta, TypeOK, TaskRow
  <2>2. r \in TaskRow /\ r.at = "commitInsert" /\ r.new = n /\ r.id = i /\ r.todo = task[t].todo
    BY <1>0 DEF TaskRow, Steps
  <2> HIDE DEF r
  <2>3. task'[t] = r /\ \A u \in Task \ {t} : task'[u] = task[u]
    BY <2>1, <2>2, Moved
  <2>4. /\ vec[i] # None /\ told[i] = None
        /\ \A u \in Task : i \notin task[u].todo
        /\ \A u \in Task \ {t} : task[u].at \in {"insertMeta", "commitInsert"} => task[u].id # i
    BY <2>1 DEF Inserting, KeepParts, PromiseAhead
  <2>5. meta'[i] = n /\ n # None /\ \A j \in Id \ {i} : meta'[j] = meta[j]
    BY <2>1, Constants DEF TypeOK
  <2>6. NoMerging'
    BY <2>2, <2>3 DEF KeepParts, NoMerging
  <2>7. PromiseAhead'
    <3> SUFFICES ASSUME NEW u \in Task, task'[u].at \in {"insertMeta", "commitInsert"}
                 PROVE  /\ told[task'[u].id] = None
                        /\ task'[u].at = "commitInsert" /\ Fresh(task'[u].new) =>
                             vec[task'[u].id] # None /\ Keeps(meta', task'[u].id, task'[u].new)
      BY <2>1 DEF PromiseAhead, Keeps, Fresh
    <3>1. CASE u = t
      BY <2>2, <2>3, <2>4, <2>5, <3>1 DEF Keeps
    <3>2. CASE u # t
      <4>1. task'[u] = task[u] /\ task[u].id \in Id /\ task[u].id # i
        BY <2>3, <2>4, <3>2 DEF TypeOK, TaskRow
      <4>2. /\ told[task[u].id] = None
            /\ task[u].at = "commitInsert" /\ Fresh(task[u].new) =>
                 vec[task[u].id] # None /\ Keeps(meta, task[u].id, task[u].new)
        BY <4>1 DEF KeepParts, PromiseAhead
      <4> QED
        BY <2>5, <4>1, <4>2 DEF Keeps
    <3> QED
      BY <3>1, <3>2
  <2>8. PromiseKept'
    BY <2>1, <2>4, <2>5 DEF KeepParts, PromiseKept, Keeps, Fresh
  <2> QED
    BY <2>6, <2>7, <2>8 DEF KeepParts
<1>2. ASSUME NEW i \in Id, InsertVec(t, i) PROVE KeepParts'
  <2> DEFINE n == task[t].new
             r == [task[t] EXCEPT !.at = "insertMeta", !.id = i, !.touched = {i}]
  <2>1. /\ i \notin spent /\ spent' = spent \cup {i}
        /\ vec' = [vec EXCEPT ![i] = n.topic] /\ Go(t, r)
        /\ UNCHANGED <<meta, durable, now, told>>
    BY <1>2 DEF InsertVec
  <2>2. r \in TaskRow /\ r.at = "insertMeta" /\ r.id = i /\ r.todo = task[t].todo
    BY <1>0 DEF TaskRow, Steps
  <2> HIDE DEF r
  <2>3. task'[t] = r /\ \A u \in Task \ {t} : task'[u] = task[u]
    BY <2>1, <2>2, Moved
  <2>4. told[i] = None /\ \A u \in Task : task[u].at \in {"insertMeta", "commitInsert"} => task[u].id # i
    BY <2>1 DEF KeepParts, PromiseKept, SpentInv
  <2>5. \A j \in Id \ {i} : vec'[j] = vec[j]
    BY <2>1 DEF TypeOK
  <2>6. NoMerging'
    BY <2>2, <2>3 DEF KeepParts, NoMerging
  <2>7. PromiseAhead'
    <3> SUFFICES ASSUME NEW u \in Task, task'[u].at \in {"insertMeta", "commitInsert"}
                 PROVE  /\ told[task'[u].id] = None
                        /\ task'[u].at = "commitInsert" /\ Fresh(task'[u].new) =>
                             vec'[task'[u].id] # None /\ Keeps(meta, task'[u].id, task'[u].new)
      BY <2>1 DEF PromiseAhead, Keeps, Fresh
    <3>1. CASE u = t
      BY <2>2, <2>3, <2>4, <3>1
    <3>2. CASE u # t
      <4>1. task'[u] = task[u] /\ task[u].id \in Id /\ task[u].id # i
        BY <2>3, <2>4, <3>2 DEF TypeOK, TaskRow
      <4>2. /\ told[task[u].id] = None
            /\ task[u].at = "commitInsert" /\ Fresh(task[u].new) =>
                 vec[task[u].id] # None /\ Keeps(meta, task[u].id, task[u].new)
        BY <4>1 DEF KeepParts, PromiseAhead
      <4> QED
        BY <2>5, <4>1, <4>2
    <3> QED
      BY <3>1, <3>2
  <2>8. PromiseKept'
    BY <2>1, <2>4, <2>5 DEF KeepParts, PromiseKept, Keeps, Fresh
  <2> QED
    BY <2>6, <2>7, <2>8 DEF KeepParts
<1> QED
  BY <1>1, <1>2

\* A commit makes what is there durable, and the promise is made of what is there.
LEMMA KeepCommit ==
  ASSUME PairInv, KeepParts, NEW t \in Task,
         CommitMerge(t) \/ CommitInsert(t) \/ CommitDelete(t)
  PROVE  KeepParts'
<1> USE DEF PairInv
<1>1. /\ Go(t, Idle) /\ durable'.vec = vec /\ durable'.meta = meta
      /\ UNCHANGED <<vec, meta, spent, now>>
  BY DEF CommitMerge, CommitInsert, CommitDelete, Commit
<1>2. task'[t] = Idle /\ \A u \in Task \ {t} : task'[u] = task[u]
  BY <1>1, IdleRow, Moved
<1>3. NoMerging'
  BY <1>1, <1>2, IdleRow DEF KeepParts, NoMerging
<1>4. \A j \in Id : told[j] # None =>
        /\ j \in spent
        /\ Fresh(told[j]) => vec[j] # None /\ Keeps(meta, j, told[j])
  BY DEF KeepParts, PromiseKept
<1>5. CASE CommitDelete(t)
  <2>1. told' = told
    BY <1>5 DEF CommitDelete
  <2>2. PromiseAhead'
    BY <1>1, <1>2, <2>1, IdleRow DEF KeepParts, PromiseAhead, Fresh, Keeps
  <2>3. PromiseKept'
    BY <1>1, <1>4, <2>1 DEF PromiseKept, Fresh, Keeps
  <2> QED
    BY <1>3, <2>2, <2>3 DEF KeepParts
<1>6. CASE CommitInsert(t)
  <2> DEFINE i == task[t].id
             n == task[t].new
             p == [flash |-> n.flash, born |-> n.born]
  <2>1. /\ task[t].at = "commitInsert" /\ i \in Id /\ i \in spent /\ told[i] = None
        /\ Fresh(n) => vec[i] # None /\ Keeps(meta, i, n)
    BY <1>6 DEF CommitInsert, TypeOK, TaskRow, SpentInv, KeepParts, PromiseAhead
  <2>2. told' = [told EXCEPT ![i] = p]
    BY <1>6, <2>1 DEF CommitInsert, Tell
  <2>3. told'[i] = p /\ \A j \in Id \ {i} : told'[j] = told[j]
    BY <2>1, <2>2 DEF TypeOK
  <2>4. Fresh(p) => vec[i] # None /\ Keeps(meta, i, p)
    BY <2>1 DEF Fresh, Keeps
  <2> HIDE DEF p
  <2>5. PromiseKept'
    <3> SUFFICES ASSUME NEW j \in Id, told'[j] # None
                 PROVE  /\ j \in spent
                        /\ Fresh(told'[j]) => vec[j] # None /\ Keeps(meta, j, told'[j])
      BY <1>1 DEF PromiseKept, Fresh, Keeps
    <3>1. CASE j = i
      BY <2>1, <2>3, <2>4, <3>1
    <3>2. CASE j # i
      BY <1>4, <2>3, <3>2
    <3> QED
      BY <3>1, <3>2
  <2>6. PromiseAhead'
    <3> SUFFICES ASSUME NEW u \in Task, task'[u].at \in {"insertMeta", "commitInsert"}
                 PROVE  /\ told'[task'[u].id] = None
                        /\ task'[u].at = "commitInsert" /\ Fresh(task'[u].new) =>
                             vec[task'[u].id] # None /\ Keeps(meta, task'[u].id, task'[u].new)
      BY <1>1 DEF PromiseAhead, Keeps, Fresh
    <3>1. /\ u # t /\ task'[u] = task[u] /\ task[u].id \in Id
      BY <1>2, IdleRow DEF TypeOK, TaskRow
    <3>2. task[u].id # i
      BY <2>1, <3>1 DEF Inserting
    <3>3. /\ told[task[u].id] = None
          /\ task[u].at = "commitInsert" /\ Fresh(task[u].new) =>
               vec[task[u].id] # None /\ Keeps(meta, task[u].id, task[u].new)
      BY <3>1 DEF KeepParts, PromiseAhead
    <3> QED
      BY <2>3, <3>1, <3>2, <3>3
  <2> QED
    BY <1>3, <2>5, <2>6 DEF KeepParts
<1>7. ~CommitMerge(t)
  BY DEF CommitMerge, KeepParts, NoMerging
<1> QED
  BY <1>5, <1>6, <1>7

LEMMA KeepAge ==
  ASSUME PairInv, KeepParts, Age
  PROVE  KeepParts'
<1>1. /\ now' = now + 1 /\ now \in Nat
      /\ UNCHANGED <<vec, meta, durable, spent, task, told>>
  BY Constants DEF Age, PairInv, TypeOK
<1>2. \A p \in Promise \cup Memory : Fresh(p)' => Fresh(p)
  BY <1>1, Constants DEF Fresh, Promise, Memory
<1>3. NoMerging'
  BY <1>1 DEF KeepParts, NoMerging
<1>4. PromiseAhead'
  <2> SUFFICES ASSUME NEW u \in Task, task[u].at \in {"insertMeta", "commitInsert"}
               PROVE  /\ told[task[u].id] = None
                      /\ task[u].at = "commitInsert" /\ Fresh(task[u].new)' =>
                           vec[task[u].id] # None /\ Keeps(meta, task[u].id, task[u].new)
    BY <1>1 DEF PromiseAhead, Keeps
  <2>1. task[u].new \in Memory
    BY DEF PairInv, TypeOK, TaskRow
  <2>2. Fresh(task[u].new)' => Fresh(task[u].new)
    BY <1>1, <1>2, <2>1 DEF Fresh
  <2> QED
    BY <2>2 DEF KeepParts, PromiseAhead
<1>5. PromiseKept'
  <2> SUFFICES ASSUME NEW j \in Id, told[j] # None
               PROVE  /\ j \in spent
                      /\ Fresh(told[j])' =>
                           /\ vec[j] # None /\ Keeps(meta, j, told[j])
                           /\ durable.vec[j] # None /\ Keeps(durable.meta, j, told[j])
    BY <1>1 DEF PromiseKept, Keeps
  <2>1. told[j] \in Promise
    BY DEF PairInv, TypeOK
  <2>2. Fresh(told[j])' => Fresh(told[j])
    BY <1>1, <1>2, <2>1 DEF Fresh
  <2> QED
    BY <2>2 DEF KeepParts, PromiseKept
<1> QED
  BY <1>3, <1>4, <1>5 DEF KeepParts

LEMMA KeepCrash ==
  ASSUME PairInv, KeepParts, Crash
  PROVE  KeepParts'
<1>1. /\ vec' = durable.vec /\ meta' = durable.meta
      /\ \A t \in Task : task'[t] = Idle
      /\ UNCHANGED <<durable, spent, now, told>>
  BY DEF Crash
<1>2. NoMerging' /\ PromiseAhead'
  BY <1>1, IdleRow DEF NoMerging, PromiseAhead
<1>3. PromiseKept'
  BY <1>1 DEF KeepParts, PromiseKept, Keeps, Fresh
<1> QED
  BY <1>2, <1>3 DEF KeepParts

LEMMA InitKeep == Init => KeepInv
BY IdleRow DEF Init, KeepInv, NoMerging, PromiseAhead, PromiseKept

LEMMA KeepStep ==
  ASSUME IInv, PairInv', [Next]_vars
  PROVE  KeepInv'
<1> SUFFICES ASSUME ~dedup' PROVE KeepParts'
  BY DEF KeepInv, KeepParts
<1>1. ~dedup /\ PairInv /\ TypeOK /\ ChosenInv
  <2>1. UNCHANGED vars => dedup' = dedup
    BY DEF vars
  <2>2. ASSUME NEW t \in Task, Insert(t) PROVE dedup' = dedup
    BY <2>2 DEF Insert, Add, FindDuplicate, FindNoDuplicate, Merge, CommitMerge, InsertVec,
                InsertMeta, CommitInsert
  <2>3. ASSUME NEW t \in Task, Recall(t) PROVE dedup' = dedup
    BY <2>3 DEF Recall, Search, DeleteVec, DeleteMeta, CommitDelete
  <2>4. Age \/ Crash => dedup' = dedup
    BY DEF Age, Crash
  <2> QED
    BY <2>1, <2>2, <2>3, <2>4 DEF Next, IInv, PairInv
<1>2. KeepParts
  BY <1>1 DEF IInv, KeepInv, KeepParts
<1>3. ASSUME NEW t \in Task, NEW topic \in Topic, NEW flash \in BOOLEAN, Add(t, topic, flash)
      PROVE  KeepParts'
  <2> DEFINE n == [topic |-> topic, flash |-> flash, born |-> now,
                   emotion |-> IF flash THEN 1 ELSE 0]
             r == [Idle EXCEPT !.at = "insertVec", !.new = n]
  <2>1. Go(t, r) /\ UNCHANGED <<vec, meta, durable, spent, now, told>>
    BY <1>1, <1>3 DEF Add
  <2>2. n \in Memory
    BY <1>1 DEF Memory, TypeOK
  <2>3. r \in TaskRow /\ r.at = "insertVec" /\ r.todo = {}
    BY <2>2 DEF Idle, TaskRow, Steps
  <2> HIDE DEF r
  <2> QED
    BY <1>1, <1>2, <2>1, <2>3, KeepQuiet
<1>4. ASSUME NEW t \in Task, NEW found \in SUBSET Id, Search(t, found)
      PROVE  KeepParts'
  <2> DEFINE weak == {i \in found : Forgotten(meta[i])}
             r == [Idle EXCEPT !.at = "deleteVec", !.todo = weak]
  <2>1. Go(t, r) /\ UNCHANGED <<vec, meta, durable, spent, now, told>>
    BY <1>4 DEF Search
  <2>2. r \in TaskRow /\ r.at = "deleteVec" /\ r.todo = weak
    BY DEF Idle, TaskRow, Steps
  <2> HIDE DEF r, weak
  <2> QED
    BY <1>1, <1>2, <2>1, <2>2, KeepQuiet
<1>5. ASSUME NEW t \in Task
      PROVE  /\ \A i \in Id : ~FindDuplicate(t, i)
             /\ ~FindNoDuplicate(t) /\ ~Merge(t) /\ ~CommitMerge(t)
  BY <1>2 DEF KeepParts, NoMerging, FindDuplicate, FindNoDuplicate, Merge, CommitMerge
<1>6. CASE UNCHANGED vars
  BY <1>2, <1>6 DEF vars, KeepParts, NoMerging, PromiseAhead, PromiseKept, Keeps, Fresh
<1>7. ASSUME NEW t \in Task, Insert(t) PROVE KeepParts'
  <2>1. \/ \E topic \in Topic, flash \in BOOLEAN : Add(t, topic, flash)
        \/ InsertMeta(t) \/ \E i \in Id : InsertVec(t, i)
        \/ CommitInsert(t)
    BY <1>5, <1>7 DEF Insert
  <2> QED
    BY <1>1, <1>2, <1>3, <2>1, KeepInsert, KeepCommit
<1>8. ASSUME NEW t \in Task, Recall(t) PROVE KeepParts'
  BY <1>1, <1>2, <1>4, <1>8, KeepDelete, KeepCommit DEF Recall
<1> QED
  BY <1>1, <1>2, <1>6, <1>7, <1>8, KeepAge, KeepCrash DEF Next

\* The tables agree, and without deduplication what was promised is kept.
THEOREM InductiveInvariant == Spec => []IInv
<1>1. Init => IInv
  BY InitPair, InitChosen, InitKeep DEF IInv
<1>2. IInv /\ [Next]_vars => IInv'
  BY PairStep, ChosenStep, KeepStep DEF IInv
<1> QED
  BY <1>1, <1>2, PTL DEF Spec

\* Every variable keeps its type; a task between two statements knows its row.
THEOREM TypeCorrect == Spec => []TypeOK
<1>1. IInv => TypeOK
  BY DEF IInv, PairInv
<1> QED
  BY <1>1, InductiveInvariant, PTL

\* A memory add_* returned an id for is in both tables and in the last commit until it is
\* too weak, whatever the searches and commits of other tasks and crashes do.
THEOREM StoredAlwaysKept == Spec => []StoredIsKept
<1>1. IInv => StoredIsKept
  BY DEF IInv, KeepInv, PromiseKept, StoredIsKept, Keeps, Fresh
<1> QED
  BY <1>1, InductiveInvariant, PTL

\* Whatever the merges of other tasks do, the row a search deletes is no flashbulb, is too
\* old for an ordinary memory, and is too weak at that moment unless it was raised since.
THEOREM OnlyForgottenDeleted == Spec => OnlyForgottenIsDeleted
<1>1. ASSUME IInv, [Next]_vars, crashes' = crashes,
             NEW i \in Id, meta[i] # None, meta'[i] = None
      PROVE  ~meta[i].flash /\ WeakWith(0, meta[i]) /\ (i \in raised \/ Weak(meta[i]))
  <2>1. TypeOK /\ ChosenInv
    BY <1>1 DEF IInv, PairInv
  <2>2. ~Crash
    BY <1>1, <2>1, Constants DEF Crash, TypeOK
  <2>3. \A t \in Task : ~InsertMeta(t)
    <3> SUFFICES ASSUME NEW t \in Task, InsertMeta(t) PROVE FALSE
      OBVIOUS
    <3>1. /\ task[t].new \in Memory /\ task[t].new # None
          /\ meta' = [meta EXCEPT ![task[t].id] = task[t].new]
      BY <2>1, Constants DEF InsertMeta, TypeOK, TaskRow
    <3> QED
      BY <1>1, <2>1, <3>1 DEF TypeOK
  <2>4. \A t \in Task : ~Merge(t)
    <3> SUFFICES ASSUME NEW t \in Task, Merge(t) PROVE FALSE
      OBVIOUS
    <3> QED
      BY <1>1, MergedRows DEF IInv
  <2>5. PICK t \in Task : DeleteMeta(t)
    BY <1>1, <2>2, <2>3, <2>4 DEF Next, Insert, Recall, Add, FindDuplicate, FindNoDuplicate,
       CommitMerge, InsertVec, CommitInsert, Search, DeleteVec, CommitDelete, Age, vars
  <2>6. /\ task[t].id \in task[t].todo
        /\ meta' = [meta EXCEPT ![task[t].id] = None]
    BY <2>1, <2>5 DEF DeleteMeta, TypeOK
  <2>7. task[t].id = i
    BY <1>1, <2>1, <2>6 DEF TypeOK
  <2> QED
    BY <1>1, <2>1, <2>6, <2>7 DEF ChosenInv, MayGo
<1>2. IInv /\ [Next]_vars =>
        [crashes' = crashes =>
           \A i \in Id : meta[i] # None /\ meta'[i] = None =>
             /\ ~meta[i].flash /\ WeakWith(0, meta[i])
             /\ i \in raised \/ Weak(meta[i])]_vars
  BY <1>1
<1> QED
  BY <1>2, InductiveInvariant, PTL DEF Spec, OnlyForgottenIsDeleted
================================================================================
