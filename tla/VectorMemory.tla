------------------------------ MODULE VectorMemory ------------------------------
(******************************************************************************)
(* VectorMemory: the vector table and the metadata table of one memory layer  *)
(* of one user, written and searched by several tasks over one connection.    *)
(*                                                                            *)
(* A memory is two rows, one in each table.  Each statement is a step of its  *)
(* own, because the connection is awaited between statements; there is one    *)
(* transaction for all tasks, so that the commit of one task also commits the *)
(* half-done rows of another.  Every statement is restricted to one user and  *)
(* one layer, so that one of each stands for all.                             *)
(******************************************************************************)
EXTENDS Naturals, FiniteSets

CONSTANTS
  Task,         \* extractions, sleep phases and searches under way
  Id,           \* rowids, never used twice; the entry id is one with the rowid
  Topic,        \* contents that are near-duplicates of each other are one topic
  None,
  Settings,     \* what "dedup_distance_threshold > 0" may be configured to
  FetchK,       \* bound: rows a search fetches, max(3n, n + 5)
  Lifetime,     \* [{0, 1} -> Nat]: age a memory of that emotion_weight may reach
  MaxNow,       \* bound: the clock
  MaxCrashes    \* bound: how often the process may be killed

ASSUME ConstantsOK ==
  /\ Settings \subseteq BOOLEAN
  /\ FetchK \in Nat /\ MaxNow \in Nat /\ MaxCrashes \in Nat
  /\ Lifetime \in [{0, 1} -> Nat] /\ Lifetime[0] <= Lifetime[1]
  /\ None \notin Id \cup Topic

VARIABLES
  dedup,        \* is dedup_distance_threshold > 0; chosen once, in the configuration
  vec,          \* [Id -> Topic or None]: the vector table
  meta,         \* [Id -> memory or None]: the metadata table
  durable,      \* both tables at the last commit
  spent,        \* rowids given out
  now,          \* the clock
  task,         \* [Task -> where it is, and what it works on]
  told,         \* history: [Id -> what add_* was last told to keep under it]
  torn,         \* history: the rows tasks were working on when the process died
  raised,       \* history: rows a merge strengthened while a search was to delete them
  crashes

vars == <<dedup, vec, meta, durable, spent, now, task, told, torn, raised, crashes>>

\* emotion_weight is 1 for a flashbulb and for what was merged with one.
Memory == [topic : Topic, flash : BOOLEAN, emotion : {0, 1}, born : 0..MaxNow]

\* What a caller may remember of what it was told.
Promise == [flash : BOOLEAN, born : 0..MaxNow]

ASSUME NoneIsNoRow == None \notin Memory \cup Promise

Idle == [at |-> "idle", new |-> None, id |-> None, todo |-> {}, touched |-> {}]

\* The strength of a memory has fallen below archive_threshold.
WeakWith(emotion, m) == now - m.born > Lifetime[emotion]

Weak(m) == WeakWith(m.emotion, m)

Forgotten(m) == ~m.flash /\ Weak(m)

\* What the join of the two tables shows.
Joined == {i \in Id : vec[i] # None /\ meta[i] # None}

Go(t, record) == task' = [task EXCEPT ![t] = record]

Commit == durable' = [vec |-> vec, meta |-> meta]

\* The id is returned: what was promised of it before still holds.
Tell(t) ==
  LET new == task[t].new
  IN  told' = [told EXCEPT ![task[t].id] =
                 IF @ = None THEN [flash |-> new.flash, born |-> new.born]
                 ELSE [flash |-> @.flash \/ new.flash,
                       born |-> IF new.born > @.born THEN new.born ELSE @.born]]

--------------------------------------------------------------------------------
(* add_semantic, add_episodic, add_flashbulb: VectorMemory._insert.           *)

\* An entry is made; its content is embedded in a thread.
Add(t, topic, flash) ==
  /\ task[t] = Idle
  /\ Go(t, [Idle EXCEPT
              !.at = IF dedup THEN "look" ELSE "insertVec",
              !.new = [topic |-> topic, flash |-> flash, born |-> now,
                       emotion |-> IF flash THEN 1 ELSE 0]])
  /\ UNCHANGED <<dedup, vec, meta, durable, spent, now, told, torn, raised, crashes>>

Higher(a, b) == IF a > b THEN a ELSE b

\* _find_near_duplicate: the nearest vector is near enough and has its metadata.  The
\* emotion_weight that the merge will write is the higher of the one read here and
\* the entry's.
FindDuplicate(t, i) ==
  /\ task[t].at = "look"
  /\ vec[i] = task[t].new.topic
  /\ meta[i] # None
  /\ Go(t, [task[t] EXCEPT !.at = "merge", !.id = i,
              !.new.emotion = Higher(task[t].new.emotion, meta[i].emotion)])
  /\ UNCHANGED <<dedup, vec, meta, durable, spent, now, told, torn, raised, crashes>>

\* No vector is near enough, or the nearest has lost its metadata.
FindNoDuplicate(t) ==
  /\ task[t].at = "look"
  /\ \/ \A i \in Id : vec[i] # task[t].new.topic
     \/ \E i \in Id : vec[i] = task[t].new.topic /\ meta[i] = None
  /\ Go(t, [task[t] EXCEPT !.at = "insertVec"])
  /\ UNCHANGED <<dedup, vec, meta, durable, spent, now, told, torn, raised, crashes>>

\* Mutation: the merge writes a whole row.
MergeUpsert(t) ==
  /\ task[t].at = "merge"
  /\ meta' = [meta EXCEPT ![task[t].id] = task[t].new]
  /\ Go(t, [task[t] EXCEPT !.at = "commitMerge"])
  /\ UNCHANGED <<dedup, vec, durable, spent, now, told, torn, raised, crashes>>

\* _merge_duplicate updates the row that was found, if it is still there, with what
\* was computed then; a strength of 1.0 cannot be bumped, and nothing else is taken
\* from the new entry.
Merge(t) ==
  /\ task[t].at = "merge"
  /\ LET i == task[t].id
         emotion == task[t].new.emotion
     IN  IF meta[i] = None
           THEN UNCHANGED <<meta, raised>>
           ELSE /\ meta' = [meta EXCEPT ![i].emotion = emotion]
                /\ raised' = IF /\ emotion > meta[i].emotion
                               /\ \E u \in Task : i \in task[u].todo
                              THEN raised \cup {i} ELSE raised
  /\ Go(t, [task[t] EXCEPT !.at = "commitMerge"])
  /\ UNCHANGED <<dedup, vec, durable, spent, now, told, torn, crashes>>

CommitMerge(t) ==
  /\ task[t].at = "commitMerge"
  /\ Commit
  /\ Tell(t)
  /\ Go(t, Idle)
  /\ UNCHANGED <<dedup, vec, meta, spent, now, torn, raised, crashes>>

\* Mutation: the rowid of a deleted row may be given out again.
InsertVecReused(t, i) ==
  /\ task[t].at = "insertVec"
  /\ vec[i] = None
  /\ vec' = [vec EXCEPT ![i] = task[t].new.topic]
  /\ Go(t, [task[t] EXCEPT !.at = "insertMeta", !.id = i, !.touched = {i}])
  /\ UNCHANGED <<dedup, meta, durable, spent, now, told, torn, raised, crashes>>

InsertVec(t, i) ==
  /\ task[t].at = "insertVec"
  /\ i \notin spent
  /\ spent' = spent \cup {i}
  /\ vec' = [vec EXCEPT ![i] = task[t].new.topic]
  /\ Go(t, [task[t] EXCEPT !.at = "insertMeta", !.id = i, !.touched = {i}])
  /\ UNCHANGED <<dedup, meta, durable, now, told, torn, raised, crashes>>

InsertMeta(t) ==
  /\ task[t].at = "insertMeta"
  /\ meta' = [meta EXCEPT ![task[t].id] = task[t].new]
  /\ Go(t, [task[t] EXCEPT !.at = "commitInsert"])
  /\ UNCHANGED <<dedup, vec, durable, spent, now, told, torn, raised, crashes>>

\* Mutation: the insert is not committed.
ReturnUncommitted(t) ==
  /\ task[t].at = "commitInsert"
  /\ Tell(t)
  /\ Go(t, Idle)
  /\ UNCHANGED <<dedup, vec, meta, durable, spent, now, torn, raised, crashes>>

CommitInsert(t) ==
  /\ task[t].at = "commitInsert"
  /\ Commit
  /\ Tell(t)
  /\ Go(t, Idle)
  /\ UNCHANGED <<dedup, vec, meta, spent, now, torn, raised, crashes>>

--------------------------------------------------------------------------------
(* search_semantic, search_episodic: VectorMemory._search.                    *)

\* Mutation: flashbulbs are not exempt.
SearchAll(t, found) ==
  /\ task[t] = Idle
  /\ found \subseteq Joined
  /\ Cardinality(found) <= FetchK
  /\ LET weak == {i \in found : Weak(meta[i])}
     IN  /\ weak # {}
         /\ Go(t, [Idle EXCEPT !.at = "deleteVec", !.todo = weak])
  /\ UNCHANGED <<dedup, vec, meta, durable, spent, now, told, torn, raised, crashes>>

\* The rows are fetched; some are too weak.  A search that finds none of those
\* changes nothing.
Search(t, found) ==
  /\ task[t] = Idle
  /\ found \subseteq Joined
  /\ Cardinality(found) <= FetchK
  /\ LET weak == {i \in found : Forgotten(meta[i])}
     IN  /\ weak # {}
         /\ Go(t, [Idle EXCEPT !.at = "deleteVec", !.todo = weak])
  /\ UNCHANGED <<dedup, vec, meta, durable, spent, now, told, torn, raised, crashes>>

DeleteVec(t, i) ==
  /\ task[t].at = "deleteVec"
  /\ i \in task[t].todo
  /\ vec' = [vec EXCEPT ![i] = None]
  /\ Go(t, [task[t] EXCEPT !.at = "deleteMeta", !.id = i, !.touched = @ \cup {i}])
  /\ UNCHANGED <<dedup, meta, durable, spent, now, told, torn, raised, crashes>>

DeleteMeta(t) ==
  /\ task[t].at = "deleteMeta"
  /\ meta' = [meta EXCEPT ![task[t].id] = None]
  /\ LET rest == task[t].todo \ {task[t].id}
     IN  Go(t, [task[t] EXCEPT !.at = IF rest = {} THEN "commitDelete" ELSE "deleteVec",
                               !.todo = rest, !.id = None])
  /\ UNCHANGED <<dedup, vec, durable, spent, now, told, torn, raised, crashes>>

CommitDelete(t) ==
  /\ task[t].at = "commitDelete"
  /\ Commit
  /\ Go(t, Idle)
  /\ UNCHANGED <<dedup, vec, meta, spent, now, told, torn, raised, crashes>>

--------------------------------------------------------------------------------

Age ==
  /\ now < MaxNow
  /\ now' = now + 1
  /\ UNCHANGED <<dedup, vec, meta, durable, spent, task, told, torn, raised,
                 crashes>>

\* The process is killed: the open transaction is rolled back.
Crash ==
  /\ crashes < MaxCrashes
  /\ crashes' = crashes + 1
  /\ vec' = durable.vec
  /\ meta' = durable.meta
  /\ torn' = torn \cup UNION {task[t].touched : t \in Task}
  /\ task' = [t \in Task |-> Idle]
  /\ raised' = {}
  /\ UNCHANGED <<dedup, durable, spent, now, told>>

Init ==
  /\ dedup \in Settings
  /\ vec = [i \in Id |-> None]
  /\ meta = [i \in Id |-> None]
  /\ durable = [vec |-> vec, meta |-> meta]
  /\ spent = {} /\ now = 0
  /\ task = [t \in Task |-> Idle]
  /\ told = [i \in Id |-> None] /\ torn = {} /\ raised = {}
  /\ crashes = 0

Insert(t) ==
  \/ \E topic \in Topic, flash \in BOOLEAN : Add(t, topic, flash)
  \/ \E i \in Id : FindDuplicate(t, i) \/ InsertVec(t, i)
  \/ FindNoDuplicate(t)
  \/ Merge(t)
  \/ CommitMerge(t)
  \/ InsertMeta(t)
  \/ CommitInsert(t)

Recall(t) ==
  \/ \E found \in SUBSET Id : Search(t, found)
  \/ \E i \in Id : DeleteVec(t, i)
  \/ DeleteMeta(t)
  \/ CommitDelete(t)

Next ==
  \/ \E t \in Task : Insert(t) \/ Recall(t)
  \/ Age
  \/ Crash

Spec == Init /\ [][Next]_vars

--------------------------------------------------------------------------------
(* Properties.                                                                *)

Steps == {"idle", "look", "merge", "commitMerge", "insertVec", "insertMeta",
          "commitInsert", "deleteVec", "deleteMeta", "commitDelete"}

TaskRow == [at : Steps, new : Memory \cup {None}, id : Id \cup {None},
            todo : SUBSET Id, touched : SUBSET Id]

\* Every variable has its type; a task between two statements knows its row.
TypeOK ==
  /\ dedup \in Settings
  /\ vec \in [Id -> Topic \cup {None}]
  /\ meta \in [Id -> Memory \cup {None}]
  /\ durable.vec \in [Id -> Topic \cup {None}]
  /\ durable.meta \in [Id -> Memory \cup {None}]
  /\ spent \subseteq Id /\ torn \subseteq spent /\ raised \subseteq Id
  /\ now \in 0..MaxNow /\ crashes \in 0..MaxCrashes
  /\ task \in [Task -> TaskRow]
  /\ \A t \in Task :
       /\ task[t].touched \subseteq spent
       /\ task[t].at \in {"merge", "commitMerge", "insertMeta", "commitInsert"}
            => task[t].id # None
       /\ task[t].at \in {"look", "merge", "commitMerge", "insertVec", "insertMeta",
                          "commitInsert"} => task[t].new # None
       /\ task[t].at = "deleteMeta" => task[t].id \in task[t].todo
  /\ told \in [Id -> Promise \cup {None}]

HalfOf(tables) ==
  {i \in Id : (tables.vec[i] = None) # (tables.meta[i] = None)}

\* A memory is in both tables or in neither, but for the rows tasks are working on
\* and those they were working on when the process was killed: however inserts,
\* merges and deletes interleave, they leave no vector without its metadata and no
\* metadata without its vector behind.
Paired ==
  LET working == UNION {task[t].touched : t \in Task}
  IN  HalfOf([vec |-> vec, meta |-> meta]) \cup HalfOf(durable) \subseteq working \cup torn

\* A search works from rows it selected several awaits ago.  With deduplication or
\* without, it never deletes a flashbulb, nor a memory younger than an ordinary one
\* may grow; and what it deletes is too weak at the moment it is deleted, unless a
\* merge that raised the row's emotion_weight overtook it.
OnlyForgottenIsDeleted ==
  [][crashes' = crashes =>
       \A i \in Id : meta[i] # None /\ meta'[i] = None =>
         /\ ~meta[i].flash /\ WeakWith(0, meta[i])
         /\ i \in raised \/ Weak(meta[i])]_vars

\* Without deduplication a memory add_* returned an id for is stored for good, and
\* found, until it is too weak: it survives the searches of other tasks, their commits
\* and a crash.
StoredIsKept ==
  \A i \in Id :
    ~dedup /\ told[i] # None /\ (told[i].flash \/ now - told[i].born <= Lifetime[0])
      => \A tables \in {durable, [vec |-> vec, meta |-> meta]} :
           tables.vec[i] # None /\ tables.meta[i] # None

\* A flashbulb memory is kept for ever.
FlashbulbIsKept ==
  \A i \in Id : told[i] # None /\ told[i].flash => meta[i] # None

\* A fact that was just stored again is kept for at least as long as a new one.
RestatedIsKept ==
  \A i \in Id :
    told[i] # None /\ ~told[i].flash /\ now - told[i].born <= Lifetime[0]
      => meta[i] # None

\* What is stored again is worth at least what it was: the emotion_weight takes the
\* maximum.
MergeKeepsTheHigher ==
  [][crashes' = crashes =>
       \A i \in Id : meta[i] # None /\ meta'[i] # None =>
         meta'[i].emotion >= meta[i].emotion]_vars

\* What a search deletes is too weak at the moment it is deleted.
NothingRaisedIsDeleted ==
  [][crashes' = crashes =>
       \A i \in Id : meta[i] # None /\ meta'[i] = None => Forgotten(meta[i])]_vars

\* Once no task is at work, no two stored memories are near-duplicates.
NoNearDuplicates ==
  (\A t \in Task : task[t] = Idle)
    => \A i, j \in Joined : i # j => vec[i] # vec[j]

\* A stored memory is archived, never erased.
NothingIsErased ==
  [][\A i \in Id : durable.meta[i] # None => durable'.meta[i] # None]_vars
================================================================================
