--------------------------- MODULE ChatAdaptersProofs ---------------------------
(******************************************************************************)
(* Part 1: proofs about Chat, for any messages, any limits of the history and *)
(* of the trim, any quiet hours and any number of failures and kills.         *)
(*                                                                            *)
(* Part 2: proofs about Adapters and VoiceReceiver, for any users, chats and  *)
(* receivers, any bound of the routing cache, every platform and any number   *)
(* of messages, commands, packets and cuts.                                   *)
(******************************************************************************)
EXTENDS Chat, Adapters, SequenceTheorems, FiniteSetTheorems, TLAPS

--------------------------------------------------------------------------------
(* Part 1: Chat.                                                              *)

Has(r, m, role) == \E i \in DOMAIN r : r[i].msg = m /\ r[i].role = role

\* r is the end of l, and no shorter than a trim leaves it.
Suffix(r, l) ==
  /\ Len(r) <= Len(l)
  /\ Len(r) = Len(l) \/ Keep <= Len(r)
  /\ \A i \in 1..Len(r) : r[i] = l[Len(l) - Len(r) + i]

\* A prompt, a trim and a kill only ever see the end of what was said.
SuffixInv == Suffix(rows, log) /\ Suffix(durable.rows, durable.log)

\* The queue holds each message that waits once, and no other.
QueueInv ==
  /\ \A i \in DOMAIN queue : stage[queue[i]] = "queued"
  /\ \A i, j \in DOMAIN queue : queue[i] = queue[j] => i = j

\* Only an answered message has a task, and only its task stores anything of it.
RepliedInv ==
  /\ \A m \in Message : task[m] # "none" => stage[m] = "replied"
  /\ FailedExchangeIsNotSaved
  /\ \A i \in DOMAIN durable.log : stage[durable.log[i].msg] = "replied"

\* A task knows what it has inserted.
TaskInv ==
  \A m \in Message :
    /\ task[m] \in {"commitQuestion", "answer"} => Has(log, m, "user")
    /\ task[m] = "commitAnswer" => Has(log, m, "assistant")

\* What was stored is in the log, and was at the last commit.
StoredInv ==
  \A m \in stored : Has(log, m, "assistant") /\ Has(durable.log, m, "assistant")

Answered(r) ==
  \A m \in Message :
    \A i \in Index(r, m, "assistant") : \E j \in Index(r, m, "user") : j < i

IInv ==
  TypeOK /\ QueueInv /\ SuffixInv /\ RepliedInv /\ TaskInv /\ StoredInv
  /\ Answered(log) /\ Answered(durable.log)

--------------------------------------------------------------------------------

LEMMA Constants ==
  /\ Message \subseteq Nat /\ None \notin Message
  /\ History \in Nat /\ Keep \in Nat /\ History <= Keep /\ MaxNow \in Nat /\ MaxFaults \in Nat
BY ConstantsOK DEF ConstantsOK

\* What LastN returns.
LEMMA LastRows ==
  ASSUME NEW S, NEW s \in Seq(S), NEW n \in Nat
  PROVE  /\ LastN(s, n) \in Seq(S)
         /\ Len(LastN(s, n)) = (IF Len(s) <= n THEN Len(s) ELSE n)
         /\ \A i \in 1..Len(LastN(s, n)) : LastN(s, n)[i] = s[Len(s) - Len(LastN(s, n)) + i]
<1>1. CASE Len(s) <= n
  BY <1>1 DEF LastN
<1>2. CASE ~(Len(s) <= n)
  <2>1. LastN(s, n) = SubSeq(s, Len(s) - n + 1, Len(s))
    BY <1>2 DEF LastN
  <2>2. Len(s) \in Nat /\ Len(s) - n + 1 \in 1..Len(s) + 1 /\ Len(s) - (Len(s) - n + 1) + 1 = n
    BY <1>2
  <2> QED
    BY <1>2, <2>1, <2>2
<1> QED
  BY <1>1, <1>2

\* What Append does.
LEMMA Appended ==
  ASSUME NEW S, NEW s \in Seq(S), NEW e \in S
  PROVE  /\ Append(s, e) \in Seq(S) /\ Len(Append(s, e)) = Len(s) + 1
         /\ Append(s, e)[Len(s) + 1] = e
         /\ \A i \in 1..Len(s) : Append(s, e)[i] = s[i]
OBVIOUS

\* The rows of a conversation are of messages.
LEMMA RowsTyped ==
  ASSUME NEW s \in Seq(Row)
  PROVE  \A i \in DOMAIN s : s[i] \in Row /\ s[i].msg \in Message
<1>1. \A i \in DOMAIN s : s[i] \in Row
  OBVIOUS
<1>2. \A e \in Row : e.msg \in Message
  BY DEF Row
<1> QED
  BY <1>1, <1>2

LEMMA DurableTyped ==
  TypeOK => durable.rows \in Seq(Row) /\ durable.log \in Seq(Row)
BY DEF TypeOK

\* The same row at the end of both keeps the one the end of the other.
LEMMA SuffixAppend ==
  ASSUME NEW r \in Seq(Row), NEW l \in Seq(Row), NEW e \in Row, Suffix(r, l)
  PROVE  Suffix(Append(r, e), Append(l, e))
<1> DEFINE ra == Append(r, e)  la == Append(l, e)
<1>1. /\ Len(ra) = Len(r) + 1 /\ Len(la) = Len(l) + 1
      /\ ra[Len(r) + 1] = e /\ la[Len(l) + 1] = e
      /\ \A i \in 1..Len(r) : ra[i] = r[i]
      /\ \A i \in 1..Len(l) : la[i] = l[i]
  BY Appended
<1>2. Len(r) \in Nat /\ Len(l) \in Nat /\ Len(r) <= Len(l)
  BY DEF Suffix
<1> HIDE DEF ra, la
<1>3. ASSUME NEW i \in 1..Len(ra) PROVE ra[i] = la[Len(la) - Len(ra) + i]
  <2>1. CASE i = Len(r) + 1
    BY <1>1, <1>2, <2>1
  <2>2. CASE i \in 1..Len(r)
    <3>1. Len(l) - Len(r) + i \in 1..Len(l) /\ Len(la) - Len(ra) + i = Len(l) - Len(r) + i
      BY <1>1, <1>2, <2>2
    <3> QED
      BY <1>1, <2>2, <3>1 DEF Suffix
  <2> QED
    BY <1>1, <1>2, <2>1, <2>2
<1>4. Len(ra) = Len(la) \/ Keep <= Len(ra)
  BY <1>1, <1>2, Constants DEF Suffix
<1>5. Suffix(ra, la)
  BY <1>1, <1>2, <1>3, <1>4 DEF Suffix
<1> QED
  BY <1>5 DEF ra, la

\* A trim leaves an end of what was said.
LEMMA SuffixTrim ==
  ASSUME NEW r \in Seq(Row), NEW l \in Seq(Row), Suffix(r, l)
  PROVE  Suffix(LastN(r, Keep), l)
<1> DEFINE t == LastN(r, Keep)
<1>1. /\ Len(t) = (IF Len(r) <= Keep THEN Len(r) ELSE Keep)
      /\ \A i \in 1..Len(t) : t[i] = r[Len(r) - Len(t) + i]
  BY LastRows, Constants
<1>2. Len(r) \in Nat /\ Len(l) \in Nat /\ Len(r) <= Len(l) /\ Keep \in Nat
  BY Constants DEF Suffix
<1>3. /\ Len(t) \in Nat /\ Len(t) <= Len(r) /\ Len(t) <= Len(l)
      /\ Len(t) = Len(l) \/ Keep <= Len(t)
  BY <1>1, <1>2 DEF Suffix
<1> HIDE DEF t
<1>4. ASSUME NEW i \in 1..Len(t) PROVE t[i] = l[Len(l) - Len(t) + i]
  <2>1. /\ Len(r) - Len(t) + i \in 1..Len(r)
        /\ Len(l) - Len(r) + (Len(r) - Len(t) + i) = Len(l) - Len(t) + i
    BY <1>2, <1>3
  <2>2. t[i] = r[Len(r) - Len(t) + i]
    BY <1>1
  <2> QED
    BY <2>1, <2>2 DEF Suffix
<1>5. Suffix(t, l)
  BY <1>3, <1>4 DEF Suffix
<1> QED
  BY <1>5 DEF t

\* The last rows of an end of what was said are the last rows of what was said.
LEMMA SuffixLast ==
  ASSUME NEW r \in Seq(Row), NEW l \in Seq(Row), Suffix(r, l)
  PROVE  LastN(r, History) = LastN(l, History)
<1> DEFINE a == LastN(r, History)  b == LastN(l, History)
<1>1. /\ a \in Seq(Row) /\ b \in Seq(Row)
      /\ Len(a) = (IF Len(r) <= History THEN Len(r) ELSE History)
      /\ Len(b) = (IF Len(l) <= History THEN Len(l) ELSE History)
      /\ \A i \in 1..Len(a) : a[i] = r[Len(r) - Len(a) + i]
      /\ \A i \in 1..Len(b) : b[i] = l[Len(l) - Len(b) + i]
  BY LastRows, Constants
<1>2. /\ Len(r) \in Nat /\ Len(l) \in Nat /\ Len(r) <= Len(l)
      /\ History \in Nat /\ Keep \in Nat /\ History <= Keep
      /\ Len(r) = Len(l) \/ Keep <= Len(r)
  BY Constants DEF Suffix
<1> HIDE DEF a, b
<1>3. Len(a) = Len(b) /\ Len(a) \in Nat /\ Len(a) <= Len(r)
  BY <1>1, <1>2
<1>4. ASSUME NEW i \in 1..Len(a) PROVE a[i] = b[i]
  <2>1. /\ Len(r) - Len(a) + i \in 1..Len(r)
        /\ Len(l) - Len(r) + (Len(r) - Len(a) + i) = Len(l) - Len(b) + i
    BY <1>2, <1>3
  <2>2. a[i] = r[Len(r) - Len(a) + i] /\ b[i] = l[Len(l) - Len(b) + i]
    BY <1>1, <1>3
  <2> QED
    BY <2>1, <2>2 DEF Suffix
<1>5. a = b
  <2>1. a \in Seq(Row) /\ b \in Seq(Row)
    BY <1>1
  <2> QED
    BY <1>3, <1>4, <2>1, SeqEqual
<1> QED
  BY <1>5 DEF a, b

--------------------------------------------------------------------------------
(* Types.                                                                     *)

Asleep == ReadToday \/ WriteDiary \/ DiaryFails \/ Trim \/ CommitTrim

LEMMA TypeStep == TypeOK /\ [Next]_vars => TypeOK'
<1> SUFFICES ASSUME TypeOK, [Next]_vars PROVE TypeOK'
  OBVIOUS
<1> USE Constants DEF TypeOK, engine, table, sleeping, Commit
<1>0. [rows |-> rows, log |-> log] \in [rows : Seq(Row), log : Seq(Row)]
  OBVIOUS
<1>1. ASSUME NEW m \in Message, Arrive(m) PROVE TypeOK'
  BY <1>1 DEF Arrive
<1>2. CASE Resolve
  <2>1. Head(queue) \in Message /\ Tail(queue) \in Seq(Message)
    BY <1>2 DEF Resolve
  <2> QED
    BY <1>0, <1>2, <2>1 DEF Resolve
<1>3. ASSUME NEW m \in Message, ReadHistory(m) PROVE TypeOK'
  <2>1. LastN(rows, History) \in Seq(Row) /\ Len(LastN(rows, History)) <= History
    BY LastRows
  <2>2. seen' \in [Message -> Seq(Row)] /\ \A n \in Message : Len(seen'[n]) <= History
    BY <1>3, <2>1 DEF ReadHistory
  <2> QED
    BY <1>3, <2>2 DEF ReadHistory
<1>4. ASSUME NEW m \in Message, Generate(m) \/ GenerateFails(m) \/ Reply(m) PROVE TypeOK'
  BY <1>4 DEF Generate, GenerateFails, Reply
<1>5. ASSUME NEW m \in Message, AddQuestion(m) \/ AddAnswer(m) PROVE TypeOK'
  <2>1. /\ [msg |-> m, role |-> "user", at |-> now] \in Row
        /\ [msg |-> m, role |-> "assistant", at |-> now] \in Row
    BY DEF Row
  <2>2. \A e \in Row : Append(rows, e) \in Seq(Row) /\ Append(log, e) \in Seq(Row)
    BY Appended
  <2>3. rows' \in Seq(Row) /\ log' \in Seq(Row)
    BY <1>5, <2>1, <2>2 DEF AddQuestion, AddAnswer, Insert
  <2> QED
    BY <1>5, <2>3 DEF AddQuestion, AddAnswer
<1>6. ASSUME NEW m \in Message, CommitQuestion(m) \/ CommitAnswer(m) \/ Extract(m) PROVE TypeOK'
  BY <1>0, <1>6 DEF CommitQuestion, CommitAnswer, Extract
<1>7. ASSUME NEW m \in Message, TaskFails(m) PROVE TypeOK'
  BY <1>7 DEF TaskFails
<1>8. CASE FallAsleep \/ TickAwake \/ Clock
  <2>1. CASE FallAsleep
    BY <2>1 DEF FallAsleep
  <2>2. CASE TickAwake
    BY <2>2 DEF TickAwake
  <2>3. CASE Clock
    BY <2>3 DEF Clock
  <2> QED
    BY <1>8, <2>1, <2>2, <2>3
<1>9. CASE Asleep
  <2>1. CASE ReadToday
    <3>1. page' \subseteq Message
      BY <2>1, RowsTyped DEF ReadToday
    <3> QED
      BY <2>1, <3>1 DEF ReadToday
  <2>2. CASE WriteDiary
    BY <1>0, <2>2 DEF WriteDiary
  <2>4. CASE DiaryFails
    BY <2>4 DEF DiaryFails
  <2>5. CASE CommitTrim
    BY <1>0, <2>5 DEF CommitTrim
  <2>3. CASE Trim
    <3>1. LastN(rows, Keep) \in Seq(Row)
      BY LastRows
    <3> QED
      BY <2>3, <3>1 DEF Trim
  <2> QED
    BY <1>9, <2>1, <2>2, <2>3, <2>4, <2>5 DEF Asleep
<1>10. CASE Crash
  <2>1. rows' \in Seq(Row) /\ log' \in Seq(Row) /\ durable' = durable
    BY <1>10, DurableTyped DEF Crash
  <2>2. /\ queue' = <<>> /\ faults' = faults + 1 /\ faults < MaxFaults
        /\ stage' = [m \in Message |->
                      IF stage[m] = "queued" \/ m \in Handling THEN "lost" ELSE stage[m]]
        /\ task' = [m \in Message |-> IF task[m] = "none" THEN "none" ELSE "done"]
        /\ sleep' = "awake" /\ sleepDone' = FALSE /\ page' = {}
        /\ UNCHANGED <<seen, reviewed, due, now, stored>>
    BY <1>10 DEF Crash
  <2>3. /\ stage' \in [Message -> {"coming", "queued", "resolved", "prompting", "answered",
                                   "replied", "failed", "lost"}]
        /\ task' \in [Message -> {"none", "question", "commitQuestion", "answer",
                                  "commitAnswer", "extract", "done"}]
    BY <2>2
  <2>4. queue' \in Seq(Message) /\ page' \subseteq Message /\ faults' \in 0..MaxFaults
    BY <2>2
  <2> QED
    BY <2>1, <2>2, <2>3, <2>4
<1>11. CASE UNCHANGED vars
  BY <1>11 DEF vars
<1> QED
  BY <1>1, <1>2, <1>3, <1>4, <1>5, <1>6, <1>7, <1>8, <1>9, <1>10, <1>11
     DEF Next, PostProcess, Engine, SleepPhase, Asleep

--------------------------------------------------------------------------------
(* The queue.                                                                 *)

LEMMA QueueStep == TypeOK /\ QueueInv /\ [Next]_vars => QueueInv'
<1> SUFFICES ASSUME TypeOK, QueueInv, [Next]_vars PROVE QueueInv'
  OBVIOUS
<1>0. /\ queue \in Seq(Message) /\ Len(queue) \in Nat /\ DOMAIN queue = 1..Len(queue)
      /\ \A i \in DOMAIN queue : queue[i] \in Message
      /\ stage \in [Message -> {"coming", "queued", "resolved", "prompting", "answered",
                                "replied", "failed", "lost"}]
  BY DEF TypeOK
<1>1. ASSUME NEW m \in Message, Arrive(m) PROVE QueueInv'
  <2>1. /\ stage[m] = "coming" /\ stage' = [stage EXCEPT ![m] = "queued"]
        /\ queue' = Append(queue, m)
    BY <1>1 DEF Arrive
  <2>2. /\ DOMAIN queue' = 1..(Len(queue) + 1) /\ queue'[Len(queue) + 1] = m
        /\ \A i \in 1..Len(queue) : queue'[i] = queue[i]
    BY <1>0, <2>1
  <2>3. \A i \in 1..Len(queue) : queue[i] # m
    BY <1>0, <2>1 DEF QueueInv
  <2>4. \A i \in DOMAIN queue' : stage'[queue'[i]] = "queued"
    BY <1>0, <2>1, <2>2 DEF QueueInv
  <2>5. \A i, j \in DOMAIN queue' : queue'[i] = queue'[j] => i = j
    BY <1>0, <2>2, <2>3 DEF QueueInv
  <2> QED
    BY <2>4, <2>5 DEF QueueInv
<1>2. CASE Resolve
  <2>1. /\ queue # <<>> /\ queue' = Tail(queue) /\ Head(queue) = queue[1]
        /\ stage' = [stage EXCEPT ![queue[1]] = "resolved"]
    BY <1>0, <1>2 DEF Resolve
  <2>2. /\ 1 \in DOMAIN queue /\ DOMAIN queue' = 1..(Len(queue) - 1)
        /\ \A i \in DOMAIN queue' : i + 1 \in DOMAIN queue /\ queue'[i] = queue[i + 1] /\ i + 1 # 1
    BY <1>0, <2>1
  <2>3. \A i \in DOMAIN queue' : stage'[queue'[i]] = "queued"
    BY <1>0, <2>1, <2>2 DEF QueueInv
  <2>4. \A i, j \in DOMAIN queue' : queue'[i] = queue'[j] => i = j
    BY <1>0, <2>2 DEF QueueInv
  <2> QED
    BY <2>3, <2>4 DEF QueueInv
<1>3. ASSUME NEW m \in Message, ReadHistory(m) \/ Generate(m) \/ GenerateFails(m) \/ Reply(m)
      PROVE  QueueInv'
  <2>1. /\ queue' = queue /\ stage[m] # "queued"
        /\ \A n \in Message \ {m} : stage'[n] = stage[n]
    BY <1>0, <1>3 DEF ReadHistory, Generate, GenerateFails, Reply
  <2> QED
    BY <1>0, <2>1 DEF QueueInv
<1>4. ASSUME NEW m \in Message, PostProcess(m) \/ TaskFails(m) PROVE QueueInv'
  BY <1>4 DEF PostProcess, AddQuestion, CommitQuestion, AddAnswer, CommitAnswer, Extract, TaskFails,
     engine, QueueInv
<1>5. CASE SleepPhase \/ TickAwake \/ DiaryFails \/ Clock \/ UNCHANGED vars
  BY <1>5 DEF SleepPhase, FallAsleep, ReadToday, WriteDiary, Trim, CommitTrim, TickAwake,
     DiaryFails, Clock, vars, engine, QueueInv
<1>6. CASE Crash
  BY <1>6 DEF Crash, QueueInv
<1> QED
  BY <1>1, <1>2, <1>3, <1>4, <1>5, <1>6 DEF Next, Engine

--------------------------------------------------------------------------------
(* The conversation.                                                          *)

Core ==
  QueueInv /\ SuffixInv /\ RepliedInv /\ TaskInv /\ StoredInv /\ Answered(log) /\ Answered(durable.log)

\* A step that stores nothing, with or without a commit.
LEMMA StoresNothing ==
  ASSUME TypeOK, Core, TypeOK', QueueInv', UNCHANGED <<rows, log>>,
         durable' = durable \/ Commit,
         \A m \in Message : stage[m] = "replied" => stage'[m] = "replied",
         \A m \in Message : task'[m] # "none" => task[m] # "none" \/ stage'[m] = "replied",
         \A m \in Message : task'[m] \in {"commitQuestion", "answer"}
                              => task[m] \in {"commitQuestion", "answer"},
         \A m \in Message : task'[m] = "commitAnswer" => task[m] = "commitAnswer",
         \/ stored' = stored
         \/ Commit /\ \E m \in Message : task[m] = "commitAnswer" /\ stored' = stored \cup {m}
  PROVE  Core'
<1> USE DEF Core
<1>1. durable' = durable \/ (durable'.rows = rows /\ durable'.log = log)
  BY DEF Commit
<1>2. \A r \in {log, durable.log} : \A i \in DOMAIN r : r[i].msg \in Message
  <2>1. log \in Seq(Row) /\ durable.log \in Seq(Row)
    BY DurableTyped DEF TypeOK
  <2> QED
    BY <2>1, RowsTyped
<1>3. SuffixInv'
  BY <1>1 DEF SuffixInv
<1>4. RepliedInv'
  BY <1>1, <1>2 DEF RepliedInv, FailedExchangeIsNotSaved
<1>5. TaskInv'
  BY DEF TaskInv
<1>6. StoredInv'
  <2>1. CASE stored' = stored
    BY <1>1, <2>1 DEF StoredInv
  <2>2. ASSUME Commit, NEW m \in Message, task[m] = "commitAnswer", stored' = stored \cup {m}
        PROVE  StoredInv'
    <3>1. Has(log, m, "assistant") /\ durable'.log = log
      BY <2>2 DEF TaskInv, Commit
    <3> QED
      BY <2>2, <3>1 DEF StoredInv
  <2> QED
    BY <2>1, <2>2
<1>7. Answered(log)' /\ Answered(durable.log)'
  BY <1>1 DEF Answered
<1> QED
  BY <1>3, <1>4, <1>5, <1>6, <1>7

\* A task inserts a row of its message.
LEMMA Inserted ==
  ASSUME TypeOK, Core, TypeOK', QueueInv', NEW m \in Message, NEW role \in {"user", "assistant"},
         Insert(m, role), task[m] # "none", UNCHANGED <<stage, durable, stored>>,
         role = "user" => task' = [task EXCEPT ![m] = "commitQuestion"],
         role = "assistant" => task[m] = "answer" /\ task' = [task EXCEPT ![m] = "commitAnswer"]
  PROVE  Core'
<1> DEFINE row == [msg |-> m, role |-> role, at |-> now]
<1> USE DEF Core
<1>1. row \in Row /\ row.msg = m /\ row.role = role
  BY DEF TypeOK, Row
<1>2. rows' = Append(rows, row) /\ log' = Append(log, row)
  BY DEF Insert
<1> HIDE DEF row
<1>3. /\ Len(log) \in Nat /\ Len(log') = Len(log) + 1 /\ DOMAIN log = 1..Len(log)
      /\ DOMAIN log' = 1..(Len(log) + 1) /\ log'[Len(log) + 1] = row
      /\ \A i \in 1..Len(log) : log'[i] = log[i]
  BY <1>1, <1>2, Appended DEF TypeOK
<1>4. SuffixInv'
  BY <1>1, <1>2, SuffixAppend DEF SuffixInv, TypeOK
<1>5. \A n \in Message : \A r \in {"user", "assistant"} : Has(log, n, r) => Has(log', n, r)
  BY <1>3 DEF Has
<1>6. Has(log', m, role)
  BY <1>1, <1>3 DEF Has
<1>7. stage[m] = "replied" /\ \A n \in Message : task'[n] # "none" => task[n] # "none"
  BY DEF RepliedInv, TypeOK
<1>8. RepliedInv'
  BY <1>1, <1>3, <1>7 DEF RepliedInv, FailedExchangeIsNotSaved
<1>9. TaskInv'
  BY <1>5, <1>6 DEF TaskInv, TypeOK
<1>10. StoredInv'
  BY <1>5 DEF StoredInv, TypeOK
<1>11. Answered(log)' /\ Answered(durable.log)'
  <2>1. ASSUME NEW n \in Message, NEW i \in Index(log', n, "assistant")
        PROVE  \E j \in Index(log', n, "user") : j < i
    <3>1. CASE i \in 1..Len(log)
      <4>1. i \in Index(log, n, "assistant")
        BY <1>3, <2>1, <3>1 DEF Index
      <4>2. PICK j \in Index(log, n, "user") : j < i
        BY <4>1 DEF Answered
      <4> QED
        BY <1>3, <4>2 DEF Index
    <3>2. CASE i = Len(log) + 1
      <4>1. n = m /\ role = "assistant"
        BY <1>1, <1>3, <2>1, <3>2 DEF Index
      <4>2. PICK j \in DOMAIN log : log[j].msg = n /\ log[j].role = "user"
        BY <4>1 DEF TaskInv, Has
      <4>3. j \in Index(log', n, "user") /\ j < i
        BY <1>3, <3>2, <4>2 DEF Index
      <4> QED
        BY <4>3
    <3> QED
      BY <1>3, <2>1, <3>1, <3>2 DEF Index
  <2> QED
    BY <2>1 DEF Answered
<1> QED
  BY <1>4, <1>8, <1>9, <1>10, <1>11

LEMMA Trimmed ==
  ASSUME TypeOK, Core, QueueInv', Trim
  PROVE  Core'
<1>1. rows' = LastN(rows, Keep) /\ UNCHANGED <<log, durable, stage, task, stored>>
  BY DEF Trim, engine
<1>2. SuffixInv'
  BY <1>1, SuffixTrim DEF SuffixInv, TypeOK, Core
<1> QED
  BY <1>1, <1>2 DEF Core, RepliedInv, FailedExchangeIsNotSaved, TaskInv, StoredInv, Answered

LEMMA Crashed ==
  ASSUME TypeOK, Core, QueueInv', Crash
  PROVE  Core'
<1>1. /\ rows' = durable.rows /\ log' = durable.log /\ UNCHANGED <<durable, stored>>
      /\ \A m \in Message : stage[m] = "replied" => stage'[m] = "replied"
      /\ \A m \in Message : task'[m] \in {"none", "done"} /\ (task'[m] # "none" => task[m] # "none")
  BY DEF Crash, Handling, TypeOK
<1>2. \A i \in DOMAIN durable.log : durable.log[i].msg \in Message
  BY DurableTyped, RowsTyped
<1> QED
  BY <1>1, <1>2 DEF Core, SuffixInv, RepliedInv, FailedExchangeIsNotSaved, TaskInv, StoredInv,
     Answered

LEMMA CoreStep == TypeOK /\ Core /\ [Next]_vars => Core'
<1> SUFFICES ASSUME TypeOK, Core, [Next]_vars PROVE Core'
  OBVIOUS
<1>0. TypeOK' /\ QueueInv'
  BY TypeStep, QueueStep DEF Core
<1>1. ASSUME NEW m \in Message,
             \/ Arrive(m) \/ ReadHistory(m) \/ Generate(m) \/ GenerateFails(m) \/ Reply(m)
             \/ CommitQuestion(m) \/ CommitAnswer(m) \/ Extract(m) \/ TaskFails(m)
      PROVE  Core'
  <2>1. /\ UNCHANGED <<rows, log>> /\ (durable' = durable \/ Commit)
        /\ \A n \in Message : stage[n] = "replied" => stage'[n] = "replied"
        /\ \A n \in Message : task'[n] # "none" => task[n] # "none" \/ stage'[n] = "replied"
    BY <1>1 DEF Arrive, ReadHistory, Generate, GenerateFails, Reply, CommitQuestion, CommitAnswer,
       Extract, TaskFails, engine, table, TypeOK
  <2>2. /\ \A n \in Message : task'[n] \in {"commitQuestion", "answer"}
                                => task[n] \in {"commitQuestion", "answer"}
        /\ \A n \in Message : task'[n] = "commitAnswer" => task[n] = "commitAnswer"
        /\ \/ stored' = stored
           \/ Commit /\ \E n \in Message : task[n] = "commitAnswer" /\ stored' = stored \cup {n}
    BY <1>1 DEF Arrive, ReadHistory, Generate, GenerateFails, Reply, CommitQuestion, CommitAnswer,
       Extract, TaskFails, engine, table, TypeOK
  <2> QED
    BY <1>0, <2>1, <2>2, StoresNothing
<1>2. CASE \/ Resolve \/ FallAsleep \/ TickAwake \/ ReadToday \/ WriteDiary \/ DiaryFails
           \/ CommitTrim \/ Clock \/ UNCHANGED vars
  <2>1. /\ UNCHANGED <<rows, log, task, stored>> /\ (durable' = durable \/ Commit)
        /\ \A n \in Message : stage[n] = "replied" => stage'[n] = "replied"
    <3>1. CASE Resolve
      <4>1. Handling = {} /\ stage' = [stage EXCEPT ![Head(queue)] = "resolved"]
            /\ Head(queue) \in Message
        BY <3>1 DEF Resolve, TypeOK
      <4>2. Head(queue) = queue[1] /\ 1 \in DOMAIN queue
        BY <3>1 DEF Resolve, TypeOK
      <4>3. stage[Head(queue)] # "replied"
        BY <4>2 DEF Core, QueueInv
      <4>4. ASSUME NEW n \in Message, stage[n] = "replied" PROVE stage'[n] = "replied"
        BY <4>1, <4>3, <4>4 DEF TypeOK
      <4> QED
        BY <3>1, <4>4 DEF Resolve
    <3> QED
      BY <1>2, <3>1 DEF FallAsleep, TickAwake, ReadToday, WriteDiary, DiaryFails, CommitTrim,
         Clock, engine, table, vars
  <2> QED
    BY <1>0, <2>1, StoresNothing
<1>3. ASSUME NEW m \in Message, AddQuestion(m) \/ AddAnswer(m) PROVE Core'
  <2>1. CASE AddQuestion(m)
    BY <1>0, <2>1, Inserted DEF AddQuestion, engine
  <2>2. CASE AddAnswer(m)
    BY <1>0, <2>2, Inserted DEF AddAnswer, engine
  <2> QED
    BY <1>3, <2>1, <2>2
<1> QED
  BY <1>0, <1>1, <1>2, <1>3, Trimmed, Crashed DEF Next, PostProcess, Engine, SleepPhase

--------------------------------------------------------------------------------

\* The rows, the tasks and the last commit agree at every step.
THEOREM InductiveInvariant == Spec => []IInv
<1>1. Init => IInv
  <2> SUFFICES ASSUME Init PROVE IInv
    OBVIOUS
  <2>1. TypeOK
    <3>1. <<>> \in Seq(Message) /\ <<>> \in Seq(Row) /\ Len(<<>>) <= History
      BY Constants
    <3> QED
      <4>1. queue \in Seq(Message) /\ rows \in Seq(Row) /\ log \in Seq(Row)
        BY <3>1 DEF Init
      <4>2. durable \in [rows : Seq(Row), log : Seq(Row)]
        BY <3>1 DEF Init
      <4>3. seen \in [Message -> Seq(Row)] /\ \A m \in Message : Len(seen[m]) <= History
        BY <3>1 DEF Init
      <4>4. now \in 0..MaxNow /\ faults \in 0..MaxFaults
        BY Constants DEF Init
      <4> QED
        BY <4>1, <4>2, <4>3, <4>4 DEF Init, TypeOK
  <2>2. /\ rows = <<>> /\ log = <<>> /\ durable.rows = <<>> /\ durable.log = <<>>
        /\ task = [m \in Message |-> "none"] /\ stored = {} /\ queue = <<>>
    BY DEF Init
  <2>3. SuffixInv
    BY <2>2, Constants DEF SuffixInv, Suffix
  <2> QED
    BY <2>1, <2>2, <2>3 DEF IInv, QueueInv, RepliedInv, FailedExchangeIsNotSaved, TaskInv,
       StoredInv, Answered, Index
<1>2. IInv /\ [Next]_vars => IInv'
  BY TypeStep, CoreStep DEF IInv, Core
<1> QED
  BY <1>1, <1>2, PTL DEF Spec

\* Every variable keeps its type, and no prompt shows more than the limit.
THEOREM TypeCorrect == Spec => []TypeOK
<1>1. IInv => TypeOK
  BY DEF IInv
<1> QED
  BY <1>1, InductiveInvariant, PTL

\* Whatever tasks interleave, fail or are killed, neither a later prompt nor the diary shows
\* an exchange whose answer was not sent.
THEOREM FailedNeverSaved == Spec => []FailedExchangeIsNotSaved
<1>1. IInv => FailedExchangeIsNotSaved
  BY DEF IInv, RepliedInv
<1> QED
  BY <1>1, InductiveInvariant, PTL

\* Whatever tasks interleave, fail or are killed, no answer is stored before its question.
THEOREM AnswersFollow == Spec => []AnswerFollowsQuestion
<1>1. IInv => AnswerFollowsQuestion
  BY DEF IInv, Answered, AnswerFollowsQuestion
<1> QED
  BY <1>1, InductiveInvariant, PTL

\* An exchange that was committed survives every kill until a trim takes it away.
THEOREM StoredAlwaysSurvives == Spec => []StoredSurvives
<1>1. ASSUME IInv PROVE StoredSurvives
  <2>1. ASSUME NEW m \in stored
        PROVE  \E i \in Index(durable.log, m, "assistant") :
                 Index(durable.rows, m, "assistant") = {} => Len(durable.log) - i >= Keep
    <3> DEFINE r == durable.rows  l == durable.log
    <3>1. PICK i \in DOMAIN l : l[i].msg = m /\ l[i].role = "assistant"
      BY <1>1 DEF IInv, StoredInv, Has
    <3>2. /\ r \in Seq(Row) /\ l \in Seq(Row) /\ Len(r) \in Nat /\ Len(l) \in Nat
          /\ i \in 1..Len(l) /\ DOMAIN r = 1..Len(r) /\ Keep \in Nat /\ Suffix(r, l)
      BY <1>1, <3>1, Constants DEF IInv, TypeOK, SuffixInv
    <3> HIDE DEF r, l
    <3>3. CASE i > Len(l) - Len(r)
      <4>1. /\ i - (Len(l) - Len(r)) \in 1..Len(r)
            /\ Len(l) - Len(r) + (i - (Len(l) - Len(r))) = i
        BY <3>2, <3>3 DEF Suffix
      <4>2. r[i - (Len(l) - Len(r))] = l[i]
        BY <3>2, <4>1 DEF Suffix
      <4>3. i - (Len(l) - Len(r)) \in Index(r, m, "assistant")
        BY <3>1, <3>2, <4>1, <4>2 DEF Index
      <4> QED
        BY <3>1, <4>3 DEF Index, r, l
    <3>4. CASE ~(i > Len(l) - Len(r))
      <4>1. Len(l) - i >= Keep
        BY <3>2, <3>4 DEF Suffix
      <4> QED
        BY <3>1, <4>1 DEF Index, l
    <3> QED
      BY <3>3, <3>4
  <2> QED
    BY <2>1 DEF StoredSurvives
<1> QED
  BY <1>1, InductiveInvariant, PTL

\* Trims and kills never shorten or change the history a prompt is made of.
THEOREM HistoryKept == Spec => []TrimKeepsHistory
<1>1. IInv => TrimKeepsHistory
  BY SuffixLast DEF IInv, TypeOK, SuffixInv, TrimKeepsHistory
<1> QED
  BY <1>1, InductiveInvariant, PTL

--------------------------------------------------------------------------------
(* Part 2: the receivers and the adapters.                                    *)

\* The packets that have reached the buffer of their speaker.
Arrived == IF thread.at = "decoded" THEN spoken - 1 ELSE spoken

DetectorRow ==
  [at : {"off", "asleep", "scan", "popped", "speech"}, todo : SUBSET User,
   user : User \cup {Nothing}, taken : SUBSET Nat, finished : Seq(User)]

Utterance == [receiver : Receiver, user : User, packets : SUBSET Nat]

DetectorType ==
  /\ detector \in [Receiver -> DetectorRow]
  /\ \A r \in Receiver :
       /\ detector[r].at = "popped" => detector[r].user \in User
       /\ detector[r].at = "speech" => detector[r].finished # <<>>

ThreadType ==
  /\ spoken \in Nat
  /\ thread.at \in {"idle", "decoded", "extended"}
  /\ thread.at # "idle" =>
       /\ thread.receiver \in Receiver /\ thread.user \in User
       /\ thread.packet = spoken /\ spoken > 0

ReceiverType ==
  /\ running \in [Receiver -> BOOLEAN]
  /\ buffer \in [Receiver -> [User -> SUBSET Nat]]
  /\ last \in [Receiver -> [User -> {"none", "fresh", "old"}]]
  /\ heard \in Seq(Utterance)
  /\ DetectorType /\ ThreadType

\* Whoever has a packet has one that has arrived.
ArrivedInv ==
  /\ \A r \in Receiver, u \in User : \A p \in buffer[r][u] : p <= Arrived
  /\ \A i \in DOMAIN heard : \A p \in heard[i].packets : p <= Arrived

\* A packet is in one buffer.
BuffersApart ==
  \A r, s \in Receiver, u, v \in User :
    r # s \/ u # v => buffer[r][u] \cap buffer[s][v] = {}

\* A packet that was heard is in no buffer, and what is in the buffer was spoken after it.
HeardBefore ==
  \A i \in DOMAIN heard, r \in Receiver, u \in User :
    /\ heard[i].packets \cap buffer[r][u] = {}
    /\ heard[i].receiver = r /\ heard[i].user = u =>
         \A p \in heard[i].packets, q \in buffer[r][u] : p < q

HeardApart ==
  \A i, j \in DOMAIN heard :
    i < j =>
      /\ heard[i].packets \cap heard[j].packets = {}
      /\ heard[i].user = heard[j].user /\ heard[i].receiver = heard[j].receiver =>
           \A p \in heard[i].packets, q \in heard[j].packets : p < q

PacketInv == ArrivedInv /\ BuffersApart /\ HeardBefore /\ HeardApart

\* What happens to the receivers in a step of the adapter.
ReceiverStep ==
  \/ \E r \in Receiver :
       \/ StartReceiver(r) \/ StopReceiver(r) \/ DetectorStep(r)
       \/ /\ detector[r].at = "speech" /\ Delivered(r)
          /\ UNCHANGED <<running, buffer, last, thread, heard, spoken, overtaken>>
       \/ \E u \in User : Packet(r, u) \/ Pause(r, u)
  \/ ThreadStep
  \/ UNCHANGED receiverVars

--------------------------------------------------------------------------------
(* The receivers. *)

LEMMA AdapterFacts ==
  /\ Receiver \subseteq Nat /\ 0 \notin Receiver /\ Nothing \notin Receiver /\ Nothing \notin User
  /\ Closed \subseteq Chat /\ "direct" \notin Chat /\ "vc" \notin Chat /\ Nothing \notin Chat
  /\ CacheMax \in Nat /\ CacheMax > 0 /\ IsFiniteSet(User)
BY ReceiverConstants, AdapterConstants DEF ReceiverConstants, AdapterConstants

LEMMA DozingType ==
  /\ Off \in DetectorRow /\ Dozing \in DetectorRow
  /\ Off.at = "off" /\ Dozing.at = "asleep"
<1>1. <<>> \in Seq(User)
  OBVIOUS
<1>2. Off \in DetectorRow /\ Off.at = "off"
  BY <1>1 DEF Off, DetectorRow
<1> QED
  BY <1>2 DEF Dozing, DetectorRow

\* A detector that goes on as row.
LEMMA DetectorChange ==
  ASSUME DetectorType, NEW r \in Receiver, NEW row \in DetectorRow,
         row.at = "popped" => row.user \in User, row.at = "speech" => row.finished # <<>>,
         detector' = [detector EXCEPT ![r] = row]
  PROVE  DetectorType'
BY DEF DetectorType

LEMMA DeliveredKeeps ==
  ASSUME DetectorType, NEW r \in Receiver, detector[r].at = "speech", Delivered(r)
  PROVE  DetectorType'
<1> DEFINE d == detector[r]
<1>1. d \in DetectorRow /\ d.finished \in Seq(User) /\ d.finished # <<>>
  BY DEF DetectorType, DetectorRow
<1>2. CASE Len(d.finished) = 1
  BY <1>2, DozingType, DetectorChange DEF Delivered
<1>3. CASE Len(d.finished) # 1
  <2> DEFINE row == [d EXCEPT !.at = "speech", !.finished = Tail(d.finished)]
  <2>1. Tail(d.finished) \in Seq(User) /\ Len(Tail(d.finished)) = Len(d.finished) - 1
        /\ Len(d.finished) \in Nat /\ Len(d.finished) > 0
    BY <1>1
  <2>2. Tail(d.finished) # <<>>
    <3>1. Len(Tail(d.finished)) # 0 /\ Len(<<>>) = 0
      BY <1>3, <2>1
    <3> QED
      BY <3>1
  <2>3. row \in DetectorRow /\ row.at = "speech" /\ row.finished # <<>>
    BY <1>1, <2>1, <2>2 DEF DetectorRow
  <2>4. detector' = [detector EXCEPT ![r] = IF Len(d.finished) = 1 THEN Dozing ELSE row]
    BY DEF Delivered
  <2>5. detector' = [detector EXCEPT ![r] = row]
    BY <1>3, <2>4
  <2> HIDE DEF row
  <2> QED
    BY <2>3, <2>5, DetectorChange
<1> QED
  BY <1>2, <1>3

LEMMA DetectorKeeps ==
  ASSUME ReceiverType, NEW r \in Receiver, DetectorStep(r)
  PROVE  DetectorType' /\ heard' \in Seq(Utterance)
<1> DEFINE d == detector[r]
<1>1. d \in DetectorRow /\ DetectorType /\ d.todo \in SUBSET User /\ d.finished \in Seq(User)
      /\ heard \in Seq(Utterance)
  BY DEF ReceiverType, DetectorType, DetectorRow
<1>2. ASSUME NEW u \in User, Skip(r, u)
      PROVE  DetectorType' /\ heard' \in Seq(Utterance)
  <2> DEFINE row == [d EXCEPT !.todo = @ \ {u}]
  <2>1. row \in DetectorRow /\ row.at = "scan"
    BY <1>1, <1>2 DEF DetectorRow, Skip
  <2>2. detector' = [detector EXCEPT ![r] = row]
    BY <1>2 DEF Skip
  <2> HIDE DEF row
  <2> QED
    BY <1>1, <1>2, <2>1, <2>2, DetectorChange DEF Skip
<1>3. ASSUME NEW u \in User, PopBuffer(r, u)
      PROVE  DetectorType' /\ heard' \in Seq(Utterance)
  <2>1. buffer[r][u] \in SUBSET Nat
    BY DEF ReceiverType
  <2>2. /\ Popped(r, u) \in DetectorRow /\ Popped(r, u).at = "popped" /\ Popped(r, u).user \in User
    BY <1>1, <2>1 DEF DetectorRow, Popped
  <2>3. detector' = [detector EXCEPT ![r] = Popped(r, u)]
    BY <1>3 DEF PopBuffer
  <2>4. [receiver |-> r, user |-> u, packets |-> buffer[r][u]] \in Utterance
    BY <2>1 DEF Utterance
  <2>5. heard' \in Seq(Utterance)
    BY <1>1, <1>3, <2>4, AppendProperties DEF PopBuffer
  <2> QED
    BY <1>1, <2>2, <2>3, <2>5, DetectorChange
<1>4. CASE PopLast(r)
  <2>0. d.user \in User
    BY <1>4 DEF PopLast, ReceiverType, DetectorType
  <2>1. PICK kind \in Kind :
          detector' = [detector EXCEPT ![r] =
            [d EXCEPT !.at = "scan", !.user = Nothing, !.taken = {},
                      !.finished = IF kind = "speech" THEN Append(d.finished, d.user) ELSE d.finished]]
    BY <1>4 DEF PopLast
  <2> DEFINE row == [d EXCEPT !.at = "scan", !.user = Nothing, !.taken = {},
                      !.finished = IF kind = "speech" THEN Append(d.finished, d.user) ELSE d.finished]
  <2>2. Append(d.finished, d.user) \in Seq(User)
    BY <1>1, <2>0, AppendProperties
  <2>3. row \in DetectorRow /\ row.at = "scan"
    BY <1>1, <2>2 DEF DetectorRow
  <2>4. detector' = [detector EXCEPT ![r] = row]
    BY <2>1
  <2> HIDE DEF row
  <2> QED
    BY <1>1, <1>4, <2>3, <2>4, DetectorChange DEF PopLast
<1>5. CASE Deliver(r)
  <2>1. CASE d.finished = <<>>
    BY <1>1, <1>5, <2>1, DozingType, DetectorChange DEF Deliver
  <2>2. CASE d.finished # <<>>
    <3> DEFINE row == [d EXCEPT !.at = "speech"]
    <3>1. row \in DetectorRow /\ row.at = "speech" /\ row.finished # <<>>
      BY <1>1, <2>2 DEF DetectorRow
    <3>2. detector' = [detector EXCEPT ![r] = row]
      BY <1>5, <2>2 DEF Deliver
    <3> HIDE DEF row
    <3> QED
      BY <1>1, <1>5, <3>1, <3>2, DetectorChange DEF Deliver
  <2> QED
    BY <2>1, <2>2
<1>6. CASE Scan(r)
  <2>1. CASE ~running[r]
    BY <1>1, <1>6, <2>1, DozingType, DetectorChange DEF Scan
  <2>2. CASE running[r]
    <3> DEFINE row == [d EXCEPT !.at = "scan", !.todo = {u \in User : last[r][u] # "none"}]
    <3>1. row \in DetectorRow /\ row.at = "scan"
      BY <1>1 DEF DetectorRow
    <3>2. detector' = [detector EXCEPT ![r] = row]
      BY <1>6, <2>2 DEF Scan
    <3> HIDE DEF row
    <3> QED
      BY <1>1, <1>6, <3>1, <3>2, DetectorChange DEF Scan
  <2> QED
    BY <2>1, <2>2
<1> QED
  BY <1>2, <1>3, <1>4, <1>5, <1>6 DEF DetectorStep

LEMMA ReceiverKeepsType ==
  ASSUME ReceiverType, ReceiverStep
  PROVE  ReceiverType'
<1> DEFINE silent == [u \in User |-> {}]  none == [u \in User |-> "none"]
<1>0. /\ silent \in [User -> SUBSET Nat] /\ none \in [User -> {"none", "fresh", "old"}]
  OBVIOUS
<1>1. ASSUME NEW r \in Receiver, StartReceiver(r)
      PROVE  ReceiverType'
  <2>1. DetectorType'
    BY <1>1, DozingType, DetectorChange DEF StartReceiver, ReceiverType
  <2>2. ThreadType'
    BY <1>1 DEF StartReceiver, ReceiverType, ThreadType
  <2> QED
    BY <1>0, <1>1, <2>1, <2>2 DEF StartReceiver, ReceiverType
<1>2. ASSUME NEW r \in Receiver, StopReceiver(r)
      PROVE  ReceiverType'
  BY <1>0, <1>2 DEF StopReceiver, ReceiverType, DetectorType, ThreadType
<1>3. ASSUME NEW r \in Receiver, DetectorStep(r)
      PROVE  ReceiverType'
  <2>1. DetectorType' /\ heard' \in Seq(Utterance)
    BY <1>3, DetectorKeeps
  <2>2. ThreadType' /\ running' \in [Receiver -> BOOLEAN]
    BY <1>3 DEF DetectorStep, Skip, PopBuffer, PopLast, Deliver, Scan, ReceiverType, ThreadType
  <2>3. buffer' \in [Receiver -> [User -> SUBSET Nat]]
    <3>1. buffer' = buffer \/ \E u \in User : buffer' = [buffer EXCEPT ![r][u] = {}]
      BY <1>3 DEF DetectorStep, Skip, PopBuffer, PopLast, Deliver, Scan
    <3>2. ASSUME NEW u \in User, buffer' = [buffer EXCEPT ![r][u] = {}]
          PROVE  buffer' \in [Receiver -> [User -> SUBSET Nat]]
      <4>1. [buffer[r] EXCEPT ![u] = {}] \in [User -> SUBSET Nat]
        BY DEF ReceiverType
      <4> QED
        BY <3>2, <4>1 DEF ReceiverType
    <3> QED
      BY <3>1, <3>2 DEF ReceiverType
  <2>4. last' \in [Receiver -> [User -> {"none", "fresh", "old"}]]
    <3>1. \/ last' = last
          \/ \E u \in User : last' = [last EXCEPT ![r][u] = "none"]
      <4>1. CASE PopLast(r)
        BY <4>1 DEF PopLast, ReceiverType, DetectorType
      <4>2. CASE ~PopLast(r)
        BY <1>3, <4>2 DEF DetectorStep, Skip, PopBuffer, Deliver, Scan
      <4> QED
        BY <4>1, <4>2
    <3>2. ASSUME NEW u \in User, last' = [last EXCEPT ![r][u] = "none"]
          PROVE  last' \in [Receiver -> [User -> {"none", "fresh", "old"}]]
      <4>1. [last[r] EXCEPT ![u] = "none"] \in [User -> {"none", "fresh", "old"}]
        BY DEF ReceiverType
      <4> QED
        BY <3>2, <4>1 DEF ReceiverType
    <3> QED
      BY <3>1, <3>2 DEF ReceiverType
  <2> QED
    BY <2>1, <2>2, <2>3, <2>4 DEF ReceiverType
<1>4. ASSUME NEW r \in Receiver, detector[r].at = "speech", Delivered(r),
             UNCHANGED <<running, buffer, last, thread, heard, spoken, overtaken>>
      PROVE  ReceiverType'
  BY <1>4, DeliveredKeeps DEF ReceiverType, ThreadType
<1>5. ASSUME NEW r \in Receiver, NEW u \in User, Packet(r, u)
      PROVE  ReceiverType'
  <2>1. ThreadType'
    BY <1>5 DEF Packet, ReceiverType, ThreadType
  <2> QED
    BY <1>5, <2>1 DEF Packet, ReceiverType, DetectorType
<1>6. ASSUME NEW r \in Receiver, NEW u \in User, Pause(r, u)
      PROVE  ReceiverType'
  BY <1>6 DEF Pause, ReceiverType, DetectorType, ThreadType
<1>7. CASE Extend
  <2>1. ThreadType'
    BY <1>7 DEF Extend, ReceiverType, ThreadType
  <2>2. buffer' \in [Receiver -> [User -> SUBSET Nat]]
    BY <1>7 DEF Extend, ReceiverType, ThreadType
  <2> QED
    BY <1>7, <2>1, <2>2 DEF Extend, ReceiverType, DetectorType
<1>8. CASE Stamp
  <2>1. ThreadType'
    BY <1>8 DEF Stamp, ReceiverType, ThreadType, NoPacket
  <2>2. last' \in [Receiver -> [User -> {"none", "fresh", "old"}]]
    BY <1>8 DEF Stamp, ReceiverType, ThreadType
  <2> QED
    BY <1>8, <2>1, <2>2 DEF Stamp, ReceiverType, DetectorType
<1>9. CASE UNCHANGED receiverVars
  BY <1>9 DEF receiverVars, ReceiverType, DetectorType, ThreadType
<1> QED
  BY <1>1, <1>2, <1>3, <1>4, <1>5, <1>6, <1>7, <1>8, <1>9 DEF ReceiverStep, ThreadStep

--------------------------------------------------------------------------------
(* Where the packets are.                                                     *)

\* A step only empties buffers, or puts the packet that has been spoken last into the buffer
\* of its speaker, or takes a buffer.
LEMMA PacketsMove ==
  ASSUME ReceiverType, ReceiverStep
  PROVE  \/ /\ heard' = heard /\ Arrived' = Arrived
            /\ \A r \in Receiver, u \in User : buffer'[r][u] \subseteq buffer[r][u]
         \/ Extend
         \/ \E r \in Receiver, u \in User : PopBuffer(r, u)
<1>1. ASSUME NEW r \in Receiver, StartReceiver(r) \/ StopReceiver(r)
      PROVE  /\ heard' = heard /\ Arrived' = Arrived
             /\ \A s \in Receiver, u \in User : buffer'[s][u] \subseteq buffer[s][u]
  <2>1. buffer' = [buffer EXCEPT ![r] = [u \in User |-> {}]] /\ heard' = heard /\ Arrived' = Arrived
    BY <1>1 DEF StartReceiver, StopReceiver, Arrived
  <2> QED
    BY <2>1 DEF ReceiverType
<1>2. ASSUME NEW r \in Receiver, DetectorStep(r), \A u \in User : ~PopBuffer(r, u)
      PROVE  heard' = heard /\ Arrived' = Arrived /\ buffer' = buffer
  BY <1>2 DEF DetectorStep, Skip, PopLast, Deliver, Scan, Arrived
<1>3. ASSUME NEW r \in Receiver, NEW u \in User, Packet(r, u) \/ Pause(r, u)
      PROVE  heard' = heard /\ Arrived' = Arrived /\ buffer' = buffer
  BY <1>3 DEF Packet, Pause, Arrived, ReceiverType, ThreadType
<1>4. CASE Stamp
  BY <1>4 DEF Stamp, NoPacket, Arrived, ReceiverType
<1>5. CASE UNCHANGED receiverVars
  BY <1>5 DEF receiverVars, Arrived
<1>6. ASSUME NEW r \in Receiver, Delivered(r),
             UNCHANGED <<running, buffer, last, thread, heard, spoken, overtaken>>
      PROVE  heard' = heard /\ Arrived' = Arrived /\ buffer' = buffer
  BY <1>6 DEF Arrived
<1> QED
  BY <1>1, <1>2, <1>3, <1>4, <1>5, <1>6 DEF ReceiverStep, ThreadStep

LEMMA PacketsKept ==
  ASSUME ReceiverType, PacketInv, heard' = heard, Arrived' = Arrived,
         \A r \in Receiver, u \in User : buffer'[r][u] \subseteq buffer[r][u]
  PROVE  PacketInv'
<1>1. ArrivedInv'
  BY DEF PacketInv, ArrivedInv
<1>2. BuffersApart'
  BY DEF PacketInv, BuffersApart
<1>3. HeardBefore'
  BY DEF PacketInv, HeardBefore
<1>4. HeardApart'
  BY DEF PacketInv, HeardApart
<1> QED
  BY <1>1, <1>2, <1>3, <1>4 DEF PacketInv

LEMMA PacketArrives ==
  ASSUME ReceiverType, PacketInv, Extend
  PROVE  PacketInv'
<1> DEFINE r == thread.receiver  u == thread.user  n == spoken
<1>1. r \in Receiver /\ u \in User /\ n \in Nat /\ n > 0 /\ thread.packet = n
  BY DEF Extend, ReceiverType, ThreadType
<1>2. Arrived = n - 1 /\ Arrived' = n /\ heard' = heard
  BY DEF Extend, Arrived
<1>3. \A s \in Receiver, v \in User :
        buffer'[s][v] = IF s = r /\ v = u THEN buffer[s][v] \cup {n} ELSE buffer[s][v]
  BY <1>1 DEF Extend, ReceiverType
<1>4. /\ \A s \in Receiver, v \in User : buffer[s][v] \subseteq Nat
      /\ \A i \in DOMAIN heard : heard[i].packets \subseteq Nat
  <2>1. \A i \in DOMAIN heard : heard[i] \in Utterance
    BY DEF ReceiverType
  <2> QED
    BY <2>1 DEF ReceiverType, Utterance
<1>5. /\ \A s \in Receiver, v \in User : \A p \in buffer[s][v] : p < n
      /\ \A i \in DOMAIN heard : \A p \in heard[i].packets : p < n
  BY <1>1, <1>2, <1>4 DEF PacketInv, ArrivedInv
<1> HIDE DEF r, u, n
<1>6. ArrivedInv'
  <2>1. \A s \in Receiver, v \in User : \A p \in buffer'[s][v] : p <= n
    <3> SUFFICES ASSUME NEW s \in Receiver, NEW v \in User, NEW p \in buffer'[s][v]
                 PROVE  p <= n
      OBVIOUS
    <3>1. p \in buffer[s][v] \/ p = n
      BY <1>3
    <3>2. CASE p = n
      BY <1>1, <3>2
    <3>3. CASE p \in buffer[s][v]
      BY <1>1, <1>4, <1>5, <3>3
    <3> QED
      BY <3>1, <3>2, <3>3
  <2>2. \A i \in DOMAIN heard : \A p \in heard[i].packets : p <= n
    BY <1>1, <1>4, <1>5
  <2> QED
    BY <1>2, <2>1, <2>2 DEF ArrivedInv
<1>7. BuffersApart'
  <2> SUFFICES ASSUME NEW s \in Receiver, NEW t \in Receiver, NEW v \in User, NEW w \in User,
                      s # t \/ v # w, NEW p \in buffer'[s][v], p \in buffer'[t][w]
               PROVE  FALSE
    BY DEF BuffersApart
  <2>1. \A x \in Receiver, y \in User : n \notin buffer[x][y]
    BY <1>1, <1>4, <1>5
  <2>2. CASE p = n
    <3>1. s = r /\ v = u
      BY <1>3, <2>1, <2>2
    <3>2. t = r /\ w = u
      BY <1>3, <2>1, <2>2
    <3> QED
      BY <3>1, <3>2
  <2>3. CASE p # n
    <3>1. p \in buffer[s][v] /\ p \in buffer[t][w]
      BY <1>3, <2>3
    <3> QED
      BY <3>1 DEF PacketInv, BuffersApart
  <2> QED
    BY <2>2, <2>3
<1>8. HeardBefore'
  <2> SUFFICES ASSUME NEW i \in DOMAIN heard, NEW s \in Receiver, NEW v \in User,
                      NEW p \in heard[i].packets, NEW q \in buffer'[s][v]
               PROVE  /\ p # q
                      /\ heard[i].receiver = s /\ heard[i].user = v => p < q
    BY <1>2 DEF HeardBefore
  <2>1. CASE q = n
    BY <1>5, <2>1, <1>4, <1>1
  <2>2. CASE q # n
    <3>1. q \in buffer[s][v]
      BY <1>3, <2>2
    <3> QED
      BY <3>1 DEF PacketInv, HeardBefore
  <2> QED
    BY <2>1, <2>2
<1>9. HeardApart'
  BY <1>2 DEF PacketInv, HeardApart
<1> QED
  BY <1>6, <1>7, <1>8, <1>9 DEF PacketInv

LEMMA PacketsTaken ==
  ASSUME ReceiverType, PacketInv, NEW r \in Receiver, NEW u \in User, PopBuffer(r, u)
  PROVE  PacketInv'
<1> DEFINE e == [receiver |-> r, user |-> u, packets |-> buffer[r][u]]  n == Len(heard)
<1>1. /\ heard \in Seq(Utterance) /\ e \in Utterance /\ n \in Nat
      /\ buffer[r][u] \subseteq Nat
  BY DEF ReceiverType, Utterance
<1>2. /\ Arrived' = Arrived
      /\ \A s \in Receiver, v \in User :
           buffer'[s][v] = IF s = r /\ v = u THEN {} ELSE buffer[s][v]
  BY DEF PopBuffer, ReceiverType, Arrived
<1>3. /\ DOMAIN heard' = 1..n + 1 /\ DOMAIN heard = 1..n /\ heard'[n + 1] = e
      /\ \A i \in 1..n : heard'[i] = heard[i]
  BY <1>1, AppendProperties DEF PopBuffer
<1>4. ArrivedInv'
  BY <1>1, <1>2, <1>3 DEF PacketInv, ArrivedInv
<1>5. BuffersApart'
  BY <1>2 DEF PacketInv, BuffersApart
<1>6. HeardBefore'
  <2> SUFFICES ASSUME NEW i \in DOMAIN heard', NEW s \in Receiver, NEW v \in User,
                      NEW p \in heard'[i].packets, NEW q \in buffer'[s][v]
               PROVE  /\ p # q
                      /\ heard'[i].receiver = s /\ heard'[i].user = v => p < q
    BY DEF HeardBefore
  <2>1. q \in buffer[s][v] /\ ~(s = r /\ v = u)
    BY <1>2
  <2>2. CASE i \in 1..n
    BY <1>3, <2>1, <2>2 DEF PacketInv, HeardBefore
  <2>3. CASE i = n + 1
    BY <1>3, <2>1, <2>3 DEF PacketInv, BuffersApart
  <2> QED
    BY <1>1, <1>3, <2>2, <2>3
<1>7. HeardApart'
  <2> SUFFICES ASSUME NEW i \in DOMAIN heard', NEW j \in DOMAIN heard', i < j,
                      NEW p \in heard'[i].packets, NEW q \in heard'[j].packets
               PROVE  /\ p # q
                      /\ heard'[i].user = heard'[j].user /\ heard'[i].receiver = heard'[j].receiver
                           => p < q
    BY DEF HeardApart
  <2>1. i \in 1..n
    BY <1>1, <1>3
  <2>2. CASE j \in 1..n
    BY <1>3, <2>1, <2>2 DEF PacketInv, HeardApart
  <2>3. CASE j = n + 1
    BY <1>3, <2>1, <2>3 DEF PacketInv, HeardBefore
  <2> QED
    BY <1>1, <1>3, <2>2, <2>3
<1> QED
  BY <1>4, <1>5, <1>6, <1>7 DEF PacketInv

LEMMA ReceiverKeepsPackets ==
  ASSUME ReceiverType, PacketInv, ReceiverStep
  PROVE  PacketInv'
BY PacketsMove, PacketsKept, PacketArrives, PacketsTaken

LEMMA ReceiverStarts ==
  ASSUME ReceiverInit
  PROVE  ReceiverType /\ PacketInv
<1>1. DetectorType
  BY DozingType DEF ReceiverInit, DetectorType
<1>2. ThreadType /\ Arrived = 0
  BY DEF ReceiverInit, ThreadType, NoPacket, Arrived
<1>3. ReceiverType
  BY <1>1, <1>2, EmptySeq DEF ReceiverInit, ReceiverType
<1>4. PacketInv
  BY DEF ReceiverInit, PacketInv, ArrivedInv, BuffersApart, HeardBefore, HeardApart
<1> QED
  BY <1>3, <1>4

LEMMA PacketsHeardOnce ==
  ASSUME ReceiverType, PacketInv
  PROVE  HeardOnceInOrder
<1>1. DOMAIN heard = 1..Len(heard)
  BY DEF ReceiverType
<1>2. QED
  BY <1>1 DEF HeardOnceInOrder, PacketInv, HeardApart

--------------------------------------------------------------------------------
(* The adapter.                                                               *)

Frame == [user : User, re : Nat, images : BOOLEAN]

Way == {"vc", "voice", "images", "text"}

Shown == [frame : Frame, how : Way]

PostedMessage == [user : User, chat : Place, kind : {"text", "voice", "speech"}]

Fate == [where : Place, how : {"pending", "cut", "lost", "text", "voice", "images", "spoken"}]

Cutting == [where |-> Nothing, how |-> "cut"]

\* Kinds, and the lengths that go together.
MessageType ==
  /\ platform \in {"discord", "telegram", "slack", "line", "whatsapp", "signal"}
  /\ posted \in Seq(PostedMessage)
  /\ handler \in Seq({"fetch", "send", "done"}) /\ Len(handler) = Len(posted)
  /\ fate \in Seq(Fate) /\ Len(fate) = Len(posted)
  /\ atCore \subseteq DOMAIN posted
  /\ down \in Seq(Frame)
  /\ showing # Nothing => showing \in Shown
  /\ \A m \in DOMAIN posted : handler[m] # "done" => posted[m].chat \in Chat

\* f is a frame for the message m.
For(f, m) == f.re = m /\ m \in DOMAIN posted /\ f.user = posted[m].user

\* A frame that answers a message is for its user.
FrameInv ==
  /\ \A i \in DOMAIN down : down[i].re # 0 => For(down[i], down[i].re)
  /\ showing # Nothing /\ showing.frame.re # 0 => For(showing.frame, showing.frame.re)

\* An answer to m is on its way to the platform.
Returning(m) ==
  \/ \E i \in DOMAIN down : down[i].re = m
  \/ showing # Nothing /\ showing.frame.re = m

\* Before it is answered nothing has become of a message.
OneWay ==
  \A m \in DOMAIN posted :
    /\ handler[m] # "done" \/ m \in atCore => fate[m] = Pending /\ ~Returning(m)
    /\ m \in atCore => handler[m] = "done"

MessageInv == MessageType /\ FrameInv /\ OneWay

Entry == [user : User, chat : Chat]

RouteType ==
  /\ routes \in Seq(Entry) /\ Len(routes) <= CacheOf(platform)
  /\ \A i, j \in DOMAIN routes : routes[i].user = routes[j].user => i = j

\* A channel is that of the last message that its user wrote.
RouteInv ==
  \A i \in DOMAIN routes :
    \E n \in DOMAIN posted :
      /\ posted[n].user = routes[i].user /\ posted[n].chat = routes[i].chat
      /\ \A m \in DOMAIN posted :
           posted[m].user = routes[i].user /\ posted[m].chat # "vc" => m <= n

\* These write to the user.
PlainInv == platform \in {"line", "whatsapp", "signal"} => routes = <<>>

ChannelInv == RouteType /\ RouteInv /\ PlainInv

\* Who is answered by voice, and whose speech is transcribed.
VoiceInv ==
  /\ voiced \subseteq User /\ inVoice \subseteq User /\ latest \in [User -> {"none", "text", "voice"}]
  /\ \A u \in voiced : latest[u] = "voice"
  /\ receiver \in Receiver \cup {Nothing} /\ stt \subseteq Receiver
  /\ \A r \in stt : detector[r].at = "speech"

\* Until the bot is thrown out, what runs is registered and /leave ends it with the connection.
OneReceiver ==
  /\ joined \in BOOLEAN /\ leaving \in BOOLEAN /\ kicked \in BOOLEAN
  /\ ~kicked =>
       /\ \A r \in Receiver : running[r] => r = receiver
       /\ receiver # Nothing => joined /\ ~leaving
       /\ leaving => joined

\* A message comes, from the handler of the platform or from a voice channel.
Posted(u, c, k) ==
  /\ posted' = Append(posted, [user |-> u, chat |-> c, kind |-> k])
  /\ \/ /\ c \in Chat /\ handler' = Append(handler, "fetch")
        /\ fate' = Append(fate, Pending) /\ atCore' = atCore
     \/ /\ handler' = Append(handler, "done")
        /\ \/ fate' = Append(fate, Pending) /\ atCore' = atCore \cup {Len(posted')}
           \/ fate' = Append(fate, Cutting) /\ atCore' = atCore
  /\ \/ c \in Chat /\ platform \notin {"line", "whatsapp", "signal"} /\ routes' = Routed(u, c)
     \/ c = "direct" /\ platform \in {"line", "whatsapp", "signal"} /\ routes' = routes
     \/ c = "vc" /\ routes' = routes
  /\ UNCHANGED <<down, showing>>

Fetched(m) ==
  /\ handler[m] = "fetch" /\ handler' = [handler EXCEPT ![m] = "send"]
  /\ UNCHANGED <<posted, routes, atCore, down, showing, fate>>

messages == <<posted, handler, fate, atCore, down, showing, routes>>

--------------------------------------------------------------------------------

\* The steps of the adapter as the receivers see them.
LEMMA StepOfReceivers ==
  ASSUME VoiceInv, AdapterNext
  PROVE  ReceiverStep
<1>1. CASE Leave
  BY <1>1 DEF Leave, VoiceInv, ReceiverStep
<1>2. ASSUME NEW u \in User, Hear(u)
      PROVE  ReceiverStep
  BY <1>2 DEF Hear, VoiceInv, ReceiverStep
<1>3. ASSUME NEW u \in User, SilenceOf(u)
      PROVE  ReceiverStep
  BY <1>3 DEF SilenceOf, ReceiverStep
<1>4. CASE Join
  BY <1>4 DEF Join, ReceiverStep
<1>5. ASSUME NEW r \in Receiver, DropSpeech(r) \/ NotUnderstood(r) \/ Understood(r)
      PROVE  ReceiverStep
  BY <1>5 DEF DropSpeech, NotUnderstood, Understood, VoiceInv, ReceiverStep
<1>6. CASE RunThread
  BY <1>6 DEF RunThread, ReceiverStep
<1>7. ASSUME NEW r \in Receiver, Detect(r)
      PROVE  ReceiverStep
  BY <1>7 DEF Detect, ReceiverStep
<1>8. CASE \/ Start \/ Cut \/ Connect \/ Stop \/ Return \/ Handle \/ Dispatch \/ Show
           \/ Left \/ Mute \/ LoseChannel
           \/ (\E m \in atCore : Answer(m))
           \/ (\E r \in Receiver : Transcribe(r))
           \/ \E u \in User : (\E c \in Chat : Take(u, c)) \/ TakeDirect(u) \/ Greet(u)
  <2>1. UNCHANGED receiverVars
    BY <1>8
    DEF Start, Cut, Connect, Stop, Return, Over, Handle, FetchedFromDiscord, FetchedFromTelegram,
        Transcribed, ForwardFromDiscord, ForwardFromTelegram, Forward, Dispatch, Show, ShowOther,
        LoseCaption, OtherFails, Write, SendToDiscord, SendToTelegram, SendToSlack, SendToLine,
        SendToWhatsApp, SendToSignal, WriteTo, Speak, Left, Mute, LoseChannel, Answer, Transcribe,
        Take, TakeDiscord, TakeTelegram, TakeSlack, TakePlain, TakeDirect, TakeLine, TakeWhatsApp,
        TakeSignal, Greet
  <2> QED
    BY <2>1 DEF ReceiverStep
<1> QED
  BY <1>1, <1>2, <1>3, <1>4, <1>5, <1>6, <1>7, <1>8 DEF AdapterNext, Speech

\* The steps of the adapter as the messages see them.
LEMMA StepOfMessages ==
  ASSUME VoiceInv, ReceiverType, AdapterNext
  PROVE  /\ platform' = platform
         /\ \/ UNCHANGED messages
            \/ Cut \/ Dispatch \/ Show
            \/ \E u \in User : Greet(u)
            \/ \E u \in User, c \in Place, k \in {"text", "voice", "speech"} : Posted(u, c, k)
            \/ \E m \in DOMAIN posted : Fetched(m) \/ Forward(m)
            \/ \E m \in atCore : Answer(m)
<1>1. CASE \/ Start \/ Connect \/ Stop \/ Return \/ Left \/ Mute \/ LoseChannel \/ Join \/ Leave
           \/ RunThread \/ (\E r \in Receiver : Detect(r))
           \/ \E u \in User : Hear(u) \/ SilenceOf(u)
  <2>1. platform' = platform /\ UNCHANGED messages
    BY <1>1
    DEF Start, Connect, Stop, Return, Over, Left, Mute, LoseChannel, Join, Leave, RunThread, Detect,
        Hear, SilenceOf, messages, core, text
  <2> QED
    BY <2>1
<1>2. ASSUME NEW r \in Receiver, DropSpeech(r) \/ Transcribe(r) \/ NotUnderstood(r)
      PROVE  platform' = platform /\ UNCHANGED messages
  BY <1>2 DEF DropSpeech, Transcribe, NotUnderstood, messages, core, text
<1>3. ASSUME NEW r \in Receiver, Understood(r)
      PROVE  platform' = platform /\ \E u \in User : Posted(u, "vc", "speech")
  <2>1. Head(detector[r].finished) \in User
    <3>1. detector[r].finished \in Seq(User) /\ detector[r].finished # <<>>
      BY <1>3 DEF Understood, VoiceInv, ReceiverType, DetectorType, DetectorRow
    <3> QED
      BY <3>1
  <2>2. platform' = platform /\ Posted(Head(detector[r].finished), "vc", "speech")
    BY <1>3 DEF Understood, SentAtOnce, Posted, Cutting, text
  <2> QED
    BY <2>1, <2>2
<1>4. ASSUME NEW u \in User, NEW c \in Chat, Take(u, c)
      PROVE  platform' = platform /\ \E k \in {"text", "voice", "speech"} : Posted(u, c, k)
  <2>1. CASE TakeDiscord(u, c)
    <3>1. platform' = platform /\ Posted(u, c, "text")
      BY <2>1 DEF TakeDiscord, Post, Posted, core
    <3> QED
      BY <3>1
  <2>2. ASSUME NEW k \in {"text", "voice"}, TakeTelegram(u, c, k)
        PROVE  platform' = platform /\ Posted(u, c, k)
    BY <2>2 DEF TakeTelegram, Post, Posted, core
  <2>3. CASE TakeSlack(u, c)
    <3>1. platform' = platform /\ Posted(u, c, "text")
      BY <2>3 DEF TakeSlack, TakePlain, SentAtOnce, Posted, Cutting
    <3> QED
      BY <3>1
  <2> QED
    BY <1>4, <2>1, <2>2, <2>3 DEF Take
<1>5. ASSUME NEW u \in User, TakeDirect(u)
      PROVE  platform' = platform /\ Posted(u, "direct", "text")
  BY <1>5 DEF TakeDirect, TakeLine, TakeWhatsApp, TakeSignal, TakePlain, SentAtOnce, Posted, Cutting
<1>6. ASSUME NEW m \in DOMAIN posted,
             FetchedFromDiscord(m) \/ FetchedFromTelegram(m) \/ Transcribed(m)
      PROVE  platform' = platform /\ Fetched(m)
  BY <1>6 DEF FetchedFromDiscord, FetchedFromTelegram, Transcribed, Fetched, text, core
<1>7. ASSUME NEW m \in DOMAIN posted, ForwardFromDiscord(m) \/ ForwardFromTelegram(m)
      PROVE  platform' = platform /\ Forward(m)
  BY <1>7 DEF ForwardFromDiscord, ForwardFromTelegram, Forward
<1>8. CASE \/ Cut \/ Dispatch \/ Show \/ (\E m \in atCore : Answer(m)) \/ \E u \in User : Greet(u)
  <2>1. platform' = platform
    BY <1>8
    DEF Cut, Dispatch, Answer, Greet, Show, ShowOther, LoseCaption, OtherFails, Write,
        SendToDiscord, SendToTelegram, SendToSlack, SendToLine, SendToWhatsApp, SendToSignal,
        WriteTo, Speak
  <2> QED
    BY <1>8, <2>1
<1>9. Chat \subseteq Place /\ "vc" \in Place /\ "direct" \in Place
  BY DEF Place
<1>10. CASE \E u \in User : \E c \in Chat : Take(u, c)
  BY <1>4, <1>9, <1>10
<1>11. CASE \E u \in User : TakeDirect(u)
  BY <1>5, <1>9, <1>11
<1>12. CASE Handle
  BY <1>6, <1>7, <1>12 DEF Handle
<1>13. CASE Speech
  BY <1>2, <1>3, <1>9, <1>13 DEF Speech
<1> QED
  BY <1>1, <1>8, <1>10, <1>11, <1>12, <1>13 DEF AdapterNext

--------------------------------------------------------------------------------
(* The channels of the users.                                                 *)

LEMMA RemoveAtFacts ==
  ASSUME NEW S, NEW s \in Seq(S), NEW n \in DOMAIN s
  PROVE  /\ RemoveAt(s, n) \in Seq(S) /\ Len(RemoveAt(s, n)) = Len(s) - 1
         /\ \A i \in 1..(Len(s) - 1) : RemoveAt(s, n)[i] = s[IF i < n THEN i ELSE i + 1]
<1> DEFINE a == SubSeq(s, 1, n - 1)  b == SubSeq(s, n + 1, Len(s))
<1>1. n \in Nat /\ Len(s) \in Nat /\ 1 <= n /\ n <= Len(s)
  OBVIOUS
<1>2. a \in Seq(S) /\ Len(a) = n - 1 /\ \A i \in 1..(n - 1) : a[i] = s[i]
  BY <1>1
<1>3. b \in Seq(S) /\ Len(b) = Len(s) - n /\ \A i \in 1..(Len(s) - n) : b[i] = s[n + i]
  BY <1>1
<1>4. RemoveAt(s, n) = a \o b
  BY DEF RemoveAt
<1> HIDE DEF a, b
<1>5. /\ a \o b \in Seq(S) /\ Len(a \o b) = Len(s) - 1
      /\ \A i \in 1..(Len(s) - 1) : (a \o b)[i] = IF i <= n - 1 THEN a[i] ELSE b[i - (n - 1)]
  <2>1. /\ a \o b \in Seq(S) /\ Len(a \o b) = Len(a) + Len(b)
        /\ \A i \in 1..(Len(a) + Len(b)) : (a \o b)[i] = IF i <= Len(a) THEN a[i] ELSE b[i - Len(a)]
    BY <1>2, <1>3, ConcatProperties
  <2>2. Len(a) = n - 1 /\ Len(b) = Len(s) - n /\ Len(a) + Len(b) = Len(s) - 1
    BY <1>1, <1>2, <1>3
  <2> QED
    BY <2>1, <2>2
<1>6. ASSUME NEW i \in 1..(Len(s) - 1) PROVE (a \o b)[i] = s[IF i < n THEN i ELSE i + 1]
  <2>1. CASE i < n
    BY <1>1, <1>2, <1>5, <2>1
  <2>2. CASE ~(i < n)
    <3>1. i - (n - 1) \in 1..(Len(s) - n) /\ n + (i - (n - 1)) = i + 1 /\ ~(i <= n - 1)
      BY <1>1, <2>2
    <3> QED
      BY <1>3, <1>5, <2>2, <3>1
  <2> QED
    BY <2>1, <2>2
<1> QED
  BY <1>4, <1>5, <1>6

LEMMA CacheIsNat ==
  CacheOf(platform) \in Nat
BY AdapterFacts, FS_CardinalityType DEF CacheOf

LEMMA OthersFacts ==
  ASSUME RouteType, NEW u \in User
  PROVE  /\ Others(u) \in Seq(Entry) /\ Len(Others(u)) <= Len(routes)
         /\ \A i \in DOMAIN Others(u) :
              /\ Others(u)[i].user # u
              /\ \E n \in DOMAIN routes : Others(u)[i] = routes[n]
         /\ \A i, j \in DOMAIN Others(u) : Others(u)[i].user = Others(u)[j].user => i = j
<1>0. /\ routes \in Seq(Entry) /\ Len(routes) \in Nat /\ DOMAIN routes = 1..Len(routes)
      /\ \A i, j \in DOMAIN routes : routes[i].user = routes[j].user => i = j
  BY DEF RouteType
<1>1. CASE ~ \E i \in DOMAIN routes : routes[i].user = u
  <2>1. Others(u) = routes
    BY <1>1 DEF Others
  <2> QED
    BY <1>0, <1>1, <2>1
<1>2. CASE \E i \in DOMAIN routes : routes[i].user = u
  <2> DEFINE n == CHOOSE i \in DOMAIN routes : routes[i].user = u
             o == RemoveAt(routes, n)
  <2>1. n \in DOMAIN routes /\ routes[n].user = u
    BY <1>2
  <2>2. Others(u) = o
    BY <1>2 DEF Others
  <2> HIDE DEF n
  <2>3. /\ o \in Seq(Entry) /\ Len(o) = Len(routes) - 1
        /\ \A i \in 1..(Len(routes) - 1) : o[i] = routes[IF i < n THEN i ELSE i + 1]
    <3>1. routes \in Seq(Entry)
      BY <1>0
    <3> QED
      BY <2>1, <3>1, RemoveAtFacts
  <2> HIDE DEF o
  <2>4. DOMAIN o = 1..(Len(routes) - 1)
    BY <2>3
  <2>5. \A i \in DOMAIN o :
          /\ (IF i < n THEN i ELSE i + 1) \in DOMAIN routes
          /\ (IF i < n THEN i ELSE i + 1) # n
    BY <1>0, <2>1, <2>4
  <2>6. \A i \in DOMAIN o : o[i].user # u /\ \E k \in DOMAIN routes : o[i] = routes[k]
    BY <1>0, <2>1, <2>3, <2>4, <2>5
  <2>7. ASSUME NEW i \in DOMAIN o, NEW j \in DOMAIN o, o[i].user = o[j].user
        PROVE  i = j
    <3>1. (IF i < n THEN i ELSE i + 1) = (IF j < n THEN j ELSE j + 1)
      BY <1>0, <2>3, <2>4, <2>5, <2>7
    <3> QED
      BY <1>0, <2>1, <2>4, <3>1
  <2>8. Len(o) <= Len(routes)
    BY <1>0, <2>3
  <2> QED
    BY <2>2, <2>3, <2>6, <2>7, <2>8
<1> QED
  BY <1>1, <1>2

LEMMA RoutedFacts ==
  ASSUME RouteType, NEW u \in User, NEW c \in Chat
  PROVE  /\ Routed(u, c) \in Seq(Entry) /\ Len(Routed(u, c)) <= CacheOf(platform)
         /\ \A i \in DOMAIN Routed(u, c) :
              \/ Routed(u, c)[i] = [user |-> u, chat |-> c]
              \/ \E n \in DOMAIN routes : Routed(u, c)[i] = routes[n] /\ routes[n].user # u
         /\ \A i, j \in DOMAIN Routed(u, c) : Routed(u, c)[i].user = Routed(u, c)[j].user => i = j
<1> DEFINE o == Others(u)  e == [user |-> u, chat |-> c]  rs == Append(o, e)
           max == CacheOf(platform)  n == Len(o)
<1>1. max \in Nat
  BY CacheIsNat
<1>2. /\ o \in Seq(Entry) /\ n <= max /\ n \in Nat
      /\ \A i \in DOMAIN o : o[i].user # u /\ \E k \in DOMAIN routes : o[i] = routes[k]
      /\ \A i, j \in DOMAIN o : o[i].user = o[j].user => i = j
  <2>1. Len(routes) \in Nat /\ Len(routes) <= max
    BY DEF RouteType
  <2> QED
    BY <1>1, <2>1, OthersFacts
<1>3. e \in Entry /\ e.user = u
  BY DEF Entry
<1>4. Routed(u, c) = IF Len(rs) > max THEN Tail(rs) ELSE rs
  BY DEF Routed
<1> HIDE DEF o, max
<1>5. /\ rs \in Seq(Entry) /\ Len(rs) = n + 1 /\ rs[n + 1] = e /\ DOMAIN rs = 1..(n + 1)
      /\ \A i \in 1..n : rs[i] = o[i]
  BY <1>2, <1>3, AppendProperties
<1> HIDE DEF rs, e
<1>6. DOMAIN o = 1..n
  BY <1>2
<1>7. \A i \in DOMAIN rs :
        rs[i] = e \/ \E k \in DOMAIN routes : rs[i] = routes[k] /\ routes[k].user # u
  BY <1>2, <1>5, <1>6
<1>8. \A i, j \in DOMAIN rs : rs[i].user = rs[j].user => i = j
  <2> SUFFICES ASSUME NEW i \in 1..(n + 1), NEW j \in 1..(n + 1), rs[i].user = rs[j].user
               PROVE  i = j
    BY <1>5
  <2>1. CASE i \in 1..n /\ j \in 1..n
    BY <1>2, <1>5, <1>6, <2>1
  <2>2. CASE i = n + 1 /\ j \in 1..n
    BY <1>2, <1>3, <1>5, <1>6, <2>2
  <2>3. CASE i \in 1..n /\ j = n + 1
    BY <1>2, <1>3, <1>5, <1>6, <2>3
  <2> QED
    BY <1>2, <2>1, <2>2, <2>3
<1>9. CASE ~ Len(rs) > max
  <2>1. Routed(u, c) = rs /\ Len(rs) <= max
    BY <1>1, <1>2, <1>4, <1>5, <1>9
  <2>2. e = [user |-> u, chat |-> c] /\ max = CacheOf(platform)
    BY DEF e, max
  <2> QED
    BY <1>5, <1>7, <1>8, <2>1, <2>2
<1>10. CASE Len(rs) > max
  <2> DEFINE t == Tail(rs)
  <2>1. Routed(u, c) = t
    BY <1>4, <1>10
  <2>2. rs # <<>>
    BY <1>2, <1>5
  <2>3. /\ t \in Seq(Entry) /\ Len(t) = n /\ DOMAIN t = 1..n
        /\ \A i \in 1..n : t[i] = rs[i + 1] /\ i + 1 \in DOMAIN rs
    BY <1>2, <1>5, <2>2, HeadTailProperties
  <2> HIDE DEF t
  <2>4. \A i, j \in DOMAIN t : t[i].user = t[j].user => i = j
    <3> SUFFICES ASSUME NEW i \in 1..n, NEW j \in 1..n, t[i].user = t[j].user
                 PROVE  i = j
      BY <2>3
    <3>1. i + 1 = j + 1
      BY <1>8, <2>3
    <3> QED
      BY <1>2, <3>1
  <2>5. \A i \in DOMAIN t : t[i] = e \/ \E k \in DOMAIN routes : t[i] = routes[k] /\ routes[k].user # u
    BY <1>7, <2>3
  <2>6. e = [user |-> u, chat |-> c] /\ max = CacheOf(platform)
    BY DEF e, max
  <2> QED
    BY <1>2, <2>1, <2>3, <2>4, <2>5, <2>6
<1> QED
  BY <1>9, <1>10

LEMMA RouteOfFacts ==
  ASSUME NEW u
  PROVE  \/ RouteOf(u) = "direct"
         \/ \E i \in DOMAIN routes : routes[i].user = u /\ RouteOf(u) = routes[i].chat
<1>1. CASE ~ \E e \in ToSet(routes) : e.user = u
  BY <1>1 DEF RouteOf
<1>2. CASE \E e \in ToSet(routes) : e.user = u
  <2> DEFINE e == CHOOSE x \in ToSet(routes) : x.user = u
  <2>1. e \in ToSet(routes) /\ e.user = u
    BY <1>2
  <2>2. RouteOf(u) = e.chat
    BY <1>2 DEF RouteOf
  <2> QED
    BY <2>1, <2>2 DEF ToSet
<1> QED
  BY <1>1, <1>2

--------------------------------------------------------------------------------
(* The messages.                                                              *)

LEMMA FateFacts ==
  /\ Pending \in Fate /\ Cutting \in Fate /\ Nothing \in Place /\ Pending # Cutting
  /\ Pending.where = Nothing /\ Cutting.where = Nothing
BY DEF Pending, Cutting, Fate, Place

LEMMA MessageDomains ==
  ASSUME MessageType
  PROVE  /\ Len(posted) \in Nat /\ DOMAIN posted = 1..Len(posted)
         /\ DOMAIN handler = 1..Len(posted) /\ DOMAIN fate = 1..Len(posted)
         /\ \A m \in DOMAIN posted : posted[m] \in PostedMessage /\ fate[m] \in Fate
         /\ \A i \in DOMAIN down : down[i] \in Frame
BY DEF MessageType

LEMMA PostedKeepsMessages ==
  ASSUME MessageInv, platform' = platform, NEW u \in User, NEW c \in Place,
         NEW k \in {"text", "voice", "speech"}, Posted(u, c, k)
  PROVE  MessageInv'
<1> DEFINE n == Len(posted)
<1>1. /\ MessageType /\ n \in Nat /\ DOMAIN posted = 1..n
      /\ DOMAIN handler = 1..n /\ DOMAIN fate = 1..n
  BY MessageDomains DEF MessageInv
<1>2. [user |-> u, chat |-> c, kind |-> k] \in PostedMessage
  BY DEF PostedMessage
<1>3. /\ posted' \in Seq(PostedMessage) /\ Len(posted') = n + 1 /\ DOMAIN posted' = 1..(n + 1)
      /\ posted'[n + 1] = [user |-> u, chat |-> c, kind |-> k]
      /\ \A m \in 1..n : posted'[m] = posted[m]
  BY <1>1, <1>2, AppendProperties DEF Posted, MessageType
<1>4. \E at \in {"fetch", "done"} :
        /\ handler' = Append(handler, at)
        /\ at = "fetch" => c \in Chat /\ atCore' = atCore /\ fate' = Append(fate, Pending)
        /\ n + 1 \in atCore' => fate' = Append(fate, Pending)
  <2>1. n + 1 \notin atCore
    BY <1>1 DEF MessageType
  <2> QED
    BY <1>3, <2>1 DEF Posted
<1>5. PICK at \in {"fetch", "done"} :
        /\ handler' = Append(handler, at)
        /\ at = "fetch" => c \in Chat /\ atCore' = atCore /\ fate' = Append(fate, Pending)
        /\ n + 1 \in atCore' => fate' = Append(fate, Pending)
  BY <1>4
<1>6. /\ handler' \in Seq({"fetch", "send", "done"}) /\ Len(handler') = n + 1
      /\ handler'[n + 1] = at /\ \A m \in 1..n : handler'[m] = handler[m]
  <2>1. handler \in Seq({"fetch", "send", "done"}) /\ Len(handler) = n
    BY <1>1 DEF MessageType
  <2> QED
    BY <1>1, <1>5, <2>1, AppendProperties
<1>7. PICK f \in {Pending, Cutting} : fate' = Append(fate, f)
  BY DEF Posted
<1>8. /\ fate' \in Seq(Fate) /\ Len(fate') = n + 1
      /\ fate'[n + 1] = f /\ \A m \in 1..n : fate'[m] = fate[m]
  <2>1. fate \in Seq(Fate) /\ Len(fate) = n /\ f \in Fate
    BY <1>1, FateFacts DEF MessageType
  <2> QED
    BY <1>1, <1>7, <2>1, AppendProperties
<1>9. /\ atCore' \subseteq atCore \cup {n + 1} /\ atCore \subseteq 1..n
      /\ UNCHANGED <<down, showing>>
  BY <1>1, <1>3 DEF Posted, MessageType
<1> HIDE DEF n
<1>10. MessageType'
  <2>1. atCore' \subseteq DOMAIN posted'
    BY <1>1, <1>3, <1>9
  <2>2. \A m \in DOMAIN posted' : handler'[m] # "done" => posted'[m].chat \in Chat
    <3> SUFFICES ASSUME NEW m \in 1..(n + 1), handler'[m] # "done"
                 PROVE  posted'[m].chat \in Chat
      BY <1>3
    <3>1. CASE m \in 1..n
      BY <1>1, <1>3, <1>6, <3>1 DEF MessageType
    <3>2. CASE m = n + 1
      BY <1>3, <1>5, <1>6, <3>2
    <3> QED
      BY <1>1, <3>1, <3>2
  <2> QED
    BY <1>1, <1>3, <1>6, <1>8, <1>9, <2>1, <2>2 DEF MessageType
<1>11. FrameInv'
  <2>1. \A g, m : For(g, m) => For(g, m)'
    BY <1>1, <1>3 DEF For
  <2> QED
    BY <1>9, <2>1 DEF MessageInv, FrameInv
<1>12. OneWay'
  <2> SUFFICES ASSUME NEW m \in 1..(n + 1)
               PROVE  /\ handler'[m] # "done" \/ m \in atCore' => fate'[m] = Pending /\ ~Returning(m)'
                      /\ m \in atCore' => handler'[m] = "done"
    BY <1>3 DEF OneWay
  <2>1. CASE m \in 1..n
    BY <1>1, <1>6, <1>8, <1>9, <2>1 DEF MessageInv, OneWay, Returning
  <2>2. CASE m = n + 1
    <3>1. ~Returning(m)
      BY <1>1, <2>2 DEF Returning, MessageInv, FrameInv, For
    <3>2. ~Returning(m)'
      BY <1>9, <3>1 DEF Returning
    <3>3. m \in atCore' => at = "done" /\ f = Pending
      <4>1. fate' = Append(fate, Pending) => f = Pending
        <5>1. Append(fate, Pending)[n + 1] = Pending
          BY <1>1, AppendProperties, FateFacts DEF MessageType, n
        <5> QED
          BY <1>8, <5>1
      <4> QED
        BY <1>1, <1>5, <1>9, <2>2, <4>1
    <3>4. at = "fetch" => f = Pending
      <4>1. Append(fate, Pending)[n + 1] = Pending
        BY <1>1, AppendProperties, FateFacts DEF MessageType, n
      <4> QED
        BY <1>5, <1>8, <4>1
    <3> QED
      BY <1>5, <1>6, <1>8, <2>2, <3>2, <3>3, <3>4
  <2> QED
    BY <1>1, <2>1, <2>2
<1> QED
  BY <1>10, <1>11, <1>12 DEF MessageInv

\* A message goes on in its handler.
LEMMA HandlingKeepsMessages ==
  ASSUME MessageInv, platform' = platform, NEW m \in DOMAIN posted, Fetched(m) \/ Forward(m)
  PROVE  MessageInv'
<1>1. /\ MessageType /\ DOMAIN handler = DOMAIN posted /\ DOMAIN fate = DOMAIN posted
  BY MessageDomains DEF MessageInv
<1>2. \E at \in {"send", "done"} : handler' = [handler EXCEPT ![m] = at]
  BY DEF Fetched, Forward
<1>3. UNCHANGED <<posted, down, showing>> /\ handler[m] # "done"
  BY DEF Fetched, Forward
<1>4. \/ atCore' = atCore /\ fate' = fate
      \/ atCore' = atCore \cup {m} /\ fate' = fate /\ handler' = [handler EXCEPT ![m] = "done"]
      \/ atCore' = atCore /\ fate' = [fate EXCEPT ![m] = Cutting]
           /\ handler' = [handler EXCEPT ![m] = "done"]
  BY DEF Fetched, Forward, Resolved, Cutting
<1>5. MessageType'
  <2>1. handler' \in Seq({"fetch", "send", "done"}) /\ Len(handler') = Len(posted)
    BY <1>1, <1>2, ExceptSeq DEF MessageType
  <2>2. fate' \in Seq(Fate) /\ Len(fate') = Len(posted)
    <3>1. fate' = fate \/ fate' = [fate EXCEPT ![m] = Cutting]
      BY <1>4
    <3>2. [fate EXCEPT ![m] = Cutting] \in Seq(Fate) /\ Len([fate EXCEPT ![m] = Cutting]) = Len(fate)
      BY <1>1, ExceptSeq, FateFacts DEF MessageType
    <3> QED
      BY <1>1, <3>1, <3>2 DEF MessageType
  <2>3. \A n \in DOMAIN posted : handler'[n] # "done" => posted[n].chat \in Chat
    BY <1>1, <1>2, <1>3 DEF MessageType
  <2> QED
    BY <1>1, <1>3, <1>4, <2>1, <2>2, <2>3 DEF MessageType
<1>6. FrameInv'
  BY <1>3 DEF MessageInv, FrameInv, For
<1>7. OneWay'
  <2> SUFFICES ASSUME NEW n \in DOMAIN posted
               PROVE  /\ handler'[n] # "done" \/ n \in atCore' => fate'[n] = Pending /\ ~Returning(n)'
                      /\ n \in atCore' => handler'[n] = "done"
    BY <1>3 DEF OneWay
  <2>1. Returning(n)' <=> Returning(n)
    BY <1>3 DEF Returning
  <2>2. /\ handler[n] # "done" \/ n \in atCore => fate[n] = Pending /\ ~Returning(n)
        /\ n \in atCore => handler[n] = "done"
    BY DEF MessageInv, OneWay
  <2>3. CASE n = m
    BY <1>1, <1>2, <1>3, <1>4, <2>1, <2>2, <2>3
  <2>4. CASE n # m
    BY <1>1, <1>2, <1>4, <2>1, <2>2, <2>4
  <2> QED
    BY <2>3, <2>4
<1> QED
  BY <1>5, <1>6, <1>7 DEF MessageInv

LEMMA AnswerKeepsMessages ==
  ASSUME MessageInv, platform' = platform, NEW m \in atCore, Answer(m)
  PROVE  MessageInv'
<1>1. /\ MessageType /\ m \in DOMAIN posted /\ m \in Nat /\ m # 0
      /\ posted[m].user \in User /\ down \in Seq(Frame) /\ Len(down) \in Nat
  <2>1. MessageType /\ m \in DOMAIN posted
    BY DEF MessageInv, MessageType
  <2> QED
    BY <2>1, MessageDomains DEF PostedMessage, MessageType
<1>2. PICK images \in BOOLEAN :
        down' = Append(down, [user |-> posted[m].user, re |-> m, images |-> images])
  BY DEF Answer
<1> DEFINE f == [user |-> posted[m].user, re |-> m, images |-> images]  n == Len(down)
<1>3. f \in Frame /\ For(f, m) /\ f.re = m
  BY <1>1 DEF Frame, For
<1>4. down' = Append(down, f)
  BY <1>2
<1> HIDE DEF f
<1>5. /\ down' \in Seq(Frame) /\ DOMAIN down' = 1..(n + 1) /\ down'[n + 1] = f
      /\ DOMAIN down = 1..n /\ \A i \in 1..n : down'[i] = down[i]
  BY <1>1, <1>3, <1>4, AppendProperties
<1>6. atCore' = atCore \ {m} /\ UNCHANGED <<posted, handler, fate, showing>>
  BY DEF Answer, text
<1> HIDE DEF n
<1>7. MessageType'
  BY <1>1, <1>5, <1>6 DEF MessageType
<1>8. FrameInv'
  <2>1. \A g, k : For(g, k)' <=> For(g, k)
    BY <1>6 DEF For
  <2>2. \A i \in DOMAIN down' : down'[i].re # 0 => For(down'[i], down'[i].re)
    <3> SUFFICES ASSUME NEW i \in 1..(n + 1), down'[i].re # 0
                 PROVE  For(down'[i], down'[i].re)
      BY <1>5
    <3>1. CASE i \in 1..n
      BY <1>5, <3>1 DEF MessageInv, FrameInv
    <3>2. CASE i = n + 1
      BY <1>3, <1>5, <3>2
    <3>3. n \in Nat
      BY <1>1 DEF n
    <3> QED
      BY <3>1, <3>2, <3>3
  <2> QED
    BY <1>6, <2>1, <2>2 DEF MessageInv, FrameInv
<1>9. OneWay'
  <2> SUFFICES ASSUME NEW k \in DOMAIN posted
               PROVE  /\ handler[k] # "done" \/ k \in atCore' => fate[k] = Pending /\ ~Returning(k)'
                      /\ k \in atCore' => handler[k] = "done"
    BY <1>6 DEF OneWay
  <2>1. handler[m] = "done"
    BY <1>1 DEF MessageInv, OneWay
  <2>2. CASE k = m
    BY <1>6, <2>1, <2>2
  <2>3. CASE k # m
    <3>1. \A i \in DOMAIN down' : down'[i].re = k => i \in DOMAIN down /\ down[i].re = k
      <4> TAKE i \in DOMAIN down'
      <4>1. i \in 1..n \/ i = n + 1
        <5>1. n \in Nat
          BY <1>1 DEF n
        <5> QED
          BY <1>5, <5>1
      <4> QED
        BY <1>3, <1>5, <2>3, <4>1
    <3>2. Returning(k)' => Returning(k)
      BY <1>6, <3>1 DEF Returning
    <3> QED
      BY <1>6, <2>3, <3>2 DEF MessageInv, OneWay
  <2> QED
    BY <2>2, <2>3
<1> QED
  BY <1>7, <1>8, <1>9 DEF MessageInv

LEMMA GreetKeepsMessages ==
  ASSUME MessageInv, platform' = platform, NEW u \in User, Greet(u)
  PROVE  MessageInv'
<1>1. MessageType /\ down \in Seq(Frame) /\ Len(down) \in Nat
  BY DEF MessageInv, MessageType
<1> DEFINE f == [user |-> u, re |-> 0, images |-> FALSE]  n == Len(down)
<1>3. f \in Frame /\ f.re = 0
  BY DEF Frame
<1>4. down' = Append(down, f)
  BY DEF Greet
<1> HIDE DEF f
<1>5. /\ down' \in Seq(Frame) /\ DOMAIN down' = 1..(n + 1) /\ down'[n + 1] = f
      /\ DOMAIN down = 1..n /\ \A i \in 1..n : down'[i] = down[i]
  BY <1>1, <1>3, <1>4, AppendProperties
<1>6. atCore' = atCore /\ UNCHANGED <<posted, handler, fate, showing>>
  BY DEF Greet, text
<1>2. n \in Nat
  BY <1>1
<1> HIDE DEF n
<1>0. \A i \in DOMAIN down' : (i \in DOMAIN down /\ down'[i] = down[i]) \/ down'[i] = f
  BY <1>2, <1>5
<1>7. MessageType'
  BY <1>1, <1>5, <1>6 DEF MessageType
<1>8. FrameInv'
  BY <1>0, <1>3, <1>6 DEF MessageInv, FrameInv, For
<1>9. OneWay'
  <2>1. \A k \in DOMAIN posted : Returning(k)' => Returning(k)
    <3>1. 0 \notin DOMAIN posted
      BY <1>1, MessageDomains
    <3> QED
      BY <1>0, <1>3, <1>6, <3>1 DEF Returning
  <2> QED
    BY <1>6, <2>1 DEF MessageInv, OneWay
<1> QED
  BY <1>7, <1>8, <1>9 DEF MessageInv

LEMMA DispatchKeepsMessages ==
  ASSUME MessageInv, platform' = platform, Dispatch
  PROVE  MessageInv'
<1>1. MessageType /\ down \in Seq(Frame) /\ Len(down) \in Nat /\ down # <<>>
  BY DEF MessageInv, MessageType, Dispatch
<1>2. /\ down' \in Seq(Frame) /\ Head(down) \in Frame /\ Head(down) = down[1] /\ 1 \in DOMAIN down
      /\ \A i \in DOMAIN down' : i + 1 \in DOMAIN down /\ down'[i] = down[i + 1]
  <2>1. down' = Tail(down)
    BY DEF Dispatch
  <2> QED
    BY <1>1, <2>1, HeadTailProperties
<1>3. /\ showing' = [frame |-> Head(down), how |-> WayOf(Head(down))]
      /\ WayOf(Head(down)) \in Way
  BY DEF Dispatch, WayOf, Way
<1>4. UNCHANGED <<posted, handler, fate, atCore>> /\ showing = Nothing
  BY DEF Dispatch, text
<1>5. showing' \in Shown /\ showing'.frame = down[1]
  BY <1>2, <1>3 DEF Shown
<1>6. MessageType'
  BY <1>1, <1>2, <1>4, <1>5 DEF MessageType
<1>7. FrameInv'
  <2>1. \A g, k : For(g, k)' <=> For(g, k)
    BY <1>4 DEF For
  <2>2. \A i \in DOMAIN down : down[i].re # 0 => For(down[i], down[i].re)
    BY DEF MessageInv, FrameInv
  <2> QED
    BY <1>2, <1>5, <2>1, <2>2 DEF FrameInv
<1>8. OneWay'
  <2>1. \A k \in DOMAIN posted : Returning(k)' => Returning(k)
    BY <1>2, <1>5 DEF Returning
  <2> QED
    BY <1>4, <2>1 DEF MessageInv, OneWay
<1> QED
  BY <1>6, <1>7, <1>8 DEF MessageInv

LEMMA CutKeepsMessages ==
  ASSUME MessageInv, platform' = platform, Cut
  PROVE  MessageInv'
<1>1. /\ MessageType /\ Len(posted) \in Nat /\ DOMAIN posted = 1..Len(posted)
      /\ DOMAIN fate = 1..Len(posted)
      /\ \A m \in DOMAIN posted : fate[m] \in Fate
  BY MessageDomains DEF MessageInv
<1>2. /\ down' = <<>> /\ atCore' = {} /\ UNCHANGED <<posted, handler, showing>>
      /\ fate' = [m \in DOMAIN fate |->
           IF m \in atCore \/ \E i \in DOMAIN down : down[i].re = m THEN Cutting ELSE fate[m]]
  BY DEF Cut, Cutting, text
<1>3. fate' \in Seq(Fate) /\ Len(fate') = Len(posted)
  <2>1. \A m \in 1..Len(posted) : fate'[m] \in Fate
    BY <1>1, <1>2, FateFacts
  <2>2. fate' \in [1..Len(posted) -> Fate]
    BY <1>1, <1>2, <2>1
  <2> QED
    BY <1>1, <2>2, IsASeq
<1>4. MessageType'
  <2>1. down' \in Seq(Frame)
    BY <1>2
  <2> QED
    BY <1>1, <1>2, <1>3, <2>1 DEF MessageType
<1>5. FrameInv'
  BY <1>2 DEF MessageInv, FrameInv, For
<1>6. OneWay'
  <2> SUFFICES ASSUME NEW k \in DOMAIN posted, handler[k] # "done"
               PROVE  fate'[k] = Pending /\ ~Returning(k)'
    BY <1>2 DEF OneWay
  <2>1. fate[k] = Pending /\ ~Returning(k) /\ k \notin atCore
    BY DEF MessageInv, OneWay
  <2> QED
    BY <1>1, <1>2, <2>1 DEF Returning
<1> QED
  BY <1>4, <1>5, <1>6 DEF MessageInv

\* How a step of Show ends.
LEMMA ShowMoves ==
  ASSUME Show
  PROVE  /\ showing # Nothing /\ UNCHANGED <<posted, handler, atCore, down, routes>>
         /\ \/ showing.how \in {"voice", "images"} /\ fate' = fate /\ excused' = excused
               /\ showing' = [showing EXCEPT !.how = "text"]
            \/ \E where \in {RouteOf(showing.frame.user), "direct", "vc"},
                  how \in {"voice", "images", "text", "spoken"} :
                 Ends(where, how) /\ excused' = excused
            \/ Refused
<1>1. CASE ShowOther
  BY <1>1 DEF ShowOther, text, core
<1>2. CASE LoseCaption
  BY <1>2 DEF LoseCaption, text, core
<1>3. CASE OtherFails
  BY <1>3 DEF OtherFails, text, core
<1>4. ASSUME NEW where \in {RouteOf(showing.frame.user), "direct"}, WriteTo(where)
      PROVE  /\ showing # Nothing /\ UNCHANGED <<posted, handler, atCore, down, routes>>
             /\ (Ends(where, "text") /\ excused' = excused) \/ Refused
  BY <1>4 DEF WriteTo, core
<1>5. CASE Write
  <2>1. \E where \in {RouteOf(showing.frame.user), "direct"} : WriteTo(where)
    BY <1>5 DEF Write, SendToDiscord, SendToTelegram, SendToSlack, SendToLine, SendToWhatsApp,
                SendToSignal
  <2> QED
    BY <1>4, <2>1
<1>6. CASE Speak
  BY <1>6 DEF Speak, text, core
<1> QED
  BY <1>1, <1>2, <1>3, <1>5, <1>6 DEF Show

LEMMA ShowKeepsMessages ==
  ASSUME MessageInv, ChannelInv, platform' = platform, Show
  PROVE  MessageInv'
<1>1. /\ MessageType /\ Len(posted) \in Nat /\ DOMAIN posted = 1..Len(posted)
      /\ DOMAIN fate = DOMAIN posted
  BY MessageDomains DEF MessageInv
<1>2. showing \in Shown /\ showing # Nothing /\ UNCHANGED <<posted, handler, atCore, down>>
  BY <1>1, ShowMoves DEF MessageType
<1>3. ASSUME NEW where \in Place,
             NEW how \in {"voice", "images", "text", "spoken", "lost"}, Ends(where, how)
      PROVE  MessageInv'
  <2> DEFINE re == showing.frame.re
  <2>1. /\ showing' = Nothing
        /\ fate' = fate \/ (re # 0 /\ fate' = [fate EXCEPT ![re] = [where |-> where, how |-> how]])
    BY <1>3 DEF Ends, Resolved
  <2>2. [where |-> where, how |-> how] \in Fate
    BY DEF Fate
  <2>3. fate' \in Seq(Fate) /\ Len(fate') = Len(posted)
    <3>1. CASE fate' = fate
      BY <1>1, <3>1 DEF MessageType
    <3>2. CASE re # 0 /\ fate' = [fate EXCEPT ![re] = [where |-> where, how |-> how]]
      <4>1. re \in DOMAIN fate
        BY <1>1, <1>2, <3>2 DEF MessageInv, FrameInv, For
      <4> QED
        BY <1>1, <2>2, <3>2, <4>1, ExceptSeq DEF MessageType
    <3> QED
      BY <2>1, <3>1, <3>2
  <2>4. MessageType'
    BY <1>1, <1>2, <2>1, <2>3 DEF MessageType
  <2>5. FrameInv'
    BY <1>2, <2>1 DEF MessageInv, FrameInv, For
  <2>6. OneWay'
    <3> SUFFICES ASSUME NEW k \in DOMAIN posted
                 PROVE  /\ handler[k] # "done" \/ k \in atCore => fate'[k] = Pending /\ ~Returning(k)'
                        /\ k \in atCore => handler[k] = "done"
      BY <1>2 DEF OneWay
    <3>1. Returning(k)' => Returning(k)
      BY <1>2, <2>1 DEF Returning
    <3>2. re = k => Returning(k)
      BY <1>2 DEF Returning
    <3>3. re # k => fate'[k] = fate[k]
      <4>1. k \in DOMAIN fate /\ fate \in Seq(Fate)
        BY <1>1 DEF MessageType
      <4> QED
        BY <2>1, <4>1
    <3> QED
      BY <3>1, <3>2, <3>3 DEF MessageInv, OneWay
  <2> QED
    BY <2>4, <2>5, <2>6 DEF MessageInv
<1>4. ASSUME fate' = fate, showing' = [showing EXCEPT !.how = "text"]
      PROVE  MessageInv'
  <2>1. showing' \in Shown /\ showing'.frame = showing.frame
    BY <1>2, <1>4 DEF Shown, Way
  <2>2. MessageType'
    BY <1>1, <1>2, <1>4, <2>1 DEF MessageType
  <2>3. FrameInv'
    BY <1>2, <2>1 DEF MessageInv, FrameInv, For
  <2>4. OneWay'
    <3>1. \A k : Returning(k)' => Returning(k)
      BY <1>2, <2>1 DEF Returning
    <3> QED
      BY <1>2, <1>4, <3>1 DEF MessageInv, OneWay
  <2> QED
    BY <2>2, <2>3, <2>4 DEF MessageInv
<1>5. RouteOf(showing.frame.user) \in Place
  <2>1. \A i \in DOMAIN routes : routes[i].chat \in Chat
    <3>1. \A i \in DOMAIN routes : routes[i] \in Entry
      BY DEF ChannelInv, RouteType
    <3> QED
      BY <3>1 DEF Entry
  <2> QED
    BY <2>1, RouteOfFacts DEF Place
<1>6. CASE Refused
  BY <1>3, <1>6, FateFacts DEF Refused
<1>7. ASSUME NEW where \in {RouteOf(showing.frame.user), "direct", "vc"},
             NEW how \in {"voice", "images", "text", "spoken"}, Ends(where, how)
      PROVE  MessageInv'
  <2>1. where \in Place
    BY <1>5 DEF Place
  <2> QED
    BY <1>3, <1>7, <2>1
<1> QED
  BY <1>4, <1>6, <1>7, ShowMoves

LEMMA StepKeepsMessages ==
  ASSUME MessageInv, ChannelInv, VoiceInv, ReceiverType, AdapterNext
  PROVE  MessageInv'
<1>1. CASE UNCHANGED messages /\ platform' = platform
  BY <1>1
  DEF messages, MessageInv, MessageType, FrameInv, For, OneWay, Returning
<1> QED
  BY <1>1, StepOfMessages, CutKeepsMessages, DispatchKeepsMessages, ShowKeepsMessages,
     GreetKeepsMessages, PostedKeepsMessages, HandlingKeepsMessages, AnswerKeepsMessages

--------------------------------------------------------------------------------
(* Where the answers go.                                                      *)

LEMMA PostedKeepsChannels ==
  ASSUME MessageInv, ChannelInv, platform' = platform, NEW u \in User, NEW c \in Place,
         NEW k \in {"text", "voice", "speech"}, Posted(u, c, k)
  PROVE  ChannelInv'
<1> DEFINE n == Len(posted)
<1>1. /\ n \in Nat /\ DOMAIN posted = 1..n
  BY MessageDomains DEF MessageInv
<1>2. /\ DOMAIN posted' = 1..(n + 1)
      /\ posted'[n + 1] = [user |-> u, chat |-> c, kind |-> k]
      /\ \A m \in 1..n : posted'[m] = posted[m]
  <2>1. /\ posted \in Seq(PostedMessage) /\ [user |-> u, chat |-> c, kind |-> k] \in PostedMessage
    BY DEF MessageInv, MessageType, PostedMessage
  <2> QED
    BY <1>1, <2>1, AppendProperties DEF Posted
<1>3. "direct" \notin Chat /\ "vc" \notin Chat
  BY AdapterFacts
<1> HIDE DEF n
<1>4. CASE c \in Chat /\ platform \notin {"line", "whatsapp", "signal"} /\ routes' = Routed(u, c)
  <2>1. RouteType'
    BY <1>4, RoutedFacts DEF ChannelInv, RouteType, CacheOf
  <2>2. RouteInv'
    <3> SUFFICES ASSUME NEW i \in DOMAIN routes'
                 PROVE  \E x \in DOMAIN posted' :
                          /\ posted'[x].user = routes'[i].user /\ posted'[x].chat = routes'[i].chat
                          /\ \A m \in DOMAIN posted' :
                               posted'[m].user = routes'[i].user /\ posted'[m].chat # "vc" => m <= x
      BY DEF RouteInv
    <3>1. \/ routes'[i] = [user |-> u, chat |-> c]
          \/ \E j \in DOMAIN routes : routes'[i] = routes[j] /\ routes[j].user # u
      BY <1>4, RoutedFacts DEF ChannelInv
    <3>2. CASE routes'[i] = [user |-> u, chat |-> c]
      <4>1. n + 1 \in DOMAIN posted' /\ \A m \in DOMAIN posted' : m <= n + 1
        BY <1>1, <1>2
      <4> QED
        BY <1>2, <3>2, <4>1
    <3>3. ASSUME NEW j \in DOMAIN routes, routes'[i] = routes[j], routes[j].user # u
          PROVE  \E x \in DOMAIN posted' :
                   /\ posted'[x].user = routes'[i].user /\ posted'[x].chat = routes'[i].chat
                   /\ \A m \in DOMAIN posted' :
                        posted'[m].user = routes'[i].user /\ posted'[m].chat # "vc" => m <= x
      <4>1. PICK x \in DOMAIN posted :
              /\ posted[x].user = routes[j].user /\ posted[x].chat = routes[j].chat
              /\ \A m \in DOMAIN posted :
                   posted[m].user = routes[j].user /\ posted[m].chat # "vc" => m <= x
        BY DEF ChannelInv, RouteInv
      <4>2. x \in DOMAIN posted' /\ posted'[x] = posted[x]
        BY <1>1, <1>2
      <4>3. \A m \in DOMAIN posted' :
              posted'[m].user = routes[j].user /\ posted'[m].chat # "vc" => m <= x
        <5> SUFFICES ASSUME NEW m \in 1..(n + 1), posted'[m].user = routes[j].user,
                            posted'[m].chat # "vc"
                     PROVE  m <= x
          BY <1>2
        <5>1. m # n + 1
          BY <1>2, <3>3
        <5>2. m \in 1..n
          BY <1>1, <5>1
        <5> QED
          BY <1>1, <1>2, <4>1, <5>2
      <4> QED
        BY <3>3, <4>1, <4>2, <4>3
    <3> QED
      BY <3>1, <3>2, <3>3
  <2>3. PlainInv'
    BY <1>4 DEF PlainInv
  <2> QED
    BY <2>1, <2>2, <2>3 DEF ChannelInv
<1>5. CASE c = "direct" /\ platform \in {"line", "whatsapp", "signal"} /\ routes' = routes
  <2>1. routes = <<>>
    BY <1>5 DEF ChannelInv, PlainInv
  <2> QED
    BY <1>5, <2>1 DEF ChannelInv, RouteType, CacheOf, RouteInv, PlainInv
<1>6. CASE c = "vc" /\ routes' = routes
  <2>1. RouteInv'
    <3> SUFFICES ASSUME NEW i \in DOMAIN routes
                 PROVE  \E x \in DOMAIN posted' :
                          /\ posted'[x].user = routes[i].user /\ posted'[x].chat = routes[i].chat
                          /\ \A m \in DOMAIN posted' :
                               posted'[m].user = routes[i].user /\ posted'[m].chat # "vc" => m <= x
      BY <1>6 DEF RouteInv
    <3>1. PICK x \in DOMAIN posted :
            /\ posted[x].user = routes[i].user /\ posted[x].chat = routes[i].chat
            /\ \A m \in DOMAIN posted :
                 posted[m].user = routes[i].user /\ posted[m].chat # "vc" => m <= x
      BY DEF ChannelInv, RouteInv
    <3>2. x \in DOMAIN posted' /\ posted'[x] = posted[x]
      BY <1>1, <1>2
    <3>3. \A m \in DOMAIN posted' :
            posted'[m].user = routes[i].user /\ posted'[m].chat # "vc" => m <= x
      <4> SUFFICES ASSUME NEW m \in 1..(n + 1), posted'[m].user = routes[i].user,
                          posted'[m].chat # "vc"
                   PROVE  m <= x
        BY <1>2
      <4>1. m # n + 1
        BY <1>2, <1>6
      <4>2. m \in 1..n
        BY <1>1, <4>1
      <4> QED
        BY <1>1, <1>2, <3>1, <4>2
    <3> QED
      BY <3>1, <3>2, <3>3
  <2> QED
    BY <1>6, <2>1 DEF ChannelInv, RouteType, CacheOf, PlainInv
<1> QED
  BY <1>4, <1>5, <1>6 DEF Posted

LEMMA StepKeepsChannels ==
  ASSUME MessageInv, ChannelInv, VoiceInv, ReceiverType, AdapterNext
  PROVE  ChannelInv'
<1>1. CASE UNCHANGED <<platform, posted, routes>>
  BY <1>1 DEF ChannelInv, RouteType, CacheOf, RouteInv, PlainInv
<1>2. CASE \/ UNCHANGED messages \/ Cut \/ Dispatch \/ Show \/ (\E u \in User : Greet(u))
           \/ (\E m \in DOMAIN posted : Fetched(m) \/ Forward(m)) \/ \E m \in atCore : Answer(m)
  <2>1. UNCHANGED <<posted, routes>>
    BY <1>2, ShowMoves DEF messages, Cut, Dispatch, Greet, Fetched, Forward, Answer, text
  <2> QED
    BY <1>1, <2>1, StepOfMessages
<1> QED
  BY <1>2, StepOfMessages, PostedKeepsChannels

\* An answer that is written goes to the user's own chat.
LEMMA ShowStaysWithUser ==
  ASSUME MessageInv, ChannelInv, AnswerStaysWithUser, Show
  PROVE  AnswerStaysWithUser'
<1>1. /\ MessageType /\ Len(posted) \in Nat /\ DOMAIN posted = 1..Len(posted)
      /\ DOMAIN fate = DOMAIN posted /\ fate \in Seq(Fate)
  BY MessageDomains DEF MessageInv, MessageType
<1>2. showing # Nothing /\ posted' = posted
  BY ShowMoves
<1>3. CASE fate' = fate
  BY <1>2, <1>3 DEF AnswerStaysWithUser
<1>4. ASSUME NEW where, NEW how, Ends(where, how), where \notin Chat \/ where = RouteOf(showing.frame.user)
      PROVE  AnswerStaysWithUser'
  <2> DEFINE re == showing.frame.re
  <2>1. CASE re = 0
    BY <1>3, <1>4, <2>1 DEF Ends
  <2>2. CASE re # 0
    <3>1. /\ fate' = [fate EXCEPT ![re] = [where |-> where, how |-> how]]
          /\ re \in DOMAIN posted /\ showing.frame.user = posted[re].user
      BY <1>2, <1>4, <2>2 DEF Ends, Resolved, MessageInv, FrameInv, For
    <3> HIDE DEF re
    <3> SUFFICES ASSUME NEW m \in DOMAIN posted, fate'[m].where \in Chat
                 PROVE  \E n \in DOMAIN posted :
                          /\ posted[n].user = posted[m].user /\ posted[n].chat = fate'[m].where
                          /\ n >= m \/ posted[m].chat = "vc"
      BY <1>1, <1>2, <3>1 DEF AnswerStaysWithUser
    <3>2. CASE m # re
      BY <1>1, <3>1, <3>2 DEF AnswerStaysWithUser
    <3>3. CASE m = re
      <4>1. fate'[m].where = where /\ where = RouteOf(posted[m].user) /\ where # "direct"
        BY <1>1, <1>4, <3>1, <3>3, AdapterFacts
      <4>2. PICK i \in DOMAIN routes : routes[i].user = posted[m].user /\ where = routes[i].chat
        BY <4>1, RouteOfFacts
      <4>3. PICK n \in DOMAIN posted :
              /\ posted[n].user = routes[i].user /\ posted[n].chat = routes[i].chat
              /\ \A k \in DOMAIN posted :
                   posted[k].user = routes[i].user /\ posted[k].chat # "vc" => k <= n
        BY DEF ChannelInv, RouteInv
      <4>4. n >= m \/ posted[m].chat = "vc"
        BY <1>1, <4>2, <4>3
      <4> QED
        BY <4>1, <4>2, <4>3, <4>4
    <3> QED
      BY <3>2, <3>3
  <2> QED
    BY <2>1, <2>2
<1>5. CASE Refused
  BY <1>4, <1>5, AdapterFacts DEF Refused
<1>6. ASSUME NEW where \in {RouteOf(showing.frame.user), "direct", "vc"}, NEW how, Ends(where, how)
      PROVE  AnswerStaysWithUser'
  BY <1>4, <1>6, AdapterFacts
<1> QED
  BY <1>3, <1>5, <1>6, ShowMoves

LEMMA StepStaysWithUser ==
  ASSUME MessageInv, ChannelInv, VoiceInv, ReceiverType, AnswerStaysWithUser, AdapterNext
  PROVE  AnswerStaysWithUser'
<1>1. /\ MessageType /\ Len(posted) \in Nat /\ DOMAIN posted = 1..Len(posted)
      /\ DOMAIN fate = DOMAIN posted /\ fate \in Seq(Fate)
      /\ posted \in Seq(PostedMessage) /\ Len(fate) = Len(posted)
  BY MessageDomains DEF MessageInv, MessageType
<1>2. Nothing \notin Chat
  BY AdapterFacts
\* A message that is cut off is answered nowhere.
<1>3. ASSUME posted' = posted, DOMAIN fate' = DOMAIN fate,
             \A m \in DOMAIN fate : fate'[m] = fate[m] \/ fate'[m] = Cutting
      PROVE  AnswerStaysWithUser'
  BY <1>2, <1>3, FateFacts DEF AnswerStaysWithUser
<1>4. CASE \/ UNCHANGED messages \/ Dispatch \/ (\E u \in User : Greet(u))
           \/ (\E m \in DOMAIN posted : Fetched(m)) \/ \E m \in atCore : Answer(m)
  <2>1. posted' = posted /\ fate' = fate
    BY <1>4 DEF messages, Dispatch, Greet, Fetched, Answer, text
  <2> QED
    BY <1>3, <2>1
<1>5. ASSUME NEW m \in DOMAIN posted, Forward(m)
      PROVE  AnswerStaysWithUser'
  <2>1. posted' = posted /\ (fate' = fate \/ fate' = [fate EXCEPT ![m] = Cutting])
    BY <1>5 DEF Forward, Resolved, Cutting
  <2> QED
    BY <1>1, <1>3, <2>1
<1>6. CASE Cut
  <2>1. /\ posted' = posted
        /\ fate' = [m \in DOMAIN fate |->
             IF m \in atCore \/ \E i \in DOMAIN down : down[i].re = m THEN Cutting ELSE fate[m]]
    BY <1>6 DEF Cut, Cutting, text
  <2> QED
    BY <1>3, <2>1
<1>7. ASSUME NEW u \in User, NEW c \in Place, NEW k \in {"text", "voice", "speech"}, Posted(u, c, k)
      PROVE  AnswerStaysWithUser'
  <2> DEFINE n == Len(posted)
  <2>1. PICK f \in {Pending, Cutting} : fate' = Append(fate, f)
    BY <1>7 DEF Posted
  <2>2. /\ DOMAIN posted' = 1..(n + 1) /\ \A m \in 1..n : posted'[m] = posted[m]
    <3>1. [user |-> u, chat |-> c, kind |-> k] \in PostedMessage
      BY DEF PostedMessage
    <3> QED
      BY <1>1, <1>7, <3>1, AppendProperties DEF Posted
  <2>3. /\ DOMAIN fate' = 1..(n + 1) /\ fate'[n + 1] = f /\ \A m \in 1..n : fate'[m] = fate[m]
    BY <1>1, <2>1, AppendProperties, FateFacts
  <2> HIDE DEF n
  <2> SUFFICES ASSUME NEW m \in 1..(n + 1), fate'[m].where \in Chat
               PROVE  \E x \in DOMAIN posted' :
                        /\ posted'[x].user = posted'[m].user /\ posted'[x].chat = fate'[m].where
                        /\ x >= m \/ posted'[m].chat = "vc"
    BY <2>3 DEF AnswerStaysWithUser
  <2>4. m \in 1..n
    <3>1. m # n + 1
      BY <1>2, <2>3, FateFacts
    <3> QED
      BY <1>1, <3>1 DEF n
  <2>5. PICK x \in DOMAIN posted :
          /\ posted[x].user = posted[m].user /\ posted[x].chat = fate[m].where
          /\ x >= m \/ posted[m].chat = "vc"
    BY <1>1, <2>3, <2>4 DEF AnswerStaysWithUser, n
  <2>6. x \in DOMAIN posted' /\ x \in 1..n
    BY <1>1, <2>2 DEF n
  <2> QED
    BY <2>2, <2>3, <2>4, <2>5, <2>6
<1> QED
  BY <1>4, <1>5, <1>6, <1>7, ShowStaysWithUser, StepOfMessages

--------------------------------------------------------------------------------
(* The voices.                                                                *)

LEMMA StepKeepsVoices ==
  ASSUME MessageInv, VoiceInv, ReceiverType, AdapterNext
  PROVE  VoiceInv'
<1>1. MessageType /\ \A m \in DOMAIN posted : posted[m].user \in User
  BY MessageDomains DEF MessageInv, PostedMessage
<1>2. ASSUME NEW m \in DOMAIN posted, FetchedFromTelegram(m)
      PROVE  VoiceInv'
  BY <1>1, <1>2 DEF FetchedFromTelegram, VoiceInv, voice, receiverVars
<1>3. ASSUME NEW m \in DOMAIN posted, Transcribed(m)
      PROVE  VoiceInv'
  <2>1. \/ voiced' = voiced /\ latest' = latest
        \/ /\ voiced' = voiced \cup {posted[m].user}
           /\ latest' = [latest EXCEPT ![posted[m].user] = "voice"]
    BY <1>3 DEF Transcribed
  <2>2. UNCHANGED <<voice, receiverVars>>
    BY <1>3 DEF Transcribed
  <2>3. /\ voiced' \subseteq User /\ latest' \in [User -> {"none", "text", "voice"}]
        /\ \A u \in voiced' : latest'[u] = "voice"
    BY <1>1, <2>1 DEF VoiceInv
  <2> QED
    BY <2>2, <2>3 DEF VoiceInv, voice, receiverVars
<1>4. CASE Join
  <2>1. PICK r \in Receiver : StartReceiver(r) /\ receiver' = r
    BY <1>4 DEF Join
  <2>2. \A q \in stt : q # r /\ detector'[q] = detector[q]
    BY <2>1 DEF StartReceiver, Fresh, VoiceInv, ReceiverType, DetectorType
  <2> QED
    BY <1>4, <2>1, <2>2 DEF Join, VoiceInv, text
<1>5. CASE Leave
  <2>1. UNCHANGED <<text, detector, stt>>
    BY <1>5 DEF Leave, StopReceiver, receiverVars
  <2>2. inVoice' \subseteq User /\ receiver' = Nothing
    BY <1>5 DEF Leave, VoiceInv
  <2> QED
    BY <2>1, <2>2 DEF VoiceInv, text
<1>6. CASE Left
  BY <1>6 DEF Left, VoiceInv, text, receiverVars
<1>7. ASSUME NEW r \in Receiver, DropSpeech(r)
      PROVE  VoiceInv'
  <2>1. \A q \in stt : q # r /\ detector'[q] = detector[q]
    BY <1>7 DEF DropSpeech, Delivered, VoiceInv, ReceiverType, DetectorType
  <2> QED
    BY <1>7, <2>1 DEF DropSpeech, VoiceInv, text, voice
<1>8. ASSUME NEW r \in Receiver, Transcribe(r)
      PROVE  VoiceInv'
  BY <1>8 DEF Transcribe, VoiceInv, text, receiverVars
<1>9. ASSUME NEW r \in Receiver, NotUnderstood(r)
      PROVE  VoiceInv'
  <2>1. \A q \in stt' : q \in stt /\ q # r /\ detector'[q] = detector[q]
    BY <1>9 DEF NotUnderstood, Delivered, VoiceInv, ReceiverType, DetectorType
  <2> QED
    BY <1>9, <2>1 DEF NotUnderstood, VoiceInv, text
<1>10. ASSUME NEW r \in Receiver, Understood(r)
       PROVE  VoiceInv'
  <2>1. \A q \in stt' : q \in stt /\ q # r /\ detector'[q] = detector[q]
    BY <1>10 DEF Understood, Delivered, VoiceInv, ReceiverType, DetectorType
  <2>2. Head(detector[r].finished) \in User
    <3>1. detector[r].finished \in Seq(User) /\ detector[r].finished # <<>>
      BY <1>10 DEF Understood, VoiceInv, ReceiverType, DetectorType, DetectorRow
    <3> QED
      BY <3>1
  <2> QED
    BY <1>10, <2>1, <2>2 DEF Understood, VoiceInv, text
<1>11. ASSUME NEW r \in Receiver, Detect(r)
       PROVE  VoiceInv'
  <2>1. \A q \in stt : detector'[q] = detector[q]
    <3> SUFFICES ASSUME NEW q \in stt
                 PROVE  detector'[q] = detector[q]
      OBVIOUS
    <3>1. detector[q].at = "speech"
      BY DEF VoiceInv
    <3>2. q # r
      BY <1>11, <3>1 DEF Detect, DetectorStep, Skip, PopBuffer, PopLast, Deliver, Scan
    <3> QED
      BY <1>11, <3>2 DEF Detect, DetectorStep, Skip, PopBuffer, PopLast, Deliver, Scan,
                        VoiceInv, ReceiverType, DetectorType
  <2> QED
    BY <1>11, <2>1 DEF Detect, VoiceInv, text, voice
<1>12. CASE RunThread
  BY <1>12 DEF RunThread, ThreadStep, Extend, Stamp, VoiceInv, text, voice
<1>13. ASSUME NEW u \in User, Hear(u) \/ SilenceOf(u)
       PROVE  VoiceInv'
  BY <1>13 DEF Hear, SilenceOf, Packet, Pause, VoiceInv, text, voice
<1>14. CASE UNCHANGED <<voiced, latest, receiver, stt, inVoice, detector>>
  BY <1>14 DEF VoiceInv
<1>15. CASE \/ Start \/ Cut \/ Connect \/ Stop \/ Return \/ Dispatch \/ Show \/ Mute \/ LoseChannel
            \/ (\E m \in atCore : Answer(m))
            \/ \E u \in User : (\E c \in Chat : Take(u, c)) \/ TakeDirect(u) \/ Greet(u)
  <2>1. UNCHANGED <<voiced, latest, receiver, stt, inVoice, detector>>
    BY <1>15
    DEF Start, Cut, Connect, Stop, Return, Over, Dispatch, Show, ShowOther,
        LoseCaption, OtherFails, Write, SendToDiscord, SendToTelegram, SendToSlack, SendToLine,
        SendToWhatsApp, SendToSignal, WriteTo, Speak, Mute, LoseChannel, Answer,
        Take, TakeDiscord, TakeTelegram, TakeSlack, TakePlain, TakeDirect, TakeLine, TakeWhatsApp,
        TakeSignal, Greet, text, voice, receiverVars
  <2> QED
    BY <1>14, <2>1
<1>16. ASSUME NEW m \in DOMAIN posted,
              FetchedFromDiscord(m) \/ ForwardFromDiscord(m) \/ ForwardFromTelegram(m)
       PROVE  VoiceInv'
  BY <1>14, <1>16
  DEF FetchedFromDiscord, ForwardFromDiscord, ForwardFromTelegram, Forward, text, voice, receiverVars
<1> QED
  BY <1>2, <1>3, <1>4, <1>5, <1>6, <1>7, <1>8, <1>9, <1>10, <1>11, <1>12, <1>13, <1>15, <1>16
  DEF AdapterNext, Handle, Speech

\* A step of the adapter that starts or ends no receiver.
LEMMA StepKeepsRunning ==
  ASSUME AdapterNext, ~Join, ~Leave, ~Left, ~LoseChannel
  PROVE  UNCHANGED <<running, joined, receiver, leaving, kicked>>
<1>1. ASSUME NEW m \in DOMAIN posted,
             \/ FetchedFromDiscord(m) \/ FetchedFromTelegram(m) \/ Transcribed(m)
             \/ ForwardFromDiscord(m) \/ ForwardFromTelegram(m)
      PROVE  UNCHANGED <<running, joined, receiver, leaving, kicked>>
  BY <1>1
  DEF FetchedFromDiscord, FetchedFromTelegram, Transcribed, ForwardFromDiscord, ForwardFromTelegram,
      Forward, voice, receiverVars
<1>2. CASE \/ Start \/ Cut \/ Connect \/ Stop \/ Return \/ Dispatch \/ Show \/ Mute
           \/ (\E m \in atCore : Answer(m))
           \/ \E u \in User : (\E c \in Chat : Take(u, c)) \/ TakeDirect(u) \/ Greet(u)
  BY <1>2
  DEF Start, Cut, Connect, Stop, Return, Over, Dispatch, Show, ShowOther,
      LoseCaption, OtherFails, Write, SendToDiscord, SendToTelegram, SendToSlack, SendToLine,
      SendToWhatsApp, SendToSignal, WriteTo, Speak, Mute, Answer,
      Take, TakeDiscord, TakeTelegram, TakeSlack, TakePlain, TakeDirect, TakeLine, TakeWhatsApp,
      TakeSignal, Greet, voice, receiverVars
<1>3. ASSUME NEW u \in User, Hear(u) \/ SilenceOf(u)
      PROVE  UNCHANGED <<running, joined, receiver, leaving, kicked>>
  BY <1>3 DEF Hear, SilenceOf, Packet, Pause, voice
<1>4. ASSUME NEW r \in Receiver, DropSpeech(r) \/ Transcribe(r) \/ NotUnderstood(r) \/ Understood(r)
      PROVE  UNCHANGED <<running, joined, receiver, leaving, kicked>>
  BY <1>4 DEF DropSpeech, Transcribe, NotUnderstood, Understood, voice, receiverVars
<1>5. ASSUME NEW r \in Receiver, Detect(r)
      PROVE  UNCHANGED <<running, joined, receiver, leaving, kicked>>
  BY <1>5 DEF Detect, DetectorStep, Skip, PopBuffer, PopLast, Deliver, Scan, voice
<1>6. CASE RunThread
  BY <1>6 DEF RunThread, ThreadStep, Extend, Stamp, voice
<1> QED
  BY <1>1, <1>2, <1>3, <1>4, <1>5, <1>6 DEF AdapterNext, Handle, Speech

LEMMA StepKeepsOneReceiver ==
  ASSUME OneReceiver, VoiceInv, ReceiverType, AdapterNext
  PROVE  OneReceiver'
<1>1. Nothing \notin Receiver /\ running \in [Receiver -> BOOLEAN]
  BY AdapterFacts DEF ReceiverType
<1>2. CASE Join
  <2>1. PICK r \in Receiver : running' = [running EXCEPT ![r] = TRUE] /\ receiver' = r
    BY <1>2 DEF Join, StartReceiver
  <2>2. joined' = TRUE /\ leaving' = leaving /\ kicked' = kicked /\ ~joined
    BY <1>2 DEF Join
  <2>3. ~kicked => ~leaving /\ receiver = Nothing
    BY <2>2 DEF OneReceiver
  <2>4. ~kicked => \A q \in Receiver : running'[q] => q = r
    BY <1>1, <2>1, <2>3 DEF OneReceiver
  <2> QED
    BY <2>1, <2>2, <2>3, <2>4 DEF OneReceiver
<1>3. CASE Leave
  <2>1. /\ receiver' = Nothing /\ leaving' = joined /\ joined' = joined /\ kicked' = kicked
        /\ IF receiver = Nothing THEN running' = running
             ELSE running' = [running EXCEPT ![receiver] = FALSE]
    BY <1>3 DEF Leave, StopReceiver, receiverVars
  <2>2. ~kicked => \A q \in Receiver : ~running'[q]
    BY <1>1, <2>1 DEF OneReceiver, VoiceInv
  <2> QED
    BY <2>1, <2>2 DEF OneReceiver
<1>4. CASE Left
  <2>1. /\ leaving /\ leaving' = FALSE /\ joined' = FALSE
        /\ UNCHANGED <<receiver, running, kicked>>
    BY <1>4 DEF Left, receiverVars
  <2> QED
    BY <2>1 DEF OneReceiver
<1>5. CASE LoseChannel
  BY <1>5 DEF LoseChannel, OneReceiver
<1>6. CASE ~Join /\ ~Leave /\ ~Left /\ ~LoseChannel
  BY <1>6, StepKeepsRunning DEF OneReceiver
<1> QED
  BY <1>2, <1>3, <1>4, <1>5, <1>6

--------------------------------------------------------------------------------
(* What is left of the kinds, and the answers that are lost.                  *)

LinkType ==
  /\ up \in {"off", "up", "stopped", "ended"} /\ ws \in {Nothing, "open", "closed"}
  /\ typing \subseteq Chat

LEMMA StepKeepsLink ==
  ASSUME LinkType, MessageInv, ReceiverType, AdapterNext
  PROVE  LinkType'
<1>1. \A m \in DOMAIN posted : handler[m] # "done" => posted[m].chat \in Chat
  BY DEF MessageInv, MessageType
<1>2. ASSUME NEW m \in DOMAIN posted, ForwardFromTelegram(m)
      PROVE  LinkType'
  <2>1. UNCHANGED <<up, ws>> /\ posted[m].chat \in Chat
    BY <1>1, <1>2 DEF ForwardFromTelegram, Forward
  <2>2. typing' = typing \/ typing' = typing \cup {posted[m].chat}
    BY <1>2 DEF ForwardFromTelegram
  <2> QED
    BY <2>1, <2>2 DEF LinkType
<1>3. ASSUME NEW m \in DOMAIN posted,
             \/ FetchedFromDiscord(m) \/ FetchedFromTelegram(m) \/ Transcribed(m)
             \/ ForwardFromDiscord(m)
      PROVE  LinkType'
  BY <1>3
  DEF FetchedFromDiscord, FetchedFromTelegram, Transcribed, ForwardFromDiscord,
      Forward, text, LinkType
<1>4. CASE Start \/ Cut \/ Connect \/ Stop \/ Return
  BY <1>4 DEF Start, Cut, Connect, Stop, Return, Over, text, LinkType
<1>5. CASE \/ Dispatch \/ Show \/ Mute \/ (\E m \in atCore : Answer(m)) \/ \E u \in User : Greet(u)
  <2>1. UNCHANGED <<up, ws>> /\ (typing' = typing \/ \E c : typing' = typing \ {c})
    BY <1>5
    DEF Dispatch, Show, ShowOther, LoseCaption, OtherFails, Write, SendToDiscord, SendToTelegram,
        SendToSlack, SendToLine, SendToWhatsApp, SendToSignal, WriteTo, Speak, Mute, Answer, Greet, text
  <2> QED
    BY <2>1 DEF LinkType
<1>6. ASSUME NEW u \in User, NEW c \in Chat, Take(u, c)
      PROVE  LinkType'
  <2>1. UNCHANGED <<up, ws>> /\ (typing' = typing \/ typing' = typing \cup {c})
    BY <1>6 DEF Take, TakeDiscord, TakeTelegram, TakeSlack, TakePlain
  <2> QED
    BY <2>1 DEF LinkType
<1>7. ASSUME NEW u \in User, TakeDirect(u)
      PROVE  LinkType'
  BY <1>7 DEF TakeDirect, TakeLine, TakeWhatsApp, TakeSignal, TakePlain, LinkType
<1>8. CASE Join \/ Leave \/ Left \/ LoseChannel \/ RunThread \/ \E u \in User : Hear(u) \/ SilenceOf(u)
  BY <1>8 DEF Join, Leave, Left, LoseChannel, RunThread, Hear, SilenceOf, text, LinkType
<1>9. ASSUME NEW r \in Receiver,
             DropSpeech(r) \/ Transcribe(r) \/ NotUnderstood(r) \/ Understood(r) \/ Detect(r)
      PROVE  LinkType'
  BY <1>9 DEF DropSpeech, Transcribe, NotUnderstood, Understood, Detect, text, LinkType
<1> QED
  BY <1>2, <1>3, <1>4, <1>5, <1>6, <1>7, <1>8, <1>9 DEF AdapterNext, Handle, Speech

\* Only the platform excuses.
LEMMA StepKeepsExcused ==
  ASSUME AdapterNext, ~Show
  PROVE  excused' = excused
<1>1. ASSUME NEW m \in DOMAIN posted,
             \/ FetchedFromDiscord(m) \/ FetchedFromTelegram(m) \/ Transcribed(m)
             \/ ForwardFromDiscord(m) \/ ForwardFromTelegram(m)
      PROVE  excused' = excused
  BY <1>1
  DEF FetchedFromDiscord, FetchedFromTelegram, Transcribed, ForwardFromDiscord, ForwardFromTelegram,
      Forward
<1>2. CASE \/ Start \/ Cut \/ Connect \/ Stop \/ Return \/ Dispatch \/ Mute \/ Join \/ Leave \/ Left
           \/ LoseChannel \/ RunThread \/ (\E m \in atCore : Answer(m))
  BY <1>2 DEF Start, Cut, Connect, Stop, Return, Over, Dispatch, Mute, Answer, Join, Leave, Left,
              LoseChannel, RunThread
<1>3. ASSUME NEW u \in User,
             (\E c \in Chat : Take(u, c)) \/ TakeDirect(u) \/ Greet(u) \/ Hear(u) \/ SilenceOf(u)
      PROVE  excused' = excused
  BY <1>3 DEF Take, TakeDiscord, TakeTelegram, TakeSlack, TakePlain, TakeDirect, TakeLine,
              TakeWhatsApp, TakeSignal, Greet, Hear, SilenceOf
<1>4. ASSUME NEW r \in Receiver,
             DropSpeech(r) \/ Transcribe(r) \/ NotUnderstood(r) \/ Understood(r) \/ Detect(r)
      PROVE  excused' = excused
  BY <1>4 DEF DropSpeech, Transcribe, NotUnderstood, Understood, Detect
<1> QED
  BY <1>1, <1>2, <1>3, <1>4 DEF AdapterNext, Handle, Speech

LEMMA StepLosesNothing ==
  ASSUME MessageInv, ChannelInv, VoiceInv, ReceiverType, NothingVanishes, AdapterNext
  PROVE  NothingVanishes'
<1>1. /\ DOMAIN fate = 1..Len(posted) /\ Len(posted) \in Nat /\ fate \in Seq(Fate)
      /\ Len(fate) = Len(posted)
  BY MessageDomains DEF MessageInv, MessageType
<1>2. Pending.how = "pending" /\ Cutting.how = "cut"
  BY DEF Pending, Cutting
<1>3. CASE Show
  <2>1. ASSUME NEW where, NEW how, Ends(where, how),
               \/ how # "lost" /\ excused' = excused
               \/ excused' = excused \cup {showing.frame.re}
        PROVE  NothingVanishes'
    <3> DEFINE re == showing.frame.re
    <3>1. fate' = fate \/ fate' = [fate EXCEPT ![re] = [where |-> where, how |-> how]]
      BY <2>1 DEF Ends, Resolved
    <3>2. DOMAIN fate' = DOMAIN fate /\ \A m \in DOMAIN fate : m # re => fate'[m] = fate[m]
      BY <1>1, <3>1
    <3>3. excused \subseteq excused'
      BY <2>1
    <3>4. re \in DOMAIN fate /\ fate'[re].how = "lost" => re \in excused'
      BY <1>1, <2>1, <3>1 DEF NothingVanishes
    <3> HIDE DEF re
    <3> QED
      BY <3>2, <3>3, <3>4 DEF NothingVanishes
  <2>2. CASE fate' = fate /\ excused' = excused
    BY <2>2 DEF NothingVanishes
  <2> QED
    BY <1>3, <2>1, <2>2, ShowMoves DEF Refused
<1>4. CASE ~Show
  <2>1. excused' = excused
    BY <1>4, StepKeepsExcused
  <2>2. ASSUME NEW m \in DOMAIN fate'
        PROVE  (m \in DOMAIN fate /\ fate'[m] = fate[m]) \/ fate'[m] \in {Pending, Cutting}
    <3>1. CASE \/ UNCHANGED messages \/ Dispatch \/ (\E u \in User : Greet(u))
               \/ (\E k \in DOMAIN posted : Fetched(k)) \/ \E k \in atCore : Answer(k)
      BY <2>2, <3>1 DEF messages, Dispatch, Greet, Fetched, Answer
    <3>2. ASSUME NEW k \in DOMAIN posted, Forward(k)
          PROVE  (m \in DOMAIN fate /\ fate'[m] = fate[m]) \/ fate'[m] \in {Pending, Cutting}
      BY <1>1, <2>2, <3>2 DEF Forward, Resolved, Cutting
    <3>3. CASE Cut
      BY <2>2, <3>3 DEF Cut, Cutting
    <3>4. ASSUME NEW u \in User, NEW c \in Place, NEW k \in {"text", "voice", "speech"},
                 Posted(u, c, k)
          PROVE  (m \in DOMAIN fate /\ fate'[m] = fate[m]) \/ fate'[m] \in {Pending, Cutting}
      <4>1. PICK f \in {Pending, Cutting} : fate' = Append(fate, f)
        BY <3>4 DEF Posted
      <4>2. f \in Fate
        BY FateFacts
      <4>3. /\ DOMAIN fate' = 1..(Len(posted) + 1) /\ fate'[Len(posted) + 1] = f
            /\ \A i \in 1..Len(posted) : fate'[i] = fate[i]
        BY <1>1, <4>1, <4>2, AppendProperties
      <4>4. m \in 1..Len(posted) \/ m = Len(posted) + 1
        BY <1>1, <2>2, <4>3
      <4> QED
        BY <1>1, <4>3, <4>4
    <3> QED
      BY <1>4, <3>1, <3>2, <3>3, <3>4, StepOfMessages
  <2> QED
    BY <1>2, <2>1, <2>2 DEF NothingVanishes
<1> QED
  BY <1>3, <1>4

--------------------------------------------------------------------------------
(* The theorems about the adapters.                                           *)

AdapterInv ==
  /\ ReceiverType /\ PacketInv /\ MessageInv /\ ChannelInv /\ VoiceInv /\ OneReceiver /\ LinkType
  /\ AnswerStaysWithUser /\ NothingVanishes

LEMMA AdapterStarts ==
  ASSUME AdapterInit
  PROVE  AdapterInv
<1>1. ReceiverType /\ PacketInv
  BY ReceiverStarts DEF AdapterInit
<1>2. platform \in {"discord", "telegram", "slack", "line", "whatsapp", "signal"}
  BY AdapterConstants DEF AdapterInit, AdapterConstants
<1>3. /\ posted = <<>> /\ handler = <<>> /\ fate = <<>> /\ down = <<>> /\ routes = <<>>
      /\ atCore = {} /\ showing = Nothing
  BY DEF AdapterInit
<1>4. MessageInv
  BY <1>2, <1>3 DEF MessageInv, MessageType, FrameInv, OneWay
<1>5. ChannelInv
  BY <1>3, CacheIsNat DEF ChannelInv, RouteType, RouteInv, PlainInv
<1>6. VoiceInv
  BY DEF AdapterInit, VoiceInv
<1>7. OneReceiver
  BY DEF AdapterInit, ReceiverInit, OneReceiver
<1>8. LinkType
  BY DEF AdapterInit, LinkType
<1>9. AnswerStaysWithUser /\ NothingVanishes
  BY <1>3 DEF AnswerStaysWithUser, NothingVanishes
<1> QED
  BY <1>1, <1>4, <1>5, <1>6, <1>7, <1>8, <1>9 DEF AdapterInv

LEMMA AdapterSteps ==
  ASSUME AdapterInv, [AdapterNext]_adapterVars
  PROVE  AdapterInv'
<1>1. CASE AdapterNext
  <2>1. ReceiverStep
    BY <1>1, StepOfReceivers DEF AdapterInv
  <2>2. ReceiverType' /\ PacketInv'
    BY <2>1, ReceiverKeepsType, ReceiverKeepsPackets DEF AdapterInv
  <2>3. MessageInv' /\ ChannelInv' /\ AnswerStaysWithUser'
    BY <1>1, StepKeepsMessages, StepKeepsChannels, StepStaysWithUser DEF AdapterInv
  <2>4. VoiceInv' /\ OneReceiver' /\ LinkType' /\ NothingVanishes'
    BY <1>1, StepKeepsVoices, StepKeepsOneReceiver, StepKeepsLink, StepLosesNothing DEF AdapterInv
  <2> QED
    BY <2>2, <2>3, <2>4 DEF AdapterInv
<1>2. CASE UNCHANGED adapterVars
  <2>1. UNCHANGED receiverVars
    BY <1>2 DEF adapterVars
  <2>2. ReceiverType' /\ PacketInv'
    <3>1. ReceiverStep
      BY <2>1 DEF ReceiverStep
    <3> QED
      BY <3>1, ReceiverKeepsType, ReceiverKeepsPackets DEF AdapterInv
  <2>3. MessageInv'
    BY <1>2 DEF adapterVars, core, AdapterInv, MessageInv, MessageType, FrameInv, For, OneWay, Returning
  <2>4. ChannelInv' /\ AnswerStaysWithUser' /\ NothingVanishes'
    BY <1>2 DEF adapterVars, text, AdapterInv, ChannelInv, RouteType, CacheOf, RouteInv, PlainInv,
                AnswerStaysWithUser, NothingVanishes
  <2>5. VoiceInv' /\ OneReceiver' /\ LinkType'
    BY <1>2 DEF adapterVars, text, voice, receiverVars, AdapterInv, VoiceInv, OneReceiver, LinkType
  <2> QED
    BY <2>2, <2>3, <2>4, <2>5 DEF AdapterInv
<1> QED
  BY <1>1, <1>2

THEOREM AdapterInvariant ==
  AdapterSpec => []AdapterInv
<1>1. AdapterInit => AdapterInv
  BY AdapterStarts
<1>2. AdapterInv /\ [AdapterNext]_adapterVars => AdapterInv'
  BY AdapterSteps
<1> QED
  BY <1>1, <1>2, PTL DEF AdapterSpec

\* Whatever is said, and whenever the thread comes between two statements of the detector, no
\* packet is heard twice and a receiver hears each user in order.
THEOREM SpeechHeardOnce ==
  AdapterSpec => []HeardOnceInOrder
<1>1. AdapterInv => HeardOnceInOrder
  BY PacketsHeardOnce DEF AdapterInv
<1> QED
  BY <1>1, AdapterInvariant, PTL

\* A written answer goes to a chat of its user, that of the question or a later one.
THEOREM AnswersStayWithUsers ==
  AdapterSpec => []AnswerStaysWithUser
<1>1. AdapterInv => AnswerStaysWithUser
  BY DEF AdapterInv
<1> QED
  BY <1>1, AdapterInvariant, PTL

\* An answer that is not shown was refused by the platform or could not be spoken.
THEOREM AnswersDoNotVanish ==
  AdapterSpec => []NothingVanishes
<1>1. AdapterInv => NothingVanishes
  BY DEF AdapterInv
<1> QED
  BY <1>1, AdapterInvariant, PTL

\* The receiver that runs is the one that /leave stops, unless the bot was thrown out.
THEOREM ReceiverIsRegistered ==
  AdapterSpec => []RunningIsRegistered
<1>1. AdapterInv => RunningIsRegistered
  BY DEF AdapterInv, OneReceiver, RunningIsRegistered
<1> QED
  BY <1>1, AdapterInvariant, PTL

\* Telegram speaks only to those who spoke last.
THEOREM VoiceAnswersVoice ==
  AdapterSpec => VoiceForVoice
<1>1. AdapterInv /\ [AdapterNext]_adapterVars =>
        [showing = Nothing /\ showing' # Nothing /\ showing'.how = "voice"
           => latest[showing'.frame.user] = "voice"]_adapterVars
  <2> SUFFICES ASSUME AdapterInv, AdapterNext, showing = Nothing, showing' # Nothing,
                      showing'.how = "voice"
               PROVE  latest[showing'.frame.user] = "voice"
    OBVIOUS
  <2>1. CASE Dispatch
    <3>1. showing'.frame = Head(down) /\ WayOf(Head(down)) = "voice"
      BY <2>1 DEF Dispatch
    <3>2. Head(down).user \in voiced
      BY <3>1 DEF WayOf
    <3> QED
      BY <3>1, <3>2 DEF AdapterInv, VoiceInv
  <2>2. CASE ~Dispatch
    <3>1. ~Show
      BY ShowMoves
    <3>2. showing' = showing
      BY <2>2, <3>1, StepOfMessages DEF AdapterInv, messages, Cut, Greet, Posted, Fetched, Forward, Answer
    <3> QED
      BY <3>2
  <2> QED
    BY <2>1, <2>2
<1> QED
  BY <1>1, AdapterInvariant, PTL DEF AdapterSpec, VoiceForVoice

\* Every variable has a value of its kind.
THEOREM AdapterTypeCorrect ==
  AdapterSpec => []AdapterTypeOK
<1>1. AdapterInv => AdapterTypeOK
  <2> SUFFICES ASSUME AdapterInv
               PROVE  AdapterTypeOK
    OBVIOUS
  <2>1. /\ MessageType /\ LinkType /\ RouteType /\ VoiceInv /\ OneWay
    BY DEF AdapterInv, MessageInv, ChannelInv
  <2>2. posted \in Seq([user : User, chat : Place, kind : {"text", "voice", "speech"}])
    BY <2>1 DEF MessageType, PostedMessage
  <2>3. \A m \in DOMAIN posted : handler[m] \in {"fetch", "send", "done"} /\ fate[m].where \in Place
    BY <2>1, MessageDomains DEF MessageType, Fate
  <2>4. \A m \in atCore : handler[m] = "done" /\ fate[m] = Pending
    BY <2>1 DEF MessageType, OneWay
  <2>5. \A r \in Receiver : detector[r].at \in {"off", "asleep", "scan", "popped", "speech"}
    BY DEF AdapterInv, ReceiverType, DetectorType, DetectorRow
  <2> QED
    BY <2>1, <2>2, <2>3, <2>4, <2>5 DEF AdapterTypeOK, MessageType, LinkType, RouteType, VoiceInv
<1> QED
  BY <1>1, AdapterInvariant, PTL
================================================================================
