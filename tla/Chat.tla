---------------------------------- MODULE Chat ----------------------------------
(******************************************************************************)
(* The chat pipeline and the conversation of one user: the engine answers one *)
(* message at a time, a background task per answer stores the exchange, and   *)
(* the sleep phase writes the diary and trims what is old.                    *)
(*                                                                            *)
(* The tasks interleave at every await.  They share one connection and so one *)
(* transaction: the commit of any of them makes the rows of all durable.      *)
(* Every query is restricted to one user, so that one stands for all.         *)
(******************************************************************************)
EXTENDS Naturals, Sequences

CONSTANTS
  Message,      \* chat messages of the user, numbers in the order they are sent
  None,
  History,      \* memory.conversation_history_limit
  Keep,         \* memory.message_trim_keep
  Day,          \* units of time in a day
  Quiet,        \* the hours of a day that are quiet
  MaxNow,       \* bound: the clock
  MaxFaults     \* bound: failing statements and process ends

\* By default the history is 20 rows and a trim keeps 100.
ASSUME ConstantsOK ==
  /\ Message \subseteq Nat /\ None \notin Message
  /\ History \in Nat /\ Keep \in Nat /\ History <= Keep
  /\ Day \in Nat \ {0} /\ Quiet \subseteq 0..(Day - 1)
  /\ MaxNow \in Nat /\ MaxFaults \in Nat

VARIABLES
  queue,        \* messages received and not yet taken
  stage,        \* [Message -> how far the engine is with it]
  seen,         \* [Message -> the history in its prompt]
  task,         \* [Message -> where its _post_process_message is]
  rows,         \* conversation_messages, by created_at
  durable,      \* rows and log at the last commit
  sleep,        \* where the sleep phase is
  sleepDone,    \* _sleep_done_today
  page,         \* messages the diary in preparation is about
  now,
  log,          \* history: every row inserted and not rolled back
  stored,       \* history: messages whose exchange was committed as stored
  reviewed,     \* history: messages a diary entry was written about
  due,          \* history: messages stored when the sleep phase began
  faults

engine == <<queue, stage, seen>>
table == <<rows, durable, log>>
sleeping == <<sleep, sleepDone, page, reviewed, due>>
vars == <<engine, task, table, sleeping, now, stored, faults>>

Row == [msg : Message, role : {"user", "assistant"}, at : 0..MaxNow]

Today(t) == t \div Day

InQuietHours == now % Day \in Quiet

LastN(s, n) == IF Len(s) <= n THEN s ELSE SubSeq(s, Len(s) - n + 1, Len(s))

Commit == durable' = [rows |-> rows, log |-> log]

Handling == {m \in Message : stage[m] \in {"resolved", "prompting", "answered"}}

Index(r, m, role) == {i \in DOMAIN r : r[i].msg = m /\ r[i].role = role}

--------------------------------------------------------------------------------
(* The engine: CoreEngine.handle_message, one message after the other.        *)

Arrive(m) ==
  /\ stage[m] = "coming"
  /\ \A n \in Message : n < m => stage[n] # "coming"
  /\ stage' = [stage EXCEPT ![m] = "queued"]
  /\ queue' = Append(queue, m)
  /\ UNCHANGED <<seen, task, table, sleeping, now, stored, faults>>

\* The message is taken and its user resolved; the summary is written.
Resolve ==
  /\ Handling = {}
  /\ queue # <<>>
  /\ stage' = [stage EXCEPT ![Head(queue)] = "resolved"]
  /\ queue' = Tail(queue)
  /\ Commit
  /\ UNCHANGED <<seen, task, rows, log, sleeping, now, stored, faults>>

\* Mutation: the limit is forgotten.
ReadAllHistory(m) ==
  /\ stage[m] = "resolved"
  /\ seen' = [seen EXCEPT ![m] = rows]
  /\ stage' = [stage EXCEPT ![m] = "prompting"]
  /\ UNCHANGED <<queue, task, table, sleeping, now, stored, faults>>

\* get_recent_messages: the last rows, those of an open transaction included.
ReadHistory(m) ==
  /\ stage[m] = "resolved"
  /\ seen' = [seen EXCEPT ![m] = LastN(rows, History)]
  /\ stage' = [stage EXCEPT ![m] = "prompting"]
  /\ UNCHANGED <<queue, task, table, sleeping, now, stored, faults>>

Generate(m) ==
  /\ stage[m] = "prompting"
  /\ stage' = [stage EXCEPT ![m] = "answered"]
  /\ UNCHANGED <<queue, seen, task, table, sleeping, now, stored, faults>>

\* Mutation: the exchange is stored whatever the AI returned.
GenerateFailsStored(m) ==
  /\ stage[m] \in {"resolved", "prompting", "answered"}
  /\ stage' = [stage EXCEPT ![m] = "failed"]
  /\ task' = [task EXCEPT ![m] = "question"]
  /\ UNCHANGED <<queue, seen, table, sleeping, now, stored, faults>>

\* The AI fails or says nothing, a statement or the send raises: an error answer.
GenerateFails(m) ==
  /\ stage[m] \in {"resolved", "prompting", "answered"}
  /\ stage' = [stage EXCEPT ![m] = "failed"]
  /\ UNCHANGED <<queue, seen, task, table, sleeping, now, stored, faults>>

\* Mutation: nobody holds the task, and it is collected before it runs.
ReplyForgetsTask(m) ==
  /\ stage[m] = "answered"
  /\ stage' = [stage EXCEPT ![m] = "replied"]
  /\ UNCHANGED <<queue, seen, task, table, sleeping, now, stored, faults>>

\* The answer is sent, and only then the task that stores the exchange is created.
Reply(m) ==
  /\ stage[m] = "answered"
  /\ stage' = [stage EXCEPT ![m] = "replied"]
  /\ task' = [task EXCEPT ![m] = "question"]
  /\ UNCHANGED <<queue, seen, table, sleeping, now, stored, faults>>

--------------------------------------------------------------------------------
(* The background task: CoreEngine._post_process_message.                     *)

Insert(m, role) ==
  LET row == [msg |-> m, role |-> role, at |-> now]
  IN  rows' = Append(rows, row) /\ log' = Append(log, row)

\* Mutation: the answer is stored first.
AddQuestionLast(m) ==
  /\ task[m] = "question"
  /\ Insert(m, "assistant")
  /\ task' = [task EXCEPT ![m] = "commitQuestion"]
  /\ UNCHANGED <<engine, durable, sleeping, now, stored, faults>>

AddQuestion(m) ==
  /\ task[m] = "question"
  /\ Insert(m, "user")
  /\ task' = [task EXCEPT ![m] = "commitQuestion"]
  /\ UNCHANGED <<engine, durable, sleeping, now, stored, faults>>

CommitQuestion(m) ==
  /\ task[m] = "commitQuestion"
  /\ task' = [task EXCEPT ![m] = "answer"]
  /\ Commit
  /\ UNCHANGED <<engine, rows, log, sleeping, now, stored, faults>>

AddAnswer(m) ==
  /\ task[m] = "answer"
  /\ Insert(m, "assistant")
  /\ task' = [task EXCEPT ![m] = "commitAnswer"]
  /\ UNCHANGED <<engine, durable, sleeping, now, stored, faults>>

\* Mutation: the answer is left to the next commit.
CommitAnswerLater(m) ==
  /\ task[m] = "commitAnswer"
  /\ task' = [task EXCEPT ![m] = "extract"]
  /\ stored' = stored \cup {m}
  /\ UNCHANGED <<engine, table, sleeping, now, faults>>

CommitAnswer(m) ==
  /\ task[m] = "commitAnswer"
  /\ task' = [task EXCEPT ![m] = "extract"]
  /\ stored' = stored \cup {m}
  /\ Commit
  /\ UNCHANGED <<engine, rows, log, sleeping, now, faults>>

\* Emotion, facts and episodes go into other tables, with or without a commit.
Extract(m) ==
  /\ task[m] = "extract"
  /\ task' = [task EXCEPT ![m] = "done"]
  /\ Commit \/ UNCHANGED durable
  /\ UNCHANGED <<engine, rows, log, sleeping, now, stored, faults>>

\* A statement raises; the task logs it and ends.
TaskFails(m) ==
  /\ task[m] \in {"question", "commitQuestion", "answer", "commitAnswer"}
  /\ faults < MaxFaults
  /\ faults' = faults + 1
  /\ task' = [task EXCEPT ![m] = "done"]
  /\ UNCHANGED <<engine, table, sleeping, now, stored>>

--------------------------------------------------------------------------------
(* The heartbeat's sleep phase: SleepPhase.run for this user.                 *)

FallAsleep ==
  /\ sleep = "awake"
  /\ InQuietHours
  /\ ~sleepDone
  /\ sleep' = "read"
  /\ due' = stored
  /\ UNCHANGED <<engine, task, table, sleepDone, page, reviewed, now, stored, faults>>

\* A tick outside of the quiet hours.
TickAwake ==
  /\ sleep = "awake"
  /\ ~InQuietHours
  /\ sleepDone
  /\ sleepDone' = FALSE
  /\ UNCHANGED <<engine, task, table, sleep, page, reviewed, due, now, stored, faults>>

\* _write_diary reads the rows of this date; without any there is no entry.
ReadToday ==
  /\ sleep = "read"
  /\ page' = {rows[i].msg : i \in {i \in DOMAIN rows : Today(rows[i].at) = Today(now)}}
  /\ sleep' = IF page' = {} THEN "trim" ELSE "diary"
  /\ UNCHANGED <<engine, task, table, sleepDone, reviewed, due, now, stored, faults>>

WriteDiary ==
  /\ sleep = "diary"
  /\ reviewed' = reviewed \cup page
  /\ sleep' = "trim" /\ page' = {}
  /\ Commit
  /\ UNCHANGED <<engine, task, rows, log, sleepDone, due, now, stored, faults>>

\* The AI or the insert fails; the phase goes on without an entry.
DiaryFails ==
  /\ sleep = "diary"
  /\ faults < MaxFaults
  /\ faults' = faults + 1
  /\ sleep' = "trim" /\ page' = {}
  /\ UNCHANGED <<engine, task, table, sleepDone, reviewed, due, now, stored>>

\* Mutation: the oldest rows are kept.
TrimNewest ==
  /\ sleep = "trim"
  /\ rows' = SubSeq(rows, 1, IF Len(rows) < Keep THEN Len(rows) ELSE Keep)
  /\ sleep' = "commit"
  /\ UNCHANGED <<engine, task, durable, log, sleepDone, page, reviewed, due, now,
                 stored, faults>>

\* trim_old_messages deletes all but the last rows, in one statement.
Trim ==
  /\ sleep = "trim"
  /\ rows' = LastN(rows, Keep)
  /\ sleep' = "commit"
  /\ UNCHANGED <<engine, task, durable, log, sleepDone, page, reviewed, due, now,
                 stored, faults>>

CommitTrim ==
  /\ sleep = "commit"
  /\ sleep' = "awake" /\ sleepDone' = TRUE
  /\ Commit
  /\ UNCHANGED <<engine, task, rows, log, page, reviewed, due, now, stored, faults>>

--------------------------------------------------------------------------------

\* A unit of time is long: a sleep phase ends in the hour in which it began.
Clock ==
  /\ now < MaxNow
  /\ sleep = "awake"
  /\ now' = now + 1
  /\ UNCHANGED <<engine, task, table, sleeping, stored, faults>>

\* The process is killed, or stopped: main does not wait for background tasks.
Crash ==
  /\ faults < MaxFaults
  /\ faults' = faults + 1
  /\ rows' = durable.rows /\ log' = durable.log
  /\ queue' = <<>>
  /\ stage' = [m \in Message |->
                 IF stage[m] = "queued" \/ m \in Handling THEN "lost" ELSE stage[m]]
  /\ task' = [m \in Message |-> IF task[m] = "none" THEN "none" ELSE "done"]
  /\ sleep' = "awake" /\ sleepDone' = FALSE /\ page' = {}
  /\ UNCHANGED <<seen, durable, reviewed, due, now, stored>>

Init ==
  /\ queue = <<>>
  /\ stage = [m \in Message |-> "coming"] /\ seen = [m \in Message |-> <<>>]
  /\ task = [m \in Message |-> "none"]
  /\ rows = <<>> /\ log = <<>> /\ durable = [rows |-> <<>>, log |-> <<>>]
  /\ sleep = "awake" /\ sleepDone = FALSE /\ page = {}
  /\ now = 0 /\ stored = {} /\ reviewed = {} /\ due = {} /\ faults = 0

Engine ==
  \/ Resolve
  \/ \E m \in Message : ReadHistory(m) \/ Generate(m) \/ GenerateFails(m) \/ Reply(m)

PostProcess(m) ==
  \/ AddQuestion(m)
  \/ CommitQuestion(m)
  \/ AddAnswer(m)
  \/ CommitAnswer(m)
  \/ Extract(m)

SleepPhase == FallAsleep \/ ReadToday \/ WriteDiary \/ Trim \/ CommitTrim

Next ==
  \/ \E m \in Message : Arrive(m) \/ PostProcess(m) \/ TaskFails(m)
  \/ Engine
  \/ SleepPhase
  \/ TickAwake
  \/ DiaryFails
  \/ Clock
  \/ Crash

Spec == Init /\ [][Next]_vars

\* The event loop resumes the engine and every background task.
FairSpec == Spec /\ WF_vars(Engine) /\ \A m \in Message : WF_vars(PostProcess(m))

--------------------------------------------------------------------------------
(* Properties.                                                                *)

TypeOK ==
  /\ queue \in Seq(Message)
  /\ stage \in [Message -> {"coming", "queued", "resolved", "prompting", "answered",
                            "replied", "failed", "lost"}]
  /\ seen \in [Message -> Seq(Row)] /\ \A m \in Message : Len(seen[m]) <= History
  /\ task \in [Message -> {"none", "question", "commitQuestion", "answer",
                           "commitAnswer", "extract", "done"}]
  /\ rows \in Seq(Row) /\ log \in Seq(Row)
  /\ durable \in [rows : Seq(Row), log : Seq(Row)]
  /\ sleep \in {"awake", "read", "diary", "trim", "commit"} /\ sleepDone \in BOOLEAN
  /\ page \subseteq Message /\ stored \subseteq Message
  /\ reviewed \subseteq Message /\ due \subseteq Message
  /\ now \in 0..MaxNow /\ faults \in 0..MaxFaults

\* Only an exchange whose answer was sent is in the conversation, so that neither a
\* later prompt nor the diary shows what the user never got (docs/engine.md, 5).
FailedExchangeIsNotSaved ==
  \A i \in DOMAIN log : stage[log[i].msg] = "replied"

\* Whatever tasks interleave, commit each other's rows, fail or are killed, before a
\* restart and after it: no answer was stored without its question before it.
AnswerFollowsQuestion ==
  \A r \in {log, durable.log} : \A m \in Message :
    \A i \in Index(r, m, "assistant") : \E j \in Index(r, m, "user") : j < i

\* An exchange that was committed survives a kill: if it is not among the stored
\* rows, a trim took it away, and at least as many newer rows as the trim keeps were
\* stored after it.
StoredSurvives ==
  \A m \in stored :
    \E i \in Index(durable.log, m, "assistant") :
      Index(durable.rows, m, "assistant") = {} => Len(durable.log) - i >= Keep

\* Trimming never shortens the history a prompt is made of: it is always the last
\* rows of everything that was said.
TrimKeepsHistory ==
  LastN(rows, History) = LastN(log, History)

\* An answered message ends up in the conversation, unless a statement fails or the
\* process ends first.
EveryReplyIsStored ==
  \A m \in Message : stage[m] = "replied" ~> m \in stored \/ faults > 0

\* The prompt of a message has the exchanges the user has had before it, as many as
\* the limit allows.
PriorExchangeInPrompt ==
  [][\A m, n \in Message :
       /\ stage[m] = "resolved" /\ stage'[m] = "prompting"
       /\ stage[n] = "replied" /\ faults = 0
       => Index(seen'[m], n, "assistant") # {} \/ Len(seen'[m]) = History]_vars

\* When a sleep phase has ended, everything stored before it began has been reviewed
\* in a diary.
EveryDayIsReviewed ==
  [][sleep = "commit" /\ sleep' = "awake" /\ faults' = 0 => due \subseteq reviewed]_vars
================================================================================
