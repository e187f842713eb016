# CordBeat in TLA+

CordBeat is a personal AI companion: one Python process (the *Core*) that answers chat
messages arriving from platform adapters, remembers, dreams of the day at night, and acts
on its own through a heartbeat. This directory models the part of it that a test hardly
reaches: what its tasks do to shared state when they interleave, fail, time out or die.
Source paths are relative to `src/src/cordbeat/` in the repository.

## 1. How the program runs

The Core is one asyncio event loop. Code between two `await`s is atomic, everything
else interleaves. The tasks are

* one `_handle_connection` per WebSocket (`core/gateway.py`), which put messages into
* one global queue with **one** consumer, `MessageQueue.process_loop`, which calls
  `CoreEngine.handle_message` for one message after the other;
* one background task per answered message (`CoreEngine._post_process_message`);
* one heartbeat task (`agent/heartbeat.py`), which also runs the sleep phase
  (`agent/sleep.py`) and the executor of approved proposals (`agent/proposals.py`).

All of them share **one** SQLite connection, and so one transaction: each statement and
each commit is awaited, and the commit of any task makes the half-done rows of every
other durable. The character (`soul.yaml`) is changed by synchronous calls. Adapters
are processes of their own and reconnect for ever; skills run in subprocesses.

## 2. Inventory

| Component | State | Operations | What is hard | What makes it correct |
|---|---|---|---|---|
| Proposals (`agent/proposals.py`, `memory/records.py`) | proposal rows with a status | store and notify, `/approve`, `/reject`, expire, execute, install a skill | three tasks change a row; effects outside the database; a crash between an effect and its record | consent of the owner, at most once per life of the process, durable verdicts, effect before record, every approved one resolved |
| Record store (`memory/records.py`) | `certain_records`, link tokens, audit events | insert, conditional update, expiry, tokens | read-then-update across awaits | see Proposals and Accounts |
| Heartbeat loop (`agent/heartbeat.py`) | `_sleep_done_today`, the interval | tick, triage, evaluate, act, fall asleep | clock and loop drift; a tick lasts; a raise in any step; quiet hours changed meanwhile | the loop survives, quiet and waking ticks both recur, one sleep phase per window |
| Sleep phase (`agent/sleep.py`) | none of its own | diary, promotion, recall hints, chain links, trim, expiry | runs for minutes beside the engine | reviews each day, keeps what prompts use |
| Gateway (`core/gateway.py`, `adapters/runner.py`) | `_connections`, the queue, an adapter's `_ws` | handshake, register, send, unregister, redial | old and new connection of one adapter overlap; half-open paths; restarts | only served, trusted sockets are registered; order per connection; the queue drains; adapters reconnect |
| Users and linking (`memory/users.py`, `core/engine.py`) | `users`, `user_platforms`, `link_tokens` | first contact, `/link`, confirm, `/unlink`, `/prefer`, extraction's update | a background task writes back a row it read before | a token links once, identities move only on request, preferences stick |
| Chat pipeline (`core/engine.py`, `memory/conversation.py`, `ai/extraction.py`) | `conversation_messages` | resolve, read history, generate, reply, store, trim | the reply precedes the storage; failing statements; shutdown | failed exchanges are not saved, answers follow questions, history complete |
| Vector memory (`memory/vector.py`) | a vector and a metadata row per memory | insert, merge, search with forgetting | two rows in two statements, one transaction for all tasks | rows in pairs, stored memories kept until too weak |
| Memory facade, migrations (`memory/core.py`, `memory/migrations.py`) | tables, `schema_version`, the connection | open, stamp, migrate, close; backup and restore | a kill between two statements of a script; old databases; backups of one | an opened store has its tables; it is closed last |
| Soul (`agent/soul.py`) | `soul.yaml`, `soul_core.yaml`, the soul in memory | emotion update and decay, name, traits, quiet hours | files are truncated before they are written; a full disk | identity and rules survive; emotions fade; file and memory agree |
| Skills (`skills/*.py`) | environments and their hash files, a build lock, token buckets, a process per run | load, build, run, serve memory calls, limit | two tasks run one skill; edits, time-outs, cancellation and kills in any step | a run ends, never on stale dependencies; a rate is kept; an answered record is durable |
| AI (`ai/*.py`) | the response cache, the attempts of a JSON call | generate, cache, validate and ask again, infer | three callers share the cache; expiry and eviction during a request; answers of a wrong shape | fresh answers, retries that know why, bad answers do not stay |
| Adapters (`adapters/*.py`) | routes to users, typing tasks, voice users, the voice channel | receive, filter, forward, show, speak, join, leave | handlers of many users interleave; each call of the platform may fail; the connection breaks | an answer reaches its user in a permitted place and way |
| Speech (`voice_recv.py`, `ai/stt.py`, `ai/tts.py`, `rvc_backend.py`) | buffers and times of the speakers | receive, detect silence, transcribe, synthesise | a thread and a task without a lock | speech is taken once, in order |
| Start-up (`main.py`, `config.py`) | the services | start, signal, shut down | exceptions, hanging connections, cancellation, kills | a shutdown ends and closes the store |
| Tools (`tools/*.py`), metrics, skill validator | files | back up, restore, export, configure, count, inspect code | — (run by hand or pure) | — |

`PROJECT.json` has one entry per component with its status, and the list of hazards, each
at the line where it bites with the properties that would show it.

## 3. Modules

| Module | Models | Extends or instantiates |
|---|---|---|
| `ProposalLifecycle` | the abstract life of a proposal: the statuses and the permitted moves of `_VALID_TRANSITIONS`, with what a crash takes back | — |
| `Proposals` | engine commands, executor, sleep-phase expiry and store, one action per await | `ProposalLifecycle` (refined, property `LifecycleSpec`) |
| `Delivery` | what the gateway promises of a message: a channel that loses but neither repeats nor reorders | — |
| `Gateway` | adapters, sockets, handlers, queue, consumer, network, restarts | `Delivery` (refined, property `DeliverySpec`) |
| `Accounts` | users, identities, tokens, preferences, background extraction, kill | — |
| `VectorMemory` | the two tables of a layer, tasks that insert, merge, search and forget, kill | — |
| `Heartbeat` | the loop against the clock, quiet window, `/quiet`, restarts | — |
| `Chat` | one message at a time, storing tasks, history, diary, trim, kill | — |
| `SkillRuns` | one run of a skill from the limiter to the end of its process | — |
| `Soul` | the emotions and how the operations of the class change them (operators only) | — |
| `Process` | start, run, shutdown, kill, backup and restore of the agent's process | `Soul` |
| `VoiceReceiver` | the receivers of a voice channel: library thread and silence detector | — |
| `Adapters` | the six platform adapters | `VoiceReceiver` |
| `AiCalls` | cache, validated JSON calls, the chain of calls of a chat message and its task | — |
| `ProposalsProofs`, `GatewayProofs`, `AccountsProofs`, `VectorMemoryProofs`, `SkillRunsProofs`, `ProcessProofs` | inductive invariants and theorems | the module of that name, `TLAPS` |
| `ChatAdaptersProofs`, `HeartbeatAiProofs` | the same, each in two parts | `Chat` and `Adapters`; `Heartbeat` and `AiCalls` |
| `MC*` | constants of the small instances | the module of that name |

Names in `Heartbeat` and `Adapters` carry the component (`HeartbeatSpec`, `AdapterTypeOK`), so that
one module can extend them beside another. Operators marked "Mutation" in a comment are plausible bugs next to the definition they would
replace. No behaviour uses them; replacing the definition by one of them must break the
property that `PROJECT.json` pairs it with.

### Proposals
`db[p]` is the status the connection sees, `disk[p]` the committed one, `old` the rows
past `proposal_expiry_days`. `engPc`, `cmd`, `engHit` are the command under way in
`CoreEngine._cmd_approve` and `_cmd_reject`; `hbPc`, `todo`, `cur` the heartbeat task,
which is either the executor with the list it selected or, in a sleep phase (`expiring`),
the expiry with the rows it selected. Every `execute` and every `commit` is a step, so
that commands, expiry and executor interleave as in the loop. `ConditionalUpdate` is
`UPDATE ... WHERE status IN`, and `ExpireRow` is the `UPDATE ... WHERE id` of
`expire_old_proposals`. Skill code and notifications may return or raise. `overtaken` remembers
the proposals that were answered after the expiry had read their row and before it was done with
it: their verdict may be overwritten (`RejectionIsFinal` below), and `VerdictStands` says
that no other verdict ever is.

### Gateway
A socket has two ends (`near` of the adapter, `far` of the Core) and frames on their way
(`up`, `down`); `cut` sockets have a broken path that each end discovers in its own time,
as the two keepalives do. `handler[s]` is where `_handle_connection` of `s` is, `pc[a]` and
`ws[a]` are `RetryableConnection._connect_to_core` and its `_ws`. Back-off delays, tokens
and malformed frames are left out: a token is right or wrong (`Trusted`).

`Delivery` forgets sockets, handlers, queue and registration: `StageOf` maps the fate of a message
to what its writer can see of it, and `route` is the socket it took. A command's answer that
the adapter reads and throws away is `gone` there.

### Accounts
`_resolve_user`, the link commands, `/prefer` and the background extraction each as a
sequence of statements; a statement and its commit are one step there, since no other
step of the module lies between. The kill may come between any two.

### VectorMemory
One user and one layer (every statement is restricted to them). The strength of a memory
is abstracted to the age at which it falls below the threshold: every entry the program
makes starts with strength 1.0, so the age and the emotion_weight alone decide (`Weak`). `dedup` is the
configured `dedup_distance_threshold > 0`. Rowids are given out once, as the extension does.
A merge writes the emotion_weight it computed from the row it had read (`FindDuplicate`), awaits
before. `raised` remembers the rows a merge strengthened while a search was about to delete them.

### Heartbeat
Time of day in units; the AI chooses any interval, clamped as in `_loop`; a tick takes up to
`MaxBusy` units; any step of it may raise. `nap` is the interval the loop last went to sleep for;
`slept`, `disturbed` and `missed` record what a window saw, and whether one that had no sleep
phase was overslept (`Overslept`: the interval, with a tick before and after it, is longer than the
window, or the time between two windows is too short for the default interval).

### Chat
One user. `Resolve`, `ReadHistory`, `Generate`, `Reply` are the awaits of the pipeline,
`AddQuestion` ... `CommitAnswer` those of `_post_process_message`, `ReadToday` ...
`CommitTrim` those of the sleep phase. What the extraction writes lies in `Accounts` and
`VectorMemory`; here it only commits the shared transaction or does not.

### SkillRuns
`pc[c]` is where `Skill.execute` of the caller `c` (the heartbeat tick or the engine) is:
waiting for the build lock, in one of the two `uv` calls, reading the lines of the
subprocess, or waiting for its exit. `env` is what is on disk (interpreter, version of the
dependencies, hash file, written last), `ver[c]` the version of `pyproject.toml` that was
hashed before the lock was taken and `target[c]` the one `uv` then reads. `child`, `said`,
`request` are the subprocess; a memory call is sent, its record inserted, committed, and the
call answered, each an await. `rows`, `durable`, `acked` are the records inserted, those
in the last commit and the last one answered, over the connection that all tasks share
(`OtherCommit`). `bucket` counts tokens in units of a minute's part, so that the refill is
exact. One skill stands for all: skills share nothing but the connection. When the agent is
killed its subprocesses end with it, as under a service manager or in a container.

### Soul and Process
`Soul` has the arithmetic of `update_emotion` and `decay_emotion` in units of the decay rate.
`Process` puts it into the life of the process: `phase` is where `main()` is, a file is
truncated and then filled, each CREATE of a migration script is committed by itself, and a
kill may come between any two of these steps (`torn` remembers what it left half-written).
A `soul.yaml` is smaller than a buffer, so that a torn one is empty, never cut. The name
stands for identity, traits and quiet hours, which are written together. A tick decays the
emotion only when the executor before it does not raise and it is no quiet hour. The bound
of kills includes exceptions during the start. A restored backup is a copy of the database
without a hot journal. Waiting for the gateway to stop has no fairness, the time-out of
`_cancel_with_timeout` has. With the chat in the foreground (`mode` is "cli") the end of `main()` is not
the end of the process: `main_with_cli` waits for `cli_main`, and its `input()` for a line.
`LeaveChat` is the user who ends it, before a shutdown, in any step of one, where the cancellation
cuts short what is awaited, or after it.

### VoiceReceiver and Adapters
The thread of the voice library and the silence detector share `_buffers` and `_last_time`
without a lock: one call on a dictionary or bytearray is atomic under the interpreter lock,
and the other side may run between any two. A scan of the detector that finds nobody changes
nothing and is left out.

`Adapters` has one handler per platform for what users write (with its filters and its
fetches of attachments and transcriptions), the forward over `_ws`, the answers of the Core,
`Dispatch` with the choice of voice, images or text, and each send with its failure and its
fallback. `fate[m]` is what became of the answer to `m`. The connection is open or closed
here; how it is made again is in `Gateway`. One guild with one voice channel stands for all;
`/join` is atomic, `/leave` is not, except that one without a connection forgets the receiver at once. The runner stops an adapter whose `start()` returns
(`Return`, for Telegram). Telegram's send and the start of typing are one step. Empty
answers, codecs, encryption, wav conversion and the signatures of webhooks are left out.

### AiCalls
`call[c]` is the call of the heartbeat (`_layer2_evaluate` by `validated_ai_json`), of the engine (keywords, the
answer with or without images, a drawing) or of its background task (feeling, then facts).
`LookUp` is `CachingBackend.generate` up to the request, `Answer` and `Fail` what follows it.
An entry has the age the code computes (from the request) and, as history, its true one
(`born`). A prompt is the same each time, which is when the cache matters; what a retry is
told of is part of its key. The heartbeat's is the evaluation of one user for one
reason; that of the triage carries the time (`agent/heartbeat.py:425`), so that no triage meets an
answer to an earlier one. Temperatures are counted in tenths; an image is never cached.
`Mend` is the model that gives valid answers from then on.

## 4. Runs

| Run | Instance and bounds | Shows |
|---|---|---|
| `proposals_effects` | 2 users with a proposal each (a skill, a trait change), 1 crash; 1,106,314 states | `ConsentBeforeHandling`, `HandledOncePerLife`, `VerdictStands`, `ExecutedTookEffect`, and that `Proposals` implements `ProposalLifecycle` (`LifecycleSpec`) |
| `proposals_liveness` | a general and a skill-creation proposal of one user, 1 crash; 352,254 states (2 min) | `ApprovedIsResolved`, `StaleIsExpired` |
| `gateway_safety` | 2 adapters, one untrusted, 3 sockets, 2 messages, 2 faults, sockets symmetric; 1.8 million states | `RegisteredIsServed`, `InOrder`, and that `Gateway` implements `Delivery` (`DeliverySpec`) |
| `gateway_liveness` | 1 adapter, 3 sockets, 2 messages, 1 fault; 19,731 states | `QueueDrains`, `Reconnects`, `AnsweredUnlessFault` |
| `accounts_linking` | 3 identities on 2 adapters, 2 users, 1 token, 1 extraction, 1 kill; 1.5 million states | `TokenLinksOnce`, `OrphansOnlyByCrash`, `IdentityMovesOnlyOnRequest` |
| `vector_rows` | 2 tasks, 2 rowids, 4 instants, 1 kill, deduplication off and on; 6.3 million states | `Paired`, `StoredIsKept`, `OnlyForgottenIsDeleted` |
| `heartbeat_days` | days of 8 units, intervals of up to a day (the shipped `max_interval_minutes`), a night over midnight, 2 users, 1 `/quiet`, 1 restart; 894,694 states | `SleepsOnceUndisturbed`, `OnlyOversleptIsMissed`, `LoopSurvives` |
| `chat_exchanges` | 2 messages, history and trim of one row, 1 fault; 168,945 states | `AnswerFollowsQuestion`, `TrimKeepsHistory`, `EveryReplyIsStored` |
| `skill_runs` | 2 callers, limit of one a minute, 2 records, 1 edit, 1 fault; 232,298 states | `GrantsBounded`, `NoStaleDependencies`, `AckedIsDurable`, `DisturbedOnlyByChange`, `EveryRunEnds` |
| `process_lives` | 2 runs of the process, 2 kills or failing writes, 2 changes of the soul, 1 skill, 2 + 2 tables, the chat left at any moment; 922,054 states | `LossOnlyByTear`, `VectorTablesThere`, `ShutdownEnds` |
| `adapters` | 11 scenarios over 6 platforms, 2 users, 3 chats, one of them closed, 1 remembered route, 2 voice receivers; 107,929 states | `HeardOnceInOrder`, `AnswerStaysWithUser`, `VoiceForVoice`, `SpeechIsTaken` |
| `ai_calls` | heartbeat and task, or engine and task; 2 entries that live 1 tick; cache up to a temperature of 0.2 or 0.3; 139,218 states | `RetryToldWhy`, `AnswersAreFresh`, `PoisonPasses` |

Why the bounds are enough: each hazard needs two actors on one row (two proposals, two
sockets, two tasks, two messages of one user, two callers of one skill), one event in between
(an update, a cut, a commit, an edit) and at most one fault after it; a second record lets the
calls of both callers overlap; the third socket, the
third identity, the second window and the second run of the process let what the first left
behind meet something new. Trim, history and remembered routes of one entry make every
exchange cross the limits; two cache entries are fewer than the prompts of a run. Symmetry is
used only in runs without liveness and over sets the specification never orders.

Deadlock is not checked where the instance really stops: every message handled, every id
given out, the clock or the number of starts at its bound. `Proposals` and `AiCalls` have no
such end, and there it is checked.

### Further configurations
`<Module>_more.cfg` checks what else holds, on the instance of the run above or one like it:

| Configuration | Properties |
|---|---|
| `Accounts_more` | `TypeOK` |
| `Adapters_more` | `AdapterTypeOK`, `NothingVanishes`, `RunningIsRegistered`, `TypingEnds` |
| `AiCalls_more` | `TypeOK`, `FallbackIsLast`, `CallsEnd` |
| `Chat_more` | `TypeOK`, `FailedExchangeIsNotSaved`, `StoredSurvives` |
| `Gateway_more` | `TypeOK`, `AnswersComeHome` |
| `Heartbeat_more` | `HeartbeatTypeOK`, `BothKindsOfTick` |
| `Process_more` | `TypeOK`, `FileIsMemory`, `OpenWhileUsed`, `CoolsDown` |
| `Proposals_more` | `TypeOK`, `ConsentBeforeHandling`, `HandledOncePerLife`, `VerdictStands`, `ExecutedTookEffect`, `LifecycleSpec` |
| `SkillRuns_more` | `TypeOK`, `NoChildLeft`, `EveryWaiterEnters` |
| `VectorMemory_more` | `TypeOK` |

The same files list, in comments, properties that the source claims and the code violates:
each, put in the place of the others, is refuted by TLC (`tlc -config <cfg> MC<Module>.tla`).
A few need an instance of their own and have their own configuration.

| Property | Configuration | Disagreement |
|---|---|---|
| `ApprovalIsActedOn` | `Proposals_more` | `memory/records.py:241`: expire_old_proposals tests the status on the row it SELECTed and then UPDATEs by id alone; an /approve whose UPDATE runs between the two is overwritten with expired after the user was told it is approved. tests/test_memory.py:781 says "Only pending proposals are expired, not approved ones." |
| `RejectionIsFinal` | `Proposals_more` | `memory/records.py:241`: The same UPDATE moves a row from rejected to expired. records.py:98-102 (_VALID_TRANSITIONS) has no edge out of rejected, and memory/records.py:225 says "Expire PENDING proposals older than max_age_days." |
| `ValidSkillInstalls` | `Proposals_more` | `agent/heartbeat.py:404`: _layer2_evaluate builds HeartbeatDecision without proposed_skill, so the stored payload is always {} and an approved skill proposal always fails with an invalid name. The prompt at agent/heartbeat.py:90-99 asks the AI for "proposed_skill", and agent/proposals.py:277 says "Validate and write a proposed skill to the skills directory." |
| `ListeningIsReachable` | `Gateway_more` | `core/gateway.py:287`: The finally clause of _handle_connection deletes _connections[adapter_id] whatever socket is registered there. When a handler of a dead connection ends after the adapter has reconnected, the live connection is unregistered and every answer and heartbeat message is dropped with "not connected", while the adapter listens on. docs/gateway.md:28 says "**WebSocket only** — always-connected, real-time, bidirectional." and docs/gateway.md:30 "Supports HEARTBEAT-initiated messages (Core → Bot)". |
| `AnswersAreShown` | `Gateway_more` | `core/engine.py:943`: _send_reply answers every slash command with type ACK, and RetryableConnection._listen_core (gateway.py:97) dispatches only message, heartbeat_message and error: the text of the answer is read and thrown away. core/engine.py:941 says "Send a reply message back to the user." and docs/gateway.md:66 gives ack the direction "Bot → Core". |
| `PreferenceSticks` | `Accounts_more` | `ai/extraction.py:199`: extract_and_store_memories reads the whole users row, awaits, and writes all its columns back; a /prefer whose UPDATE and acknowledgement fall in between is overwritten with the old value. docs/architecture.md:71 says of the one queue "Eliminates memory access conflicts entirely". |
| `PreferredIsLinked` | `Accounts_more` | `core/engine.py:748`: /unlink removes the link of the platform a user prefers and leaves preferred_platform, and a confirmed token can move it away too; heartbeat messages to that user are then dropped because no platform_user_id resolves. /prefer itself refuses such a value: core/engine.py:841 "# Verify the platform is actually linked". |
| `AccountsKeepALink` | `Accounts_more` | `core/engine.py:548`: _handle_link_confirm moves the requester's identity with INSERT OR REPLACE; if it was the only link of its account, that account keeps its memories, records and proposals but nobody can reach it any more. core/engine.py:735 says "Cannot unlink: you must have at least one linked platform." and core/engine.py:517 "Verify a link token and merge the requester's platform." |
| `FlashbulbIsKept` | `VectorMemory_more` | `memory/vector.py:258`: With dedup_distance_threshold > 0 a flashbulb whose content is a near-duplicate of an ordinary episode is merged into it; _merge_duplicate takes over the emotion weight but not the flashbulb mark, and a later search deletes the row. docs/memory.md:31 says of flashbulb memories "emotional_weight=1.0, no decay" and CHANGELOG.md:56 "(flashbulb entries are exempt)". |
| `NothingRaisedIsDeleted` | `VectorMemory_more` | `memory/vector.py:348`: A search deletes the rows it found too weak when it selected them; a merge that meanwhile raises the emotion_weight of one, so that it decays more slowly and is strong enough again, does not save it. memory/vector.py:264 says of a merge "Reinforce an existing memory instead of inserting a duplicate." |
| `MergeKeepsTheHigher` | `VectorMemory_more` | `memory/vector.py:271`: The maximum is taken of the new emotion_weight and the one read by _find_near_duplicate, an await before the UPDATE; of two merges into one row the later lowers what the earlier raised. memory/vector.py:266 says "Emotion weight takes the max so that a more intense duplicate raises the floor." |
| `RestatedIsKept` | `VectorMemory_more` | `memory/vector.py:275`: _merge_duplicate refreshes last_accessed_at, but _compute_strength counts from created_at and a strength of 1.0 cannot be bumped: a fact the user has just repeated keeps the age of the old row, which the next search may delete. CHANGELOG.md:153 says the duplicate will "reinforce that record (strength" bumped, and docs/memory.md:61 "Reinforced when referenced". |
| `NoNearDuplicates` | `VectorMemory_more` | `memory/vector.py:193`: The nearest row is looked up and the new rows are inserted in separate awaits; two extractions of one user that overlap both find nothing and both insert. CHANGELOG.md:155 says "max) instead of inserting a duplicate row." |
| `NothingIsErased` | `VectorMemory_more` | `memory/vector.py:355`: A search physically deletes the rows that have fallen below archive_threshold. docs/memory.md:75 says "Archived (never fully deleted)", and agent/soul.py:35 gives the character the rule "Never completely erase memories". |
| `HeartbeatGoesOn` | `Heartbeat_unparsed` | `core/engine.py:796`: /quiet accepts whatever matches two digits, a colon and two digits, such as 99:99 or 24:00, and saves it in soul.yaml; _parse_time (heartbeat.py:109) then raises in every tick, also after a restart, so that no heartbeat, no sleep phase and no approved proposal runs again. The test is commented "# Basic HH:MM validation" (core/engine.py:795), the user is told "Quiet hours updated", and docs/heartbeat.md:91 says "the next heartbeat tick executes". |
| `SleepsOncePerWindow` | `Heartbeat_more` | `agent/heartbeat.py:145`: _sleep_done_today is kept in memory only: a restart in the quiet window runs the sleep phase, and writes the diary, a second time. agent/heartbeat.py:236 says "Run the sleep phase once per quiet-hours window." |
| `NoWindowIsMissed` | `Heartbeat_window_missed` | `agent/heartbeat.py:193`: The loop sleeps for the interval the AI chose, up to max_interval_minutes = 1440, without regard to the quiet window, so that a window can pass, every day, without a tick in it: no diary, no trimming, no expiry of proposals. docs/memory.md:81 says "During quiet hours, the AI automatically:". |
| `QuietInQuietHours` | `Heartbeat_more` | `agent/heartbeat.py:197`: The quiet hours are tested once, at the start of a tick; the evaluations and messages of a tick that takes long are not, so a message may be sent after the window began. agent/heartbeat.py:238 says "Returns True if we are in quiet hours (caller should skip HEARTBEAT)." |
| `ConfiguredHoursAreQuiet` | `Heartbeat_more` | `agent/heartbeat.py:240`: HeartbeatConfig.quiet_hours_start and quiet_hours_end are parsed and never read; the loop uses soul.yaml. docs/config-reference.md:109 says "Start of quiet hours (UTC, HH:MM)". |
| `EveryDayIsReviewed` | `Chat_unreviewed` | `agent/sleep.py:146`: The sleep phase runs in the quiet window, by default from 01:00 UTC on, and _write_diary reads the messages of the current UTC date, those since 00:00: what was said the day before, from the end of one window to midnight, is in no diary. docs/memory.md:82 says "Reviews the day's conversations" and agent/sleep.py:71 "For each user, review today's conversations and generate a diary." |
| `PriorExchangeInPrompt` | `Chat_unprompted` | `core/engine.py:134`: The exchange is stored by a background task created after the answer was sent, so that a prompt answer of the user is handled before it and its prompt lacks the exchange. docs/engine.md:88 puts "Conversation Storage" before "Response Routing", and docs/engine.md:90 says "On success, both the user message and AI response are stored in the". |
| `ResultIsReturned` | `SkillRuns_more` | `skills/sandbox.py:184`: The subprocess is created without a limit for its streams, so that proc.stdout.readline() raises ValueError on a line of more than 64 KiB: a result between that and max_stdout_bytes, such as the base64 image of a /draw, kills the skill and is lost. docs/skills.md:138 says "**Output limits**: `max_stdout_bytes` (1 MiB), notification truncation" and skills/sandbox.py:36 "max_stdout_bytes: int = 1 * 1024 * 1024  # 1 MiB". |
| `SchemaComplete` | `Process_more` | `memory/migrations.py:111`: apply_migrations stamps every database that has users and no schema_version row as version 1; executescript commits each statement by itself, so a kill inside migration 1 leaves such a database without the later tables, and no later start creates them. memory/migrations.py:37 describes a migration as "atomically-applied". |
| `RulesAlwaysThere` | `Process_more` | `agent/soul.py:375`: An existing but empty soul_core.yaml is loaded as {}: a kill between its creation and its filling leaves the agent without rules. agent/soul.py:27 says "Immutable rules that soul_core.yaml must always contain". |
| `QuitClosesStore` | `Process_more` | `main.py:310`: Leaving the chat cancels main() inside stop_event.wait(), so that its shutdown is skipped and the store is not closed. main.py:278 says "the server is shut down gracefully". |
| `SignalQuits` | `Process_more` | `main.py:308`: A signal ends main(), but main_with_cli goes on awaiting cli_main, whose input() waits in a thread: the signal handler has replaced KeyboardInterrupt, and the process stays until its user types a line or ends the input. adapters/cli.py:23 says "Type a message and press Enter. Ctrl+C to quit." |
| `RunsUntilStopped` | `Adapters_more` | `adapters/runner.py:95`: The runner stops an adapter when its start() returns, which TelegramAdapter.start() does as soon as the polling has begun (adapters/telegram.py:228, non-blocking). docs/deployment.md:60 says "Each adapter runs as a separate process and connects to Core via WebSocket". |
| `TypingOnlyWhileProcessed` | `Adapters_more` | `adapters/telegram.py:325`: The typing task is cancelled only by a text into the same chat: after an answer by voice or by images it goes on for ever. adapters/telegram.py:323 says "Show typing indicator while core processes the message". |
| `SpeechDegrades` | `Adapters_more` | `adapters/discord.py:490`: _speak_in_vc returns without a word when the audio is empty. ai/tts.py:40 says "Returns empty bytes on failure rather than raising so that the adapter can gracefully degrade to a plain-text reply". |
| `OddIsRetried` | `AiCalls_more` | `ai/backend.py:120`: dict(json.loads(text)) of a list or a number raises TypeError or ValueError, which validated_ai_json does not catch (it catches JSONDecodeError and KeyError): the call raises at the first attempt although a fallback is given. ai/validation.py:232 says "Max 2 retries. On final failure, return fallback or raise." |
| `EveryRetryAsks` | `AiCalls_more` | The second retry of an invalid answer may be served from the cache. |
| `NoEmptyReply` | `AiCalls_more` | A vision answer of nothing but thoughts, or a failed drawing, is sent as an empty reply. |

## 5. Fairness

Weak fairness of a task says no more than that the event loop resumes a coroutine whose
awaited call has returned; SQLite calls, sends and sleeps return, and a skill run is ended
by its timeout (`skills/sandbox.py`). No fairness is assumed of users: nothing that is shown
to happen waits for one, and where the program does wait, the property says so
(`ShutdownEnds`).

* `Proposals`: weak fairness of the steps of the engine, the executor, the expiry and the
  clock. `SelectApproved` has strong fairness: it is only enabled outside the quiet hours,
  which come and go; ticks are `default_interval` apart while it is quiet, so some tick falls
  outside. `StaleIsExpired` assumes sleep phases recur (`FallAsleep`); `Heartbeat` shows when
  they do: in every undisturbed window the loop does not oversleep, of quiet hours that parse.
* `Gateway`: every adapter loop, handler and the consumer are resumed; both keepalives
  detect a broken path. No fairness for faults, sends of users or restarts.
* `Heartbeat`: the clock runs and the loop is resumed.
* `Chat`: the engine and each background task are resumed. The sleep phase needs none.
* `SkillRuns`: a call gets the lock when it is free (`asyncio.Lock` wakes its waiters in
  order), `uv` ends, the time-out of a run fires and the wait for its exit is bounded. No
  fairness for the skill itself, which may be silent for ever, nor for edits and restarts.
* `Process`: the start goes on, a file is written, ticks recur, the time-outs of the shutdown
  fire, and a process whose `main()` has ended exits, but for one whose chat is open. None for
  signals, kills, users, who may never leave the chat, nor for the gateway, which may hang in its close.
* `Adapters`: handlers, sends, the Core's answers, the thread of the library and the detector
  go on, an adapter connects again, and a pause lasts long enough to count as silence. None
  for users, `Stop`, `Return` and `Cut`.
* `AiCalls`: requests end (every client has a time-out) and time passes. Neither need the model ever
  be sane nor the heartbeat evaluate the user again: `PoisonPasses` assumes both on its left-hand side.

## 6. Proofs

Every specification is proved about, for every value of their constants and any number of faults,
from the named assumptions on the constants alone.
None of the safety properties is inductive as it stands. Each proof states the strengthening, one
lemma per action or group of actions, and derives the theorems from it.

| Module | Theorems | The strengthening |
|---|---|---|
| `ProposalsProofs` | `TypeCorrect`, `Consent`, `OncePerLife`, `VerdictSafe`, `EffectFirst`, `Inductive`, `Implements` (every step of `Proposals` is a step of the lifecycle or a stutter) | what each of the three actors knows at each of its program counters: `EngineInv` (a command past its check concerns a proposal of the commanding user, one past its commit has the row where its verdict left it, or where the executor or the sleep phase it overtook may have put it: `Stands`), `ExecutorInv` (rows still on its list are approved, and nobody else moves the one it executes, which is handled), `SleepInv` (rows on the expiry's list are pending, or were answered since and are `overtaken`), `ConsentInv`, `OnceInv`, `EffectInv` |
| `GatewayProofs` | `InductiveInvariant`, `TypeCorrect`, `RegisteredServed`, `OrderKept`, `AnswersAlwaysComeHome`, `DeliversAtMostOnce` (every step of `Gateway` is a step of `Delivery` or a stutter) | `FramesOK`: what lies between the two ends of a socket in each phase of its handshake. For the order, `OrderInv`: what is sent, under way, queued, taken and answered follow each other (`UpOrder`, `SentIsUp`, `QueueOrder`, `AnsweredIsTaken`, `ForwardOrder`). For the refinement also `AnswerOnce`: an answer that is not read is on one socket, once, and the message in hand is the only one worked on |
| `AccountsProofs` | `InductiveInvariant`, `TypeCorrect`, `LinksOnce`, `MovesOnlyOnRequest`, `OrphansByCrash` | `RowsThere`, `MessageFits`, `GrantIsFresh` (between its verification and the link a token is marked and has made no link); `OrphanInv` counts the accounts without an identity against the crashes |
| `VectorMemoryProofs` | `PairInvariant`, `InductiveInvariant`, `TypeCorrect`, `PairedAlways`, `StoredAlwaysKept`, `OnlyForgottenDeleted` | `PairInv`: half a memory is being written or deleted by one task, in the tables and in the last commit, and nobody else touches its row; `ChosenInv`: what is on the list of a search was too weak when it was selected, and still is unless it was `raised`; `KeepInv`: without deduplication what is promised is in both tables before the commit that keeps it |
| `ChatAdaptersProofs`, Chat | `InductiveInvariant`, `TypeCorrect`, `FailedNeverSaved`, `AnswersFollow`, `StoredAlwaysSurvives`, `HistoryKept` | `QueueInv`, `RepliedInv`, `TaskInv` (how far a task has come is what the log holds of its exchange), `SuffixInv` (the table is the end of the log), `StoredInv`, and `Answered` of the log and of the last commit |
| `ChatAdaptersProofs`, Adapters | `AdapterInvariant`, `AdapterTypeCorrect`, `SpeechHeardOnce`, `AnswersStayWithUsers`, `VoiceAnswersVoice`, `AnswersDoNotVanish`, `ReceiverIsRegistered` | of the voice channel `PacketInv`: a packet is in the hand of the thread, in one buffer or in one utterance, and each of these is before the next (`ArrivedInv`, `BuffersApart`, `HeardBefore`, `HeardApart`). Of the messages `MessageInv` (an answer under way concerns a message of its user) and `ChannelInv` (a remembered route leads to a permitted chat of its user); `VoiceInv`, `OneReceiver`, `LinkType` |
| `SkillRunsProofs` | `InductiveInvariant`, `TypeCorrect`, `GrantsAlwaysBounded`, `NeverStaleDependencies`, `AckedAlwaysDurable`, `DisturbedByChange`, `NoChildEverLeft` | `SpendingInv` (from any grant to now no more was spent than the capacity and the refill, less the tokens left: the bound between two grants is not inductive without the last), `BuildInv`, `ChildInv`, `UsesInv`, `IdleInv`, `EditsInv`, `RecordInv` (the record of a call in hand is among the rows, and in a commit once the call has committed); for `DisturbedByChange` also `LockInv`, `EnvInv`, `AskInv` |
| `ProcessProofs` | `InductiveInvariant`, `TypeCorrect`, `VectorTablesAlwaysThere`, `LostOnlyByTear`, `FileAlwaysMemory`, `OpenWheneverUsed` | `CoreInv`, `SoulInv`, `SkillInv` (each is whole, being written, or torn), `SchemaInv` (the statements of the migration in progress have made their tables), `OpenInv`; `MirrorInv` (what each phase and each writing of the file leaves of the soul in memory), `UseInv` (who may live in each phase of a shutdown) |
| `HeartbeatAiProofs`, Heartbeat | `HeartbeatTypeCorrect`, `SleepsAtMostOnce`, `SleepsUnlessOverslept` | `OnceInv` (the flag stands for the sleep phase of this window), `FlagInv`, and `WindowInv`: outside a window, as long as the flag of the last is set, the loop looks again before the next one begins, and in a window soon enough for a sleep phase that ends in it, unless its interval was too long for that |
| `HeartbeatAiProofs`, AiCalls | `InductiveInvariant`, `TypeCorrect`, `RetryAlwaysToldWhy`, `AnswersAlwaysFresh`, `FallbackAlwaysLast` | `HeartInv` (what the heartbeat asks now follows from the answer before), `TaskInv` (the engine answers only when its last task has ended, so that it disturbs no call under way), and of the cache `Good`: one entry of a key, none too warm, the computed age the true one; for the fallback `AttemptsInv` and `Sound` (what the cache keeps of the heartbeat was an answer to it) |

`SleepsUnlessOverslept` has no hypothesis on the intervals: with the shipped `max_interval_minutes` of 1440
windows are missed (`Heartbeat_window_missed`), and the theorem says that oversleeping is the only
way. A look outside of a window is followed by a sleep of the interval it returned, so that an
interval that leaves room for a tick before and after it in the window wakes the loop in it.

The two refinements are stated for what the code does. `Delivery` has no edge back from a loss: the
proof shows that neither a redial, nor an answer that raised, nor a restart makes the gateway
handle or answer a message again. Which messages get through is a question of liveness and faults,
and `AnsweredUnlessFault` is checked for it.

The lemmas about the operators come first in each part: what removing, appending and
cutting off does to a cache, a log, a bucket, a route or the frames of a socket.

Only model-checked: liveness (fairness and `ENABLED` are out of the prover's reach), including
that emotions cool down, that bad answers pass and that typing ends. Every safety and action
property of a run, and every one of the further configurations, is a theorem. No module
declares a `RECURSIVE` operator.

## 7. Not modelled, and why

* Prompts, diary texts, embeddings, scores and the wording of answers are data; an answer of
  the AI is any answer of its kind, or a failure.
* Recall hints, chain links and the promotion of episodes: single inserts and selects whose
  ranking is data. The emotion history and the diary rows likewise.
* Skill code, and the sandbox of the interpreter (imports, files, network); the validator,
  which is a pure walk over a syntax tree and whose verdict is data to every other part.
* Metrics: counters that nothing reads back. The wizard, the doctor and the export: run by
  hand, one at a time. The values of `config.py` are the CONSTANTS of the modules.
* `rvc_backend.py` and the codecs of `voice_recv.py`: arithmetic on audio around third-party
  libraries. The dialogue of `adapters/cli.py` (that it waits for its user is in `Process`), and the parsing and signatures of webhooks.
* Foreign keys: the schema declares them, but SQLite does not enforce them without a pragma
  the program never sets; the models do not rely on them.

## 8. Plan

Done, in this order: `ProposalLifecycle`, `Proposals` and its proofs (consent is what the
program promises first), `Gateway` (everything arrives through it), `Accounts`,
`VectorMemory`, `Heartbeat` (which justifies the fairness of `Proposals`), `Chat`,
`SkillRuns`, `Soul` and `Process`, `VoiceReceiver` and `Adapters`, `AiCalls`, the proofs of all, and
`Delivery` with the proof that `Gateway` implements it.

Left:

1. An abstract specification of another component, such as a store of memories that forgets only
   what is weak for `VectorMemory`, or an atomic exchange for `Chat`, with its refinement.
2. Promotion, recall hints and chain links beside `VectorMemory`; chain recall as an operator
   against a reference definition.
