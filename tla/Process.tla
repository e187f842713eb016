--------------------------------- MODULE Process ---------------------------------
(******************************************************************************)
(* The life of the agent's process: main() reads or makes soul.yaml and       *)
(* soul_core.yaml, migrates the database, copies the built-in skills and      *)
(* starts the services; it is stopped by a signal, by the end of the command  *)
(* line chat, or killed anywhere, and started again.                          *)
(*                                                                            *)
(* A file is written by truncating and then filling it.  The tables stand for *)
(* the CREATE statements of the schema, in their order; SQLite commits each   *)
(* of them by itself, as executescript runs them outside a transaction.       *)
(******************************************************************************)
EXTENDS Soul, Sequences, FiniteSets

CONSTANTS
  None,
  Empty,        \* the content of a truncated file
  Skill,        \* skills bundled with the program
  Base,         \* the tables of SCHEMA, a sequence that begins with "users"
  Vector,       \* the tables of VECTOR_SCHEMA, a sequence
  MaxUpdates,   \* bound: changes of name and emotion
  MaxKills,     \* bound: kills and failing writes
  MaxRuns       \* bound: starts of the process

Elements(s) == {s[i] : i \in DOMAIN s}

ASSUME ConstantsOK ==
  /\ None # Empty /\ {None, Empty} \cap ({"whole"} \cup SoulData) = {}
  /\ Skill \cap {"core", "soul", "tables", "unsaved"} = {}
  /\ Base \in Seq(STRING) /\ Vector \in Seq(STRING)
  /\ Base # <<>> /\ Base[1] = "users"
  /\ Elements(Base) \cap Elements(Vector) = {}
  /\ MaxUpdates \in Nat /\ MaxKills \in Nat /\ MaxRuns \in Nat

VARIABLES
  phase,        \* where main() is
  mode,         \* cordbeat, cordbeat-cli with the chat in the foreground, or the same once
                \* its user has left the chat
  soul,         \* Soul._soul in memory
  rules,        \* immutable_rules are in memory
  soulFile,     \* soul.yaml: None, Empty or its data
  coreFile,     \* soul_core.yaml: None, Empty or "whole"
  tables,       \* tables of the database
  version,      \* the highest row of schema_version, 0 without one
  statement,    \* statements run of the migration script in progress
  skills,       \* [Skill -> "absent", "partial" or "whole" in skills_dir]
  backup,       \* a copy of the database by cordbeat-backup
  open,         \* the connection of the memory store is open
  alive,        \* which of heartbeat, gateway and queue task are running
  raised,       \* history: ai.aclose() raised
  torn,         \* history: what a kill or a full disk left half-written
  given,        \* history: the last name the user gave
  updates, kills, runs

memory == <<soul, rules>>
souls == <<soulFile, coreFile>>
db == <<tables, version, statement>>
services == <<open, alive, raised>>
bounds == <<updates, kills, runs>>
vars == <<phase, mode, memory, souls, db, skills, backup, services, torn, given, bounds>>

Service == {"heartbeat", "gateway", "queue"}

AllTables == Elements(Base) \cup Elements(Vector)

Script == <<Base \o Vector, Vector>>

Latest == Len(Script)

--------------------------------------------------------------------------------
(* Start: Soul._load.                                                         *)

Start(m) ==
  /\ phase = "off" /\ runs < MaxRuns
  /\ phase' = "core" /\ mode' = m
  /\ runs' = runs + 1
  /\ UNCHANGED <<memory, souls, db, skills, backup, services, torn, given, updates, kills>>

LoadCore ==
  /\ phase = "core" /\ coreFile # None
  /\ rules' = (coreFile = "whole")
  /\ phase' = "soul"
  /\ UNCHANGED <<mode, soul, souls, db, skills, backup, services, torn, given, bounds>>

MakeCore ==
  /\ phase = "core" /\ coreFile = None
  /\ coreFile' = Empty
  /\ phase' = "write core"
  /\ UNCHANGED <<mode, memory, soulFile, db, skills, backup, services, torn, given, bounds>>

WriteCore ==
  /\ phase = "write core"
  /\ coreFile' = "whole" /\ rules' = TRUE
  /\ phase' = "soul"
  /\ UNCHANGED <<mode, soul, soulFile, db, skills, backup, services, torn, given, bounds>>

LoadSoul ==
  /\ phase = "soul" /\ soulFile # None
  /\ soul' = IF soulFile = Empty THEN EmptySoul ELSE soulFile
  /\ phase' = "version"
  /\ UNCHANGED <<mode, rules, souls, db, skills, backup, services, torn, given, bounds>>

MakeSoul ==
  /\ phase = "soul" /\ soulFile = None
  /\ \E e \in Feeling \ {Calm} : soul' = DefaultSoul(e)
  /\ soulFile' = Empty
  /\ phase' = "write soul"
  /\ UNCHANGED <<mode, rules, coreFile, db, skills, backup, services, torn, given, bounds>>

WriteNewSoul ==
  /\ phase = "write soul"
  /\ soulFile' = soul
  /\ phase' = "version"
  /\ UNCHANGED <<mode, memory, coreFile, db, skills, backup, services, torn, given, bounds>>

--------------------------------------------------------------------------------
(* MemoryStore.initialize and apply_migrations.                               *)

\* A database with users and without a version is taken to have all of version 1.
StampLegacy ==
  /\ phase = "version" /\ version = 0 /\ "users" \in tables
  /\ version' = 1
  /\ phase' = "migrate"
  /\ UNCHANGED <<mode, memory, souls, tables, statement, skills, backup, services, torn, given,
                 bounds>>

ReadVersion ==
  /\ phase = "version" /\ (version # 0 \/ "users" \notin tables)
  /\ phase' = "migrate"
  /\ UNCHANGED <<mode, memory, souls, db, skills, backup, services, torn, given, bounds>>

\* One CREATE TABLE IF NOT EXISTS of the next pending migration.
CreateTable ==
  /\ phase = "migrate" /\ version < Latest
  /\ statement < Len(Script[version + 1])
  /\ tables' = tables \cup {Script[version + 1][statement + 1]}
  /\ statement' = statement + 1
  /\ UNCHANGED <<phase, mode, memory, souls, version, skills, backup, services, torn, given,
                 bounds>>

\* Mutation: the version is stamped before its script has run.
RecordVersionFirst ==
  /\ phase = "migrate" /\ version < Latest
  /\ version' = version + 1 /\ statement' = 0
  /\ UNCHANGED <<phase, mode, memory, souls, tables, skills, backup, services, torn, given,
                 bounds>>

RecordVersion ==
  /\ phase = "migrate" /\ version < Latest
  /\ statement = Len(Script[version + 1])
  /\ version' = version + 1 /\ statement' = 0
  /\ UNCHANGED <<phase, mode, memory, souls, tables, skills, backup, services, torn, given,
                 bounds>>

Migrated ==
  /\ phase = "migrate" /\ version = Latest
  /\ open' = TRUE
  /\ phase' = "sync"
  /\ UNCHANGED <<mode, memory, souls, db, skills, backup, alive, raised, torn, given,
                 bounds>>

--------------------------------------------------------------------------------
(* _sync_builtin_skills, and the services.                                    *)

Copying(s) == skills[s] = "partial" /\ s \notin torn

\* shutil.copytree makes the directory and then copies what is in it.
CopySkill(s) ==
  /\ phase = "sync" /\ skills[s] = "absent"
  /\ \A x \in Skill : ~Copying(x)
  /\ skills' = [skills EXCEPT ![s] = "partial"]
  /\ UNCHANGED <<phase, mode, memory, souls, db, backup, services, torn, given, bounds>>

SkillCopied(s) ==
  /\ phase = "sync" /\ Copying(s)
  /\ skills' = [skills EXCEPT ![s] = "whole"]
  /\ UNCHANGED <<phase, mode, memory, souls, db, backup, services, torn, given, bounds>>

\* An OSError is logged and the next skill copied.
CopyFails(s) ==
  /\ phase = "sync" /\ Copying(s) /\ kills < MaxKills
  /\ torn' = torn \cup {s}
  /\ kills' = kills + 1
  /\ UNCHANGED <<phase, mode, memory, souls, db, skills, backup, services, given, updates, runs>>

StartServices ==
  /\ phase = "sync"
  /\ \A s \in Skill : skills[s] # "absent" /\ ~Copying(s)
  /\ alive' = Service
  /\ phase' = "running"
  /\ UNCHANGED <<mode, memory, souls, db, skills, backup, open, raised, torn, given, bounds>>

--------------------------------------------------------------------------------
(* The operations of Soul while it runs, each with its _save_soul.            *)

\* The data changes in memory and the file is truncated; nothing else runs until it is
\* written, but the process may be killed.
Save(s) ==
  /\ soul' = s
  /\ soulFile' = Empty
  /\ phase' = "save"

Rename(n) ==
  /\ phase = "running" /\ updates < MaxUpdates
  /\ Save(Renamed(soul, n))
  /\ given' = n
  /\ updates' = updates + 1
  /\ UNCHANGED <<mode, rules, coreFile, db, skills, backup, services, torn, kills, runs>>

Feel(e, i) ==
  /\ phase = "running" /\ updates < MaxUpdates
  /\ Save(Felt(soul, e, i))
  /\ updates' = updates + 1
  /\ UNCHANGED <<mode, rules, coreFile, db, skills, backup, services, torn, given, kills, runs>>

\* HeartbeatLoop._tick; without a change nothing is saved.
Tick ==
  /\ phase = "running"
  /\ Decayed(soul) # soul
  /\ Save(Decayed(soul))
  /\ UNCHANGED <<mode, rules, coreFile, db, skills, backup, services, torn, given, bounds>>

\* Mutation: the defaults are written.
WriteSoulDefault ==
  /\ phase = "save"
  /\ soulFile' = [soul EXCEPT !.name = "default"]
  /\ phase' = "running"
  /\ UNCHANGED <<mode, memory, coreFile, db, skills, backup, services, torn, given, bounds>>

WriteSoul ==
  /\ phase = "save"
  /\ soulFile' = soul
  /\ torn' = torn \ {"unsaved"}
  /\ phase' = "running"
  /\ UNCHANGED <<mode, memory, coreFile, db, skills, backup, services, given, bounds>>

\* The disk is full: the exception is the caller's, and the file stays truncated.
SaveFails ==
  /\ phase = "save" /\ kills < MaxKills
  /\ kills' = kills + 1
  /\ torn' = torn \cup {"unsaved"}
  /\ phase' = "running"
  /\ UNCHANGED <<mode, memory, souls, db, skills, backup, services, given, updates, runs>>

--------------------------------------------------------------------------------
(* Shutdown.                                                                  *)

\* Mutation: the store is closed as soon as the signal is there.
SignalCloses ==
  /\ phase = "running"
  /\ phase' = "stop heartbeat"
  /\ open' = FALSE
  /\ UNCHANGED <<mode, memory, souls, db, skills, backup, alive, raised, torn, given, bounds>>

\* SIGINT or SIGTERM sets stop_event.
Signal ==
  /\ phase = "running"
  /\ phase' = "stop heartbeat"
  /\ UNCHANGED <<mode, memory, souls, db, skills, backup, services, torn, given, bounds>>

NextStep ==
  [p \in {"stop heartbeat", "stop gateway", "stop queue"} |->
     CASE p = "stop heartbeat" -> "stop gateway"
       [] p = "stop gateway"   -> "stop queue"
       [] p = "stop queue"     -> "aclose"]

ServiceOf ==
  [p \in DOMAIN NextStep |->
     CASE p = "stop heartbeat" -> "heartbeat"
       [] p = "stop gateway"   -> "gateway"
       [] p = "stop queue"     -> "queue"]

StopService ==
  /\ phase \in DOMAIN NextStep
  /\ alive' = alive \ {ServiceOf[phase]}
  /\ phase' = NextStep[phase]
  /\ UNCHANGED <<mode, memory, souls, db, skills, backup, open, raised, torn, given, bounds>>

\* Mutation: nothing limits the wait.
StopWaits == FALSE /\ UNCHANGED vars

\* Cancelled, the heartbeat and the queue task end; only the connections of the gateway can
\* outlast the 10 seconds of _cancel_with_timeout.
StopTimesOut ==
  /\ phase = "stop gateway"
  /\ phase' = NextStep[phase]
  /\ UNCHANGED <<mode, memory, souls, db, skills, backup, services, torn, given, bounds>>

\* They come to their end later.
GatewayEnds ==
  /\ phase \in {"stop queue", "aclose", "close", "ended"} /\ "gateway" \in alive
  /\ alive' = alive \ {"gateway"}
  /\ UNCHANGED <<phase, mode, memory, souls, db, skills, backup, open, raised, torn, given, bounds>>

CloseAi ==
  /\ phase = "aclose"
  /\ phase' = "close"
  /\ UNCHANGED <<mode, memory, souls, db, skills, backup, services, torn, given, bounds>>

\* An exception of ai.aclose() ends main().
CloseAiRaises ==
  /\ phase = "aclose" /\ kills < MaxKills
  /\ raised' = TRUE /\ kills' = kills + 1
  /\ phase' = "ended"
  /\ UNCHANGED <<mode, memory, souls, db, skills, backup, open, alive, torn, given, updates,
                 runs>>

CloseMemory ==
  /\ phase = "close"
  /\ open' = FALSE
  /\ phase' = "ended"
  /\ UNCHANGED <<mode, memory, souls, db, skills, backup, alive, raised, torn, given, bounds>>

--------------------------------------------------------------------------------
(* The user leaves the chat, by an end of file or by a line once its          *)
(* connection is closed: main_with_cli cancels the task of main() and awaits  *)
(* it.  Nothing else ends input().                                            *)

\* main() leaves by its CancelledError; the event loop cancels what is left.
LeaveRunning ==
  /\ phase = "running" /\ mode = "cli"
  /\ mode' = "left" /\ alive' = {}
  /\ phase' = "ended"
  /\ UNCHANGED <<memory, souls, db, skills, backup, open, raised, torn, given, bounds>>

\* _cancel_with_timeout takes the cancellation for the end of the wait.
LeaveStopping ==
  /\ phase \in DOMAIN NextStep /\ mode = "cli"
  /\ mode' = "left" /\ alive' = alive \ ({ServiceOf[phase]} \ {"gateway"})
  /\ phase' = NextStep[phase]
  /\ UNCHANGED <<memory, souls, db, skills, backup, open, raised, torn, given, bounds>>

\* The close of the backend or of the store is given up; that of the store may be done.
LeaveClosing ==
  /\ phase \in {"aclose", "close"} /\ mode = "cli"
  /\ mode' = "left"
  /\ open' = open \/ (phase = "close" /\ open' = FALSE)
  /\ phase' = "ended"
  /\ UNCHANGED <<memory, souls, db, skills, backup, alive, raised, torn, given, bounds>>

LeaveEnded ==
  /\ phase = "ended" /\ mode = "cli"
  /\ mode' = "left"
  /\ UNCHANGED <<phase, memory, souls, db, skills, backup, services, torn, given, bounds>>

LeaveChat == LeaveRunning \/ LeaveStopping \/ LeaveClosing \/ LeaveEnded

--------------------------------------------------------------------------------
(* Ends and kills.                                                            *)

\* What is half-written on disk at this moment.
HalfWritten ==
  {x \in {"core", "soul", "tables"} :
     \/ x = "core" /\ phase = "write core"
     \/ x = "soul" /\ (phase \in {"write soul", "save"} \/ "unsaved" \in torn)
     \/ x = "tables" /\ phase = "migrate" /\ version = 0 /\ statement \in 1..(Len(Base) - 1)}
  \cup {s \in Skill : Copying(s)}

Gone ==
  /\ phase' = "off" /\ mode' = None
  /\ soul' = EmptySoul /\ rules' = FALSE
  /\ statement' = 0
  /\ open' = FALSE /\ alive' = {} /\ raised' = FALSE
  /\ torn' = (torn \ {"unsaved"}) \cup HalfWritten

\* main() has ended; with the chat in the foreground the process waits for its user.
Exit ==
  /\ phase = "ended" /\ mode # "cli"
  /\ Gone
  /\ UNCHANGED <<souls, tables, version, skills, backup, given, bounds>>

\* A kill, or an exception in the start: the port is taken, sqlite-vec is missing.
Kill ==
  /\ phase # "off" /\ kills < MaxKills
  /\ Gone
  /\ kills' = kills + 1
  /\ UNCHANGED <<souls, tables, version, skills, backup, given, updates, runs>>

\* cordbeat-backup, with SQLite's online backup, at any time.
Backup ==
  /\ backup = None /\ (runs > 0 \/ tables # {})
  /\ backup' = [tables |-> tables, version |-> version,
                half |-> "tables" \in torn \cup HalfWritten]
  /\ UNCHANGED <<phase, mode, memory, souls, db, skills, services, torn, given, bounds>>

\* cordbeat-restore, with the agent stopped.
Restore ==
  /\ phase = "off" /\ backup # None
  /\ tables # backup.tables \/ version # backup.version
  /\ tables' = backup.tables /\ version' = backup.version
  /\ torn' = (torn \ {"tables"}) \cup IF backup.half THEN {"tables"} ELSE {}
  /\ UNCHANGED <<phase, mode, memory, souls, statement, skills, backup, services, given, bounds>>

\* A first start, or that of a database from before the migrations, without the tables of
\* the vector extension.
Init ==
  /\ phase = "off" /\ mode = None
  /\ soul = EmptySoul /\ rules = FALSE
  /\ soulFile = None /\ coreFile = None
  /\ tables \in {{}, Elements(Base)} /\ version = 0 /\ statement = 0
  /\ skills = [s \in Skill |-> "absent"]
  /\ backup = None
  /\ open = FALSE /\ alive = {} /\ raised = FALSE
  /\ torn = {} /\ given = "default"
  /\ updates = 0 /\ kills = 0 /\ runs = 0

Starting ==
  \/ LoadCore \/ MakeCore \/ WriteCore \/ LoadSoul \/ MakeSoul \/ WriteNewSoul
  \/ StampLegacy \/ ReadVersion \/ CreateTable \/ RecordVersion \/ Migrated
  \/ \E s \in Skill : CopySkill(s) \/ SkillCopied(s) \/ CopyFails(s)
  \/ StartServices

Stopping ==
  \/ StopTimesOut \/ StopService \/ CloseAi \/ CloseAiRaises \/ CloseMemory

Next ==
  \/ \E m \in {"server", "cli"} : Start(m)
  \/ Starting
  \/ \E n \in Name : Rename(n)
  \/ \E e \in Feeling, i \in Intensity : Feel(e, i)
  \/ Tick \/ WriteSoul \/ SaveFails
  \/ Signal \/ LeaveChat \/ Stopping
  \/ GatewayEnds
  \/ Exit \/ Kill \/ Backup \/ Restore

Spec == Init /\ [][Next]_vars

\* main() goes on until it waits for the signal, and its shutdown to the end; a save is
\* synchronous; the heartbeat ticks; a process with nothing left to await exits.  Nothing
\* says that the gateway closes in time, that a signal comes, that the user of a chat ever
\* leaves it or that the process is started again.
FairSpec ==
  /\ Spec
  /\ WF_vars(Starting)
  /\ WF_vars(WriteSoul) /\ WF_vars(Tick)
  /\ WF_vars(phase # "stop gateway" /\ StopService) /\ WF_vars(StopTimesOut)
  /\ WF_vars(CloseAi) /\ WF_vars(CloseMemory) /\ WF_vars(Exit)

--------------------------------------------------------------------------------
(* Properties.                                                                *)

Phase ==
  {"off", "core", "write core", "soul", "write soul", "version", "migrate", "sync", "running",
   "save", "stop heartbeat", "stop gateway", "stop queue", "aclose", "close", "ended"}

\* Every variable has a value of its kind, and the version never passes the last migration.
TypeOK ==
  /\ phase \in Phase /\ mode \in {None, "server", "cli", "left"}
  /\ soul \in SoulData /\ rules \in BOOLEAN
  /\ soulFile \in SoulData \cup {None, Empty} /\ coreFile \in {None, Empty, "whole"}
  /\ tables \subseteq AllTables /\ version \in 0..Latest
  /\ statement \in 0..(Len(Base) + Len(Vector))
  /\ skills \in [Skill -> {"absent", "partial", "whole"}]
  /\ backup \in {None} \cup
       [tables : SUBSET AllTables, version : 0..Latest, half : BOOLEAN]
  /\ open \in BOOLEAN /\ alive \subseteq Service /\ raised \in BOOLEAN
  /\ torn \subseteq Skill \cup {"core", "soul", "tables", "unsaved"}
  /\ given \in Name \cup {"default", "none"}
  /\ updates \in 0..MaxUpdates /\ kills \in 0..MaxKills /\ runs \in 0..MaxRuns

\* While the agent runs, its immutable rules, the name its user gave it, every table and every
\* bundled skill are there, but for what a kill or a full disk found half-written: neither the
\* order of the start, nor restarts, old databases or restored backups lose any (main.main).
LossOnlyByTear ==
  phase \in {"running", "save"} =>
    /\ rules \/ "core" \in torn
    /\ soul.name = given \/ "soul" \in torn
    /\ tables = AllTables \/ "tables" \in torn
    /\ \A s \in Skill : skills[s] = "whole" \/ s \in torn

\* The tables of the vector extension are there whenever the store is open, through every
\* kill inside a migration, for the databases that never had them and for every backup
\* (migrations.py, version 2).
VectorTablesThere == open => version = Latest /\ Elements(Vector) \subseteq tables

\* Unless the last save failed, soul.yaml holds what a restart would have to know
\* (Soul._save_soul).
FileIsMemory ==
  phase = "running" /\ "unsaved" \notin torn =>
    soul = IF soulFile = Empty THEN EmptySoul ELSE soulFile

\* The connection of the store is open as long as the heartbeat or the queue task may use it,
\* and a main() that came to its end, with no user leaving a chat, has closed it unless the AI
\* backend raised (main.main).
OpenWhileUsed ==
  /\ alive \cap {"heartbeat", "queue"} # {} => open
  /\ phase = "ended" /\ mode # "left" => open = raised

\* Once nothing excites the agent any more, decay_emotion brings it to calm with no trace of
\* an earlier emotion, through failing saves, kills and restarts.
CoolsDown == <>[](phase = "running" => Cool(soul))

\* A shutdown that began ends, however long the connections of the gateway hang and wherever
\* the user leaves the chat meanwhile (_cancel_with_timeout): the process exits, but for one
\* whose main() has ended and whose chat waits for its user.
ShutdownEnds == phase = "stop heartbeat" ~> phase = "off" \/ (phase = "ended" /\ mode = "cli")

\* soul_core.yaml must always contain the immutable rules (agent/soul.py).
RulesAlwaysThere == phase = "running" => rules

\* Migrations are applied atomically (memory/migrations.py).
SchemaComplete == open => tables = AllTables

\* Ctrl+C quits the chat (adapters/cli.py): a signal ends the process.
SignalQuits == phase = "stop heartbeat" ~> phase = "off"

\* When the user quits the CLI, the server is shut down gracefully (main.main_with_cli).
QuitClosesStore == phase = "ended" /\ ~raised => ~open
================================================================================
