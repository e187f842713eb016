------------------------------- MODULE SkillRuns -------------------------------
(******************************************************************************)
(* One run of a skill, from Skill.execute to the end of its process: the rate *)
(* limiter, the environment that uv builds, the subprocess and the memory     *)
(* calls it makes while the caller waits for its result.                      *)
(*                                                                            *)
(* Two tasks run skills: the heartbeat tick and the engine, each one at a     *)
(* time.  Skills share nothing but the connection of the memory store, so one *)
(* skill stands for all.  A caller's steps are the stretches between awaits.  *)
(* When the agent is killed its subprocesses end with it, as they do under a  *)
(* service manager or in a container.                                         *)
(******************************************************************************)
EXTENDS Naturals, Sequences

CONSTANTS
  Caller,       \* the tasks that run skills
  Tick,         \* the one that also installs skills
  None,
  Minute,       \* units of time in a minute
  Limits,       \* values of rate_limit.per_minute in skill.yaml, 0 is unlimited
  MaxNow,       \* bound: the clock
  MaxRecords,   \* bound: records that skills add
  MaxEdits,     \* bound: new versions of pyproject.toml and skill.yaml
  MaxFaults     \* bound: failing builds, kills and shutdowns of the agent

ASSUME ConstantsOK ==
  /\ None \notin Nat \cup {"sent", "inserted", "committed", "answered"}
  /\ None \notin Caller /\ Tick \in Caller
  /\ Minute \in Nat \ {0} /\ Limits \subseteq Nat
  /\ MaxNow \in Nat /\ MaxRecords \in Nat /\ MaxEdits \in Nat /\ MaxFaults \in Nat

VARIABLES
  now,
  yaml,         \* the limit in skill.yaml, None when the file does not load
  skill,        \* the limit of the Skill in the registry, None when it has none
  bucket,       \* the token bucket of the skill
  grants,       \* history: when the bucket granted a run
  project,      \* version of pyproject.toml
  lock,         \* who holds the build lock
  env,          \* the environment: python, dependencies installed, hash file
  pc,           \* [Caller -> where its Skill.execute is]
  ver,          \* [Caller -> the version it hashed]
  target,       \* [Caller -> the version whose dependencies it installs]
  child,        \* [Caller -> its subprocess]
  said,         \* [Caller -> the last message of the subprocess]
  request,      \* [Caller -> the memory call of the subprocess]
  record,       \* [Caller -> the number of the record it adds]
  rows,         \* records inserted
  durable,      \* records of the last commit
  acked,        \* history: the latest record a skill was told of
  uses,         \* history: [Caller -> dependencies its child started with]
  disturbed,    \* history: callers whose environment was removed under them
  abandoned,    \* history: callers cancelled while they waited for the exit
  stopping,     \* the agent is shutting down
  edits, faults

limiter == <<bucket, grants>>
building == <<lock, env>>
plan == <<ver, target>>
talk == <<said, request, record>>
used == <<uses, disturbed, abandoned>>
process == <<child, used>>
store == <<rows, durable, acked>>
files == <<yaml, skill, project, edits>>
world == <<now, stopping, faults>>
vars == <<limiter, building, plan, talk, process, store, files, world, pc>>

Version == 1..(MaxEdits + 1)

Alive == {"working", "asking", "exiting"}

Final == {"result", "long", "error", "silent"}

NoEnv == [python |-> FALSE, deps |-> 0, hash |-> 0]

--------------------------------------------------------------------------------
(* SkillRateLimiter.  Tokens are counted in the Minute-th parts of one.       *)

FullBucket == [limit |-> skill, tokens |-> skill * Minute, last |-> now]

\* Mutation: the time of the refill is not remembered.
RefilledAgain ==
  IF bucket = None \/ bucket.limit # skill
    THEN FullBucket
    ELSE LET filled == bucket.tokens + (now - bucket.last) * bucket.limit
             cap == bucket.limit * Minute
         IN  [bucket EXCEPT !.tokens = IF filled < cap THEN filled ELSE cap]

\* The bucket after its refill; a new limit makes a new, full bucket.
Refilled ==
  IF bucket = None \/ bucket.limit # skill
    THEN FullBucket
    ELSE LET filled == bucket.tokens + (now - bucket.last) * bucket.limit
             cap == bucket.limit * Minute
         IN  [bucket EXCEPT !.tokens = IF filled < cap THEN filled ELSE cap, !.last = now]

Unlimited == skill = 0 /\ UNCHANGED limiter

\* Mutation: an empty bucket grants too.
GrantedAnyway ==
  /\ skill > 0
  /\ bucket' = [Refilled EXCEPT !.tokens = @ - Minute]
  /\ grants' = Append(grants, now)

Granted ==
  /\ skill > 0 /\ Refilled.tokens >= Minute
  /\ bucket' = [Refilled EXCEPT !.tokens = @ - Minute]
  /\ grants' = Append(IF bucket = None \/ bucket.limit # skill THEN <<>> ELSE grants, now)

\* SkillRateLimitError: the call ends.
Refused(c) ==
  /\ pc[c] = "idle" /\ ~stopping
  /\ skill # None /\ skill > 0 /\ Refilled.tokens < Minute
  /\ bucket' = Refilled
  /\ UNCHANGED <<grants, building, plan, talk, process, store, files, world, pc>>

--------------------------------------------------------------------------------
(* SkillEnvManager.prepare.                                                   *)

\* Mutation: every run builds.
NeverCached(v) == FALSE

Cached(v) == env.python /\ env.hash = v

\* The call ends, and with it its locals.
Return(c) ==
  /\ pc' = [pc EXCEPT ![c] = "idle"]
  /\ ver' = [ver EXCEPT ![c] = 0] /\ target' = [target EXCEPT ![c] = 0]
  /\ said' = [said EXCEPT ![c] = None] /\ request' = [request EXCEPT ![c] = None]
  /\ record' = [record EXCEPT ![c] = 0]

\* The environment is removed; the list of dependencies is read now.
Clear(c) ==
  /\ lock' = c
  /\ env' = NoEnv
  /\ target' = [target EXCEPT ![c] = project]
  /\ pc' = [pc EXCEPT ![c] = "venv"]
  /\ disturbed' = disturbed \cup {d \in Caller : child[d] \in Alive /\ uses[d] # None}
  /\ UNCHANGED <<talk, child, uses, abandoned>>

\* create_subprocess_exec forks at once; d are the dependencies it starts with.
Spawn(c, d) ==
  /\ pc' = [pc EXCEPT ![c] = "running"]
  /\ child' = [child EXCEPT ![c] = "working"]
  /\ uses' = [uses EXCEPT ![c] = d]
  /\ disturbed' = disturbed \ {c}
  /\ abandoned' = abandoned \ {c}
  /\ UNCHANGED talk

\* What prepare does under the lock, up to its first await: the environment is there, or
\* it is built, or uv is not installed or pyproject.toml cannot be read (SkillEnvError).
Ensure(c, v) ==
  \/ /\ Cached(v)
     /\ Spawn(c, env.deps)
     /\ ver' = [ver EXCEPT ![c] = v]
     /\ UNCHANGED <<building, target>>
  \/ /\ ~Cached(v)
     /\ Clear(c)
     /\ ver' = [ver EXCEPT ![c] = v]
  \/ /\ ~Cached(v)
     /\ Return(c)
     /\ UNCHANGED <<building, process>>

\* The turn of a call that finds the lock taken or others before it comes later.
Prepare(c) ==
  \/ project = None /\ Spawn(c, None) /\ UNCHANGED <<building, plan>>
  \/ /\ project # None
     /\ IF lock = None /\ \A d \in Caller : pc[d] # "waiting"
          THEN Ensure(c, project)
          ELSE /\ pc' = [pc EXCEPT ![c] = "waiting"]
               /\ ver' = [ver EXCEPT ![c] = project]
               /\ UNCHANGED <<building, target, talk, process>>

\* Skill.execute up to its first await: a token, then the environment.
Execute(c) ==
  /\ pc[c] = "idle" /\ ~stopping
  /\ skill # None
  /\ Unlimited \/ Granted
  /\ Prepare(c)
  /\ UNCHANGED <<store, files, world>>

Enter(c) ==
  /\ pc[c] = "waiting" /\ lock = None
  /\ Ensure(c, ver[c])
  /\ UNCHANGED <<limiter, store, files, world>>

\* uv venv.
VenvMade(c) ==
  /\ pc[c] = "venv"
  /\ env' = [env EXCEPT !.python = TRUE]
  /\ pc' = [pc EXCEPT ![c] = "install"]
  /\ UNCHANGED <<limiter, lock, plan, talk, process, store, files, world>>

\* Mutation: the hash is written of what the file holds by then.
InstalledHashingLate(c) ==
  /\ pc[c] = "install"
  /\ env' = [env EXCEPT !.deps = target[c], !.hash = project]
  /\ lock' = None
  /\ Spawn(c, target[c])
  /\ UNCHANGED <<limiter, plan, store, files, world>>

\* uv pip install; the hash is written last, and the lock released.
Installed(c) ==
  /\ pc[c] = "install"
  /\ env' = [env EXCEPT !.deps = target[c], !.hash = ver[c]]
  /\ lock' = None
  /\ Spawn(c, target[c])
  /\ UNCHANGED <<limiter, plan, store, files, world>>

\* Mutation: the lock is kept when a build fails.
BuildFailsLocked(c) ==
  /\ pc[c] \in {"venv", "install"} /\ faults < MaxFaults
  /\ Return(c)
  /\ faults' = faults + 1
  /\ UNCHANGED <<limiter, building, process, store, files, now, stopping>>

\* uv fails: what is built stays, without a hash.
BuildFails(c) ==
  /\ pc[c] \in {"venv", "install"} /\ faults < MaxFaults
  /\ env' \in {env, [env EXCEPT !.python = TRUE]}
  /\ lock' = None
  /\ Return(c)
  /\ faults' = faults + 1
  /\ UNCHANGED <<limiter, process, store, files, now, stopping>>

--------------------------------------------------------------------------------
(* The subprocess: skills/runner.py.                                          *)

\* The skill calls context.memory and waits for the answer with its id.
Ask(c) ==
  /\ child[c] = "working" /\ request[c] = None
  /\ child' = [child EXCEPT ![c] = "asking"]
  /\ request' = [request EXCEPT ![c] = "sent"]
  /\ UNCHANGED <<limiter, building, plan, said, record, used, store, files, world, pc>>

\* main() sends its last message: a result, one on a line longer than the reader of the
\* parent takes, an error, of permission or at run time; or the process ends without a word.
Say(c, last) ==
  /\ child[c] = "working"
  /\ said' = [said EXCEPT ![c] = last]
  /\ child' = [child EXCEPT ![c] = IF last = "silent" THEN "dead" ELSE "exiting"]
  /\ UNCHANGED <<limiter, building, plan, request, record, used, store, files, world, pc>>

\* A process that has said its last may still take its time to exit.
Exit(c) ==
  /\ child[c] = "exiting"
  /\ child' = [child EXCEPT ![c] = "dead"]
  /\ UNCHANGED <<limiter, building, plan, talk, used, store, files, world, pc>>

--------------------------------------------------------------------------------
(* The parent: run_skill_in_subprocess and _read_loop.                        *)

Answer(c) == child' = [child EXCEPT ![c] = "working"]

\* A call that writes nothing, is not allowed or fails.
ServeRead(c) ==
  /\ pc[c] = "running" /\ request[c] = "sent"
  /\ request' = [request EXCEPT ![c] = "answered"]
  /\ Answer(c)
  /\ UNCHANGED <<limiter, building, plan, said, record, used, store, files, world, pc>>

\* add_certain_record: the INSERT, then the commit, then the answer, each awaited; a time-out
\* or a kill may come between any two, another task's commit too.
ServeAdd(c) ==
  /\ pc[c] = "running" /\ request[c] = "sent" /\ rows < MaxRecords
  /\ rows' = rows + 1
  /\ request' = [request EXCEPT ![c] = "inserted"]
  /\ record' = [record EXCEPT ![c] = rows + 1]
  /\ UNCHANGED <<limiter, building, plan, said, process, durable, acked, files, world, pc>>

CommitAdd(c) ==
  /\ pc[c] = "running" /\ request[c] = "inserted"
  /\ durable' = rows
  /\ request' = [request EXCEPT ![c] = "committed"]
  /\ UNCHANGED <<limiter, building, plan, said, record, process, rows, acked, files, world, pc>>

\* Mutation: the answer does not wait for the commit.
AnswerAddAtOnce(c) ==
  /\ pc[c] = "running" /\ request[c] = "inserted"
  /\ acked' = IF record[c] > acked THEN record[c] ELSE acked
  /\ request' = [request EXCEPT ![c] = "answered"]
  /\ Answer(c)
  /\ UNCHANGED <<limiter, building, plan, said, record, used, rows, durable, files, world, pc>>

AnswerAdd(c) ==
  /\ pc[c] = "running" /\ request[c] = "committed"
  /\ acked' = IF record[c] > acked THEN record[c] ELSE acked
  /\ request' = [request EXCEPT ![c] = "answered"]
  /\ Answer(c)
  /\ UNCHANGED <<limiter, building, plan, said, record, used, rows, durable, files, world, pc>>

\* The parent turns to the end of the process; kill says whether it is killed first.
Leave(c, kill) ==
  /\ pc[c] = "running"
  /\ pc' = [pc EXCEPT ![c] = "closing"]
  /\ child' = IF kill THEN [child EXCEPT ![c] = "dead"] ELSE child
  /\ UNCHANGED <<limiter, building, plan, talk, used, store, files>>

\* A result is returned, anything else raises and kills.
ReadLast(c) ==
  /\ said[c] # None
  /\ Leave(c, said[c] # "result")
  /\ UNCHANGED world

\* wait_for cancels the read loop, a memory call it is serving included.
TimeOut(c) == Leave(c, TRUE) /\ UNCHANGED world

\* Mutation: only a process that has ended is waited for.
ClosePatiently(c) ==
  /\ pc[c] = "closing" /\ child[c] = "dead"
  /\ Return(c)
  /\ UNCHANGED <<limiter, building, process, store, files, world>>

\* Mutation: after two seconds it is left to itself.
CloseLeaving(c) ==
  /\ pc[c] = "closing"
  /\ Return(c)
  /\ UNCHANGED <<limiter, building, process, store, files, world>>

\* The process has ended, or it is killed after two seconds.
Close(c) ==
  /\ pc[c] = "closing"
  /\ Return(c)
  /\ child' = [child EXCEPT ![c] = "dead"]
  /\ UNCHANGED <<limiter, building, used, store, files, world>>

--------------------------------------------------------------------------------
(* Everything else.                                                           *)

\* Another task commits on the shared connection.
OtherCommit ==
  /\ durable # rows
  /\ durable' = rows
  /\ UNCHANGED <<limiter, building, plan, talk, process, rows, acked, files, world, pc>>

\* pyproject.toml is changed; what it says is new.
EditProject ==
  /\ project # None /\ edits < MaxEdits
  /\ project' = project + 1 /\ edits' = edits + 1
  /\ UNCHANGED <<limiter, building, plan, talk, process, store, yaml, skill, world, pc>>

EditYaml(limit) ==
  /\ edits < MaxEdits /\ limit # yaml
  /\ yaml' = limit /\ edits' = edits + 1
  /\ UNCHANGED <<limiter, building, plan, talk, process, store, skill, project, world, pc>>

\* SkillRegistry.load_all, after a skill was installed by the tick.
LoadAll ==
  /\ skill # yaml
  /\ pc[Tick] = "idle"
  /\ skill' = yaml
  /\ UNCHANGED <<limiter, building, plan, talk, process, store, yaml, project, edits, world, pc>>

Time ==
  /\ now < MaxNow
  /\ now' = now + 1
  /\ UNCHANGED <<limiter, building, plan, talk, process, store, files, stopping, faults, pc>>

\* HeartbeatLoop.stop and MessageQueue.stop cancel their tasks.
Stop ==
  /\ ~stopping /\ faults < MaxFaults
  /\ stopping' = TRUE /\ faults' = faults + 1
  /\ UNCHANGED <<limiter, building, plan, talk, process, store, files, now, pc>>

\* In prepare: the lock is released.
CancelBuild(c) ==
  /\ stopping /\ pc[c] \in {"waiting", "venv", "install"}
  /\ lock' = IF lock = c THEN None ELSE lock
  /\ Return(c)
  /\ UNCHANGED <<limiter, env, process, store, files, world>>

\* In the read loop: the process is killed.
CancelRun(c) == stopping /\ Leave(c, TRUE) /\ UNCHANGED world

\* While the exit is awaited: only TimeoutError kills.
CancelClose(c) ==
  /\ stopping /\ pc[c] = "closing"
  /\ Return(c)
  /\ abandoned' = abandoned \cup {c}
  /\ UNCHANGED <<limiter, building, child, uses, disturbed, store, files, world>>

\* The agent ends, orderly or killed, and starts again.
Restart ==
  /\ stopping \/ faults < MaxFaults
  /\ faults' = IF stopping THEN faults ELSE faults + 1
  /\ stopping' = FALSE
  /\ pc' = [c \in Caller |-> "idle"]
  /\ child' = [c \in Caller |-> "dead"]
  /\ said' = [c \in Caller |-> None]
  /\ request' = [c \in Caller |-> None] /\ record' = [c \in Caller |-> 0]
  /\ ver' = [c \in Caller |-> 0] /\ target' = [c \in Caller |-> 0]
  /\ uses' = [c \in Caller |-> None]
  /\ disturbed' = {} /\ abandoned' = {}
  /\ bucket' = None /\ grants' = <<>>
  /\ lock' = None
  /\ rows' = durable
  /\ skill' = yaml
  /\ UNCHANGED <<env, durable, acked, yaml, project, edits, now>>

Init ==
  /\ now = 0 /\ stopping = FALSE /\ edits = 0 /\ faults = 0
  /\ yaml \in Limits /\ skill = yaml
  /\ project \in {None, 1}
  /\ bucket = None /\ grants = <<>>
  /\ lock = None /\ env = NoEnv
  /\ pc = [c \in Caller |-> "idle"]
  /\ ver = [c \in Caller |-> 0] /\ target = [c \in Caller |-> 0]
  /\ child = [c \in Caller |-> "dead"]
  /\ said = [c \in Caller |-> None] /\ request = [c \in Caller |-> None]
  /\ record = [c \in Caller |-> 0]
  /\ uses = [c \in Caller |-> None]
  /\ disturbed = {} /\ abandoned = {}
  /\ rows = 0 /\ durable = 0 /\ acked = 0

Parent(c) ==
  \/ ServeRead(c) \/ ServeAdd(c) \/ CommitAdd(c) \/ AnswerAdd(c)
  \/ ReadLast(c) \/ TimeOut(c) \/ Close(c)

Uv(c) == VenvMade(c) \/ Installed(c) \/ BuildFails(c)

Next ==
  \/ \E c \in Caller :
       \/ Execute(c) \/ Refused(c) \/ Enter(c) \/ Uv(c)
       \/ Ask(c) \/ Exit(c) \/ \E last \in Final : Say(c, last)
       \/ Parent(c)
       \/ CancelBuild(c) \/ CancelRun(c) \/ CancelClose(c)
  \/ OtherCommit \/ EditProject \/ LoadAll \/ Time \/ Stop \/ Restart
  \/ \E limit \in Limits \cup {None} : EditYaml(limit)

Spec == Init /\ [][Next]_vars

\* uv ends, the parent is scheduled, two seconds and the timeout of a run pass.
Fairness ==
  \A c \in Caller :
    /\ WF_vars(Enter(c)) /\ WF_vars(Uv(c))
    /\ WF_vars(TimeOut(c)) /\ WF_vars(Close(c))

FairSpec == Spec /\ Fairness

--------------------------------------------------------------------------------
(* Properties.                                                                *)

TypeOK ==
  /\ yaml \in Limits \cup {None} /\ skill \in Limits \cup {None}
  /\ bucket = None \/ /\ bucket \in [limit : Limits \ {0}, tokens : Nat, last : 0..now]
                      /\ bucket.tokens <= bucket.limit * Minute
  /\ grants \in Seq(0..MaxNow)
  /\ project \in Version \cup {None}
  /\ lock \in Caller \cup {None}
  /\ env \in [python : BOOLEAN, deps : {0} \cup Version, hash : {0} \cup Version]
  /\ pc \in [Caller -> {"idle", "waiting", "venv", "install", "running", "closing"}]
  /\ ver \in [Caller -> {0} \cup Version] /\ target \in [Caller -> {0} \cup Version]
  /\ child \in [Caller -> Alive \cup {"dead"}]
  /\ said \in [Caller -> Final \cup {None}]
  /\ request \in [Caller -> {None, "sent", "inserted", "committed", "answered"}]
  /\ record \in [Caller -> Nat]
  /\ uses \in [Caller -> {0, None} \cup Version]
  /\ rows \in 0..MaxRecords /\ durable \in 0..rows /\ acked \in Nat
  /\ disturbed \subseteq Caller /\ abandoned \subseteq Caller
  /\ now \in 0..MaxNow /\ stopping \in BOOLEAN
  /\ edits \in 0..MaxEdits /\ faults \in 0..MaxFaults

\* Between any two grants of one bucket there were no more than its capacity and what was
\* refilled in that time, whatever the order of calls, refusals and pauses (rate_limit.py).
GrantsBounded ==
  bucket # None =>
    \A i, j \in DOMAIN grants :
      i <= j => (j - i + 1) * Minute <= bucket.limit * (Minute + grants[j] - grants[i])

\* A skill runs with all dependencies of the version of pyproject.toml that its call hashed,
\* or of a later one: never of an older one, and never in a half-built environment, through
\* failing builds, edits while another builds, shutdowns and kills (env.py).
NoStaleDependencies ==
  \A c \in Caller :
    child[c] \in Alive /\ uses[c] # None => uses[c] > 0 /\ uses[c] >= ver[c]

\* The environment of a running skill is removed under it only by a call that hashed another
\* version of pyproject.toml.
DisturbedOnlyByChange ==
  [][\A d \in disturbed' \ disturbed :
       \E c \in Caller \ {d} : lock # c /\ lock' = c /\ ver'[c] # ver[d]]_vars

\* A record whose call was answered is still there after any kill, whatever calls were timed
\* out or cancelled between their INSERT and their commit, and whoever made the commit
\* (RecordStore.add_certain_record).
AckedIsDurable == acked <= durable

\* No subprocess outlives its call, unless the call was cancelled while it waited for the
\* exit (sandbox.py handles TimeoutError there, and not CancelledError).
NoChildLeft ==
  \A c \in Caller :
    child[c] \in Alive => pc[c] \in {"running", "closing"} \/ c \in abandoned

\* Every run ends, also that of a skill that never says anything or never exits.
EveryRunEnds == \A c \in Caller : pc[c] = "running" ~> pc[c] = "idle"

\* A call that waits for the build of another gets its turn, also when that build fails.
EveryWaiterEnters == \A c \in Caller : pc[c] = "waiting" ~> pc[c] # "waiting"

\* A result below max_stdout_bytes is returned to the caller.
ResultIsReturned ==
  [][\A c \in Caller : said[c] \in {"result", "long"} /\ ReadLast(c) => child'[c] = child[c]]_vars
================================================================================
