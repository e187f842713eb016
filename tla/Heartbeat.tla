------------------------------- MODULE Heartbeat -------------------------------
(******************************************************************************)
(* Heartbeat: the autonomous loop against the clock - how long it sleeps,     *)
(* when it keeps quiet and when the sleep phase runs.                         *)
(*                                                                            *)
(* The loop is one task; the clock goes on while it awaits the AI, and the    *)
(* engine may change the quiet hours between any two of its steps.  What a    *)
(* tick does with approved proposals is the subject of Proposals.             *)
(******************************************************************************)
EXTENDS Naturals

CONSTANTS
  User,
  Unparsed,        \* what /quiet stores that _parse_time refuses
  Day,             \* units of time in a day
  Default,         \* default_interval_minutes, in units
  Shortest,        \* min_interval_minutes
  Longest,         \* max_interval_minutes
  QuietSettings,   \* what /quiet accepts: windows, and Unparsed
  FirstQuiet,      \* the window soul.yaml starts with
  ConfigQuiet,     \* the window of heartbeat.quiet_hours_start and _end
  MaxBusy,         \* bound: units one tick takes
  MaxChanges,      \* bound: /quiet commands
  MaxRestarts      \* bound: restarts of the process

Hour == 0..(Day - 1)

Window == [start : Hour, end : Hour]

ASSUME ConstantsOK ==
  /\ Day \in Nat \ {0}
  /\ Shortest \in 1..Longest /\ Longest \in Nat /\ Default \in Nat
  /\ FirstQuiet \in Window /\ ConfigQuiet \in Window
  /\ QuietSettings \subseteq Window \cup {Unparsed}
  /\ Unparsed \notin Window \cup User
  /\ MaxBusy \in Nat /\ MaxChanges \in Nat /\ MaxRestarts \in Nat

VARIABLES
  hour,         \* the time of day
  at,           \* where the loop is
  left,         \* units until asyncio.sleep returns
  busy,         \* units this tick has taken
  quiet,        \* Soul.quiet_hours
  sleepDone,    \* _sleep_done_today
  todo,         \* users the triage selected and that are still to be evaluated
  least,        \* min_interval of _run_layer2
  deed,         \* the action decided for the user being evaluated
  slept,        \* history: sleep phases that ended in this quiet window
  disturbed,    \* history: what happened in this window apart from the clock
  nap,          \* history: the interval the loop last went to sleep for
  missed,       \* history: why undisturbed windows passed without a sleep phase
  changes, restarts

loop == <<at, left, nap, busy, todo, least, deed>>
history == <<slept, disturbed, missed>>
bounds == <<changes, restarts>>
heartbeatVars == <<hour, loop, quiet, sleepDone, history, bounds>>

\* Mutation: a window over midnight is never entered.
InQuietNoWrap(window, h) == window.start <= h /\ h <= window.end

\* _in_quiet_hours, both ends included.
InQuiet(window, h) ==
  IF window.start <= window.end
    THEN window.start <= h /\ h <= window.end
    ELSE h >= window.start \/ h <= window.end

Within(window, h) == window # Unparsed /\ InQuiet(window, h)

\* Units since the window last began, and how many there are in it.
Elapsed(window, h) == IF h >= window.start THEN h - window.start ELSE h + Day - window.start

Length(window) == Elapsed(window, window.end) + 1

Clamp(minutes) ==
  IF minutes < Shortest THEN Shortest ELSE IF minutes > Longest THEN Longest ELSE minutes

\* The tick is over: the loop sleeps for the interval it returned.
Finish(minutes) ==
  /\ at' = "asleep"
  /\ left' = Clamp(minutes) /\ nap' = left'
  /\ busy' = 0
  /\ todo' = {} /\ least' = Default /\ deed' = "none"

Go(step) == at' = step /\ UNCHANGED <<left, nap, busy>>

--------------------------------------------------------------------------------
(* HeartbeatLoop._loop.                                                       *)

Wake ==
  /\ at = "asleep"
  /\ left = 0
  /\ Go("tick")
  /\ UNCHANGED <<hour, todo, least, deed, quiet, sleepDone, history, bounds>>

\* Mutation: an exception ends the loop.
TickRaisesForGood ==
  /\ \/ at = "tick" /\ quiet = Unparsed
     \/ at \in {"sleep", "execute", "triage", "evaluate"}
     \/ at = "act" /\ deed \in {"message", "propose"}
  /\ at' = "dead"
  /\ disturbed' = IF at = "sleep" THEN disturbed \cup {"failed"} ELSE disturbed
  /\ UNCHANGED <<left, nap, busy, todo, least, deed, hour, quiet, sleepDone, slept, missed,
                 bounds>>

\* Any step of a tick may raise - quiet hours that do not parse, the database, the
\* AI, an answer of the wrong shape, a send; the loop goes on with the default.
TickRaises ==
  /\ \/ at = "tick" /\ quiet = Unparsed
     \/ at \in {"sleep", "execute", "triage", "evaluate"}
     \/ at = "act" /\ deed \in {"message", "propose"}
  /\ Finish(Default)
  /\ disturbed' = IF at = "sleep" THEN disturbed \cup {"failed"} ELSE disturbed
  /\ UNCHANGED <<hour, quiet, sleepDone, slept, missed, bounds>>

--------------------------------------------------------------------------------
(* HeartbeatLoop._tick.                                                       *)

\* In quiet hours, first tick: the sleep phase starts.
StartSleep ==
  /\ at = "tick"
  /\ Within(quiet, hour)
  /\ ~sleepDone
  /\ Go("sleep")
  /\ UNCHANGED <<hour, todo, least, deed, quiet, sleepDone, history, bounds>>

\* Mutation: the flag is not set.
EndSleepUnmarked ==
  /\ at = "sleep"
  /\ slept' = slept + (IF Within(quiet, hour) THEN 1 ELSE 0)
  /\ Finish(Default)
  /\ UNCHANGED <<hour, quiet, sleepDone, disturbed, missed, bounds>>

\* The sleep phase has run; the tick returns the default interval.
EndSleep ==
  /\ at = "sleep"
  /\ sleepDone' = TRUE
  /\ slept' = slept + (IF Within(quiet, hour) THEN 1 ELSE 0)
  /\ Finish(Default)
  /\ UNCHANGED <<hour, quiet, disturbed, missed, bounds>>

\* In quiet hours, later ticks: nothing is done.
KeepQuiet ==
  /\ at = "tick"
  /\ Within(quiet, hour)
  /\ sleepDone
  /\ Finish(Default)
  /\ UNCHANGED <<hour, quiet, sleepDone, history, bounds>>

\* Mutation: the flag is not reset.
AwakeStillDone ==
  /\ at = "tick"
  /\ quiet # Unparsed /\ ~InQuiet(quiet, hour)
  /\ Go("execute")
  /\ UNCHANGED <<hour, todo, least, deed, quiet, sleepDone, history, bounds>>

\* Outside quiet hours the approved proposals are executed first.
Awake ==
  /\ at = "tick"
  /\ quiet # Unparsed /\ ~InQuiet(quiet, hour)
  /\ sleepDone' = FALSE
  /\ Go("execute")
  /\ UNCHANGED <<hour, todo, least, deed, quiet, history, bounds>>

\* Emotions decay, the users are read; without users the tick is over.
Executed ==
  /\ at = "execute"
  /\ \/ Go("triage") /\ UNCHANGED <<todo, least, deed>>
     \/ Finish(Default)
  /\ UNCHANGED <<hour, quiet, sleepDone, history, bounds>>

\* Layer 1: the AI, or the fallback, selects users and an interval.
Triage(selected, minutes) ==
  /\ at = "triage"
  /\ IF selected = {}
       THEN Finish(minutes)
       ELSE /\ Go("evaluate")
            /\ todo' = selected
            /\ least' = minutes
            /\ UNCHANGED deed
  /\ UNCHANGED <<hour, quiet, sleepDone, history, bounds>>

Deed == {"none", "message", "skill", "propose"}

\* Layer 2: the AI, or the fallback, decides for one user.
Evaluate(user, decision, minutes) ==
  /\ at = "evaluate"
  /\ user \in todo
  /\ todo' = todo \ {user}
  /\ deed' = decision
  /\ least' = IF minutes < least THEN minutes ELSE least
  /\ Go("act")
  /\ UNCHANGED <<hour, quiet, sleepDone, history, bounds>>

\* Mutation: the loop over the users does not end.
ActAgain ==
  /\ at = "act"
  /\ Go("evaluate") /\ deed' = "none"
  /\ UNCHANGED <<todo, least>>
  /\ UNCHANGED <<hour, quiet, sleepDone, history, bounds>>

\* _execute_decision returns; the tick ends with the least interval of all users.
Act ==
  /\ at = "act"
  /\ IF todo = {}
       THEN Finish(least)
       ELSE Go("evaluate") /\ deed' = "none" /\ UNCHANGED <<todo, least>>
  /\ UNCHANGED <<hour, quiet, sleepDone, history, bounds>>

--------------------------------------------------------------------------------
(* The clock, the user and the process.                                       *)

\* The loop went to sleep for an interval that, with a tick before and a tick after it,
\* is longer than the window; or it still has the flag of the window before, because the
\* time between the two is too short for the interval by default.
Overslept ==
  \/ nap + 2 * MaxBusy > Length(quiet)
  \/ sleepDone /\ Clamp(Default) + 2 * MaxBusy > Day - Length(quiet)

\* What a window leaves behind when the clock moves on to h.
TurnHistory(h) ==
  IF Within(quiet, hour) /\ ~Within(quiet, h)
    THEN /\ missed' = IF slept = 0 /\ disturbed = {}
                        THEN missed \cup {IF Overslept THEN "overslept" ELSE "awake"}
                        ELSE missed
         /\ slept' = 0
         /\ disturbed' = {}
    ELSE UNCHANGED <<missed, slept, disturbed>>

Clock ==
  /\ hour' = (hour + 1) % Day
  /\ TurnHistory(hour')
  /\ IF at = "asleep"
       THEN left > 0 /\ left' = left - 1 /\ UNCHANGED busy
       ELSE busy < MaxBusy /\ busy' = busy + 1 /\ UNCHANGED left
  /\ UNCHANGED <<at, nap, todo, least, deed, quiet, sleepDone, bounds>>

\* /quiet: what matches \d{1,2}:\d{2} is stored.
SetQuiet(setting) ==
  /\ changes < MaxChanges
  /\ changes' = changes + 1
  /\ quiet' = setting
  /\ disturbed' = disturbed \cup {"quiet"}
  /\ UNCHANGED <<hour, loop, sleepDone, slept, missed, restarts>>

\* The loop starts with a tick; the flag starts as FALSE.
Restart ==
  /\ restarts < MaxRestarts
  /\ restarts' = restarts + 1
  /\ Go("tick")
  /\ todo' = {} /\ least' = Default /\ deed' = "none"
  /\ sleepDone' = FALSE
  /\ disturbed' = disturbed \cup {"restart"}
  /\ UNCHANGED <<hour, quiet, slept, missed, changes>>

HeartbeatInit ==
  /\ hour \in Hour
  /\ at = "tick" /\ left = 0 /\ nap = 0 /\ busy = 0
  /\ quiet = FirstQuiet
  /\ sleepDone = FALSE
  /\ todo = {} /\ least = Default /\ deed = "none"
  /\ slept = 0 /\ disturbed = {"restart"} /\ missed = {}
  /\ changes = 0 /\ restarts = 0

\* The AI may ask for anything from one minute to 1440.
Loop ==
  \/ Wake
  \/ TickRaises
  \/ StartSleep
  \/ EndSleep
  \/ KeepQuiet
  \/ Awake
  \/ Executed
  \/ \E selected \in SUBSET User, minutes \in 0..Day : Triage(selected, minutes)
  \/ \E user \in User, decision \in Deed, minutes \in 0..Day :
       Evaluate(user, decision, minutes)
  \/ Act

HeartbeatNext ==
  \/ Loop
  \/ Clock
  \/ \E setting \in QuietSettings : SetQuiet(setting)
  \/ Restart

HeartbeatSpec == HeartbeatInit /\ [][HeartbeatNext]_heartbeatVars

\* Time passes and the loop is resumed.
FairHeartbeat == HeartbeatSpec /\ WF_heartbeatVars(Clock) /\ WF_heartbeatVars(Loop)

--------------------------------------------------------------------------------
(* Properties.                                                                *)

HeartbeatTypeOK ==
  /\ hour \in Hour
  /\ at \in {"asleep", "tick", "sleep", "execute", "triage", "evaluate", "act"}
  /\ left \in 0..Longest /\ nap \in 0..Longest /\ busy \in 0..MaxBusy
  /\ quiet \in Window \cup {Unparsed}
  /\ sleepDone \in BOOLEAN
  /\ todo \subseteq User /\ least \in 0..(Day + Default) /\ deed \in Deed
  /\ at = "evaluate" => todo # {}
  /\ slept \in Nat /\ disturbed \subseteq {"restart", "quiet", "failed"}
  /\ missed \subseteq {"overslept", "awake"}
  /\ changes \in 0..MaxChanges /\ restarts \in 0..MaxRestarts

\* The sleep phase runs at most once in a quiet window, however often the loop wakes
\* in it, unless a restart or a /quiet falls into it.
SleepsOnceUndisturbed ==
  disturbed \cap {"restart", "quiet"} = {} => slept <= 1

\* Whatever intervals the AI asks for, an undisturbed window passes without a sleep phase
\* only when the loop overslept it: when it was asleep for an interval too long for that
\* window, or the windows follow each other too closely.
OnlyOversleptIsMissed == missed \subseteq {"overslept"}

\* No undisturbed window passes without a sleep phase.
NoWindowIsMissed == missed = {}

\* Whatever a tick raises, the loop wakes again.
LoopSurvives == []<>(at = "tick")

\* While the quiet hours parse, the loop finishes ticks instead of failing for ever,
\* and does both: it keeps quiet in the window and looks after proposals and users
\* outside of it.
BothKindsOfTick ==
  (<>[](quiet = FirstQuiet)) =>
    /\ []<>(at = "execute")
    /\ []<>(at = "tick" /\ Within(quiet, hour))

\* The sleep phase runs once per quiet window.
SleepsOncePerWindow == "quiet" \notin disturbed => slept <= 1

\* The quiet hours the user was told are set keep the heartbeat going.
HeartbeatGoesOn == []<>(at \in {"sleep", "execute"})

Messages == at = "act" /\ deed = "message" /\ at' # at /\ Act

\* In quiet hours the heartbeat sends nothing.
QuietInQuietHours == [][Messages => ~Within(quiet, hour)]_heartbeatVars

\* Until a user changes them, the quiet hours are those of the configuration.
ConfiguredHoursAreQuiet ==
  [][Messages /\ changes = 0 => ~InQuiet(ConfigQuiet, hour)]_heartbeatVars
================================================================================
