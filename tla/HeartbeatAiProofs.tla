-------------------------- MODULE HeartbeatAiProofs --------------------------
(******************************************************************************)
(* Proofs about Heartbeat, for any intervals, quiet hours and days, and about *)
(* AiCalls, whose answers the heartbeat acts on, for any size and age of the  *)
(* cache and any callers that are active together.                            *)
(******************************************************************************)
EXTENDS Heartbeat, AiCalls, SequenceTheorems, TLAPS

(* Part 1: Heartbeat. *)

\* The rest of the day is long enough for the sleep by default, which a tick in the window
\* returns, between two of the longest ticks.
RoomOutside == Clamp(Default) + 2 * MaxBusy <= Day - Length(quiet)

\* The loop has looked at the quiet hours in this tick and found itself outside of them.
Abroad == at \in {"execute", "triage", "evaluate", "act"}

\* What is left until a loop that is not abroad looks at the quiet hours again, at most.
ToNextLook ==
  CASE at = "asleep" -> left + MaxBusy
    [] at = "sleep" -> Clamp(Default) + 2 * MaxBusy - busy
    [] OTHER -> MaxBusy - busy

\* What is left of a sleep phase, or of one that the next look starts.
ToSleepsEnd == IF at = "asleep" THEN left + MaxBusy ELSE MaxBusy - busy

RestInv ==
  /\ HeartbeatTypeOK
  /\ at = "asleep" => busy = 0 /\ left <= nap
  /\ quiet \in QuietSettings \cup {FirstQuiet}

\* Until the loop has looked outside of the window, it sleeps for the interval by default.
FlagInv ==
  sleepDone =>
    at \in {"asleep", "tick", "sleep"} /\ (at = "asleep" => left <= Clamp(Default))

\* The flag stands for the sleep phase of this window.
OnceInv ==
  disturbed \cap {"restart", "quiet"} = {} =>
    \/ slept = 0
    \/ slept = 1 /\ sleepDone /\ at # "sleep" /\ Within(quiet, hour)

\* Where there is room outside of the window its flag is reset before the next one begins.
\* Within it, a loop without the flag is in the tick it began before, or looks in time for a
\* sleep phase that ends within it, unless its interval was too long.
WindowInv ==
  /\ disturbed = {} =>
       /\ quiet # Unparsed
       /\ RoomOutside /\ ~InQuiet(quiet, hour) /\ (sleepDone \/ at = "sleep") =>
            Elapsed(quiet, hour) + ToNextLook < Day
       /\ InQuiet(quiet, hour) /\ slept = 0 =>
            /\ RoomOutside => ~sleepDone
            /\ ~sleepDone =>
                 /\ Abroad => Elapsed(quiet, hour) < busy
                 /\ ~Abroad /\ nap + 2 * MaxBusy <= Length(quiet) =>
                      Elapsed(quiet, hour) + ToSleepsEnd < Length(quiet)
  /\ "awake" \notin missed

--------------------------------------------------------------------------------

LEMMA HeartbeatConstants ==
  /\ Day \in Nat /\ Day > 0 /\ Shortest \in Nat /\ Longest \in Nat /\ Default \in Nat
  /\ 0 < Shortest /\ Shortest <= Longest
  /\ FirstQuiet \in Window /\ Unparsed \notin Window
  /\ QuietSettings \subseteq Window \cup {Unparsed}
  /\ MaxBusy \in Nat /\ MaxChanges \in Nat /\ MaxRestarts \in Nat
BY ConstantsOK DEF ConstantsOK

LEMMA ClampFacts ==
  ASSUME NEW minutes \in Nat
  PROVE  Clamp(minutes) \in Nat /\ Clamp(minutes) <= Longest
BY HeartbeatConstants DEF Clamp

\* The next unit of the day.
LEMMA NextHour ==
  ASSUME NEW h \in Hour
  PROVE  (h + 1) % Day = (IF h + 1 = Day THEN 0 ELSE h + 1)
<1>1. h \in Nat /\ h < Day
  BY HeartbeatConstants DEF Hour
<1>2. CASE h + 1 = Day
  BY <1>2, <1>1, HeartbeatConstants
<1>3. CASE h + 1 # Day
  BY <1>3, <1>1, HeartbeatConstants
<1> QED
  BY <1>2, <1>3

\* A window is the first Length of it units after its start, also over midnight.
LEMMA ElapsedFacts ==
  ASSUME NEW w \in Window, NEW h \in Hour
  PROVE  /\ Elapsed(w, h) \in 0..(Day - 1) /\ Length(w) \in 1..Day
         /\ InQuiet(w, h) <=> Elapsed(w, h) < Length(w)
         /\ (h + 1) % Day \in Hour
         /\ Elapsed(w, (h + 1) % Day)
              = (IF Elapsed(w, h) + 1 = Day THEN 0 ELSE Elapsed(w, h) + 1)
<1>1. /\ h \in Nat /\ h < Day /\ w.start \in Nat /\ w.start < Day /\ w.end \in Nat /\ w.end < Day
      /\ Day \in Nat
  BY HeartbeatConstants DEF Hour, Window
<1>2. (h + 1) % Day = (IF h + 1 = Day THEN 0 ELSE h + 1)
  BY NextHour
<1>3. (h + 1) % Day \in Hour
  BY <1>1, <1>2 DEF Hour
<1>4. Elapsed(w, h) \in 0..(Day - 1) /\ Length(w) \in 1..Day
  BY <1>1 DEF Elapsed, Length
<1>5. InQuiet(w, h) <=> Elapsed(w, h) < Length(w)
  BY <1>1 DEF Elapsed, Length, InQuiet
<1>6. Elapsed(w, (h + 1) % Day) = (IF Elapsed(w, h) + 1 = Day THEN 0 ELSE Elapsed(w, h) + 1)
  BY <1>1, <1>2 DEF Elapsed
<1> QED
  BY <1>3, <1>4, <1>5, <1>6

--------------------------------------------------------------------------------
(* Types.                                                                     *)

LEMMA FinishFacts ==
  ASSUME NEW minutes \in Nat, Finish(minutes)
  PROVE  /\ at' = "asleep" /\ left' = Clamp(minutes) /\ left' \in 0..Longest /\ busy' = 0
         /\ nap' = left'
         /\ todo' = {} /\ least' = Default /\ deed' = "none"
BY ClampFacts, HeartbeatConstants DEF Finish

\* The variables of the loop after its own steps.
LoopType ==
  /\ at \in {"asleep", "tick", "sleep", "execute", "triage", "evaluate", "act"}
  /\ left \in 0..Longest /\ nap \in 0..Longest /\ busy \in 0..MaxBusy
  /\ todo \subseteq User /\ least \in 0..(Day + Default) /\ deed \in Deed
  /\ at = "evaluate" => todo # {}
  /\ at = "asleep" => busy = 0 /\ left <= nap

LEMMA FinishType ==
  ASSUME NEW minutes \in Nat, Finish(minutes)
  PROVE  LoopType'
<1>1. /\ at' = "asleep" /\ left' \in 0..Longest /\ nap' = left' /\ busy' = 0
      /\ todo' = {} /\ least' = Default /\ deed' = "none"
  BY FinishFacts
<1> QED
  BY <1>1, HeartbeatConstants DEF LoopType, Deed

LEMMA LoopKeepsType ==
  ASSUME RestInv, Loop
  PROVE  LoopType'
<1>1. LoopType /\ least \in Nat /\ Default \in Nat /\ \A minutes \in 0..Day : minutes \in Nat
  BY HeartbeatConstants DEF RestInv, HeartbeatTypeOK, LoopType
<1>2. CASE Wake
  BY <1>1, <1>2 DEF Wake, Go, LoopType
<1>3. CASE TickRaises
  BY <1>1, <1>3, FinishType DEF TickRaises
<1>4. CASE StartSleep
  BY <1>1, <1>4 DEF StartSleep, Go, LoopType
<1>5. CASE EndSleep
  BY <1>1, <1>5, FinishType DEF EndSleep
<1>6. CASE KeepQuiet
  BY <1>1, <1>6, FinishType DEF KeepQuiet
<1>7. CASE Awake
  BY <1>1, <1>7 DEF Awake, Go, LoopType
<1>8. CASE Executed
  <2>1. CASE Finish(Default)
    BY <1>1, <2>1, FinishType
  <2>2. CASE at = "execute" /\ Go("triage") /\ UNCHANGED <<todo, least, deed>>
    BY <1>1, <2>2 DEF Go, LoopType
  <2> QED
    BY <1>8, <2>1, <2>2 DEF Executed
<1>9. ASSUME NEW selected \in SUBSET User, NEW minutes \in 0..Day, Triage(selected, minutes)
      PROVE  LoopType'
  <2>1. CASE selected = {}
    BY <1>1, <1>9, <2>1, FinishType DEF Triage
  <2>2. CASE selected # {}
    <3>1. /\ at = "triage" /\ at' = "evaluate" /\ UNCHANGED <<left, nap, busy, deed>>
          /\ todo' = selected /\ least' = minutes
      BY <1>9, <2>2 DEF Triage, Go
    <3> QED
      BY <1>1, <2>2, <3>1, HeartbeatConstants DEF LoopType
  <2> QED
    BY <2>1, <2>2
<1>10. ASSUME NEW user \in User, NEW decision \in Deed, NEW minutes \in 0..Day,
              Evaluate(user, decision, minutes)
       PROVE  LoopType'
  <2>1. /\ at = "evaluate" /\ at' = "act" /\ UNCHANGED <<left, nap, busy>> /\ deed' = decision
        /\ todo' = todo \ {user} /\ least' = IF minutes < least THEN minutes ELSE least
    BY <1>10 DEF Evaluate, Go
  <2> QED
    BY <1>1, <2>1, HeartbeatConstants DEF LoopType
<1>11. CASE Act
  <2>1. CASE todo = {}
    BY <1>1, <1>11, <2>1, FinishType DEF Act
  <2>2. CASE todo # {}
    BY <1>1, <1>11, <2>2 DEF Act, Go, LoopType, Deed
  <2> QED
    BY <2>1, <2>2
<1> QED
  BY <1>2, <1>3, <1>4, <1>5, <1>6, <1>7, <1>8, <1>9, <1>10, <1>11 DEF Loop

\* What the loop leaves alone.
LEMMA LoopLeaves ==
  ASSUME Loop
  PROVE  UNCHANGED <<hour, quiet, missed, changes, restarts>>
BY DEF Loop, Wake, TickRaises, StartSleep, EndSleep, KeepQuiet, Awake, Executed, Triage, Evaluate,
       Act, history, bounds

LEMMA RestKeeps ==
  ASSUME RestInv, [HeartbeatNext]_heartbeatVars
  PROVE  RestInv'
<1> USE DEF RestInv, HeartbeatTypeOK
<1>1. CASE Loop
  <2>1. LoopType' /\ UNCHANGED <<hour, quiet, missed, changes, restarts>>
    BY <1>1, LoopKeepsType, LoopLeaves
  <2>2. /\ sleepDone' = sleepDone \/ sleepDone' \in {TRUE, FALSE}
        /\ slept' = slept \/ slept' = slept + 1 \/ slept' = slept + 0
        /\ disturbed' = disturbed \/ disturbed' = disturbed \cup {"failed"}
    BY <1>1 DEF Loop, Wake, TickRaises, StartSleep, EndSleep, KeepQuiet, Awake, Executed, Triage,
                Evaluate, Act, history
  <2>3. slept' \in Nat
    BY <2>2
  <2>4. disturbed' \subseteq {"restart", "quiet", "failed"} /\ sleepDone' \in BOOLEAN
    BY <2>2
  <2> QED
    BY <2>1, <2>3, <2>4 DEF LoopType
<1>2. CASE Clock
  <2>1. hour' \in Hour
    <3>1. FirstQuiet \in Window
      BY HeartbeatConstants
    <3> QED
      BY <1>2, <3>1, ElapsedFacts DEF Clock
  <2>2. /\ left' \in 0..Longest /\ busy' \in 0..MaxBusy
        /\ at' = "asleep" => busy' = 0 /\ left' <= nap'
    BY <1>2, HeartbeatConstants DEF Clock
  <2>3. /\ missed' \subseteq {"overslept", "awake"} /\ slept' \in Nat
        /\ disturbed' \subseteq {"restart", "quiet", "failed"}
    <3>1. CASE Within(quiet, hour) /\ ~Within(quiet, hour')
      <4>1. /\ slept' = 0 /\ disturbed' = {}
            /\ \/ missed' = missed
               \/ \E reason \in {"overslept", "awake"} : missed' = missed \cup {reason}
        BY <1>2, <3>1 DEF Clock, TurnHistory
      <4> QED
        BY <4>1
    <3>2. CASE ~(Within(quiet, hour) /\ ~Within(quiet, hour'))
      BY <1>2, <3>2 DEF Clock, TurnHistory
    <3> QED
      BY <3>1, <3>2
  <2> QED
    BY <1>2, <2>1, <2>2, <2>3 DEF Clock, bounds
<1>3. ASSUME NEW setting \in QuietSettings, SetQuiet(setting)
      PROVE  RestInv'
  <2>1. changes' \in 0..MaxChanges /\ quiet' \in Window \cup {Unparsed}
    BY <1>3, HeartbeatConstants DEF SetQuiet
  <2> QED
    BY <1>3, <2>1 DEF SetQuiet, loop
<1>4. CASE Restart
  <2>1. restarts' \in 0..MaxRestarts /\ least' \in 0..(Day + Default)
    BY <1>4, HeartbeatConstants DEF Restart
  <2> QED
    BY <1>4, <2>1 DEF Restart, Go, Deed
<1>5. CASE UNCHANGED heartbeatVars
  BY <1>5 DEF heartbeatVars, loop, history, bounds
<1> QED
  BY <1>1, <1>2, <1>3, <1>4, <1>5 DEF HeartbeatNext

--------------------------------------------------------------------------------
(* One sleep phase.                                                           *)

LEMMA OnceKeeps ==
  ASSUME RestInv, OnceInv, [HeartbeatNext]_heartbeatVars
  PROVE  OnceInv'
<1> USE DEF OnceInv
<1>1. CASE Loop
  <2>1. UNCHANGED <<hour, quiet>>
    BY <1>1, LoopLeaves
  <2>2. CASE Wake
    BY <2>1, <2>2 DEF Wake, Go, history, Within
  <2>3. CASE TickRaises
    BY <2>1, <2>3 DEF TickRaises, Finish, Within
  <2>4. CASE StartSleep
    BY <2>1, <2>4 DEF StartSleep, Go, history, Within
  <2>5. CASE EndSleep
    <3>1. slept = 0 \/ disturbed \cap {"restart", "quiet"} # {}
      BY <2>5 DEF EndSleep
    <3>2. /\ slept = 0 /\ Within(quiet, hour) => slept' = 1
          /\ slept = 0 /\ ~Within(quiet, hour) => slept' = 0
      BY <2>5 DEF EndSleep
    <3>3. /\ sleepDone' /\ at' # "sleep" /\ disturbed' = disturbed
          /\ Within(quiet, hour)' <=> Within(quiet, hour)
      BY <2>1, <2>5 DEF EndSleep, Finish, Within
    <3> QED
      BY <3>1, <3>2, <3>3
  <2>6. CASE KeepQuiet
    BY <2>1, <2>6 DEF KeepQuiet, Finish, history, Within
  <2>7. CASE Awake
    BY <2>1, <2>7 DEF Awake, Go, history, Within
  <2>8. CASE Executed
    BY <2>1, <2>8 DEF Executed, Finish, Go, history, Within
  <2>9. ASSUME NEW selected \in SUBSET User, NEW minutes \in 0..Day, Triage(selected, minutes)
        PROVE  OnceInv'
    BY <2>1, <2>9 DEF Triage, Finish, Go, history, Within
  <2>10. ASSUME NEW user \in User, NEW decision \in Deed, NEW minutes \in 0..Day,
                Evaluate(user, decision, minutes)
         PROVE  OnceInv'
    BY <2>1, <2>10 DEF Evaluate, Go, history, Within
  <2>11. CASE Act
    BY <2>1, <2>11 DEF Act, Finish, Go, history, Within
  <2> QED
    BY <1>1, <2>2, <2>3, <2>4, <2>5, <2>6, <2>7, <2>8, <2>9, <2>10, <2>11 DEF Loop
<1>2. CASE Clock
  <2>1. CASE Within(quiet, hour) /\ ~Within(quiet, hour')
    BY <1>2, <2>1 DEF Clock, TurnHistory
  <2>2. CASE ~Within(quiet, hour)
    BY <1>2, <2>2 DEF Clock, TurnHistory
  <2>3. CASE Within(quiet, hour) /\ Within(quiet, hour')
    BY <1>2, <2>3 DEF Clock, TurnHistory, Within
  <2> QED
    BY <2>1, <2>2, <2>3
<1>3. ASSUME NEW setting \in QuietSettings, SetQuiet(setting)
      PROVE  OnceInv'
  BY <1>3 DEF SetQuiet
<1>4. CASE Restart
  BY <1>4 DEF Restart
<1>5. CASE UNCHANGED heartbeatVars
  BY <1>5 DEF heartbeatVars, loop, history, bounds, Within
<1> QED
  BY <1>1, <1>2, <1>3, <1>4, <1>5 DEF HeartbeatNext

LEMMA HeartbeatStarts == HeartbeatInit => RestInv /\ OnceInv /\ FlagInv /\ WindowInv
<1> SUFFICES ASSUME HeartbeatInit PROVE RestInv /\ OnceInv /\ FlagInv /\ WindowInv
  OBVIOUS
<1>1. RestInv
  <2>1. /\ 0 \in 0..Longest /\ 0 \in 0..MaxBusy /\ 0 \in 0..MaxChanges /\ 0 \in 0..MaxRestarts
        /\ Default \in 0..(Day + Default) /\ FirstQuiet \in Window
    BY HeartbeatConstants
  <2> QED
    BY <2>1 DEF HeartbeatInit, RestInv, HeartbeatTypeOK, Deed
<1>2. OnceInv /\ FlagInv /\ WindowInv
  BY DEF HeartbeatInit, OnceInv, FlagInv, WindowInv
<1> QED
  BY <1>1, <1>2
--------------------------------------------------------------------------------
(* No window without one.                                                     *)

LEMMA FlagKeeps ==
  ASSUME RestInv, FlagInv, [HeartbeatNext]_heartbeatVars
  PROVE  FlagInv'
<1> USE DEF FlagInv
<1>1. ASSUME Finish(Default) PROVE FlagInv'
  <2>1. at' = "asleep" /\ left' = Clamp(Default) /\ Clamp(Default) \in Nat
    BY <1>1, FinishFacts, ClampFacts, HeartbeatConstants
  <2> QED
    BY <2>1
<1>2. CASE Wake
  BY <1>2 DEF Wake, Go
<1>3. CASE TickRaises \/ EndSleep \/ KeepQuiet
  BY <1>1, <1>3 DEF TickRaises, EndSleep, KeepQuiet
<1>4. CASE StartSleep
  BY <1>4 DEF StartSleep
<1>5. CASE Awake
  BY <1>5 DEF Awake
<1>6. CASE Executed
  BY <1>6 DEF Executed
<1>7. ASSUME NEW selected \in SUBSET User, NEW minutes \in 0..Day, Triage(selected, minutes)
      PROVE  FlagInv'
  BY <1>7 DEF Triage
<1>8. ASSUME NEW user \in User, NEW decision \in Deed, NEW minutes \in 0..Day,
             Evaluate(user, decision, minutes)
      PROVE  FlagInv'
  BY <1>8 DEF Evaluate
<1>9. CASE Act
  BY <1>9 DEF Act
<1>10. CASE Clock
  <2>1. left \in Nat /\ Clamp(Default) \in Nat
    BY HeartbeatConstants, ClampFacts DEF RestInv, HeartbeatTypeOK
  <2> QED
    BY <1>10, <2>1 DEF Clock
<1>11. ASSUME NEW setting \in QuietSettings, SetQuiet(setting)
       PROVE  FlagInv'
  BY <1>11 DEF SetQuiet, loop
<1>12. CASE Restart
  BY <1>12 DEF Restart
<1>13. CASE UNCHANGED heartbeatVars
  BY <1>13 DEF heartbeatVars, loop
<1> QED
  BY <1>2, <1>3, <1>4, <1>5, <1>6, <1>7, <1>8, <1>9, <1>10, <1>11, <1>12, <1>13
     DEF HeartbeatNext, Loop

\* The quiet hours that parse, and the numbers of the loop.
LEMMA QuietFacts ==
  ASSUME RestInv, quiet # Unparsed
  PROVE  /\ quiet \in Window /\ hour \in Hour /\ Day \in Nat
         /\ Elapsed(quiet, hour) \in 0..(Day - 1) /\ Length(quiet) \in 1..Day
         /\ InQuiet(quiet, hour) <=> Elapsed(quiet, hour) < Length(quiet)
         /\ Elapsed(quiet, (hour + 1) % Day)
              = (IF Elapsed(quiet, hour) + 1 = Day THEN 0 ELSE Elapsed(quiet, hour) + 1)
         /\ InQuiet(quiet, (hour + 1) % Day)
              <=> Elapsed(quiet, (hour + 1) % Day) < Length(quiet)
<1>1. quiet \in Window /\ hour \in Hour /\ Day \in Nat
  BY HeartbeatConstants DEF RestInv, HeartbeatTypeOK
<1>2. /\ Elapsed(quiet, hour) \in 0..(Day - 1) /\ Length(quiet) \in 1..Day
      /\ InQuiet(quiet, hour) <=> Elapsed(quiet, hour) < Length(quiet)
      /\ (hour + 1) % Day \in Hour
      /\ Elapsed(quiet, (hour + 1) % Day)
           = (IF Elapsed(quiet, hour) + 1 = Day THEN 0 ELSE Elapsed(quiet, hour) + 1)
  BY <1>1, ElapsedFacts
<1>3. InQuiet(quiet, (hour + 1) % Day) <=> Elapsed(quiet, (hour + 1) % Day) < Length(quiet)
  BY <1>1, <1>2, ElapsedFacts
<1> QED
  BY <1>1, <1>2, <1>3

LEMMA LoopNumbers ==
  ASSUME RestInv
  PROVE  /\ Longest \in Nat /\ MaxBusy \in Nat /\ Default \in Nat /\ Day \in Nat
         /\ busy \in Nat /\ busy <= MaxBusy /\ left \in Nat /\ nap \in Nat
         /\ slept \in Nat /\ least \in Nat
         /\ Clamp(Default) \in Nat /\ Clamp(Default) > 0
         /\ at = "asleep" => busy = 0 /\ left <= nap
         /\ ToNextLook \in Nat /\ ToSleepsEnd \in Nat
<1>1. Clamp(Default) \in Nat /\ Clamp(Default) > 0
  BY HeartbeatConstants, ClampFacts DEF Clamp
<1>2. /\ Longest \in Nat /\ MaxBusy \in Nat /\ Default \in Nat /\ Day \in Nat
      /\ busy \in Nat /\ busy <= MaxBusy /\ left \in Nat /\ nap \in Nat
      /\ slept \in Nat /\ least \in Nat
      /\ at = "asleep" => busy = 0 /\ left <= nap
  BY HeartbeatConstants DEF RestInv, HeartbeatTypeOK
<1>3. ToNextLook \in Nat /\ ToSleepsEnd \in Nat
  BY <1>1, <1>2 DEF ToNextLook, ToSleepsEnd
<1> QED
  BY <1>1, <1>2, <1>3

\* The part of WindowInv that holds while the quiet hours are not in force, and the part
\* that holds while they are.
Outside ==
  RoomOutside /\ ~InQuiet(quiet, hour) /\ (sleepDone \/ at = "sleep") =>
    Elapsed(quiet, hour) + ToNextLook < Day

Inside ==
  InQuiet(quiet, hour) /\ slept = 0 =>
    /\ RoomOutside => ~sleepDone
    /\ ~sleepDone =>
         /\ Abroad => Elapsed(quiet, hour) < busy
         /\ ~Abroad /\ nap + 2 * MaxBusy <= Length(quiet) =>
              Elapsed(quiet, hour) + ToSleepsEnd < Length(quiet)

LEMMA LoopKeepsWindow ==
  ASSUME RestInv, FlagInv, WindowInv, Loop
  PROVE  WindowInv'
<1> DEFINE e == Elapsed(quiet, hour)  n == Length(quiet)
<1>1. UNCHANGED <<hour, quiet, missed>>
  BY LoopLeaves
<1>2. RestInv'
  BY RestKeeps DEF HeartbeatNext
<1>3. \A minutes \in 0..Day : minutes \in Nat
  OBVIOUS
<1>4. disturbed' = {} => disturbed = {}
  BY DEF Loop, Wake, TickRaises, StartSleep, EndSleep, KeepQuiet, Awake, Executed, Triage,
         Evaluate, Act, history
<1> SUFFICES ASSUME disturbed = {}, disturbed' = {} PROVE Outside' /\ Inside'
  BY <1>1, <1>4 DEF WindowInv, Outside, Inside
<1>5. Outside /\ Inside /\ quiet # Unparsed
  BY DEF WindowInv, Outside, Inside
<1>6. /\ e \in Nat /\ n \in Nat /\ Elapsed(quiet, hour)' = e /\ Length(quiet)' = n
      /\ InQuiet(quiet, hour)' = InQuiet(quiet, hour)
      /\ RoomOutside' = RoomOutside
  BY <1>1, <1>5, QuietFacts DEF RoomOutside
<1> HIDE DEF e, n
<1>7. CASE Wake
  <2>1. /\ at = "asleep" /\ at' = "tick" /\ left = 0
        /\ UNCHANGED <<nap, busy, sleepDone, slept>>
    BY <1>7 DEF Wake, Go, history
  <2>2. /\ ToNextLook = MaxBusy /\ ToNextLook' = MaxBusy /\ ~Abroad /\ ~Abroad'
        /\ ToSleepsEnd = MaxBusy /\ ToSleepsEnd' = MaxBusy
    BY <2>1, LoopNumbers DEF ToNextLook, ToSleepsEnd, Abroad
  <2> QED
    BY <1>5, <1>6, <2>1, <2>2 DEF Outside, Inside, e, n
\* The tick ends after a look from outside of the window.
<1>8. ASSUME NEW minutes \in Nat, Finish(minutes), Abroad, UNCHANGED <<sleepDone, slept>>
      PROVE  Outside' /\ Inside'
  <2>1. /\ at' = "asleep" /\ left' = Clamp(minutes) /\ nap' = left' /\ Clamp(minutes) \in Nat
    BY <1>8, FinishFacts, ClampFacts
  <2>2. ~sleepDone
    BY <1>8 DEF Abroad, FlagInv
  <2>3. Outside'
    BY <1>8, <2>1, <2>2 DEF Outside
  <2>4. ToSleepsEnd' = nap' + MaxBusy /\ ~Abroad'
    BY <2>1 DEF ToSleepsEnd, Abroad
  <2>5. InQuiet(quiet, hour) /\ slept = 0 => e < busy
    BY <1>5, <1>8, <2>2 DEF Inside, e
  <2>6. e < busy /\ nap' + 2 * MaxBusy <= n => e + ToSleepsEnd' < n
    BY <1>6, <2>1, <2>4, LoopNumbers
  <2> QED
    BY <1>6, <1>8, <2>2, <2>3, <2>4, <2>5, <2>6 DEF Inside, e, n
\* A step within the tick, after such a look.
<1>9. ASSUME Abroad, Abroad', UNCHANGED <<nap, busy, sleepDone, slept>>
      PROVE  Outside' /\ Inside'
  <2>1. ~sleepDone
    BY <1>9 DEF Abroad, FlagInv
  <2>2. Outside'
    BY <1>9, <2>1 DEF Outside, Abroad
  <2> QED
    BY <1>5, <1>6, <1>9, <2>1, <2>2 DEF Inside, e, n
<1>10. CASE TickRaises
  <2>1. at \in {"sleep", "execute", "triage", "evaluate", "act"} /\ Finish(Default)
        /\ UNCHANGED <<sleepDone, slept>>
    BY <1>5, <1>10 DEF TickRaises
  <2>2. at # "sleep"
    BY <1>10 DEF TickRaises
  <2> QED
    BY <1>8, <2>1, <2>2, LoopNumbers, HeartbeatConstants DEF Abroad
<1>11. CASE StartSleep
  <2>1. /\ at = "tick" /\ at' = "sleep" /\ InQuiet(quiet, hour)
        /\ UNCHANGED <<nap, busy, sleepDone, slept>>
    BY <1>11 DEF StartSleep, Go, history, Within
  <2>2. ToSleepsEnd' = ToSleepsEnd /\ ~Abroad /\ ~Abroad'
    BY <2>1 DEF ToSleepsEnd, Abroad
  <2> QED
    BY <1>5, <1>6, <2>1, <2>2 DEF Outside, Inside, e, n
<1>12. CASE EndSleep
  <2>1. /\ at = "sleep" /\ Finish(Default)
        /\ slept' = slept + (IF Within(quiet, hour) THEN 1 ELSE 0)
    BY <1>12 DEF EndSleep
  <2>2. InQuiet(quiet, hour) => slept' # 0
    BY <1>5, <2>1, LoopNumbers DEF Within
  <2>3. /\ ToNextLook' = Clamp(Default) + MaxBusy
        /\ ToNextLook = Clamp(Default) + 2 * MaxBusy - busy
    <3>1. at' = "asleep" /\ left' = Clamp(Default)
      BY <2>1, FinishFacts, HeartbeatConstants
    <3> QED
      BY <2>1, <3>1 DEF ToNextLook
  <2>4. ToNextLook' <= ToNextLook
    BY <2>3, LoopNumbers
  <2>5. e + ToNextLook < Day => e + ToNextLook' < Day
    BY <1>6, <2>3, LoopNumbers
  <2>6. Outside'
    BY <1>5, <1>6, <2>1, <2>5 DEF Outside, e
  <2>7. Inside'
    BY <1>6, <2>2 DEF Inside
  <2> QED
    BY <2>6, <2>7
<1>13. CASE KeepQuiet
  <2>1. InQuiet(quiet, hour) /\ sleepDone /\ UNCHANGED <<sleepDone, slept>>
    BY <1>13 DEF KeepQuiet, history, Within
  <2> QED
    BY <1>5, <1>6, <2>1 DEF Outside, Inside
<1>14. CASE Awake
  <2>1. ~InQuiet(quiet, hour) /\ ~sleepDone' /\ at' # "sleep"
    BY <1>14 DEF Awake, Go
  <2> QED
    BY <1>6, <2>1 DEF Outside, Inside
<1>15. CASE Executed
  <2>1. at = "execute" /\ UNCHANGED <<sleepDone, slept>>
    BY <1>15 DEF Executed, history
  <2>2. CASE Finish(Default)
    BY <1>8, <2>1, <2>2, HeartbeatConstants DEF Abroad
  <2>3. CASE Go("triage")
    BY <1>9, <2>1, <2>3 DEF Go, Abroad
  <2> QED
    BY <1>15, <2>2, <2>3 DEF Executed
<1>16. ASSUME NEW selected \in SUBSET User, NEW minutes \in 0..Day, Triage(selected, minutes)
       PROVE  Outside' /\ Inside'
  <2>1. at = "triage" /\ UNCHANGED <<sleepDone, slept>>
    BY <1>16 DEF Triage, history
  <2>2. CASE Finish(minutes)
    BY <1>3, <1>8, <2>1, <2>2 DEF Abroad
  <2>3. CASE Go("evaluate")
    BY <1>9, <2>1, <2>3 DEF Go, Abroad
  <2> QED
    BY <1>16, <2>2, <2>3 DEF Triage
<1>17. ASSUME NEW user \in User, NEW decision \in Deed, NEW minutes \in 0..Day,
              Evaluate(user, decision, minutes)
       PROVE  Outside' /\ Inside'
  BY <1>9, <1>17 DEF Evaluate, Go, history, Abroad
<1>18. CASE Act
  <2>1. at = "act" /\ UNCHANGED <<sleepDone, slept>>
    BY <1>18 DEF Act, history
  <2>2. CASE Finish(least)
    BY <1>8, <2>1, <2>2, LoopNumbers DEF Abroad
  <2>3. CASE Go("evaluate")
    BY <1>9, <2>1, <2>3 DEF Go, Abroad
  <2> QED
    BY <1>18, <2>2, <2>3 DEF Act
<1> QED
  BY <1>7, <1>10, <1>11, <1>12, <1>13, <1>14, <1>15, <1>16, <1>17, <1>18 DEF Loop

\* What one unit of time does to what the loop has left.
LEMMA UnitPasses ==
  ASSUME RestInv, FlagInv, Clock
  PROVE  /\ ToNextLook' = ToNextLook - 1 /\ ToSleepsEnd' = ToSleepsEnd - 1
         /\ ToNextLook > 0 /\ ToSleepsEnd > 0 /\ ToNextLook' \in Nat /\ ToSleepsEnd' \in Nat
         /\ ~Abroad => ToSleepsEnd' < nap + 2 * MaxBusy
         /\ sleepDone \/ at = "sleep" => ToNextLook' < Clamp(Default) + 2 * MaxBusy
         /\ Abroad' = Abroad /\ (at # "asleep" => busy' = busy + 1)
<1>1. at' = at /\ Abroad' = Abroad
  BY DEF Clock, Abroad
<1>2. CASE at = "asleep"
  <2>1. left > 0 /\ left' = left - 1
    BY <1>2 DEF Clock
  <2>2. /\ ToNextLook = left + MaxBusy /\ ToSleepsEnd = left + MaxBusy
        /\ ToNextLook' = left' + MaxBusy /\ ToSleepsEnd' = left' + MaxBusy
    BY <1>1, <1>2 DEF ToNextLook, ToSleepsEnd
  <2>3. sleepDone => left <= Clamp(Default)
    BY <1>2 DEF FlagInv
  <2> QED
    BY <1>1, <1>2, <2>1, <2>2, <2>3, LoopNumbers
<1>3. CASE at = "sleep"
  <2>1. busy < MaxBusy /\ busy' = busy + 1
    BY <1>3 DEF Clock
  <2>2. /\ ToNextLook = Clamp(Default) + 2 * MaxBusy - busy
        /\ ToNextLook' = Clamp(Default) + 2 * MaxBusy - (busy + 1)
        /\ ToSleepsEnd = MaxBusy - busy /\ ToSleepsEnd' = MaxBusy - (busy + 1)
    BY <1>1, <1>3, <2>1 DEF ToNextLook, ToSleepsEnd
  <2> QED
    BY <1>1, <1>3, <2>1, <2>2, LoopNumbers
<1>4. CASE at \notin {"asleep", "sleep"}
  <2>1. busy < MaxBusy /\ busy' = busy + 1
    BY <1>4 DEF Clock
  <2>2. /\ ToNextLook = MaxBusy - busy /\ ToNextLook' = MaxBusy - (busy + 1)
        /\ ToSleepsEnd = MaxBusy - busy /\ ToSleepsEnd' = MaxBusy - (busy + 1)
    BY <1>1, <1>4, <2>1 DEF ToNextLook, ToSleepsEnd
  <2> QED
    BY <1>1, <1>4, <2>1, <2>2, LoopNumbers
<1> QED
  BY <1>2, <1>3, <1>4

LEMMA ClockKeepsWindow ==
  ASSUME RestInv, FlagInv, WindowInv, Clock
  PROVE  WindowInv'
<1> DEFINE e == Elapsed(quiet, hour)  f == Elapsed(quiet, hour')  n == Length(quiet)
<1>1. /\ UNCHANGED <<at, nap, quiet, sleepDone>> /\ hour' = (hour + 1) % Day
      /\ TurnHistory(hour')
  BY DEF Clock
<1>2. RoomOutside' = RoomOutside
  BY <1>1 DEF RoomOutside, Length, Elapsed
<1>3. ASSUME quiet # Unparsed
      PROVE  /\ e \in 0..(Day - 1) /\ n \in 1..Day /\ Day \in Nat
             /\ f = (IF e + 1 = Day THEN 0 ELSE e + 1)
             /\ InQuiet(quiet, hour) <=> e < n
             /\ InQuiet(quiet, hour') <=> f < n
             /\ Elapsed(quiet, hour)' = f /\ Length(quiet)' = n
             /\ InQuiet(quiet, hour)' = InQuiet(quiet, hour')
  BY <1>1, <1>3, QuietFacts DEF Length, Elapsed, InQuiet
<1> HIDE DEF e, f, n
\* The window ends: it has had its phase or was overslept, and where there is room the loop
\* looks before the next one.
<1>4. CASE Within(quiet, hour) /\ ~Within(quiet, hour')
  <2>1. /\ quiet # Unparsed /\ InQuiet(quiet, hour) /\ ~InQuiet(quiet, hour')
        /\ missed' = IF slept = 0 /\ disturbed = {}
                       THEN missed \cup {IF Overslept THEN "overslept" ELSE "awake"}
                       ELSE missed
    BY <1>1, <1>4 DEF Within, TurnHistory
  <2>2. f = n /\ e + 1 = n /\ n < Day
    BY <1>3, <2>1
  <2>3. ASSUME slept = 0, disturbed = {} PROVE Overslept
    <3>1. Inside
      BY <2>3 DEF WindowInv, Inside
    <3>2. CASE sleepDone
      <4>1. ~RoomOutside
        BY <2>1, <2>3, <3>1, <3>2 DEF Inside
      <4> QED
        BY <1>3, <2>1, <3>2, <4>1, LoopNumbers DEF RoomOutside, Overslept, n
    <3>3. CASE ~sleepDone /\ ~Abroad
      <4>1. ~(nap + 2 * MaxBusy <= n)
        <5>1. nap + 2 * MaxBusy <= n => e + ToSleepsEnd < n
          BY <2>1, <2>3, <3>1, <3>3 DEF Inside, e, n
        <5> QED
          BY <1>3, <2>1, <2>2, <5>1, UnitPasses, LoopNumbers
      <4> QED
        BY <1>3, <2>1, <4>1, LoopNumbers DEF Overslept, n
    <3>4. CASE ~sleepDone /\ Abroad
      <4>1. e < busy
        BY <2>1, <2>3, <3>1, <3>4 DEF Inside, e
      <4>2. busy < MaxBusy
        BY <3>4 DEF Clock, Abroad
      <4>3. nap + 2 * MaxBusy > n
        BY <1>3, <2>1, <2>2, <4>1, <4>2, LoopNumbers
      <4> QED
        BY <4>3 DEF Overslept, n
    <3> QED
      BY <3>2, <3>3, <3>4
  <2>4. "awake" \notin missed'
    BY <2>1, <2>3 DEF WindowInv
  <2>5. RoomOutside /\ (sleepDone \/ at = "sleep") => f + ToNextLook' < Day
    <3>1. SUFFICES ASSUME RoomOutside, sleepDone \/ at = "sleep" PROVE f + ToNextLook' < Day
      OBVIOUS
    <3>2. ToNextLook' < Clamp(Default) + 2 * MaxBusy /\ ToNextLook' \in Nat
      BY <3>1, UnitPasses
    <3>3. Clamp(Default) + 2 * MaxBusy <= Day - n
      BY <3>1 DEF RoomOutside, n
    <3> QED
      BY <1>3, <2>1, <2>2, <3>2, <3>3, LoopNumbers
  <2> QED
    BY <1>1, <1>2, <1>3, <2>1, <2>4, <2>5 DEF WindowInv
<1>5. CASE ~(Within(quiet, hour) /\ ~Within(quiet, hour'))
  <2>1. UNCHANGED <<missed, slept, disturbed>>
    BY <1>1, <1>5 DEF TurnHistory
  <2>2. "awake" \notin missed'
    BY <2>1 DEF WindowInv
  <2> SUFFICES ASSUME disturbed = {} PROVE quiet # Unparsed /\ Outside' /\ Inside'
    BY <1>1, <2>1, <2>2 DEF WindowInv, Outside, Inside
  <2>3. /\ quiet # Unparsed /\ Outside /\ Inside
        /\ InQuiet(quiet, hour) => InQuiet(quiet, hour')
    BY <1>5 DEF WindowInv, Outside, Inside, Within
  <2>4. Outside'
    <3> SUFFICES ASSUME RoomOutside, ~InQuiet(quiet, hour'), sleepDone \/ at = "sleep"
                 PROVE  f + ToNextLook' < Day
      BY <1>1, <1>2, <1>3, <2>3 DEF Outside
    <3>1. ~InQuiet(quiet, hour) /\ f = e + 1
      BY <1>3, <2>3
    <3>2. e + ToNextLook < Day
      BY <2>3, <3>1 DEF Outside, e
    <3> QED
      BY <1>3, <2>3, <3>1, <3>2, UnitPasses, LoopNumbers
  <2>5. Inside'
    <3> SUFFICES ASSUME InQuiet(quiet, hour'), slept = 0
                 PROVE  /\ RoomOutside => ~sleepDone
                        /\ ~sleepDone =>
                             /\ Abroad => f < busy'
                             /\ ~Abroad /\ nap + 2 * MaxBusy <= n => f + ToSleepsEnd' < n
      BY <1>1, <1>2, <1>3, <2>1, <2>3, UnitPasses DEF Inside
    <3>1. Abroad => busy' = busy + 1
      BY UnitPasses DEF Abroad
    <3>2. CASE InQuiet(quiet, hour)
      <4>1. /\ RoomOutside => ~sleepDone
            /\ ~sleepDone =>
                 /\ Abroad => e < busy
                 /\ ~Abroad /\ nap + 2 * MaxBusy <= n => e + ToSleepsEnd < n
        BY <2>3, <3>2 DEF Inside, e, n
      <4>2. f <= e + 1 /\ f \in Nat /\ e \in Nat /\ n \in Nat
        BY <1>3, <2>3
      <4>3. Abroad /\ e < busy => f < busy'
        BY <3>1, <4>2, LoopNumbers
      <4>4. e + ToSleepsEnd < n => f + ToSleepsEnd' < n
        BY <4>2, UnitPasses, LoopNumbers
      <4> QED
        BY <4>1, <4>3, <4>4
    \* The window begins.
    <3>3. CASE ~InQuiet(quiet, hour)
      <4>1. f = 0 /\ e + 1 = Day /\ n \in Nat
        BY <1>3, <2>3, <3>3
      <4>2. RoomOutside => ~sleepDone
        <5>1. RoomOutside /\ sleepDone => e + ToNextLook < Day
          BY <2>3, <3>3 DEF Outside, e
        <5> QED
          BY <1>3, <2>3, <4>1, <5>1, UnitPasses, LoopNumbers
      <4>3. Abroad => f < busy'
        BY <3>1, <4>1, LoopNumbers
      <4>4. ~Abroad /\ nap + 2 * MaxBusy <= n => f + ToSleepsEnd' < n
        BY <4>1, UnitPasses, LoopNumbers
      <4> QED
        BY <4>2, <4>3, <4>4
    <3> QED
      BY <3>2, <3>3
  <2> QED
    BY <2>3, <2>4, <2>5
<1> QED
  BY <1>4, <1>5

LEMMA WindowKeeps ==
  ASSUME RestInv, FlagInv, WindowInv, [HeartbeatNext]_heartbeatVars
  PROVE  WindowInv'
<1>1. CASE Loop
  BY <1>1, LoopKeepsWindow
<1>2. CASE Clock
  BY <1>2, ClockKeepsWindow
<1>3. ASSUME NEW setting \in QuietSettings, SetQuiet(setting)
      PROVE  WindowInv'
  BY <1>3 DEF SetQuiet, WindowInv
<1>4. CASE Restart
  BY <1>4 DEF Restart, WindowInv
<1>5. CASE UNCHANGED heartbeatVars
  BY <1>5 DEF heartbeatVars, loop, history, bounds, WindowInv, RoomOutside, Abroad,
                    ToNextLook, ToSleepsEnd, Length, Elapsed
<1> QED
  BY <1>1, <1>2, <1>3, <1>4, <1>5 DEF HeartbeatNext

--------------------------------------------------------------------------------

\* The loop and its clock stay within their kinds, whatever the AI asks for.
THEOREM HeartbeatTypeCorrect == HeartbeatSpec => []HeartbeatTypeOK
<1>1. HeartbeatInit => RestInv
  BY HeartbeatStarts
<1>2. RestInv /\ [HeartbeatNext]_heartbeatVars => RestInv'
  BY RestKeeps
<1>3. RestInv => HeartbeatTypeOK
  BY DEF RestInv
<1> QED
  BY <1>1, <1>2, <1>3, PTL DEF HeartbeatSpec

\* However often the loop wakes in a window, and whatever its ticks raise, the sleep phase runs
\* once in it at the most, unless the process is restarted or the quiet hours are changed.
THEOREM SleepsAtMostOnce == HeartbeatSpec => []SleepsOnceUndisturbed
<1>1. HeartbeatInit => RestInv /\ OnceInv
  BY HeartbeatStarts
<1>2. RestInv /\ OnceInv /\ [HeartbeatNext]_heartbeatVars => (RestInv /\ OnceInv)'
  BY RestKeeps, OnceKeeps
<1>3. OnceInv => SleepsOnceUndisturbed
  BY DEF OnceInv, SleepsOnceUndisturbed
<1> QED
  BY <1>1, <1>2, <1>3, PTL DEF HeartbeatSpec

\* Whatever intervals the AI asks for, up to the longest that is configured: a window without a
\* restart, a change of the quiet hours or a failure of the sleep phase passes without a sleep
\* phase only when the loop was asleep for an interval that does not fit into that window, or
\* the windows follow each other too closely for the interval by default.
THEOREM SleepsUnlessOverslept == HeartbeatSpec => []OnlyOversleptIsMissed
<1>1. HeartbeatInit => RestInv /\ FlagInv /\ WindowInv
  BY HeartbeatStarts
<1>2. RestInv /\ FlagInv /\ WindowInv /\ [HeartbeatNext]_heartbeatVars
        => (RestInv /\ FlagInv /\ WindowInv)'
  BY RestKeeps, FlagKeeps, WindowKeeps
<1>3. RestInv /\ WindowInv => OnlyOversleptIsMissed
  BY DEF RestInv, HeartbeatTypeOK, WindowInv, OnlyOversleptIsMissed
<1> QED
  BY <1>1, <1>2, <1>3, PTL DEF HeartbeatSpec

--------------------------------------------------------------------------------
(* Part 2: AiCalls. *)

\* A call that is under way is of some kind.
PhaseInv ==
  \A c \in Caller : call[c].at # "idle" => call[c].phase \in DOMAIN Temperature \cup {"vision"}

\* What the heartbeat asks now follows from the answer before.
HeartInv ==
  call["heart"].at # "idle" =>
    /\ Len(tries) < Attempts
    /\ call["heart"].told = IF tries = <<>> THEN None ELSE tries[Len(tries)].got

\* The engine answers only when its last task has ended.
TaskInv == "engine" \in active /\ call["engine"].at # "idle" => call["task"].at = "idle"

\* The part of the state that the callers have.
CallsType ==
  /\ call \in [Caller -> CallRow]
  /\ tries \in Seq([told : Told, got : Value]) /\ Len(tries) <= Attempts
  /\ outcome \in {None, "good", "fallback", "raised"}
  /\ reply \in {None, "text", "image", "error", "empty"}

CallsInv == CallsType /\ PhaseInv /\ HeartInv /\ TaskInv /\ RetryToldWhy

\* What the types and the ages say of the entries es: the age of an entry is counted from the
\* request for it.
Good(es) ==
  /\ es \in Seq(Entry)
  /\ \A i, j \in DOMAIN es : es[i].key = es[j].key => i = j
  /\ \A i \in DOMAIN es : Temperature[es[i].key.phase] <= maxTemperature /\ es[i].age = es[i].born

CacheInv == Good(cache) /\ Len(cache) <= MaxEntries

IInv ==
  /\ maxTemperature \in MaxTemperatures /\ active \in Callers /\ sane \in BOOLEAN
  /\ CallsInv /\ CacheInv

--------------------------------------------------------------------------------

LEMMA Constants ==
  /\ MaxEntries \in Nat /\ MaxEntries > 0 /\ Ttl \in Nat /\ MaxTemperatures \subseteq Nat
  /\ Callers \subseteq SUBSET Caller
BY AiConstants DEF AiConstants, Caller

LEMMA Temperatures ==
  /\ DOMAIN Temperature = {"evaluation", "keywords", "chat", "draw", "feel", "extract"}
  /\ \A p \in DOMAIN Temperature : Temperature[p] \in Nat
BY DEF Temperature

--------------------------------------------------------------------------------
(* The cache.                                                                 *)

LEMMA Removed ==
  ASSUME NEW S, NEW s \in Seq(S), NEW n \in DOMAIN s
  PROVE  /\ RemoveAt(s, n) \in Seq(S) /\ Len(RemoveAt(s, n)) = Len(s) - 1
         /\ \A i \in 1..(Len(s) - 1) : RemoveAt(s, n)[i] = s[IF i < n THEN i ELSE i + 1]
<1> DEFINE a == SubSeq(s, 1, n - 1)  b == SubSeq(s, n + 1, Len(s))
<1>1. n \in Nat /\ Len(s) \in Nat /\ 1 <= n /\ n <= Len(s)
  OBVIOUS
<1>2. a \in Seq(S) /\ Len(a) = n - 1 /\ \A i \in 1..(n - 1) : a[i] = s[i]
  BY <1>1
<1>3. b \in Seq(S) /\ Len(b) = Len(s) - n /\ \A i \in 1..(Len(s) - n) : b[i] = s[n + i]
  BY <1>1
<1>4. RemoveAt(s, n) = a \o b
  BY DEF RemoveAt
<1> HIDE DEF a, b
<1>5. /\ a \o b \in Seq(S) /\ Len(a \o b) = Len(s) - 1
      /\ \A i \in 1..(Len(s) - 1) : (a \o b)[i] = IF i <= n - 1 THEN a[i] ELSE b[i - (n - 1)]
  <2>1. /\ a \o b \in Seq(S) /\ Len(a \o b) = Len(a) + Len(b)
        /\ \A i \in 1..(Len(a) + Len(b)) : (a \o b)[i] = IF i <= Len(a) THEN a[i] ELSE b[i - Len(a)]
    BY <1>2, <1>3, ConcatProperties
  <2>2. Len(a) = n - 1 /\ Len(b) = Len(s) - n /\ Len(a) + Len(b) = Len(s) - 1
    BY <1>1, <1>2, <1>3
  <2> QED
    BY <2>1, <2>2
<1>6. ASSUME NEW i \in 1..(Len(s) - 1) PROVE (a \o b)[i] = s[IF i < n THEN i ELSE i + 1]
  <2>1. CASE i < n
    BY <1>1, <1>2, <1>5, <2>1
  <2>2. CASE ~(i < n)
    <3>1. i - (n - 1) \in 1..(Len(s) - n) /\ n + (i - (n - 1)) = i + 1 /\ ~(i <= n - 1)
      BY <1>1, <2>2
    <3> QED
      BY <1>3, <1>5, <2>2, <3>1
  <2> QED
    BY <2>1, <2>2
<1> QED
  BY <1>4, <1>5, <1>6

LEMMA WithoutFacts ==
  ASSUME Good(cache), NEW k
  PROVE  /\ Good(Without(k)) /\ Len(Without(k)) <= Len(cache)
         /\ (\E i \in DOMAIN cache : cache[i].key = k) => Len(Without(k)) = Len(cache) - 1
         /\ \A i \in DOMAIN Without(k) : Without(k)[i].key # k
<1>0. /\ cache \in Seq(Entry) /\ Len(cache) \in Nat /\ DOMAIN cache = 1..Len(cache)
      /\ \A i, j \in DOMAIN cache : cache[i].key = cache[j].key => i = j
  BY DEF Good
<1>1. CASE ~ \E i \in DOMAIN cache : cache[i].key = k
  <2>1. Without(k) = cache
    BY <1>1 DEF Without
  <2>2. Len(cache) <= Len(cache)
    BY <1>0
  <2> QED
    BY <1>1, <2>1, <2>2
<1>2. CASE \E i \in DOMAIN cache : cache[i].key = k
  <2> DEFINE n == CHOOSE i \in DOMAIN cache : cache[i].key = k
             es == RemoveAt(cache, n)
  <2>1. n \in DOMAIN cache /\ cache[n].key = k
    BY <1>2
  <2>2. Without(k) = es
    BY <1>2 DEF Without
  <2> HIDE DEF n
  <2>3. /\ es \in Seq(Entry) /\ Len(es) = Len(cache) - 1
        /\ \A i \in 1..(Len(cache) - 1) : es[i] = cache[IF i < n THEN i ELSE i + 1]
    <3>1. cache \in Seq(Entry)
      BY <1>0
    <3> QED
      BY <2>1, <3>1, Removed
  <2> HIDE DEF es
  <2>4. DOMAIN es = 1..(Len(cache) - 1)
    BY <2>3
  <2>5. \A i \in DOMAIN es : \E j \in DOMAIN cache :
          es[i] = cache[j] /\ j # n /\ j = IF i < n THEN i ELSE i + 1
    <3> TAKE i \in DOMAIN es
    <3> DEFINE j == IF i < n THEN i ELSE i + 1
    <3>1. j \in DOMAIN cache /\ j # n
      BY <1>0, <2>1, <2>4
    <3>2. es[i] = cache[j]
      BY <2>3, <2>4
    <3> QED
      BY <3>1, <3>2
  <2>6. \A i \in DOMAIN es : es[i].key # k
    BY <1>0, <2>1, <2>5
  <2>7. ASSUME NEW i \in DOMAIN es, NEW j \in DOMAIN es, es[i].key = es[j].key PROVE i = j
    <3>1. PICK x \in DOMAIN cache : es[i] = cache[x] /\ x = IF i < n THEN i ELSE i + 1
      BY <2>5
    <3>2. PICK y \in DOMAIN cache : es[j] = cache[y] /\ y = IF j < n THEN j ELSE j + 1
      BY <2>5
    <3>3. x = y
      BY <1>0, <2>7, <3>1, <3>2
    <3> QED
      BY <1>0, <2>1, <2>4, <3>1, <3>2, <3>3
  <2>8. \A i \in DOMAIN es :
          Temperature[es[i].key.phase] <= maxTemperature /\ es[i].age = es[i].born
    BY <2>5 DEF Good
  <2>9. Good(es)
    BY <2>3, <2>7, <2>8 DEF Good
  <2> QED
    BY <1>0, <1>2, <2>2, <2>3, <2>6, <2>9
<1> QED
  BY <1>1, <1>2

\* A new entry takes the place of that of its key.
LEMMA PutFacts ==
  ASSUME Good(cache), NEW e \in Entry, Temperature[e.key.phase] <= maxTemperature, e.age = e.born
  PROVE  /\ Good(Append(Without(e.key), e))
         /\ Len(Append(Without(e.key), e)) = Len(Without(e.key)) + 1
<1> DEFINE w == Without(e.key)  es == Append(w, e)
<1>1. /\ Good(w) /\ w \in Seq(Entry) /\ \A i \in DOMAIN w : w[i].key # e.key
      /\ Len(w) \in Nat /\ DOMAIN w = 1..Len(w)
  BY WithoutFacts DEF Good
<1> HIDE DEF w
<1>2. /\ es \in Seq(Entry) /\ Len(es) = Len(w) + 1 /\ DOMAIN es = 1..(Len(w) + 1)
      /\ es[Len(w) + 1] = e /\ \A i \in 1..Len(w) : es[i] = w[i]
  BY <1>1
<1> HIDE DEF es
<1>3. \A i, j \in DOMAIN es : es[i].key = es[j].key => i = j
  BY <1>1, <1>2 DEF Good
<1>4. \A i \in DOMAIN es :
        Temperature[es[i].key.phase] <= maxTemperature /\ es[i].age = es[i].born
  BY <1>1, <1>2 DEF Good
<1>5. Good(es)
  BY <1>2, <1>3, <1>4 DEF Good
<1> QED
  BY <1>2, <1>5 DEF es, w

LEMMA TailFacts ==
  ASSUME NEW es, Good(es), es # <<>>
  PROVE  Good(Tail(es)) /\ Len(Tail(es)) = Len(es) - 1
<1>1. /\ es \in Seq(Entry) /\ Len(es) \in Nat /\ DOMAIN es = 1..Len(es) /\ Len(es) > 0
      /\ \A i, j \in DOMAIN es : es[i].key = es[j].key => i = j
  BY DEF Good
<1>2. /\ Tail(es) \in Seq(Entry) /\ Len(Tail(es)) = Len(es) - 1
      /\ DOMAIN Tail(es) = 1..(Len(es) - 1)
      /\ \A i \in 1..(Len(es) - 1) : Tail(es)[i] = es[i + 1] /\ i + 1 \in DOMAIN es
  BY <1>1
<1>3. \A i, j \in DOMAIN Tail(es) : Tail(es)[i].key = Tail(es)[j].key => i = j
  <2> TAKE i, j \in DOMAIN Tail(es)
  <2> HAVE Tail(es)[i].key = Tail(es)[j].key
  <2>1. i + 1 = j + 1
    BY <1>1, <1>2
  <2> QED
    BY <1>2, <2>1
<1>4. \A i \in DOMAIN Tail(es) :
        Temperature[Tail(es)[i].key.phase] <= maxTemperature /\ Tail(es)[i].age = Tail(es)[i].born
  BY <1>2 DEF Good
<1> QED
  BY <1>2, <1>3, <1>4 DEF Good

LEMMA StoredFacts ==
  ASSUME CacheInv, NEW k \in [phase : DOMAIN Temperature, told : Told],
         NEW v \in Value, NEW since \in 0..(Ttl + 1), Temperature[k.phase] <= maxTemperature
  PROVE  Good(Stored(k, v, since)) /\ Len(Stored(k, v, since)) <= MaxEntries
<1> DEFINE e == [key |-> k, value |-> v, age |-> since, born |-> since]
           es == Append(Without(k), e)
<1>1. e \in Entry /\ e.key = k /\ e.age = e.born /\ e.key.phase = k.phase
  BY DEF Entry
<1> HIDE DEF e
<1>2. Good(es) /\ Len(es) = Len(Without(k)) + 1 /\ Len(Without(k)) <= Len(cache)
  BY <1>1, PutFacts, WithoutFacts DEF CacheInv
<1>3. /\ Len(cache) <= MaxEntries /\ Len(cache) \in Nat /\ Len(es) \in Nat
      /\ Len(Without(k)) \in Nat /\ MaxEntries \in Nat /\ MaxEntries > 0
  BY <1>2, WithoutFacts, Constants DEF CacheInv, Good
<1>4. Stored(k, v, since) = IF Len(es) > MaxEntries THEN Tail(es) ELSE es
  BY DEF Stored, e
<1> HIDE DEF es
<1>5. CASE Len(es) > MaxEntries
  <2>1. es # <<>>
    BY <1>3, <1>5
  <2> QED
    BY <1>2, <1>3, <1>4, <1>5, <2>1, TailFacts
<1>6. CASE ~(Len(es) > MaxEntries)
  BY <1>2, <1>3, <1>4, <1>6
<1> QED
  BY <1>5, <1>6

--------------------------------------------------------------------------------
(* The continuation of each caller.                                           *)

LEMMA CallerFacts ==
  /\ Caller = {"heart", "engine", "task"} /\ Idle \in CallRow
  /\ Idle.at = "idle" /\ None \in Told
  /\ \A told \in Told : HeartAsks(told) \in CallRow /\ HeartAsks(told).at = "ask"
        /\ HeartAsks(told).phase = "evaluation" /\ HeartAsks(told).told = told
<1>1. Ttl \in Nat /\ 0 \in 0..(Ttl + 1)
  BY Constants
<1> QED
  BY <1>1, Temperatures DEF Caller, Idle, CallRow, Told, HeartAsks

LEMMA TaskAsks ==
  ASSUME NEW p \in {"feel", "extract"}
  PROVE  /\ [Idle EXCEPT !.at = "ask", !.phase = p] \in CallRow
         /\ [Idle EXCEPT !.at = "ask", !.phase = p].phase = p /\ p \in DOMAIN Temperature
<1>1. p \in DOMAIN Temperature /\ Idle \in CallRow
  BY Temperatures, CallerFacts
<1>2. ASSUME NEW row \in CallRow
      PROVE  /\ [row EXCEPT !.at = "ask", !.phase = p] \in CallRow
             /\ [row EXCEPT !.at = "ask", !.phase = p].phase = p
  BY <1>1 DEF CallRow
<1> QED
  BY <1>1, <1>2

LEMMA JudgedKeeps ==
  ASSUME CallsInv, call["heart"].at # "idle", NEW v \in Value, Judged(v), UNCHANGED <<reply, active>>
  PROVE  CallsInv'
<1> DEFINE t == [told |-> call["heart"].told, got |-> v]
<1>1. /\ call \in [Caller -> CallRow] /\ call["heart"].told \in Told /\ Len(tries) \in Nat
      /\ tries \in Seq([told : Told, got : Value]) /\ Len(tries) < 3 /\ t \in [told : Told, got : Value]
  BY CallerFacts DEF CallsInv, CallsType, HeartInv, Attempts, CallRow
<1>2. /\ tries' = Append(tries, t) /\ tries' \in Seq([told : Told, got : Value])
      /\ Len(tries') = Len(tries) + 1 /\ tries'[Len(tries')] = t /\ tries' # <<>>
      /\ \A i \in 1..Len(tries) : tries'[i] = tries[i]
  BY <1>1 DEF Judged
<1>3. RetryToldWhy'
  <2> SUFFICES ASSUME NEW i \in DOMAIN tries'
               PROVE  tries'[i].told = IF i = 1 THEN None ELSE tries'[i - 1].got
    BY DEF RetryToldWhy
  <2>1. CASE i = Len(tries) + 1
    <3>1. t.told = IF tries = <<>> THEN None ELSE tries[Len(tries)].got
      BY DEF CallsInv, HeartInv
    <3>2. tries'[i] = t /\ (tries = <<>> <=> i = 1) /\ (i # 1 => i - 1 \in 1..Len(tries))
      BY <1>1, <1>2, <2>1
    <3> QED
      BY <1>1, <1>2, <2>1, <3>1, <3>2
  <2>2. CASE i \in 1..Len(tries)
    <3>1. tries[i].told = IF i = 1 THEN None ELSE tries[i - 1].got
      BY <1>1, <2>2 DEF CallsInv, RetryToldWhy
    <3> QED
      BY <1>1, <1>2, <2>2, <3>1
  <2> QED
    BY <1>1, <1>2, <2>1, <2>2
<1>4. t.got = v
  OBVIOUS
<1> HIDE DEF t
<1>5. CASE v \in {"bad", "unparsed"} /\ Len(tries') < Attempts
  <2>1. v \in Told /\ HeartAsks(v) \in CallRow
    BY <1>5, CallerFacts DEF Told
  <2>2. /\ call' = [call EXCEPT !["heart"] = HeartAsks(v)] /\ outcome' = outcome
        /\ reply' = reply /\ active' = active
    BY <1>5 DEF Judged
  <2>3. CallsType'
    BY <1>1, <1>2, <1>5, <2>1, <2>2, CallerFacts DEF CallsInv, CallsType, Attempts
  <2>4. PhaseInv' /\ TaskInv'
    BY <1>1, <2>1, <2>2, CallerFacts, Temperatures DEF CallsInv, PhaseInv, TaskInv
  <2>5. HeartInv'
    BY <1>1, <1>2, <1>4, <1>5, <2>1, <2>2, CallerFacts DEF HeartInv
  <2> QED
    BY <1>3, <2>3, <2>4, <2>5 DEF CallsInv
<1>6. CASE ~(v \in {"bad", "unparsed"} /\ Len(tries') < Attempts)
  <2>1. /\ call' = [call EXCEPT !["heart"] = Idle] /\ outcome' \in {"good", "raised", "fallback"}
        /\ reply' = reply /\ active' = active
    BY <1>6 DEF Judged
  <2>2. CallsType'
    BY <1>1, <1>2, <2>1, CallerFacts DEF CallsInv, CallsType, Attempts
  <2>3. PhaseInv' /\ TaskInv' /\ HeartInv'
    BY <1>1, <2>1, CallerFacts DEF CallsInv, PhaseInv, TaskInv, HeartInv
  <2> QED
    BY <1>3, <2>2, <2>3 DEF CallsInv
<1> QED
  BY <1>5, <1>6

LEMMA RepliedKeeps ==
  ASSUME CallsInv, NEW r \in {"text", "image", "error", "empty"}, Replied(r),
         UNCHANGED <<tries, outcome, active>>
  PROVE  CallsInv'
<1> DEFINE asks == [Idle EXCEPT !.at = "ask", !.phase = "feel"]
<1>1. asks \in CallRow /\ asks.phase = "feel"
  BY TaskAsks
<1> HIDE DEF asks
<1>2. /\ call \in [Caller -> CallRow] /\ call' \in [Caller -> CallRow] /\ reply' = r
      /\ call'["engine"] = Idle /\ call'["heart"] = call["heart"]
      /\ call'["task"] \in {call["task"], asks}
  BY <1>1, CallerFacts DEF CallsInv, CallsType, Replied, asks
<1>3. CallsType'
  BY <1>2 DEF CallsInv, CallsType
<1>4. PhaseInv' /\ TaskInv' /\ HeartInv' /\ RetryToldWhy'
  BY <1>1, <1>2, CallerFacts, Temperatures DEF CallsInv, PhaseInv, TaskInv, HeartInv, RetryToldWhy
<1> QED
  BY <1>3, <1>4 DEF CallsInv

\* A call of c that goes on, or ends, without the others being concerned.
LEMMA GoesOnKeeps ==
  ASSUME CallsInv, NEW c \in {"engine", "task"}, call[c].at # "idle", c \in active,
         NEW row \in CallRow, call' = [call EXCEPT ![c] = row],
         row.at # "idle" => row.phase \in DOMAIN Temperature \cup {"vision"},
         UNCHANGED <<tries, outcome, reply, active>>
  PROVE  CallsInv'
<1>1. /\ call \in [Caller -> CallRow] /\ call' \in [Caller -> CallRow]
      /\ \A d \in Caller : call'[d] = IF d = c THEN row ELSE call[d]
  BY CallerFacts DEF CallsInv, CallsType
<1>2. CallsType'
  BY <1>1 DEF CallsInv, CallsType
<1>3. PhaseInv' /\ HeartInv' /\ RetryToldWhy'
  BY <1>1, CallerFacts DEF CallsInv, PhaseInv, HeartInv, RetryToldWhy
<1>4. TaskInv'
  BY <1>1, CallerFacts DEF CallsInv, TaskInv
<1> QED
  BY <1>2, <1>3, <1>4 DEF CallsInv

LEMMA EngineGoesKeeps ==
  ASSUME CallsInv, "engine" \in active, call["engine"].at # "idle",
         NEW p \in DOMAIN Temperature \cup {"vision"}, EngineGoesTo(p),
         UNCHANGED <<tries, outcome, active>>
  PROVE  CallsInv'
<1> DEFINE row == [call["engine"] EXCEPT !.at = "ask", !.phase = p]
<1>1. call \in [Caller -> CallRow] /\ call["engine"] \in CallRow
  BY CallerFacts DEF CallsInv, CallsType
<1>2. row \in CallRow /\ row.phase = p
  BY <1>1 DEF CallRow
<1>3. call' = [call EXCEPT !["engine"] = row] /\ reply' = reply
  BY <1>1, CallerFacts DEF EngineGoesTo
<1> QED
  BY <1>2, <1>3, GoesOnKeeps

LEMMA TaskGoesKeeps ==
  ASSUME CallsInv, "task" \in active, call["task"].at # "idle", TaskGoesOn,
         UNCHANGED <<tries, outcome, reply, active>>
  PROVE  CallsInv'
<1> DEFINE row == IF call["task"].phase = "feel"
                    THEN [Idle EXCEPT !.at = "ask", !.phase = "extract"] ELSE Idle
<1>1. call \in [Caller -> CallRow]
  BY DEF CallsInv, CallsType
<1>2. row \in CallRow /\ (row.at # "idle" => row.phase \in DOMAIN Temperature)
  BY TaskAsks, CallerFacts
<1>3. call' = [call EXCEPT !["task"] = row]
  BY <1>1, CallerFacts DEF TaskGoesOn
<1> QED
  BY <1>2, <1>3, GoesOnKeeps

LEMMA EngineKeeps ==
  ASSUME CallsInv, "engine" \in active, call["engine"].at # "idle", NEW v,
         AfterKeywords \/ AfterChat(v) \/ AfterDraw(v) \/ EngineRaised,
         UNCHANGED <<tries, outcome, active>>
  PROVE  CallsInv'
<1>1. ASSUME AfterKeywords PROVE CallsInv'
  BY <1>1, EngineGoesKeeps, Temperatures DEF AfterKeywords
<1>2. ASSUME NEW w, AfterDraw(w) PROVE CallsInv'
  BY <1>2, RepliedKeeps DEF AfterDraw
<1>3. ASSUME AfterChat(v) PROVE CallsInv'
  <2>1. EngineGoesTo("draw") \/ Replied("error") \/ Replied("empty") \/ Replied("text")
    BY <1>3 DEF AfterChat
  <2> QED
    BY <2>1, EngineGoesKeeps, RepliedKeeps, Temperatures
<1>4. ASSUME EngineRaised PROVE CallsInv'
  BY <1>1, <1>2, <1>4, EngineGoesKeeps, RepliedKeeps, Temperatures DEF EngineRaised
<1> QED
  BY <1>1, <1>2, <1>3, <1>4

LEMMA ContinueKeeps ==
  ASSUME CallsInv, NEW c \in active, call[c].at # "idle", NEW v \in Value, Continue(c, v),
         active' = active
  PROVE  CallsInv'
BY JudgedKeeps, EngineKeeps, TaskGoesKeeps DEF Continue

LEMMA FailKeeps ==
  ASSUME CallsInv, NEW c \in active, Fail(c)
  PROVE  CallsInv'
<1>1. call[c].at # "idle" /\ active' = active
  BY DEF Fail
<1>2. CASE c = "heart" /\ call' = [call EXCEPT !["heart"] = Idle] /\ outcome' = "raised"
           /\ UNCHANGED <<tries, reply>>
  BY <1>1, <1>2, CallerFacts
     DEF CallsInv, CallsType, PhaseInv, HeartInv, TaskInv, RetryToldWhy
<1>3. CASE c = "heart" /\ Judged("unparsed") /\ UNCHANGED reply
  BY <1>1, <1>3, JudgedKeeps DEF Value
<1>4. CASE c = "engine" /\ EngineRaised /\ UNCHANGED <<tries, outcome>>
  BY <1>1, <1>4, EngineKeeps
<1>5. CASE c = "task" /\ TaskGoesOn /\ UNCHANGED <<tries, outcome, reply>>
  BY <1>1, <1>5, TaskGoesKeeps
<1> QED
  BY <1>2, <1>3, <1>4, <1>5 DEF Fail

--------------------------------------------------------------------------------
(* The steps.                                                                 *)

LEMMA KeyFacts ==
  ASSUME CallsInv, NEW c \in Caller, call[c].at # "idle", Cacheable(c)
  PROVE  /\ Key(c) \in [phase : DOMAIN Temperature, told : Told]
         /\ Temperature[Key(c).phase] <= maxTemperature
BY DEF CallsInv, CallsType, CallRow, PhaseInv, Cacheable, Key

LEMMA FreshFacts ==
  ASSUME CacheInv, NEW k, NEW e \in Fresh(k)
  PROVE  /\ e \in Entry /\ e \in Entries /\ e.key = k /\ e.born <= Ttl /\ e.age = e.born
         /\ Temperature[k.phase] <= maxTemperature
         /\ Good(Append(Without(k), e)) /\ Len(Append(Without(k), e)) <= MaxEntries
<1>1. PICK i \in DOMAIN cache : cache[i] = e /\ e.key = k /\ e.age <= Ttl
  BY DEF Fresh, Entries
<1>2. /\ e \in Entry /\ e.age = e.born /\ Temperature[k.phase] <= maxTemperature
      /\ Len(cache) \in Nat /\ Good(cache) /\ Len(cache) <= MaxEntries
  BY <1>1 DEF CacheInv, Good
<1>3. Good(Append(Without(k), e)) /\ Len(Append(Without(k), e)) = Len(Without(k)) + 1
  BY <1>1, <1>2, PutFacts
<1>4. Len(Without(k)) = Len(cache) - 1
  BY <1>1, <1>2, WithoutFacts
<1>5. Len(Without(k)) + 1 <= MaxEntries
  BY <1>2, <1>4, Constants
<1> QED
  BY <1>1, <1>2, <1>3, <1>5 DEF Fresh

LEMMA AnswerValues ==
  ASSUME NEW phase, NEW v \in Answers(phase)
  PROVE  v \in Value
BY DEF Answers, Value

\* The cache is good in the next state when it is now and the temperature stays.
LEMMA GoodNext ==
  ASSUME Good(cache'), maxTemperature' = maxTemperature, Len(cache') <= MaxEntries
  PROVE  CacheInv'
BY DEF CacheInv, Good

LEMMA HitKeeps ==
  ASSUME IInv, NEW c \in active, Hit(c)
  PROVE  IInv'
<1>1. PICK e \in Fresh(Key(c)) : cache' = Append(Without(Key(c)), e) /\ Continue(c, e.value)
  BY DEF Hit
<1>2. call[c].at # "idle" /\ UNCHANGED <<maxTemperature, active, sane>>
  BY DEF Hit
<1>3. e \in Entry /\ e.value \in Value
  BY <1>1, FreshFacts DEF IInv, Entry
<1>4. Good(cache') /\ Len(cache') <= MaxEntries
  BY <1>1, FreshFacts DEF IInv
<1>5. CacheInv'
  BY <1>2, <1>4, GoodNext
<1>6. CallsInv'
  BY <1>1, <1>2, <1>3, ContinueKeeps DEF IInv
<1> QED
  BY <1>2, <1>5, <1>6 DEF IInv

LEMMA ActiveCallers ==
  ASSUME IInv, NEW c \in active
  PROVE  c \in Caller
BY Constants DEF IInv

\* A call of c that waits from now on.
LEMMA WaitsKeeps ==
  ASSUME CallsInv, NEW c \in Caller, call[c].at = "ask",
         call' \in {[call EXCEPT ![c].at = "wait", ![c].since = 0], [call EXCEPT ![c].at = "wait"]},
         UNCHANGED <<tries, outcome, reply, active>>
  PROVE  CallsInv'
<1> DEFINE row == call'[c]
<1>1. /\ call \in [Caller -> CallRow] /\ call[c] \in CallRow
      /\ \A d \in Caller : d # c => call'[d] = call[d]
      /\ DOMAIN call' = Caller
  BY DEF CallsInv, CallsType
<1>2. /\ row \in CallRow /\ row.at = "wait" /\ row.phase = call[c].phase /\ row.told = call[c].told
  BY <1>1, Constants DEF CallRow
<1>3. call' \in [Caller -> CallRow]
  <2>1. \A d \in Caller : call'[d] \in CallRow
    BY <1>1, <1>2
  <2>2. call' = [d \in Caller |-> call'[d]]
    BY <1>1
  <2> QED
    BY <2>1, <2>2
<1>4. CallsType'
  BY <1>3 DEF CallsInv, CallsType
<1>5. PhaseInv' /\ HeartInv' /\ TaskInv' /\ RetryToldWhy'
  BY <1>1, <1>2, CallerFacts DEF CallsInv, PhaseInv, HeartInv, TaskInv, RetryToldWhy
<1> QED
  BY <1>4, <1>5 DEF CallsInv

LEMMA MissKeeps ==
  ASSUME IInv, NEW c \in active, Miss(c)
  PROVE  IInv'
<1>1. /\ cache' = Without(Key(c)) /\ call[c].at = "ask" /\ c \in Caller
      /\ call' = [call EXCEPT ![c].at = "wait", ![c].since = 0]
      /\ UNCHANGED <<maxTemperature, active, tries, outcome, reply, sane>>
  BY ActiveCallers DEF Miss
<1>2. Good(cache') /\ Len(cache') <= Len(cache) /\ Len(cache) <= MaxEntries
  BY <1>1, WithoutFacts DEF IInv, CacheInv
<1>3. Len(cache') <= MaxEntries
  BY <1>2, Constants DEF IInv, CacheInv, Good
<1>4. CacheInv' /\ CallsInv'
  BY <1>1, <1>2, <1>3, GoodNext, WaitsKeeps DEF IInv
<1> QED
  BY <1>1, <1>4 DEF IInv

LEMMA BypassKeeps ==
  ASSUME IInv, NEW c \in active, Bypass(c)
  PROVE  IInv'
<1>1. /\ call[c].at = "ask" /\ c \in Caller /\ call' = [call EXCEPT ![c].at = "wait"]
      /\ UNCHANGED <<maxTemperature, active, cache, tries, outcome, reply, sane>>
  BY ActiveCallers DEF Bypass
<1>2. CallsInv'
  BY <1>1, WaitsKeeps DEF IInv
<1> QED
  BY <1>1, <1>2 DEF IInv, CacheInv, Good

LEMMA AnswerKeeps ==
  ASSUME IInv, NEW c \in active, NEW v, Answer(c, v)
  PROVE  IInv'
<1>1. /\ call[c].at # "idle" /\ c \in Caller /\ v \in Value /\ Continue(c, v)
      /\ cache' = IF Cacheable(c) THEN Stored(Key(c), v, call[c].since) ELSE cache
      /\ UNCHANGED <<maxTemperature, active, sane>>
  BY ActiveCallers, AnswerValues DEF Answer
<1>2. CallsInv'
  BY <1>1, ContinueKeeps DEF IInv
<1>3. call[c].since \in 0..(Ttl + 1)
  BY <1>1 DEF IInv, CallsInv, CallsType, CallRow
<1>4. CASE Cacheable(c)
  <2>1. Good(cache') /\ Len(cache') <= MaxEntries
    BY <1>1, <1>3, <1>4, KeyFacts, StoredFacts DEF IInv
  <2> QED
    BY <1>1, <1>2, <2>1, GoodNext DEF IInv
<1>5. CASE ~Cacheable(c)
  BY <1>1, <1>2, <1>5 DEF IInv, CacheInv, Good
<1> QED
  BY <1>4, <1>5

LEMMA StartKeeps ==
  ASSUME IInv, StartEvaluation \/ StartAnswer \/ StartTask
  PROVE  IInv'
<1>1. /\ call \in [Caller -> CallRow] /\ Len(tries) \in Nat
      /\ UNCHANGED <<maxTemperature, active, cache, outcome, reply, sane>>
  <2>1. call \in [Caller -> CallRow] /\ Len(tries) \in Nat
    BY DEF IInv, CallsInv, CallsType
  <2> QED
    BY <2>1 DEF StartEvaluation, StartAnswer, StartTask
<1>2. CASE StartEvaluation
  <2>1. call' = [call EXCEPT !["heart"] = HeartAsks(None)] /\ tries' = <<>>
    BY <1>2 DEF StartEvaluation
  <2>2. CallsType'
    BY <1>1, <2>1, CallerFacts DEF IInv, CallsInv, CallsType, Attempts
  <2>3. PhaseInv' /\ HeartInv' /\ TaskInv' /\ RetryToldWhy'
    BY <1>1, <2>1, CallerFacts, Temperatures
       DEF IInv, CallsInv, PhaseInv, HeartInv, TaskInv, RetryToldWhy, Attempts
  <2> QED
    BY <1>1, <2>2, <2>3 DEF IInv, CallsInv, CacheInv, Good
<1>3. CASE StartAnswer
  <2>1. PICK images \in BOOLEAN : call' = [call EXCEPT !["engine"] =
          [Idle EXCEPT !.at = "ask", !.phase = "keywords", !.images = images]]
    BY <1>3 DEF StartAnswer
  <2> DEFINE row == [Idle EXCEPT !.at = "ask", !.phase = "keywords", !.images = images]
  <2>2. ASSUME NEW r \in CallRow
        PROVE  /\ [r EXCEPT !.at = "ask", !.phase = "keywords", !.images = images] \in CallRow
               /\ [r EXCEPT !.at = "ask", !.phase = "keywords", !.images = images].phase
                    = "keywords"
    BY Temperatures DEF CallRow
  <2>3. row \in CallRow /\ row.phase \in DOMAIN Temperature
    BY <2>2, Temperatures, CallerFacts
  <2> HIDE DEF row
  <2>4. /\ call' \in [Caller -> CallRow] /\ call'["task"].at = "idle" /\ tries' = tries
        /\ \A d \in Caller : call'[d] = IF d = "engine" THEN row ELSE call[d]
    BY <1>1, <1>3, <2>1, <2>3, CallerFacts DEF StartAnswer, row
  <2>5. CallsType' /\ PhaseInv' /\ HeartInv' /\ TaskInv' /\ RetryToldWhy'
    BY <1>1, <2>3, <2>4, CallerFacts
       DEF IInv, CallsInv, CallsType, PhaseInv, HeartInv, TaskInv, RetryToldWhy
  <2> QED
    BY <1>1, <2>5 DEF IInv, CallsInv, CacheInv, Good
<1>4. CASE StartTask
  <2> DEFINE row == [Idle EXCEPT !.at = "ask", !.phase = "feel"]
  <2>1. row \in CallRow /\ row.phase \in DOMAIN Temperature
    BY TaskAsks
  <2>2. call' = [call EXCEPT !["task"] = row] /\ "engine" \notin active /\ tries' = tries
    BY <1>4 DEF StartTask
  <2> HIDE DEF row
  <2>3. CallsType' /\ PhaseInv' /\ HeartInv' /\ TaskInv' /\ RetryToldWhy'
    BY <1>1, <2>1, <2>2, CallerFacts
       DEF IInv, CallsInv, CallsType, PhaseInv, HeartInv, TaskInv, RetryToldWhy
  <2> QED
    BY <1>1, <2>3 DEF IInv, CallsInv, CacheInv, Good
<1> QED
  BY <1>2, <1>3, <1>4

LEMMA OlderFacts ==
  ASSUME NEW a \in 0..(Ttl + 1)
  PROVE  Older(a) \in 0..(Ttl + 1)
BY Constants DEF Older

LEMMA TickKeeps ==
  ASSUME IInv, Tick
  PROVE  IInv'
<1>1. /\ cache \in Seq(Entry) /\ Len(cache) \in Nat /\ DOMAIN cache = 1..Len(cache)
      /\ call \in [Caller -> CallRow]
      /\ UNCHANGED <<maxTemperature, active, tries, outcome, reply, sane>>
  <2>1. cache \in Seq(Entry) /\ call \in [Caller -> CallRow]
    BY DEF IInv, CacheInv, Good, CallsInv, CallsType
  <2>2. UNCHANGED <<maxTemperature, active, tries, outcome, reply, sane>>
    BY DEF Tick
  <2>3. Len(cache) \in Nat /\ DOMAIN cache = 1..Len(cache)
    BY <2>1
  <2> QED
    BY <2>1, <2>2, <2>3
<1>2. ASSUME NEW i \in DOMAIN cache
      PROVE  /\ [cache[i] EXCEPT !.age = Older(@), !.born = Older(@)] \in Entry
             /\ cache'[i].key = cache[i].key
             /\ cache'[i].age = Older(cache[i].age) /\ cache'[i].born = Older(cache[i].born)
  <2>1. cache[i] \in Entry
    BY <1>1
  <2>2. Older(cache[i].age) \in 0..(Ttl + 1) /\ Older(cache[i].born) \in 0..(Ttl + 1)
    BY <2>1, OlderFacts DEF Entry
  <2>3. cache'[i] = [cache[i] EXCEPT !.age = Older(@), !.born = Older(@)]
    BY DEF Tick
  <2> QED
    BY <2>1, <2>2, <2>3 DEF Entry
<1>3. cache' \in Seq(Entry) /\ Len(cache') = Len(cache) /\ DOMAIN cache' = DOMAIN cache
  <2> DEFINE es == [i \in DOMAIN cache |->
                      [cache[i] EXCEPT !.age = Older(@), !.born = Older(@)]]
  <2>1. es \in [1..Len(cache) -> Entry] /\ cache' = es
    BY <1>1, <1>2 DEF Tick
  <2> HIDE DEF es
  <2>2. es \in Seq(Entry) /\ Len(es) = Len(cache) /\ DOMAIN es = 1..Len(cache)
    BY <1>1, <2>1
  <2> QED
    BY <1>1, <2>1, <2>2
<1>4. Good(cache') /\ Len(cache') <= MaxEntries
  BY <1>2, <1>3 DEF IInv, CacheInv, Good
<1>5. ASSUME NEW c \in Caller
      PROVE  /\ call'[c] \in CallRow /\ call'[c].at = call[c].at /\ call'[c].phase = call[c].phase
             /\ call'[c].told = call[c].told
  <2>1. call[c] \in CallRow /\ Older(call[c].since) \in 0..(Ttl + 1)
    BY <1>1, OlderFacts DEF CallRow
  <2>2. call'[c] = IF call[c].at = "wait" /\ Cacheable(c)
                     THEN [call[c] EXCEPT !.since = Older(@)] ELSE call[c]
    BY DEF Tick
  <2> QED
    BY <2>1, <2>2 DEF CallRow
<1>6. call' \in [Caller -> CallRow]
  BY <1>5 DEF Tick
<1>7. CallsType' /\ PhaseInv' /\ HeartInv' /\ TaskInv' /\ RetryToldWhy'
  BY <1>1, <1>5, <1>6, CallerFacts
     DEF IInv, CallsInv, CallsType, PhaseInv, HeartInv, TaskInv, RetryToldWhy
<1> QED
  BY <1>1, <1>4, <1>7, GoodNext DEF IInv, CallsInv

LEMMA StepKeeps ==
  ASSUME IInv, [Next]_vars
  PROVE  IInv'
<1>1. CASE StartEvaluation \/ StartAnswer \/ StartTask
  BY <1>1, StartKeeps
<1>2. ASSUME NEW c \in active, LookUp(c) PROVE IInv'
  BY <1>2, HitKeeps, MissKeeps, BypassKeeps DEF LookUp
<1>3. ASSUME NEW c \in active, Respond(c) PROVE IInv'
  <2>1. CASE Fail(c)
    <3>1. UNCHANGED <<maxTemperature, active, cache, sane>>
      BY <2>1 DEF Fail
    <3>2. CallsInv'
      BY <2>1, FailKeeps DEF IInv
    <3> QED
      BY <3>1, <3>2 DEF IInv, CacheInv, Good
  <2>2. CASE \E v \in Answers(call[c].phase) : Answer(c, v)
    BY <2>2, AnswerKeeps
  <2> QED
    BY <1>3, <2>1, <2>2 DEF Respond
<1>4. CASE Tick
  BY <1>4, TickKeeps
<1>5. CASE Mend \/ UNCHANGED vars
  <2>1. /\ UNCHANGED <<maxTemperature, active, cache, call, tries, outcome, reply>>
        /\ sane' \in BOOLEAN
    BY <1>5 DEF Mend, vars, IInv
  <2> QED
    BY <2>1 DEF IInv, CallsInv, CallsType, PhaseInv, HeartInv, TaskInv, RetryToldWhy, CacheInv,
                Good, Cacheable
<1> QED
  BY <1>1, <1>2, <1>3, <1>4, <1>5 DEF Next

LEMMA InitHolds == Init => IInv
<1> SUFFICES ASSUME Init PROVE IInv
  OBVIOUS
<1>1. Good(cache) /\ Len(cache) <= MaxEntries
  BY Constants DEF Init, Good
<1>2. CallsType /\ PhaseInv /\ HeartInv /\ TaskInv /\ RetryToldWhy
  BY CallerFacts DEF Init, CallsType, PhaseInv, HeartInv, TaskInv, RetryToldWhy, Attempts
<1> QED
  BY <1>1, <1>2 DEF Init, IInv, CallsInv, CacheInv

--------------------------------------------------------------------------------
(* The theorems.                                                              *)

\* The strengthening that every step keeps.
THEOREM InductiveInvariant == Spec => []IInv
BY InitHolds, StepKeeps, PTL DEF Spec

\* The types; the cache is within its limit, without two entries of a key, and without an
\* answer of a call that is too warm for it (CachingBackend.generate).
THEOREM TypeCorrect == Spec => []TypeOK
<1>1. IInv => TypeOK
  BY DEF IInv, TypeOK, CallsInv, CallsType, CacheInv, Good
<1> QED
  BY <1>1, InductiveInvariant, PTL

\* A retry of the heartbeat is told of the failure of the attempt before it
\* (validated_ai_json).
THEOREM RetryAlwaysToldWhy == Spec => []RetryToldWhy
<1>1. IInv => RetryToldWhy
  BY DEF IInv, CallsInv
<1> QED
  BY <1>1, InductiveInvariant, PTL

\* Going on with a call leaves the calls of the others that are under way.
LEMMA OthersKept ==
  ASSUME CallsInv, NEW c \in active, call[c].at # "idle", NEW v,
         Continue(c, v) \/ Fail(c), NEW d \in Caller, d # c, call[d].at # "idle"
  PROVE  call'[d] = call[d]
<1>1. call \in [Caller -> CallRow]
  BY DEF CallsInv, CallsType
<1>2. ASSUME NEW w, Judged(w), c = "heart" PROVE call'[d] = call[d]
  BY <1>1, <1>2 DEF Judged
<1>3. ASSUME TaskGoesOn, c = "task" PROVE call'[d] = call[d]
  BY <1>1, <1>3 DEF TaskGoesOn
<1>4. ASSUME c = "engine" PROVE d # "task" /\ d # "engine"
  BY <1>4 DEF CallsInv, TaskInv
<1>5. ASSUME NEW w, AfterKeywords \/ AfterChat(w) \/ AfterDraw(w), c = "engine"
      PROVE  call'[d] = call[d]
  <2>1. (\E p : EngineGoesTo(p)) \/ (\E r : Replied(r))
    BY <1>5 DEF AfterKeywords, AfterChat, AfterDraw
  <2> QED
    BY <1>1, <1>4, <1>5, <2>1 DEF EngineGoesTo, Replied
<1>6. ASSUME EngineRaised, c = "engine" PROVE call'[d] = call[d]
  <2>1. (\E p : EngineGoesTo(p)) \/ (\E r : Replied(r))
    BY <1>6 DEF EngineRaised, AfterKeywords, AfterDraw
  <2> QED
    BY <1>1, <1>4, <1>6, <2>1 DEF EngineGoesTo, Replied
<1>7. CASE Continue(c, v)
  BY <1>2, <1>3, <1>5, <1>7 DEF Continue
<1>8. CASE Fail(c)
  <2>1. CASE c = "heart" /\ call' = [call EXCEPT !["heart"] = Idle]
    BY <1>1, <2>1
  <2> QED
    BY <1>2, <1>3, <1>6, <1>8, <2>1 DEF Fail
<1> QED
  BY <1>7, <1>8

\* What a caller gets from the cache is no older than allowed, counted from the request
\* that was made for it (CachingBackend.generate).
THEOREM AnswersAlwaysFresh == Spec => AnswersAreFresh
<1> DEFINE FreshStep ==
      \A c \in Caller :
        call[c].at = "ask" /\ call'[c] # call[c] /\ call'[c].at # "wait"
          => \E e \in Entries : e.key = Key(c) /\ e.born <= Ttl
<1>1. ASSUME IInv, [Next]_vars PROVE [FreshStep]_vars
  <2> SUFFICES ASSUME Next, NEW c \in Caller,
                      call[c].at = "ask", call'[c] # call[c], call'[c].at # "wait"
               PROVE  \E e \in Entries : e.key = Key(c) /\ e.born <= Ttl
    BY <1>1
  <2>1. call \in [Caller -> CallRow] /\ CallsInv /\ CacheInv
    BY <1>1 DEF IInv, CallsInv, CallsType
  <2>2. ~(StartEvaluation \/ StartAnswer \/ StartTask)
    BY <2>1 DEF StartEvaluation, StartAnswer, StartTask
  <2>3. ~Tick /\ ~Mend
    BY DEF Tick, Mend
  <2>4. PICK d \in active : LookUp(d) \/ Respond(d)
    BY <2>2, <2>3 DEF Next
  <2>5. ~Miss(d) /\ ~Bypass(d)
    BY <1>1, <2>1, ActiveCallers DEF Miss, Bypass, CallRow
  <2>6. CASE c = d
    <3>1. ~Respond(d)
      BY <2>6 DEF Respond, Fail, Answer
    <3>2. Hit(d)
      BY <2>4, <2>5, <3>1 DEF LookUp
    <3>3. PICK e \in Fresh(Key(c)) : TRUE
      BY <2>6, <3>2 DEF Hit
    <3> QED
      BY <2>1, <3>3, FreshFacts
  <2>7. CASE c # d
    <3>1. call[d].at # "idle"
      BY <2>4 DEF LookUp, Hit, Miss, Bypass, Respond, Fail, Answer
    <3>2. Fail(d) \/ \E v : Continue(d, v)
      BY <2>4, <2>5 DEF LookUp, Hit, Respond, Answer
    <3> QED
      BY <2>1, <2>7, <3>1, <3>2, OthersKept
  <2> QED
    BY <2>6, <2>7
<1>2. IInv /\ [Next]_vars => [FreshStep]_vars
  BY <1>1
<1>3. AnswersAreFresh <=> [][FreshStep]_vars
  BY DEF AnswersAreFresh
<1> QED
  BY <1>2, <1>3, InductiveInvariant, PTL DEF Spec

--------------------------------------------------------------------------------
(* The attempts of a call.                                                    *)

\* What the model may say to the heartbeat.
EvaluationAnswers == {"good", "bad", "unparsed", "odd"}

\* What the cache keeps of the heartbeat was said to it.
Sound(es) == \A i \in DOMAIN es : es[i].key.phase = "evaluation" => es[i].value \in EvaluationAnswers

\* An attempt follows only one that was no use, and the fallback only the last of them.
AttemptsInv ==
  /\ \A i \in DOMAIN tries : i < Len(tries) => tries[i].got \in {"bad", "unparsed"}
  /\ call["heart"].at # "idle" =>
       /\ call["heart"].phase = "evaluation"
       /\ \A i \in DOMAIN tries : tries[i].got \in {"bad", "unparsed"}
  /\ call["heart"].at = "idle" /\ outcome = "fallback" => Len(tries) = Attempts

LEMMA WithoutSound ==
  ASSUME Good(cache), Sound(cache), NEW k
  PROVE  Sound(Without(k))
<1>1. CASE ~ \E i \in DOMAIN cache : cache[i].key = k
  BY <1>1 DEF Without
<1>2. CASE \E i \in DOMAIN cache : cache[i].key = k
  <2> DEFINE n == CHOOSE i \in DOMAIN cache : cache[i].key = k
             es == RemoveAt(cache, n)
  <2>1. n \in DOMAIN cache /\ Without(k) = es /\ cache \in Seq(Entry)
    BY <1>2 DEF Without, Good
  <2> HIDE DEF n
  <2>2. /\ es \in Seq(Entry) /\ Len(es) = Len(cache) - 1
        /\ \A i \in 1..(Len(cache) - 1) : es[i] = cache[IF i < n THEN i ELSE i + 1]
    BY <2>1, Removed
  <2> HIDE DEF es
  <2>3. DOMAIN es = 1..(Len(cache) - 1) /\ DOMAIN cache = 1..Len(cache) /\ Len(cache) \in Nat
    BY <2>1, <2>2
  <2>4. \A i \in DOMAIN es : \E j \in DOMAIN cache : es[i] = cache[j]
    <3> TAKE i \in DOMAIN es
    <3> DEFINE j == IF i < n THEN i ELSE i + 1
    <3>1. j \in DOMAIN cache /\ es[i] = cache[j]
      BY <2>1, <2>2, <2>3
    <3> QED
      BY <3>1
  <2> QED
    BY <2>1, <2>4 DEF Sound
<1> QED
  BY <1>1, <1>2

LEMMA PutSound ==
  ASSUME Good(cache), Sound(cache), NEW k, NEW e \in Entry,
         e.key.phase = "evaluation" => e.value \in EvaluationAnswers
  PROVE  /\ Append(Without(k), e) \in Seq(Entry) /\ Append(Without(k), e) # <<>>
         /\ Sound(Append(Without(k), e))
<1> DEFINE w == Without(k)  es == Append(w, e)
<1>1. w \in Seq(Entry) /\ Sound(w)
  BY WithoutFacts, WithoutSound DEF Good
<1> HIDE DEF w
<1>2. /\ es \in Seq(Entry) /\ Len(es) = Len(w) + 1 /\ DOMAIN es = 1..(Len(w) + 1)
      /\ es[Len(w) + 1] = e /\ \A i \in 1..Len(w) : es[i] = w[i]
      /\ DOMAIN w = 1..Len(w) /\ Len(w) \in Nat
  BY <1>1
<1> HIDE DEF es
<1>3. Sound(es)
  BY <1>1, <1>2 DEF Sound
<1>4. es # <<>>
  BY <1>2
<1> QED
  BY <1>2, <1>3, <1>4 DEF es, w

LEMMA StoredSound ==
  ASSUME Good(cache), Sound(cache), NEW k \in [phase : DOMAIN Temperature, told : Told],
         NEW v \in Value, NEW since \in 0..(Ttl + 1), k.phase = "evaluation" => v \in EvaluationAnswers
  PROVE  Sound(Stored(k, v, since))
<1> DEFINE e == [key |-> k, value |-> v, age |-> since, born |-> since]
           es == Append(Without(k), e)
<1>1. e \in Entry /\ e.key = k /\ e.value = v
  BY DEF Entry
<1>2. Stored(k, v, since) = IF Len(es) > MaxEntries THEN Tail(es) ELSE es
  BY DEF Stored
<1> HIDE DEF e
<1>3. es \in Seq(Entry) /\ es # <<>> /\ Sound(es)
  BY <1>1, PutSound
<1> HIDE DEF es
<1>4. /\ DOMAIN Tail(es) = 1..(Len(es) - 1) /\ DOMAIN es = 1..Len(es) /\ Len(es) \in Nat
      /\ \A i \in 1..(Len(es) - 1) : Tail(es)[i] = es[i + 1]
  BY <1>3
<1>5. Sound(Tail(es))
  BY <1>3, <1>4 DEF Sound
<1> QED
  BY <1>2, <1>3, <1>5

\* An answer to the heartbeat ends its call, or leaves the attempts all without use.
LEMMA JudgedAttempts ==
  ASSUME CallsInv, AttemptsInv, call["heart"].at # "idle", NEW v \in EvaluationAnswers, Judged(v)
  PROVE  AttemptsInv'
<1> DEFINE t == [told |-> call["heart"].told, got |-> v]
<1>1. /\ call \in [Caller -> CallRow] /\ "heart" \in Caller /\ Len(tries) \in Nat /\ Len(tries) < 3
      /\ tries \in Seq([told : Told, got : Value]) /\ t \in [told : Told, got : Value] /\ t.got = v
  BY CallerFacts DEF CallsInv, CallsType, HeartInv, Attempts, CallRow, EvaluationAnswers, Value
<1>2. tries' = Append(tries, t)
  BY DEF Judged
<1> HIDE DEF t
<1>3. /\ Len(tries') = Len(tries) + 1 /\ DOMAIN tries' = 1..(Len(tries) + 1)
      /\ DOMAIN tries = 1..Len(tries) /\ tries'[Len(tries) + 1] = t
      /\ \A i \in 1..Len(tries) : tries'[i] = tries[i]
  BY <1>1, <1>2
<1>4. \A i \in DOMAIN tries' : i < Len(tries') => tries'[i].got \in {"bad", "unparsed"}
  BY <1>1, <1>3 DEF AttemptsInv
<1>5. CASE v \in {"bad", "unparsed"} /\ Len(tries') < Attempts
  <2>1. call' = [call EXCEPT !["heart"] = HeartAsks(v)] /\ HeartAsks(v).phase = "evaluation"
    BY <1>5, CallerFacts DEF Judged, Told
  <2>2. call'["heart"].phase = "evaluation" /\ call'["heart"].at = "ask"
    BY <1>1, <1>5, <2>1, CallerFacts DEF Told
  <2>3. \A i \in DOMAIN tries' : tries'[i].got \in {"bad", "unparsed"}
    BY <1>1, <1>3, <1>4, <1>5
  <2> QED
    BY <1>4, <2>2, <2>3 DEF AttemptsInv
<1>6. CASE ~(v \in {"bad", "unparsed"} /\ Len(tries') < Attempts)
  <2>1. /\ call' = [call EXCEPT !["heart"] = Idle]
        /\ outcome' = CASE v = "good" -> "good" [] v = "odd" -> "raised" [] OTHER -> "fallback"
    BY <1>6 DEF Judged
  <2>2. call'["heart"].at = "idle"
    BY <1>1, <2>1, CallerFacts
  <2>3. outcome' = "fallback" => Len(tries') = Attempts
    <3>1. outcome' = "fallback" => v \notin {"good", "odd"}
      BY <2>1
    <3> QED
      BY <1>1, <1>3, <1>6, <3>1 DEF EvaluationAnswers, Attempts
  <2> QED
    BY <1>4, <2>2, <2>3 DEF AttemptsInv
<1> QED
  BY <1>5, <1>6

\* The engine and its task leave the call of the heartbeat alone.
LEMMA HeartLeftAlone ==
  ASSUME CallsInv, NEW c \in {"engine", "task"}, NEW v, Continue(c, v) \/ Fail(c)
  PROVE  call'["heart"] = call["heart"] /\ tries' = tries /\ outcome' = outcome
<1>1. call \in [Caller -> CallRow] /\ "heart" \in Caller
  BY CallerFacts DEF CallsInv, CallsType
<1>2. tries' = tries /\ outcome' = outcome
  BY DEF Continue, Fail
<1>3. (\E p : EngineGoesTo(p)) \/ (\E r : Replied(r)) \/ TaskGoesOn
  BY DEF Continue, Fail, EngineRaised, AfterKeywords, AfterChat, AfterDraw
<1>4. call'["heart"] = call["heart"]
  BY <1>1, <1>3 DEF EngineGoesTo, Replied, TaskGoesOn
<1> QED
  BY <1>2, <1>4

LEMMA AttemptsStep ==
  ASSUME IInv, AttemptsInv, Sound(cache), [Next]_vars
  PROVE  AttemptsInv' /\ Sound(cache')
<1>0. /\ CallsInv /\ Good(cache) /\ call \in [Caller -> CallRow] /\ "heart" \in Caller
      /\ active \subseteq Caller
  BY CallerFacts, Constants DEF IInv, CallsInv, CallsType, CacheInv
\* A step that leaves the attempts alone, or lets the heartbeat wait for its answer.
<1>1. ASSUME tries' = tries, outcome' = outcome,
             \/ call'["heart"] = call["heart"]
             \/ /\ call["heart"].at # "idle" /\ call'["heart"].at # "idle"
                /\ call'["heart"].phase = call["heart"].phase
      PROVE  AttemptsInv'
  BY <1>1 DEF AttemptsInv
<1>2. ASSUME NEW c \in active, NEW v, Continue(c, v) \/ Fail(c), call[c].at # "idle",
             c = "heart" => v \in EvaluationAnswers
      PROVE  AttemptsInv'
  <2>1. CASE c = "heart"
    <3>1. ASSUME call' = [call EXCEPT !["heart"] = Idle], outcome' = "raised", tries' = tries
          PROVE  AttemptsInv'
      <4>1. call'["heart"].at = "idle"
        BY <1>0, <3>1, CallerFacts
      <4> QED
        BY <3>1, <4>1 DEF AttemptsInv
    <3>2. CASE Continue(c, v)
      <4>1. Judged(v)
        BY <2>1, <3>2 DEF Continue
      <4> QED
        BY <1>0, <1>2, <2>1, <4>1, JudgedAttempts
    <3>3. CASE Fail(c)
      <4>1. \/ Judged("unparsed")
            \/ call' = [call EXCEPT !["heart"] = Idle] /\ outcome' = "raised" /\ tries' = tries
        BY <2>1, <3>3 DEF Fail
      <4>2. "unparsed" \in EvaluationAnswers
        BY DEF EvaluationAnswers
      <4> QED
        BY <1>0, <1>2, <2>1, <3>1, <4>1, <4>2, JudgedAttempts
    <3> QED
      BY <1>2, <3>2, <3>3
  <2>2. CASE c # "heart"
    <3>1. c \in {"engine", "task"}
      BY <1>0, <2>2 DEF Caller
    <3> QED
      BY <1>0, <1>1, <1>2, <3>1, HeartLeftAlone
  <2> QED
    BY <2>1, <2>2
<1>3. ASSUME NEW c \in active, Hit(c) PROVE AttemptsInv' /\ Sound(cache')
  <2>1. PICK e \in Fresh(Key(c)) : cache' = Append(Without(Key(c)), e) /\ Continue(c, e.value)
    BY <1>3 DEF Hit
  <2>2. e \in Entry /\ e.key = Key(c)
    BY <2>1, FreshFacts DEF IInv
  <2>3. PICK i \in DOMAIN cache : cache[i] = e
    BY DEF Fresh, Entries
  <2>4. e.key.phase = "evaluation" => e.value \in EvaluationAnswers
    BY <2>3 DEF Sound
  <2>5. c = "heart" => Key(c).phase = "evaluation"
    BY <1>3 DEF Hit, Key, AttemptsInv
  <2>6. call[c].at # "idle"
    BY <1>3 DEF Hit
  <2> QED
    BY <1>0, <1>2, <2>1, <2>2, <2>4, <2>5, <2>6, PutSound
<1>4. ASSUME NEW c \in active, Miss(c) \/ Bypass(c) PROVE AttemptsInv' /\ Sound(cache')
  <2>1. /\ tries' = tries /\ outcome' = outcome /\ cache' \in {cache, Without(Key(c))}
        /\ call' \in {[call EXCEPT ![c].at = "wait", ![c].since = 0], [call EXCEPT ![c].at = "wait"]}
        /\ call[c].at = "ask"
    BY <1>4 DEF Miss, Bypass
  <2>2. \/ call'["heart"] = call["heart"]
        \/ /\ call["heart"].at # "idle" /\ call'["heart"].at # "idle"
           /\ call'["heart"].phase = call["heart"].phase
    <3>1. call["heart"] \in CallRow
      BY <1>0
    <3> QED
      BY <1>0, <2>1, <3>1 DEF CallRow
  <2> QED
    BY <1>0, <1>1, <2>1, <2>2, WithoutSound
<1>5. ASSUME NEW c \in active, Respond(c) PROVE AttemptsInv' /\ Sound(cache')
  <2>1. CASE Fail(c)
    <3>1. "good" \in EvaluationAnswers /\ cache' = cache /\ call[c].at # "idle"
      BY <2>1 DEF EvaluationAnswers, Fail
    <3> QED
      BY <1>2, <2>1, <3>1
  <2>2. ASSUME NEW v, Answer(c, v) PROVE AttemptsInv' /\ Sound(cache')
    <3>1. /\ call[c].at # "idle" /\ v \in Answers(call[c].phase) /\ Continue(c, v) /\ v \in Value
          /\ cache' = IF Cacheable(c) THEN Stored(Key(c), v, call[c].since) ELSE cache
      BY <2>2, AnswerValues DEF Answer
    <3>2. call[c].phase = "evaluation" => v \in EvaluationAnswers
      BY <3>1 DEF Answers, EvaluationAnswers
    <3>3. c = "heart" => call[c].phase = "evaluation"
      BY <3>1 DEF AttemptsInv
    <3>4. call[c].since \in 0..(Ttl + 1) /\ Key(c).phase = call[c].phase /\ c \in Caller
      BY <1>0 DEF CallRow, Key
    <3>5. Cacheable(c) => Sound(Stored(Key(c), v, call[c].since))
      BY <1>0, <3>1, <3>2, <3>4, KeyFacts, StoredSound
    <3> QED
      BY <1>2, <3>1, <3>2, <3>3, <3>5
  <2> QED
    BY <1>5, <2>1, <2>2 DEF Respond
<1>6. CASE StartEvaluation
  <2>1. /\ call'["heart"] = HeartAsks(None) /\ tries' = <<>> /\ cache' = cache
    BY <1>0, <1>6 DEF StartEvaluation
  <2>2. call'["heart"].phase = "evaluation" /\ call'["heart"].at = "ask"
    BY <2>1, CallerFacts
  <2>3. DOMAIN tries' = {}
    BY <2>1
  <2> QED
    BY <2>1, <2>2, <2>3 DEF AttemptsInv
<1>7. CASE StartAnswer \/ StartTask \/ Mend \/ UNCHANGED vars
  <2>1. tries' = tries /\ outcome' = outcome /\ cache' = cache /\ call'["heart"] = call["heart"]
    BY <1>0, <1>7 DEF StartAnswer, StartTask, Mend, vars
  <2> QED
    BY <1>1, <2>1
<1>8. CASE Tick
  <2>1. /\ tries' = tries /\ outcome' = outcome
        /\ call'["heart"].at = call["heart"].at /\ call'["heart"].phase = call["heart"].phase
    <3>1. call["heart"] \in CallRow
      BY <1>0
    <3>2. call'["heart"] \in {call["heart"], [call["heart"] EXCEPT !.since = Older(call["heart"].since)]}
      BY <1>0, <1>8 DEF Tick
    <3>3. UNCHANGED <<tries, outcome>>
      BY <1>8 DEF Tick
    <3>4. /\ call'["heart"].at = call["heart"].at
          /\ call'["heart"].phase = call["heart"].phase
      BY <3>1, <3>2 DEF CallRow
    <3> QED
      BY <3>3, <3>4
  <2>2. AttemptsInv'
    BY <2>1 DEF AttemptsInv
  <2>3. /\ DOMAIN cache' = DOMAIN cache
        /\ \A i \in DOMAIN cache : cache'[i].key = cache[i].key /\ cache'[i].value = cache[i].value
    <3>1. \A i \in DOMAIN cache : cache[i] \in Entry
      BY <1>0 DEF Good
    <3>2. DOMAIN cache' = DOMAIN cache
      BY <1>8 DEF Tick
    <3>3. \A i \in DOMAIN cache : cache'[i].key = cache[i].key /\ cache'[i].value = cache[i].value
      BY <1>8, <3>1 DEF Tick, Entry
    <3> QED
      BY <3>2, <3>3
  <2> QED
    BY <2>2, <2>3 DEF Sound
<1> QED
  BY <1>3, <1>4, <1>5, <1>6, <1>7, <1>8 DEF Next, LookUp

\* The heartbeat gets the fallback only when all its attempts were no use, and nothing that
\* was asked of another, or lay in the cache, counts as one (validated_ai_json).
THEOREM FallbackAlwaysLast == Spec => []FallbackIsLast
<1>1. Init => AttemptsInv /\ Sound(cache)
  BY AiConstants, CallerFacts DEF AiConstants, Init, AttemptsInv, Sound
<1>2. IInv /\ AttemptsInv /\ Sound(cache) /\ [Next]_vars => AttemptsInv' /\ Sound(cache)'
  BY AttemptsStep
<1>3. AttemptsInv => FallbackIsLast
  BY DEF AttemptsInv, FallbackIsLast
<1> QED
  BY <1>1, <1>2, <1>3, InductiveInvariant, PTL DEF Spec
================================================================================
