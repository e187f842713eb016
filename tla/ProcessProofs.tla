----------------------------- MODULE ProcessProofs -----------------------------
(******************************************************************************)
(* Proofs about Process, for any schema, any bundled skills, any emotions and *)
(* any number of starts, kills and changes.                                   *)
(******************************************************************************)
EXTENDS Process, TLAPS

\* The phases in which the data of soul.yaml are in memory.
Loaded ==
  {"write soul", "version", "migrate", "sync", "running", "save", "stop heartbeat",
   "stop gateway", "stop queue", "aclose", "close", "ended"}

\* The phases in which the rules have been read.
Ruled == Loaded \cup {"soul"}

\* soul_core.yaml is whole, or was torn.
CoreInv ==
  /\ coreFile \notin {None, "whole"} => phase = "write core" \/ "core" \in torn
  /\ phase \in Ruled => rules \/ "core" \in torn

\* The name the user gave is in memory and in soul.yaml, unless the file was torn.
SoulInv ==
  /\ phase \in Loaded => soul.name = given \/ "soul" \in torn
  /\ phase \notin Loaded => "unsaved" \notin torn
  /\ soulFile = None => given = "default" /\ phase \notin Loaded
  /\ soulFile = Empty =>
       phase \in {"write soul", "save"} \/ "unsaved" \in torn \/ "soul" \in torn
  /\ soulFile \notin {None, Empty} => soulFile.name = given \/ "soul" \in torn

\* What a schema of a version must have; half says that a kill tore the base tables.
Complete(tabs, ver, half) ==
  /\ ver = Latest => Elements(Vector) \subseteq tabs
  /\ "users" \in tabs \/ ver > 0 => Elements(Base) \subseteq tabs \/ half

Creating == phase = "migrate" /\ version = 0 /\ statement \in 1..(Len(Base) - 1)

\* The statements of the migration in progress have made their tables.
SchemaInv ==
  /\ Complete(tables, version, "tables" \in torn \/ Creating)
  /\ backup # None => Complete(backup.tables, backup.version, backup.half)
  /\ version < Latest =>
       \A i \in 1..statement :
         i \in DOMAIN Script[version + 1] /\ Script[version + 1][i] \in tables
  /\ statement # 0 => phase = "migrate" /\ version < Latest

\* The store is opened after the migrations and closed before anything is restored.
OpenInv ==
  /\ open => version = Latest /\ phase # "off"
  /\ phase \in {"sync", "running", "save"} => version = Latest

\* A skill that is not whole is being copied, or a kill or a full disk tore it.
SkillInv ==
  /\ \A s \in Skill : Copying(s) => phase = "sync"
  /\ phase \in {"running", "save"} => \A s \in Skill : skills[s] # "absent"

\* What soul.yaml says to a start that reads it.
Saved == IF soulFile = Empty THEN EmptySoul ELSE soulFile

\* From the reading of soul.yaml on, unless the last save failed, the file says what is in
\* memory; only inside a save it is behind.
MirrorInv ==
  phase \in {"version", "migrate", "sync", "running"} /\ "unsaved" \notin torn => soul = Saved

\* The store is open from the start of the services to its close, the services that use it are
\* stopped before, and only an exception of the AI backend goes past its close.
UseInv ==
  /\ phase \in {"sync", "running", "save"} \cup DOMAIN NextStep \cup {"aclose", "close"} => open
  /\ "heartbeat" \in alive => phase \in {"running", "save", "stop heartbeat"}
  /\ "queue" \in alive => phase \in {"running", "save"} \cup DOMAIN NextStep
  /\ raised => phase = "ended"
  /\ phase = "ended" /\ mode # "left" => open = raised

IInv ==
  TypeOK /\ CoreInv /\ SoulInv /\ SchemaInv /\ OpenInv /\ SkillInv /\ MirrorInv /\ UseInv

--------------------------------------------------------------------------------

LEMMA Constants ==
  /\ None # Empty /\ None \notin SoulData /\ Empty \notin SoulData
  /\ None # "whole" /\ Empty # "whole"
  /\ "core" \notin Skill /\ "soul" \notin Skill /\ "tables" \notin Skill /\ "unsaved" \notin Skill
  /\ MaxUpdates \in Nat /\ MaxKills \in Nat /\ MaxRuns \in Nat
  /\ Calm \in Feeling /\ NoFeeling \notin Feeling
  /\ Top \in Nat /\ Top > 0 /\ Baseline \in 0..Top /\ Threshold \in Nat /\ Threshold > 0
BY ConstantsOK, SoulConstants DEF ConstantsOK, SoulConstants

LEMMA Scripts ==
  /\ Latest = 2 /\ Script[1] = Base \o Vector /\ Script[2] = Vector
  /\ Len(Base) \in Nat /\ Len(Base) > 0 /\ Len(Vector) \in Nat
  /\ DOMAIN Base = 1..Len(Base) /\ DOMAIN Vector = 1..Len(Vector)
  /\ Base[1] = "users" /\ "users" \notin Elements(Vector)
  /\ DOMAIN Script[1] = 1..(Len(Base) + Len(Vector)) /\ DOMAIN Script[2] = 1..Len(Vector)
  /\ Len(Script[1]) = Len(Base) + Len(Vector) /\ Len(Script[2]) = Len(Vector)
  /\ \A i \in 1..Len(Base) : Script[1][i] = Base[i]
  /\ \A i \in 1..Len(Vector) : Script[1][Len(Base) + i] = Vector[i]
  /\ \A v \in {1, 2} : \A i \in DOMAIN Script[v] : Script[v][i] \in AllTables
<1>1. Base \in Seq(STRING) /\ Vector \in Seq(STRING) /\ Base # <<>> /\ Base[1] = "users"
      /\ Elements(Base) \cap Elements(Vector) = {}
  BY ConstantsOK DEF ConstantsOK
<1>2. Latest = 2 /\ Script[1] = Base \o Vector /\ Script[2] = Vector
  BY DEF Latest, Script
<1>3. /\ Len(Base) \in Nat /\ Len(Base) > 0 /\ Len(Vector) \in Nat
      /\ DOMAIN Base = 1..Len(Base) /\ DOMAIN Vector = 1..Len(Vector)
  BY <1>1
<1>4. "users" \in Elements(Base)
  BY <1>1, <1>3 DEF Elements
<1>5. /\ DOMAIN (Base \o Vector) = 1..(Len(Base) + Len(Vector))
      /\ Len(Base \o Vector) = Len(Base) + Len(Vector)
      /\ \A i \in 1..Len(Base) : (Base \o Vector)[i] = Base[i]
      /\ \A i \in 1..Len(Vector) : (Base \o Vector)[Len(Base) + i] = Vector[i]
  BY <1>1, <1>3
<1>6. \A i \in 1..(Len(Base) + Len(Vector)) : (Base \o Vector)[i] \in AllTables
  <2> SUFFICES ASSUME NEW i \in 1..(Len(Base) + Len(Vector))
               PROVE  (Base \o Vector)[i] \in AllTables
    OBVIOUS
  <2>1. CASE i <= Len(Base)
    BY <1>3, <1>5, <2>1 DEF AllTables, Elements
  <2>2. CASE i > Len(Base)
    <3>1. i - Len(Base) \in 1..Len(Vector) /\ Len(Base) + (i - Len(Base)) = i
      BY <1>3, <2>2
    <3>2. (Base \o Vector)[i] = Vector[i - Len(Base)]
      BY <1>5, <3>1
    <3> QED
      BY <1>3, <3>1, <3>2 DEF AllTables, Elements
  <2> QED
    BY <1>3, <2>1, <2>2
<1>7. \A i \in DOMAIN Vector : Vector[i] \in AllTables
  BY DEF AllTables, Elements
<1> QED
  BY <1>1, <1>2, <1>3, <1>4, <1>5, <1>6, <1>7

\* What the operations of Soul make of its data is data of its kind, with the same name.
LEMMA FeltSoul ==
  ASSUME NEW s \in SoulData, NEW e \in Feeling, NEW i \in Intensity
  PROVE  Felt(s, e, i) \in SoulData /\ Felt(s, e, i).name = s.name
<1>1. s.intensity \div 2 \in Intensity
  BY Constants DEF SoulData, Intensity
<1> QED
  BY <1>1 DEF Felt, SoulData

LEMMA DecayedSoul ==
  ASSUME NEW s \in SoulData
  PROVE  Decayed(s) \in SoulData /\ Decayed(s).name = s.name
<1>1. ASSUME NEW r \in SoulData
      PROVE  DecayedPrimary(r) \in SoulData /\ DecayedPrimary(r).name = r.name
  <2>1. CASE r.primary = Calm
    BY <2>1 DEF DecayedPrimary
  <2>2. CASE r.primary # Calm /\ r.intensity <= Baseline + 1
    BY <2>2, Constants DEF DecayedPrimary, SoulData, Intensity
  <2>3. CASE r.primary # Calm /\ ~(r.intensity <= Baseline + 1)
    <3>1. r.intensity - 1 \in Intensity
      BY <2>3, Constants DEF SoulData, Intensity
    <3>2. DecayedPrimary(r) = [r EXCEPT !.intensity = @ - 1]
      BY <2>3 DEF DecayedPrimary
    <3> QED
      BY <3>1, <3>2 DEF SoulData
  <2> QED
    BY <2>1, <2>2, <2>3
<1>2. ASSUME NEW r \in SoulData
      PROVE  DecayedSecondary(r) \in SoulData /\ DecayedSecondary(r).name = r.name
  <2>0. r.trace \in Intensity /\ Top \in Nat /\ Threshold \in Nat
    BY Constants DEF SoulData
  <2>1. CASE r.trace = 0
    BY <2>1 DEF DecayedSecondary
  <2>2. CASE r.trace > 0 /\ r.trace < Threshold + 1
    <3>1. DecayedSecondary(r) = [r EXCEPT !.secondary = NoFeeling, !.trace = 0]
      BY <2>0, <2>2 DEF DecayedSecondary, Intensity
    <3>2. 0 \in Intensity
      BY <2>0 DEF Intensity
    <3> QED
      BY <3>1, <3>2 DEF SoulData
  <2>3. CASE r.trace # 0 /\ ~(r.trace > 0 /\ r.trace < Threshold + 1)
    <3>1. r.trace - 1 \in Intensity
      BY <2>0, <2>3 DEF Intensity
    <3>2. DecayedSecondary(r) = [r EXCEPT !.trace = @ - 1]
      BY <2>3 DEF DecayedSecondary
    <3> QED
      BY <3>1, <3>2 DEF SoulData
  <2> QED
    BY <2>1, <2>2, <2>3
<1> QED
  BY <1>1, <1>2 DEF Decayed

LEMMA MadeSouls ==
  /\ EmptySoul \in SoulData
  /\ \A e \in Feeling : DefaultSoul(e) \in SoulData /\ DefaultSoul(e).name = "default"
<1>1. Top \div 2 \in Intensity /\ Top \div 3 \in Intensity /\ 0 \in Intensity
  BY Constants DEF Intensity
<1> QED
  BY <1>1, Constants DEF EmptySoul, DefaultSoul, SoulData

\* The steps of Next by what they do.
Loading == LoadCore \/ MakeCore \/ WriteCore \/ LoadSoul \/ MakeSoul \/ WriteNewSoul

Migrating == StampLegacy \/ ReadVersion \/ CreateTable \/ RecordVersion \/ Migrated

Serving ==
  (\E s \in Skill : CopySkill(s) \/ SkillCopied(s) \/ CopyFails(s)) \/ StartServices

Living ==
  \/ \E n \in Name : Rename(n)
  \/ \E e \in Feeling, i \in Intensity : Feel(e, i)
  \/ Tick \/ WriteSoul \/ SaveFails

Ending == Signal \/ LeaveChat \/ Stopping \/ GatewayEnds

LEMMA Split ==
  Next =>
    \/ (\E m \in {"server", "cli"} : Start(m))
    \/ Loading \/ Migrating \/ Serving \/ Living \/ Ending
    \/ Exit \/ Kill \/ Backup \/ Restore
BY DEF Next, Starting, Loading, Migrating, Serving, Living, Ending

--------------------------------------------------------------------------------
(* Types.                                                                     *)

LEMMA TypeStart ==
  ASSUME TypeOK, (\E m \in {"server", "cli"} : Start(m)) \/ Loading \/ UNCHANGED vars
  PROVE  TypeOK'
<1>1. CASE \E m \in {"server", "cli"} : Start(m)
  BY <1>1, Constants DEF TypeOK, Start, memory, souls, db, services, Phase
<1>2. CASE Loading
  <2>1. CASE LoadCore \/ MakeCore \/ WriteCore
    BY <2>1 DEF LoadCore, MakeCore, WriteCore, TypeOK, memory, souls, db, services, bounds, Phase
  <2>2. CASE LoadSoul
    <3>1. soul' \in SoulData
      BY <2>2, MadeSouls DEF LoadSoul, TypeOK
    <3> QED
      BY <2>2, <3>1 DEF LoadSoul, TypeOK, souls, db, services, bounds, Phase
  <2>3. CASE MakeSoul
    <3>1. soul' \in SoulData
      BY <2>3, MadeSouls DEF MakeSoul
    <3> QED
      BY <2>3, <3>1 DEF MakeSoul, TypeOK, db, services, bounds, Phase
  <2>4. CASE WriteNewSoul
    BY <2>4 DEF WriteNewSoul, TypeOK, memory, db, services, bounds, Phase
  <2> QED
    BY <1>2, <2>1, <2>2, <2>3, <2>4 DEF Loading
<1>3. CASE UNCHANGED vars
  BY <1>3 DEF vars, TypeOK, memory, souls, db, services, bounds
<1> QED
  BY <1>1, <1>2, <1>3

LEMMA TypeMigrate ==
  ASSUME TypeOK, Migrating
  PROVE  TypeOK'
<1>1. /\ phase' \in Phase /\ open' \in BOOLEAN
      /\ UNCHANGED <<mode, soul, rules, soulFile, coreFile, skills, backup, alive, raised, torn,
                     given, updates, kills, runs>>
  BY DEF Migrating, StampLegacy, ReadVersion, CreateTable, RecordVersion, Migrated, TypeOK, memory,
         souls, db, services, bounds, Phase
<1>2. version' \in 0..Latest
  BY Scripts DEF Migrating, StampLegacy, ReadVersion, CreateTable, RecordVersion, Migrated, TypeOK,
         db
<1>3. statement' \in 0..(Len(Base) + Len(Vector))
  BY Scripts DEF Migrating, StampLegacy, ReadVersion, CreateTable, RecordVersion, Migrated, TypeOK,
         db
<1>4. tables' \subseteq AllTables
  <2>1. CASE CreateTable
    <3>1. /\ version + 1 \in {1, 2} /\ statement + 1 \in 1..Len(Script[version + 1])
          /\ tables' = tables \cup {Script[version + 1][statement + 1]}
      BY <2>1, Scripts DEF CreateTable, TypeOK
    <3>2. Script[version + 1][statement + 1] \in AllTables
      BY <3>1, Scripts
    <3> QED
      BY <3>1, <3>2 DEF TypeOK
  <2>2. CASE ~CreateTable
    BY <2>2 DEF Migrating, StampLegacy, ReadVersion, RecordVersion, Migrated, TypeOK, db
  <2> QED
    BY <2>1, <2>2
<1> QED
  BY <1>1, <1>2, <1>3, <1>4 DEF TypeOK

LEMMA TypeServe ==
  ASSUME TypeOK, Serving
  PROVE  TypeOK'
<1>1. ASSUME NEW s \in Skill, CopySkill(s) \/ SkillCopied(s) PROVE TypeOK'
  BY <1>1 DEF CopySkill, SkillCopied, TypeOK, memory, souls, db, services, bounds
<1>2. ASSUME NEW s \in Skill, CopyFails(s) PROVE TypeOK'
  <2>1. kills' \in 0..MaxKills
    BY <1>2, Constants DEF CopyFails, TypeOK
  <2> QED
    BY <1>2, <2>1 DEF CopyFails, TypeOK, memory, souls, db, services
<1>3. CASE StartServices
  BY <1>3 DEF StartServices, TypeOK, memory, souls, db, bounds, Phase
<1> QED
  BY <1>1, <1>2, <1>3 DEF Serving

LEMMA TypeLive ==
  ASSUME TypeOK, Living
  PROVE  TypeOK'
<1>0. updates \in 0..MaxUpdates /\ kills \in 0..MaxKills /\ MaxUpdates \in Nat /\ MaxKills \in Nat
  BY Constants DEF TypeOK
<1>1. ASSUME NEW n \in Name, Rename(n) PROVE TypeOK'
  <2>1. Renamed(soul, n) \in SoulData
    BY DEF Renamed, TypeOK, SoulData
  <2>2. updates' \in 0..MaxUpdates
    BY <1>0, <1>1 DEF Rename
  <2> QED
    BY <1>1, <2>1, <2>2 DEF Rename, Save, TypeOK, Phase, db, services
<1>2. ASSUME NEW e \in Feeling, NEW i \in Intensity, Feel(e, i) PROVE TypeOK'
  <2>1. Felt(soul, e, i) \in SoulData
    BY FeltSoul DEF TypeOK
  <2>2. updates' \in 0..MaxUpdates
    BY <1>0, <1>2 DEF Feel
  <2> QED
    BY <1>2, <2>1, <2>2 DEF Feel, Save, TypeOK, Phase, db, services
<1>3. CASE Tick
  <2>1. Decayed(soul) \in SoulData
    BY DecayedSoul DEF TypeOK
  <2> QED
    BY <1>3, <2>1 DEF Tick, Save, TypeOK, Phase, db, services, bounds
<1>4. CASE WriteSoul
  BY <1>4 DEF WriteSoul, TypeOK, Phase, memory, db, services, bounds
<1>5. CASE SaveFails
  <2>1. kills' \in 0..MaxKills
    BY <1>0, <1>5 DEF SaveFails
  <2> QED
    BY <1>5, <2>1 DEF SaveFails, TypeOK, Phase, memory, souls, db, services
<1> QED
  BY <1>1, <1>2, <1>3, <1>4, <1>5 DEF Living

LEMMA NextPhase ==
  /\ DOMAIN NextStep = {"stop heartbeat", "stop gateway", "stop queue"}
  /\ NextStep["stop heartbeat"] = "stop gateway" /\ NextStep["stop gateway"] = "stop queue"
  /\ NextStep["stop queue"] = "aclose"
BY DEF NextStep

LEMMA TypeEnd ==
  ASSUME TypeOK, Ending \/ Exit \/ Kill
  PROVE  TypeOK'
<1>0. kills \in 0..MaxKills /\ MaxKills \in Nat
  BY Constants DEF TypeOK
<1>1. CASE Ending
  <2>1. /\ phase' \in Phase /\ alive' \subseteq Service /\ open' \in BOOLEAN /\ raised' \in BOOLEAN
        /\ kills' \in 0..MaxKills
        /\ mode' \in {mode, "left"}
        /\ UNCHANGED <<soul, rules, soulFile, coreFile, tables, version, statement, skills,
                       backup, torn, given, updates, runs>>
    <3>1. CASE Signal \/ GatewayEnds
      BY <3>1 DEF Signal, GatewayEnds, TypeOK, Phase, memory, souls, db, services, bounds
    <3>5. CASE LeaveChat
      BY <3>5, NextPhase DEF LeaveChat, LeaveRunning, LeaveStopping, LeaveClosing, LeaveEnded,
         TypeOK, Phase, memory, souls, db, services, bounds
    <3>2. CASE StopTimesOut \/ StopService
      BY <3>2, NextPhase DEF StopTimesOut, StopService, TypeOK, Phase, memory, souls, db, services,
         bounds
    <3>3. CASE CloseAi \/ CloseMemory
      BY <3>3 DEF CloseAi, CloseMemory, TypeOK, Phase, memory, souls, db, services, bounds
    <3>4. CASE CloseAiRaises
      <4>1. kills' \in 0..MaxKills
        BY <1>0, <3>4 DEF CloseAiRaises
      <4> QED
        BY <3>4, <4>1 DEF CloseAiRaises, TypeOK, Phase, memory, souls, db
    <3> QED
      BY <1>1, <3>1, <3>2, <3>3, <3>4, <3>5 DEF Ending, Stopping
  <2> QED
    BY <2>1 DEF TypeOK
<1>2. CASE Exit \/ Kill
  <2>1. /\ phase' = "off" /\ mode' = None /\ soul' = EmptySoul /\ rules' = FALSE /\ statement' = 0
        /\ open' = FALSE /\ alive' = {} /\ raised' = FALSE
        /\ torn' = (torn \ {"unsaved"}) \cup HalfWritten
        /\ UNCHANGED <<soulFile, coreFile, tables, version, skills, backup, given, updates, runs>>
        /\ kills' \in 0..MaxKills
    BY <1>0, <1>2 DEF Exit, Kill, Gone, souls, bounds
  <2>2. HalfWritten \subseteq Skill \cup {"core", "soul", "tables"}
    BY DEF HalfWritten
  <2>3. 0 \in 0..(Len(Base) + Len(Vector))
    BY Scripts
  <2> QED
    BY <2>1, <2>2, <2>3, MadeSouls DEF TypeOK, Phase
<1> QED
  BY <1>1, <1>2

LEMMA TypeBackup ==
  ASSUME TypeOK, Backup \/ Restore
  PROVE  TypeOK'
<1>1. CASE Backup
  <2>1. /\ backup' = [tables |-> tables, version |-> version, half |-> "tables" \in torn \cup HalfWritten]
        /\ ("tables" \in torn \cup HalfWritten) \in BOOLEAN
        /\ UNCHANGED <<phase, mode, soul, rules, soulFile, coreFile, tables, version, statement,
                       skills, open, alive, raised, torn, given, updates, kills, runs>>
    BY <1>1 DEF Backup, memory, souls, db, services, bounds
  <2>2. backup' \in [tables : SUBSET AllTables, version : 0..Latest, half : BOOLEAN]
    BY <2>1 DEF TypeOK
  <2> QED
    BY <2>1, <2>2 DEF TypeOK
<1>2. CASE Restore
  BY <1>2 DEF Restore, TypeOK, memory, souls, services, bounds
<1> QED
  BY <1>1, <1>2

LEMMA TypeStep == TypeOK /\ [Next]_vars => TypeOK'
BY Split, TypeStart, TypeMigrate, TypeServe, TypeLive, TypeEnd, TypeBackup

--------------------------------------------------------------------------------
(* The steps preserve the parts of the invariant.                             *)

\* What a step may do to the two files and what is read from them.
LEMMA CoreStep == TypeOK /\ CoreInv /\ [Next]_vars => CoreInv'
<1> SUFFICES ASSUME TypeOK, CoreInv, [Next]_vars PROVE CoreInv'
  OBVIOUS
<1> USE DEF CoreInv, Ruled, Loaded
<1>1. CASE (\E m \in {"server", "cli"} : Start(m)) \/ Migrating \/ Backup \/ UNCHANGED vars
  BY <1>1 DEF Start, Migrating, StampLegacy, ReadVersion, CreateTable, RecordVersion, Migrated,
     Backup, vars, memory, souls
<1>2. CASE Loading
  BY <1>2, Constants DEF Loading, LoadCore, MakeCore, WriteCore, LoadSoul, MakeSoul, WriteNewSoul,
     TypeOK, memory, souls
<1>3. CASE Serving
  BY <1>3 DEF Serving, CopySkill, SkillCopied, CopyFails, StartServices, memory, souls
<1>4. CASE Living
  BY <1>4 DEF Living, Rename, Feel, Tick, WriteSoul, SaveFails, Save, memory, souls
<1>5. CASE Ending
  <2>1. /\ rules' = rules /\ coreFile' = coreFile /\ torn' = torn /\ phase \in Ruled
        /\ phase # "write core"
    BY <1>5, NextPhase DEF Ending, Signal, LeaveChat, LeaveRunning, LeaveStopping, LeaveClosing,
       LeaveEnded, Stopping, StopTimesOut, StopService, CloseAi,
       CloseAiRaises, CloseMemory, GatewayEnds, memory, souls
  <2> QED
    BY <2>1
<1>6. CASE Exit \/ Kill
  <2>1. /\ phase' = "off" /\ coreFile' = coreFile /\ torn' = (torn \ {"unsaved"}) \cup HalfWritten
    BY <1>6 DEF Exit, Kill, Gone, souls
  <2>2. phase = "write core" => "core" \in HalfWritten
    BY DEF HalfWritten
  <2> QED
    BY <2>1, <2>2
<1>7. CASE Restore
  BY <1>7 DEF Restore, memory, souls
<1> QED
  BY <1>1, <1>2, <1>3, <1>4, <1>5, <1>6, <1>7, Split

LEMMA SoulStep == TypeOK /\ SoulInv /\ [Next]_vars => SoulInv'
<1> SUFFICES ASSUME TypeOK, SoulInv, [Next]_vars PROVE SoulInv'
  OBVIOUS
<1>0. soul \in SoulData /\ soul # None /\ soul # Empty
  BY Constants DEF TypeOK
<1> USE DEF SoulInv, Loaded
<1>1. CASE (\E m \in {"server", "cli"} : Start(m)) \/ Migrating \/ Backup \/ UNCHANGED vars
  BY <1>1 DEF Start, Migrating, StampLegacy, ReadVersion, CreateTable, RecordVersion, Migrated,
     Backup, vars, memory, souls
<1>2. CASE LoadCore \/ MakeCore \/ WriteCore
  BY <1>2 DEF LoadCore, MakeCore, WriteCore, memory, souls
<1>3. CASE LoadSoul
  BY <1>3 DEF LoadSoul, souls
<1>4. CASE MakeSoul
  <2>1. /\ soul'.name = "default" /\ soulFile = None /\ soulFile' = Empty /\ phase = "soul"
        /\ phase' = "write soul" /\ torn' = torn /\ given' = given
    BY <1>4, MadeSouls DEF MakeSoul
  <2> QED
    BY <2>1, Constants
<1>5. CASE WriteNewSoul
  BY <1>0, <1>5 DEF WriteNewSoul, memory
<1>6. CASE Serving
  <2>1. /\ soul' = soul /\ soulFile' = soulFile /\ given' = given /\ phase = "sync"
        /\ phase' \in {"sync", "running"}
    BY <1>6 DEF Serving, CopySkill, SkillCopied, CopyFails, StartServices, memory, souls
  <2>2. torn' = torn \/ \E s \in Skill : torn' = torn \cup {s}
    BY <1>6 DEF Serving, CopySkill, SkillCopied, CopyFails, StartServices
  <2>3. "unsaved" \in torn' <=> "unsaved" \in torn
    BY <2>2, Constants
  <2>4. "soul" \in torn => "soul" \in torn'
    BY <2>2
  <2> QED
    BY <2>1, <2>3, <2>4
<1>7. CASE Living
  <2>1. ASSUME NEW n \in Name, Rename(n) PROVE SoulInv'
    <3>1. Renamed(soul, n).name = n
      BY <1>0 DEF Renamed, SoulData
    <3> QED
      BY <2>1, <3>1, Constants DEF Rename, Save
  <2>2. ASSUME NEW e \in Feeling, NEW i \in Intensity, Feel(e, i) PROVE SoulInv'
    BY <1>0, <2>2, FeltSoul, Constants DEF Feel, Save
  <2>3. CASE Tick
    BY <1>0, <2>3, DecayedSoul, Constants DEF Tick, Save
  <2>4. CASE WriteSoul
    BY <1>0, <2>4 DEF WriteSoul, memory
  <2>5. CASE SaveFails
    BY <2>5 DEF SaveFails, memory, souls
  <2> QED
    BY <1>7, <2>1, <2>2, <2>3, <2>4, <2>5 DEF Living
<1>8. CASE Ending
  <2>1. /\ soul' = soul /\ soulFile' = soulFile /\ torn' = torn /\ given' = given
        /\ phase \in Loaded /\ phase \notin {"write soul", "save"} /\ phase' \in Loaded
    BY <1>8, NextPhase DEF Ending, Signal, LeaveChat, LeaveRunning, LeaveStopping, LeaveClosing,
       LeaveEnded, Stopping, StopTimesOut, StopService, CloseAi,
       CloseAiRaises, CloseMemory, GatewayEnds, memory, souls
  <2> QED
    BY <2>1
<1>9. CASE Exit \/ Kill
  <2>1. /\ phase' = "off" /\ soulFile' = soulFile /\ given' = given
        /\ torn' = (torn \ {"unsaved"}) \cup HalfWritten
    BY <1>9 DEF Exit, Kill, Gone, souls
  <2>2. phase \in {"write soul", "save"} \/ "unsaved" \in torn => "soul" \in HalfWritten
    BY DEF HalfWritten
  <2>3. "unsaved" \notin HalfWritten
    BY Constants DEF HalfWritten
  <2> QED
    BY <2>1, <2>2, <2>3
<1>10. CASE Restore
  BY <1>10 DEF Restore, memory, souls
<1> QED
  BY <1>1, <1>2, <1>3, <1>4, <1>5, <1>6, <1>7, <1>8, <1>9, <1>10, Split DEF Loading

LEMMA OpenStep == TypeOK /\ OpenInv /\ [Next]_vars => OpenInv'
<1> SUFFICES ASSUME TypeOK, OpenInv, [Next]_vars PROVE OpenInv'
  OBVIOUS
<1> USE DEF OpenInv
<1>1. CASE (\E m \in {"server", "cli"} : Start(m)) \/ Loading
  <2>1. /\ open' = open /\ version' = version
        /\ phase' \in {"core", "write core", "soul", "write soul", "version"}
    BY <1>1 DEF Start, Loading, LoadCore, MakeCore, WriteCore, LoadSoul, MakeSoul, WriteNewSoul, db,
       services
  <2> QED
    BY <2>1
<1>2. CASE Migrating
  <2>1. CASE Migrated
    BY <2>1 DEF Migrated, db
  <2>2. CASE StampLegacy \/ ReadVersion \/ CreateTable \/ RecordVersion
    <3>1. open' = open /\ phase' = "migrate" /\ (version' = version \/ version = 0 \/ version < Latest)
      BY <2>2 DEF StampLegacy, ReadVersion, CreateTable, RecordVersion, db, services
    <3> QED
      BY <3>1, Scripts DEF TypeOK
  <2> QED
    BY <1>2, <2>1, <2>2 DEF Migrating
<1>3. CASE Serving \/ Living
  BY <1>3 DEF Serving, CopySkill, SkillCopied, CopyFails, StartServices, Living, Rename, Feel, Tick,
     WriteSoul, SaveFails, Save, db, services
<1>4. CASE Ending
  <2>1. /\ (open' = open \/ ~open') /\ version' = version
        /\ phase' \notin {"off", "sync", "running", "save"}
    BY <1>4, NextPhase DEF Ending, Signal, LeaveChat, LeaveRunning, LeaveStopping, LeaveClosing,
       LeaveEnded, Stopping, StopTimesOut, StopService, CloseAi,
       CloseAiRaises, CloseMemory, GatewayEnds, db, services
  <2> QED
    BY <2>1
<1>5. CASE Exit \/ Kill
  BY <1>5 DEF Exit, Kill, Gone
<1>6. CASE Backup \/ Restore \/ UNCHANGED vars
  BY <1>6 DEF Backup, Restore, vars, db, services
<1> QED
  BY <1>1, <1>2, <1>3, <1>4, <1>5, <1>6, Split

LEMMA SkillStep == TypeOK /\ SkillInv /\ [Next]_vars => SkillInv'
<1> SUFFICES ASSUME TypeOK, SkillInv, [Next]_vars PROVE SkillInv'
  OBVIOUS
<1> USE DEF SkillInv, Copying
<1>1. ASSUME skills' = skills, phase # "sync", \A s \in Skill : s \in torn => s \in torn',
             phase' \in {"running", "save"} => phase \in {"running", "save"}
      PROVE  SkillInv'
  BY <1>1
<1>2. CASE \/ (\E m \in {"server", "cli"} : Start(m)) \/ Loading \/ Living \/ Restore
  <2>1. /\ skills' = skills /\ phase # "sync"
        /\ phase' \in {"running", "save"} => phase \in {"running", "save"}
    BY <1>2 DEF Start, Loading, LoadCore, MakeCore, WriteCore, LoadSoul, MakeSoul, WriteNewSoul,
       Living, Rename, Feel, Tick, WriteSoul, SaveFails, Save, Restore
  <2>2. \A s \in Skill : s \in torn => s \in torn'
    BY <1>2, Constants DEF Start, Loading, LoadCore, MakeCore, WriteCore, LoadSoul, MakeSoul,
       WriteNewSoul, Living, Rename, Feel, Tick, WriteSoul, SaveFails, Restore
  <2> QED
    BY <1>1, <2>1, <2>2
<1>3. CASE Ending
  <2>1. /\ skills' = skills /\ phase # "sync" /\ torn' = torn /\ phase' \notin {"running", "save"}
    BY <1>3, NextPhase DEF Ending, Signal, LeaveChat, LeaveRunning, LeaveStopping, LeaveClosing,
       LeaveEnded, Stopping, StopTimesOut, StopService, CloseAi,
       CloseAiRaises, CloseMemory, GatewayEnds
  <2> QED
    BY <1>1, <2>1
<1>4. CASE Migrating \/ Backup \/ UNCHANGED vars
  <2>1. /\ skills' = skills /\ torn' = torn
        /\ phase' = phase \/ (phase # "sync" /\ phase' \in {"migrate", "sync"})
    BY <1>4 DEF Migrating, StampLegacy, ReadVersion, CreateTable, RecordVersion, Migrated, Backup,
       vars
  <2> QED
    BY <2>1
<1>5. CASE Serving
  <2>1. ASSUME NEW s \in Skill, CopySkill(s) \/ SkillCopied(s) PROVE SkillInv'
    BY <2>1 DEF CopySkill, SkillCopied
  <2>2. ASSUME NEW s \in Skill, CopyFails(s) PROVE SkillInv'
    BY <2>2 DEF CopyFails
  <2>3. CASE StartServices
    BY <2>3 DEF StartServices
  <2> QED
    BY <1>5, <2>1, <2>2, <2>3 DEF Serving
<1>6. CASE Exit \/ Kill
  <2>1. /\ phase' = "off" /\ skills' = skills /\ torn' = (torn \ {"unsaved"}) \cup HalfWritten
    BY <1>6 DEF Exit, Kill, Gone
  <2>2. \A s \in Skill : skills[s] = "partial" => s \in torn \/ s \in HalfWritten
    BY DEF HalfWritten
  <2> QED
    BY <2>1, <2>2, Constants
<1> QED
  BY <1>2, <1>3, <1>4, <1>5, <1>6, Split

--------------------------------------------------------------------------------
(* The schema.                                                                *)

\* Running the statements of a whole script completes its version.
LEMMA ScriptCompletes ==
  ASSUME NEW tabs, NEW v \in {1, 2},
         \A i \in 1..Len(Script[v]) : Script[v][i] \in tabs
  PROVE  Elements(Vector) \subseteq tabs /\ (v = 1 => Elements(Base) \subseteq tabs)
<1>1. CASE v = 1
  <2>1. \A i \in 1..Len(Base) : Base[i] \in tabs
    <3> SUFFICES ASSUME NEW i \in 1..Len(Base) PROVE Base[i] \in tabs
      OBVIOUS
    <3>1. i \in 1..(Len(Base) + Len(Vector)) /\ Script[1][i] = Base[i]
      BY Scripts
    <3> QED
      BY <1>1, <3>1, Scripts
  <2>2. \A i \in 1..Len(Vector) : Vector[i] \in tabs
    <3> SUFFICES ASSUME NEW i \in 1..Len(Vector) PROVE Vector[i] \in tabs
      OBVIOUS
    <3>1. Len(Base) + i \in 1..(Len(Base) + Len(Vector)) /\ Script[1][Len(Base) + i] = Vector[i]
      BY Scripts
    <3> QED
      BY <1>1, <3>1, Scripts
  <2> QED
    BY <2>1, <2>2, Scripts DEF Elements
<1>2. CASE v = 2
  <2>1. \A i \in 1..Len(Vector) : Vector[i] \in tabs
    BY <1>2, Scripts
  <2> QED
    BY <1>2, <2>1, Scripts DEF Elements
<1> QED
  BY <1>1, <1>2

\* One more statement has run.
LEMMA CreateKeeps ==
  ASSUME TypeOK, SchemaInv, CreateTable
  PROVE  SchemaInv'
<1> DEFINE v == version + 1
           i == statement + 1
           table == Script[v][i]
<1>1. /\ phase = "migrate" /\ version < Latest /\ statement < Len(Script[v])
      /\ tables' = tables \cup {table} /\ statement' = i
      /\ phase' = phase /\ version' = version /\ backup' = backup /\ torn' = torn
  BY DEF CreateTable
<1>2. v \in {1, 2} /\ version \in {0, 1} /\ statement \in Nat /\ i \in DOMAIN Script[v] /\ i \in Nat
      /\ (version = 0 <=> v = 1)
  BY <1>1, Scripts DEF TypeOK
<1>3. \A k \in 1..i : k \in DOMAIN Script[v] /\ Script[v][k] \in tables'
  <2> SUFFICES ASSUME NEW k \in 1..i PROVE k \in DOMAIN Script[v] /\ Script[v][k] \in tables'
    OBVIOUS
  <2>1. CASE k = i
    BY <1>1, <1>2, <2>1
  <2>2. CASE k # i
    <3>1. k \in 1..statement
      BY <1>2, <2>2
    <3> QED
      BY <1>1, <3>1 DEF SchemaInv
  <2> QED
    BY <2>1, <2>2
<1>4. backup' # None => Complete(backup'.tables, backup'.version, backup'.half)
  BY <1>1 DEF SchemaInv
<1>5. "users" \in tables' \/ version > 0 =>
        Elements(Base) \subseteq tables' \/ "tables" \in torn \/ Creating'
  <2>1. CASE version = 0
    <3>1. CASE i <= Len(Base) - 1
      <4>1. i \in 1..(Len(Base) - 1)
        BY <1>2, <3>1, Scripts
      <4> QED
        BY <1>1, <2>1, <4>1 DEF Creating
    <3>2. CASE i > Len(Base) - 1
      <4>1. \A k \in 1..Len(Base) : Script[1][k] \in tables'
        BY <1>2, <1>3, <2>1, <3>2, Scripts
      <4> QED
        BY <4>1, Scripts DEF Elements
    <3> QED
      BY <1>2, <3>1, <3>2, Scripts
  <2>2. CASE version = 1
    <3>1. ~Creating
      BY <2>2 DEF Creating
    <3>2. Elements(Base) \subseteq tables \/ "tables" \in torn
      BY <2>2, <3>1 DEF SchemaInv, Complete
    <3> QED
      BY <1>1, <3>2
  <2> QED
    BY <1>2, <2>1, <2>2
<1>6. Complete(tables, version, "tables" \in torn \/ Creating)'
  BY <1>1, <1>2, <1>5, Scripts DEF Complete
<1> QED
  BY <1>1, <1>3, <1>4, <1>6 DEF SchemaInv

\* A migration is recorded after all of its statements.
LEMMA RecordKeeps ==
  ASSUME TypeOK, SchemaInv, RecordVersion
  PROVE  SchemaInv'
<1>1. /\ phase = "migrate" /\ version \in {0, 1} /\ statement = Len(Script[version + 1])
      /\ version' = version + 1 /\ statement' = 0 /\ version + 1 \in {1, 2} /\ version < Latest
      /\ UNCHANGED <<tables, backup, torn, phase>>
  BY Scripts DEF RecordVersion, TypeOK
<1>2. \A i \in 1..Len(Script[version + 1]) : Script[version + 1][i] \in tables
  BY <1>1 DEF SchemaInv
<1>3. /\ Elements(Vector) \subseteq tables
      /\ version + 1 = 1 => Elements(Base) \subseteq tables
  BY <1>1, <1>2, ScriptCompletes
<1>4. Elements(Base) \subseteq tables \/ "tables" \in torn
  <2>1. CASE version = 0
    BY <1>3, <2>1
  <2>2. CASE version = 1
    BY <2>2 DEF SchemaInv, Complete, Creating
  <2> QED
    BY <1>1, <2>1, <2>2
<1>5. Complete(tables, version, "tables" \in torn \/ Creating)'
  BY <1>1, <1>3, <1>4 DEF Complete
<1>6. backup' # None => Complete(backup'.tables, backup'.version, backup'.half)
  BY <1>1 DEF SchemaInv
<1>7. \A i \in 1..statement' : FALSE
  BY <1>1
<1> QED
  BY <1>1, <1>5, <1>6, <1>7 DEF SchemaInv

LEMMA SchemaStep == TypeOK /\ SchemaInv /\ [Next]_vars => SchemaInv'
<1> SUFFICES ASSUME TypeOK, SchemaInv, [Next]_vars PROVE SchemaInv'
  OBVIOUS
<1>0. version \in 0..2 /\ \A i \in 1..0 : FALSE
  BY Scripts DEF TypeOK
\* A step that leaves the database alone, and does not leave a migration halfway.
<1>1. ASSUME UNCHANGED <<tables, version, statement, backup>>,
             "tables" \in torn => "tables" \in torn',
             phase' = phase \/ statement = 0
      PROVE  SchemaInv'
  <2>1. Creating' <=> Creating
    BY <1>1, Scripts DEF Creating, SchemaInv
  <2> QED
    BY <1>1, <2>1 DEF SchemaInv, Complete
<1>2. CASE \/ (\E m \in {"server", "cli"} : Start(m)) \/ Loading \/ Serving \/ Living
  <2>1. UNCHANGED <<tables, version, statement, backup>> /\ phase # "migrate"
    BY <1>2 DEF Start, Loading, LoadCore, MakeCore, WriteCore, LoadSoul, MakeSoul, WriteNewSoul,
       Serving, CopySkill, SkillCopied, CopyFails, StartServices, Living, Rename, Feel, Tick,
       WriteSoul, SaveFails, db
  <2>2. "tables" \in torn => "tables" \in torn'
    BY <1>2 DEF Start, Loading, LoadCore, MakeCore, WriteCore, LoadSoul, MakeSoul, WriteNewSoul,
       Serving, CopySkill, SkillCopied, CopyFails, StartServices, Living, Rename, Feel, Tick,
       WriteSoul, SaveFails
  <2>3. statement = 0
    BY <2>1 DEF SchemaInv
  <2> QED
    BY <1>1, <2>1, <2>2, <2>3
<1>3. CASE Ending
  <2>1. UNCHANGED <<tables, version, statement, backup, torn>> /\ phase # "migrate"
    BY <1>3, NextPhase DEF Ending, Signal, LeaveChat, LeaveRunning, LeaveStopping, LeaveClosing,
       LeaveEnded, Stopping, StopTimesOut, StopService, CloseAi,
       CloseAiRaises, CloseMemory, GatewayEnds, db
  <2> QED
    BY <1>1, <2>1 DEF SchemaInv
<1>4. CASE ReadVersion \/ Migrated \/ UNCHANGED vars
  <2>1. UNCHANGED <<tables, version, statement, backup, torn>>
        /\ (phase' = phase \/ phase = "version" \/ version = Latest)
    BY <1>4 DEF ReadVersion, Migrated, vars, db
  <2>2. phase' = phase \/ statement = 0
    BY <2>1, Scripts DEF SchemaInv
  <2> QED
    BY <1>1, <2>1, <2>2
<1>5. CASE StampLegacy
  <2>1. /\ version = 0 /\ version' = 1 /\ "users" \in tables /\ statement' = statement /\ phase = "version"
        /\ UNCHANGED <<tables, backup, torn>>
    BY <1>5 DEF StampLegacy
  <2>2. statement = 0
    BY <2>1 DEF SchemaInv
  <2>3. Elements(Base) \subseteq tables \/ "tables" \in torn
    BY <2>1 DEF SchemaInv, Complete, Creating
  <2>4. Complete(tables, version, "tables" \in torn \/ Creating)'
    BY <2>1, <2>3, Scripts DEF Complete
  <2> QED
    BY <1>0, <2>1, <2>2, <2>4 DEF SchemaInv
<1>6. CASE Exit \/ Kill
  <2>1. /\ statement' = 0 /\ torn' = (torn \ {"unsaved"}) \cup HalfWritten /\ phase' = "off"
        /\ UNCHANGED <<tables, version, backup>>
    BY <1>6 DEF Exit, Kill, Gone
  <2>2. Creating => "tables" \in HalfWritten
    BY DEF Creating, HalfWritten
  <2>3. Complete(tables, version, "tables" \in torn \/ Creating)'
    BY <2>1, <2>2 DEF SchemaInv, Complete
  <2> QED
    BY <1>0, <2>1, <2>3 DEF SchemaInv
<1>7. CASE Backup
  <2>1. /\ backup' = [tables |-> tables, version |-> version, half |-> "tables" \in torn \cup HalfWritten]
        /\ UNCHANGED <<tables, version, statement, phase, torn>>
    BY <1>7 DEF Backup, db
  <2>2. Creating => "tables" \in HalfWritten
    BY DEF Creating, HalfWritten
  <2>3. backup'.tables = tables /\ backup'.version = version
        /\ (backup'.half <=> "tables" \in torn \cup HalfWritten)
    BY <2>1
  <2>4. Complete(backup'.tables, backup'.version, backup'.half)
    BY <2>2, <2>3 DEF SchemaInv, Complete
  <2>5. Creating' <=> Creating
    BY <2>1 DEF Creating
  <2> QED
    BY <2>1, <2>4, <2>5 DEF SchemaInv, Complete
<1>8. CASE Restore
  <2>1. /\ backup # None /\ tables' = backup.tables /\ version' = backup.version /\ phase = "off"
        /\ torn' = (torn \ {"tables"}) \cup IF backup.half THEN {"tables"} ELSE {}
        /\ UNCHANGED <<statement, backup, phase>>
    BY <1>8 DEF Restore
  <2>2. statement = 0 /\ Complete(backup.tables, backup.version, backup.half)
    BY <2>1 DEF SchemaInv
  <2>3. backup.half => "tables" \in torn'
    BY <2>1
  <2>4. Complete(tables, version, "tables" \in torn \/ Creating)'
    BY <2>1, <2>2, <2>3 DEF Complete
  <2> QED
    BY <1>0, <2>1, <2>2, <2>4 DEF SchemaInv
<1> QED
  BY <1>2, <1>3, <1>4, <1>5, <1>6, <1>7, <1>8, CreateKeeps, RecordKeeps, Split DEF Migrating

--------------------------------------------------------------------------------
(* The file and the memory, the store and its users.                          *)

LEMMA MirrorStep == TypeOK /\ SoulInv /\ MirrorInv /\ [Next]_vars => MirrorInv'
<1> SUFFICES ASSUME TypeOK, SoulInv, MirrorInv, [Next]_vars PROVE MirrorInv'
  OBVIOUS
<1> USE DEF MirrorInv, Saved
<1>0. soul \in SoulData /\ soul # Empty
  BY Constants DEF TypeOK
\* A step that touches neither, and takes up nothing new.
<1>1. ASSUME soul' = soul, soulFile' = soulFile, "unsaved" \in torn => "unsaved" \in torn',
             \/ phase' \notin {"version", "migrate", "sync", "running"}
             \/ phase \in {"version", "migrate", "sync", "running"}
      PROVE  MirrorInv'
  BY <1>1
<1>2. CASE \/ (\E m \in {"server", "cli"} : Start(m)) \/ LoadCore \/ MakeCore \/ WriteCore
           \/ Migrating \/ Serving \/ Backup \/ UNCHANGED vars
  <2>1. /\ soul' = soul /\ soulFile' = soulFile
        /\ \/ phase' \notin {"version", "migrate", "sync", "running"}
           \/ phase \in {"version", "migrate", "sync", "running"}
    BY <1>2 DEF Start, LoadCore, MakeCore, WriteCore, Migrating, StampLegacy, ReadVersion,
       CreateTable, RecordVersion, Migrated, Serving, CopySkill, SkillCopied, CopyFails,
       StartServices, Backup, vars, memory, souls
  <2>2. "unsaved" \in torn => "unsaved" \in torn'
    BY <1>2 DEF Start, LoadCore, MakeCore, WriteCore, Migrating, StampLegacy, ReadVersion,
       CreateTable, RecordVersion, Migrated, Serving, CopySkill, SkillCopied, CopyFails,
       StartServices, Backup, vars
  <2> QED
    BY <1>1, <2>1, <2>2
<1>3. CASE LoadSoul
  BY <1>3 DEF LoadSoul, souls
<1>4. CASE MakeSoul
  BY <1>4 DEF MakeSoul
<1>5. CASE WriteNewSoul \/ WriteSoul
  BY <1>0, <1>5 DEF WriteNewSoul, WriteSoul, memory
<1>6. CASE Living /\ ~WriteSoul
  BY <1>6 DEF Living, Rename, Feel, Tick, Save, SaveFails
<1>7. CASE Ending
  <2>1. soul' = soul /\ soulFile' = soulFile /\ torn' = torn
        /\ phase' \notin {"version", "migrate", "sync", "running"}
    BY <1>7, NextPhase DEF Ending, Signal, LeaveChat, LeaveRunning, LeaveStopping, LeaveClosing,
       LeaveEnded, Stopping, StopTimesOut, StopService, CloseAi,
       CloseAiRaises, CloseMemory, GatewayEnds, memory, souls
  <2> QED
    BY <1>1, <2>1
<1>8. CASE Exit \/ Kill \/ Restore
  <2>1. phase' = "off"
    BY <1>8 DEF Exit, Kill, Restore, Gone
  <2> QED
    BY <2>1
<1> QED
  BY <1>2, <1>3, <1>4, <1>5, <1>6, <1>7, <1>8, Split DEF Loading

LEMMA UseStep == TypeOK /\ UseInv /\ [Next]_vars => UseInv'
<1> SUFFICES ASSUME TypeOK, UseInv, [Next]_vars PROVE UseInv'
  OBVIOUS
<1> USE NextPhase DEF UseInv
<1>1. CASE (\E m \in {"server", "cli"} : Start(m)) \/ Loading
  <2>1. /\ UNCHANGED <<open, alive, raised>>
        /\ phase \in {"off", "core", "write core", "soul", "write soul"}
        /\ phase' \in {"core", "write core", "soul", "write soul", "version"}
    BY <1>1 DEF Start, Loading, LoadCore, MakeCore, WriteCore, LoadSoul, MakeSoul, WriteNewSoul,
       services
  <2> QED
    BY <2>1
<1>2. CASE Migrating
  <2>1. /\ UNCHANGED <<alive, raised>> /\ phase \in {"version", "migrate"}
        /\ phase' = "migrate" \/ (phase' = "sync" /\ open' = TRUE)
    BY <1>2 DEF Migrating, StampLegacy, ReadVersion, CreateTable, RecordVersion, Migrated, services
  <2> QED
    BY <2>1
<1>3. CASE Serving
  <2>1. /\ UNCHANGED <<open, raised>> /\ phase = "sync"
        /\ (phase' = "sync" /\ alive' = alive) \/ phase' = "running"
    BY <1>3 DEF Serving, CopySkill, SkillCopied, CopyFails, StartServices, services
  <2> QED
    BY <2>1
<1>4. CASE Living
  <2>1. /\ UNCHANGED <<open, alive, raised>> /\ phase \in {"running", "save"}
        /\ phase' \in {"running", "save"}
    BY <1>4 DEF Living, Rename, Feel, Tick, WriteSoul, SaveFails, Save, services
  <2> QED
    BY <2>1
<1>5. CASE Ending
  <2>1. CASE Signal
    BY <2>1 DEF Signal, services
  <2>2. CASE LeaveChat
    <3>1. CASE LeaveRunning
      BY <3>1 DEF LeaveRunning
    <3>2. CASE LeaveStopping
      BY <3>2 DEF LeaveStopping, ServiceOf
    <3>3. CASE LeaveClosing
      BY <3>3 DEF LeaveClosing
    <3>4. CASE LeaveEnded
      BY <3>4 DEF LeaveEnded, services
    <3> QED
      BY <2>2, <3>1, <3>2, <3>3, <3>4 DEF LeaveChat
  <2>3. CASE StopService
    BY <2>3 DEF StopService, ServiceOf
  <2>4. CASE StopTimesOut
    BY <2>4 DEF StopTimesOut, services
  <2>5. CASE GatewayEnds
    BY <2>5 DEF GatewayEnds
  <2>6. CASE CloseAi
    BY <2>6 DEF CloseAi, services
  <2>7. CASE CloseAiRaises
    BY <2>7 DEF CloseAiRaises, TypeOK
  <2>8. CASE CloseMemory
    BY <2>8 DEF CloseMemory, TypeOK
  <2> QED
    BY <1>5, <2>1, <2>2, <2>3, <2>4, <2>5, <2>6, <2>7, <2>8 DEF Ending, Stopping
<1>6. CASE Exit \/ Kill
  BY <1>6 DEF Exit, Kill, Gone
<1>7. CASE Backup \/ Restore \/ UNCHANGED vars
  <2>1. UNCHANGED <<phase, mode, open, alive, raised>>
    BY <1>7 DEF Backup, Restore, vars, services
  <2> QED
    BY <2>1
<1> QED
  BY <1>1, <1>2, <1>3, <1>4, <1>5, <1>6, <1>7, Split

--------------------------------------------------------------------------------

LEMMA InitAll == Init => IInv
<1> SUFFICES ASSUME Init PROVE IInv
  OBVIOUS
<1>1. TypeOK
  <2>1. Elements(Base) \subseteq AllTables /\ 0 \in 0..Latest /\ 0 \in 0..(Len(Base) + Len(Vector))
    BY Scripts DEF AllTables
  <2>2. tables \subseteq AllTables /\ version = 0 /\ statement = 0
    BY <2>1 DEF Init
  <2>3. phase \in Phase /\ given \in Name \cup {"default", "none"}
    BY DEF Init, Phase
  <2>4. updates \in 0..MaxUpdates /\ kills \in 0..MaxKills /\ runs \in 0..MaxRuns
    BY Constants DEF Init
  <2> QED
    BY <2>1, <2>2, <2>3, <2>4, MadeSouls DEF Init, TypeOK
<1>2. CoreInv /\ SoulInv /\ OpenInv /\ SkillInv /\ MirrorInv /\ UseInv
  BY Constants, NextPhase DEF Init, CoreInv, SoulInv, OpenInv, SkillInv, MirrorInv, UseInv, Copying,
     Ruled, Loaded
<1>3. SchemaInv
  <2>1. Complete(tables, version, "tables" \in torn \/ Creating)
    BY Scripts DEF Init, Complete
  <2> QED
    BY <2>1 DEF Init, SchemaInv
<1> QED
  BY <1>1, <1>2, <1>3 DEF IInv

--------------------------------------------------------------------------------

\* The files, the schema, the connection and the skills agree at every step.
THEOREM InductiveInvariant == Spec => []IInv
<1>1. IInv /\ [Next]_vars => IInv'
  BY TypeStep, CoreStep, SoulStep, SchemaStep, OpenStep, SkillStep, MirrorStep, UseStep DEF IInv
<1> QED
  BY <1>1, InitAll, PTL DEF Spec

\* Every variable keeps its type.
THEOREM TypeCorrect == Spec => []TypeOK
<1>1. IInv => TypeOK
  BY DEF IInv
<1> QED
  BY <1>1, InductiveInvariant, PTL

\* An open store has the tables of the vector extension, through every kill inside a
\* migration, for old databases and for restored backups.
THEOREM VectorTablesAlwaysThere == Spec => []VectorTablesThere
<1>1. IInv => VectorTablesThere
  BY DEF IInv, OpenInv, SchemaInv, Complete, VectorTablesThere
<1> QED
  BY <1>1, InductiveInvariant, PTL

\* What a running agent has lost, a kill or a full disk found half-written.
THEOREM LostOnlyByTear == Spec => []LossOnlyByTear
<1>1. IInv => LossOnlyByTear
  <2> SUFFICES ASSUME IInv, phase \in {"running", "save"}
               PROVE  /\ rules \/ "core" \in torn
                      /\ soul.name = given \/ "soul" \in torn
                      /\ tables = AllTables \/ "tables" \in torn
                      /\ \A s \in Skill : skills[s] = "whole" \/ s \in torn
    BY DEF LossOnlyByTear
  <2>1. rules \/ "core" \in torn
    BY DEF IInv, CoreInv, Ruled, Loaded
  <2>2. soul.name = given \/ "soul" \in torn
    BY DEF IInv, SoulInv, Loaded
  <2>3. tables = AllTables \/ "tables" \in torn
    <3>1. version = Latest /\ version > 0 /\ ~Creating
      BY Scripts DEF IInv, OpenInv, Creating
    <3>2. Elements(Vector) \subseteq tables /\ (Elements(Base) \subseteq tables \/ "tables" \in torn)
      BY <3>1 DEF IInv, SchemaInv, Complete
    <3>3. tables \subseteq AllTables
      BY DEF IInv, TypeOK
    <3> QED
      BY <3>2, <3>3 DEF AllTables
  <2>4. \A s \in Skill : skills[s] = "whole" \/ s \in torn
    BY DEF IInv, SkillInv, Copying, TypeOK
  <2> QED
    BY <2>1, <2>2, <2>3, <2>4
<1> QED
  BY <1>1, InductiveInvariant, PTL

\* As long as the last save succeeded, a restart would find in soul.yaml what a running agent
\* has in memory, whichever saves failed and whatever was killed before.
THEOREM FileAlwaysMemory == Spec => []FileIsMemory
<1>1. IInv => FileIsMemory
  BY DEF IInv, MirrorInv, Saved, FileIsMemory
<1> QED
  BY <1>1, InductiveInvariant, PTL

\* The store is open while the heartbeat or the queue task may use it, and a main() that came to
\* its end, with no user leaving a chat, leaves it open only when the AI backend raised.
THEOREM OpenWheneverUsed == Spec => []OpenWhileUsed
<1>1. IInv => OpenWhileUsed
  BY NextPhase DEF IInv, UseInv, OpenWhileUsed
<1> QED
  BY <1>1, InductiveInvariant, PTL
================================================================================
