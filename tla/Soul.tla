---------------------------------- MODULE Soul ----------------------------------
(******************************************************************************)
(* What is in soul.yaml and how the operations of the class Soul change it.   *)
(*                                                                            *)
(* Intensities are counted in decay rates (0.05 by default): half of one is   *)
(* rounded down.  The name stands for all of identity, personality and quiet  *)
(* hours, which are written and lost together.                                *)
(******************************************************************************)
EXTENDS Naturals

CONSTANTS
  Feeling,      \* the emotions
  Calm,
  NoFeeling,
  Top,          \* intensity 1.0
  Baseline,     \* emotion_baseline_intensity
  Threshold,    \* emotion_secondary_clear_threshold
  Name          \* names a user gives

ASSUME SoulConstants ==
  /\ Calm \in Feeling /\ NoFeeling \notin Feeling
  /\ Top \in Nat \ {0} /\ Baseline \in 0..Top /\ Threshold \in Nat \ {0}
  /\ {"default", "none"} \cap Name = {}

Intensity == 0..Top

SoulData == [name : Name \cup {"default", "none"},
             primary : Feeling, intensity : Intensity,
             secondary : Feeling \cup {NoFeeling}, trace : Intensity]

\* _DEFAULT_SOUL, written when there is no soul.yaml; the curiosity in it is some feeling.
DefaultSoul(curiosity) ==
  [name |-> "default", primary |-> Calm, intensity |-> Top \div 2,
   secondary |-> curiosity, trace |-> Top \div 3]

\* What the properties answer when soul.yaml holds nothing.
EmptySoul ==
  [name |-> "none", primary |-> Calm, intensity |-> Top \div 2,
   secondary |-> NoFeeling, trace |-> 0]

Renamed(s, n) == [s EXCEPT !.name = n]

\* Mutation: the emotion is written without the rest.
FeltAnew(s, e, i) == [EmptySoul EXCEPT !.primary = e, !.intensity = i]

\* update_emotion: another primary makes the old one secondary, with half its intensity.
Felt(s, e, i) ==
  IF e = s.primary
    THEN [s EXCEPT !.intensity = i]
    ELSE [s EXCEPT !.primary = e, !.intensity = i,
                   !.secondary = s.primary, !.trace = s.intensity \div 2]

\* Mutation: the two intensities are decayed by one test.
DecayedTogether(s) ==
  IF s.primary = Calm THEN s
    ELSE [s EXCEPT !.primary = IF s.intensity <= Baseline + 1 THEN Calm ELSE @,
                   !.intensity = IF @ <= Baseline + 1 THEN Baseline ELSE @ - 1,
                   !.trace = IF @ = 0 THEN 0 ELSE @ - 1]

DecayedPrimary(s) ==
  CASE s.primary = Calm -> s
    [] s.primary # Calm /\ s.intensity <= Baseline + 1 ->
         [s EXCEPT !.primary = Calm, !.intensity = Baseline]
    [] OTHER -> [s EXCEPT !.intensity = @ - 1]

\* Mutation: an emotion without intensity is decayed too.
DecayedAnyway(s) == [s EXCEPT !.trace = @ - 1]

DecayedSecondary(s) ==
  CASE s.trace = 0 -> s
    [] s.trace > 0 /\ s.trace < Threshold + 1 ->
         [s EXCEPT !.secondary = NoFeeling, !.trace = 0]
    [] OTHER -> [s EXCEPT !.trace = @ - 1]

\* decay_emotion, at every tick.
Decayed(s) == DecayedSecondary(DecayedPrimary(s))

\* Nothing that decay_emotion would still change.
Cool(s) == s.primary = Calm /\ s.trace = 0
================================================================================
