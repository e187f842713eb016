------------------------------ MODULE MCProposals ------------------------------
(* Small instances of Proposals.                                              *)
EXTENDS Proposals, TLC

CONSTANTS p1, p2, u1, u2

\* One proposal with an effect outside the database, one inside soul.yaml.
OwnerPair == (p1 :> u1) @@ (p2 :> u2)
KindsWithEffect == (p1 :> "skill_execution") @@ (p2 :> "trait_change")

\* A proposal without effect and one to create a skill.
OneOwner == (p1 :> u1) @@ (p2 :> u1)
KindsRecorded == (p1 :> "general") @@ (p2 :> "skill_proposal")

AskedValid == [p \in Proposal |-> "valid"]
================================================================================
