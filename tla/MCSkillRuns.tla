------------------------------ MODULE MCSkillRuns ------------------------------
(* Small instances of SkillRuns.                                              *)
EXTENDS SkillRuns

CONSTANTS tick, engine

Callers == {tick, engine}

OneLimit == {1}
================================================================================
