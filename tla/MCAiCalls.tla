-------------------------------- MODULE MCAiCalls --------------------------------
(* The heartbeat beside a background task, and the engine with its task. *)
EXTENDS AiCalls

Groups == {{"heart", "task"}, {"engine", "task"}}
================================================================================
