-------------------------------- MODULE MCProcess --------------------------------
(* Two tables of each kind, one bundled skill and one name to give. *)
EXTENDS Process

Tables == <<"users", "records">>
VectorTables == <<"semantic", "semantic_vec">>
================================================================================
