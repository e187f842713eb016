------------------------------- MODULE MCAccounts -------------------------------
(* Small instances of Accounts.                                               *)
EXTENDS Accounts, TLC

CONSTANTS d1, d2, t1, d, t

\* Two identities on one adapter, one on another.
TwoAdapters == [i \in Ident |-> IF i = t1 THEN t ELSE d]

Fresh == Permutations(User) \cup Permutations(Token)
================================================================================
