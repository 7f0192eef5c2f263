----------------------------- MODULE MCAccounts -----------------------------
(* Small instances of Accounts. *)
EXTENDS Accounts, TLC

Symmetry == Permutations(Req) \cup Permutations(Email)
=============================================================================
