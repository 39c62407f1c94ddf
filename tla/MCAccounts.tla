----------------------------- MODULE MCAccounts -----------------------------
(***************************************************************************)
(* A small instance of Accounts: two devices, two names, two keys.         *)
(***************************************************************************)
EXTENDS Accounts, TLC

CONSTANTS c1, c2, n1, n2, k1, k2

Alike == Permutations({c1, c2}) \cup Permutations({n1, n2}) \cup Permutations({k1, k2})
=============================================================================
