----------------------------- MODULE MCAccounts -----------------------------
(* Small instances of Accounts for TLC. *)
EXTENDS Accounts, TLC

CONSTANTS a1, a2, c1, q1, q2

ReqSymmetry == Permutations({q1, q2})
=============================================================================
