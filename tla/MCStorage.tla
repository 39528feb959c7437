----------------------------- MODULE MCStorage -----------------------------
(* Small instances of Storage for TLC. *)
EXTENDS Storage, TLC

CONSTANTS r1, r2, r3, w1, w2

(* Two rows of the first month and one of the second. *)
RowMonths == (r1 :> 1) @@ (r2 :> 1) @@ (r3 :> 2)
=============================================================================
