--------------------------- MODULE MCWriteBuffer ---------------------------
(* Small instances of WriteBuffer for TLC. *)
EXTENDS WriteBuffer, TLC

CONSTANTS r1, r2, r3, r4, d1, d2, k1, k2, k3, q1, q2

(* Two devices; r1 and r2 are the same line of d1 received twice. *)
RowsOfTwo == {r1, r2, r3, r4}
OwnerOfTwo == (r1 :> d1) @@ (r2 :> d1) @@ (r3 :> d1) @@ (r4 :> d2)
KeyOfTwo == (r1 :> k1) @@ (r2 :> k1) @@ (r3 :> k2) @@ (r4 :> k3)

(* The same without r3. *)
RowsOfThree == {r1, r2, r4}
OwnerOfThree == (r1 :> d1) @@ (r2 :> d1) @@ (r4 :> d2)
KeyOfThree == (r1 :> k1) @@ (r2 :> k1) @@ (r4 :> k3)
=============================================================================
