---------------------------- MODULE MCReviewFlow ----------------------------
(* Instances of the review flow for TLC: two users, the first of whom may   *)
(* review again after a deletion.                                           *)
EXTENDS ReviewFlow, TLC

CONSTANTS r1, r2, r3, u1, u2, i1, i2, q1, q2, q3, k1

TwoAuthors == (r1 :> u1) @@ (r2 :> u1) @@ (r3 :> u2)
OneEach == (r1 :> u1) @@ (r2 :> u2)
OneRequest == q1 :> i1
OneReview == r1 :> u1
OneProcess == (q1 :> i1) @@ (q2 :> i1)
EditorSymmetry == Permutations(Editors)
Served == (q1 :> i1) @@ (q2 :> i1) @@ (q3 :> i2)

=============================================================================
