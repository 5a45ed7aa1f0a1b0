----------------------------- MODULE MCCoupons ------------------------------
(* Instances of the coupon for TLC: two users, one of whom orders twice.    *)
EXTENDS Coupons, TLC

CONSTANTS o1, o2, o3, u1, u2

TwoUsers == (o1 :> u1) @@ (o2 :> u1) @@ (o3 :> u2)

\* The two orders of one user.
OrderSymmetry == Permutations({o1, o2})

=============================================================================
