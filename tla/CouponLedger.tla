---------------------------- MODULE CouponLedger -----------------------------
(***************************************************************************)
(* What a coupon promises the shop and its users.  A redemption takes one  *)
(* unit of what remains and one of its user's allowance, in one step; it   *)
(* is never taken back and never happens when nothing remains.  A user who *)
(* does not hurry stays within the allowance, and only an edit of the      *)
(* limit changes what remains without a redemption.                        *)
(***************************************************************************)
EXTENDS Naturals

CONSTANTS Users, MaxLimit, MaxLimitPerUser

VARIABLES
    limit, remaining,
    perUser,    \* the allowance of each user
    used,       \* used[u]: the redemptions of u
    hasty,      \* users who had two orders under way at once
    edited      \* which of the limits have been edited

vars == <<limit, remaining, perUser, used, hasty, edited>>

Init ==
    /\ limit = MaxLimit
    /\ remaining = MaxLimit
    /\ perUser = MaxLimitPerUser
    /\ used = [u \in Users |-> 0]
    /\ hasty = {}
    /\ edited = {}

Redeem(u) ==
    /\ remaining > 0
    /\ u \in hasty \/ "perUser" \in edited \/ used[u] < perUser
    /\ remaining' = remaining - 1
    /\ used' = [used EXCEPT ![u] = @ + 1]
    /\ UNCHANGED <<limit, perUser, hasty, edited>>

Hurry(u) ==
    /\ hasty' = hasty \cup {u}
    /\ UNCHANGED <<limit, remaining, perUser, used, edited>>

\* What is left of a new limit need not be what is left after the redemptions,
\* but it is never more than the limit.
Edit ==
    /\ edited \subseteq edited'
    /\ \/ UNCHANGED <<limit, remaining>>
       \/ "limit" \in edited' /\ limit' \in Nat /\ remaining' \in 0 .. limit'
    /\ perUser' = perUser \/ "perUser" \in edited'
    /\ UNCHANGED <<used, hasty>>

Next == Edit \/ \E u \in Users : Redeem(u) \/ Hurry(u)

Spec == Init /\ [][Next]_vars

=============================================================================
