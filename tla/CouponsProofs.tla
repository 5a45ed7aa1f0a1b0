--------------------------- MODULE CouponsProofs ----------------------------
(* Proofs about Coupons, for every set of orders, users, admins and limits. *)
EXTENDS Coupons, FiniteSetTheorems, TLAPS

USE OrdersAssumption, LimitsAssumption, NoEntryAssumption

LEMMA TypeInit == Init => TypeOK /\ RemainingWithinLimit
  BY DEF Init, TypeOK, RemainingWithinLimit, Row, OrderStep, Idle, Loading

-----------------------------------------------------------------------------
(* Types and the limit itself.                                             *)

\* What an update writes, from whatever copy of the row it has seen, is a row
\* whose remainingLimit lies between 0 and its maxLimit.
LEMMA WrittenRow ==
  ASSUME TypeOK, RemainingWithinLimit, NEW a \in Admins, updateCoupon(a)
  PROVE  /\ coupon' \in Row
         /\ coupon'.remainingLimit <= coupon'.maxLimit
         /\ edited \subseteq edited' /\ edited' \subseteq {"limit", "perUser"}
         /\ "limit" \notin edited' => /\ coupon'.maxLimit = coupon.maxLimit
                              /\ coupon'.remainingLimit = coupon.remainingLimit
         /\ "perUser" \notin edited' => coupon'.maxLimitPerUser = coupon.maxLimitPerUser
<1> DEFINE seen == admin[a].seen
           redeemedCount == seen.maxLimit - seen.remainingLimit
<1>1. /\ seen \in Row
      /\ seen.remainingLimit <= seen.maxLimit
      /\ coupon \in Row
      /\ coupon.remainingLimit <= coupon.maxLimit
      /\ edited \subseteq {"limit", "perUser"}
  BY DEF TypeOK, RemainingWithinLimit, updateCoupon, Idle, Loading
<1>2. redeemedCount \in Nat
  BY <1>1 DEF Row
<1>3. ASSUME NEW limit \in Nat, NEW perUser \in PerUserUpTo(limit)
      PROVE  perUser \in Nat
  BY <1>1, <1>3 DEF PerUserUpTo, Row
<1>4. CASE \E n \in NewLimits, usable \in BOOLEAN :
             \E perUser \in PerUserUpTo(n) :
                 /\ n >= redeemedCount
                 /\ Write({"limit"}, n, n - redeemedCount, perUser, usable)
  <2>1. PICK n \in NewLimits, usable \in BOOLEAN :
             \E perUser \in PerUserUpTo(n) :
                 /\ n >= redeemedCount
                 /\ Write({"limit"}, n, n - redeemedCount, perUser, usable)
    BY <1>4
  <2>2. PICK perUser \in PerUserUpTo(n) :
                 /\ n >= redeemedCount
                 /\ Write({"limit"}, n, n - redeemedCount, perUser, usable)
    BY <2>1
  <2>3. n \in Nat /\ n - redeemedCount \in Nat /\ n - redeemedCount <= n
    <3>1. n \in Nat
      BY LimitsAssumption
    <3> HIDE DEF redeemedCount
    <3>2. QED
      BY <1>2, <2>2, <3>1
  <2>4. perUser \in Nat
    BY <1>3, <2>3
  <2>5. /\ edited \subseteq edited' /\ edited' \subseteq {"limit", "perUser"}
        /\ "limit" \in edited'
        /\ perUser = coupon.maxLimitPerUser \/ "perUser" \in edited'
        /\ coupon' = [maxLimit |-> n, remainingLimit |-> n - redeemedCount,
                      maxLimitPerUser |-> perUser, usable |-> usable]
    BY <1>1, <2>2 DEF Write
  <2> DEFINE remaining == n - redeemedCount
  <2>6. /\ remaining \in Nat /\ remaining <= n
        /\ coupon' = [maxLimit |-> n, remainingLimit |-> remaining,
                      maxLimitPerUser |-> perUser, usable |-> usable]
    BY <2>3, <2>5
  <2>7. coupon' \in Row
    BY <2>3, <2>4, <2>6 DEF Row
  <2> HIDE DEF remaining
  <2>8. QED
    BY <2>5, <2>6, <2>7
<1>5. CASE \E perUser \in PerUserUpTo(seen.maxLimit), usable \in BOOLEAN :
             Write({}, coupon.maxLimit, coupon.remainingLimit, perUser, usable)
  <2>1. PICK perUser \in PerUserUpTo(seen.maxLimit), usable \in BOOLEAN :
             Write({}, coupon.maxLimit, coupon.remainingLimit, perUser, usable)
    BY <1>5
  <2>2. /\ seen.maxLimit \in Nat
        /\ coupon.maxLimit \in Nat /\ coupon.remainingLimit \in Nat
    BY <1>1 DEF Row
  <2>3. perUser \in Nat
    BY <1>3, <2>2
  <2>4. /\ edited \subseteq edited' /\ edited' \subseteq {"limit", "perUser"}
        /\ perUser = coupon.maxLimitPerUser \/ "perUser" \in edited'
        /\ coupon' = [maxLimit |-> coupon.maxLimit,
                      remainingLimit |-> coupon.remainingLimit,
                      maxLimitPerUser |-> perUser, usable |-> usable]
    BY <1>1, <2>1 DEF Write
  <2>5. QED
    BY <1>1, <2>2, <2>3, <2>4 DEF Row
<1>6. QED
  BY <1>4, <1>5 DEF updateCoupon

LEMMA TypeStep ==
  ASSUME TypeOK, RemainingWithinLimit, [Next]_vars
  PROVE  TypeOK' /\ RemainingWithinLimit'
<1> USE DEF TypeOK, RemainingWithinLimit, OrderStep, Idle, Loading, Goto,
            Become, Holding
<1>1. CASE Clock \/ CacheExpires
  BY <1>1 DEF Clock, CacheExpires, Row
<1>2. ASSUME NEW o \in Orders,
             \/ FindCoupon(o) \/ CountRedeems(o) \/ redeemCoupon(o)
             \/ RollbackOrder(o) \/ InvalidateCoupon(o)
      PROVE  TypeOK' /\ RemainingWithinLimit'
  <2>1. CASE FindCoupon(o)
    BY <2>1 DEF FindCoupon, Row
  <2>2. CASE CountRedeems(o)
    BY <2>2 DEF CountRedeems
  <2>3. CASE redeemCoupon(o)
    BY <2>3 DEF redeemCoupon, Row
  <2>4. CASE RollbackOrder(o)
    BY <2>4 DEF RollbackOrder
  <2>5. CASE InvalidateCoupon(o)
    BY <2>5 DEF InvalidateCoupon
  <2>6. QED
    BY <1>2, <2>1, <2>2, <2>3, <2>4, <2>5
<1>3. ASSUME NEW a \in Admins,
             \/ ReadCached(a) \/ LoadCoupon(a) \/ FillCache(a)
             \/ updateCoupon(a) \/ RefreshCache(a) \/ Leave(a)
      PROVE  TypeOK' /\ RemainingWithinLimit'
  <2>1. CASE ReadCached(a)
    BY <2>1 DEF ReadCached
  <2>2. CASE LoadCoupon(a)
    BY <2>2 DEF LoadCoupon
  <2>3. CASE FillCache(a)
    BY <2>3 DEF FillCache
  <2>4. CASE updateCoupon(a)
    <3>1. /\ coupon' \in Row /\ coupon'.remainingLimit <= coupon'.maxLimit
          /\ edited' \subseteq {"limit", "perUser"}
      BY <2>4, WrittenRow
    <3>2. /\ admin' = [admin EXCEPT ![a] = [step |-> "refresh", seen |-> coupon']]
          /\ UNCHANGED <<redeemed, overlap, order, cached>>
      BY <2>4 DEF updateCoupon
    <3>3. QED
      BY <3>1, <3>2 DEF Row
  <2>5. CASE RefreshCache(a)
    BY <2>5 DEF RefreshCache
  <2>6. CASE Leave(a)
    BY <2>6 DEF Leave
  <2>7. QED
    BY <1>3, <2>1, <2>2, <2>3, <2>4, <2>5, <2>6
<1>4. CASE UNCHANGED vars
  BY <1>4 DEF vars
<1>5. QED
  BY <1>1, <1>2, <1>3, <1>4 DEF Next

\* Every reachable state is well typed and no copy of the coupon, in the row,
\* in Redis or in a handler, has a remainingLimit outside 0..maxLimit: the
\* guarded decrement and the stale edits cannot drive it negative or above.
THEOREM RemainingCorrect == Spec => [](TypeOK /\ RemainingWithinLimit)
<1>1. Init => TypeOK /\ RemainingWithinLimit
  BY TypeInit
<1>2. TypeOK /\ RemainingWithinLimit /\ [Next]_vars
        => TypeOK' /\ RemainingWithinLimit'
  BY TypeStep
<1>3. QED
  BY <1>1, <1>2, PTL DEF Spec

-----------------------------------------------------------------------------
(* Counting redemptions.                                                   *)

LEMMA RedeemedFinite ==
  ASSUME TypeOK, NEW u
  PROVE  /\ IsFiniteSet(redeemed) /\ Cardinality(redeemed) \in Nat
         /\ IsFiniteSet(RedeemedBy(u)) /\ Cardinality(RedeemedBy(u)) \in Nat
<1>1. IsFiniteSet(redeemed) /\ IsFiniteSet(RedeemedBy(u))
  BY FS_Subset DEF TypeOK, RedeemedBy
<1>2. QED
  BY <1>1, FS_CardinalityType

LEMMA OneMore ==
  ASSUME TypeOK, NotYetRedeemed, NEW o \in Orders, redeemCoupon(o)
  PROVE  /\ Cardinality(redeemed') = Cardinality(redeemed) + 1
         /\ Cardinality(RedeemedBy(UserOf[o])') = Cardinality(RedeemedBy(UserOf[o])) + 1
         /\ \A u : u # UserOf[o] => RedeemedBy(u)' = RedeemedBy(u)
<1>1. o \notin redeemed /\ redeemed' = redeemed \cup {o}
  BY DEF redeemCoupon, NotYetRedeemed
<1>2. RedeemedBy(UserOf[o])' = RedeemedBy(UserOf[o]) \cup {o}
  BY <1>1 DEF RedeemedBy, Of
<1>3. o \notin RedeemedBy(UserOf[o])
  BY <1>1 DEF RedeemedBy
<1>4. \A u : u # UserOf[o] => RedeemedBy(u)' = RedeemedBy(u)
  BY <1>1 DEF RedeemedBy, Of
<1>5. QED
  BY <1>1, <1>2, <1>3, <1>4, RedeemedFinite, FS_AddElement

-----------------------------------------------------------------------------
(* The inductive invariant.                                                *)

LEMMA InvInit == Init => IInv
<1> SUFFICES ASSUME Init PROVE IInv
  OBVIOUS
<1>1. TypeOK /\ RemainingWithinLimit
  BY TypeInit
<1>2. Cardinality(redeemed) = 0 /\ \A u : RedeemedBy(u) = {}
  BY FS_EmptySet DEF Init, RedeemedBy
<1>3. NotYetRedeemed /\ PerUserKnown
  BY DEF Init, NotYetRedeemed, PerUserKnown
<1>4. CountStillHolds
  BY DEF Init, CountStillHolds, InFlight, Of
<1>5. RedemptionsAccounted
  BY <1>2 DEF Init, RedemptionsAccounted
<1>6. SerialUserWithinLimit
  <2>1. MaxLimitPerUser >= 0 /\ Cardinality({}) = 0
    BY FS_EmptySet
  <2>2. QED
    BY <1>2, <2>1 DEF Init, SerialUserWithinLimit
<1>7. QED
  BY <1>1, <1>3, <1>4, <1>5, <1>6 DEF IInv

\* Steps that touch neither an order, nor a redemption, nor a limit.
LEMMA InvAside ==
  ASSUME IInv, UNCHANGED <<redeemed, overlap, order>>, edited \subseteq edited',
         "limit" \notin edited' => /\ coupon'.maxLimit = coupon.maxLimit
                           /\ coupon'.remainingLimit = coupon.remainingLimit,
         "perUser" \notin edited' => coupon'.maxLimitPerUser = coupon.maxLimitPerUser
  PROVE  /\ NotYetRedeemed' /\ PerUserKnown' /\ CountStillHolds'
         /\ RedemptionsAccounted' /\ SerialUserWithinLimit'
<1>1. NotYetRedeemed' /\ PerUserKnown'
  BY DEF IInv, NotYetRedeemed, PerUserKnown
<1>2. CountStillHolds'
  BY DEF IInv, CountStillHolds, InFlight, RedeemedBy
<1>3. RedemptionsAccounted' /\ SerialUserWithinLimit'
  BY DEF IInv, RedemptionsAccounted, SerialUserWithinLimit, RedeemedBy
<1>4. QED
  BY <1>1, <1>2, <1>3

\* An order's own steps, except the two that start and commit a redemption.
LEMMA InvOrderMoves ==
  ASSUME IInv, NEW o \in Orders, NEW step \in OrderStep, Goto(o, step),
         UNCHANGED <<redeemed, overlap, edited>>,
         UNCHANGED coupon,
         step \in {"count", "redeem"} => order[o].step \in {"count", "redeem"},
         step \in {"new", "count", "redeem"} => o \notin redeemed,
         step = "redeem" =>
            Cardinality(RedeemedBy(UserOf[o])) < order[o].perUser
  PROVE  /\ NotYetRedeemed' /\ PerUserKnown' /\ CountStillHolds'
         /\ RedemptionsAccounted' /\ SerialUserWithinLimit'
<1>1. /\ order'[o].step = step
      /\ \A q \in Orders : order'[q].perUser = order[q].perUser
      /\ \A q \in Orders : q # o => order'[q] = order[q]
  BY DEF IInv, TypeOK, Goto
<1>2. \A u : InFlight(u)' \subseteq InFlight(u)
  BY <1>1 DEF InFlight, Of
<1>3. NotYetRedeemed'
  BY <1>1 DEF IInv, NotYetRedeemed
<1>4. PerUserKnown'
  BY <1>1 DEF IInv, PerUserKnown
<1>5. CountStillHolds'
  BY <1>1, <1>2 DEF IInv, CountStillHolds, RedeemedBy
<1>6. RedemptionsAccounted' /\ SerialUserWithinLimit'
  BY DEF IInv, RedemptionsAccounted, SerialUserWithinLimit, RedeemedBy
<1>7. QED
  BY <1>3, <1>4, <1>5, <1>6

\* FindCoupon either is the user's only redemption in flight or marks the user.
LEMMA InvFindCoupon ==
  ASSUME IInv, NEW o \in Orders, FindCoupon(o)
  PROVE  /\ NotYetRedeemed' /\ PerUserKnown' /\ CountStillHolds'
         /\ RedemptionsAccounted' /\ SerialUserWithinLimit'
<1>1. /\ order'[o] = [step |-> "count", perUser |-> coupon.maxLimitPerUser]
      /\ \A q \in Orders : q # o => order'[q] = order[q]
      /\ UNCHANGED <<coupon, redeemed, edited>>
      /\ order[o].step = "new"
      /\ overlap \subseteq overlap'
      /\ UserOf[o] \in overlap' \/ InFlight(UserOf[o]) = {}
  BY DEF IInv, TypeOK, FindCoupon
<1>2. NotYetRedeemed'
  BY <1>1 DEF IInv, NotYetRedeemed
<1>3. PerUserKnown'
  BY <1>1 DEF IInv, PerUserKnown
<1>4. /\ \A u : u # UserOf[o] => InFlight(u)' = InFlight(u)
      /\ InFlight(UserOf[o])' = InFlight(UserOf[o]) \cup {o}
  BY <1>1 DEF InFlight, Of
<1>5. CountStillHolds'
  <2> SUFFICES ASSUME NEW p \in Orders, UserOf[p] \notin overlap'
               PROVE  /\ \A q \in InFlight(UserOf[p])' :
                            p \in InFlight(UserOf[p])' => q = p
                      /\ order'[p].step = "redeem" =>
                            Cardinality(RedeemedBy(UserOf[p])') < order'[p].perUser
    BY DEF CountStillHolds
  <2>1. /\ UserOf[p] \notin overlap
        /\ RedeemedBy(UserOf[p])' = RedeemedBy(UserOf[p])
    BY <1>1 DEF RedeemedBy
  <2>2. CASE UserOf[p] = UserOf[o]
    BY <1>1, <1>4, <2>1, <2>2 DEF IInv, CountStillHolds, InFlight, Of
  <2>3. CASE UserOf[p] # UserOf[o]
    BY <1>1, <1>4, <2>1, <2>3 DEF IInv, CountStillHolds
  <2>4. QED
    BY <2>2, <2>3
<1>6. RedemptionsAccounted' /\ SerialUserWithinLimit'
  BY <1>1 DEF IInv, RedemptionsAccounted, SerialUserWithinLimit, RedeemedBy
<1>7. QED
  BY <1>2, <1>3, <1>5, <1>6

\* A commit takes one unit of the limit and one of its user's allowance; the
\* count it was allowed by still holds unless the user had another in flight.
LEMMA InvRedeem ==
  ASSUME IInv, NEW o \in Orders, redeemCoupon(o)
  PROVE  /\ NotYetRedeemed' /\ PerUserKnown' /\ CountStillHolds'
         /\ RedemptionsAccounted' /\ SerialUserWithinLimit'
<1>1. /\ order'[o].step = "invalidate"
      /\ \A q \in Orders : q # o => order'[q] = order[q]
      /\ order[o].step = "redeem"
      /\ redeemed' = redeemed \cup {o}
      /\ UNCHANGED <<overlap, edited>>
      /\ coupon'.remainingLimit = coupon.remainingLimit - 1
      /\ coupon'.maxLimit = coupon.maxLimit
      /\ coupon'.maxLimitPerUser = coupon.maxLimitPerUser
      /\ coupon \in Row
  BY DEF IInv, TypeOK, redeemCoupon, Goto, Row
<1>2. NotYetRedeemed'
  BY <1>1 DEF IInv, NotYetRedeemed
<1>3. PerUserKnown'
  BY <1>1 DEF IInv, PerUserKnown
<1>4. /\ Cardinality(redeemed') = Cardinality(redeemed) + 1
      /\ Cardinality(RedeemedBy(UserOf[o])') = Cardinality(RedeemedBy(UserOf[o])) + 1
      /\ \A u : u # UserOf[o] => RedeemedBy(u)' = RedeemedBy(u)
  BY OneMore DEF IInv
<1>5. CountStillHolds'
  <2> SUFFICES ASSUME NEW p \in Orders, UserOf[p] \notin overlap
               PROVE  /\ \A q \in InFlight(UserOf[p])' :
                            p \in InFlight(UserOf[p])' => q = p
                      /\ order'[p].step = "redeem" =>
                            Cardinality(RedeemedBy(UserOf[p])') < order'[p].perUser
    BY <1>1 DEF CountStillHolds
  <2>1. InFlight(UserOf[p])' \subseteq InFlight(UserOf[p])
    BY <1>1 DEF InFlight, Of
  <2>2. ASSUME order'[p].step = "redeem" PROVE UserOf[p] # UserOf[o]
    BY <1>1, <2>2 DEF IInv, CountStillHolds, InFlight, Of
  <2>3. QED
    BY <1>1, <1>4, <2>1, <2>2 DEF IInv, CountStillHolds
<1>6. RedemptionsAccounted'
  BY <1>1, <1>4, RedeemedFinite DEF IInv, RedemptionsAccounted, Row
<1>7. SerialUserWithinLimit'
  <2> SUFFICES ASSUME "perUser" \notin edited, NEW p \in Orders, UserOf[p] \notin overlap
               PROVE  Cardinality(RedeemedBy(UserOf[p])') <= coupon'.maxLimitPerUser
    BY <1>1 DEF SerialUserWithinLimit
  <2>1. CASE UserOf[p] = UserOf[o]
    <3>1. Cardinality(RedeemedBy(UserOf[o])) < order[o].perUser
      BY <1>1, <2>1 DEF IInv, CountStillHolds
    <3>2. order[o].perUser = coupon.maxLimitPerUser
      BY <1>1 DEF IInv, PerUserKnown
    <3>3. coupon.maxLimitPerUser \in Nat /\ Cardinality(RedeemedBy(UserOf[o])) \in Nat
      BY <1>1, RedeemedFinite DEF IInv, Row
    <3>4. QED
      BY <1>1, <1>4, <2>1, <3>1, <3>2, <3>3
  <2>2. CASE UserOf[p] # UserOf[o]
    BY <1>1, <1>4, <2>2 DEF IInv, SerialUserWithinLimit
  <2>3. QED
    BY <2>1, <2>2
<1>8. QED
  BY <1>2, <1>3, <1>5, <1>6, <1>7

LEMMA InvStep == IInv /\ [Next]_vars => IInv'
<1> SUFFICES ASSUME IInv, [Next]_vars PROVE IInv'
  OBVIOUS
<1> DEFINE Rest == /\ NotYetRedeemed /\ PerUserKnown /\ CountStillHolds
                   /\ RedemptionsAccounted /\ SerialUserWithinLimit
<1>1. TypeOK' /\ RemainingWithinLimit'
  BY TypeStep DEF IInv
<1>2. Rest'
  <2>1. CASE Clock \/ CacheExpires \/ UNCHANGED vars
    <3>1. /\ UNCHANGED <<redeemed, overlap, edited, order>>
          /\ coupon'.maxLimit = coupon.maxLimit
          /\ coupon'.remainingLimit = coupon.remainingLimit
          /\ coupon'.maxLimitPerUser = coupon.maxLimitPerUser
      BY <2>1 DEF Clock, CacheExpires, vars, IInv, TypeOK, Row
    <3>2. QED
      BY <3>1, InvAside
  <2>2. ASSUME NEW a \in Admins,
               \/ ReadCached(a) \/ LoadCoupon(a) \/ FillCache(a)
               \/ RefreshCache(a) \/ Leave(a)
        PROVE  Rest'
    <3>1. UNCHANGED <<coupon, redeemed, overlap, edited, order>>
      BY <2>2 DEF ReadCached, LoadCoupon, FillCache, RefreshCache, Leave
    <3>2. QED
      BY <3>1, InvAside
  <2>3. ASSUME NEW a \in Admins, updateCoupon(a) PROVE Rest'
    <3>1. UNCHANGED <<redeemed, overlap, order>>
      BY <2>3 DEF updateCoupon
    <3>2. QED
      BY <2>3, <3>1, WrittenRow, InvAside DEF IInv
  <2>4. ASSUME NEW o \in Orders, FindCoupon(o) PROVE Rest'
    BY <2>4, InvFindCoupon
  <2>5. ASSUME NEW o \in Orders, CountRedeems(o) PROVE Rest'
    BY <2>5, InvOrderMoves DEF CountRedeems, IInv, NotYetRedeemed, OrderStep
  <2>6. ASSUME NEW o \in Orders, redeemCoupon(o) PROVE Rest'
    BY <2>6, InvRedeem
  <2>7. ASSUME NEW o \in Orders, RollbackOrder(o) PROVE Rest'
    BY <2>7, InvOrderMoves DEF RollbackOrder, IInv, NotYetRedeemed, OrderStep
  <2>8. ASSUME NEW o \in Orders, InvalidateCoupon(o) PROVE Rest'
    BY <2>8, InvOrderMoves DEF InvalidateCoupon, OrderStep
  <2>9. QED
    BY <2>1, <2>2, <2>3, <2>4, <2>5, <2>6, <2>7, <2>8 DEF Next
<1>3. QED
  BY <1>1, <1>2 DEF IInv

\* The strengthening from which the two theorems below follow.
THEOREM InvCorrect == Spec => []IInv
<1>1. Init => IInv
  BY InvInit
<1>2. IInv /\ [Next]_vars => IInv'
  BY InvStep
<1>3. QED
  BY <1>1, <1>2, PTL DEF Spec

\* Concurrent redemptions, rollbacks and edits of the other columns neither
\* lose nor invent a unit of the limit: what is redeemed and what remains add
\* up to maxLimit.
THEOREM Accounted == Spec => []RedemptionsAccounted
<1>1. IInv => RedemptionsAccounted
  BY DEF IInv
<1>2. QED
  BY <1>1, InvCorrect, PTL

\* A user whose orders never overlap stays within maxLimitPerUser, whatever
\* other users and the admins do in between.
THEOREM SerialUser == Spec => []SerialUserWithinLimit
<1>1. IInv => SerialUserWithinLimit
  BY DEF IInv
<1>2. QED
  BY <1>1, InvCorrect, PTL

-----------------------------------------------------------------------------
(* The refinement of the ledger.                                           *)

Users == {UserOf[o] : o \in Orders}
Used == [u \in Users |-> Cardinality(RedeemedBy(u))]

\* A commit redeems a unit that was there for a user who was allowed it.
LEMMA CommitRedeems ==
  ASSUME IInv, NEW o \in Orders, redeemCoupon(o)
  PROVE  Ledger!Redeem(UserOf[o])
<1>1. /\ coupon.remainingLimit > 0
      /\ coupon'.remainingLimit = coupon.remainingLimit - 1
      /\ coupon'.maxLimit = coupon.maxLimit
      /\ coupon'.maxLimitPerUser = coupon.maxLimitPerUser
      /\ UNCHANGED <<overlap, edited>>
      /\ order[o].step = "redeem"
  BY DEF IInv, TypeOK, redeemCoupon, Row
<1>2. /\ UserOf[o] \in Users
      /\ Used[UserOf[o]] = Cardinality(RedeemedBy(UserOf[o]))
  BY DEF Used, Users
<1>3. UserOf[o] \in overlap \/ "perUser" \in edited \/ Used[UserOf[o]] < coupon.maxLimitPerUser
  <2> SUFFICES ASSUME UserOf[o] \notin overlap, "perUser" \notin edited
               PROVE  Cardinality(RedeemedBy(UserOf[o])) < coupon.maxLimitPerUser
    BY <1>2
  <2>1. Cardinality(RedeemedBy(UserOf[o])) < order[o].perUser
    BY <1>1 DEF IInv, CountStillHolds
  <2>2. order[o].perUser = coupon.maxLimitPerUser
    BY <1>1 DEF IInv, PerUserKnown
  <2>3. QED
    BY <2>1, <2>2
<1>4. Used' = [Used EXCEPT ![UserOf[o]] = @ + 1]
  <2>1. /\ Cardinality(RedeemedBy(UserOf[o])') = Cardinality(RedeemedBy(UserOf[o])) + 1
        /\ \A u : u # UserOf[o] => RedeemedBy(u)' = RedeemedBy(u)
    BY OneMore DEF IInv
  <2>2. QED
    BY <1>2, <2>1 DEF Used, Users
<1>5. QED
  BY <1>1, <1>3, <1>4 DEF Ledger!Redeem, Used, Users

\* Every other step redeems nothing: it edits, marks a user, or stutters.
LEMMA LedgerStep ==
  ASSUME IInv, [Next]_vars
  PROVE  [Ledger!Next]_(Ledger!vars)
<1> USE DEF Ledger!vars, Ledger!Next
<1>1. ASSUME UNCHANGED redeemed PROVE Used' = Used
  BY <1>1 DEF Used, RedeemedBy
<1>2. ASSUME /\ UNCHANGED <<redeemed, overlap, edited>>
             /\ coupon'.maxLimit = coupon.maxLimit
             /\ coupon'.remainingLimit = coupon.remainingLimit
             /\ coupon'.maxLimitPerUser = coupon.maxLimitPerUser
      PROVE  UNCHANGED Ledger!vars
  BY <1>1, <1>2 DEF Used, Users
<1>3. CASE Clock \/ CacheExpires \/ UNCHANGED vars
  BY <1>2, <1>3 DEF Clock, CacheExpires, vars, IInv, TypeOK, Row
<1>4. ASSUME NEW a \in Admins,
             \/ ReadCached(a) \/ LoadCoupon(a) \/ FillCache(a)
             \/ RefreshCache(a) \/ Leave(a)
      PROVE  UNCHANGED Ledger!vars
  BY <1>2, <1>4 DEF ReadCached, LoadCoupon, FillCache, RefreshCache, Leave
<1>5. ASSUME NEW o \in Orders,
             CountRedeems(o) \/ RollbackOrder(o) \/ InvalidateCoupon(o)
      PROVE  UNCHANGED Ledger!vars
  BY <1>2, <1>5 DEF CountRedeems, RollbackOrder, InvalidateCoupon
<1>6. ASSUME NEW o \in Orders, FindCoupon(o)
      PROVE  UNCHANGED Ledger!vars \/ Ledger!Hurry(UserOf[o])
  <2>1. /\ UNCHANGED <<coupon, redeemed, edited>>
        /\ overlap' = overlap \/ overlap' = overlap \cup {UserOf[o]}
    BY <1>6 DEF FindCoupon
  <2>2. QED
    BY <1>1, <2>1 DEF Ledger!Hurry, Used, Users
<1>7. ASSUME NEW a \in Admins, updateCoupon(a) PROVE Ledger!Edit
  <2>1. UNCHANGED <<redeemed, overlap>>
    BY <1>7 DEF updateCoupon
  <2>2. /\ coupon'.maxLimit \in Nat
        /\ coupon'.remainingLimit \in 0 .. coupon'.maxLimit
    BY <1>7, WrittenRow DEF IInv, Row
  <2>3. QED
    BY <1>1, <1>7, <2>1, <2>2, WrittenRow DEF Ledger!Edit, IInv, Used, Users
<1>8. ASSUME NEW o \in Orders, redeemCoupon(o) PROVE Ledger!Redeem(UserOf[o])
  BY <1>8, CommitRedeems
<1>9. \A o \in Orders : UserOf[o] \in Users
  BY DEF Users
<1>10. QED
  BY <1>3, <1>4, <1>5, <1>6, <1>7, <1>8, <1>9 DEF Next, Users

\* Orders and admins implement the abstract ledger of the coupon.
THEOREM LedgerImplemented == Spec => ImplementsLedger
<1>1. Init => Ledger!Init
  <2> SUFFICES ASSUME Init PROVE Ledger!Init
    OBVIOUS
  <2>1. \A u : Cardinality(RedeemedBy(u)) = 0
    BY FS_EmptySet DEF Init, RedeemedBy
  <2>2. QED
    BY <2>1 DEF Init, Ledger!Init
<1>2. IInv /\ [Next]_vars => [Ledger!Next]_(Ledger!vars)
  BY LedgerStep
<1>3. QED
  BY <1>1, <1>2, InvCorrect, PTL DEF Spec, ImplementsLedger, Ledger!Spec

=============================================================================
