------------------------------ MODULE Coupons -------------------------------
(***************************************************************************)
(* One coupon: its row, the rows of coupon_redeems, its copy in Redis, the *)
(* order transactions that redeem it and the admins that edit it.          *)
(* redeemCoupon reads the coupon and counts the user's redemptions without *)
(* a lock and then decrements remainingLimit under the guard > 0; the rest *)
(* of the order's transaction either commits with it or undoes it.         *)
(* updateCoupon computes the new remainingLimit from the cached coupon.    *)
(***************************************************************************)
EXTENDS Integers, FiniteSets

CONSTANTS
    Orders,             \* order requests with this coupon's code
    UserOf,             \* UserOf[o]: the user who places o
    Admins,             \* requests for the coupon's details or its update
    MaxLimit,           \* createCoupon's maxLimit
    MaxLimitPerUser,    \* createCoupon's maxLimitPerUser
    NewLimits,          \* maxLimits an update may carry (bound)
    NewPerUser,         \* maxLimitPerUsers an update may carry (bound)
    NoEntry             \* an absent Redis key

\* A stored coupon; usable is status ACTIVE and startAt <= now <= endAt.
Row == [maxLimit : Nat, remainingLimit : Nat, maxLimitPerUser : Nat,
        usable : BOOLEAN]

ASSUME OrdersAssumption == IsFiniteSet(Orders)

ASSUME LimitsAssumption ==
    /\ MaxLimit \in Nat \ {0}
    /\ MaxLimitPerUser \in 1..MaxLimit
    /\ NewLimits \subseteq Nat \ {0}
    /\ NewPerUser \subseteq Nat \ {0}

ASSUME NoEntryAssumption == NoEntry \notin Row

VARIABLES
    coupon,     \* the coupons row
    redeemed,   \* the orders that have a coupon_redeems row
    overlap,    \* ghost: users who had two redemptions in flight at once
    edited,     \* ghost: which limits an update has written
    order,      \* order[o]: the step o's handler does next, and the per-user
                \* limit it has read
    cached,     \* the Redis copy that getCouponById and updateCoupon use
    admin       \* admin[a]: the step a does next, and the row it has read

vars == <<coupon, redeemed, overlap, edited, order, cached, admin>>

-----------------------------------------------------------------------------
OrderStep == {"new", "count", "redeem", "invalidate", "done"}
Idle == [step |-> "idle"]
Loading == [step |-> "load"]

TypeOK ==
    /\ coupon \in Row
    /\ redeemed \subseteq Orders
    /\ order \in [Orders -> [step : OrderStep, perUser : Nat]]
    /\ edited \subseteq {"limit", "perUser"}
    /\ cached \in Row \cup {NoEntry}
    /\ admin \in [Admins -> {Idle, Loading} \cup
                                [step : {"fill", "update", "refresh"}, seen : Row]]

Of(u) == {o \in Orders : UserOf[o] = u}
RedeemedBy(u) == redeemed \cap Of(u)
InFlight(u) == {o \in Of(u) : order[o].step \in {"count", "redeem"}}

\* createCoupon has stored the coupon, INACTIVE by default, and cached it.
Init ==
    /\ coupon = [maxLimit |-> MaxLimit, remainingLimit |-> MaxLimit,
                 maxLimitPerUser |-> MaxLimitPerUser, usable |-> FALSE]
    /\ redeemed = {}
    /\ overlap = {}
    /\ edited = {}
    /\ order = [o \in Orders |-> [step |-> "new", perUser |-> 0]]
    /\ cached = coupon
    /\ admin = [a \in Admins |-> Idle]

-----------------------------------------------------------------------------
(* An order with the coupon.                                               *)

Goto(o, step) == order' = [order EXCEPT ![o].step = step]

\* redeemCoupon reads the coupon and tests status, dates and remainingLimit.
FindCoupon(o) ==
    /\ order[o].step = "new"
    /\ coupon.usable
    /\ coupon.remainingLimit > 0
    /\ order' = [order EXCEPT ![o] = [step |-> "count",
                                      perUser |-> coupon.maxLimitPerUser]]
    /\ overlap' = overlap \cup {u \in {UserOf[o]} : InFlight(u) # {}}
    /\ UNCHANGED <<coupon, redeemed, edited, cached, admin>>

\* Slip: the comparison lets the user have one more.
CountRedeems_offByOne(o) ==
    /\ order[o].step = "count"
    /\ IF Cardinality(RedeemedBy(UserOf[o])) <= order[o].perUser
       THEN Goto(o, "redeem") ELSE Goto(o, "new")
    /\ UNCHANGED <<coupon, redeemed, overlap, edited, cached, admin>>

CountRedeems(o) ==
    /\ order[o].step = "count"
    /\ IF Cardinality(RedeemedBy(UserOf[o])) < order[o].perUser
       THEN Goto(o, "redeem") ELSE Goto(o, "new")
    /\ UNCHANGED <<coupon, redeemed, overlap, edited, cached, admin>>

\* Slip: the decrement trusts the remainingLimit that was read.
redeemCoupon_unguarded(o) ==
    /\ order[o].step = "redeem"
    /\ coupon' = [coupon EXCEPT !.remainingLimit = @ - 1]
    /\ redeemed' = redeemed \cup {o}
    /\ Goto(o, "invalidate")
    /\ UNCHANGED <<overlap, edited, cached, admin>>

\* The guarded decrement and the coupon_redeems row, committed with the order.
redeemCoupon(o) ==
    /\ order[o].step = "redeem"
    /\ coupon.remainingLimit > 0
    /\ coupon' = [coupon EXCEPT !.remainingLimit = @ - 1]
    /\ redeemed' = redeemed \cup {o}
    /\ Goto(o, "invalidate")
    /\ UNCHANGED <<overlap, edited, cached, admin>>

\* Slip: the decrement is made outside the transaction and stays.
RollbackOrder_keepsDecrement(o) ==
    /\ order[o].step = "redeem"
    /\ coupon.remainingLimit > 0
    /\ coupon' = [coupon EXCEPT !.remainingLimit = @ - 1]
    /\ Goto(o, "new")
    /\ UNCHANGED <<redeemed, overlap, edited, cached, admin>>

\* The decrement matches no row, the stock does not suffice or the transaction
\* fails otherwise: nothing of it stays, and the user may order again.
RollbackOrder(o) ==
    /\ order[o].step \in {"count", "redeem"}
    /\ Goto(o, "new")
    /\ UNCHANGED <<coupon, redeemed, overlap, edited, cached, admin>>

\* createOrderAndReserveStock deletes the cached coupon after the commit, if
\* Redis answers and the process is still there.
InvalidateCoupon(o) ==
    /\ order[o].step = "invalidate"
    /\ cached' \in {NoEntry, cached}
    /\ Goto(o, "done")
    /\ UNCHANGED <<coupon, redeemed, overlap, edited, admin>>

-----------------------------------------------------------------------------
(* Reading and editing the coupon.                                         *)

Become(a, state) == admin' = [admin EXCEPT ![a] = state]
Holding(step, row) == [step |-> step, seen |-> row]

\* getCouponById: the cached row, or ...
ReadCached(a) ==
    /\ admin[a] = Idle
    /\ Become(a, IF cached = NoEntry THEN Loading ELSE Holding("update", cached))
    /\ UNCHANGED <<coupon, redeemed, overlap, edited, order, cached>>

LoadCoupon(a) ==
    /\ admin[a] = Loading
    /\ Become(a, Holding("fill", coupon))
    /\ UNCHANGED <<coupon, redeemed, overlap, edited, order, cached>>

\* ... the row from the database, which is put in the cache on the way.
FillCache(a) ==
    /\ admin[a].step = "fill"
    /\ cached' = admin[a].seen
    /\ Become(a, Holding("update", admin[a].seen))
    /\ UNCHANGED <<coupon, redeemed, overlap, edited, order>>

\* The payload's maxLimitPerUser, at most the limit, or none.
PerUserUpTo(limit) == {n \in NewPerUser : n <= limit} \cup {coupon.maxLimitPerUser}

\* The update statement: a maxLimit sets remainingLimit to what is left of it
\* by the row that was seen, status and dates may change, too.
Write(limits, n, remaining, perUser, usable) ==
    /\ coupon' = [maxLimit |-> n, remainingLimit |-> remaining,
                  maxLimitPerUser |-> perUser, usable |-> usable]
    /\ edited' = edited \cup limits
                    \cup {f \in {"perUser"} : perUser # coupon.maxLimitPerUser}

\* Slip: remainingLimit is written even if the payload has no maxLimit.
updateCoupon_alwaysRemaining(a) ==
    /\ admin[a].step = "update"
    /\ LET seen == admin[a].seen
           redeemedCount == seen.maxLimit - seen.remainingLimit
       IN  \E n \in NewLimits \cup {coupon.maxLimit}, usable \in BOOLEAN :
             \E perUser \in PerUserUpTo(n) :
                /\ n >= redeemedCount
                /\ Write({f \in {"limit"} : n # coupon.maxLimit}, n, n - redeemedCount, perUser, usable)
    /\ Become(a, Holding("refresh", coupon'))
    /\ UNCHANGED <<redeemed, overlap, order, cached>>

updateCoupon(a) ==
    /\ admin[a].step = "update"
    /\ LET seen == admin[a].seen
           redeemedCount == seen.maxLimit - seen.remainingLimit
       IN  \/ \E n \in NewLimits, usable \in BOOLEAN :
                \E perUser \in PerUserUpTo(n) :
                    /\ n >= redeemedCount
                    /\ Write({"limit"}, n, n - redeemedCount, perUser, usable)
           \/ \E perUser \in PerUserUpTo(seen.maxLimit), usable \in BOOLEAN :
                Write({}, coupon.maxLimit, coupon.remainingLimit, perUser, usable)
    /\ Become(a, Holding("refresh", coupon'))
    /\ UNCHANGED <<redeemed, overlap, order, cached>>

\* The updated row is written through to the cache.
RefreshCache(a) ==
    /\ admin[a].step = "refresh"
    /\ cached' = admin[a].seen
    /\ Become(a, Idle)
    /\ UNCHANGED <<coupon, redeemed, overlap, edited, order>>

\* A plain GET ends after its read, a refused payload before its write, and an
\* exception anywhere.
Leave(a) ==
    /\ admin[a] # Idle
    /\ Become(a, Idle)
    /\ UNCHANGED <<coupon, redeemed, overlap, edited, order, cached>>

-----------------------------------------------------------------------------
\* The clock passes startAt or endAt.
Clock ==
    /\ coupon' = [coupon EXCEPT !.usable = ~ @]
    /\ UNCHANGED <<redeemed, overlap, edited, order, cached, admin>>

CacheExpires ==
    /\ cached # NoEntry
    /\ cached' = NoEntry
    /\ UNCHANGED <<coupon, redeemed, overlap, edited, order, admin>>

Next ==
    \/ Clock
    \/ CacheExpires
    \/ \E o \in Orders :
        \/ FindCoupon(o)
        \/ CountRedeems(o)
        \/ redeemCoupon(o)
        \/ RollbackOrder(o)
        \/ InvalidateCoupon(o)
    \/ \E a \in Admins :
        \/ ReadCached(a)
        \/ LoadCoupon(a)
        \/ FillCache(a)
        \/ updateCoupon(a)
        \/ RefreshCache(a)
        \/ Leave(a)

Spec == Init /\ [][Next]_vars

-----------------------------------------------------------------------------
\* Until an update carries a maxLimit, every unit of the limit is either left
\* or has its coupon_redeems row: concurrent redemptions for the last one,
\* rolled back orders and edits of the other columns lose and invent none.
RedemptionsAccounted ==
    "limit" \notin edited =>
        Cardinality(redeemed) + coupon.remainingLimit = coupon.maxLimit

\* A user who places one order at a time stays within maxLimitPerUser, though
\* the count is read before the transaction's first lock and other users
\* redeem in between (until an update carries a maxLimitPerUser).
SerialUserWithinLimit ==
    "perUser" \notin edited =>
        \A o \in Orders :
            UserOf[o] \notin overlap =>
                Cardinality(RedeemedBy(UserOf[o])) <= coupon.maxLimitPerUser

\* remainingLimit stays between 0 and maxLimit, in the row and in every copy of
\* it, although updates write a remainingLimit computed from a stale copy while
\* orders decrement it.
RemainingWithinLimit ==
    /\ coupon.remainingLimit \in 0 .. coupon.maxLimit
    /\ cached # NoEntry => cached.remainingLimit \in 0 .. cached.maxLimit
    /\ \A a \in Admins :
        admin[a] \notin {Idle, Loading} =>
            admin[a].seen.remainingLimit \in 0 .. admin[a].seen.maxLimit

Ledger == INSTANCE CouponLedger
            WITH Users <- {UserOf[o] : o \in Orders},
                 limit <- coupon.maxLimit,
                 remaining <- coupon.remainingLimit,
                 perUser <- coupon.maxLimitPerUser,
                 used <- [u \in {UserOf[o] : o \in Orders} |-> Cardinality(RedeemedBy(u))],
                 hasty <- overlap

\* Every step of the orders and the admins is a move of the abstract ledger:
\* between two awaits of one order others redeem, roll back and edit, and yet
\* each redemption takes a unit that was there, from a user who was still
\* allowed one, and stays.
ImplementsLedger == Ledger!Spec

-----------------------------------------------------------------------------
(* Why the properties hold.                                                *)

\* A redemption in flight has no coupon_redeems row yet.
NotYetRedeemed ==
    \A o \in Orders :
        order[o].step \in {"new", "count", "redeem"} => o \notin redeemed

\* Every handler has read the one maxLimitPerUser there is.
PerUserKnown ==
    "perUser" \notin edited =>
        \A o \in Orders :
            order[o].step \in {"count", "redeem"} =>
                order[o].perUser = coupon.maxLimitPerUser

\* The count of a user's only redemption in flight still holds at its commit.
CountStillHolds ==
    \A o \in Orders :
        UserOf[o] \notin overlap =>
            /\ \A q \in InFlight(UserOf[o]) : o \in InFlight(UserOf[o]) => q = o
            /\ order[o].step = "redeem" =>
                Cardinality(RedeemedBy(UserOf[o])) < order[o].perUser

IInv ==
    /\ TypeOK
    /\ NotYetRedeemed
    /\ PerUserKnown
    /\ CountStillHolds
    /\ RemainingWithinLimit
    /\ RedemptionsAccounted
    /\ SerialUserWithinLimit

=============================================================================
