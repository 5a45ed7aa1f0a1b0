----------------------------- MODULE RateLimit ------------------------------
(***************************************************************************)
(* Rate limiting of one route: the Lua script of redis.service.ts and the  *)
(* throttlers in front of the handler.  A request passes one throttler     *)
(* after the other, and other requests come in between; a throttler counts *)
(* per tracker (a user, an IP, an account), under two keys in Redis.       *)
(***************************************************************************)
EXTENDS Integers, Sequences, FiniteSets

CONSTANTS
    Requests,       \* requests that may be under way at once
    Trackers,       \* of both throttlers; none belongs to two
    Paths,          \* the trackers a request meets, in order
    LIMIT, TTL,     \* of the route's policy
    BLOCK           \* how long a tracker is blocked; the guard takes the TTL

ASSUME PathAssumption == Paths \subseteq Seq(Trackers)

ASSUME PolicyAssumption == /\ LIMIT \in Nat \ {0}
                           /\ TTL \in Nat \ {0}
                           /\ BLOCK \in Nat
                           /\ BLOCK >= TTL

VARIABLES
    hits,       \* hits[k]: the counter of the tracker k and the time it has left
    blocked,    \* blocked[k]: the time left to the key that blocks k
    request,    \* request[r]: the trackers before the request r
    told,       \* ghost: told[k]: the longest of the times to wait that requests
                \* k refused were told, as far as it has not run out
    log         \* ghost: log[k][t]: requests k let pass t ago

vars == <<hits, blocked, request, told, log>>

\* A key with no time left lives until the next tick; then it is gone.
Gone == -1
Left(max) == Gone .. max
Live(left) == left # Gone
NoCounter == [count |-> 0, left |-> Gone]
Ages == 0 .. TTL

TypeOK ==
    /\ hits \in [Trackers -> [count : Nat, left : Left(TTL)]]
    /\ blocked \in [Trackers -> Left(BLOCK)]
    /\ request \in [Requests -> Seq(Trackers)]
    /\ told \in [Trackers -> Left(BLOCK)]
    /\ log \in [Trackers -> [Ages -> Nat]]

Init ==
    /\ hits = [k \in Trackers |-> NoCounter]
    /\ blocked = [k \in Trackers |-> Gone]
    /\ request = [r \in Requests |-> <<>>]
    /\ told = [k \in Trackers |-> Gone]
    /\ log = [k \in Trackers |-> [t \in Ages |-> 0]]

-----------------------------------------------------------------------------
Under(r) == request[r] # <<>>
Tracker(r) == Head(request[r])

\* blockedTtl > 0.
Blocked(k) == blocked[k] > 0

\* INCR, and PEXPIRE if the counter is new.
Counted(k) ==
    IF Live(hits[k].left) THEN [hits[k] EXCEPT !.count = @ + 1]
    ELSE [count |-> 1, left |-> TTL]

\* Slip: the hit after the limit passes.
Over_late(k) == Counted(k).count > LIMIT + 1

Over(k) == Counted(k).count > LIMIT

\* Slip: the block ends with the window, whatever is told.
BlockTime_ofWindow(k) == Counted(k).left

\* Slip: a time of milliseconds is given in seconds.
BlockTime_short(k) == 1

BlockTime(k) == BLOCK

Count(k) ==
    /\ hits' = [hits EXCEPT ![k] = Counted(k)]
    /\ blocked' = IF Over(k) THEN [blocked EXCEPT ![k] = BlockTime(k)] ELSE blocked

\* timeToBlockExpire: the milliseconds that the script answers.
Wait(k) == IF Blocked(k) THEN blocked[k] ELSE BLOCK

Arrive(r) ==
    /\ ~Under(r)
    /\ \E path \in Paths : request' = [request EXCEPT ![r] = path]
    /\ UNCHANGED <<hits, blocked, told, log>>

Pass(r) ==
    LET k == Tracker(r)
    IN  /\ Under(r)
        /\ ~Blocked(k) /\ ~Over(k)
        /\ Count(k)
        /\ request' = [request EXCEPT ![r] = Tail(@)]
        /\ log' = [log EXCEPT ![k][0] = @ + 1]
        /\ UNCHANGED told

Refuse(r) ==
    LET k == Tracker(r)
    IN  /\ Under(r)
        /\ \/ Blocked(k) /\ UNCHANGED <<hits, blocked>>
           \/ ~Blocked(k) /\ Over(k) /\ Count(k)
        /\ request' = [request EXCEPT ![r] = <<>>]
        /\ told' = [told EXCEPT ![k] = IF @ > Wait(k) THEN @ ELSE Wait(k)]
        /\ UNCHANGED log

\* Redis cannot be reached, or its answer is lost: the request fails, and may
\* have been counted.
ThrottlerFails(r) ==
    LET k == Tracker(r)
    IN  /\ Under(r)
        /\ \/ UNCHANGED <<hits, blocked>>
           \/ ~Blocked(k) /\ Count(k)
        /\ request' = [request EXCEPT ![r] = <<>>]
        /\ UNCHANGED <<told, log>>

Less(left) == IF left = Gone THEN Gone ELSE left - 1

Tick ==
    /\ hits' = [k \in Trackers |-> IF hits[k].left <= 0 THEN NoCounter
                                  ELSE [hits[k] EXCEPT !.left = @ - 1]]
    /\ blocked' = [k \in Trackers |-> Less(blocked[k])]
    /\ told' = [k \in Trackers |-> Less(told[k])]
    /\ log' = [k \in Trackers |->
                [t \in Ages |-> IF t = 0 THEN 0 ELSE log[k][t - 1]]]
    /\ UNCHANGED request

Next ==
    \/ Tick
    \/ \E r \in Requests :
        \/ Arrive(r)
        \/ Pass(r)
        \/ Refuse(r)
        \/ ThrottlerFails(r)

Spec == Init /\ [][Next]_vars

-----------------------------------------------------------------------------
\* The requests let pass at the given ages, by a tracker with that past.
LetThrough(past, ages) == UNION {{t} \X (1 .. past[t]) : t \in ages}

\* redis.service.ts:22-29: any stretch as long as the window may see two windows,
\* as the window is fixed, but never more than two times the limit, whoever else
\* is between two throttlers and whatever fails.
AnyWindowWithinTwice ==
    \A k \in Trackers : Cardinality(LetThrough(log[k], Ages)) <= 2 * LIMIT

\* redis.service.ts:13-20, :30: nothing passes a tracker while the time lasts
\* that a request was told to wait for it.
RefusedWaits ==
    [][\A k \in Trackers : log'[k][0] > log[k][0] => told[k] <= 0]_vars

\* redis.service.ts:29: a counter above the limit does not outlive the block, so
\* who has waited finds a new window and not the old one; and the block lasts as
\* long as anybody has been told to wait.
BlockCovers ==
    \A k \in Trackers :
        /\ hits[k].count > LIMIT => hits[k].left <= blocked[k]
        /\ told[k] <= blocked[k]

\* redis.service.ts:22-25: the ages since the counter of k was new, if it has one.
InWindow(k) == {t \in Ages : Live(hits[k].left) /\ t <= TTL - hits[k].left}

\* What passes is counted, so the window under way has let no more pass than its
\* counter says and its limit allows; what is left of the time before it saw no
\* more than one other window; and nothing passes without a counter.
WindowsOf(k) ==
    /\ Cardinality(LetThrough(log[k], InWindow(k))) <= hits[k].count
    /\ Cardinality(LetThrough(log[k], InWindow(k))) <= LIMIT
    /\ Cardinality(LetThrough(log[k], Ages \ InWindow(k))) <= LIMIT
    /\ ~Live(hits[k].left) => log[k][0] = 0

TwoWindows == \A k \in Trackers : WindowsOf(k)

\* Why RefusedWaits and AnyWindowWithinTwice hold.
IInv == TypeOK /\ BlockCovers /\ TwoWindows

=============================================================================
