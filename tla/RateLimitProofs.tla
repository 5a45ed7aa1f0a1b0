-------------------------- MODULE RateLimitProofs ---------------------------
(***************************************************************************)
(* Theorems about RateLimit, for every number of requests and trackers,    *)
(* every limit, window and block.                                          *)
(***************************************************************************)
EXTENDS RateLimit, FiniteSetTheorems, FunctionTheorems, TLAPS

USE PolicyAssumption DEF Left, Gone, Ages, Live

-----------------------------------------------------------------------------
(* The counters and the blocks.                                            *)

Base == TypeOK /\ BlockCovers

\* A throttler that counts a hit.
LEMMA CountKeeps ==
    ASSUME Base, NEW k \in Trackers, ~Blocked(k), Count(k)
    PROVE  /\ hits' \in [Trackers -> [count : Nat, left : Left(TTL)]]
           /\ blocked' \in [Trackers -> Left(BLOCK)]
           /\ \A j \in Trackers :
                /\ hits'[j].count > LIMIT => hits'[j].left <= blocked'[j]
                /\ blocked[j] <= blocked'[j]
           /\ Over(k) => blocked'[k] = BLOCK
  <1>1. Counted(k) \in [count : Nat, left : Left(TTL)]
    BY DEF Base, TypeOK, Counted
  <1>2. hits' \in [Trackers -> [count : Nat, left : Left(TTL)]]
    BY <1>1 DEF Base, TypeOK, Count
  <1>3. blocked' \in [Trackers -> Left(BLOCK)]
    BY DEF Base, TypeOK, Count, BlockTime
  <1>4. Over(k) => blocked'[k] = BLOCK
    BY DEF Base, TypeOK, Count, BlockTime
  <1>5. ASSUME NEW j \in Trackers
        PROVE  /\ hits'[j].count > LIMIT => hits'[j].left <= blocked'[j]
               /\ blocked[j] <= blocked'[j]
    <2>1. CASE j # k
      BY <2>1 DEF Base, TypeOK, BlockCovers, Count
    <2>2. CASE j = k /\ Over(k)
      BY <2>2, <1>1, <1>4 DEF Base, TypeOK, Count
    <2>3. CASE j = k /\ ~Over(k)
      BY <2>3, <1>1 DEF Base, TypeOK, Count, Over
    <2> QED
      BY <2>1, <2>2, <2>3
  <1> QED
    BY <1>2, <1>3, <1>4, <1>5

LEMMA InitBase == Init => Base
  BY DEF Init, Base, TypeOK, BlockCovers, NoCounter

LEMMA ArriveKeeps ==
    ASSUME Base, NEW r \in Requests, Arrive(r)
    PROVE  Base'
  BY PathAssumption DEF Base, TypeOK, BlockCovers, Arrive

LEMMA TrackerOfRequest ==
    ASSUME TypeOK, NEW r \in Requests, Under(r)
    PROVE  /\ Tracker(r) \in Trackers
           /\ Tail(request[r]) \in Seq(Trackers)
  BY DEF TypeOK, Under, Tracker

LEMMA PassKeeps ==
    ASSUME Base, NEW r \in Requests, Pass(r)
    PROVE  Base'
  <1> DEFINE k == Tracker(r)
  <1>1. k \in Trackers /\ Tail(request[r]) \in Seq(Trackers)
    BY TrackerOfRequest DEF Base, Pass
  <1>2. ~Blocked(k) /\ Count(k)
    BY DEF Pass
  <1>3. /\ hits' \in [Trackers -> [count : Nat, left : Left(TTL)]]
        /\ blocked' \in [Trackers -> Left(BLOCK)]
        /\ \A j \in Trackers :
            /\ hits'[j].count > LIMIT => hits'[j].left <= blocked'[j]
            /\ blocked[j] <= blocked'[j]
    BY <1>1, <1>2, CountKeeps
  <1>4. request' \in [Requests -> Seq(Trackers)]
    BY <1>1 DEF Pass, Base, TypeOK
  <1>5. log' \in [Trackers -> [Ages -> Nat]]
    <2>1. log' = [log EXCEPT ![k] = [log[k] EXCEPT ![0] = log[k][0] + 1]]
      BY DEF Pass
    <2> HIDE DEF k
    <2>2. log[k] \in [Ages -> Nat]
      BY <1>1 DEF Base, TypeOK
    <2>3. [log[k] EXCEPT ![0] = log[k][0] + 1] \in [Ages -> Nat]
      BY <2>2
    <2> QED
      BY <1>1, <2>1, <2>3 DEF Base, TypeOK
  <1>6. told' = told
    BY DEF Pass
  <1>7. BlockCovers'
    BY <1>3, <1>6 DEF BlockCovers, Base, TypeOK
  <1> QED
    BY <1>3, <1>4, <1>5, <1>6, <1>7 DEF Base, TypeOK

LEMMA RefuseKeeps ==
    ASSUME Base, NEW r \in Requests, Refuse(r)
    PROVE  Base'
  <1> DEFINE k == Tracker(r)
  <1>1. k \in Trackers
    BY TrackerOfRequest DEF Base, Refuse
  <1>2. request' \in [Requests -> Seq(Trackers)] /\ log' = log
    BY DEF Refuse, Base, TypeOK
  <1>3. told' = [told EXCEPT ![k] = IF @ > Wait(k) THEN @ ELSE Wait(k)]
    BY DEF Refuse
  <1>4. CASE Blocked(k) /\ UNCHANGED <<hits, blocked>>
    <2>1. Wait(k) = blocked[k]
      BY <1>4 DEF Wait
    <2> QED
      <3> HIDE DEF k
      <3>1. told' \in [Trackers -> Left(BLOCK)]
        BY <1>1, <1>3, <2>1 DEF Base, TypeOK
      <3>2. \A j \in Trackers : told'[j] <= blocked[j]
        BY <1>1, <1>3, <2>1 DEF Base, TypeOK, BlockCovers
      <3> QED
        BY <1>2, <1>4, <3>1, <3>2 DEF Base, TypeOK, BlockCovers
  <1>5. CASE ~Blocked(k) /\ Over(k) /\ Count(k)
    <2>1. Wait(k) = BLOCK
      BY <1>5 DEF Wait
    <2>2. /\ hits' \in [Trackers -> [count : Nat, left : Left(TTL)]]
          /\ blocked' \in [Trackers -> Left(BLOCK)]
          /\ \A j \in Trackers :
            /\ hits'[j].count > LIMIT => hits'[j].left <= blocked'[j]
            /\ blocked[j] <= blocked'[j]
          /\ blocked'[k] = BLOCK
      BY <1>1, <1>5, CountKeeps
    <2> HIDE DEF k
    <2>3. told' \in [Trackers -> Left(BLOCK)]
      BY <1>1, <1>3, <2>1 DEF Base, TypeOK
    <2>4. ASSUME NEW j \in Trackers
          PROVE  told'[j] <= blocked'[j]
      <3>1. CASE j = k
        BY <3>1, <1>1, <2>2, <2>3
      <3>2. CASE j # k
        <4>1. told'[j] = told[j]
          BY <3>2, <1>3 DEF Base, TypeOK
        <4>2. told[j] <= blocked[j] /\ blocked[j] <= blocked'[j]
          BY <2>2 DEF Base, BlockCovers
        <4>3. told[j] \in Int /\ blocked[j] \in Int /\ blocked'[j] \in Int
          BY <2>2 DEF Base, TypeOK
        <4> QED
          BY <4>1, <4>2, <4>3
      <3> QED
        BY <3>1, <3>2
    <2> QED
      BY <1>2, <2>2, <2>3, <2>4 DEF Base, TypeOK, BlockCovers
  <1> QED
    BY <1>4, <1>5 DEF Refuse

LEMMA ThrottlerFailsKeeps ==
    ASSUME Base, NEW r \in Requests, ThrottlerFails(r)
    PROVE  Base'
  <1> DEFINE k == Tracker(r)
  <1>1. k \in Trackers
    BY TrackerOfRequest DEF Base, ThrottlerFails
  <1>2. request' \in [Requests -> Seq(Trackers)] /\ log' = log /\ told' = told
    BY DEF ThrottlerFails, Base, TypeOK
  <1>3. CASE UNCHANGED <<hits, blocked>>
    BY <1>2, <1>3 DEF Base, TypeOK, BlockCovers
  <1>4. CASE ~Blocked(k) /\ Count(k)
    <2>1. /\ hits' \in [Trackers -> [count : Nat, left : Left(TTL)]]
          /\ blocked' \in [Trackers -> Left(BLOCK)]
          /\ \A j \in Trackers :
            /\ hits'[j].count > LIMIT => hits'[j].left <= blocked'[j]
            /\ blocked[j] <= blocked'[j]
      BY <1>1, <1>4, CountKeeps
    <2>2. BlockCovers'
      BY <1>2, <2>1 DEF Base, TypeOK, BlockCovers
    <2> QED
      BY <1>2, <2>1, <2>2 DEF Base, TypeOK
  <1> QED
    BY <1>3, <1>4 DEF ThrottlerFails

LEMMA TickKeeps ==
    ASSUME Base, Tick
    PROVE  Base'
  <1>1. TypeOK'
    <2>1. hits' \in [Trackers -> [count : Nat, left : Left(TTL)]]
      <3>1. ASSUME NEW k \in Trackers
            PROVE  (IF hits[k].left <= 0 THEN NoCounter
                    ELSE [hits[k] EXCEPT !.left = @ - 1])
                        \in [count : Nat, left : Left(TTL)]
        <4>1. hits[k] \in [count : Nat, left : Left(TTL)]
          BY DEF Base, TypeOK
        <4> QED
          BY <4>1 DEF NoCounter
      <3> QED
        BY <3>1 DEF Tick
    <2>2. blocked' \in [Trackers -> Left(BLOCK)] /\ told' \in [Trackers -> Left(BLOCK)]
      BY DEF Base, TypeOK, Tick, Less
    <2>3. log' \in [Trackers -> [Ages -> Nat]]
      <3>1. ASSUME NEW k \in Trackers
            PROVE  [t \in Ages |-> IF t = 0 THEN 0 ELSE log[k][t - 1]] \in [Ages -> Nat]
        <4>1. log[k] \in [Ages -> Nat]
          BY DEF Base, TypeOK
        <4>2. ASSUME NEW t \in Ages, t # 0
              PROVE  log[k][t - 1] \in Nat
          <5>1. t - 1 \in Ages
            BY <4>2
          <5> QED
            BY <4>1, <5>1
        <4> QED
          BY <4>2
      <3> QED
        BY <3>1 DEF Tick
    <2> QED
      BY <2>1, <2>2, <2>3 DEF Base, TypeOK, Tick
  <1>2. BlockCovers'
    <2> SUFFICES ASSUME NEW k \in Trackers
                 PROVE  /\ hits'[k].count > LIMIT => hits'[k].left <= blocked'[k]
                        /\ told'[k] <= blocked'[k]
      BY DEF BlockCovers
    <2>1. CASE hits[k].left <= 0
      BY <2>1 DEF Base, TypeOK, BlockCovers, Tick, Less, NoCounter
    <2>2. CASE hits[k].left > 0
      BY <2>2 DEF Base, TypeOK, BlockCovers, Tick, Less
    <2> QED
      BY <2>1, <2>2 DEF Base, TypeOK
  <1> QED
    BY <1>1, <1>2 DEF Base

LEMMA StepKeeps == Base /\ [Next]_vars => Base'
  <1> SUFFICES ASSUME Base, [Next]_vars
               PROVE  Base'
    OBVIOUS
  <1>1. CASE UNCHANGED vars
    BY <1>1 DEF vars, Base, TypeOK, BlockCovers
  <1>2. CASE Next
    BY <1>2, TickKeeps, ArriveKeeps, PassKeeps, RefuseKeeps, ThrottlerFailsKeeps
       DEF Next
  <1> QED
    BY <1>1, <1>2

-----------------------------------------------------------------------------
(* The windows.                                                            *)

HIDE DEF Left, Gone, Ages, Live

\* Lemmas about LetThrough, for any past of a tracker.
LEMMA FiniteThrough ==
    ASSUME NEW past \in [Ages -> Nat], NEW ages \in SUBSET Ages
    PROVE  /\ IsFiniteSet(LetThrough(past, ages))
           /\ Cardinality(LetThrough(past, ages)) \in Nat
  <1> DEFINE f == [t \in ages |-> {t} \X (1 .. past[t])]
             T == {f[t] : t \in ages}
  <1>1. IsFiniteSet(ages)
    <2>1. IsFiniteSet(Ages)
      BY FS_Interval DEF Ages
    <2> QED
      BY <2>1, FS_Subset
  <1>2. f \in Surjection(ages, T)
    BY DEF Surjection
  <1>3. IsFiniteSet(T)
    BY <1>1, <1>2, FS_Surjection
  <1>4. ASSUME NEW t \in ages
        PROVE  IsFiniteSet({t} \X (1 .. past[t]))
    <2>1. IsFiniteSet(1 .. past[t])
      BY FS_Interval
    <2>2. IsFiniteSet({t})
      BY FS_Singleton
    <2> QED
      BY <2>1, <2>2, FS_Product
  <1>5. \A U \in T : IsFiniteSet(U)
    BY <1>4
  <1>6. LetThrough(past, ages) = UNION T
    BY DEF LetThrough
  <1> HIDE DEF T
  <1>7. IsFiniteSet(LetThrough(past, ages))
    BY <1>3, <1>5, <1>6, FS_UNION
  <1> QED
    BY <1>7, FS_CardinalityType

\* No more has passed at some of the ages than at all of them.
LEMMA FewerThrough ==
    ASSUME NEW past \in [Ages -> Nat], NEW ages \in SUBSET Ages, NEW some \in SUBSET ages
    PROVE  Cardinality(LetThrough(past, some)) <= Cardinality(LetThrough(past, ages))
  <1>1. LetThrough(past, some) \subseteq LetThrough(past, ages)
    BY DEF LetThrough
  <1> QED
    BY <1>1, FiniteThrough, FS_Subset

LEMMA NoneThrough == Cardinality({}) = 0
  BY FS_EmptySet

\* Some ages and the others together.
LEMMA ThroughInAll ==
    ASSUME NEW past \in [Ages -> Nat], NEW ages \in SUBSET Ages
    PROVE  Cardinality(LetThrough(past, Ages)) <=
               Cardinality(LetThrough(past, ages)) + Cardinality(LetThrough(past, Ages \ ages))
  <1> DEFINE S == LetThrough(past, ages)
             T == LetThrough(past, Ages \ ages)
  <1>1. LetThrough(past, Ages) = S \cup T
    BY DEF LetThrough
  <1>2. /\ IsFiniteSet(S) /\ IsFiniteSet(T)
        /\ Cardinality(S) \in Nat /\ Cardinality(T) \in Nat
    BY FiniteThrough
  <1> HIDE DEF S, T
  <1>3. Cardinality(S \cap T) \in Nat
    BY <1>2, FS_Intersection, FS_CardinalityType
  <1>4. Cardinality(S \cup T) = Cardinality(S) + Cardinality(T) - Cardinality(S \cap T)
    BY <1>2, FS_Union
  <1>5. Cardinality(S \cup T) <= Cardinality(S) + Cardinality(T)
    BY <1>2, <1>3, <1>4
  <1> QED
    BY <1>1, <1>5 DEF S, T

\* One more at age 0.
LEMMA OneMoreThrough ==
    ASSUME NEW past \in [Ages -> Nat], NEW ages \in SUBSET Ages, 0 \in ages,
           NEW next \in [Ages -> Nat], next[0] = past[0] + 1,
           \A t \in Ages \ {0} : next[t] = past[t]
    PROVE  Cardinality(LetThrough(next, ages)) <= Cardinality(LetThrough(past, ages)) + 1
  <1> DEFINE S == LetThrough(past, ages)
  <1>1. 1 .. next[0] = 1 .. past[0] \cup {next[0]}
    BY DEF Ages
  <1>2. LetThrough(next, ages) = S \cup {<<0, next[0]>>}
    <2>1. \A t \in ages \ {0} : next[t] = past[t]
      OBVIOUS
    <2> QED
      BY <1>1, <2>1 DEF LetThrough
  <1>3. IsFiniteSet(S) /\ Cardinality(S) \in Nat
    BY FiniteThrough
  <1> HIDE DEF S
  <1>4. Cardinality(S \cup {<<0, next[0]>>}) = IF <<0, next[0]>> \in S THEN Cardinality(S)
                                               ELSE Cardinality(S) + 1
    BY <1>3, FS_AddElement
  <1> QED
    BY <1>2, <1>3, <1>4 DEF S

\* What has passed at the ages after a tick had passed at the ages before it.
LEMMA Aging ==
    ASSUME NEW past \in [Ages -> Nat], NEW next \in [Ages -> Nat],
           \A t \in Ages : next[t] = IF t = 0 THEN 0 ELSE past[t - 1],
           NEW ages \in SUBSET Ages, NEW young \in SUBSET Ages,
           \A t \in ages : t = 0 \/ t - 1 \in young
    PROVE  Cardinality(LetThrough(next, ages)) <= Cardinality(LetThrough(past, young))
  <1> DEFINE S == LetThrough(next, ages)
             T == LetThrough(past, young)
             f == [e \in S |-> <<e[1] - 1, e[2]>>]
  <1>1. ASSUME NEW e \in S
        PROVE  /\ e[1] - 1 \in young /\ e[2] \in 1 .. past[e[1] - 1]
               /\ e = <<e[1], e[2]>> /\ e[1] \in Int
    <2>1. PICK t \in ages : e \in {t} \X (1 .. next[t])
      BY DEF LetThrough
    <2>2. e[1] = t /\ e[2] \in 1 .. next[t] /\ e = <<e[1], e[2]>>
      BY <2>1
    <2>3. t # 0
      BY <2>2
    <2>4. t \in Int /\ t - 1 \in young /\ next[t] = past[t - 1]
      BY <2>3 DEF Ages
    <2> QED
      BY <2>2, <2>4
  <1>2. ASSUME NEW e \in S
        PROVE  <<e[1] - 1, e[2]>> \in T
    <2>1. <<e[1] - 1, e[2]>> \in {e[1] - 1} \X (1 .. past[e[1] - 1])
      BY <1>1
    <2> QED
      BY <1>1, <2>1 DEF LetThrough
  <1>3. f \in [S -> T]
    BY <1>2
  <1>4. ASSUME NEW d \in S, NEW e \in S, f[d] = f[e]
        PROVE  d = e
    <2>1. d[1] - 1 = e[1] - 1 /\ d[2] = e[2]
      BY <1>4
    <2> QED
      BY <1>1, <2>1
  <1> HIDE DEF S, T, f
  <1>5. f \in Injection(S, T)
    BY <1>3, <1>4, Fun_IsInj
  <1>6. IsFiniteSet(T)
    BY FiniteThrough DEF T
  <1>7. Cardinality(S) <= Cardinality(T)
    BY <1>5, <1>6, FS_Injection
  <1> QED
    BY <1>7 DEF S, T

LEMMA InitWindows == Init => TwoWindows
  <1> SUFFICES ASSUME Init, NEW k \in Trackers
               PROVE  WindowsOf(k)
    BY DEF TwoWindows
  <1>1. ASSUME NEW ages \in SUBSET Ages
        PROVE  LetThrough(log[k], ages) = {}
    BY DEF LetThrough, Init
  <1>2. InWindow(k) \in SUBSET Ages /\ Ages \ InWindow(k) \in SUBSET Ages
    BY DEF InWindow
  <1>3. /\ LetThrough(log[k], InWindow(k)) = {}
        /\ LetThrough(log[k], Ages \ InWindow(k)) = {}
    BY <1>1, <1>2
  <1>4. hits[k].count = 0 /\ log[k][0] = 0
    BY DEF Init, NoCounter, Ages
  <1> QED
    BY <1>3, <1>4, NoneThrough DEF WindowsOf

\* A tracker that nothing happens to.
LEMMA OtherWindows ==
    ASSUME NEW k \in Trackers, WindowsOf(k), hits'[k] = hits[k], log'[k] = log[k]
    PROVE  WindowsOf(k)'
  BY DEF WindowsOf, InWindow

\* The ages of the window after a hit was counted.
LEMMA CountedWindow ==
    ASSUME TypeOK, NEW k \in Trackers, Count(k)
    PROVE  /\ 0 \in InWindow(k)' /\ Live(hits[k].left)' /\ 0 \in Ages
           /\ Live(hits[k].left) => /\ InWindow(k)' = InWindow(k)
                                    /\ hits'[k].count = hits[k].count + 1
           /\ ~Live(hits[k].left) => /\ InWindow(k) = {} /\ InWindow(k)' = {0}
                                     /\ hits'[k].count = 1
           /\ hits'[k].count = Counted(k).count /\ hits[k].count \in Nat
  <1>1. hits'[k] = Counted(k) /\ hits[k] \in [count : Nat, left : Left(TTL)]
    BY DEF Count, TypeOK
  <1> QED
    BY <1>1 DEF Counted, InWindow, Left, Gone, Ages, Live

\* A hit that is counted and does not pass.
LEMMA CountWindows ==
    ASSUME TypeOK, NEW k \in Trackers, WindowsOf(k), Count(k), log' = log
    PROVE  WindowsOf(k)'
  <1>1. log[k] \in [Ages -> Nat] /\ InWindow(k) \in SUBSET Ages
    BY DEF TypeOK, InWindow
  <1>2. CASE Live(hits[k].left)
    <2>1. Cardinality(LetThrough(log[k], InWindow(k))) \in Nat
      BY <1>1, FiniteThrough
    <2>2. /\ InWindow(k)' = InWindow(k) /\ Live(hits[k].left)'
          /\ hits'[k].count = hits[k].count + 1 /\ hits[k].count \in Nat
      BY <1>2, CountedWindow
    <2> QED
      BY <2>1, <2>2 DEF WindowsOf
  <1>3. CASE ~Live(hits[k].left)
    <2>1. LetThrough(log[k], {0}) = {}
      BY <1>3 DEF LetThrough, WindowsOf
    <2>2. Cardinality(LetThrough(log[k], Ages \ {0})) <= Cardinality(LetThrough(log[k], Ages))
      BY <1>1, FewerThrough
    <2>3. /\ Cardinality(LetThrough(log[k], Ages \ {0})) \in Nat
          /\ Cardinality(LetThrough(log[k], Ages)) \in Nat
      BY <1>1, FiniteThrough
    <2>4. /\ InWindow(k) = {} /\ InWindow(k)' = {0} /\ hits'[k].count = 1
          /\ Live(hits[k].left)'
      BY <1>3, CountedWindow
    <2>5. Cardinality(LetThrough(log[k], Ages)) <= LIMIT
      BY <2>4 DEF WindowsOf
    <2>6. Cardinality(LetThrough(log[k], Ages \ {0})) <= LIMIT
      BY <2>2, <2>3, <2>5
    <2> QED
      BY <2>1, <2>4, <2>6, NoneThrough DEF WindowsOf
  <1> QED
    BY <1>2, <1>3

\* A hit that is counted and passes.
LEMMA PassWindows ==
    ASSUME TypeOK, TypeOK', NEW k \in Trackers, WindowsOf(k), Count(k), ~Over(k),
           log' = [log EXCEPT ![k][0] = @ + 1]
    PROVE  WindowsOf(k)'
  <1>1. /\ log[k] \in [Ages -> Nat] /\ log'[k] \in [Ages -> Nat]
        /\ 0 \in Ages /\ log[k][0] \in Nat /\ InWindow(k) \in SUBSET Ages
    BY DEF TypeOK, InWindow, Ages
  <1>2. log'[k][0] = log[k][0] + 1 /\ \A t \in Ages \ {0} : log'[k][t] = log[k][t]
    BY <1>1 DEF TypeOK
  <1>3. ASSUME NEW ages \in SUBSET (Ages \ {0})
        PROVE  LetThrough(log'[k], ages) = LetThrough(log[k], ages)
    BY <1>2 DEF LetThrough
  <1>4. hits'[k].count <= LIMIT
    <2>1. hits'[k].count \in Nat
      BY DEF TypeOK
    <2> QED
      BY <2>1, CountedWindow DEF Over
  <1>5. CASE Live(hits[k].left)
    <2>1. /\ InWindow(k)' = InWindow(k) /\ 0 \in InWindow(k) /\ Live(hits[k].left)'
          /\ hits'[k].count = hits[k].count + 1 /\ hits[k].count \in Nat
      BY <1>5, CountedWindow
    <2>2. Cardinality(LetThrough(log'[k], InWindow(k)))
              <= Cardinality(LetThrough(log[k], InWindow(k))) + 1
      BY <1>1, <1>2, <2>1, OneMoreThrough
    <2>3. /\ Cardinality(LetThrough(log[k], InWindow(k))) \in Nat
          /\ Cardinality(LetThrough(log'[k], InWindow(k))) \in Nat
      BY <1>1, FiniteThrough
    <2>4. LetThrough(log'[k], Ages \ InWindow(k)) = LetThrough(log[k], Ages \ InWindow(k))
      BY <1>3, <2>1
    <2>5. /\ Cardinality(LetThrough(log[k], InWindow(k))) <= hits[k].count
          /\ Cardinality(LetThrough(log[k], Ages \ InWindow(k))) <= LIMIT
      BY DEF WindowsOf
    <2>6. Cardinality(LetThrough(log'[k], InWindow(k))) <= hits'[k].count
      BY <2>1, <2>2, <2>3, <2>5
    <2>7. Cardinality(LetThrough(log'[k], InWindow(k))) <= LIMIT
      BY <1>4, <2>1, <2>3, <2>6
    <2> QED
      BY <2>1, <2>4, <2>5, <2>6, <2>7 DEF WindowsOf
  <1>6. CASE ~Live(hits[k].left)
    <2>1. log'[k][0] = 1
      BY <1>2, <1>6 DEF WindowsOf
    <2>2. InWindow(k)' = {0} /\ InWindow(k) = {} /\ hits'[k].count = 1 /\ Live(hits[k].left)'
      BY <1>6, CountedWindow
    <2>3. LetThrough(log'[k], {0}) = {<<0, 1>>}
      <3>1. 1 .. 1 = {1}
        OBVIOUS
      <3> QED
        BY <2>1, <3>1 DEF LetThrough
    <2>4. Cardinality(LetThrough(log[k], Ages \ {0})) <= Cardinality(LetThrough(log[k], Ages))
      BY <1>1, FewerThrough
    <2>5. /\ Cardinality(LetThrough(log[k], Ages \ {0})) \in Nat
          /\ Cardinality(LetThrough(log[k], Ages)) \in Nat
      BY <1>1, FiniteThrough
    <2>6. Cardinality(LetThrough(log[k], Ages)) <= LIMIT
      BY <2>2 DEF WindowsOf
    <2>7. Ages \ {0} \in SUBSET Ages /\ 0 \notin Ages \ {0}
      OBVIOUS
    <2>8. LetThrough(log'[k], Ages \ {0}) = LetThrough(log[k], Ages \ {0})
      BY <1>3, <2>7
    <2>9. Cardinality(LetThrough(log'[k], Ages \ {0})) <= LIMIT
      BY <2>8, <2>4, <2>5, <2>6, PolicyAssumption
    <2>10. Cardinality(LetThrough(log'[k], {0})) = 1
      BY <2>3, FS_Singleton
    <2> QED
      BY <2>2, <2>9, <2>10 DEF WindowsOf
  <1> QED
    BY <1>5, <1>6

LEMMA TickWindows ==
    ASSUME TypeOK, TypeOK', Tick, NEW k \in Trackers, WindowsOf(k)
    PROVE  WindowsOf(k)'
  <1> DEFINE In == InWindow(k)
             Before == Ages \ InWindow(k)
  <1>1. /\ hits[k] \in [count : Nat, left : Left(TTL)]
        /\ log[k] \in [Ages -> Nat] /\ log'[k] \in [Ages -> Nat]
        /\ hits'[k] = IF hits[k].left <= 0 THEN NoCounter
                      ELSE [hits[k] EXCEPT !.left = @ - 1]
    BY DEF Tick, TypeOK
  <1>2. \A t \in Ages : log'[k][t] = IF t = 0 THEN 0 ELSE log[k][t - 1]
    BY DEF Tick
  <1>3. log'[k][0] = 0
    BY <1>2 DEF Ages
  <1>4. /\ In \in SUBSET Ages /\ Before \in SUBSET Ages
        /\ In' \in SUBSET Ages /\ Before' \in SUBSET Ages
    BY DEF InWindow
  <1>5. /\ Cardinality(LetThrough(log[k], In)) \in Nat
        /\ Cardinality(LetThrough(log[k], Before)) \in Nat
        /\ Cardinality(LetThrough(log'[k], In')) \in Nat
        /\ Cardinality(LetThrough(log'[k], Before')) \in Nat
    BY <1>1, <1>4, FiniteThrough
  <1>6. CASE hits[k].left > 0
    <2>1. hits'[k].left = hits[k].left - 1 /\ hits'[k].count = hits[k].count
      <3>1. hits'[k] = [hits[k] EXCEPT !.left = @ - 1] /\ hits[k].left \in Int
        BY <1>1, <1>6 DEF Left, Gone
      <3> QED
        BY <1>1, <3>1
    <2>2. /\ \A t \in In' : t = 0 \/ t - 1 \in In
          /\ \A t \in Before' : t = 0 \/ t - 1 \in Before
      <3>1. hits[k].left \in Int /\ hits[k].left > 0
        BY <1>1, <1>6 DEF Left, Gone
      <3>2. In = {t \in Ages : t <= TTL - hits[k].left}
        BY <3>1 DEF InWindow, Live, Gone
      <3>3. In' = {t \in Ages : t <= TTL - (hits[k].left - 1)}
        BY <2>1, <3>1 DEF InWindow, Live, Gone, Ages
      <3> HIDE DEF In
      <3>4. \A t \in In' : t = 0 \/ t - 1 \in In
        BY <3>1, <3>2, <3>3, PolicyAssumption DEF Ages
      <3>5. Before = {t \in Ages : ~(t <= TTL - hits[k].left)}
        BY <3>2 DEF In
      <3>6. Before' = {t \in Ages : ~(t <= TTL - (hits[k].left - 1))}
        BY <3>3 DEF In, Ages
      <3> HIDE DEF Before
      <3>7. \A t \in Before' : t = 0 \/ t - 1 \in Before
        BY <3>1, <3>5, <3>6, PolicyAssumption DEF Ages
      <3> QED
        BY <3>4, <3>7
    <2> HIDE DEF In, Before
    <2>3. Cardinality(LetThrough(log'[k], In')) <= Cardinality(LetThrough(log[k], In))
      BY <1>1, <1>2, <1>4, <2>2, Aging
    <2>4. Cardinality(LetThrough(log'[k], Before')) <= Cardinality(LetThrough(log[k], Before))
      BY <1>1, <1>2, <1>4, <2>2, Aging
    <2>5. /\ Cardinality(LetThrough(log[k], In)) <= hits[k].count
          /\ Cardinality(LetThrough(log[k], In)) <= LIMIT
          /\ Cardinality(LetThrough(log[k], Before)) <= LIMIT
      BY DEF WindowsOf, In, Before
    <2>6. /\ Cardinality(LetThrough(log'[k], In')) <= hits'[k].count
          /\ Cardinality(LetThrough(log'[k], In')) <= LIMIT
          /\ Cardinality(LetThrough(log'[k], Before')) <= LIMIT
      BY <1>1, <1>5, <2>1, <2>3, <2>4, <2>5
    <2> QED
      BY <1>3, <2>6 DEF WindowsOf, In, Before
  <1>7. CASE hits[k].left <= 0
    <2>1. hits'[k].count = 0 /\ In' = {} /\ Before' = Ages
      BY <1>1, <1>7 DEF InWindow, NoCounter, Live
    <2>2. In = Ages \/ Before = Ages
      BY <1>1, <1>7 DEF InWindow, Ages, Left, Gone, Live
    <2>3. Cardinality(LetThrough(log'[k], Ages)) <= Cardinality(LetThrough(log[k], Ages))
      <3>1. \A t \in Ages : t = 0 \/ t - 1 \in Ages
        BY DEF Ages
      <3> QED
        BY <1>1, <1>2, <3>1, Aging
    <2>4. Cardinality(LetThrough(log[k], Ages)) <= LIMIT
      BY <2>2 DEF WindowsOf
    <2>5. Cardinality(LetThrough(log'[k], Ages)) <= LIMIT
      BY <1>1, <2>3, <2>4, FiniteThrough
    <2>6. LetThrough(log'[k], {}) = {}
      BY DEF LetThrough
    <2> QED
      BY <1>3, <2>1, <2>5, <2>6, NoneThrough DEF WindowsOf
  <1> QED
    BY <1>1, <1>6, <1>7 DEF Left, Gone

LEMMA StepWindows == TypeOK /\ TypeOK' /\ TwoWindows /\ [Next]_vars => TwoWindows'
  <1> SUFFICES ASSUME TypeOK, TypeOK', TwoWindows, [Next]_vars, NEW k \in Trackers
               PROVE  WindowsOf(k)'
    BY DEF TwoWindows
  <1>1. WindowsOf(k)
    BY DEF TwoWindows
  <1>2. CASE Tick
    BY <1>1, <1>2, TickWindows
  <1>3. CASE UNCHANGED <<hits, log>>
    BY <1>1, <1>3, OtherWindows
  <1>4. ASSUME NEW r \in Requests, Count(Tracker(r)), log' = log, Under(r)
        PROVE  WindowsOf(k)'
    <2>1. CASE k = Tracker(r)
      BY <1>1, <1>4, <2>1, CountWindows
    <2>2. CASE k # Tracker(r)
      BY <1>1, <1>4, <2>2, OtherWindows DEF Count, TypeOK
    <2> QED
      BY <2>1, <2>2
  <1>5. ASSUME NEW r \in Requests, Pass(r)
        PROVE  WindowsOf(k)'
    <2>1. /\ Count(Tracker(r)) /\ ~Over(Tracker(r))
          /\ log' = [log EXCEPT ![Tracker(r)][0] = @ + 1]
      BY <1>5 DEF Pass
    <2>2. CASE k = Tracker(r)
      BY <1>1, <2>1, <2>2, PassWindows
    <2>3. CASE k # Tracker(r)
      BY <1>1, <2>1, <2>3, OtherWindows DEF Count, TypeOK
    <2> QED
      BY <2>2, <2>3
  <1> QED
    BY <1>2, <1>3, <1>4, <1>5 DEF Next, vars, Arrive, Refuse, ThrottlerFails

-----------------------------------------------------------------------------
(* The theorems.                                                           *)

USE DEF Left, Gone, Ages, Live

\* The inductive invariant of the rate limiter holds.
THEOREM IInvHolds == Spec => []IInv
  <1>1. Init => IInv
    BY InitBase, InitWindows DEF IInv, Base
  <1>2. IInv /\ [Next]_vars => IInv'
    <2> SUFFICES ASSUME IInv, [Next]_vars
                 PROVE  IInv'
      OBVIOUS
    <2>1. Base'
      BY StepKeeps DEF IInv, Base
    <2>2. TwoWindows'
      BY <2>1, StepWindows DEF IInv, Base
    <2> QED
      BY <2>1, <2>2 DEF IInv, Base
  <1> QED
    BY <1>1, <1>2, PTL DEF Spec

\* redis.service.ts:22-29: a stretch as long as the window meets at most two
\* windows, whenever it begins, and each lets at most LIMIT requests pass.
THEOREM TwiceTheLimit == Spec => []AnyWindowWithinTwice
  <1>1. IInv => AnyWindowWithinTwice
    <2> SUFFICES ASSUME IInv, NEW k \in Trackers
                 PROVE  Cardinality(LetThrough(log[k], Ages)) <= 2 * LIMIT
      BY DEF AnyWindowWithinTwice
    <2> HIDE DEF Ages
    <2>1. /\ log[k] \in [Ages -> Nat] /\ InWindow(k) \in SUBSET Ages /\ WindowsOf(k)
      BY DEF IInv, TypeOK, TwoWindows, InWindow
    <2>2. Cardinality(LetThrough(log[k], Ages)) <=
              Cardinality(LetThrough(log[k], InWindow(k)))
                  + Cardinality(LetThrough(log[k], Ages \ InWindow(k)))
      BY <2>1, ThroughInAll
    <2>3. /\ Cardinality(LetThrough(log[k], InWindow(k))) \in Nat
          /\ Cardinality(LetThrough(log[k], Ages \ InWindow(k))) \in Nat
          /\ Cardinality(LetThrough(log[k], Ages)) \in Nat
      BY <2>1, FiniteThrough
    <2> QED
      BY <2>1, <2>2, <2>3 DEF WindowsOf
  <1> QED
    BY <1>1, IInvHolds, PTL

\* The counters, blocks and requests always have their types.
THEOREM TypeCorrect == Spec => []TypeOK
  <1>1. IInv => TypeOK
    BY DEF IInv
  <1> QED
    BY <1>1, IInvHolds, PTL

\* A counter above the limit never outlives its block (redis.service.ts:29), nor
\* does a time to wait that was told.
THEOREM BlockOutlives == Spec => []BlockCovers
  <1>1. IInv => BlockCovers
    BY DEF IInv
  <1> QED
    BY <1>1, IInvHolds, PTL

\* Nothing passes within the time a refused request was told to wait
\* (redis.service.ts:13-20).
THEOREM RefusedRequestsWait == Spec => RefusedWaits
  <1>1. Base /\ [Next]_vars
            => [\A k \in Trackers : log'[k][0] > log[k][0] => told[k] <= 0]_vars
    <2> SUFFICES ASSUME Base, Next, NEW k \in Trackers, log'[k][0] > log[k][0]
                 PROVE  told[k] <= 0
      OBVIOUS
    <2>1. CASE Tick
      <3>1. log'[k] = [t \in Ages |-> IF t = 0 THEN 0 ELSE log[k][t - 1]]
        BY <2>1 DEF Tick
      <3>2. log'[k][0] = 0
        BY <3>1
      <3>3. log[k] \in [Ages -> Nat]
        BY DEF Base, TypeOK
      <3>4. log[k][0] \in Nat
        BY <3>3
      <3> QED
        BY <3>2, <3>4
    <2>2. ASSUME NEW r \in Requests, Pass(r)
          PROVE  told[k] <= 0
      <3>1. Tracker(r) \in Trackers
        BY <2>2, TrackerOfRequest DEF Base, Pass
      <3>2. /\ log \in [Trackers -> [Ages -> Nat]]
            /\ log' = [log EXCEPT ![Tracker(r)][0] = @ + 1]
        BY <2>2 DEF Pass, Base, TypeOK
      <3>3. ASSUME k # Tracker(r) PROVE log'[k] = log[k]
        BY <3>2, <3>3
      <3>4. log[k][0] \in Nat
        BY <3>2 DEF Ages
      <3>5. k = Tracker(r)
        BY <3>3, <3>4
      <3> QED
        BY <2>2, <3>5 DEF Pass, Blocked, Base, TypeOK, BlockCovers
    <2>3. ASSUME NEW r \in Requests, Arrive(r) \/ Refuse(r) \/ ThrottlerFails(r)
          PROVE  FALSE
      BY <2>3 DEF Arrive, Refuse, ThrottlerFails, Base, TypeOK
    <2> QED
      BY <2>1, <2>2, <2>3 DEF Next
  <1>2. IInv => Base
    BY DEF IInv, Base
  <1> QED
    BY <1>1, <1>2, IInvHolds, PTL DEF Spec, RefusedWaits

=============================================================================
