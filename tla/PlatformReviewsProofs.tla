----------------------- MODULE PlatformReviewsProofs ------------------------
(***************************************************************************)
(* Theorems about PlatformReviews, for any number of requests, reviews and *)
(* ratings.                                                                *)
(***************************************************************************)
EXTENDS PlatformReviews, TLAPS

-----------------------------------------------------------------------------
(* The invariant, key by key and request by request.                       *)

\* What may be under the key k, and when it is right.
FitsKey(k, c) ==
    /\ k = "mine" => c \in Entry(Copy)
    /\ k \in Reviews => c \in Entry([id : {k}, rating : Ratings])
    /\ k \in ListKeys => c \in Entry(Listing)
    /\ k = "summary" => c \in Entry(Statistics)
Right(k, value) ==
    /\ k \in {"mine"} \cup Reviews => row[value.id] = value.rating
    /\ k = "admin" => \A r \in Reviews : value[r] \in {Absent, Listed(Ratings)[r]}
    /\ k = "trend" => value = Listed(Ratings)
    /\ k = "summary" => value = [counted |-> Listed(Ratings), broken |-> Listed(Ratings)]
Fresh(k, c) == FitsKey(k, c) /\ (c # NoEntry => c.late \/ Right(k, c.value))

\* A request has still to write or delete k.
Owed(k) == \E h \in Handlers : Writing(h) /\ k \in Due(h)

CopiesSound ==
    /\ DOMAIN cache = Keys
    /\ \A k \in Keys : FitsKey(k, cache[k]) /\ (Fresh(k, cache[k]) \/ Owed(k))

Sound(q) ==
    \/ q = Idle
    \/ q \in Request /\ Fits(q) /\ Current(q)

HandlersSound == handler \in [Handlers -> Request \cup {Idle}] /\ HandlersFit

RowsTyped == row \in Table /\ offered \subseteq Ops

LEMMA KeysByKind ==
    /\ Keys = {"mine", "summary", "admin", "public", "trend"} \cup Reviews
    /\ Reviews \cap {"mine", "summary", "admin", "public", "trend"} = {}
    /\ ListKeys = {"admin", "public", "trend"}
  BY NamesAssumption DEF Keys, ListKeys, Ops

LEMMA ThreeParts == IInv <=> RowsTyped /\ HandlersSound /\ CopiesSound
  <1>1. (\A k \in Keys : FitsKey(k, cache[k]))
        <=> /\ cache["mine"] \in Entry(Copy)
            /\ \A r \in Reviews : cache[r] \in Entry([id : {r}, rating : Ratings])
            /\ \A k \in ListKeys : cache[k] \in Entry(Listing)
            /\ cache["summary"] \in Entry(Statistics)
    BY KeysByKind DEF FitsKey
  <1>2. ASSUME NEW k \in Keys, FitsKey(k, cache[k])
        PROVE  (Fresh(k, cache[k]) \/ Owed(k))
                <=> (Trusted(k) => Right(k, cache[k].value))
    BY <1>2 DEF Fresh, Owed, Trusted
  <1>3. CopiesFollowRows <=> \A k \in Keys : Trusted(k) => Right(k, cache[k].value)
    BY KeysByKind DEF CopiesFollowRows, Right
  <1> QED
    BY <1>1, <1>2, <1>3 DEF IInv, TypeOK, RowsTyped, HandlersSound, CopiesSound

-----------------------------------------------------------------------------
(* The requests.                                                           *)

LEMMA HandlersAreSound ==
    ASSUME HandlersSound, NEW h \in Handlers
    PROVE  Sound(handler[h])
  BY DEF HandlersSound, HandlersFit, Sound, At, Request, Step, Idle

LEMMA BusyHoldsRequest ==
    ASSUME HandlersSound, NEW h \in Handlers, handler[h].step # "idle"
    PROVE  handler[h] \in Request /\ Fits(handler[h]) /\ Current(handler[h])
  BY HandlersAreSound DEF Sound, Idle

LEMMA SoundHandlers ==
    ASSUME handler' \in [Handlers -> Request \cup {Idle}],
           \A h \in Handlers : Sound(handler[h])'
    PROVE  HandlersSound'
  BY DEF HandlersSound, HandlersFit, Sound, At, Request, Step, Idle

\* A request goes on and no row changes.
LEMMA BecomeKeepsSound ==
    ASSUME HandlersSound, NEW h \in Handlers, NEW q, Sound(q), Become(h, q), UNCHANGED row
    PROVE  HandlersSound'
  <1>1. handler' \in [Handlers -> Request \cup {Idle}]
    BY DEF Sound, HandlersSound, Become
  <1>2. ASSUME NEW g \in Handlers
        PROVE  Sound(handler[g])'
    <2>1. Sound(handler'[g])
      BY HandlersAreSound DEF Become, HandlersSound
    <2> QED
      BY <2>1 DEF Sound, Fits, Current, Listed
  <1> QED
    BY <1>1, <1>2, SoundHandlers

LEMMA AnswerIsSound == Sound(Idle)
  BY DEF Sound

-----------------------------------------------------------------------------
(* The copies.                                                             *)

LEMMA NothingIsFresh == \A k : Fresh(k, NoEntry)
  BY DEF Fresh, FitsKey, Entry

\* No row changes; every copy is kept or fresh, and fresh where a request that
\* owed it is done.
LEMMA CopiesKept ==
    ASSUME CopiesSound, UNCHANGED row, DOMAIN cache' = Keys,
           \A k \in Keys :
              \/ Fresh(k, cache'[k])
              \/ cache'[k] = cache[k] /\ (Owed(k) => Owed(k)')
    PROVE  CopiesSound'
  BY DEF CopiesSound, Fresh, FitsKey, Right, Listed

LEMMA OwedKept ==
    ASSUME HandlersSound, NEW h \in Handlers, NEW q, Become(h, q)
    PROVE  \A k \in Keys :
              ~(Writing(h) /\ k \in Due(h)) => (Owed(k) => Owed(k)')
  <1>1. \A g \in Handlers \ {h} : handler'[g] = handler[g]
    BY DEF Become, HandlersSound
  <1> QED
    BY <1>1 DEF Owed, Writing, At, Due, Touched

\* A copy that a command failed to replace is known to be late.
LEMMA LostIsLate ==
    ASSUME CopiesSound, NEW new, NEW lost, cache' = Copies(new, lost)
    PROVE  /\ DOMAIN cache' = Keys
           /\ \A k \in Keys \ lost : cache'[k] = new[k]
           /\ \A k \in Keys \cap lost : Fresh(k, cache'[k])
  <1>1. /\ DOMAIN cache' = Keys
        /\ \A k \in Keys \ lost : cache'[k] = new[k]
        /\ \A k \in Keys \cap lost :
            cache'[k] = IF cache[k] = NoEntry THEN NoEntry
                        ELSE [cache[k] EXCEPT !.late = TRUE]
    BY DEF Copies
  <1>2. ASSUME NEW k \in Keys \cap lost
        PROVE  Fresh(k, cache'[k])
    <2>1. CASE cache[k] = NoEntry
      BY <1>1, <2>1, NothingIsFresh
    <2>2. CASE cache[k] # NoEntry
      <3>1. cache'[k] = [cache[k] EXCEPT !.late = TRUE] /\ FitsKey(k, cache[k])
        BY <1>1, <2>2 DEF CopiesSound
      <3>2. ASSUME NEW S, cache[k] \in Entry(S)
            PROVE  cache'[k] \in Entry(S) /\ cache'[k].late
        BY <2>2, <3>1, <3>2 DEF Entry
      <3> QED
        BY <3>1, <3>2, KeysByKind DEF Fresh, FitsKey
    <2> QED
      BY <2>1, <2>2
  <1> QED
    BY <1>1, <1>2

\* A step that touches no copy.
LEMMA QuietMove ==
    ASSUME IInv, NEW h \in Handlers, NEW q, Sound(q), Become(h, q), ~Writing(h),
           UNCHANGED <<row, cache, offered>>
    PROVE  IInv'
  <1>1. HandlersSound'
    BY ThreeParts, BecomeKeepsSound
  <1>2. CopiesSound'
    BY ThreeParts, OwedKept, CopiesKept DEF CopiesSound
  <1>3. RowsTyped'
    BY ThreeParts DEF RowsTyped
  <1> QED
    BY <1>1, <1>2, <1>3, PTL, ThreeParts

\* A step that sets a key to what its request holds.
LEMMA SetKeeps ==
    ASSUME IInv, NEW h \in Handlers, ~Writing(h), NEW k \in Keys, NEW value,
           Set(k, h, value), Fresh(k, [value |-> value, late |-> handler[h].late]),
           NEW q, Sound(q), Become(h, q), UNCHANGED <<row, offered>>
    PROVE  IInv'
  <1>1. HandlersSound'
    BY ThreeParts, BecomeKeepsSound
  <1>2. CopiesSound'
    <2>1. /\ DOMAIN cache' = Keys
          /\ \A j \in Keys : Fresh(j, cache'[j]) \/ cache'[j] = cache[j]
      BY ThreeParts DEF CopiesSound, Set
    <2>2. \A j \in Keys : Owed(j) => Owed(j)'
      BY ThreeParts, OwedKept
    <2> QED
      BY <2>1, <2>2, ThreeParts, CopiesKept
  <1>3. RowsTyped'
    BY ThreeParts DEF RowsTyped
  <1> QED
    BY <1>1, <1>2, <1>3, PTL, ThreeParts

\* The last step of a request that wrote: what it owed is fresh.
LEMMA LeavingKeeps ==
    ASSUME IInv, NEW h \in Handlers, Answer(h), UNCHANGED <<row, offered>>,
           DOMAIN cache' = Keys,
           \A k \in Keys : \/ Fresh(k, cache'[k])
                           \/ cache'[k] = cache[k] /\ ~(Writing(h) /\ k \in Due(h))
    PROVE  IInv'
  <1>1. HandlersSound'
    BY ThreeParts, AnswerIsSound, BecomeKeepsSound DEF Answer
  <1>2. CopiesSound'
    BY ThreeParts, OwedKept, CopiesKept DEF Answer
  <1>3. RowsTyped'
    BY ThreeParts DEF RowsTyped
  <1> QED
    BY <1>1, <1>2, <1>3, PTL, ThreeParts

\* A row is written: all other requests are late, and h owes every copy that
\* shows the row.
LEMMA WriteKeeps ==
    ASSUME IInv, NEW h \in Handlers, ~Writing(h), NEW r \in Reviews,
           NEW rating \in Ratings \cup {Gone}, NEW q \in Request, Fits(q),
           q.step \in {"announce", "forget"}, q.seen.id = r,
           q.step = "announce" => q.seen.rating = rating,
           q.op = "add" => row[r] = Unborn,
           Write(h, r, rating, q), UNCHANGED <<cache, offered>>
    PROVE  IInv'
  <1>1. /\ HandlersSound /\ CopiesSound /\ row \in Table
        /\ q.seen \in Copy
    BY ThreeParts DEF RowsTyped, Fits, Request
  <1>2. /\ row' \in Table /\ row'[r] = rating
        /\ \A s \in Reviews \ {r} : row'[s] = row[s]
    BY <1>1 DEF Write, Table
  <1>3. ASSUME NEW g \in Handlers, g # h
        PROVE  /\ Sound(handler[g])'
               /\ Writing(g) => Writing(g)' /\ Due(g)' = Due(g)
    <2>1. CASE At(g, "idle")
      <3>1. handler'[g] = Idle
        BY <1>3, <2>1 DEF Write
      <3> QED
        BY <2>1, <3>1 DEF Sound, Writing, At
    <2>2. CASE ~At(g, "idle")
      <3>1. handler'[g] = [handler[g] EXCEPT !.late = TRUE]
        BY <1>3, <2>2 DEF Write
      <3>2. handler[g] \in Request /\ Fits(handler[g])
        BY <1>1, <2>2, BusyHoldsRequest DEF At
      <3>3. /\ handler'[g] \in Request /\ handler'[g].late
            /\ handler'[g].step = handler[g].step /\ handler'[g].op = handler[g].op
            /\ handler'[g].seen = handler[g].seen /\ handler'[g].listed = handler[g].listed
            /\ handler'[g].broken = handler[g].broken
        BY <3>1, <3>2 DEF Request
      <3>4. Sound(handler[g])'
        BY <3>2, <3>3 DEF Sound, Fits, Current
      <3> QED
        BY <3>3, <3>4 DEF Writing, At, Due, Touched
    <2> QED
      BY <2>1, <2>2
  <1>4. handler'[h] = q
    BY DEF Write
  <1>5. HandlersSound'
    <2>1. Sound(handler[h])'
      BY <1>2, <1>4 DEF Sound, Current
    <2>2. \A g \in Handlers : Sound(handler[g])'
      BY <1>3, <2>1
    <2>3. handler' \in [Handlers -> Request \cup {Idle}]
      <3>1. \A g \in Handlers : handler'[g] \in Request \cup {Idle}
        BY <2>2 DEF Sound
      <3> QED
        BY <3>1 DEF Write
    <2> QED
      BY <2>2, <2>3, SoundHandlers
  <1>6. Writing(h)' /\ Due(h)' = {"mine", r} \cup StaleAfter(q.op)
    BY <1>4 DEF Writing, At, Due, Touched
  <1>7. CopiesSound'
    <2>1. ASSUME NEW k \in Keys, ~Owed(k)'
          PROVE  Fresh(k, cache[k])'
      <3>1. ~Owed(k)
        BY <1>3, <2>1 DEF Owed
      <3>2. k \notin {"mine", r} \cup StaleAfter(q.op)
        BY <1>6, <2>1 DEF Owed
      <3>3. Fresh(k, cache[k]) /\ FitsKey(k, cache[k])
        BY <1>1, <3>1 DEF CopiesSound
      <3>4. CASE k \in Reviews \ {r}
        BY <1>2, <3>3, <3>4, KeysByKind DEF Fresh, FitsKey, Right, Entry
      <3>5. CASE k = "public"
        BY <3>3, <3>5, KeysByKind DEF Fresh, FitsKey, Right
      <3>6. CASE k = "admin"
        <4>1. q.op = "add" /\ row[r] = Unborn
          BY <3>2, <3>6 DEF StaleAfter, AnalyticsKeys, Fits
        <4>2. \A s \in Reviews \ {r} : Listed(Ratings)'[s] = Listed(Ratings)[s]
          BY <1>2 DEF Listed
        <4>3. Listed(Ratings)[r] = Absent
          BY <4>1, NamesAssumption DEF Listed
        <4> QED
          BY <3>3, <3>6, <4>2, <4>3, KeysByKind DEF Fresh, FitsKey, Right
      <3> QED
        BY <3>2, <3>4, <3>5, <3>6, KeysByKind DEF StaleAfter, AnalyticsKeys
    <2>2. \A k \in Keys : FitsKey(k, cache[k])'
      BY <1>1 DEF CopiesSound, FitsKey
    <2> QED
      BY <1>1, <2>1, <2>2 DEF CopiesSound
  <1>8. RowsTyped'
    BY <1>2, ThreeParts DEF RowsTyped
  <1> QED
    BY <1>5, <1>7, <1>8, PTL, ThreeParts

-----------------------------------------------------------------------------
(* The actions.                                                            *)

LEMMA AfterReadIsSound ==
    ASSUME NEW h \in Handlers, NEW q \in Request, NEW copy \in Copy, AfterRead(h, q, copy)
    PROVE  \E s : Sound(s) /\ Become(h, s)
  <1>1. CASE Answer(h)
    BY <1>1, AnswerIsSound DEF Answer
  <1>2. CASE Become(h, [q EXCEPT !.step = "write", !.seen = copy, !.late = FALSE])
    <2> DEFINE s == [q EXCEPT !.step = "write", !.seen = copy, !.late = FALSE]
    <2>1. s \in Request /\ s.step = "write" /\ s.seen = copy
      BY DEF Request, Step
    <2>2. Fits(s) /\ Current(s)
      BY <2>1, NamesAssumption DEF Fits, Current
    <2> QED
      BY <1>2, <2>1, <2>2 DEF Sound
  <1> QED
    BY <1>1, <1>2 DEF AfterRead

LEMMA ReadsKeep ==
    ASSUME IInv, NEW h \in Handlers, At(h, "idle"), NEW op \in Ops, NEW r \in Reviews,
           NEW k \in {"mine", r}, GetThrough(h, Begin(op, "fill"), k, r)
    PROVE  IInv'
  <1> DEFINE q == Begin(op, "fill")
  <1>1. q \in Request /\ q.step = "fill"
    BY DEF Begin, Request, Step
  <1>2. ~Writing(h) /\ UNCHANGED <<row, cache, offered>>
    BY DEF Writing, At, GetThrough
  <1>3. CASE r \in Live /\ Become(h, [q EXCEPT !.seen = [id |-> r, rating |-> row[r]]])
    <2> DEFINE s == [q EXCEPT !.seen = [id |-> r, rating |-> row[r]]]
    <2>1. [id |-> r, rating |-> row[r]] \in Copy
      BY <1>3 DEF Live, Copy
    <2>2. /\ s \in Request /\ s.step = "fill"
          /\ s.seen = [id |-> r, rating |-> row[r]]
      BY <1>1, <2>1 DEF Request
    <2>3. Fits(s) /\ Current(s)
      BY <2>1, <2>2, NamesAssumption DEF Fits, Current
    <2> QED
      BY <1>2, <1>3, <2>2, <2>3, QuietMove DEF Sound
  <1>4. CASE cache[k] # NoEntry /\ AfterRead(h, q, cache[k].value)
    <2>1. k \in Keys /\ FitsKey(k, cache[k])
      BY KeysByKind, ThreeParts DEF CopiesSound
    <2>2. cache[k].value \in Copy
      BY <1>4, <2>1 DEF FitsKey, Entry, Copy
    <2>3. PICK s : Sound(s) /\ Become(h, s)
      BY <1>1, <1>4, <2>2, AfterReadIsSound
    <2> QED
      BY <1>2, <2>3, QuietMove
  <1> QED
    BY <1>3, <1>4 DEF GetThrough

LEMMA FillReviewKeeps ==
    ASSUME IInv, NEW h \in Handlers, FillReview(h)
    PROVE  IInv'
  <1> DEFINE q == handler[h]
             k == KeyOf(q)
             c == [value |-> q.seen, late |-> q.late]
  <1>1. /\ q \in Request /\ Fits(q) /\ Current(q) /\ q.step = "fill"
        /\ ~Writing(h)
    BY ThreeParts, BusyHoldsRequest DEF FillReview, At, Writing
  <1>2. q.seen \in Copy /\ q.late \in BOOLEAN
    BY <1>1 DEF Fits, Request
  <1>3. k \in {"mine", q.seen.id} /\ q.seen.id \in Reviews
    BY <1>2 DEF KeyOf, Copy
  <1>4. Fresh(k, c)
    <2>1. k \notin ListKeys \cup {"summary"} /\ k \in Keys
      BY <1>3, KeysByKind
    <2>2. c \in Entry(Copy) /\ (k = q.seen.id => c \in Entry([id : {k}, rating : Ratings]))
      BY <1>2 DEF Entry, Copy
    <2>3. k \in Reviews => k = q.seen.id
      BY <1>3, KeysByKind
    <2>4. c.late \/ row[c.value.id] = c.value.rating
      BY <1>1 DEF Current
    <2> QED
      BY <2>1, <2>2, <2>3, <2>4 DEF Fresh, FitsKey, Right, ListKeys
  <1>5. PICK s : Sound(s) /\ Become(h, s)
    BY <1>1, <1>2, AfterReadIsSound DEF FillReview
  <1>6. k \in Keys
    BY <1>3, KeysByKind
  <1> QED
    BY <1>1, <1>4, <1>5, <1>6, SetKeeps DEF FillReview

LEMMA WritesKeep ==
    ASSUME IInv, NEW h \in Handlers,
           addPlatformReview(h) \/ updateReview(h) \/ deletePlatformReview(h)
    PROVE  IInv'
  <1>1. CASE addPlatformReview(h)
    <2>1. PICK r \in Reviews, rating \in Ratings :
            /\ row[r] = Unborn
            /\ Write(h, r, rating, [Begin("add", "announce") EXCEPT
                                        !.seen = [id |-> r, rating |-> rating]])
      BY <1>1 DEF addPlatformReview
    <2> DEFINE c == [id |-> r, rating |-> rating]
               q == [Begin("add", "announce") EXCEPT !.seen = c]
    <2>2. c \in Copy
      BY DEF Copy
    <2>3. q \in Request /\ q.step = "announce" /\ q.op = "add" /\ q.seen = c
      BY <2>2 DEF Begin, Request, Step, Ops
    <2>4. Fits(q)
      BY <2>2, <2>3, NamesAssumption DEF Fits
    <2>5. /\ Write(h, r, rating, q) /\ ~Writing(h) /\ UNCHANGED <<cache, offered>>
          /\ c.id = r /\ c.rating = rating
      BY <1>1, <2>1 DEF addPlatformReview, Arrives, At, Writing
    <2> HIDE DEF q, c
    <2> QED
      BY <2>1, <2>3, <2>4, <2>5, WriteKeeps
  <1>2. ASSUME updateReview(h) \/ deletePlatformReview(h)
        PROVE  /\ handler[h] \in Request /\ handler[h].step = "write"
               /\ handler[h].seen \in Copy /\ ~Writing(h)
    BY <1>2, ThreeParts, BusyHoldsRequest
    DEF updateReview, deletePlatformReview, At, Writing, Fits, Request
  <1>3. CASE updateReview(h)
    <2> DEFINE old == handler[h]
               r == old.seen.id
    <2>1. PICK rating \in Ratings :
            Write(h, r, rating, [old EXCEPT !.step = "announce", !.seen.rating = rating])
      BY <1>3 DEF updateReview
    <2> DEFINE q == [old EXCEPT !.step = "announce", !.seen.rating = rating]
    <2>2. /\ q.step = "announce" /\ q.op = "update"
          /\ q.seen = [old.seen EXCEPT !.rating = rating]
          /\ q = [old EXCEPT !.step = "announce", !.seen = [old.seen EXCEPT !.rating = rating]]
      BY <1>2, <1>3 DEF updateReview, Request
    <2>3. /\ [old.seen EXCEPT !.rating = rating] \in Copy
          /\ q.seen.id = r /\ q.seen.rating = rating /\ r \in Reviews
      BY <1>2, <1>3, <2>2 DEF Copy
    <2>4. q \in Request
      BY <1>2, <1>3, <2>2, <2>3 DEF Request, Step
    <2>5. Fits(q)
      BY <2>2, <2>3, NamesAssumption DEF Fits
    <2>6. Write(h, r, rating, q) /\ UNCHANGED <<cache, offered>>
      BY <1>3, <2>1 DEF updateReview
    <2> HIDE DEF q
    <2> QED
      BY <1>2, <1>3, <2>2, <2>3, <2>4, <2>5, <2>6, WriteKeeps
  <1>4. CASE deletePlatformReview(h)
    <2> DEFINE old == handler[h]
               r == old.seen.id
               q == [old EXCEPT !.step = "forget"]
    <2>1. /\ q \in Request /\ q.step = "forget" /\ q.op = "delete" /\ q.seen = old.seen
          /\ r \in Reviews
      BY <1>2, <1>4 DEF deletePlatformReview, Request, Step, Copy
    <2>2. Fits(q)
      BY <1>2, <1>4, <2>1, NamesAssumption DEF Fits
    <2>3. Write(h, r, Gone, q) /\ UNCHANGED <<cache, offered>>
      BY <1>4 DEF deletePlatformReview
    <2> HIDE DEF q
    <2> QED
      BY <1>2, <1>4, <2>1, <2>2, <2>3, WriteKeeps
  <1> QED
    BY <1>1, <1>3, <1>4

LEMMA AnnouncementsKeep ==
    ASSUME IInv, NEW h \in Handlers, AnnounceReview(h) \/ ForgetReview(h)
    PROVE  IInv'
  <1> DEFINE q == handler[h]
  <1>1. /\ q \in Request /\ Fits(q) /\ Current(q) /\ CopiesSound
        /\ Answer(h) /\ UNCHANGED <<row, offered>>
    BY ThreeParts, BusyHoldsRequest DEF AnnounceReview, ForgetReview, At
  <1>2. CASE AnnounceReview(h)
    <2> DEFINE c == [value |-> q.seen, late |-> q.late]
               new == [k \in Keys |-> IF k \in Touched(q) THEN c
                                      ELSE Without(StaleAfter(q.op))[k]]
    <2>1. /\ q.seen \in Copy /\ q.late \in BOOLEAN /\ q.seen.id \in Reviews
          /\ q.late \/ row[q.seen.id] = q.seen.rating
      BY <1>1, <1>2 DEF AnnounceReview, At, Fits, Current, Request, Copy
    <2>2. PICK lost : cache' = Copies(new, lost)
      BY <1>2 DEF AnnounceReview
    <2>3. ASSUME NEW k \in Touched(q)
          PROVE  Fresh(k, c)
      <3>1. k \in {"mine"} \cup Reviews /\ k \notin ListKeys \cup {"summary"}
        BY <2>1, KeysByKind DEF Touched
      <3>2. c \in Entry(Copy) /\ (k = q.seen.id => c \in Entry([id : {k}, rating : Ratings]))
        BY <2>1 DEF Entry, Copy
      <3>3. k \in Reviews => k = q.seen.id
        BY <2>1, KeysByKind DEF Touched
      <3> QED
        BY <2>1, <3>1, <3>2, <3>3 DEF Fresh, FitsKey, Right, ListKeys
    <2> HIDE DEF c
    <2>4. ASSUME NEW k \in Keys
          PROVE  \/ Fresh(k, new[k])
                 \/ new[k] = cache[k] /\ k \notin Due(h)
      BY <2>3, NothingIsFresh DEF Without, Due
    <2>5. /\ DOMAIN cache' = Keys
          /\ \A k \in Keys : \/ Fresh(k, cache'[k])
                             \/ cache'[k] = cache[k] /\ k \notin Due(h)
      <3> HIDE DEF new
      <3> QED
        BY <1>1, <2>2, <2>4, LostIsLate
    <2> QED
      BY <1>1, <2>5, LeavingKeeps
  <1>3. CASE ForgetReview(h)
    <2>1. PICK lost : cache' = Copies(Without(Due(h)), lost)
      BY <1>3 DEF ForgetReview
    <2>2. ASSUME NEW k \in Keys
          PROVE  \/ Fresh(k, Without(Due(h))[k])
                 \/ Without(Due(h))[k] = cache[k] /\ k \notin Due(h)
      BY NothingIsFresh DEF Without
    <2>3. /\ DOMAIN cache' = Keys
          /\ \A k \in Keys : \/ Fresh(k, cache'[k])
                             \/ cache'[k] = cache[k] /\ k \notin Due(h)
      BY <1>1, <2>1, <2>2, LostIsLate
    <2> QED
      BY <1>1, <2>3, LeavingKeeps
  <1> QED
    BY <1>2, <1>3

LEMMA ListingsFit ==
    ASSUME NEW ratings \in SUBSET Ratings
    PROVE  Listed(ratings) \in Listing /\ Listed(ratings) # NoEntry
  BY NamesAssumption DEF Listed, Listing

LEMMA ListsKeep ==
    ASSUME IInv, NEW h \in Handlers,
           (\E k \in ListKeys : getList(h, k)) \/ FillList(h)
    PROVE  IInv'
  <1>1. ASSUME NEW k \in ListKeys, getList(h, k)
        PROVE  IInv'
    <2> DEFINE ratings == IF k = "public" THEN Good ELSE Ratings
               q == [Begin(k, "fillList") EXCEPT !.listed = Listed(ratings)]
    <2>1. Listed(ratings) \in Listing /\ Listed(ratings) # NoEntry
      BY ListingsFit, NamesAssumption
    <2>2. /\ q \in Request /\ q.step = "fillList" /\ q.op = k
          /\ q.listed = Listed(ratings)
      BY <2>1 DEF Begin, Request, Step, Ops
    <2>3. Fits(q) /\ Current(q)
      BY <2>1, <2>2 DEF Fits, Current
    <2>4. Become(h, q) /\ ~Writing(h) /\ UNCHANGED <<row, cache, offered>>
      BY <1>1 DEF getList, Arrives, At, Writing
    <2> HIDE DEF q
    <2> QED
      BY <2>2, <2>3, <2>4, QuietMove DEF Sound
  <1>2. CASE FillList(h)
    <2> DEFINE q == handler[h]
               c == [value |-> q.listed, late |-> q.late]
    <2>1. /\ q \in Request /\ Fits(q) /\ Current(q) /\ q.step = "fillList"
          /\ ~Writing(h)
      BY <1>2, ThreeParts, BusyHoldsRequest DEF FillList, At, Writing
    <2>2. /\ q.op \in ListKeys /\ q.listed \in Listing /\ q.late \in BOOLEAN
          /\ q.late \/ q.op = "public" \/ q.listed = Listed(Ratings)
      BY <2>1 DEF Fits, Current, Request
    <2>3. Fresh(q.op, c)
      <3>1. c \in Entry(Listing)
        BY <2>2 DEF Entry
      <3> QED
        BY <2>2, <3>1, KeysByKind DEF Fresh, FitsKey, Right
    <2>4. q.op \in Keys
      BY <2>2, KeysByKind
    <2> QED
      BY <1>2, <2>1, <2>3, <2>4, AnswerIsSound, SetKeeps DEF FillList, Answer
  <1> QED
    BY <1>1, <1>2

LEMMA SummariesKeep ==
    ASSUME IInv, NEW h \in Handlers,
           getPlatformReviewSummary(h) \/ BreakDown(h) \/ FillSummary(h)
    PROVE  IInv'
  <1>1. Listed(Ratings) \in Listing /\ Listed(Ratings) # NoEntry
    BY ListingsFit
  <1>2. CASE getPlatformReviewSummary(h)
    <2> DEFINE q == [Begin("summary", "breakDown") EXCEPT !.listed = Listed(Ratings)]
    <2>1. /\ q \in Request /\ q.step = "breakDown" /\ q.op = "summary"
          /\ q.listed = Listed(Ratings)
      BY <1>1 DEF Begin, Request, Step, Ops
    <2>2. Fits(q) /\ Current(q)
      BY <1>1, <2>1 DEF Fits, Current
    <2>3. Become(h, q) /\ ~Writing(h) /\ UNCHANGED <<row, cache, offered>>
      BY <1>2 DEF getPlatformReviewSummary, Arrives, At, Writing
    <2> HIDE DEF q
    <2> QED
      BY <2>1, <2>2, <2>3, QuietMove DEF Sound
  <1>3. CASE BreakDown(h)
    <2> DEFINE old == handler[h]
               q == [old EXCEPT !.step = "fillSummary", !.broken = Listed(Ratings)]
    <2>1. old \in Request /\ Fits(old) /\ Current(old) /\ old.step = "breakDown"
      BY <1>3, ThreeParts, BusyHoldsRequest DEF BreakDown, At
    <2>2. /\ q \in Request /\ q.step = "fillSummary" /\ q.op = old.op
          /\ q.listed = old.listed /\ q.broken = Listed(Ratings) /\ q.late = old.late
      BY <1>1, <2>1 DEF Request, Step
    <2>3. Fits(q) /\ Current(q)
      BY <1>1, <2>1, <2>2 DEF Fits, Current
    <2>4. Become(h, q) /\ ~Writing(h) /\ UNCHANGED <<row, cache, offered>>
      BY <1>3 DEF BreakDown, At, Writing
    <2> HIDE DEF q
    <2> QED
      BY <2>2, <2>3, <2>4, QuietMove DEF Sound
  <1>4. CASE FillSummary(h)
    <2> DEFINE q == handler[h]
               v == [counted |-> q.listed, broken |-> q.broken]
               c == [value |-> v, late |-> q.late]
    <2>1. /\ q \in Request /\ Fits(q) /\ Current(q) /\ q.step = "fillSummary"
          /\ ~Writing(h)
      BY <1>4, ThreeParts, BusyHoldsRequest DEF FillSummary, At, Writing
    <2>2. /\ v \in Statistics /\ q.late \in BOOLEAN
          /\ q.late \/ v = [counted |-> Listed(Ratings), broken |-> Listed(Ratings)]
      BY <2>1 DEF Fits, Current, Request, Statistics
    <2> HIDE DEF v
    <2>3. Fresh("summary", c)
      <3>1. c \in Entry(Statistics)
        BY <2>2 DEF Entry
      <3> QED
        BY <2>2, <3>1, KeysByKind DEF Fresh, FitsKey, Right
    <2>4. Set("summary", h, v)
      BY <1>4 DEF FillSummary, v
    <2> QED
      BY <1>4, <2>1, <2>3, <2>4, KeysByKind, AnswerIsSound, SetKeeps DEF FillSummary, Answer
  <1> QED
    BY <1>2, <1>3, <1>4

LEMMA FailuresKeep ==
    ASSUME IInv, NEW h \in Handlers, ReviewIsGone(h) \/ HandlerDies(h)
    PROVE  IInv'
  <1>1. Answer(h) /\ UNCHANGED <<row, offered>>
    BY DEF ReviewIsGone, HandlerDies
  <1>2. CASE Writing(h)
    <2>1. cache' = Copies(cache, Due(h))
      BY <1>2 DEF ReviewIsGone, HandlerDies, Writing, At
    <2> QED
      BY <1>1, <2>1, ThreeParts, LostIsLate, LeavingKeeps
  <1>3. CASE ~Writing(h)
    <2>1. UNCHANGED cache
      BY <1>3 DEF ReviewIsGone, HandlerDies, Writing
    <2> QED
      BY <1>1, <1>3, <2>1, AnswerIsSound, QuietMove DEF Answer
  <1> QED
    BY <1>2, <1>3

LEMMA ExpireKeeps ==
    ASSUME IInv, NEW k \in Keys, Expire(k)
    PROVE  IInv'
  <1>1. UNCHANGED <<row, handler, offered>> /\ cache' = Without({k})
    BY DEF Expire
  <1>2. HandlersSound' /\ RowsTyped'
    BY <1>1, ThreeParts
    DEF HandlersSound, HandlersFit, Fits, Current, Listed, At, RowsTyped
  <1>3. CopiesSound'
    <2>1. /\ DOMAIN cache' = Keys
          /\ \A j \in Keys : Fresh(j, cache'[j]) \/ cache'[j] = cache[j]
      BY <1>1, NothingIsFresh DEF Without
    <2>2. \A j \in Keys : Owed(j) => Owed(j)'
      BY <1>1 DEF Owed, Writing, At, Due, Touched
    <2> QED
      BY <1>1, <2>1, <2>2, ThreeParts, CopiesKept
  <1> QED
    BY <1>2, <1>3, PTL, ThreeParts

-----------------------------------------------------------------------------
(* The theorems.                                                           *)

LEMMA InvariantInit == Init => IInv
  <1> SUFFICES ASSUME Init PROVE IInv
    OBVIOUS
  <1>1. RowsTyped
    BY NamesAssumption DEF Init, RowsTyped, Table
  <1>2. HandlersSound
    BY DEF Init, HandlersSound, HandlersFit, At, Idle
  <1>3. CopiesSound
    BY NothingIsFresh DEF Init, CopiesSound, Fresh
  <1> QED
    BY <1>1, <1>2, <1>3, ThreeParts

LEMMA InvariantNext == IInv /\ [Next]_vars => IInv'
  <1> SUFFICES ASSUME IInv, [Next]_vars PROVE IInv'
    OBVIOUS
  <1>1. CASE UNCHANGED vars
    <2>1. UNCHANGED <<row, cache, handler, offered>>
      BY <1>1 DEF vars
    <2>2. RowsTyped' /\ HandlersSound' /\ CopiesSound'
      BY <2>1, ThreeParts
      DEF RowsTyped, HandlersSound, HandlersFit, Fits, Current, Listed, At, CopiesSound,
          Fresh, FitsKey, Right, Owed, Writing, Due, Touched
    <2> QED
      BY <2>2, PTL, ThreeParts
  <1>2. ASSUME NEW h \in Handlers, NEW r \in Reviews, NEW op \in {"getMine", "update"},
               getPlatformReviewByUserId(h, op, r)
        PROVE  IInv'
    BY <1>2, ReadsKeep DEF getPlatformReviewByUserId, Arrives, Ops
  <1>3. ASSUME NEW h \in Handlers, NEW r \in Reviews, NEW op \in {"getOne", "delete"},
               getPlatformReview(h, op, r)
        PROVE  IInv'
    BY <1>3, ReadsKeep DEF getPlatformReview, Arrives, Ops
  <1> QED
    BY <1>1, <1>2, <1>3, FillReviewKeeps, WritesKeep, AnnouncementsKeep, ListsKeep,
       SummariesKeep, FailuresKeep, ExpireKeeps
    DEF Next

\* The invariant of any number of requests, under FairSpec as well.
THEOREM InvariantHolds == Spec => []IInv
  BY InvariantInit, InvariantNext, PTL DEF Spec

\* The copies of a user's review (platform-review.service.ts:281-291, :315-319),
\* the admins' list, the trend and the statistics agree with the rows, unless a
\* request has the key to renew or the copy is late.
THEOREM CopiesAreRight == Spec => []CopiesFollowRows
  <1>1. IInv => CopiesFollowRows
    BY DEF IInv
  <1> QED
    BY <1>1, InvariantHolds, PTL

=============================================================================
