-------------------------- MODULE ReviewFlowProofs --------------------------
(* Proofs about ReviewFlow, for every set of reviews, pages, requests and   *)
(* processes.                                                               *)
EXTENDS ReviewFlow, FiniteSetTheorems, TLAPS

USE ReviewsAssumption, KeysAssumption, ProcessAssumption, NoEntryAssumption

LEMMA TypeInit == Init => TypeOK
  BY DEF Init, TypeOK, Snapshot, Value, EditorState, Idle, RequestState, RequestStep

-----------------------------------------------------------------------------
(* Types.                                                                  *)

LEMMA TypeReviews ==
  ASSUME TypeOK, ProductReviewsNext
  PROVE  TypeOK'
<1> USE DEF TypeOK, summaryVars, At, Become
<1>1. ASSUME NEW e \in Editors, NEW r \in Reviews,
             \/ addProductReview(e, r) \/ CreateReview(e, r)
             \/ AnnounceReview(e, r)
             \/ \E op \in {"get", "update", "delete"} :
                    getSingleProductReview(e, r, op)
             \/ LoadSingle(e, r) \/ FillSingle(e, r)
             \/ updateProductReview(e, r) \/ deleteProductReview(e, r)
             \/ InvalidateReview(e, r)
      PROVE  TypeOK'
  <2> USE DEF EditorState, Idle
  <2>1. CASE addProductReview(e, r)
    BY <2>1 DEF addProductReview
  <2>2. CASE CreateReview(e, r)
    BY <2>2 DEF CreateReview, Snapshot, Value, Overtaken, Keys
  <2>3. CASE AnnounceReview(e, r)
    BY <2>3 DEF AnnounceReview, Drop, Stale, Keys, Cached, CachedReview
  <2>4. CASE \E op \in {"get", "update", "delete"} : getSingleProductReview(e, r, op)
    BY <2>4 DEF getSingleProductReview
  <2>5. CASE LoadSingle(e, r)
    BY <2>5 DEF LoadSingle
  <2>6. CASE FillSingle(e, r)
    BY <2>6 DEF FillSingle, Cached, CachedReview
  <2>7. CASE updateProductReview(e, r)
    BY <2>7 DEF updateProductReview, Write, Snapshot, Value, Overtaken, Keys
  <2>8. CASE deleteProductReview(e, r)
    BY <2>8 DEF deleteProductReview, Write, Snapshot, Value, Overtaken, Keys
  <2>9. CASE InvalidateReview(e, r)
    BY <2>9 DEF InvalidateReview, Drop, Stale, Keys
  <2>10. QED
    BY <1>1, <2>1, <2>2, <2>3, <2>4, <2>5, <2>6, <2>7, <2>8, <2>9
<1>2. ASSUME NEW e \in Editors, NEW k \in Pages,
             getProductReviews(e, k) \/ LoadPage(e, k) \/ FillPage(e, k)
      PROVE  TypeOK'
  BY <1>2 DEF getProductReviews, LoadPage, FillPage, EditorState, Idle
<1>3. ASSUME NEW e \in Editors, LeaveEditor(e) PROVE TypeOK'
  BY <1>3 DEF LeaveEditor, EditorState, Idle, Stale, Keys
<1>4. ASSUME NEW r \in Reviews, ReviewExpires(r) PROVE TypeOK'
  BY <1>4 DEF ReviewExpires
<1>5. ASSUME NEW k \in Pages, PageExpires(k) PROVE TypeOK'
  BY <1>5 DEF PageExpires
<1>6. QED
  BY <1>1, <1>2, <1>3, <1>4, <1>5 DEF ProductReviewsNext

LEMMA AnswerFits ==
  ASSUME NEW state \in RequestState, NEW answer \in Summary
  PROVE  [state EXCEPT !.step = "store", !.answer = answer] \in RequestState
  BY DEF RequestState, RequestStep

LEMMA TypeSummary ==
  ASSUME TypeOK, ReviewSummaryNext
  PROVE  TypeOK'
<1> USE DEF TypeOK, rowVars, RequestState, RequestStep, Goto, Is, Over
<1>1. Fallback \in Summary
  BY DEF Fallback, Summary, Snapshot, Value
<1>2. ASSUME NEW q \in Requests, Advance(q) PROVE TypeOK'
  <2>1. CASE readCachedSummary(q)
    BY <2>1 DEF readCachedSummary
  <2>2. CASE getSummary(q)
    BY <2>2 DEF getSummary, Entry
  <2>3. CASE loadReviews(q) \/ loadReviewStats(q)
    BY <2>3 DEF loadReviews, loadReviewStats
  <2>4. CASE generateSummary(q)
    <3>1. request[q].reviews \in Snapshot /\ request[q].stats \in Snapshot
      BY <2>4 DEF generateSummary, Loaded
    <3>2. \A kind \in {"generic", "llm"} :
            [kind |-> kind, reviews |-> request[q].reviews, stats |-> request[q].stats]
                \in Summary
      BY <3>1 DEF Summary
    <3>3. PICK answer \in Summary :
            request' = [request EXCEPT ![q].step = "store", ![q].answer = answer]
      BY <2>4, <3>2 DEF generateSummary, Generic, LlmSummary
    <3>4. UNCHANGED <<rowVars, summary, inFlight, overtaken>>
      BY <2>4 DEF generateSummary
    <3>5. request' = [request EXCEPT ![q] =
                        [request[q] EXCEPT !.step = "store", !.answer = answer]]
      BY <3>3
    <3>6. [request[q] EXCEPT !.step = "store", !.answer = answer] \in RequestState
      BY AnswerFits
    <3>7. request' \in [Requests -> RequestState]
      BY <3>5, <3>6
    <3>8. QED
      BY <3>4, <3>7 DEF rowVars
  <2>5. CASE GenerationFails(q)
    BY <1>1, <2>5 DEF GenerationFails
  <2>6. CASE CacheSummary(q)
    BY <2>6 DEF CacheSummary
  <2>7. CASE Settle(q)
    BY <2>7 DEF Settle
  <2>8. QED
    BY <1>2, <2>1, <2>2, <2>3, <2>4, <2>5, <2>6, <2>7 DEF Advance
<1>3. ASSUME NEW i \in Processes, Crash(i) PROVE TypeOK'
  BY <1>3 DEF Crash
<1>4. CASE SummaryExpires
  BY <1>4 DEF SummaryExpires
<1>5. QED
  BY <1>2, <1>3, <1>4 DEF ReviewSummaryNext

LEMMA TypeStep ==
  ASSUME TypeOK, [Next]_vars PROVE TypeOK'
<1>1. CASE UNCHANGED vars
  BY <1>1 DEF TypeOK, vars
<1>2. QED
  BY <1>1, TypeReviews, TypeSummary DEF Next

\* Rows, caches, handlers and requests keep their types.
THEOREM TypeCorrect == Spec => []TypeOK
<1>1. Init => TypeOK
  BY TypeInit
<1>2. TypeOK /\ [Next]_vars => TypeOK'
  BY TypeStep
<1>3. QED
  BY <1>1, <1>2, PTL DEF Spec

-----------------------------------------------------------------------------
(* One review per user.                                                    *)

LEMMA RowsChange ==
  ASSUME TypeOK, ProductReviewsNext
  PROVE  \/ UNCHANGED row
         \/ \E e \in Editors, r \in Reviews : CreateReview(e, r)
         \/ \E e \in Editors, r \in Reviews, value \in Value : Write(e, r, value)
<1>1. ASSUME NEW e \in Editors, NEW r \in Reviews,
             updateProductReview(e, r) \/ deleteProductReview(e, r)
      PROVE  \E value \in Value : Write(e, r, value)
  BY <1>1 DEF updateProductReview, deleteProductReview, Value
<1>2. ASSUME NEW e \in Editors, NEW r \in Reviews,
             \/ addProductReview(e, r) \/ AnnounceReview(e, r)
             \/ \E op \in {"get", "update", "delete"} :
                    getSingleProductReview(e, r, op)
             \/ LoadSingle(e, r) \/ FillSingle(e, r) \/ InvalidateReview(e, r)
      PROVE  UNCHANGED row
  BY <1>2 DEF addProductReview, AnnounceReview, getSingleProductReview,
              LoadSingle, FillSingle, InvalidateReview
<1>3. ASSUME NEW e \in Editors, NEW k \in Pages,
             getProductReviews(e, k) \/ LoadPage(e, k) \/ FillPage(e, k)
      PROVE  UNCHANGED row
  BY <1>3 DEF getProductReviews, LoadPage, FillPage
<1>4. ASSUME NEW e \in Editors, LeaveEditor(e) PROVE UNCHANGED row
  BY <1>4 DEF LeaveEditor
<1>5. ASSUME NEW r \in Reviews, ReviewExpires(r) PROVE UNCHANGED row
  BY <1>5 DEF ReviewExpires
<1>6. ASSUME NEW k \in Pages, PageExpires(k) PROVE UNCHANGED row
  BY <1>6 DEF PageExpires
<1>7. QED
  BY <1>1, <1>2, <1>3, <1>4, <1>5, <1>6 DEF ProductReviewsNext

LEMMA SummaryKeepsRows ==
  ASSUME ReviewSummaryNext PROVE UNCHANGED <<rowVars, overtaken>>
<1>1. ASSUME NEW q \in Requests, Advance(q) PROVE UNCHANGED <<rowVars, overtaken>>
  BY <1>1 DEF Advance, readCachedSummary, getSummary, loadReviews,
              loadReviewStats, generateSummary, GenerationFails, CacheSummary,
              Settle
<1>2. QED
  BY <1>1 DEF ReviewSummaryNext, Crash, SummaryExpires

LEMMA OneReviewStep ==
  ASSUME TypeOK, OneReviewPerUser, [Next]_vars
  PROVE  OneReviewPerUser'
<1> USE DEF OneReviewPerUser, Live, TypeOK, Snapshot
<1>1. CASE UNCHANGED row
  BY <1>1
<1>2. ASSUME NEW e \in Editors, NEW r \in Reviews, CreateReview(e, r)
      PROVE  OneReviewPerUser'
  BY <1>2 DEF CreateReview, NoReviewBy
<1>3. ASSUME NEW e \in Editors, NEW r \in Reviews, NEW value \in Value,
             Write(e, r, value)
      PROVE  OneReviewPerUser'
  BY <1>3 DEF Write
<1>4. QED
  BY <1>1, <1>2, <1>3, RowsChange, SummaryKeepsRows DEF Next, vars, rowVars

-----------------------------------------------------------------------------
(* The map of generations.                                                 *)

\* A step that neither starts nor ends a generation.
LEMMA SameGenerations ==
  ASSUME SingleFlight, UNCHANGED inFlight,
         \A q \in Requests :
            (request'[q].step \in {"load", "store", "settle"})
                <=> (request[q].step \in {"load", "store", "settle"})
  PROVE  SingleFlight'
  BY DEF SingleFlight, Running

LEMMA ReviewsKeepRequests ==
  ASSUME ProductReviewsNext PROVE UNCHANGED <<inFlight, request>>
<1> USE DEF summaryVars
<1>1. ASSUME NEW e \in Editors, NEW r \in Reviews,
             \/ addProductReview(e, r) \/ CreateReview(e, r)
             \/ AnnounceReview(e, r)
             \/ \E op \in {"get", "update", "delete"} :
                    getSingleProductReview(e, r, op)
             \/ LoadSingle(e, r) \/ FillSingle(e, r)
             \/ updateProductReview(e, r) \/ deleteProductReview(e, r)
             \/ InvalidateReview(e, r)
      PROVE  UNCHANGED <<inFlight, request>>
  BY <1>1 DEF addProductReview, CreateReview, AnnounceReview,
              getSingleProductReview, LoadSingle, FillSingle,
              updateProductReview, deleteProductReview, Write, InvalidateReview
<1>2. ASSUME NEW e \in Editors, NEW k \in Pages,
             getProductReviews(e, k) \/ LoadPage(e, k) \/ FillPage(e, k)
      PROVE  UNCHANGED <<inFlight, request>>
  BY <1>2 DEF getProductReviews, LoadPage, FillPage
<1>3. QED
  BY <1>1, <1>2 DEF ProductReviewsNext, LeaveEditor, ReviewExpires, PageExpires

LEMMA SingleFlightStep ==
  ASSUME TypeOK, SingleFlight, [Next]_vars
  PROVE  SingleFlight'
<1> USE DEF Is, Goto, Over
<1>1. CASE UNCHANGED summaryVars \/ UNCHANGED vars \/ ProductReviewsNext
  <2>1. UNCHANGED <<inFlight, request>>
    <3>1. CASE ProductReviewsNext
      BY <3>1, ReviewsKeepRequests
    <3>2. QED
      BY <1>1, <3>1 DEF vars, summaryVars
  <2>2. QED
    BY <2>1 DEF SingleFlight, Running
<1>2. ASSUME NEW q \in Requests, Advance(q) PROVE SingleFlight'
  <2>1. CASE readCachedSummary(q)
    BY <2>1, SameGenerations DEF readCachedSummary, TypeOK, RequestState
  <2>2. CASE getSummary(q) /\ Entry(q) # Nobody
    BY <2>2, SameGenerations DEF getSummary, TypeOK, RequestState
  <2>3. CASE getSummary(q) /\ Entry(q) = Nobody
    <3>1. Running(ProcessOf[q])' = {q}
      BY <2>3 DEF getSummary, SingleFlight, Running, Entry, TypeOK,
         RequestState
    <3>2. \A i \in Processes \ {ProcessOf[q]} : Running(i)' = Running(i)
      BY <2>3 DEF getSummary, Running, TypeOK
    <3>3. QED
      BY <2>3, <3>1, <3>2 DEF getSummary, SingleFlight, Entry, TypeOK
  <2>4. CASE loadReviews(q) \/ loadReviewStats(q)
    BY <2>4, SameGenerations DEF loadReviews, loadReviewStats, TypeOK,
       RequestState
  <2>5. CASE generateSummary(q)
    BY <2>5, SameGenerations DEF generateSummary, TypeOK
  <2>6. CASE GenerationFails(q)
    BY <2>6, SameGenerations DEF GenerationFails, TypeOK
  <2>7. CASE CacheSummary(q)
    BY <2>7, SameGenerations DEF CacheSummary, TypeOK
  <2>8. CASE Settle(q)
    <3>1. inFlight[ProcessOf[q]] = q /\ Running(ProcessOf[q]) = {q}
      BY <2>8 DEF Settle, SingleFlight, Running, TypeOK
    <3>2. Running(ProcessOf[q])' = {}
      BY <2>8, <3>1 DEF Settle, Running, TypeOK
    <3>3. \A i \in Processes \ {ProcessOf[q]} : Running(i)' = Running(i)
      BY <2>8 DEF Settle, Running, TypeOK
    <3>4. QED
      BY <2>8, <3>1, <3>2, <3>3 DEF Settle, SingleFlight, TypeOK
  <2>9. QED
    BY <1>2, <2>1, <2>2, <2>3, <2>4, <2>5, <2>6, <2>7, <2>8 DEF Advance
<1>3. ASSUME NEW i \in Processes, Crash(i) PROVE SingleFlight'
  <2>1. Running(i)' = {}
    BY <1>3 DEF Crash, Running, TypeOK, RequestState
  <2>2. \A j \in Processes \ {i} : Running(j)' = Running(j)
    BY <1>3 DEF Crash, Running, TypeOK
  <2>3. QED
    BY <1>3, <2>1, <2>2 DEF Crash, SingleFlight, TypeOK
<1>4. CASE SummaryExpires
  BY <1>4 DEF SummaryExpires, SingleFlight, Running
<1>5. QED
  BY <1>1, <1>2, <1>3, <1>4 DEF Next, ReviewSummaryNext

-----------------------------------------------------------------------------
(* Those who join.                                                         *)

LEMMA JoinersStep ==
  ASSUME TypeOK, SingleFlight, JoinersWait, [Next]_vars
  PROVE  JoinersWait'
<1> USE DEF Is, Goto, Over
<1>1. ASSUME UNCHANGED inFlight,
             \A q \in Requests : request'[q].step = "join" =>
                \/ request'[q] = request[q]
                \/ Entry(q) # Nobody /\ request'[q].leader = Entry(q)
      PROVE  JoinersWait'
  BY <1>1 DEF JoinersWait, Entry
<1>2. CASE UNCHANGED vars \/ ProductReviewsNext
  BY <1>1, <1>2, ReviewsKeepRequests DEF vars
<1>3. ASSUME NEW q \in Requests, Advance(q) PROVE JoinersWait'
  <2>1. CASE readCachedSummary(q)
    BY <1>1, <2>1 DEF readCachedSummary, TypeOK, RequestState
  <2>2. CASE getSummary(q) /\ Entry(q) # Nobody
    BY <1>1, <2>2 DEF getSummary, TypeOK, RequestState
  <2>3. CASE getSummary(q) /\ Entry(q) = Nobody
    <3>1. /\ inFlight' = [inFlight EXCEPT ![ProcessOf[q]] = q]
          /\ \A p \in Requests \ {q} : request'[p] = request[p]
          /\ request'[q].step = "load"
      BY <2>3 DEF getSummary, TypeOK, RequestState
    <3>2. \A p \in Requests : Is(p, "join") => ProcessOf[p] # ProcessOf[q]
      BY <2>3 DEF JoinersWait, Entry
    <3>3. QED
      BY <3>1, <3>2 DEF JoinersWait, Entry, TypeOK
  <2>4. CASE loadReviews(q) \/ loadReviewStats(q)
    BY <1>1, <2>4 DEF loadReviews, loadReviewStats, TypeOK, RequestState
  <2>5. CASE generateSummary(q)
    BY <1>1, <2>5 DEF generateSummary, TypeOK, RequestState
  <2>6. CASE GenerationFails(q)
    BY <1>1, <2>6 DEF GenerationFails, TypeOK, RequestState
  <2>7. CASE CacheSummary(q)
    BY <1>1, <2>7 DEF CacheSummary, TypeOK, RequestState
  <2>8. CASE Settle(q)
    <3>1. inFlight[ProcessOf[q]] = q
      BY <2>8 DEF Settle, SingleFlight, Running, TypeOK
    <3>2. \A p \in Requests : request'[p].step = "join" =>
             /\ request'[p] = request[p] /\ request[p].leader # q
      BY <2>8 DEF Settle
    <3>3. \A p \in Requests : request'[p].step = "join" => ProcessOf[p] # ProcessOf[q]
      BY <3>1, <3>2 DEF JoinersWait, Entry
    <3>4. QED
      BY <2>8, <3>2, <3>3 DEF Settle, JoinersWait, Entry, TypeOK
  <2>9. QED
    BY <1>3, <2>1, <2>2, <2>3, <2>4, <2>5, <2>6, <2>7, <2>8 DEF Advance
<1>4. ASSUME NEW i \in Processes, Crash(i) PROVE JoinersWait'
  BY <1>4 DEF Crash, JoinersWait, Entry, TypeOK
<1>5. CASE SummaryExpires
  BY <1>1, <1>5 DEF SummaryExpires
<1>6. QED
  BY <1>2, <1>3, <1>4, <1>5 DEF Next, ReviewSummaryNext

-----------------------------------------------------------------------------
(* What is stored is what was computed.                                    *)

Kinds == StoreFitsRead /\ CachedKindFitsCount

LEMMA TotalCounts ==
  ASSUME NEW snapshot \in Snapshot
  PROVE  Cardinality(Live(snapshot)) \in Nat
  BY FS_Subset, FS_CardinalityType DEF Live

\* Requests that hold what they held, or neither begin nor store nor settle.
LEMMA SameStores ==
  ASSUME StoreFitsRead, NEW p \in Requests,
         \/ request'[p] = request[p]
         \/ request'[p].step \notin {"new", "missed", "store", "settle"}
  PROVE  StoreFitsReadOf(p)'
  BY DEF StoreFitsRead, StoreFitsReadOf, Loaded, TotalReviewCount, Live

LEMMA ReviewsDropSummary ==
  ASSUME ProductReviewsNext PROVE summary' \in {summary, NoEntry}
<1> USE DEF summaryVars
<1>1. ASSUME NEW e \in Editors, NEW r \in Reviews,
             \/ addProductReview(e, r) \/ CreateReview(e, r)
             \/ AnnounceReview(e, r)
             \/ \E op \in {"get", "update", "delete"} :
                    getSingleProductReview(e, r, op)
             \/ LoadSingle(e, r) \/ FillSingle(e, r)
             \/ updateProductReview(e, r) \/ deleteProductReview(e, r)
             \/ InvalidateReview(e, r)
      PROVE  summary' \in {summary, NoEntry}
  BY <1>1 DEF addProductReview, CreateReview, AnnounceReview, Drop,
              getSingleProductReview, LoadSingle, FillSingle,
              updateProductReview, deleteProductReview, Write, InvalidateReview
<1>2. ASSUME NEW e \in Editors, NEW k \in Pages,
             getProductReviews(e, k) \/ LoadPage(e, k) \/ FillPage(e, k)
      PROVE  summary' \in {summary, NoEntry}
  BY <1>2 DEF getProductReviews, LoadPage, FillPage
<1>3. QED
  BY <1>1, <1>2 DEF ProductReviewsNext, LeaveEditor, ReviewExpires, PageExpires

LEMMA KindsStep ==
  ASSUME TypeOK, Kinds, [Next]_vars
  PROVE  Kinds'
<1> USE DEF Kinds, Is, Goto, Over
<1>1. CASE UNCHANGED vars \/ ProductReviewsNext
  <2>1. /\ UNCHANGED request
        /\ summary' \in {summary, NoEntry}
    BY <1>1, ReviewsKeepRequests, ReviewsDropSummary DEF vars
  <2>2. StoreFitsRead'
    BY <2>1, SameStores DEF StoreFitsRead
  <2>3. CachedKindFitsCount'
    BY <2>1 DEF CachedKindFitsCount, Live
  <2>4. QED
    BY <2>2, <2>3
<1>2. ASSUME NEW q \in Requests, Advance(q) PROVE Kinds'
  <2>1. CASE readCachedSummary(q)
    <3>1. /\ \A p \in Requests \ {q} : request'[p] = request[p]
          /\ \/ request'[q].step = "done"
             \/ request'[q] = [request[q] EXCEPT !.step = "missed"]
          /\ request[q].step = "new"
      BY <2>1 DEF readCachedSummary, TypeOK
    <3>2. StoreFitsReadOf(q)'
      BY <3>1 DEF TypeOK, RequestState, StoreFitsRead, StoreFitsReadOf
    <3>3. StoreFitsRead'
      BY <3>1, <3>2, SameStores DEF StoreFitsRead
    <3>4. QED
      BY <2>1, <3>3 DEF readCachedSummary, CachedKindFitsCount, Live
  <2>2. CASE getSummary(q)
    <3>1. StoreFitsRead'
      BY <2>2, SameStores DEF getSummary, TypeOK, RequestState, StoreFitsRead
    <3>2. QED
      BY <2>2, <3>1 DEF getSummary, CachedKindFitsCount, Live
  <2>3. CASE loadReviews(q) \/ loadReviewStats(q)
    <3>1. StoreFitsRead'
      BY <2>3, SameStores
      DEF loadReviews, loadReviewStats, TypeOK, RequestState, StoreFitsRead
    <3>2. QED
      BY <2>3, <3>1 DEF loadReviews, loadReviewStats, CachedKindFitsCount, Live
  <2>4. CASE generateSummary(q)
    <3>1. /\ request[q].reviews \in Snapshot /\ request[q].stats \in Snapshot
          /\ request[q].step = "load"
      BY <2>4 DEF generateSummary, Loaded, TypeOK, RequestState
    <3> DEFINE few == TotalReviewCount(q) < MIN_REVIEWS
               answer == [kind |-> IF few THEN "generic" ELSE "llm",
                          reviews |-> request[q].reviews, stats |-> request[q].stats]
    <3>2. request' = [request EXCEPT ![q].step = "store", ![q].answer = answer]
      BY <2>4 DEF generateSummary, Generic, LlmSummary
    <3>3. answer \in Summary
      BY <3>1 DEF Summary
    <3>4. /\ \A p \in Requests \ {q} : request'[p] = request[p]
          /\ request'[q].step = "store" /\ request'[q].answer = answer
          /\ request'[q].reviews = request[q].reviews
          /\ request'[q].stats = request[q].stats
      BY <3>2 DEF TypeOK, RequestState
    <3>5. answer.kind = IF TotalReviewCount(q) >= MIN_REVIEWS THEN "llm" ELSE "generic"
      <4>1. TotalReviewCount(q) \in Nat
        BY <3>1, TotalCounts DEF TotalReviewCount
      <4>2. QED
        BY <4>1, CountAssumption
    <3>6. StoreFitsReadOf(q)'
      <4>1. Loaded(q)' /\ TotalReviewCount(q)' = TotalReviewCount(q)
        BY <2>4, <3>4 DEF generateSummary, Loaded, TotalReviewCount, Live
      <4>2. answer.reviews = request[q].reviews /\ answer.stats = request[q].stats
        OBVIOUS
      <4> HIDE DEF answer
      <4>3. QED
        BY <3>3, <3>4, <3>5, <4>1, <4>2 DEF StoreFitsReadOf
    <3>7. StoreFitsRead'
      BY <3>4, <3>6, SameStores DEF StoreFitsRead
    <3>8. QED
      BY <2>4, <3>7 DEF generateSummary, CachedKindFitsCount, Live
  <2>5. CASE GenerationFails(q)
    <3>1. Fallback # NoEntry
      BY DEF Fallback, Summary, Snapshot, Value
    <3>2. /\ \A p \in Requests \ {q} : request'[p] = request[p]
          /\ request'[q].step = "settle" /\ request'[q].answer = Fallback
      BY <2>5 DEF GenerationFails, TypeOK, RequestState
    <3>3. StoreFitsRead'
      BY <3>1, <3>2, SameStores DEF StoreFitsRead, StoreFitsReadOf
    <3>4. QED
      BY <2>5, <3>3 DEF GenerationFails, CachedKindFitsCount, Live
  <2>6. CASE CacheSummary(q)
    <3>1. /\ \A p \in Requests \ {q} : request'[p] = request[p]
          /\ request'[q].step = "settle" /\ request'[q].answer = request[q].answer
          /\ request[q].step = "store"
      BY <2>6 DEF CacheSummary, TypeOK, RequestState
    <3>2. StoreFitsReadOf(q)
      BY DEF StoreFitsRead
    <3>3. request[q].answer # NoEntry
      BY <3>1, <3>2 DEF StoreFitsReadOf
    <3>4. StoreFitsRead'
      BY <3>1, <3>3, SameStores DEF StoreFitsRead, StoreFitsReadOf
    <3>5. CachedKindFitsCount'
      BY <2>6, <3>1, <3>2
      DEF CacheSummary, StoreFitsReadOf, CachedKindFitsCount, TotalReviewCount, Live
    <3>6. QED
      BY <3>4, <3>5
  <2>7. CASE Settle(q)
    <3>1. \A p \in Requests : \/ request'[p] = request[p]
                              \/ request'[p].step = "done"
      BY <2>7 DEF Settle, TypeOK
    <3>2. StoreFitsRead'
      BY <3>1, SameStores DEF StoreFitsRead
    <3>3. QED
      BY <2>7, <3>2 DEF Settle, CachedKindFitsCount, Live
  <2>8. QED
    BY <1>2, <2>1, <2>2, <2>3, <2>4, <2>5, <2>6, <2>7 DEF Advance
<1>3. ASSUME NEW i \in Processes, Crash(i) PROVE Kinds'
  <2>1. \A p \in Requests : request'[p] = request[p] \/ request'[p].step = "lost"
    BY <1>3 DEF Crash
  <2>2. StoreFitsRead'
    BY <2>1, SameStores DEF StoreFitsRead
  <2>3. QED
    BY <1>3, <2>2 DEF Crash, CachedKindFitsCount, Live
<1>4. CASE SummaryExpires
  BY <1>4, SameStores DEF SummaryExpires, StoreFitsRead, CachedKindFitsCount
<1>5. QED
  BY <1>1, <1>2, <1>3, <1>4 DEF Next, ReviewSummaryNext

-----------------------------------------------------------------------------
(* Caches.                                                                 *)

Follow == CachesFollowRows /\ FillsAreCurrent
Ends == {"invalidate", "announce"}

LEMMA EditorFields ==
  ASSUME TypeOK, NEW e \in Editors
  PROVE  /\ editor[e].step \in {"fill", "announce"} =>
                editor[e].review \in Reviews /\ editor[e].seen \in Ratings
         /\ editor[e].step \in Ends => editor[e].review \in Reviews
         /\ editor[e].step = "fillPage" => editor[e].page \in Pages
  BY DEF TypeOK, EditorState, Idle, Ends

LEMMA SamePending ==
  ASSUME NEW e \in Editors,
         \A d \in Editors \ {e} : editor'[d] = editor[d],
         editor[e].step \notin Ends, editor'[e].step \notin Ends,
         NEW r \in Reviews
  PROVE  Pending(r)' = Pending(r)
<1>1. Pending(r)' => Pending(r)
  BY DEF Pending, Ends
<1>2. Pending(r) => Pending(r)'
  BY DEF Pending, Ends
<1>3. Pending(r) \in BOOLEAN /\ Pending(r)' \in BOOLEAN
  BY DEF Pending
<1>4. QED
  BY <1>1, <1>2, <1>3

\* The commit of a write to r: it marks every key somebody is about to fill,
\* and its own deletions are still to come.
LEMMA FollowCommit ==
  ASSUME TypeOK, Follow, NEW e \in Editors, NEW r \in Reviews, NEW value \in Value,
         row' = [row EXCEPT ![r] = value],
         \A d \in Editors \ {e} : editor'[d] = editor[d],
         editor[e].step \in {"create", "write"},
         editor'[e].step \in Ends,
         editor'[e].review = r,
         editor'[e].step = "announce" => editor'[e].seen = value,
         overtaken' = overtaken \cup Overtaken(r),
         UNCHANGED <<single, page, summary, request>>
  PROVE  Follow'
<1>1. Pending(r)' /\ ~ Settled'
  BY DEF Pending, Settled, Ends
<1>2. \A s \in Reviews : Pending(s) => Pending(s)'
  BY DEF Pending
<1>3. row'[r] = value /\ \A s \in Reviews \ {r} : row'[s] = row[s]
  BY DEF TypeOK, Snapshot
<1>4. ASSUME NEW s \in Reviews PROVE ReviewFollows(s)'
  BY <1>1, <1>2, <1>3 DEF Follow, CachesFollowRows, ReviewFollows
<1>5. CachesFollowRows'
  BY <1>1, <1>4 DEF CachesFollowRows, PageFollows, SummaryFollows
<1>6. ASSUME NEW d \in Editors PROVE ReviewFillIsCurrent(d)'
  <2>1. CASE d = e
    BY <1>3, <2>1 DEF ReviewFillIsCurrent, Ends
  <2>2. CASE d # e /\ editor[d].step \in {"fill", "announce"}
    <3>1. CASE editor[d].review = r
      <4>1. r \in Overtaken(r)
        BY <2>2, <3>1 DEF Overtaken, FillsReview
      <4>2. QED
        BY <2>2, <3>1, <4>1 DEF ReviewFillIsCurrent
    <3>2. CASE editor[d].review # r
      BY <1>3, <2>2, <3>2, EditorFields
      DEF ReviewFillIsCurrent, Follow, FillsAreCurrent
    <3>3. QED
      BY <3>1, <3>2
  <2>3. QED
    BY <2>1, <2>2 DEF ReviewFillIsCurrent
<1>7. ASSUME NEW d \in Editors PROVE PageFillIsCurrent(d)'
  <2>1. CASE d = e
    BY <2>1 DEF PageFillIsCurrent, Ends
  <2>2. CASE d # e /\ editor[d].step = "fillPage"
    <3>1. editor[d].page \in Overtaken(r)
      BY <2>2, EditorFields DEF Overtaken, FillsPage
    <3>2. QED
      BY <2>2, <3>1 DEF PageFillIsCurrent
  <2>3. QED
    BY <2>1, <2>2 DEF PageFillIsCurrent
<1>8. ASSUME NEW q \in Requests PROVE SummaryFillIsCurrent(q)'
  <2>1. CASE HoldsRows(q)
    <3>1. "summary" \in Overtaken(r)
      BY <2>1 DEF Overtaken
    <3>2. QED
      BY <3>1 DEF SummaryFillIsCurrent
  <2>2. CASE ~ HoldsRows(q)
    BY <2>2 DEF HoldsRows, SummaryFillIsCurrent, Generating
  <2>3. QED
    BY <2>1, <2>2
<1>9. QED
  BY <1>5, <1>6, <1>7, <1>8 DEF Follow, FillsAreCurrent

\* A mutation of r ends: what it does not delete is marked.
LEMMA FollowEnd ==
  ASSUME TypeOK, Follow, NEW e \in Editors, NEW r \in Reviews,
         NEW lost \in SUBSET Stale(r),
         editor[e].step \in Ends, editor[e].review = r,
         editor' = [editor EXCEPT ![e] = Idle],
         overtaken' = overtaken \cup lost,
         UNCHANGED <<row, request>>,
         \A s \in Reviews \ {r} : single'[s] = single[s],
         r \notin lost =>
            \/ single'[r] = NoEntry
            \/ /\ editor[e].step = "announce"
               /\ single'[r].rating = editor[e].seen,
         \A k \in Pages : \/ page'[k] = NoEntry
                          \/ page'[k] = page[k] /\ k \notin Stale(r) \ lost,
         \/ summary' = NoEntry
         \/ summary' = summary /\ "summary" \in lost
  PROVE  Follow'
<1>1. /\ editor'[e] = Idle
      /\ \A d \in Editors \ {e} : editor'[d] = editor[d]
  BY DEF TypeOK
<1>2. \A s \in Reviews \ {r} : Pending(s) => Pending(s)'
  BY <1>1 DEF Pending
<1>3. ASSUME NEW s \in Reviews PROVE ReviewFollows(s)'
  <2>1. CASE s = r
    BY <2>1
    DEF Follow, FillsAreCurrent, ReviewFillIsCurrent, ReviewFollows, Pending, Ends
  <2>2. CASE s # r
    BY <1>2, <2>2 DEF Follow, CachesFollowRows, ReviewFollows
  <2>3. QED
    BY <2>1, <2>2
<1>4. ASSUME NEW k \in DefaultPages PROVE PageFollows(k)'
  BY DEF PageFollows, Stale
<1>5. SummaryFollows'
  BY DEF SummaryFollows
<1>6. ASSUME NEW d \in Editors PROVE ReviewFillIsCurrent(d)' /\ PageFillIsCurrent(d)'
  BY <1>1
  DEF Follow, FillsAreCurrent, ReviewFillIsCurrent, PageFillIsCurrent, Idle
<1>7. ASSUME NEW q \in Requests PROVE SummaryFillIsCurrent(q)'
  BY DEF Follow, FillsAreCurrent, SummaryFillIsCurrent, Generating
<1>8. QED
  BY <1>3, <1>4, <1>5, <1>6, <1>7 DEF Follow, CachesFollowRows, FillsAreCurrent

\* A step that neither commits nor ends a mutation: it removes from the caches,
\* or puts there what the rows are unless that fill is marked.
LEMMA FollowKeep ==
  ASSUME Follow, UNCHANGED <<row, overtaken>>,
         \A r \in Reviews : Pending(r)' = Pending(r),
         \A r \in Reviews : \/ single'[r] \in {single[r], NoEntry}
                            \/ r \notin overtaken => single'[r].rating = row[r],
         \A k \in Pages : \/ page'[k] \in {page[k], NoEntry}
                          \/ k \notin overtaken => page'[k] = row,
         \/ summary' \in {summary, NoEntry}
         \/ "summary" \notin overtaken =>
                summary'.reviews = row /\ summary'.stats = row,
         \A e \in Editors : \/ editor'[e] = editor[e]
                            \/ ReviewFillIsCurrent(e)' /\ PageFillIsCurrent(e)',
         \A q \in Requests : \/ request'[q] = request[q]
                             \/ SummaryFillIsCurrent(q)'
  PROVE  Follow'
<1>1. Settled' <=> Settled
  BY DEF Settled
<1>2. ASSUME NEW r \in Reviews PROVE ReviewFollows(r)'
  BY DEF Follow, CachesFollowRows, ReviewFollows
<1>3. ASSUME NEW k \in DefaultPages PROVE PageFollows(k)'
  BY <1>1 DEF Follow, CachesFollowRows, PageFollows
<1>4. SummaryFollows'
  BY <1>1 DEF Follow, CachesFollowRows, SummaryFollows
<1>5. ASSUME NEW e \in Editors PROVE ReviewFillIsCurrent(e)' /\ PageFillIsCurrent(e)'
  BY DEF Follow, FillsAreCurrent, ReviewFillIsCurrent, PageFillIsCurrent
<1>6. ASSUME NEW q \in Requests PROVE SummaryFillIsCurrent(q)'
  BY DEF Follow, FillsAreCurrent, SummaryFillIsCurrent, Generating
<1>7. QED
  BY <1>2, <1>3, <1>4, <1>5, <1>6 DEF Follow, CachesFollowRows, FillsAreCurrent

LEMMA FollowReviews ==
  ASSUME TypeOK, Follow, ProductReviewsNext
  PROVE  Follow'
<1> USE DEF At, Become, summaryVars
<1>1. ASSUME NEW e \in Editors, NEW r \in Reviews, addProductReview(e, r)
      PROVE  Follow'
  <2>1. UNCHANGED <<row, single, page, summary, request, overtaken>>
    BY <1>1 DEF addProductReview
  <2>2. /\ \A d \in Editors \ {e} : editor'[d] = editor[d]
        /\ editor[e].step = "idle" /\ editor'[e].step = "create"
    BY <1>1 DEF addProductReview, TypeOK
  <2>3. QED
    BY <2>1, <2>2, FollowKeep, SamePending
    DEF Ends, ReviewFillIsCurrent, PageFillIsCurrent
<1>2. ASSUME NEW e \in Editors, NEW r \in Reviews, CreateReview(e, r)
      PROVE  Follow'
  <2>1. PICK rating \in Ratings :
          /\ row' = [row EXCEPT ![r] = rating]
          /\ editor' = [editor EXCEPT
                ![e] = [step |-> "announce", review |-> r, seen |-> rating]]
          /\ overtaken' = overtaken \cup Overtaken(r)
    BY <1>2 DEF CreateReview
  <2>2. editor[e].step = "create" /\ UNCHANGED <<single, page, summary, request>>
    BY <1>2 DEF CreateReview
  <2>3. /\ \A d \in Editors \ {e} : editor'[d] = editor[d]
        /\ editor'[e].step = "announce" /\ editor'[e].review = r
        /\ editor'[e].seen = rating
    BY <2>1 DEF TypeOK
  <2>4. rating \in Value /\ editor[e].step \in {"create", "write"}
        /\ editor'[e].step \in Ends
    BY <2>2, <2>3 DEF Value, Ends
  <2>5. QED
    BY <2>1, <2>2, <2>3, <2>4, FollowCommit
<1>3. ASSUME NEW e \in Editors, NEW r \in Reviews,
             updateProductReview(e, r) \/ deleteProductReview(e, r)
      PROVE  Follow'
  <2>1. editor[e].step = "write" /\ \E value \in Value : Write(e, r, value)
    BY <1>3 DEF updateProductReview, deleteProductReview, Value
  <2>2. PICK value \in Value : Write(e, r, value)
    BY <2>1
  <2>3. /\ row' = [row EXCEPT ![r] = value]
        /\ overtaken' = overtaken \cup Overtaken(r)
        /\ UNCHANGED <<single, page, summary, request>>
    BY <2>2 DEF Write
  <2>4. /\ \A d \in Editors \ {e} : editor'[d] = editor[d]
        /\ editor'[e].step = "invalidate" /\ editor'[e].review = r
    BY <2>2 DEF Write, TypeOK
  <2>5. /\ editor[e].step \in {"create", "write"} /\ editor'[e].step \in Ends
        /\ editor'[e].step # "announce"
    BY <2>1, <2>4 DEF Ends
  <2>6. QED
    BY <2>3, <2>4, <2>5, FollowCommit
<1>4. ASSUME NEW e \in Editors, NEW r \in Reviews, AnnounceReview(e, r)
      PROVE  Follow'
  <2>1. PICK lost \in SUBSET Stale(r) :
          /\ single' = IF r \in lost THEN single
                       ELSE [single EXCEPT ![r] = Cached("row", editor[e].seen)]
          /\ Drop(Stale(r) \ lost)
          /\ overtaken' = overtaken \cup lost
    BY <1>4 DEF AnnounceReview
  <2>2. /\ editor[e].step = "announce" /\ editor[e].review = r
        /\ editor' = [editor EXCEPT ![e] = Idle]
        /\ UNCHANGED <<row, request>>
    BY <1>4 DEF AnnounceReview
  <2>3. /\ \A s \in Reviews \ {r} : single'[s] = single[s]
        /\ r \notin lost => single'[r].rating = editor[e].seen
    BY <2>1 DEF TypeOK, Cached
  <2>4. /\ \A k \in Pages : \/ page'[k] = NoEntry
                            \/ page'[k] = page[k] /\ k \notin Stale(r) \ lost
        /\ \/ summary' = NoEntry
           \/ summary' = summary /\ "summary" \in lost
    BY <2>1 DEF Drop, Stale
  <2>5. QED
    BY <2>1, <2>2, <2>3, <2>4, FollowEnd DEF Ends
<1>5. ASSUME NEW e \in Editors, NEW r \in Reviews, InvalidateReview(e, r)
      PROVE  Follow'
  <2>1. PICK lost \in SUBSET Stale(r) :
          /\ single' = IF r \in lost THEN single
                       ELSE [single EXCEPT ![r] = NoEntry]
          /\ Drop(Stale(r) \ lost)
          /\ overtaken' = overtaken \cup lost
    BY <1>5 DEF InvalidateReview
  <2>2. /\ editor[e].step = "invalidate" /\ editor[e].review = r
        /\ editor' = [editor EXCEPT ![e] = Idle]
        /\ UNCHANGED <<row, request>>
    BY <1>5 DEF InvalidateReview
  <2>3. /\ \A s \in Reviews \ {r} : single'[s] = single[s]
        /\ r \notin lost => single'[r] = NoEntry
    BY <2>1 DEF TypeOK
  <2>4. /\ \A k \in Pages : \/ page'[k] = NoEntry
                            \/ page'[k] = page[k] /\ k \notin Stale(r) \ lost
        /\ \/ summary' = NoEntry
           \/ summary' = summary /\ "summary" \in lost
    BY <2>1 DEF Drop, Stale
  <2>5. QED
    BY <2>1, <2>2, <2>3, <2>4, FollowEnd DEF Ends
<1>6. ASSUME NEW e \in Editors, NEW r \in Reviews,
             NEW op \in {"get", "update", "delete"}, getSingleProductReview(e, r, op)
      PROVE  Follow'
  <2>1. UNCHANGED <<row, single, page, summary, request, overtaken>>
    BY <1>6 DEF getSingleProductReview
  <2>2. /\ \A d \in Editors \ {e} : editor'[d] = editor[d]
        /\ editor[e].step = "idle" /\ editor'[e].step \in {"load", "write"}
    BY <1>6 DEF getSingleProductReview, TypeOK
  <2>3. QED
    BY <2>1, <2>2, FollowKeep, SamePending
    DEF Ends, ReviewFillIsCurrent, PageFillIsCurrent
<1>7. ASSUME NEW e \in Editors, NEW r \in Reviews, LoadSingle(e, r)
      PROVE  Follow'
  <2>1. UNCHANGED <<row, single, page, summary, request, overtaken>>
    BY <1>7 DEF LoadSingle
  <2>2. /\ \A d \in Editors \ {e} : editor'[d] = editor[d]
        /\ editor[e].step = "load" /\ editor'[e].step = "fill"
        /\ editor'[e].review = r /\ editor'[e].seen = row[r]
    BY <1>7 DEF LoadSingle, TypeOK
  <2>3. QED
    BY <2>1, <2>2, FollowKeep, SamePending
    DEF Ends, ReviewFillIsCurrent, PageFillIsCurrent
<1>8. ASSUME NEW e \in Editors, NEW r \in Reviews, FillSingle(e, r)
      PROVE  Follow'
  <2>1. UNCHANGED <<row, page, summary, request, overtaken>>
    BY <1>8 DEF FillSingle
  <2>2. /\ \A d \in Editors \ {e} : editor'[d] = editor[d]
        /\ editor[e].step = "fill" /\ editor'[e].step \in {"idle", "write"}
        /\ editor[e].review = r
    BY <1>8 DEF FillSingle, TypeOK, Idle
  <2>3. \A s \in Reviews : \/ single'[s] \in {single[s], NoEntry}
                           \/ s \notin overtaken => single'[s].rating = row[s]
    BY <1>8, <2>2
    DEF FillSingle, Cached, TypeOK, Follow, FillsAreCurrent, ReviewFillIsCurrent
  <2>4. QED
    BY <2>1, <2>2, <2>3, FollowKeep, SamePending
    DEF Ends, ReviewFillIsCurrent, PageFillIsCurrent
<1>9. ASSUME NEW e \in Editors, NEW k \in Pages,
             getProductReviews(e, k) \/ LoadPage(e, k)
      PROVE  Follow'
  <2>1. UNCHANGED <<row, single, page, summary, request, overtaken>>
    BY <1>9 DEF getProductReviews, LoadPage
  <2>2. /\ \A d \in Editors \ {e} : editor'[d] = editor[d]
        /\ editor[e].step \in {"idle", "loadPage"}
        /\ \/ editor'[e].step = "loadPage"
           \/ editor'[e].step = "fillPage" /\ editor'[e].seen = row
    BY <1>9 DEF getProductReviews, LoadPage, TypeOK
  <2>3. QED
    BY <2>1, <2>2, FollowKeep, SamePending
    DEF Ends, ReviewFillIsCurrent, PageFillIsCurrent
<1>10. ASSUME NEW e \in Editors, NEW k \in Pages, FillPage(e, k)
       PROVE  Follow'
  <2>1. UNCHANGED <<row, single, summary, request, overtaken>>
    BY <1>10 DEF FillPage
  <2>2. /\ \A d \in Editors \ {e} : editor'[d] = editor[d]
        /\ editor[e].step = "fillPage" /\ editor'[e].step = "idle"
        /\ editor[e].page = k
    BY <1>10 DEF FillPage, TypeOK, Idle
  <2>3. \A j \in Pages : \/ page'[j] \in {page[j], NoEntry}
                         \/ j \notin overtaken => page'[j] = row
    BY <1>10, <2>2
    DEF FillPage, TypeOK, Follow, FillsAreCurrent, PageFillIsCurrent
  <2>4. QED
    BY <2>1, <2>2, <2>3, FollowKeep, SamePending
    DEF Ends, ReviewFillIsCurrent, PageFillIsCurrent
<1>11. ASSUME NEW e \in Editors, LeaveEditor(e) PROVE Follow'
  <2>1. UNCHANGED <<row, single, page, summary, request>>
    BY <1>11 DEF LeaveEditor
  <2>2. editor' = [editor EXCEPT ![e] = Idle]
    BY <1>11 DEF LeaveEditor
  <2>3. CASE editor[e].step \in Ends
    <3>1. PICK r \in Reviews : r = editor[e].review
      BY <2>3, EditorFields
    <3>2. overtaken' = overtaken \cup Stale(r)
      BY <1>11, <2>3, <3>1 DEF LeaveEditor, Ends
    <3>3. r \in Stale(r) /\ "summary" \in Stale(r)
      BY DEF Stale
    <3>4. QED
      BY <2>1, <2>2, <2>3, <3>1, <3>2, <3>3, FollowEnd
  <2>4. CASE editor[e].step \notin Ends
    <3>1. UNCHANGED overtaken
      BY <1>11, <2>4 DEF LeaveEditor, Ends
    <3>2. /\ \A d \in Editors \ {e} : editor'[d] = editor[d]
          /\ editor'[e].step = "idle"
      BY <2>2 DEF TypeOK, Idle
    <3>3. QED
      BY <2>1, <2>4, <3>1, <3>2, FollowKeep, SamePending
      DEF Ends, ReviewFillIsCurrent, PageFillIsCurrent
  <2>5. QED
    BY <2>3, <2>4
<1>12. ASSUME NEW r \in Reviews, ReviewExpires(r) PROVE Follow'
  <2>1. UNCHANGED <<row, page, editor, summary, request, overtaken>>
    BY <1>12 DEF ReviewExpires
  <2>2. \A s \in Reviews : single'[s] \in {single[s], NoEntry}
    BY <1>12 DEF ReviewExpires, TypeOK
  <2>3. \A s \in Reviews : Pending(s)' = Pending(s)
    BY <2>1 DEF Pending
  <2>4. QED
    BY <2>1, <2>2, <2>3, FollowKeep
<1>13. ASSUME NEW k \in Pages, PageExpires(k) PROVE Follow'
  <2>1. UNCHANGED <<row, single, editor, summary, request, overtaken>>
    BY <1>13 DEF PageExpires
  <2>2. \A j \in Pages : page'[j] \in {page[j], NoEntry}
    BY <1>13 DEF PageExpires, TypeOK
  <2>3. \A s \in Reviews : Pending(s)' = Pending(s)
    BY <2>1 DEF Pending
  <2>4. QED
    BY <2>1, <2>2, <2>3, FollowKeep
<1>14. QED
  BY <1>1, <1>2, <1>3, <1>4, <1>5, <1>6, <1>7, <1>8, <1>9, <1>10, <1>11, <1>12,
     <1>13
  DEF ProductReviewsNext

LEMMA FollowSummary ==
  ASSUME TypeOK, Kinds, Follow, ReviewSummaryNext
  PROVE  Follow'
<1> USE DEF Is, Goto, Over
<1>1. UNCHANGED <<row, single, page, editor, overtaken>>
  BY SummaryKeepsRows DEF rowVars
<1>2. \A r \in Reviews : Pending(r)' = Pending(r)
  BY <1>1 DEF Pending
<1>3. ASSUME \/ summary' \in {summary, NoEntry}
             \/ "summary" \notin overtaken =>
                    summary'.reviews = row /\ summary'.stats = row,
             \A q \in Requests : \/ request'[q] = request[q]
                                 \/ SummaryFillIsCurrent(q)'
      PROVE  Follow'
  BY <1>1, <1>2, <1>3, FollowKeep
<1>4. ASSUME NEW q \in Requests, Advance(q) PROVE Follow'
  <2>1. CASE readCachedSummary(q)
    BY <1>3, <2>1
    DEF readCachedSummary, TypeOK, RequestState, SummaryFillIsCurrent, Generating
  <2>2. CASE getSummary(q)
    <3>1. UNCHANGED summary
      BY <2>2 DEF getSummary
    <3>2. \A p \in Requests \ {q} : request'[p] = request[p]
      BY <2>2 DEF getSummary, TypeOK
    <3>3. /\ request[q].step = "missed" /\ StoreFitsReadOf(q)
          /\ request'[q].reviews = request[q].reviews
          /\ request'[q].stats = request[q].stats
      BY <2>2 DEF getSummary, TypeOK, RequestState, Kinds, StoreFitsRead
    <3>4. SummaryFillIsCurrent(q)'
      BY <3>3 DEF StoreFitsReadOf, SummaryFillIsCurrent
    <3>5. QED
      BY <1>3, <3>1, <3>2, <3>4
  <2>3. CASE loadReviews(q) \/ loadReviewStats(q)
    <3>1. UNCHANGED summary
      BY <2>3 DEF loadReviews, loadReviewStats
    <3>2. \A p \in Requests \ {q} : request'[p] = request[p]
      BY <2>3 DEF loadReviews, loadReviewStats, TypeOK
    <3>3. SummaryFillIsCurrent(q)'
      BY <1>1, <2>3
      DEF loadReviews, loadReviewStats, TypeOK, RequestState, Follow,
          FillsAreCurrent, SummaryFillIsCurrent, Generating
    <3>4. QED
      BY <1>3, <3>1, <3>2, <3>3
  <2>4. CASE generateSummary(q)
    <3>1. UNCHANGED summary
      BY <2>4 DEF generateSummary
    <3>2. \A p \in Requests \ {q} : request'[p] = request[p]
      BY <2>4 DEF generateSummary, TypeOK
    <3>3. /\ request[q].step = "load"
          /\ request'[q].reviews = request[q].reviews
          /\ request'[q].stats = request[q].stats
      BY <2>4 DEF generateSummary, TypeOK, RequestState
    <3>4. SummaryFillIsCurrent(q)'
      BY <1>1, <3>3
      DEF Follow, FillsAreCurrent, SummaryFillIsCurrent, Generating
    <3>5. QED
      BY <1>3, <3>1, <3>2, <3>4
  <2>5. CASE GenerationFails(q)
    BY <1>3, <2>5
    DEF GenerationFails, TypeOK, SummaryFillIsCurrent, Generating
  <2>6. CASE CacheSummary(q)
    <3>1. /\ \A p \in Requests \ {q} : request'[p] = request[p]
          /\ request'[q].step = "settle" /\ request[q].step = "store"
          /\ summary' \in {request[q].answer, summary}
      BY <2>6 DEF CacheSummary, TypeOK, RequestState
    <3>2. StoreFitsReadOf(q) /\ SummaryFillIsCurrent(q)
      BY DEF Kinds, StoreFitsRead, Follow, FillsAreCurrent
    <3>3. "summary" \notin overtaken =>
            request[q].answer.reviews = row /\ request[q].answer.stats = row
      BY <3>1, <3>2 DEF StoreFitsReadOf, SummaryFillIsCurrent, Generating, Loaded
    <3>4. QED
      BY <1>3, <3>1, <3>3 DEF SummaryFillIsCurrent, Generating
  <2>7. CASE Settle(q)
    BY <1>3, <2>7 DEF Settle, SummaryFillIsCurrent, Generating
  <2>8. QED
    BY <1>4, <2>1, <2>2, <2>3, <2>4, <2>5, <2>6, <2>7 DEF Advance
<1>5. ASSUME NEW i \in Processes, Crash(i) PROVE Follow'
  BY <1>3, <1>5 DEF Crash, SummaryFillIsCurrent, Generating
<1>6. CASE SummaryExpires
  BY <1>3, <1>6 DEF SummaryExpires
<1>7. QED
  BY <1>4, <1>5, <1>6 DEF ReviewSummaryNext

-----------------------------------------------------------------------------
(* The invariant and what it is for.                                       *)

LEMMA InvInit == Init => IInv
<1> SUFFICES ASSUME Init PROVE IInv
  OBVIOUS
<1>1. TypeOK
  BY TypeInit
<1>2. Live(row) = {}
  BY DEF Init, Live
<1>3. OneReviewPerUser
  BY <1>2 DEF OneReviewPerUser
<1>4. SingleFlight
  BY DEF Init, SingleFlight, Running
<1>5. CachedKindFitsCount /\ StoreFitsRead /\ JoinersWait
  BY DEF Init, CachedKindFitsCount, StoreFitsRead, StoreFitsReadOf, JoinersWait, Is
<1>6. CachesFollowRows
  BY DEF Init, CachesFollowRows, ReviewFollows, PageFollows, SummaryFollows
<1>7. FillsAreCurrent
  BY DEF Init, Idle, FillsAreCurrent, ReviewFillIsCurrent, PageFillIsCurrent,
         SummaryFillIsCurrent, Generating
<1>8. QED
  BY <1>1, <1>3, <1>4, <1>5, <1>6, <1>7 DEF IInv

LEMMA InvStep == IInv /\ [Next]_vars => IInv'
<1> SUFFICES ASSUME IInv, [Next]_vars PROVE IInv'
  OBVIOUS
<1>1. TypeOK /\ OneReviewPerUser /\ SingleFlight /\ JoinersWait /\ Kinds /\ Follow
  BY DEF IInv, Kinds, Follow
<1>2. TypeOK' /\ OneReviewPerUser' /\ SingleFlight' /\ JoinersWait' /\ Kinds'
  BY <1>1, TypeStep, OneReviewStep, SingleFlightStep, JoinersStep, KindsStep
<1>3. Follow'
  <2>1. CASE UNCHANGED vars
    <3>1. \A r \in Reviews : Pending(r)' = Pending(r)
      BY <2>1 DEF vars, Pending
    <3>2. QED
      BY <1>1, <2>1, <3>1, FollowKeep DEF vars
  <2>2. QED
    BY <1>1, <2>1, FollowReviews, FollowSummary DEF Next
<1>4. QED
  BY <1>2, <1>3 DEF IInv, Kinds, Follow

\* The inductive invariant of reviews and summary together.
THEOREM Invariance == Spec => []IInv
  BY InvInit, InvStep, PTL DEF Spec

\* However the handlers interleave between looking for a review and creating
\* one, no user has two live reviews of the product.
THEOREM AtMostOneReview == Spec => []OneReviewPerUser
<1>1. IInv => OneReviewPerUser
  BY DEF IInv
<1>2. QED
  BY <1>1, Invariance, PTL

\* Concurrent misses in a process never start a second generation and no
\* generation stays in the map after its end.
THEOREM OneGenerationPerProcess == Spec => []SingleFlight
<1>1. IInv => SingleFlight
  BY DEF IInv
<1>2. QED
  BY <1>1, Invariance, PTL

\* The fallback of a failure is never cached, nor a summary of the wrong kind for
\* the reviews that were counted.
THEOREM KindFitsCount == Spec => []CachedKindFitsCount
<1>1. IInv => CachedKindFitsCount
  BY DEF IInv
<1>2. QED
  BY <1>1, Invariance, PTL

\* Without a fill that a write overtook and without a lost deletion, the cached
\* review, page and summary are what the rows are.
THEOREM CachesAreCoherent == Spec => []CachesFollowRows
<1>1. IInv => CachesFollowRows
  BY DEF IInv
<1>2. QED
  BY <1>1, Invariance, PTL

-----------------------------------------------------------------------------
(* Refinement: the summary service implements the shared generation.       *)

\* A step on one request, or on none, as a step on the phases.
LEMMA PhaseOfOne ==
  ASSUME NEW q \in Requests, \A p \in Requests \ {q} : request'[p].step = request[p].step
  PROVE  phase' = [phase EXCEPT ![q] = Phase(q)']
  BY DEF phase, Phase

LEMMA SamePhases ==
  ASSUME \A q \in Requests : Phase(q)' = Phase(q)
  PROVE  UNCHANGED phase
  BY DEF phase

\* Who runs by the phases is who is in the map.
LEMMA RunnersInMap ==
  ASSUME SingleFlight, NEW i \in Processes
  PROVE  /\ Sharing!Of(i, "running") = {inFlight[i]} \ {Nobody}
         /\ \A q \in Requests : phase[q] = "running" <=> q \in Running(ProcessOf[q])
  BY DEF Sharing!Of, phase, Phase, SingleFlight, Running

LEMMA ReadShares ==
  ASSUME IInv, NEW q \in Requests, readCachedSummary(q)
  PROVE  [Sharing!Next]_<<phase, cached>>
<1>1. UNCHANGED cached /\ \A p \in Requests \ {q} : request'[p] = request[p]
  BY DEF readCachedSummary, Goto, IInv, TypeOK, cached
<1>2. phase' = [phase EXCEPT ![q] = Phase(q)'] /\ phase[q] = "waiting"
  BY <1>1, PhaseOfOne DEF readCachedSummary, Is, phase, Phase
<1>3. CASE request'[q].step = "missed"
  <2>1. Phase(q)' = phase[q]
    BY <1>2, <1>3 DEF Phase
  <2>2. QED
    BY <1>1, <1>2, <2>1 DEF phase
<1>4. CASE request'[q].step = "done" /\ summary # NoEntry
  <2>1. Phase(q)' = "answered" /\ cached
    BY <1>4 DEF Phase, cached
  <2>2. Sharing!Hit(q)
    BY <1>1, <1>2, <2>1 DEF Sharing!Hit, Sharing!Become
  <2>3. QED
    BY <2>2 DEF Sharing!Next
<1>5. QED
  BY <1>3, <1>4 DEF readCachedSummary, Goto, Over, IInv, TypeOK, RequestState

LEMMA MissShares ==
  ASSUME IInv, NEW q \in Requests, getSummary(q)
  PROVE  [Sharing!Next]_<<phase, cached>>
<1>1. UNCHANGED cached /\ \A p \in Requests \ {q} : request'[p] = request[p]
  BY DEF getSummary, Goto, IInv, TypeOK, cached
<1>2. phase' = [phase EXCEPT ![q] = Phase(q)'] /\ phase[q] = "waiting"
  BY <1>1, PhaseOfOne DEF getSummary, Is, phase, Phase
<1>3. Sharing!Of(ProcessOf[q], "running") = {Entry(q)} \ {Nobody}
  BY RunnersInMap DEF IInv, Entry
<1>4. CASE Entry(q) = Nobody
  <2>1. Phase(q)' = "running"
    BY <1>4 DEF getSummary, Goto, IInv, TypeOK, RequestState, Phase
  <2>2. Sharing!Start(q)
    BY <1>1, <1>2, <1>3, <1>4, <2>1 DEF Sharing!Start, Sharing!Become
  <2>3. QED
    BY <2>2 DEF Sharing!Next
<1>5. CASE Entry(q) # Nobody
  <2>1. Phase(q)' = "joined"
    BY <1>5 DEF getSummary, IInv, TypeOK, RequestState, Phase
  <2>2. Sharing!Join(q)
    BY <1>1, <1>2, <1>3, <1>5, <2>1 DEF Sharing!Join, Sharing!Become
  <2>3. QED
    BY <2>2 DEF Sharing!Next
<1>6. QED
  BY <1>4, <1>5

\* A generation goes on: nothing of it is seen until something is cached.
LEMMA GenerationShares ==
  ASSUME IInv, NEW q \in Requests,
         \/ loadReviews(q) \/ loadReviewStats(q) \/ generateSummary(q)
         \/ GenerationFails(q) \/ CacheSummary(q)
  PROVE  [Sharing!Next]_<<phase, cached>>
<1>1. /\ request[q].step \in {"load", "store"}
      /\ request'[q].step \in {"load", "store", "settle"}
      /\ \A p \in Requests \ {q} : request'[p] = request[p]
  <2> USE DEF Is, Goto, Over, IInv, TypeOK, RequestState
  <2>1. CASE loadReviews(q) \/ loadReviewStats(q)
    BY <2>1 DEF loadReviews, loadReviewStats
  <2>2. CASE generateSummary(q)
    BY <2>2 DEF generateSummary
  <2>3. CASE GenerationFails(q)
    BY <2>3 DEF GenerationFails
  <2>4. CASE CacheSummary(q)
    BY <2>4 DEF CacheSummary
  <2>5. QED
    BY <2>1, <2>2, <2>3, <2>4
<1>2. \A p \in Requests : Phase(p)' = Phase(p)
  BY <1>1 DEF Phase
<1>3. UNCHANGED phase /\ phase[q] = "running"
  BY <1>1, <1>2, SamePhases DEF phase, Phase
<1>4. summary' = summary \/ summary' # NoEntry
  <2>1. request[q].step = "store" => request[q].answer # NoEntry
    BY DEF IInv, StoreFitsRead, StoreFitsReadOf
  <2>2. QED
    BY <2>1 DEF loadReviews, loadReviewStats, generateSummary, GenerationFails,
                CacheSummary, Is
<1>5. CASE summary' # NoEntry
  <2>1. Sharing!Store(q)
    BY <1>3, <1>5 DEF Sharing!Store, cached
  <2>2. QED
    BY <2>1 DEF Sharing!Next
<1>6. QED
  BY <1>3, <1>4, <1>5 DEF cached

\* Who joined at this process waits for q and no one else.
LEMMA SettleShares ==
  ASSUME IInv, NEW q \in Requests, Settle(q)
  PROVE  Sharing!Next
<1>1. inFlight[ProcessOf[q]] = q /\ phase[q] = "running"
  BY DEF Settle, Is, IInv, SingleFlight, Running, TypeOK, phase, Phase
<1>2. \A p \in Requests : Is(p, "join") =>
         (request[p].leader = q <=> ProcessOf[p] = ProcessOf[q])
  BY <1>1 DEF IInv, JoinersWait, Entry, SingleFlight, Running, TypeOK
<1>3. \A p \in Requests : phase[p] = "joined" <=> Is(p, "join")
  BY DEF phase, Phase, Is
<1>4. \A p \in Requests :
         p \in {q} \cup Sharing!Of(ProcessOf[q], "joined")
            <=> p = q \/ (Is(p, "join") /\ request[p].leader = q)
  BY <1>2, <1>3 DEF Sharing!Of
<1>5. \A p \in Requests :
         Phase(p)' = IF p = q \/ (Is(p, "join") /\ request[p].leader = q)
                     THEN "answered" ELSE Phase(p)
  BY DEF Settle, Over, Phase
<1>6. phase' = [p \in Requests |->
                  IF p \in {q} \cup Sharing!Of(ProcessOf[q], "joined")
                  THEN "answered" ELSE phase[p]]
  BY <1>4, <1>5 DEF phase
<1>7. UNCHANGED cached
  BY DEF Settle, cached
<1>8. Sharing!Finish(q)
  BY <1>1, <1>6, <1>7 DEF Sharing!Finish, Sharing!Move
<1>9. QED
  BY <1>8 DEF Sharing!Next

LEMMA CrashShares ==
  ASSUME IInv, NEW i \in Processes, Crash(i)
  PROVE  [Sharing!Next]_<<phase, cached>>
<1> DEFINE Missed == {q \in Requests : ProcessOf[q] = i /\ request[q].step = "missed"}
           Dead == Missed \cup Sharing!Of(i, "running") \cup Sharing!Of(i, "joined")
<1>1. Missed \in SUBSET Sharing!Of(i, "waiting")
  BY DEF Sharing!Of, phase, Phase
<1>2. ASSUME NEW q \in Requests
      PROVE  Phase(q)' = IF q \in Dead THEN "lost" ELSE Phase(q)
  <2>1. request[q].step \in RequestStep
    BY DEF IInv, TypeOK, RequestState
  <2>2. q \in Dead <=> /\ ProcessOf[q] = i
                       /\ request[q].step \in {"missed", "load", "store", "settle", "join"}
    BY DEF Sharing!Of, phase, Phase
  <2>3. CASE ProcessOf[q] = i /\ request[q].step \notin {"new", "done"}
    <3>1. Phase(q)' = "lost"
      BY <2>3 DEF Crash, Over, Phase
    <3>2. request[q].step = "lost" => Phase(q) = "lost"
      BY DEF Phase
    <3>3. QED
      BY <2>1, <2>2, <2>3, <3>1, <3>2 DEF RequestStep
  <2>4. CASE ~ (ProcessOf[q] = i /\ request[q].step \notin {"new", "done"})
    <3>1. Phase(q)' = Phase(q)
      BY <2>4 DEF Crash, Phase
    <3>2. QED
      BY <2>2, <2>4, <3>1
  <2>5. QED
    BY <2>3, <2>4
<1>3. phase' = [q \in Requests |-> IF q \in Dead THEN "lost" ELSE phase[q]]
  BY <1>2 DEF phase
<1>4. UNCHANGED cached
  BY DEF Crash, cached
<1>5. Sharing!Crash(i)
  BY <1>1, <1>3, <1>4 DEF Sharing!Crash, Sharing!Move
<1>6. QED
  BY <1>5 DEF Sharing!Next

\* The caches of the review service and the TTL only take the summary away.
LEMMA DropShares ==
  ASSUME UNCHANGED request, summary' \in {summary, NoEntry}
  PROVE  [Sharing!Next]_<<phase, cached>>
<1>1. UNCHANGED phase
  BY DEF phase, Phase
<1>2. CASE summary' = NoEntry
  BY <1>1, <1>2 DEF Sharing!Next, Sharing!Forget, cached
<1>3. QED
  BY <1>1, <1>2 DEF cached

LEMMA SharingStep ==
  ASSUME IInv, [Next]_vars
  PROVE  [Sharing!Next]_<<phase, cached>>
<1>1. CASE UNCHANGED vars \/ ProductReviewsNext \/ SummaryExpires
  BY <1>1, DropShares, ReviewsKeepRequests, ReviewsDropSummary DEF vars, SummaryExpires
<1>2. ASSUME NEW q \in Requests, Advance(q)
      PROVE  [Sharing!Next]_<<phase, cached>>
  BY <1>2, ReadShares, MissShares, GenerationShares, SettleShares DEF Advance
<1>3. QED
  BY <1>1, <1>2, CrashShares DEF Next, ReviewSummaryNext

\* Every step of reviews and summary, seen by those who ask for the summary, is
\* a step of the shared generation.
THEOREM SharedGenerationImplemented == Spec => ImplementsSharedGeneration
<1>1. Init => Sharing!Init
  <2> SUFFICES ASSUME Init PROVE Sharing!Init
    OBVIOUS
  <2>1. \A q \in Requests : Phase(q) = "waiting"
    BY DEF Init, Phase
  <2>2. QED
    BY <2>1 DEF Init, Sharing!Init, phase, cached
<1>2. IInv /\ [Next]_vars => [Sharing!Next]_Sharing!vars
  BY SharingStep DEF Sharing!vars
<1>3. QED
  BY <1>1, <1>2, Invariance, PTL DEF Spec, ImplementsSharedGeneration, Sharing!Spec

=============================================================================
