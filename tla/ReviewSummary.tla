--------------------------- MODULE ReviewSummary ----------------------------
(***************************************************************************)
(* product-review-summary.service.ts.  A request that misses the cache     *)
(* joins the generation its process has under way, or starts one, which    *)
(* queries reviews and statistics side by side, asks the LLM and caches    *)
(* the result.  A failure on the way yields the generic summary, uncached. *)
(***************************************************************************)
EXTENDS ReviewStore

Is(q, step) == request[q].step = step
Goto(q, step) == request' = [request EXCEPT ![q].step = step]
Entry(q) == inFlight[ProcessOf[q]]

LlmSummary(reviews, stats) == [kind |-> "llm", reviews |-> reviews, stats |-> stats]
Generic(reviews, stats) == [kind |-> "generic", reviews |-> reviews, stats |-> stats]

\* GENERIC_REVIEW_SUMMARY after a failure reflects nothing.
Fallback == [kind |-> "fallback", reviews |-> [r \in Reviews |-> "unborn"],
             stats |-> [r \in Reviews |-> "unborn"]]

\* A request that is over, one way or the other, holds nothing.
Over(step) == [step |-> step, leader |-> Nobody, reviews |-> NoEntry,
               stats |-> NoEntry, answer |-> NoEntry]

-----------------------------------------------------------------------------
\* The cached summary, if there is one and Redis answers.
readCachedSummary(q) ==
    /\ Is(q, "new")
    /\ \/ summary # NoEntry /\ request' = [request EXCEPT ![q] = Over("done")]
       \/ Goto(q, "missed")
    /\ UNCHANGED <<rowVars, summary, inFlight, overtaken>>

\* Slip: every miss starts a generation of its own.
getSummary_startsAnother(q) ==
    /\ Is(q, "missed")
    /\ inFlight' = [inFlight EXCEPT ![ProcessOf[q]] = q]
    /\ Goto(q, "load")
    /\ UNCHANGED <<rowVars, summary, overtaken>>

\* Back from the cache: look up the map and enter it without an await between.
getSummary(q) ==
    /\ Is(q, "missed")
    /\ IF Entry(q) = Nobody
       THEN /\ inFlight' = [inFlight EXCEPT ![ProcessOf[q]] = q]
            /\ Goto(q, "load")
       ELSE /\ request' = [request EXCEPT ![q].step = "join",
                                          ![q].leader = Entry(q)]
            /\ UNCHANGED inFlight
    /\ UNCHANGED <<rowVars, summary, overtaken>>

\* The two queries of Promise.all.
loadReviews(q) ==
    /\ Is(q, "load")
    /\ request[q].reviews = NoEntry
    /\ request' = [request EXCEPT ![q].reviews = row]
    /\ UNCHANGED <<rowVars, summary, inFlight, overtaken>>

loadReviewStats(q) ==
    /\ Is(q, "load")
    /\ request[q].stats = NoEntry
    /\ request' = [request EXCEPT ![q].stats = row]
    /\ UNCHANGED <<rowVars, summary, inFlight, overtaken>>

Loaded(q) == request[q].reviews # NoEntry /\ request[q].stats # NoEntry
TotalReviewCount(q) == Cardinality(Live(request[q].stats))

\* Too few reviews, or the LLM's answer.
generateSummary(q) ==
    /\ Is(q, "load")
    /\ Loaded(q)
    /\ LET reviews == request[q].reviews
           stats == request[q].stats
           answer == IF TotalReviewCount(q) < MIN_REVIEWS
                     THEN Generic(reviews, stats)
                     ELSE LlmSummary(reviews, stats)
       IN  request' = [request EXCEPT ![q].step = "store", ![q].answer = answer]
    /\ UNCHANGED <<rowVars, summary, inFlight, overtaken>>

\* Slip: what a failure yields is cached like any other summary.
GenerationFails_cached(q) ==
    /\ Is(q, "load")
    /\ request' = [request EXCEPT ![q] = [Over("store") EXCEPT !.answer = Fallback]]
    /\ UNCHANGED <<rowVars, summary, inFlight, overtaken>>

\* A query rejects, the LLM fails, times out or answers off the schema.
GenerationFails(q) ==
    /\ Is(q, "load")
    /\ request' = [request EXCEPT ![q] = [Over("settle") EXCEPT !.answer = Fallback]]
    /\ UNCHANGED <<rowVars, summary, inFlight, overtaken>>

\* SET with SUMMARY_TTL; a failure is only logged.
CacheSummary(q) ==
    /\ Is(q, "store")
    /\ summary' \in {request[q].answer, summary}
    /\ Goto(q, "settle")
    /\ UNCHANGED <<rowVars, inFlight, overtaken>>

\* Slip: only the request that started the generation learns of its end.
Settle_leaderOnly(q) ==
    /\ Is(q, "settle")
    /\ request' = [request EXCEPT ![q] = Over("done")]
    /\ inFlight' = [inFlight EXCEPT ![ProcessOf[q]] =
                        IF @ = q THEN Nobody ELSE @]
    /\ UNCHANGED <<rowVars, summary, overtaken>>

\* The promise resolves for its leader and for all who joined it, and leaves
\* the map if it is still the one there.
Settle(q) ==
    /\ Is(q, "settle")
    /\ request' = [p \in Requests |->
            IF p = q \/ (Is(p, "join") /\ request[p].leader = q)
            THEN Over("done")
            ELSE request[p]]
    /\ inFlight' = [inFlight EXCEPT ![ProcessOf[q]] =
                        IF @ = q THEN Nobody ELSE @]
    /\ UNCHANGED <<rowVars, summary, overtaken>>

-----------------------------------------------------------------------------
\* The process dies with its map and its requests and is started again.
Crash(i) ==
    /\ request' = [q \in Requests |->
            IF ProcessOf[q] = i /\ request[q].step \notin {"new", "done"}
            THEN Over("lost")
            ELSE request[q]]
    /\ inFlight' = [inFlight EXCEPT ![i] = Nobody]
    /\ UNCHANGED <<rowVars, summary, overtaken>>

SummaryExpires ==
    /\ summary # NoEntry
    /\ summary' = NoEntry
    /\ UNCHANGED <<rowVars, inFlight, request, overtaken>>

Advance(q) ==
    \/ readCachedSummary(q)
    \/ getSummary(q)
    \/ loadReviews(q)
    \/ loadReviewStats(q)
    \/ generateSummary(q)
    \/ GenerationFails(q)
    \/ CacheSummary(q)
    \/ Settle(q)

ReviewSummaryNext ==
    \/ \E q \in Requests : Advance(q)
    \/ \E i \in Processes : Crash(i)
    \/ SummaryExpires

=============================================================================
