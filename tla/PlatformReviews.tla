-------------------------- MODULE PlatformReviews ---------------------------
(***************************************************************************)
(* platform-review.service.ts and platform-review-analytics.service.ts:    *)
(* the review of the shop by one user, the copies of it under five kinds   *)
(* of keys, the statistics, and the requests under way.                    *)
(***************************************************************************)
EXTENDS FiniteSets

CONSTANTS
    Handlers,   \* requests that may be under way at once
    Reviews,    \* ids; a review that is written again has a new one
    Ratings,
    Good,       \* the ratings that the public page shows
    Scenarios,  \* bound: the operations a behaviour offers
    NoEntry,    \* an absent Redis key, a field not in use
    Unborn, Gone, Absent \* a review before, after, and not in a list

Table == [Reviews -> Ratings \cup {Unborn, Gone}]
Listing == [Reviews -> Ratings \cup {Absent}]
Copy == [id : Reviews, rating : Ratings]

\* Redis keys: the user's review, the lists, the statistics, one per review.
ListKeys == {"admin", "public", "trend"}
Keys == {"mine", "summary"} \cup ListKeys \cup Reviews
Ops == {"add", "update", "delete", "getMine", "getOne", "summary"} \cup ListKeys

ASSUME NamesAssumption ==
    /\ Reviews \cap (Ops \cup {"mine"}) = {}
    /\ {Unborn, Gone, Absent} \cap Ratings = {}
    /\ NoEntry \notin Copy \cup Listing
    /\ Good \subseteq Ratings
    /\ Scenarios \subseteq SUBSET Ops

VARIABLES
    row,        \* row[r]: the rating of the platform_reviews row r
    cache,      \* cache[k]: the copy under k; late is a ghost: a write overtook
                \* the handler that set it, or failed to replace it
    handler,    \* handler[h]: what the request h does next
    offered     \* the operations of this behaviour

vars == <<row, cache, handler, offered>>

Step == {"fill", "write", "announce", "forget", "fillList", "breakDown", "fillSummary"}
Statistics == [counted : Listing, broken : Listing]
Entry(S) == [value : S, late : BOOLEAN] \cup {NoEntry}
Request == [op : Ops, step : Step, seen : Copy \cup {NoEntry},
            listed : Listing \cup {NoEntry}, broken : Listing \cup {NoEntry},
            late : BOOLEAN]
Idle == [step |-> "idle"]

TypeOK ==
    /\ row \in Table
    /\ DOMAIN cache = Keys
    /\ cache["mine"] \in Entry(Copy)
    /\ \A r \in Reviews : cache[r] \in Entry([id : {r}, rating : Ratings])
    /\ \A k \in ListKeys : cache[k] \in Entry(Listing)
    /\ cache["summary"] \in Entry(Statistics)
    /\ handler \in [Handlers -> Request \cup {Idle}]
    /\ offered \subseteq Ops

Init ==
    /\ row = [r \in Reviews |-> Unborn]
    /\ cache = [k \in Keys |-> NoEntry]
    /\ handler = [h \in Handlers |-> Idle]
    /\ offered \in Scenarios

-----------------------------------------------------------------------------
At(h, step) == handler[h].step = step
Arrives(h, op) == At(h, "idle") /\ op \in offered
Begin(op, step) == [op |-> op, step |-> step, seen |-> NoEntry, listed |-> NoEntry,
                    broken |-> NoEntry, late |-> FALSE]
Become(h, state) == handler' = [handler EXCEPT ![h] = state]
Answer(h) == Become(h, Idle)
Set(k, h, value) ==
    cache' = [cache EXCEPT ![k] = [value |-> value, late |-> handler[h].late]]

Live == {r \in Reviews : row[r] \in Ratings}
Listed(ratings) ==
    [r \in Reviews |-> IF row[r] \in ratings THEN row[r] ELSE Absent]

\* h writes the row r and goes on; the other handlers hold what is now old.
Write(h, r, rating, state) ==
    /\ row' = [row EXCEPT ![r] = rating]
    /\ handler' = [g \in Handlers |->
                    IF g = h THEN state
                    ELSE IF At(g, "idle") THEN Idle
                    ELSE [handler[g] EXCEPT !.late = TRUE]]

\* Redis carries out every command but those on the keys in lost; short of
\* losing all (HandlerDies) a request loses at most one.
Copies(new, lost) ==
    [k \in Keys |-> IF k \notin lost THEN new[k]
                    ELSE IF cache[k] = NoEntry THEN NoEntry
                    ELSE [cache[k] EXCEPT !.late = TRUE]]
Without(keys) == [k \in Keys |-> IF k \in keys THEN NoEntry ELSE cache[k]]

\* The user has no other review: the index on userId refuses a second one.
addPlatformReview(h) ==
    /\ Arrives(h, "add")
    /\ Live = {}
    /\ \E r \in Reviews, rating \in Ratings :
        /\ row[r] = Unborn
        /\ Write(h, r, rating, [Begin("add", "announce") EXCEPT
                                    !.seen = [id |-> r, rating |-> rating]])
    /\ UNCHANGED <<cache, offered>>

\* What a request does with the copy it got.
AfterRead(h, q, copy) ==
    IF q.op \in {"update", "delete"}
    THEN Become(h, [q EXCEPT !.step = "write", !.seen = copy, !.late = FALSE])
    ELSE Answer(h)

\* Slip: a hit renews the entry.
GetThrough_renews(h, q, k, r) ==
    /\ \/ r \in Live /\ Become(h, [q EXCEPT !.seen = [id |-> r, rating |-> row[r]]])
       \/ /\ cache[k] # NoEntry
          /\ Become(h, [q EXCEPT !.seen = cache[k].value, !.late = cache[k].late])
    /\ UNCHANGED <<row, cache, offered>>

\* A hit, or a miss and its query of r in one step: by the time of the query
\* another handler may have filled the key.
GetThrough(h, q, k, r) ==
    /\ \/ r \in Live /\ Become(h, [q EXCEPT !.seen = [id |-> r, rating |-> row[r]]])
       \/ cache[k] # NoEntry /\ AfterRead(h, q, cache[k].value)
    /\ UNCHANGED <<row, cache, offered>>

\* By itself, or first in updateReview.
getPlatformReviewByUserId(h, op, r) ==
    Arrives(h, op) /\ GetThrough(h, Begin(op, "fill"), "mine", r)

\* By itself, or first in deletePlatformReview.
getPlatformReview(h, op, r) ==
    Arrives(h, op) /\ GetThrough(h, Begin(op, "fill"), r, r)

KeyOf(q) == IF q.op \in {"update", "getMine"} THEN "mine" ELSE q.seen.id

FillReview(h) ==
    LET q == handler[h]
    IN  /\ At(h, "fill")
        /\ Set(KeyOf(q), h, q.seen)
        /\ AfterRead(h, q, q.seen)
        /\ UNCHANGED <<row, offered>>

\* The row of the copy is gone, and the update or the deletion throws.
ReviewIsGone(h) ==
    /\ At(h, "write")
    /\ handler[h].seen.id \notin Live
    /\ Answer(h)
    /\ UNCHANGED <<row, cache, offered>>

updateReview(h) ==
    LET q == handler[h]
    IN  /\ At(h, "write")
        /\ q.op = "update"
        /\ q.seen.id \in Live
        /\ \E rating \in Ratings :
            Write(h, q.seen.id, rating,
                  [q EXCEPT !.step = "announce", !.seen.rating = rating])
        /\ UNCHANGED <<cache, offered>>

deletePlatformReview(h) ==
    LET q == handler[h]
    IN  /\ At(h, "write")
        /\ q.op = "delete"
        /\ q.seen.id \in Live
        /\ Write(h, q.seen.id, Gone, [q EXCEPT !.step = "forget"])
        /\ UNCHANGED <<cache, offered>>

\* invalidatePlatformReviewAnalyticsCache.
AnalyticsKeys == {"trend", "summary"}

\* Nobody deletes the key of the public page, nor addPlatformReview the admins'.
StaleAfter(op) == IF op = "add" THEN AnalyticsKeys ELSE AnalyticsKeys \cup {"admin"}

\* Slip: the user's key is not written again.
Touched_byId(q) == {q.seen.id}

Touched(q) == {"mine", q.seen.id}

\* The keys that h has yet to write or delete.
Due(h) == Touched(handler[h]) \cup StaleAfter(handler[h].op)

AnnounceReview(h) ==
    LET q == handler[h]
        entry == [value |-> q.seen, late |-> q.late]
        new == [k \in Keys |-> IF k \in Touched(q) THEN entry
                               ELSE Without(StaleAfter(q.op))[k]]
    IN  /\ At(h, "announce")
        /\ \E lost \in {{}} \cup {{k} : k \in Due(h)} : cache' = Copies(new, lost)
        /\ Answer(h)
        /\ UNCHANGED <<row, offered>>

ForgetReview(h) ==
    /\ At(h, "forget")
    /\ \E lost \in {{}} \cup {{k} : k \in Due(h)} : cache' = Copies(Without(Due(h)), lost)
    /\ Answer(h)
    /\ UNCHANGED <<row, offered>>

\* getAllPlatformReviews as it is called without filters, getPublicPlatformReviews
\* and getPlatformReviewTrend by month.
getList(h, k) ==
    /\ Arrives(h, k)
    /\ cache[k] = NoEntry
    /\ Become(h, [Begin(k, "fillList") EXCEPT
                    !.listed = Listed(IF k = "public" THEN Good ELSE Ratings)])
    /\ UNCHANGED <<row, cache, offered>>

FillList(h) ==
    /\ At(h, "fillList")
    /\ Set(handler[h].op, h, handler[h].listed)
    /\ Answer(h)
    /\ UNCHANGED <<row, offered>>

\* Slip: the breakdown is not awaited.
getPlatformReviewSummary_early(h) ==
    /\ Arrives(h, "summary")
    /\ cache["summary"] = NoEntry
    /\ Become(h, [Begin("summary", "fillSummary") EXCEPT !.listed = Listed(Ratings)])
    /\ UNCHANGED <<row, cache, offered>>

\* The queries of a summary run at the same time and see different tables.
getPlatformReviewSummary(h) ==
    /\ Arrives(h, "summary")
    /\ cache["summary"] = NoEntry
    /\ Become(h, [Begin("summary", "breakDown") EXCEPT !.listed = Listed(Ratings)])
    /\ UNCHANGED <<row, cache, offered>>

BreakDown(h) ==
    /\ At(h, "breakDown")
    /\ Become(h, [handler[h] EXCEPT !.step = "fillSummary", !.broken = Listed(Ratings)])
    /\ UNCHANGED <<row, cache, offered>>

FillSummary(h) ==
    /\ At(h, "fillSummary")
    /\ Set("summary", h, [counted |-> handler[h].listed, broken |-> handler[h].broken])
    /\ Answer(h)
    /\ UNCHANGED <<row, offered>>

\* An exception or a crash.
HandlerDies(h) ==
    /\ ~At(h, "idle")
    /\ cache' = IF At(h, "announce") \/ At(h, "forget") THEN Copies(cache, Due(h))
                ELSE cache
    /\ Answer(h)
    /\ UNCHANGED <<row, offered>>

Expire(k) ==
    /\ cache[k] # NoEntry
    /\ cache' = Without({k})
    /\ UNCHANGED <<row, handler, offered>>

Next ==
    \/ \E h \in Handlers :
        \/ addPlatformReview(h)
        \/ \E r \in Reviews :
            \/ \E op \in {"getMine", "update"} : getPlatformReviewByUserId(h, op, r)
            \/ \E op \in {"getOne", "delete"} : getPlatformReview(h, op, r)
        \/ FillReview(h) \/ ReviewIsGone(h)
        \/ updateReview(h) \/ deletePlatformReview(h)
        \/ AnnounceReview(h) \/ ForgetReview(h)
        \/ \E k \in ListKeys : getList(h, k)
        \/ FillList(h)
        \/ getPlatformReviewSummary(h) \/ BreakDown(h) \/ FillSummary(h)
        \/ HandlerDies(h)
    \/ \E k \in Keys : Expire(k)

Spec == Init /\ [][Next]_vars

\* Redis drops every key an hour after it was set.
FairSpec == Spec /\ \A k \in Keys : WF_vars(Expire(k))

-----------------------------------------------------------------------------
Writing(h) == At(h, "announce") \/ At(h, "forget")
Trusted(k) ==
    /\ cache[k] # NoEntry /\ ~cache[k].late
    /\ \A h \in Handlers : Writing(h) => k \notin Due(h)

\* platform-review.service.ts:281-291, :315-319: the user's review is served as
\* the row has it, under either of its keys, once no request has the key to
\* renew, unless a reader or a writer was overtaken or a command was lost; so
\* is the list of getAllPlatformReviews without filters, except that a review
\* that was added since may be missing (the controller's pipes ask for filters, so
\* the lists admins get are like the public page, which nobody deletes); and the statistics never mix two tables, though their queries may
\* run at two moments.
CopiesFollowRows ==
    /\ \A k \in {"mine"} \cup Reviews :
        Trusted(k) => row[cache[k].value.id] = cache[k].value.rating
    /\ Trusted("admin") => \A r \in Reviews :
        cache["admin"].value[r] \in {Absent, Listed(Ratings)[r]}
    /\ Trusted("trend") => cache["trend"].value = Listed(Ratings)
    /\ Trusted("summary") =>
        cache["summary"].value =
            [counted |-> Listed(Ratings), broken |-> Listed(Ratings)]

\* Whatever was lost or overtaken, and although nobody deletes the key of the
\* public page: a deleted review is in the end not served under any key again.
Served(r) ==
    \/ \E k \in {"mine", r} : cache[k] # NoEntry /\ cache[k].value.id = r
    \/ \E k \in {"admin", "public"} :
        cache[k] # NoEntry /\ cache[k].value[r] # Absent

DeletedReviewsFade ==
    \A r \in Reviews : row[r] = Gone ~> [](~Served(r))

-----------------------------------------------------------------------------
(* Why the copies follow: what the handlers in flight may rely on.         *)

\* Where a request is tells what it is and what it holds.
Fits(q) ==
    /\ q.step \in {"fill", "write", "announce", "forget"} => q.seen # NoEntry
    /\ q.step \in {"fillList", "breakDown", "fillSummary"} => q.listed # NoEntry
    /\ q.step = "fillSummary" => q.broken # NoEntry
    /\ q.step = "fillList" => q.op \in ListKeys
    /\ q.step = "announce" => q.op \in {"add", "update"}
    /\ q.step = "forget" => q.op = "delete"

\* Unless it was overtaken, what it is about to cache is current.
Current(q) ==
    q.late \/
        /\ q.step \in {"fill", "announce"} => row[q.seen.id] = q.seen.rating
        /\ \/ q.step = "fillList" /\ q.op # "public"
           \/ q.step \in {"breakDown", "fillSummary"}
           => q.listed = Listed(Ratings)
        /\ q.step = "fillSummary" => q.broken = Listed(Ratings)

HandlersFit == \A h \in Handlers : ~At(h, "idle") => Fits(handler[h]) /\ Current(handler[h])

IInv == TypeOK /\ HandlersFit /\ CopiesFollowRows

=============================================================================
