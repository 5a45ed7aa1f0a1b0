---------------------------- MODULE ReviewStore -----------------------------
(***************************************************************************)
(* What the review service and the summary service share, for one product: *)
(* the product_reviews rows, their copies in Redis, the cached summary,    *)
(* the inFlight map of each process and the requests that are under way.   *)
(* An operation is one step from one await to the next.                    *)
(***************************************************************************)
EXTENDS Integers, FiniteSets

CONSTANTS
    Reviews,        \* ids of reviews of the product
    AuthorOf,       \* AuthorOf[r]: the user who writes r
    Ratings,        \* contents a review may have
    Pages,          \* list keys of the product in Redis
    DefaultPages,   \* those that productReviewListCacheKey(productId) yields
    Editors,        \* handlers of the review service
    Requests,       \* GETs of the summary
    Processes,      \* Node processes
    ProcessOf,      \* ProcessOf[q]: the process that serves q
    MIN_REVIEWS,
    NoEntry,        \* an absent Redis key, a query not answered yet
    Nobody          \* an absent entry of inFlight

Value == Ratings \cup {"unborn", "gone"}
Snapshot == [Reviews -> Value]

\* A summary and what it was computed from: reviews and stats are queried
\* separately.  The code has one text for a generic summary and for the fallback
\* of a failure; the kind records which of the two it was.
Summary == [kind : {"generic", "llm", "fallback"},
            reviews : Snapshot, stats : Snapshot]

ASSUME ReviewsAssumption == /\ IsFiniteSet(Reviews)
                            /\ {"unborn", "gone"} \cap Ratings = {}

ASSUME CountAssumption == MIN_REVIEWS \in Nat

ASSUME KeysAssumption == /\ DefaultPages \subseteq Pages
                         /\ Pages \cap Reviews = {}
                         /\ "summary" \notin Reviews \cup Pages

ASSUME ProcessAssumption == /\ ProcessOf \in [Requests -> Processes]
                            /\ Nobody \notin Requests

ASSUME NoEntryAssumption ==
    /\ NoEntry \notin Snapshot
    /\ NoEntry \notin Summary
    /\ NoEntry \notin [shape : {"row", "joined"}, rating : Ratings]

VARIABLES
    row,        \* row[r]: the review r as PostgreSQL has it
    single,     \* single[r]: the copy of r under its own key
    page,       \* page[k]: the list of reviews under the key k
    editor,     \* editor[e]: the step the handler e does next
    summary,    \* the cached summary
    inFlight,   \* inFlight[i]: the request of process i that generates, if any
    request,    \* request[q]: the step of q and what it has read
    overtaken   \* ghost: keys whose fill a write overtook, or whose deletion
                \* did not happen

rowVars == <<row, single, page, editor>>
summaryVars == <<summary, inFlight, request>>
vars == <<row, single, page, editor, summary, inFlight, request, overtaken>>

Keys == Reviews \cup Pages \cup {"summary"}

-----------------------------------------------------------------------------
Cached(shape, rating) == [shape |-> shape, rating |-> rating]
CachedReview == [shape : {"row", "joined"}, rating : Ratings]

Idle == [step |-> "idle"]
EditorState ==
    {Idle}
    \cup [step : {"create", "invalidate"}, review : Reviews]
    \cup [step : {"announce"}, review : Reviews, seen : Ratings]
    \cup [step : {"load"}, review : Reviews, op : {"get", "update", "delete"}]
    \cup [step : {"write"}, review : Reviews, op : {"update", "delete"}]
    \cup [step : {"fill"}, review : Reviews, seen : Ratings,
          op : {"get", "update", "delete"}]
    \cup [step : {"loadPage"}, page : Pages]
    \cup [step : {"fillPage"}, page : Pages, seen : Snapshot]

\* new: before the cache is read; missed: it held nothing; load: the queries
\* of a generation; store: its summary is to be cached; settle: its promise
\* resolves next; join: waits for another's generation; lost: the process died.
RequestStep == {"new", "missed", "load", "store", "settle", "join", "done", "lost"}
RequestState == [step : RequestStep,
                 leader : Requests \cup {Nobody},
                 reviews : Snapshot \cup {NoEntry},
                 stats : Snapshot \cup {NoEntry},
                 answer : Summary \cup {NoEntry}]

TypeOK ==
    /\ row \in Snapshot
    /\ single \in [Reviews -> CachedReview \cup {NoEntry}]
    /\ page \in [Pages -> Snapshot \cup {NoEntry}]
    /\ editor \in [Editors -> EditorState]
    /\ summary \in Summary \cup {NoEntry}
    /\ inFlight \in [Processes -> Requests \cup {Nobody}]
    /\ request \in [Requests -> RequestState]
    /\ overtaken \subseteq Keys

Init ==
    /\ row = [r \in Reviews |-> "unborn"]
    /\ single = [r \in Reviews |-> NoEntry]
    /\ page = [k \in Pages |-> NoEntry]
    /\ editor = [e \in Editors |-> Idle]
    /\ summary = NoEntry
    /\ inFlight = [i \in Processes |-> Nobody]
    /\ request = [q \in Requests |-> [step |-> "new", leader |-> Nobody,
                                      reviews |-> NoEntry, stats |-> NoEntry,
                                      answer |-> NoEntry]]
    /\ overtaken = {}

-----------------------------------------------------------------------------
Live(snapshot) == {r \in Reviews : snapshot[r] \in Ratings}

\* A generation that has read rows and has not cached its summary yet.
Generating(q) == request[q].step \in {"load", "store"}
HoldsRows(q) == /\ Generating(q)
                /\ request[q].reviews # NoEntry \/ request[q].stats # NoEntry

\* Someone will put into the cache what has been read before this moment.
FillsReview(r) == \E e \in Editors :
                    /\ editor[e].step \in {"fill", "announce"}
                    /\ editor[e].review = r
FillsPage(k) == \E e \in Editors :
                    editor[e].step = "fillPage" /\ editor[e].page = k

Overtaken(r) == {s \in {r} : FillsReview(s)}
                \cup {k \in Pages : FillsPage(k)}
                \cup {s \in {"summary"} : \E q \in Requests : HoldsRows(q)}

=============================================================================
