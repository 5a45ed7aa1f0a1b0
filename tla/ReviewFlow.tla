----------------------------- MODULE ReviewFlow -----------------------------
(* The review service and the summary service together.                     *)
EXTENDS ProductReviews, ReviewSummary

Next == ProductReviewsNext \/ ReviewSummaryNext

Spec == Init /\ [][Next]_vars

\* Queries, the LLM (its client has a timeout) and Redis answer or fail in the
\* end.  Nothing is asked of the editors.
FairSpec == Spec /\ \A q \in Requests : WF_vars(Advance(q))

-----------------------------------------------------------------------------
\* Of a product's reviews at most one per user is live, though addProductReview
\* looks for an existing one an await before it creates.
OneReviewPerUser ==
    \A r, s \in Live(row) : AuthorOf[r] = AuthorOf[s] => r = s

\* The inFlight map of a process names exactly the generation that runs there:
\* concurrent misses never start a second one, and none is left behind when
\* it fails or its process is restarted.
Running(i) == {q \in Requests : /\ ProcessOf[q] = i
                                /\ request[q].step \in {"load", "store", "settle"}}
SingleFlight == \A i \in Processes : Running(i) = {inFlight[i]} \ {Nobody}

\* How a request for the summary stands, and whether the cache has one.
Phase(q) ==
    CASE request[q].step \in {"new", "missed"} -> "waiting"
      [] request[q].step \in {"load", "store", "settle"} -> "running"
      [] request[q].step = "join" -> "joined"
      [] request[q].step = "done" -> "answered"
      [] OTHER -> "lost"
phase == [q \in Requests |-> Phase(q)]
cached == summary # NoEntry

Sharing == INSTANCE SharedGeneration

\* The summary service implements the shared generation: a request that finds
\* one under way joins it and is answered with it, however the await of the
\* cache, failures, crashes and invalidations fall between, and only what a
\* generation yields is ever cached.
ImplementsSharedGeneration == Sharing!Spec

\* What is cached is never the fallback of a failure, which would stay for twelve
\* hours: an LLM summary if there were enough reviews when they were counted,
\* and else the generic one, however the queries, the LLM and Redis fail and
\* whatever is written between them.
CachedKindFitsCount ==
    summary # NoEntry =>
        summary.kind = IF Cardinality(Live(summary.stats)) >= MIN_REVIEWS
                       THEN "llm" ELSE "generic"

\* A mutation of r whose deletions are still to come.
Pending(r) == \E e \in Editors :
                /\ editor[e].step \in {"invalidate", "announce"}
                /\ editor[e].review = r

\* Deleting after the commit is enough as long as no fill spans a write and no
\* deletion is lost: then what is cached under a review's key, the default
\* list key and the summary's key is what the database holds.
Settled == \A r \in Reviews : ~ Pending(r)

ReviewFollows(r) ==
    r \notin overtaken /\ ~ Pending(r) /\ single[r] # NoEntry
        => single[r].rating = row[r]
PageFollows(k) ==
    k \notin overtaken /\ Settled => page[k] \in {NoEntry, row}
SummaryFollows ==
    "summary" \notin overtaken /\ Settled /\ summary # NoEntry
        => summary.reviews = row /\ summary.stats = row

CachesFollowRows ==
    /\ \A r \in Reviews : ReviewFollows(r)
    /\ \A k \in DefaultPages : PageFollows(k)
    /\ SummaryFollows

\* A request for the summary is answered with one, whatever fails on the way,
\* unless its process dies.
EveryRequestAnswered ==
    \A q \in Requests :
        Is(q, "missed") ~> Is(q, "done") \/ Is(q, "lost")

-----------------------------------------------------------------------------
(* Why CachesFollowRows holds.                                             *)

\* Who is about to fill a key holds what the database holds.
ReviewFillIsCurrent(e) ==
    editor[e].step \in {"fill", "announce"} /\ editor[e].review \notin overtaken
        => editor[e].seen = row[editor[e].review]
PageFillIsCurrent(e) ==
    editor[e].step = "fillPage" /\ editor[e].page \notin overtaken
        => editor[e].seen = row
SummaryFillIsCurrent(q) ==
    "summary" \notin overtaken /\ Generating(q)
        => request[q].reviews \in {NoEntry, row} /\ request[q].stats \in {NoEntry, row}

FillsAreCurrent ==
    /\ \A e \in Editors : ReviewFillIsCurrent(e) /\ PageFillIsCurrent(e)
    /\ \A q \in Requests : SummaryFillIsCurrent(q)

\* A request starts with nothing, and a generation caches what it has computed
\* from what it has read.
StoreFitsReadOf(q) ==
    /\ request[q].step \in {"new", "missed"} =>
        request[q].reviews = NoEntry /\ request[q].stats = NoEntry
    /\ request[q].step = "store" =>
        /\ Loaded(q)
        /\ request[q].answer \in Summary
        /\ request[q].answer.reviews = request[q].reviews
        /\ request[q].answer.stats = request[q].stats
        /\ request[q].answer.kind = IF TotalReviewCount(q) >= MIN_REVIEWS
                                    THEN "llm" ELSE "generic"
    /\ request[q].step = "settle" => request[q].answer # NoEntry

StoreFitsRead == \A q \in Requests : StoreFitsReadOf(q)

\* Who has joined waits for the generation that is in the map of its process.
JoinersWait ==
    \A q \in Requests :
        Is(q, "join") => request[q].leader = Entry(q) /\ Entry(q) # Nobody

IInv ==
    /\ TypeOK
    /\ OneReviewPerUser
    /\ SingleFlight
    /\ JoinersWait
    /\ CachedKindFitsCount
    /\ CachesFollowRows
    /\ FillsAreCurrent
    /\ StoreFitsRead

=============================================================================
