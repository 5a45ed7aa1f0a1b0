--------------------------- MODULE ProductReviews ---------------------------
(* product-review.service.ts: adding, reading, updating, deleting a review. *)
EXTENDS ReviewStore

At(e, step) == editor[e].step = step
Become(e, state) == editor' = [editor EXCEPT ![e] = state]

-----------------------------------------------------------------------------
(* addProductReview.                                                       *)

NoReviewBy(u) == \A r \in Live(row) : AuthorOf[r] # u

\* findUnique by user and product finds nothing.
addProductReview(e, r) ==
    /\ At(e, "idle")
    /\ row[r] = "unborn"
    /\ NoReviewBy(AuthorOf[r])
    /\ Become(e, [step |-> "create", review |-> r])
    /\ UNCHANGED <<row, single, page, summaryVars, overtaken>>

\* Slip: the row has no unique index on user and product.
CreateReview_unindexed(e, r) ==
    /\ editor[e] = [step |-> "create", review |-> r]
    /\ row[r] = "unborn"
    /\ \E rating \in Ratings :
        /\ row' = [row EXCEPT ![r] = rating]
        /\ Become(e, [step |-> "announce", review |-> r, seen |-> rating])
        /\ overtaken' = overtaken \cup Overtaken(r)
    /\ UNCHANGED <<single, page, summaryVars>>

\* The unique index refuses a second review (the handler then only Leaves).
CreateReview(e, r) ==
    /\ editor[e] = [step |-> "create", review |-> r]
    /\ row[r] = "unborn"
    /\ NoReviewBy(AuthorOf[r])
    /\ \E rating \in Ratings :
        /\ row' = [row EXCEPT ![r] = rating]
        /\ Become(e, [step |-> "announce", review |-> r, seen |-> rating])
        /\ overtaken' = overtaken \cup Overtaken(r)
    /\ UNCHANGED <<single, page, summaryVars>>

\* What a mutation deletes; each DEL may fail, which only the deletion of the
\* summary survives silently.
Stale(r) == {r, "summary"} \cup DefaultPages

Drop(keys) ==
    /\ page' = [k \in Pages |-> IF k \in keys THEN NoEntry ELSE page[k]]
    /\ summary' = IF "summary" \in keys THEN NoEntry ELSE summary

\* The created row goes to the review's own key, the derived keys go away.
AnnounceReview(e, r) ==
    /\ At(e, "announce")
    /\ editor[e].review = r
    /\ \E lost \in SUBSET Stale(r) :
        /\ single' = IF r \in lost THEN single
                     ELSE [single EXCEPT ![r] = Cached("row", editor[e].seen)]
        /\ Drop(Stale(r) \ lost)
        /\ overtaken' = overtaken \cup lost
    /\ Become(e, Idle)
    /\ UNCHANGED <<row, inFlight, request>>

-----------------------------------------------------------------------------
(* getSingleProductReview, alone or at the start of update and delete.     *)

\* A cached row without its joins makes update and delete throw.
getSingleProductReview(e, r, op) ==
    /\ At(e, "idle")
    /\ row[r] # "unborn"
    /\ \/ /\ single[r] = NoEntry
          /\ Become(e, [step |-> "load", review |-> r, op |-> op])
       \/ /\ single[r] # NoEntry
          /\ op # "get"
          /\ single[r].shape = "joined"
          /\ Become(e, [step |-> "write", review |-> r, op |-> op])
    /\ UNCHANGED <<row, single, page, summaryVars, overtaken>>

LoadSingle(e, r) ==
    /\ At(e, "load")
    /\ editor[e].review = r
    /\ row[r] \in Ratings
    /\ Become(e, [step |-> "fill", review |-> r, seen |-> row[r],
                  op |-> editor[e].op])
    /\ UNCHANGED <<row, single, page, summaryVars, overtaken>>

FillSingle(e, r) ==
    /\ At(e, "fill")
    /\ editor[e].review = r
    /\ single' = [single EXCEPT ![r] = Cached("joined", editor[e].seen)]
    /\ Become(e, IF editor[e].op = "get" THEN Idle
                 ELSE [step |-> "write", review |-> r, op |-> editor[e].op])
    /\ UNCHANGED <<row, page, summaryVars, overtaken>>

-----------------------------------------------------------------------------
(* updateProductReview and deleteProductReview, past the owner's test.     *)

Write(e, r, value) ==
    /\ row[r] \in Ratings
    /\ row' = [row EXCEPT ![r] = value]
    /\ Become(e, [step |-> "invalidate", review |-> r])
    /\ overtaken' = overtaken \cup Overtaken(r)
    /\ UNCHANGED <<single, page, summaryVars>>

updateProductReview(e, r) ==
    /\ editor[e] = [step |-> "write", review |-> r, op |-> "update"]
    /\ \E rating \in Ratings : Write(e, r, rating)

deleteProductReview(e, r) ==
    /\ editor[e] = [step |-> "write", review |-> r, op |-> "delete"]
    /\ Write(e, r, "gone")

\* Slip: the summary is left to expire.
InvalidateReview_keepsSummary(e, r) ==
    /\ editor[e] = [step |-> "invalidate", review |-> r]
    /\ \E lost \in SUBSET (Stale(r) \ {"summary"}) :
        /\ single' = IF r \in lost THEN single
                     ELSE [single EXCEPT ![r] = NoEntry]
        /\ Drop((Stale(r) \ lost) \ {"summary"})
        /\ overtaken' = overtaken \cup lost
    /\ Become(e, Idle)
    /\ UNCHANGED <<row, inFlight, request>>

InvalidateReview(e, r) ==
    /\ editor[e] = [step |-> "invalidate", review |-> r]
    /\ \E lost \in SUBSET Stale(r) :
        /\ single' = IF r \in lost THEN single
                     ELSE [single EXCEPT ![r] = NoEntry]
        /\ Drop(Stale(r) \ lost)
        /\ overtaken' = overtaken \cup lost
    /\ Become(e, Idle)
    /\ UNCHANGED <<row, inFlight, request>>

-----------------------------------------------------------------------------
(* getProductReviews: a list page.                                         *)

getProductReviews(e, k) ==
    /\ At(e, "idle")
    /\ page[k] = NoEntry
    /\ Become(e, [step |-> "loadPage", page |-> k])
    /\ UNCHANGED <<row, single, page, summaryVars, overtaken>>

LoadPage(e, k) ==
    /\ editor[e] = [step |-> "loadPage", page |-> k]
    /\ Become(e, [step |-> "fillPage", page |-> k, seen |-> row])
    /\ UNCHANGED <<row, single, page, summaryVars, overtaken>>

FillPage(e, k) ==
    /\ At(e, "fillPage")
    /\ editor[e].page = k
    /\ page' = [page EXCEPT ![k] = editor[e].seen]
    /\ Become(e, Idle)
    /\ UNCHANGED <<row, single, summaryVars, overtaken>>

-----------------------------------------------------------------------------
\* An exception or a crash; a handler that has written then never invalidates.
LeaveEditor(e) ==
    /\ ~ At(e, "idle")
    /\ overtaken' = overtaken \cup
                        IF editor[e].step \in {"invalidate", "announce"}
                        THEN Stale(editor[e].review) ELSE {}
    /\ Become(e, Idle)
    /\ UNCHANGED <<row, single, page, summaryVars>>

\* A Redis TTL runs out.
ReviewExpires(r) ==
    /\ single[r] # NoEntry
    /\ single' = [single EXCEPT ![r] = NoEntry]
    /\ UNCHANGED <<row, page, editor, summaryVars, overtaken>>

PageExpires(k) ==
    /\ page[k] # NoEntry
    /\ page' = [page EXCEPT ![k] = NoEntry]
    /\ UNCHANGED <<row, single, editor, summaryVars, overtaken>>

ProductReviewsNext ==
    \/ \E e \in Editors, r \in Reviews :
        \/ addProductReview(e, r)
        \/ CreateReview(e, r)
        \/ AnnounceReview(e, r)
        \/ \E op \in {"get", "update", "delete"} : getSingleProductReview(e, r, op)
        \/ LoadSingle(e, r)
        \/ FillSingle(e, r)
        \/ updateProductReview(e, r)
        \/ deleteProductReview(e, r)
        \/ InvalidateReview(e, r)
    \/ \E e \in Editors, k \in Pages :
        \/ getProductReviews(e, k)
        \/ LoadPage(e, k)
        \/ FillPage(e, k)
    \/ \E e \in Editors : LeaveEditor(e)
    \/ \E r \in Reviews : ReviewExpires(r)
    \/ \E k \in Pages : PageExpires(k)

=============================================================================
