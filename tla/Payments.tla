------------------------------ MODULE Payments ------------------------------
(***************************************************************************)
(* The payment service: opening a checkout at Stripe or bKash, the         *)
(* webhook and the callback that bring the outcome back, and the delayed   *)
(* job and the cron that expire what brought no outcome.  The gateways are *)
(* external: a session ends at most one way (captured, declined, refused   *)
(* or lapsed), and its outcome may be announced any number of times, late, *)
(* or never.                                                               *)
(***************************************************************************)
EXTENDS OrderStore

\* tx.order.updateMany(WHERE id = o AND status = 'PENDING'), canceling.
CancelPending(o) ==
    /\ orderStatus' = [orderStatus EXCEPT ![o] =
                           IF @ = "PENDING" THEN "CANCELED" ELSE @]
    /\ canceledAt' = canceledAt \cup
                         {x \in {o} : orderStatus[x] = "PENDING"}

-----------------------------------------------------------------------------
(* createPayment, run by the handler that has committed the order.         *)

InsertPayment(w, o) ==
    /\ At(w, "createPayment", o)
    /\ payStatus' = [payStatus EXCEPT ![o] = "PENDING"]
    /\ Goto(w, "provider", o)
    /\ UNCHANGED <<shopVars, orderVars, transactionId, gatewayVars, expiryVars>>

\* provider.createPayment.  If it throws, or its answer is lost after the
\* session was opened, HandlerDies ends the handler here or one step later.
OpenSession(w, o) ==
    /\ At(w, "provider", o)
    /\ gateway' = [gateway EXCEPT ![o] = "open"]
    /\ Goto(w, "link", o)
    /\ UNCHANGED <<shopVars, orderVars, payVars, contradicted, expiryVars>>

LinkSession(w, o) ==
    /\ At(w, "link", o)
    /\ transactionId' = [transactionId EXCEPT ![o] = "SESSION"]
    /\ Goto(w, "enqueue", o)
    /\ UNCHANGED <<shopVars, orderVars, payStatus, gatewayVars, expiryVars>>

\* The delayed job is added last; only then does the customer get the URL.
\* A Stripe session that has lapsed meanwhile stays lapsed.
EnqueueExpiry(w, o) ==
    /\ At(w, "enqueue", o)
    /\ jobs' = jobs \cup {o}
    /\ gateway' = [gateway EXCEPT ![o] = IF @ = "open" THEN "shown" ELSE @]
    /\ Return(w)
    /\ UNCHANGED <<shopVars, orderVars, payVars, contradicted, elapsed, sweep>>

-----------------------------------------------------------------------------
(* The gateways.                                                           *)

MoveSession(o, from, to) ==
    /\ gateway[o] \in from
    /\ gateway' = [gateway EXCEPT ![o] = to]
    /\ UNCHANGED <<shopVars, orderVars, payVars, contradicted, expiryVars, handler>>

\* A card is charged at once, a delayed method later or not at all; a session
\* nobody completes lapses.
StripeSession(o) ==
    /\ Provider[o] = "STRIPE"
    /\ \/ MoveSession(o, {"shown"}, "processing")
       \/ MoveSession(o, {"shown", "processing"}, "captured")
       \/ MoveSession(o, {"processing"}, "declined")
       \/ MoveSession(o, {"open", "shown"}, "lapsed")

\* The customer agrees or backs out; bKash charges only on execute.
BkashSession(o) ==
    /\ Provider[o] = "BKASH"
    /\ \/ MoveSession(o, {"shown"}, "approved")
       \/ MoveSession(o, {"shown"}, "declined")

-----------------------------------------------------------------------------
(* The three outcome handlers: each transaction reads the payment, returns *)
(* it if the status tells it to, and else writes both rows.                *)

\* Slip: a payment whose order was canceled is taken for settled.
FindForSuccess_pendingOrder(w, o) ==
    IF payStatus[o] \in {"PAID", "FAILED", "EXPIRED"} \/ orderStatus[o] # "PENDING"
    THEN Return(w) ELSE Goto(w, "success", o)

FindForSuccess(w, o) ==
    IF payStatus[o] \in {"PAID", "FAILED", "EXPIRED"}
    THEN Return(w) ELSE Goto(w, "success", o)

FindForFailure(w, o) ==
    IF payStatus[o] \in {"FAILED", "PAID"}
    THEN Return(w) ELSE Goto(w, "failure", o)

FindForExpiry(w, o) ==
    IF payStatus[o] \in {"EXPIRED", "PAID"}
    THEN Return(w) ELSE Goto(w, "expiry", o)

\* Slip: the order is updated by its id, not WHERE status = PENDING.
handlePaymentSuccess_anyStatus(w, o) ==
    /\ At(w, "success", o)
    /\ payStatus' = [payStatus EXCEPT ![o] = "PAID"]
    /\ transactionId' = [transactionId EXCEPT ![o] = "CAPTURE"]
    /\ orderStatus' = [orderStatus EXCEPT ![o] = "CONFIRMED"]
    /\ paidAt' = paidAt \cup {o}
    /\ Return(w)
    /\ UNCHANGED <<shopVars, canceledAt, gatewayVars, expiryVars>>

\* The update of the payment is by id: it overwrites whatever status is there.
handlePaymentSuccess(w, o) ==
    /\ At(w, "success", o)
    /\ payStatus' = [payStatus EXCEPT ![o] = "PAID"]
    /\ \E id \in {"CAPTURE"} \cup (IF Provider[o] = "STRIPE" THEN {"NULL"} ELSE {}) :
           transactionId' = [transactionId EXCEPT ![o] = id]
    /\ orderStatus' = [orderStatus EXCEPT ![o] =
                           IF @ = "PENDING" THEN "CONFIRMED" ELSE @]
    /\ paidAt' = paidAt \cup {x \in {o} : orderStatus[x] = "PENDING"}
    /\ Return(w)
    /\ UNCHANGED <<shopVars, canceledAt, gatewayVars, expiryVars>>

handlePaymentFailed(w, o) ==
    /\ At(w, "failure", o)
    /\ payStatus' = [payStatus EXCEPT ![o] = "FAILED"]
    /\ CancelPending(o)
    /\ Return(w)
    /\ UNCHANGED <<shopVars, paidAt, transactionId, gatewayVars, expiryVars>>

handlePaymentExpired(w, o) ==
    /\ At(w, "expiry", o)
    /\ payStatus' = [payStatus EXCEPT ![o] = "EXPIRED"]
    /\ CancelPending(o)
    /\ Return(w)
    /\ UNCHANGED <<shopVars, paidAt, transactionId, gatewayVars, expiryVars>>

-----------------------------------------------------------------------------
\* Slip: checkout.session.expired is not handled.
StripeWebhook_noExpired(w, o) ==
    /\ Provider[o] = "STRIPE"
    /\ handler[w] = Idle
    /\ \/ gateway[o] = "captured" /\ FindForSuccess(w, o)
       \/ gateway[o] = "declined" /\ FindForFailure(w, o)
    /\ UNCHANGED <<shopVars, orderVars, payVars, gatewayVars, expiryVars>>

\* handleWebhook: a signed Stripe event names the payment in its metadata.
\* A completed session that is not paid yet changes nothing.
StripeWebhook(w, o) ==
    /\ Provider[o] = "STRIPE"
    /\ handler[w] = Idle
    /\ \/ gateway[o] = "captured" /\ FindForSuccess(w, o)
       \/ gateway[o] = "declined" /\ FindForFailure(w, o)
       \/ gateway[o] = "lapsed" /\ FindForExpiry(w, o)
    /\ UNCHANGED <<shopVars, orderVars, payVars, gatewayVars, expiryVars>>

\* handleCallback: the browser comes back from bKash, once its URL was shown,
\* perhaps repeatedly.  The payment is looked up by the bKash paymentID, which a
\* success overwrites.  The status in the query string alone decides: none or
\* "success" executes, anything else fails the payment, whatever bKash's own
\* record of the session says now or will say.
handleCallback(w, o) ==
    /\ Provider[o] = "BKASH"
    /\ gateway[o] \notin {"none", "open"}
    /\ transactionId[o] = "SESSION"
    /\ payStatus[o] = "PENDING"
    /\ \/ Enter(w, "execute", o) /\ UNCHANGED contradicted
       \/ /\ Enter(w, "findForFailure", o)
          /\ contradicted' = contradicted \cup {x \in {o} : ~ Rejected(x)}
    /\ UNCHANGED <<shopVars, orderVars, payVars, gateway, expiryVars>>

\* executePayment charges the customer of an approved session, or refuses to;
\* the answer may get lost afterwards.
ExecuteBkash(w, o) ==
    /\ At(w, "execute", o)
    /\ gateway[o] = "approved"
    /\ \E outcome \in {"captured", "refused"} :
        /\ gateway' = [gateway EXCEPT ![o] = outcome]
        /\ \/ outcome = "captured" /\ Goto(w, "findForSuccess", o)
           \/ outcome = "refused" /\ Goto(w, "findForFailure", o)
           \/ Return(w)
    /\ UNCHANGED <<shopVars, orderVars, payVars, contradicted, expiryVars>>

\* Executing a session that is settled, or that its customer has not approved:
\* bKash repeats the outcome or answers something else, which sends the service
\* to queryPayment.
ExecuteNotApproved(w, o) ==
    /\ At(w, "execute", o)
    /\ gateway[o] # "approved"
    /\ \/ gateway[o] = "captured" /\ Goto(w, "findForSuccess", o)
       \/ Rejected(o) /\ Goto(w, "findForFailure", o)
       \/ Goto(w, "query", o)
    /\ UNCHANGED <<shopVars, orderVars, payVars, gatewayVars, expiryVars>>

\* Slip: every answer but "Pending" is taken for a failure.
QueryBkash_failsAll(w, o) ==
    /\ At(w, "query", o)
    /\ Goto(w, "findForFailure", o)
    /\ UNCHANGED <<shopVars, orderVars, payVars, gatewayVars, expiryVars>>

\* Only "Failed" is acted on: a query that answers "Completed" returns PENDING,
\* and so does one that calls a session its customer declined something else.
QueryBkash(w, o) ==
    /\ At(w, "query", o)
    /\ \/ Rejected(o) /\ Goto(w, "findForFailure", o)
       \/ gateway[o] # "refused" /\ Return(w)
    /\ UNCHANGED <<shopVars, orderVars, payVars, gatewayVars, expiryVars>>

\* The outcome handler a callback has called reads the payment once more.
FindForOutcome(w, o) ==
    /\ \/ At(w, "findForSuccess", o) /\ FindForSuccess(w, o)
       \/ At(w, "findForFailure", o) /\ FindForFailure(w, o)
    /\ UNCHANGED <<shopVars, orderVars, payVars, gatewayVars, expiryVars>>

-----------------------------------------------------------------------------
Elapse(o) ==
    /\ payStatus[o] # "NONE"
    /\ o \in Dated \ elapsed
    /\ elapsed' = elapsed \cup {o}
    /\ UNCHANGED <<shopVars, orderVars, payVars, gatewayVars, jobs, sweep, handler>>

\* payment.expiresAt lies in the past; the comparison with NULL is not true.
Overdue(o) == o \in Dated \cap elapsed

\* The expiry transaction after its guarded update of the payment has matched.
\* The order has one payment, the one just expired, so the search for another
\* PENDING or PAID payment of the order finds none.
Expire(o) ==
    /\ payStatus' = [payStatus EXCEPT ![o] = "EXPIRED"]
    /\ CancelPending(o)

\* Slip: the job expires its payment whatever the status is.
expirePayment_anyStatus(o) ==
    /\ PaymentWorker
    /\ o \in jobs
    /\ jobs' = jobs \ {o}
    /\ IF Overdue(o) THEN Expire(o) ELSE UNCHANGED <<payStatus, orderStatus, canceledAt>>
    /\ UNCHANGED <<shopVars, paidAt, transactionId, gatewayVars, elapsed, sweep,
                   handler>>

\* The delayed job: one transaction whose first statement is the guarded
\* update.  The job is done whether or not a row matched.
expirePayment(o) ==
    /\ PaymentWorker
    /\ o \in jobs
    /\ jobs' = jobs \ {o}
    /\ IF payStatus[o] = "PENDING" /\ Overdue(o)
       THEN Expire(o)
       ELSE UNCHANGED <<payStatus, orderStatus, canceledAt>>
    /\ UNCHANGED <<shopVars, paidAt, transactionId, gatewayVars, elapsed, sweep,
                   handler>>

\* Redis forgets a job, or its three attempts fail.
LoseJob(o) ==
    /\ o \in jobs
    /\ jobs' = jobs \ {o}
    /\ UNCHANGED <<shopVars, orderVars, payVars, gatewayVars, elapsed, sweep, handler>>

\* Slip: the cron looks only at payments whose order is still open.
FindOverdue_openOrders ==
    /\ sweep = {}
    /\ LET due == {o \in Orders : /\ payStatus[o] = "PENDING" /\ Overdue(o)
                                  /\ orderStatus[o] = "PENDING"}
       IN  /\ due # {}
           /\ sweep' \in {S \in SUBSET due : Cardinality(S) \in 1..BatchSize}
    /\ UNCHANGED <<shopVars, orderVars, payVars, gatewayVars, jobs, elapsed, handler>>

\* expirePayments: the cron takes a batch of overdue payments ...
FindOverdue ==
    /\ sweep = {}
    /\ LET due == {o \in Orders : payStatus[o] = "PENDING" /\ Overdue(o)}
       IN  /\ due # {}
           /\ sweep' \in {S \in SUBSET due : \/ Cardinality(S) = BatchSize
                                             \/ S = due /\ Cardinality(S) < BatchSize}
    /\ UNCHANGED <<shopVars, orderVars, payVars, gatewayVars, jobs, elapsed, handler>>

\* Slip: the batch is trusted, the status is not tested again.
SweepPayment_trustsBatch(o) ==
    /\ o \in sweep
    /\ sweep' = sweep \ {o}
    /\ Expire(o)
    /\ UNCHANGED <<shopVars, paidAt, transactionId, gatewayVars, jobs, elapsed,
                   handler>>

\* Slip: the order is left to a later step.
SweepPayment_paymentOnly(o) ==
    /\ o \in sweep
    /\ sweep' = sweep \ {o}
    /\ payStatus' = [payStatus EXCEPT ![o] =
                         IF @ = "PENDING" THEN "EXPIRED" ELSE @]
    /\ UNCHANGED <<shopVars, orderVars, transactionId, gatewayVars, jobs, elapsed,
                   handler>>

\* ... and gives each a transaction of its own, whose guard is the status only.
SweepPayment(o) ==
    /\ o \in sweep
    /\ sweep' = sweep \ {o}
    /\ IF payStatus[o] = "PENDING"
       THEN Expire(o)
       ELSE UNCHANGED <<payStatus, orderStatus, canceledAt>>
    /\ UNCHANGED <<shopVars, paidAt, transactionId, gatewayVars, jobs, elapsed,
                   handler>>

\* A transaction that throws ends the whole run of the cron.
AbortSweep ==
    /\ sweep # {}
    /\ sweep' = {}
    /\ UNCHANGED <<shopVars, orderVars, payVars, gatewayVars, jobs, elapsed, handler>>

PaymentsNext ==
    \/ FindOverdue
    \/ AbortSweep
    \/ \E o \in Orders :
        \/ StripeSession(o)
        \/ BkashSession(o)
        \/ Elapse(o)
        \/ expirePayment(o)
        \/ LoseJob(o)
        \/ SweepPayment(o)
    \/ \E w \in Workers, o \in Orders :
        \/ InsertPayment(w, o)
        \/ OpenSession(w, o)
        \/ LinkSession(w, o)
        \/ EnqueueExpiry(w, o)
        \/ handlePaymentSuccess(w, o)
        \/ handlePaymentFailed(w, o)
        \/ handlePaymentExpired(w, o)
        \/ StripeWebhook(w, o)
        \/ handleCallback(w, o)
        \/ ExecuteBkash(w, o)
        \/ ExecuteNotApproved(w, o)
        \/ QueryBkash(w, o)
        \/ FindForOutcome(w, o)

=============================================================================
