--------------------------- MODULE OrderProgress ----------------------------
(***************************************************************************)
(* What must eventually happen to an order and its payment, and the        *)
(* fairness it rests on.                                                   *)
(***************************************************************************)
EXTENDS OrderFlow

\* A step that ends the handler in worker w or takes it one await further.
HandlerMoves(w) ==
    \/ HandlerDies(w)
    \/ \E o \in Orders :
        \/ CommitOrder(w, o) \/ RollbackOrder(w, o)
        \/ CommitCancel(w, o) \/ RefuseCancel(w, o)
        \/ InsertPayment(w, o) \/ OpenSession(w, o)
        \/ LinkSession(w, o) \/ EnqueueExpiry(w, o)

\* Every await ends, if only by a timeout.  Stripe redelivers an event until it
\* is acknowledged and the database does not fail every time, so a delivery
\* that is possible again and again is made, and its commit succeeds in the
\* end (SF).  The cron starts every five minutes (WF) and does not abort
\* before every single payment (SF).  Nothing makes a customer pay or cancel,
\* an admin act, or a worker consume the payment queue.
Fairness ==
    /\ \A w \in Workers : WF_vars(HandlerMoves(w))
    /\ \A o \in Orders :
        /\ SF_vars(\E w \in Workers : StripeWebhook(w, o))
        /\ SF_vars(\E w \in Workers : handlePaymentSuccess(w, o))
        /\ SF_vars(\E w \in Workers : handlePaymentExpired(w, o))
        /\ SF_vars(SweepPayment(o))
    /\ WF_vars(FindOverdue)

FairSpec == Spec /\ Fairness

\* Money that Stripe took is booked: webhooks that die, repeat or race a
\* cancellation end with the payment PAID, unless its expiresAt passes (an
\* undated payment is never overdue).
StripeChargeIsBooked ==
    \A o \in Orders :
        (Provider[o] = "STRIPE" /\ gateway[o] = "captured")
            ~> (payStatus[o] = "PAID" \/ Overdue(o))

\* A Stripe session that lapses ends its order, also when the checkout that
\* opened it died before the customer got the URL.
LapsedSessionEndsOrder ==
    \A o \in Orders :
        (Provider[o] = "STRIPE" /\ gateway[o] = "lapsed")
            ~> (payStatus[o] = "EXPIRED" /\ orderStatus[o] = "CANCELED")

\* A payment whose expiresAt has passed does not stay PENDING, though jobs get
\* lost and runs of the cron abort.
OverdueIsSettled ==
    \A o \in Orders :
        (Overdue(o) /\ payStatus[o] = "PENDING") ~> payStatus[o] # "PENDING"

=============================================================================
