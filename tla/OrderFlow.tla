----------------------------- MODULE OrderFlow ------------------------------
(***************************************************************************)
(* The orders and the payment services running together, and what they     *)
(* guarantee: the abstract life cycle of an order, and the agreement of    *)
(* the order, the payment and what the gateway did with the money.         *)
(***************************************************************************)
EXTENDS Orders, Payments

Next ==
    \/ OrdersNext
    \/ PaymentsNext
    \/ \E w \in Workers : HandlerDies(w)

Spec == Init /\ [][Next]_vars

-----------------------------------------------------------------------------
(* The order's life cycle.                                                 *)

Lifecycle == INSTANCE OrderLifecycle WITH status <- orderStatus

\* Every step of the services is a move of the abstract life cycle: although
\* the marks update the order by id without testing its status again, no
\* interleaving of cancelOrder, the marks, the outcome handlers and the expiry
\* paths revives a canceled order or takes a confirmed one out of fulfilment.
ImplementsLifecycle == Lifecycle!Spec

\* paidAt is set on exactly the orders that are or were confirmed, so no order
\* is both paid and canceled, whichever of handlePaymentSuccess, cancelOrder
\* and the expiry transactions commits first.
PaidAtMeansConfirmed ==
    \A o \in Orders : o \in paidAt <=> orderStatus[o] \in Fulfilment

\* canceledAt is set only on canceled orders; an order canceled by its customer
\* has none, which is how the two kinds of cancellation can be told apart.
CanceledAtMeansCanceled ==
    \A o \in canceledAt : orderStatus[o] = "CANCELED"

-----------------------------------------------------------------------------
(* Orders, payments and money.                                             *)

\* An order is shipped only against money: in fulfilment the gateway has captured
\* it, and its payment is PAID.  handlePaymentSuccess is the only way to
\* CONFIRMED, and the payment is in no way out of PAID again but one: a callback
\* that brought a status bKash had not given, read the payment before it was
\* PAID, and overwrites it with FAILED.
FulfilledMeansCaptured ==
    \A o \in Orders :
        orderStatus[o] \in Fulfilment =>
            /\ gateway[o] = "captured"
            /\ \/ payStatus[o] = "PAID"
               \/ payStatus[o] = "FAILED" /\ o \in contradicted

\* The payment and the order are settled by one transaction: no reader finds a
\* payment that is PAID, FAILED or EXPIRED beside an order still PENDING.
SettledTogether ==
    \A o \in Orders :
        payStatus[o] \in {"PAID", "FAILED", "EXPIRED"} =>
            orderStatus[o] \notin {"NONE", "PENDING"}

\* PAID is final but for callbacks that contradict bKash: the unconditional
\* updates of handlePaymentFailed and handlePaymentExpired, decided on an earlier
\* read, and the guarded ones of the delayed job and the cron never overwrite it
\* otherwise, whatever races with the success; and a callback only with FAILED,
\* and never the payment of a Stripe order.
PaidIsFinal ==
    [][\A o \in Orders :
        payStatus[o] = "PAID" =>
            \/ payStatus'[o] = "PAID"
            \/ payStatus'[o] = "FAILED" /\ o \in contradicted /\ Provider[o] = "BKASH"]_vars

\* How an order stands: canceledAt tells who canceled it.
Standing(o) ==
    CASE orderStatus[o] = "NONE" -> "none"
      [] orderStatus[o] = "PENDING" -> "open"
      [] orderStatus[o] \in Fulfilment -> "confirmed"
      [] OTHER -> IF o \in canceledAt THEN "canceled" ELSE "withdrawn"

\* What became of the customer's money.
Money(o) ==
    CASE Rejected(o) -> "rejected"
      [] gateway[o] \in {"captured", "lapsed"} -> gateway[o]
      [] OTHER -> "undecided"

standing == [o \in Orders |-> Standing(o)]
money == [o \in Orders |-> Money(o)]

Settling == INSTANCE Settlement WITH payment <- payStatus

\* Every step of the services is a move of the abstract settlement: whatever
\* handler, job or cron acts on an old read, a payment is PAID only as the
\* gateway decided, FAILED only as it decided or as a browser reported, a payment
\* and its open order are settled in one step, and an order is closed once.
ImplementsSettlement == Settling!Spec

\* With no expiresAt on any payment, which is all that createPayment writes, an
\* order that the payment service canceled was never charged, unless a browser
\* reported a failure that bKash had not decided: bKash may have captured the
\* money before, its answer lost, or capture it for a callback that read the
\* payment while it was PENDING.
PaymentCancelMeansNoCharge ==
    Dated = {} => \A o \in canceledAt \ contradicted : gateway[o] # "captured"

-----------------------------------------------------------------------------
(* Where the units of a product are: on the shelf (products.stock) or in   *)
(* orders.  An order holds the units of its cart from the transaction that *)
(* creates it until its customer cancels it.                               *)

\* The units of p that the given orders took, each named by its order.
Units(p, S) == UNION {{o} \X (1 .. Cart[o][p]) : o \in S}

Placed == {o \in Orders : orderStatus[o] # "NONE"}
Canceled == {o \in Orders : orderStatus[o] = "CANCELED"}

\* The canceled orders that gave their units back: cancelOrder does, and leaves
\* canceledAt unset; the payment service sets canceledAt and does not.
Returned == Canceled \ canceledAt

Holding == Placed \ Returned

\* No overselling and no unit lost or returned twice: the guarded decrements of
\* concurrent orders, the guarded cancel and the admin's absolute writes keep
\* shelf plus orders equal to the supply, and TypeOK keeps the shelf >= 0.
StockConserved ==
    \A p \in Products : stock[p] + Cardinality(Units(p, Holding)) = supply[p]

-----------------------------------------------------------------------------
(* Why the properties hold: what the handlers in flight may rely on.       *)

\* What the step s of a handler for order o relies on.
Informed(s, o) ==
    /\ s = "reserve" => orderStatus[o] = "NONE"
    /\ s = "createPayment" => orderStatus[o] # "NONE" /\ payStatus[o] = "NONE"
    /\ s = "provider" => payStatus[o] # "NONE" /\ gateway[o] = "none"
    /\ s \in {"link", "enqueue"} => gateway[o] # "none"
    /\ s = "processing" => orderStatus[o] \in Fulfilment
    /\ s \in {"shipped", "delivered"} => orderStatus[o] \in Lifecycle!Marked
    /\ s \in {"success", "findForSuccess"} => gateway[o] = "captured"
    /\ s \in {"failure", "findForFailure"} => Rejected(o) \/ o \in contradicted
    /\ s = "expiry" => gateway[o] = "lapsed"

\* A handler writes long after it read, but no concurrent commit takes away
\* what its write relies on: the marks still find an order in fulfilment, an
\* outcome handler the gateway in the outcome it was told of (of a failure, if
\* it was the gateway that told), and a checkout
\* the rows it has made and not the ones it is about to make.
ReadsStillHold ==
    \A w \in Workers, o \in Orders, s \in Step : At(w, s, o) => Informed(s, o)

\* The order row comes before its payment row, that before the session, and
\* the session before any callback.
RowsInOrder ==
    \A o \in Orders :
        /\ orderStatus[o] = "NONE" => payStatus[o] = "NONE"
        /\ payStatus[o] = "NONE" => gateway[o] = "none"
        /\ gateway[o] = "none" => o \notin contradicted

\* An order has one checkout, which makes one payment and one session for it.
OneCheckout ==
    \A w, v \in Workers, o \in Orders, s, t \in CheckoutStep :
        At(w, s, o) /\ At(v, t, o) => w = v

\* Money and status: PAID is money captured, FAILED is money rejected or reported
\* so by a browser, and what the payment service canceled without an expiresAt
\* came from a session that ended without money, or was reported to.  Only bKash
\* has a callback, and only a Stripe session lapses.
MoneyAgrees ==
    /\ \A o \in Orders :
        /\ payStatus[o] = "PAID" => gateway[o] = "captured"
        /\ payStatus[o] = "FAILED" => Rejected(o) \/ o \in contradicted
        /\ o \in contradicted => Provider[o] = "BKASH"
        /\ gateway[o] = "lapsed" => Provider[o] = "STRIPE"
    /\ sweep \subseteq Dated
    /\ Dated = {} => \A o \in canceledAt \ contradicted :
                        Rejected(o) \/ gateway[o] = "lapsed"

IInv ==
    /\ TypeOK
    /\ ReadsStillHold
    /\ OneCheckout
    /\ RowsInOrder
    /\ MoneyAgrees
    /\ PaidAtMeansConfirmed
    /\ CanceledAtMeansCanceled
    /\ FulfilledMeansCaptured
    /\ SettledTogether

=============================================================================
