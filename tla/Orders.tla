------------------------------- MODULE Orders -------------------------------
(***************************************************************************)
(* The orders service: turning a cart into an order that holds stock, the  *)
(* customer's cancellation, and the three fulfilment marks; and the admin  *)
(* write to products.stock that competes with them.                        *)
(***************************************************************************)
EXTENDS OrderStore

\* products.stock covers the cart and every product in it is on sale.
Covers(o) ==
    \A p \in Products :
        Cart[o][p] > 0 => p \in active /\ stock[p] >= Cart[o][p]

\* createOrder up to the first write: the transaction reads the products and
\* validates the cart lines against what it read.
createOrder(w, o) ==
    /\ orderStatus[o] = "NONE"
    /\ \A v \in Workers : ~ At(v, "reserve", o)
    /\ Covers(o)
    /\ Enter(w, "reserve", o)
    /\ UNCHANGED <<shopVars, orderVars, payVars, gatewayVars, expiryVars>>

\* Slip: the decrement is not guarded by stock >= quantity.
CommitOrder_unguarded(w, o) ==
    /\ At(w, "reserve", o)
    /\ orderStatus' = [orderStatus EXCEPT ![o] = "PENDING"]
    /\ stock' = [p \in Products |-> stock[p] - Cart[o][p]]
    /\ Goto(w, "createPayment", o)
    /\ UNCHANGED <<active, supply, paidAt, canceledAt, payVars, gatewayVars,
                   expiryVars>>

\* The rest of the transaction: order.create, then a guarded decrement per
\* line.  A decrement that matches no row throws and rolls everything back.
CommitOrder(w, o) ==
    /\ At(w, "reserve", o)
    /\ Covers(o)
    /\ orderStatus' = [orderStatus EXCEPT ![o] = "PENDING"]
    /\ stock' = [p \in Products |-> stock[p] - Cart[o][p]]
    /\ Goto(w, "createPayment", o)
    /\ UNCHANGED <<active, supply, paidAt, canceledAt, payVars, gatewayVars,
                   expiryVars>>

RollbackOrder(w, o) ==
    /\ At(w, "reserve", o)
    /\ ~ Covers(o)
    /\ Return(w)
    /\ UNCHANGED <<shopVars, orderVars, payVars, gatewayVars, expiryVars>>

-----------------------------------------------------------------------------
\* cancelOrder reads the order and its lines outside any transaction ...
cancelOrder(w, o) ==
    /\ orderStatus[o] = "PENDING"
    /\ Enter(w, "cancel", o)
    /\ UNCHANGED <<shopVars, orderVars, payVars, gatewayVars, expiryVars>>

\* Slip: the transaction trusts the status read before it began.
CommitCancel_unchecked(w, o) ==
    /\ At(w, "cancel", o)
    /\ orderStatus' = [orderStatus EXCEPT ![o] = "CANCELED"]
    /\ stock' = [p \in Products |-> stock[p] + Cart[o][p]]
    /\ Return(w)
    /\ UNCHANGED <<active, supply, paidAt, canceledAt, payVars, gatewayVars,
                   expiryVars>>

\* ... and its transaction tests the status again before giving stock back.
\* It leaves canceledAt unset and the payment as it is.
CommitCancel(w, o) ==
    /\ At(w, "cancel", o)
    /\ orderStatus[o] = "PENDING"
    /\ orderStatus' = [orderStatus EXCEPT ![o] = "CANCELED"]
    /\ stock' = [p \in Products |-> stock[p] + Cart[o][p]]
    /\ Return(w)
    /\ UNCHANGED <<active, supply, paidAt, canceledAt, payVars, gatewayVars,
                   expiryVars>>

RefuseCancel(w, o) ==
    /\ At(w, "cancel", o)
    /\ orderStatus[o] # "PENDING"
    /\ Return(w)
    /\ UNCHANGED <<shopVars, orderVars, payVars, gatewayVars, expiryVars>>

-----------------------------------------------------------------------------
\* The marks read the status, compare it, and then update the row by its id
\* alone: the update does not test the status again.
ReadForMark(w, o, from, step) ==
    /\ orderStatus[o] = from
    /\ Enter(w, step, o)
    /\ UNCHANGED <<shopVars, orderVars, payVars, gatewayVars, expiryVars>>

WriteMark(w, o, step, to) ==
    /\ At(w, step, o)
    /\ orderStatus' = [orderStatus EXCEPT ![o] = to]
    /\ Return(w)
    /\ UNCHANGED <<shopVars, paidAt, canceledAt, payVars, gatewayVars, expiryVars>>

markOrderAsProcessing(w, o) ==
    \/ ReadForMark(w, o, "CONFIRMED", "processing")
    \/ WriteMark(w, o, "processing", "PROCESSING")

markAsShipped(w, o) ==
    \/ ReadForMark(w, o, "PROCESSING", "shipped")
    \/ WriteMark(w, o, "shipped", "SHIPPED")

markAsDelivered(w, o) ==
    \/ ReadForMark(w, o, "SHIPPED", "delivered")
    \/ WriteMark(w, o, "delivered", "DELIVERED")

-----------------------------------------------------------------------------
\* updateProduct writes the stock or the status an admin typed in, or both,
\* without looking at what is there.  The ghost takes a typed stock as the new
\* count of the units on the shelf.
updateProduct(p) ==
    /\ RestockLevels # {}
    /\ \E n \in RestockLevels \cup {stock[p]} :
        /\ stock' = [stock EXCEPT ![p] = n]
        /\ supply' = [supply EXCEPT ![p] = @ + n - stock[p]]
    /\ active' \in {active \cup {p}, active \ {p}}
    /\ UNCHANGED <<orderVars, payVars, gatewayVars, expiryVars, handler>>

OrdersNext ==
    \/ \E p \in Products : updateProduct(p)
    \/ \E w \in Workers, o \in Orders :
        \/ createOrder(w, o)
        \/ CommitOrder(w, o)
        \/ RollbackOrder(w, o)
        \/ cancelOrder(w, o)
        \/ CommitCancel(w, o)
        \/ RefuseCancel(w, o)
        \/ markOrderAsProcessing(w, o)
        \/ markAsShipped(w, o)
        \/ markAsDelivered(w, o)

=============================================================================
