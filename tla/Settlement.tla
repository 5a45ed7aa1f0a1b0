----------------------------- MODULE Settlement ------------------------------
(***************************************************************************)
(* What the orders and payments tables promise together about money.  Once *)
(* the gateway has decided about the customer's money it stays decided;    *)
(* the payment becomes PAID only for money captured, and FAILED for money  *)
(* rejected or when the shop was told so; and the step that settles the    *)
(* payment closes the order with it.  Only the customer can close an order *)
(* and leave the payment.  A report that contradicts the gateway is all    *)
(* that lets PAID and FAILED take turns, and the order stays closed then.  *)
(***************************************************************************)
CONSTANTS Orders,
          Dated     \* orders whose payment may expire by its date alone

VARIABLES
    standing,   \* of the order: none, open, confirmed, withdrawn by its
                \* customer or canceled by the shop
    payment,    \* the status of its payment
    money,      \* the customer's: undecided, captured, rejected or lapsed
    contradicted    \* orders reported rejected while the gateway had not

vars == <<standing, payment, money, contradicted>>

Init ==
    /\ standing = [o \in Orders |-> "none"]
    /\ payment = [o \in Orders |-> "NONE"]
    /\ money = [o \in Orders |-> "undecided"]
    /\ contradicted = {}

Place(o) ==
    /\ standing[o] = "none"
    /\ standing' = [standing EXCEPT ![o] = "open"]
    /\ UNCHANGED <<payment, money, contradicted>>

Bill(o) ==
    /\ standing[o] # "none"
    /\ payment[o] = "NONE"
    /\ payment' = [payment EXCEPT ![o] = "PENDING"]
    /\ UNCHANGED <<standing, money, contradicted>>

Decide(o) ==
    /\ payment[o] # "NONE"
    /\ money[o] = "undecided"
    /\ \E outcome \in {"captured", "rejected", "lapsed"} :
           money' = [money EXCEPT ![o] = outcome]
    /\ UNCHANGED <<standing, payment, contradicted>>

Contradict(o) ==
    /\ payment[o] = "PENDING"
    /\ money[o] # "rejected"
    /\ contradicted' = contradicted \cup {o}
    /\ UNCHANGED <<standing, payment, money>>

\* The payment gets a status, and an order still open is closed with it.
Settle(o, from, status, close) ==
    /\ payment[o] \in from
    /\ payment' = [payment EXCEPT ![o] = status]
    /\ standing' = [standing EXCEPT ![o] = IF @ = "open" THEN close ELSE @]
    /\ UNCHANGED <<money, contradicted>>

Pay(o) ==
    /\ money[o] = "captured"
    /\ \/ Settle(o, {"PENDING", "EXPIRED"}, "PAID", "confirmed")
       \/ o \in contradicted /\ Settle(o, {"FAILED"}, "PAID", "confirmed")

Fail(o) ==
    \/ /\ money[o] = "rejected" \/ o \in contradicted
       /\ Settle(o, {"PENDING", "EXPIRED"}, "FAILED", "canceled")
    \/ o \in contradicted /\ Settle(o, {"PAID"}, "FAILED", "canceled")

\* Money that comes late may still be booked.
Expire(o) ==
    /\ money[o] = "lapsed" \/ o \in Dated
    /\ Settle(o, {"PENDING"}, "EXPIRED", "canceled")

Withdraw(o) ==
    /\ standing[o] = "open"
    /\ standing' = [standing EXCEPT ![o] = "withdrawn"]
    /\ UNCHANGED <<payment, money, contradicted>>

Next ==
    \E o \in Orders :
        \/ Place(o) \/ Bill(o) \/ Decide(o) \/ Contradict(o)
        \/ Pay(o) \/ Fail(o) \/ Expire(o) \/ Withdraw(o)

Spec == Init /\ [][Next]_vars

=============================================================================
