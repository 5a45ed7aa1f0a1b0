--------------------------- MODULE OrderLifecycle ---------------------------
(***************************************************************************)
(* What the orders table promises a reader of orders.status, whoever       *)
(* writes it: an order is confirmed or canceled at most once and never     *)
(* both, cancellation is final, and a confirmed order stays in fulfilment. *)
(* The marks of two admins may interleave, so within fulfilment a mark may *)
(* land on any later status; only the first of them is always              *)
(* CONFIRMED -> PROCESSING.                                                *)
(***************************************************************************)
CONSTANT Orders

VARIABLE status

Marked == {"PROCESSING", "SHIPPED", "DELIVERED"}

Init == status = [o \in Orders |-> "NONE"]

Move(o, from, to) ==
    /\ status[o] \in from
    /\ \E s \in to : status' = [status EXCEPT ![o] = s]

Place(o) == Move(o, {"NONE"}, {"PENDING"})
Settle(o) == Move(o, {"PENDING"}, {"CONFIRMED", "CANCELED"})
Start(o) == Move(o, {"CONFIRMED"}, {"PROCESSING"})
Mark(o) == Move(o, Marked, Marked)

Next == \E o \in Orders : Place(o) \/ Settle(o) \/ Start(o) \/ Mark(o)

Spec == Init /\ [][Next]_status

=============================================================================
