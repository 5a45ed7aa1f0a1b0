----------------------------- MODULE MCCheckout -----------------------------
(* Instances of Checkout for TLC. *)
EXTENDS Checkout, TLC

Carts1 == {[p \in Products |-> IF p = q THEN [id |-> 1, quantity |-> 1] ELSE Absent] :
                q \in Products}
Carts2 == {[p \in Products |-> [id |-> 1, quantity |-> 1]]}
Book1 == {[a \in Addresses |-> IF a = b THEN t ELSE Unborn] : b \in Addresses, t \in Texts}
NoBook == [a \in Addresses |-> Gone]

\* One behaviour is about the cart, or the addresses, or orders.
Fill == {[cart |-> NoEntry, addresses |-> NoBook,
          offered |-> {"add", "remove", "clear", "getCart"}]}
Shop == {[cart |-> c, addresses |-> NoBook,
          offered |-> {"manage", "remove", "getCart", "deleteProduct"}] : c \in Carts2}
Settle == {[cart |-> NoEntry, addresses |-> b,
            offered |-> {"create", "delete", "list"}] : b \in Book1}
Move == {[cart |-> NoEntry, addresses |-> b,
          offered |-> AddressOps \ {"delete"}] : b \in Book1}
Order == {[cart |-> c, addresses |-> b,
           offered |-> {"order", "manage", "delete", "deleteProduct"}] :
            c \in Carts1, b \in Book1}
Ship == {[cart |-> c, addresses |-> b, offered |-> {"order", "update", "delete"}] :
            c \in Carts1, b \in Book1}

AllScenarios == Fill \cup Shop \cup Settle \cup Move \cup Order \cup Ship

SetSymmetry ==
    Permutations(Handlers) \cup Permutations(Products) \cup Permutations(Addresses)
        \cup Permutations(Texts)

=============================================================================
