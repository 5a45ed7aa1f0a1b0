------------------------------ MODULE Checkout ------------------------------
(***************************************************************************)
(* The requests of one user and of an administrator who deletes products:  *)
(* the cart, the shipping addresses, and createOrder of orders.service.ts, *)
(* which makes an order from copies of both.  What the order does next is  *)
(* in Orders and Payments.                                                 *)
(***************************************************************************)
EXTENDS Carts, ShippingAddresses

createOrder(h, a) ==
    /\ Arrives(h, "order")
    /\ getMyCart(h, [Begin("order", "fillCart") EXCEPT !.address = a])

\* generateShippingAddress.
LookUpAddress(h) ==
    /\ At(h, "lookUpAddress")
    /\ getShippingAddressById(h, handler[h])

\* findProductsForOrder.
Orderable(items) == {p \in Products : items[p] # Absent} \subseteq sold

\* createOrderAndReserveStock.  The cart keeps its items.
PlaceOrder(h) ==
    /\ At(h, "place")
    /\ Orderable(handler[h].items)
    /\ placed' = [items |-> handler[h].items, text |-> handler[h].text]
    /\ Answer(h)
    /\ UNCHANGED <<cartVars, address, cache, offered>>

OrderRefused(h) ==
    /\ At(h, "place")
    /\ ~Orderable(handler[h].items)
    /\ Answer(h)
    /\ UNCHANGED <<cartVars, address, cache, placed, offered>>

\* An exception or a crash: the keys h has not reached keep their values.
Unreached(h) ==
    IF At(h, "forgetCart") THEN {CartKey}
    ELSE IF At(h, "announceAddress") \/ At(h, "forgetAddress")
    THEN {handler[h].address, ListKey}
    ELSE {}

HandlerDies(h) ==
    /\ ~At(h, "idle")
    /\ cache' = Copies(cache, Unreached(h))
    /\ Answer(h)
    /\ UNCHANGED <<cartVars, address, placed, offered>>

Expire(k) ==
    /\ cache[k] # NoEntry
    /\ cache' = [cache EXCEPT ![k] = NoEntry]
    /\ UNCHANGED <<cartVars, address, handler, placed, offered>>

CartsNext ==
    \/ \E h \in Handlers :
        \/ \E p \in Products : addItemToCart(h, p) \/ removeItemFromCart(h, p)
        \/ UpsertCart(h) \/ InsertItem(h)
        \/ manageCart(h) \/ UpdateItems(h)
        \/ ReadCart(h) \/ FillCart(h) \/ DeleteItem(h)
        \/ clearCart(h) \/ ForgetCart(h)
    \/ \E p \in Products : deleteProduct(p)

AddressesNext ==
    \E h \in Handlers :
        \/ createShippingAddress(h) \/ InsertAddress(h)
        \/ \E a \in Addresses, op \in {"getAddress", "update", "delete"} :
            ReadAddress(h, op, a)
        \/ FillAddress(h) \/ AddressIsGone(h)
        \/ updateShippingAddress(h) \/ deleteShippingList(h)
        \/ AnnounceAddress(h) \/ ForgetAddress(h)
        \/ getMyShippingAddresses(h) \/ FillList(h)

OrdersNext ==
    \E h \in Handlers :
        \/ \E a \in Addresses : createOrder(h, a)
        \/ LookUpAddress(h) \/ PlaceOrder(h) \/ OrderRefused(h)

Next ==
    \/ CartsNext \/ AddressesNext \/ OrdersNext
    \/ \E h \in Handlers : HandlerDies(h)
    \/ \E k \in Keys : Expire(k)

Spec == Init /\ [][Next]_vars

-----------------------------------------------------------------------------
\* Of the products that still exist.
SameCart(copy, contents) == \A p \in sold : copy[p] = contents[p]

\* The cached cart of a user agrees with the rows, in items and quantities of
\* the products that still exist, whenever no request that wrote the cart has
\* its deletion of the key ahead of it; the exceptions are a reader that set
\* the key after a write it did not see, and a failed deletion.
CachedCartIsRight ==
    cache[CartKey] # NoEntry /\ ~cache[CartKey].late /\ ~CartWriteUnfinished
        => SameCart(cache[CartKey].value, cart)

\* The same for the addresses, one by one and in the list: in particular no
\* deleted address is served, but for a reader or a writer that was overtaken.
CachedAddressesAreRight ==
    \A a \in Addresses : ~AddressWriteUnfinished(a) =>
        /\ cache[a] # NoEntry /\ ~cache[a].late => cache[a].value = address[a]
        /\ cache[ListKey] # NoEntry /\ ~cache[ListKey].late =>
            cache[ListKey].value[a] = Listed[a]

\* An order about to be placed has the items of the cart and ships to the
\* address as it is, although it took both from copies at two moments, unless
\* a write overtook it or the copy it took.
OrderTakesTheCart ==
    \A h \in Handlers : At(h, "place") =>
        /\ "cart" \notin handler[h].late => SameCart(handler[h].items, cart)
        /\ "address" \notin handler[h].late =>
            handler[h].text = address[handler[h].address]

\* createShippingAddress counts before it inserts, so that a user may exceed
\* the limit, but by no more than the other requests under way.
AddressesWithinLimit ==
    Cardinality(InBook) <= MAX_SHIPPING_ADDRESSES + Cardinality(Handlers) - 1

-----------------------------------------------------------------------------
(* Why the properties hold: what the handlers in flight may rely on.       *)

\* Where a request is tells what it holds.
Fits(q) ==
    /\ \/ q.step \in {"fillCart", "update", "deleteItem", "lookUpAddress", "place"}
       \/ q.step = "fillAddress" /\ q.op = "order"
       => q.items # NoEntry
    /\ q.step \in {"fillAddress", "place", "announceAddress"} <=> q.text # NoEntry
    /\ \/ q.step \in {"lookUpAddress", "writeAddress", "forgetAddress"}
       \/ q.step = "fillCart" /\ q.op = "order"
       \/ q.text # NoEntry
       => q.address # NoEntry
    /\ q.step = "fillList" <=> q.book # NoEntry
    /\ q.step \in {"lookUpAddress", "place"} => q.op = "order"
    /\ \/ q.step \in {"upsert", "insert", "deleteItem"}
       \/ q.step = "fillCart" /\ q.op = "remove"
       => q.product # NoEntry
    /\ q.items # NoEntry \/ q.step \in {"insert", "update", "deleteItem"}
       => cart # NoEntry

FieldsFit == \A h \in Handlers : At(h, "idle") \/ Fits(handler[h])

NoCartYet == cart = NoEntry => cache[CartKey] = NoEntry

\* Who was not overtaken holds what the rows say.
CartsHeld ==
    \A h \in Handlers :
        HoldsCart(h) /\ "cart" \notin handler[h].late =>
            SameCart(handler[h].items, cart)

AddressesHeld ==
    \A h \in Handlers :
        ~At(h, "idle") /\ "address" \notin handler[h].late =>
            /\ handler[h].text # NoEntry =>
                handler[h].text = address[handler[h].address]
            /\ handler[h].book # NoEntry => handler[h].book = Listed

\* The requests that have counted and not yet inserted.
Inserting == {h \in Handlers : At(h, "insertAddress")}
PendingWithinLimit ==
    Cardinality(InBook) + Cardinality(Inserting)
        <= MAX_SHIPPING_ADDRESSES + Cardinality(Handlers) - 1

IInv ==
    /\ TypeOK /\ FieldsFit /\ NoCartYet
    /\ CartsHeld /\ CachedCartIsRight
    /\ AddressesHeld /\ CachedAddressesAreRight
    /\ PendingWithinLimit

=============================================================================
