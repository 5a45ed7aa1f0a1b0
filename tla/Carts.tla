------------------------------- MODULE Carts --------------------------------
(***************************************************************************)
(* cart.service.ts, and the deletion of a product, which takes it out of   *)
(* every cart in the database and of none in Redis.                        *)
(***************************************************************************)
EXTENDS CheckoutStore

\* Whether the product exists is asked of a copy that may be older.
addItemToCart(h, p) ==
    /\ Arrives(h, "add")
    /\ Become(h, [Begin("add", "upsert") EXCEPT !.product = p])
    /\ UNCHANGED <<cartVars, address, cache, placed, offered>>

UpsertCart(h) ==
    /\ At(h, "upsert")
    /\ cart' = IF cart = NoEntry THEN [p \in Products |-> Absent] ELSE cart
    /\ Proceed(h, "insert")
    /\ UNCHANGED <<sold, made, address, cache, placed, offered>>

\* Slip: adding what is in the cart raises its quantity.
InsertItem_raises(h) ==
    LET p == handler[h].product
    IN  /\ At(h, "insert")
        /\ made' = [made EXCEPT ![p] = 1]
        /\ WriteCart(h, [cart EXCEPT ![p] =
                IF p \in InCart THEN [@ EXCEPT !.quantity = @ + 1]
                ELSE [id |-> 1, quantity |-> 1]])
        /\ UNCHANGED <<sold, address, cache, placed, offered>>

\* A product that is gone or in the cart violates a constraint.
InsertItem(h) ==
    LET p == handler[h].product
    IN  /\ At(h, "insert")
        /\ IF p \in sold \ InCart
           THEN /\ made[p] < MaxItems
                /\ made' = [made EXCEPT ![p] = @ + 1]
                /\ WriteCart(h, [cart EXCEPT ![p] = [id |-> made[p] + 1, quantity |-> 1]])
           ELSE Answer(h) /\ UNCHANGED <<cart, made>>
        /\ UNCHANGED <<sold, address, cache, placed, offered>>

manageCart(h) ==
    /\ Arrives(h, "manage")
    /\ InCart # {}
    /\ Become(h, [Begin("manage", "update") EXCEPT !.items = cart])
    /\ UNCHANGED <<cartVars, address, cache, placed, offered>>

\* One transaction: a product that has left the cart rolls all back.
UpdateItems(h) ==
    /\ At(h, "update")
    /\ \E S \in SUBSET {p \in Products : handler[h].items[p] # Absent} \ {{}} :
        IF S \subseteq InCart
        THEN \E want \in [S -> Quantities] :
                WriteCart(h, [p \in Products |->
                    IF p \in S THEN [cart[p] EXCEPT !.quantity = want[p]] ELSE cart[p]])
        ELSE Answer(h) /\ UNCHANGED cart
    /\ UNCHANGED <<sold, made, address, cache, placed, offered>>

\* What a request does with the cart it got.
AfterCart(h, q, items, late) ==
    IF q.op = "remove" /\ items[q.product] # Absent
    THEN Become(h, [q EXCEPT !.step = "deleteItem", !.items = items, !.late = {}])
    ELSE IF q.op = "order" /\ \E p \in Products : items[p] # Absent
    THEN Become(h, [q EXCEPT !.step = "lookUpAddress", !.items = items,
                    !.late = IF late THEN {"cart"} ELSE {}])
    ELSE Answer(h)

CartWriteUnfinished == \E g \in Handlers : At(g, "forgetCart")

\* getMyCart.  A miss and its query are one step: by the time of the query
\* another handler may have filled the key.
getMyCart(h, q) ==
    /\ \/ /\ cart # NoEntry
          /\ Become(h, [q EXCEPT !.step = "fillCart", !.items = cart])
       \/ /\ cache[CartKey] # NoEntry
          /\ AfterCart(h, q, cache[CartKey].value,
                       cache[CartKey].late \/ CartWriteUnfinished)
    /\ UNCHANGED <<cartVars, address, cache, placed, offered>>

ReadCart(h) == Arrives(h, "getCart") /\ getMyCart(h, Begin("getCart", "fillCart"))

removeItemFromCart(h, p) ==
    /\ Arrives(h, "remove")
    /\ getMyCart(h, [Begin("remove", "fillCart") EXCEPT !.product = p])

FillCart(h) ==
    LET q == handler[h]
        late == "cart" \in q.late
    IN  /\ At(h, "fillCart")
        /\ cache' = [cache EXCEPT ![CartKey] = [value |-> q.items, late |-> late]]
        /\ AfterCart(h, q, q.items, late)
        /\ UNCHANGED <<cartVars, address, placed, offered>>

\* The item is deleted by the id in the copy; none has it, and nothing happens.
DeleteItem(h) ==
    LET q == handler[h]
    IN  /\ At(h, "deleteItem")
        /\ IF q.product \in InCart /\ cart[q.product].id = q.items[q.product].id
           THEN WriteCart(h, [cart EXCEPT ![q.product] = Absent])
           ELSE Answer(h) /\ UNCHANGED cart
        /\ UNCHANGED <<sold, made, address, cache, placed, offered>>

clearCart(h) ==
    /\ Arrives(h, "clear")
    /\ cart # NoEntry
    /\ cart' = [p \in Products |-> Absent]
    /\ handler' = [CartOvertaken EXCEPT ![h] = Begin("clear", "forgetCart")]
    /\ UNCHANGED <<sold, made, address, cache, placed, offered>>

\* Slip: a cart that was only changed keeps its copy.
ForgetCart_unlessManaged(h) ==
    /\ At(h, "forgetCart")
    /\ cache' = IF handler[h].op = "manage" THEN cache
                ELSE [cache EXCEPT ![CartKey] = NoEntry]
    /\ Answer(h)
    /\ UNCHANGED <<cartVars, address, placed, offered>>

ForgetCart(h) ==
    /\ At(h, "forgetCart")
    /\ cache' = [cache EXCEPT ![CartKey] = NoEntry]
    /\ Answer(h)
    /\ UNCHANGED <<cartVars, address, placed, offered>>

\* deleteProduct: ON DELETE CASCADE empties the carts.
deleteProduct(p) ==
    /\ "deleteProduct" \in offered
    /\ p \in sold
    /\ sold' = sold \ {p}
    /\ cart' = IF cart = NoEntry THEN NoEntry ELSE [cart EXCEPT ![p] = Absent]
    /\ UNCHANGED <<made, address, cache, handler, placed, offered>>

=============================================================================
