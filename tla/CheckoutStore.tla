--------------------------- MODULE CheckoutStore ----------------------------
(***************************************************************************)
(* What an order of one user is made from: the rows of the cart and of the *)
(* shipping addresses, their copies in Redis, the products that exist, and *)
(* the requests under way.                                                 *)
(***************************************************************************)
EXTENDS Integers, FiniteSets

CONSTANTS
    Handlers,   \* requests that may be under way at once
    Products,
    Quantities,
    MaxItems,   \* bound: cart items made per product
    Addresses,  \* ids of shipping addresses
    Texts,      \* what an address may say
    Scenarios,  \* bound: the rows a behaviour starts from, the ops it offers
    MAX_SHIPPING_ADDRESSES,
    NoEntry,    \* an absent Redis key, a field not in use
    Absent,     \* a product that is not in the cart, an address not in the list
    Unborn, Gone, \* an address before its insert and after its deletion
    CartKey, ListKey \* the keys of the cart and of the list of addresses

\* A row of cart_items; an item that is removed and added again has a new id.
Item == [id : 1 .. MaxItems, quantity : Quantities]
Contents == [Products -> Item \cup {Absent}]
Book == [Addresses -> Texts \cup {Unborn, Gone}]
Listing == [Addresses -> Texts \cup {Absent}]

\* Redis keys.
Keys == {CartKey, ListKey} \cup Addresses
Entry(S) == [value : S, late : BOOLEAN] \cup {NoEntry}

CartOps == {"add", "manage", "remove", "clear", "getCart", "deleteProduct"}
AddressOps == {"create", "update", "delete", "getAddress", "list"}
Ops == CartOps \cup AddressOps \cup {"order"}

ASSUME BoundsAssumption == MaxItems \in Nat \ {0}

ASSUME LimitAssumption == MAX_SHIPPING_ADDRESSES \in Nat \ {0}

ASSUME HandlersAssumption ==
    /\ IsFiniteSet(Handlers) /\ Handlers # {}
    /\ IsFiniteSet(Addresses)

\* A user has no more addresses than he may have.
ASSUME ScenariosAssumption ==
    /\ Scenarios \subseteq [cart : Contents \cup {NoEntry}, addresses : Book,
                            offered : SUBSET Ops]
    /\ \A s \in Scenarios :
        Cardinality({a \in Addresses : s.addresses[a] \in Texts})
            <= MAX_SHIPPING_ADDRESSES

\* An item is added with the quantity 1.
ASSUME QuantitiesAssumption == 1 \in Quantities

ASSUME NamesAssumption ==
    /\ {CartKey, ListKey} \cap Addresses = {}
    /\ CartKey # ListKey
    /\ {Unborn, Gone, Absent, NoEntry} \cap Texts = {}
    /\ NoEntry \notin Products \cup Addresses \cup Contents \cup Listing
    /\ Absent \notin Item

VARIABLES
    sold,       \* the products that exist
    cart,       \* the items of the cart row, or NoEntry before there is one
    made,       \* made[p]: items made for p
    address,    \* address[a]: the shipping_addresses row a
    cache,      \* cache[k]: the copy under the key k; late is a ghost: a write
                \* overtook the handler that set it, or failed to replace it
    handler,    \* handler[h]: what the request h does next
    placed,     \* ghost: the last order: its items and its address
    offered     \* the operations of this behaviour

vars == <<sold, cart, made, address, cache, handler, placed, offered>>
cartVars == <<sold, cart, made>>

\* late is a ghost: what of its fields a write has overtaken.
Step == {"upsert", "insert", "update", "fillCart", "deleteItem", "forgetCart",
         "insertAddress", "lookUpAddress", "fillAddress", "writeAddress",
         "announceAddress", "forgetAddress", "fillList", "place"}
Request == [op : Ops, step : Step, product : Products \cup {NoEntry},
            address : Addresses \cup {NoEntry}, items : Contents \cup {NoEntry},
            text : Texts \cup {NoEntry}, book : Listing \cup {NoEntry},
            late : SUBSET {"cart", "address"}]
Idle == [step |-> "idle"]

TypeOK ==
    /\ sold \subseteq Products
    /\ cart \in Contents \cup {NoEntry}
    /\ made \in [Products -> 0 .. MaxItems]
    /\ address \in Book
    /\ DOMAIN cache = Keys
    /\ cache[CartKey] \in Entry(Contents)
    /\ cache[ListKey] \in Entry(Listing)
    /\ \A a \in Addresses : cache[a] \in Entry(Texts)
    /\ handler \in [Handlers -> Request \cup {Idle}]
    /\ placed \in [items : Contents, text : Texts] \cup {NoEntry}
    /\ offered \subseteq Ops

Init ==
    /\ sold = Products
    /\ \E s \in Scenarios :
        /\ cart = s.cart
        /\ address = s.addresses
        /\ offered = s.offered
    /\ made = [p \in Products |->
                IF cart # NoEntry /\ cart[p] # Absent THEN 1 ELSE 0]
    /\ cache = [k \in Keys |-> NoEntry]
    /\ handler = [h \in Handlers |-> Idle]
    /\ placed = NoEntry

-----------------------------------------------------------------------------
At(h, step) == handler[h].step = step
Arrives(h, op) == At(h, "idle") /\ op \in offered
Begin(op, step) ==
    [op |-> op, step |-> step, product |-> NoEntry, address |-> NoEntry,
     items |-> NoEntry, text |-> NoEntry, book |-> NoEntry, late |-> {}]
Become(h, state) == handler' = [handler EXCEPT ![h] = state]
Proceed(h, step) == handler' = [handler EXCEPT ![h].step = step]
Answer(h) == Become(h, Idle)

\* The handler h writes the cart and goes on; who holds a copy is late.
HoldsCart(g) ==
    /\ ~At(g, "idle")
    /\ handler[g].items # NoEntry
    /\ At(g, "fillCart") \/ handler[g].op = "order"
Overtaken(what, holders) ==
    [g \in Handlers |-> IF g \in holders
                        THEN [handler[g] EXCEPT !.late = @ \cup {what}]
                        ELSE handler[g]]
CartOvertaken == Overtaken("cart", {g \in Handlers : HoldsCart(g)})
WriteCart(h, contents) ==
    /\ cart' = contents
    /\ handler' = [CartOvertaken EXCEPT ![h] = Begin(handler[h].op, "forgetCart")]

\* Likewise of the address a.
HoldsAddress(g, a) ==
    /\ ~At(g, "idle")
    /\ \/ handler[g].address = a /\ handler[g].text # NoEntry
       \/ handler[g].book # NoEntry
WriteAddress(h, a, value, state) ==
    /\ address' = [address EXCEPT ![a] = value]
    /\ handler' = [Overtaken("address", {g \in Handlers : HoldsAddress(g, a)})
                    EXCEPT ![h] = state]

\* Redis carries out every command but those on the keys in lost.
Copies(new, lost) ==
    [k \in Keys |-> IF k \notin lost THEN new[k]
                    ELSE IF cache[k] = NoEntry THEN NoEntry
                    ELSE [cache[k] EXCEPT !.late = TRUE]]
InBook == {a \in Addresses : address[a] \in Texts}
InCart == IF cart = NoEntry THEN {} ELSE {p \in Products : cart[p] # Absent}

=============================================================================
