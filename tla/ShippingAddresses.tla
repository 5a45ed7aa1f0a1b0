------------------------- MODULE ShippingAddresses --------------------------
(***************************************************************************)
(* shipping-address.service.ts.                                            *)
(***************************************************************************)
EXTENDS CheckoutStore

\* Slip: one more than the maximum.
BelowLimit_orEqual == Cardinality(InBook) <= MAX_SHIPPING_ADDRESSES

BelowLimit == Cardinality(InBook) < MAX_SHIPPING_ADDRESSES

\* The rows are counted before the insert.
createShippingAddress(h) ==
    /\ Arrives(h, "create")
    /\ BelowLimit
    /\ Become(h, Begin("create", "insertAddress"))
    /\ UNCHANGED <<cartVars, address, cache, placed, offered>>

InsertAddress(h) ==
    /\ At(h, "insertAddress")
    /\ \E a \in Addresses, text \in Texts :
        /\ address[a] = Unborn
        /\ WriteAddress(h, a, text, [Begin("create", "announceAddress") EXCEPT
                                        !.address = a, !.text = text])
    /\ UNCHANGED <<cartVars, cache, placed, offered>>

\* What a request does with the address it got.
AfterAddress(h, q, text, late) ==
    IF q.op \in {"update", "delete"}
    THEN Become(h, [q EXCEPT !.step = "writeAddress", !.text = NoEntry, !.late = {}])
    ELSE IF q.op = "order"
    THEN Become(h, [q EXCEPT !.step = "place", !.text = text,
                    !.late = @ \cup {w \in {"address"} : late}])
    ELSE Answer(h)

AddressWriteUnfinished(a) ==
    \E g \in Handlers : /\ At(g, "announceAddress") \/ At(g, "forgetAddress")
                        /\ handler[g].address = a

getShippingAddressById(h, q) ==
    LET a == q.address
    IN  /\ \/ /\ a \in InBook
              /\ Become(h, [q EXCEPT !.step = "fillAddress", !.text = address[a]])
           \/ /\ cache[a] # NoEntry
              /\ AfterAddress(h, q, cache[a].value,
                              cache[a].late \/ AddressWriteUnfinished(a))
        /\ UNCHANGED <<cartVars, address, cache, placed, offered>>

\* By itself, or first in updateShippingAddress and deleteShippingList.
ReadAddress(h, op, a) ==
    /\ Arrives(h, op)
    /\ getShippingAddressById(h, [Begin(op, "fillAddress") EXCEPT !.address = a])

FillAddress(h) ==
    LET q == handler[h]
        late == "address" \in q.late
    IN  /\ At(h, "fillAddress")
        /\ cache' = [cache EXCEPT ![q.address] = [value |-> q.text, late |-> late]]
        /\ AfterAddress(h, q, q.text, late)
        /\ UNCHANGED <<cartVars, address, placed, offered>>

\* The row is gone, and the update or the deletion throws.
AddressIsGone(h) ==
    /\ At(h, "writeAddress")
    /\ handler[h].address \notin InBook
    /\ Answer(h)
    /\ UNCHANGED <<cartVars, address, cache, placed, offered>>

updateShippingAddress(h) ==
    LET a == handler[h].address
    IN  /\ At(h, "writeAddress")
        /\ handler[h].op = "update"
        /\ a \in InBook
        /\ \E text \in Texts :
            WriteAddress(h, a, text, [handler[h] EXCEPT !.step = "announceAddress",
                                        !.text = text])
        /\ UNCHANGED <<cartVars, cache, placed, offered>>

deleteShippingList(h) ==
    LET a == handler[h].address
    IN  /\ At(h, "writeAddress")
        /\ handler[h].op = "delete"
        /\ a \in InBook
        /\ WriteAddress(h, a, Gone, [handler[h] EXCEPT !.step = "forgetAddress"])
        /\ UNCHANGED <<cartVars, cache, placed, offered>>

\* Slip: only the list is renewed.
AnnounceAddress_keepsRow(h) ==
    LET q == handler[h]
        a == q.address
    IN  /\ At(h, "announceAddress")
        /\ cache' = [cache EXCEPT ![ListKey] = NoEntry]
        /\ Answer(h)
        /\ UNCHANGED <<cartVars, address, placed, offered>>

\* A write sets or deletes the key of its row and deletes the key of the list.
AnnounceAddress(h) ==
    LET q == handler[h]
        a == q.address
    IN  /\ At(h, "announceAddress")
        /\ \E lost \in SUBSET {a, ListKey} :
            cache' = Copies([cache EXCEPT
                        ![a] = [value |-> q.text, late |-> "address" \in q.late],
                        ![ListKey] = NoEntry], lost)
        /\ Answer(h)
        /\ UNCHANGED <<cartVars, address, placed, offered>>

\* Slip: the key of the row is forgotten.
ForgetAddress_listOnly(h) ==
    /\ At(h, "forgetAddress")
    /\ cache' = [cache EXCEPT ![ListKey] = NoEntry]
    /\ Answer(h)
    /\ UNCHANGED <<cartVars, address, placed, offered>>

ForgetAddress(h) ==
    LET a == handler[h].address
    IN  /\ At(h, "forgetAddress")
        /\ \E lost \in SUBSET {a, ListKey} :
            cache' = Copies([cache EXCEPT ![a] = NoEntry, ![ListKey] = NoEntry], lost)
        /\ Answer(h)
        /\ UNCHANGED <<cartVars, address, placed, offered>>

\* The whole list; the code never deletes those of a search.
Listed == [a \in Addresses |-> IF a \in InBook THEN address[a] ELSE Absent]

getMyShippingAddresses(h) ==
    /\ Arrives(h, "list")
    /\ cache[ListKey] = NoEntry
    /\ Become(h, [Begin("list", "fillList") EXCEPT !.book = Listed])
    /\ UNCHANGED <<cartVars, address, cache, placed, offered>>

FillList(h) ==
    LET q == handler[h]
    IN  /\ At(h, "fillList")
        /\ cache' = [cache EXCEPT ![ListKey] =
                        [value |-> q.book, late |-> "address" \in q.late]]
        /\ Answer(h)
        /\ UNCHANGED <<cartVars, address, placed, offered>>

=============================================================================
