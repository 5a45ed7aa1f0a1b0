--------------------------- MODULE CheckoutProofs ---------------------------
(***************************************************************************)
(* Theorems about Checkout, for any number of requests, products and       *)
(* addresses.                                                              *)
(***************************************************************************)
EXTENDS Checkout, FiniteSetTheorems, TLAPS

-----------------------------------------------------------------------------
(* The invariant in three parts: the rows, the requests and the copies.    *)

RowsTyped ==
    /\ sold \subseteq Products
    /\ cart \in Contents \cup {NoEntry}
    /\ made \in [Products -> 0 .. MaxItems]
    /\ address \in Book
    /\ placed \in [items : Contents, text : Texts] \cup {NoEntry}
    /\ offered \subseteq Ops

HandlersSound ==
    /\ handler \in [Handlers -> Request \cup {Idle}]
    /\ FieldsFit /\ CartsHeld /\ AddressesHeld

CopiesSound ==
    /\ DOMAIN cache = Keys
    /\ cache[CartKey] \in Entry(Contents)
    /\ cache[ListKey] \in Entry(Listing)
    /\ \A a \in Addresses : cache[a] \in Entry(Texts)
    /\ NoCartYet /\ CachedCartIsRight /\ CachedAddressesAreRight

LEMMA ThreeParts ==
    IInv <=> RowsTyped /\ HandlersSound /\ CopiesSound /\ PendingWithinLimit
  BY DEF IInv, TypeOK, RowsTyped, HandlersSound, CopiesSound

\* What one request may hold, by itself.
CartFits(q) ==
    (q.items # NoEntry /\ (q.step = "fillCart" \/ q.op = "order") /\ "cart" \notin q.late)
        => SameCart(q.items, cart)

AddressFits(q) ==
    "address" \notin q.late =>
        /\ q.text # NoEntry => q.text = address[q.address]
        /\ q.book # NoEntry => q.book = Listed

Sound(q) ==
    \/ q = Idle
    \/ q \in Request /\ Fits(q) /\ CartFits(q) /\ AddressFits(q)

LEMMA HandlersAreSound ==
    ASSUME HandlersSound, NEW h \in Handlers
    PROVE  Sound(handler[h])
  BY DEF HandlersSound, FieldsFit, CartsHeld, AddressesHeld, Sound, CartFits,
         AddressFits, HoldsCart, At, Request, Step, Idle

\* Likewise after a step.
LEMMA SoundHandlers ==
    ASSUME handler' \in [Handlers -> Request \cup {Idle}],
           \A h \in Handlers : Sound(handler[h])'
    PROVE  HandlersSound'
  BY DEF HandlersSound, FieldsFit, CartsHeld, AddressesHeld, Sound, CartFits,
         AddressFits, HoldsCart, At, Request, Step, Idle

\* A handler that is not idle holds a request.
LEMMA BusyHoldsRequest ==
    ASSUME HandlersSound, NEW h \in Handlers, handler[h].step # "idle"
    PROVE  /\ handler[h] \in Request /\ Fits(handler[h])
           /\ CartFits(handler[h]) /\ AddressFits(handler[h])
  BY HandlersAreSound DEF Sound, Idle

\* A request that only becomes another one.
LEMMA BecomeKeepsSound ==
    ASSUME HandlersSound, NEW h \in Handlers, NEW q, Sound(q), Become(h, q),
           UNCHANGED <<sold, cart, address>>
    PROVE  HandlersSound'
  <1>1. q \in Request \cup {Idle}
    BY DEF Sound
  <1>2. handler' \in [Handlers -> Request \cup {Idle}]
    BY <1>1 DEF HandlersSound, Become
  <1>3. ASSUME NEW g \in Handlers
        PROVE  Sound(handler'[g])
    BY HandlersAreSound DEF Become, HandlersSound
  <1>4. ASSUME NEW g \in Handlers
        PROVE  Sound(handler[g])'
    <2>1. Sound(handler'[g])
      BY <1>3
    <2> QED
      BY <2>1 DEF Sound, Fits, CartFits, AddressFits, SameCart, Listed, InBook
  <1> QED
    BY <1>2, <1>4, SoundHandlers

-----------------------------------------------------------------------------
(* The copies.                                                             *)

\* Copies that may be there whatever the requests do.
CartFresh(c) ==
    /\ c \in Entry(Contents)
    /\ c # NoEntry => cart # NoEntry /\ (c.late \/ SameCart(c.value, cart))
RowFresh(a, c) ==
    /\ c \in Entry(Texts)
    /\ c # NoEntry => c.late \/ c.value = address[a]
ListFresh(c) ==
    /\ c \in Entry(Listing)
    /\ c # NoEntry => c.late \/ c.value = Listed

\* A step that writes no row keeps every copy or leaves a fresh one, and no
\* request that has a copy to renew stops before there is a fresh one.
LEMMA CopiesKept ==
    ASSUME CopiesSound, UNCHANGED <<sold, cart, address>>, DOMAIN cache' = Keys,
           \/ CartFresh(cache'[CartKey])
           \/ /\ cache'[CartKey] = cache[CartKey]
              /\ CartWriteUnfinished => CartWriteUnfinished',
           cache'[ListKey] = cache[ListKey] \/ ListFresh(cache'[ListKey]),
           \A a \in Addresses :
              /\ cache'[a] = cache[a] \/ RowFresh(a, cache'[a])
              /\ \/ ~AddressWriteUnfinished(a)
                 \/ AddressWriteUnfinished(a)'
                 \/ RowFresh(a, cache'[a]) /\ ListFresh(cache'[ListKey])
    PROVE  CopiesSound'
  <1> USE DEF CopiesSound, CartFresh, RowFresh, ListFresh, SameCart
  <1>1. /\ cache'[CartKey] \in Entry(Contents)
        /\ cache'[ListKey] \in Entry(Listing)
        /\ \A a \in Addresses : cache'[a] \in Entry(Texts)
    OBVIOUS
  <1>2. NoCartYet'
    BY DEF NoCartYet
  <1>3. CachedCartIsRight'
    BY DEF CachedCartIsRight
  <1>4. Listed' = Listed
    BY DEF Listed, InBook
  <1>5. ASSUME NEW a \in Addresses, ~AddressWriteUnfinished(a)'
        PROVE  /\ cache'[a] # NoEntry /\ ~cache'[a].late => cache'[a].value = address'[a]
               /\ cache'[ListKey] # NoEntry /\ ~cache'[ListKey].late =>
                    cache'[ListKey].value[a] = Listed'[a]
    <2>1. CASE AddressWriteUnfinished(a)
      BY <1>4, <1>5, <2>1
    <2>2. CASE ~AddressWriteUnfinished(a)
      BY <1>4, <2>2 DEF CachedAddressesAreRight
    <2> QED
      BY <2>1, <2>2
  <1>6. CachedAddressesAreRight'
    BY <1>5 DEF CachedAddressesAreRight
  <1> QED
    BY <1>1, <1>2, <1>3, <1>6

\* A copy that a command failed to replace is known to be late.
LEMMA LostIsLate ==
    ASSUME CopiesSound, NEW new, NEW lost \in SUBSET Keys, cache' = Copies(new, lost)
    PROVE  /\ DOMAIN cache' = Keys
           /\ \A k \in Keys \ lost : cache'[k] = new[k]
           /\ CartKey \in lost => CartFresh(cache'[CartKey])
           /\ ListKey \in lost => ListFresh(cache'[ListKey])
           /\ \A a \in Addresses \cap lost : RowFresh(a, cache'[a])
  <1>1. /\ DOMAIN cache' = Keys
        /\ \A k \in Keys \ lost : cache'[k] = new[k]
        /\ \A k \in lost :
            cache'[k] = IF cache[k] = NoEntry THEN NoEntry
                        ELSE [cache[k] EXCEPT !.late = TRUE]
    BY DEF Copies
  <1>2. ASSUME NEW S, NEW k \in lost, cache[k] \in Entry(S)
        PROVE  /\ cache'[k] \in Entry(S)
               /\ cache'[k] = NoEntry \/ cache'[k].late
    BY <1>1, <1>2 DEF Entry
  <1>3. CartKey \in lost => CartFresh(cache'[CartKey])
    BY <1>1, <1>2 DEF CopiesSound, CartFresh, NoCartYet
  <1>4. ListKey \in lost => ListFresh(cache'[ListKey])
    BY <1>2 DEF CopiesSound, ListFresh
  <1>5. ASSUME NEW a \in Addresses, a \in lost
        PROVE  RowFresh(a, cache'[a])
    BY <1>2, <1>5 DEF CopiesSound, RowFresh
  <1> QED
    BY <1>1, <1>3, <1>4, <1>5

-----------------------------------------------------------------------------
(* The requests that have counted the addresses.                           *)

LEMMA SetsAreFinite ==
    /\ IsFiniteSet(InBook) /\ Cardinality(InBook) \in Nat
    /\ IsFiniteSet(Inserting) /\ Cardinality(Inserting) \in Nat
    /\ Cardinality(Inserting) <= Cardinality(Handlers)
    /\ Cardinality(Handlers) \in Nat \ {0}
  <1>1. InBook \subseteq Addresses /\ Inserting \subseteq Handlers
    BY DEF InBook, Inserting
  <1> QED
    BY <1>1, HandlersAssumption, FS_Subset, FS_CardinalityType, FS_EmptySet

\* Nobody counted and no address was added.
LEMMA PendingKept ==
    ASSUME PendingWithinLimit, InBook' \subseteq InBook, Inserting' \subseteq Inserting
    PROVE  PendingWithinLimit'
  <1>1. /\ Cardinality(InBook') <= Cardinality(InBook)
        /\ Cardinality(Inserting') <= Cardinality(Inserting)
        /\ Cardinality(InBook') \in Nat /\ Cardinality(Inserting') \in Nat
    BY SetsAreFinite, FS_Subset, FS_CardinalityType
  <1> QED
    BY <1>1, SetsAreFinite, LimitAssumption DEF PendingWithinLimit

-----------------------------------------------------------------------------
(* Steps of requests.                                                      *)

\* A step that writes no row, counts nothing and has no copy to renew.
LEMMA MoveKeeps ==
    ASSUME IInv, NEW h \in Handlers, NEW q, Sound(q), Become(h, q),
           q.step # "insertAddress", UNCHANGED <<sold, cart, address>>
    PROVE  HandlersSound' /\ PendingWithinLimit'
  <1>1. HandlersSound'
    BY ThreeParts, BecomeKeepsSound
  <1>2. InBook' \subseteq InBook /\ Inserting' \subseteq Inserting
    BY ThreeParts DEF InBook, Inserting, At, Become, HandlersSound
  <1> QED
    BY <1>1, <1>2, ThreeParts, PendingKept

\* Its copies, when it has none to renew.
LEMMA MoveKeepsCopies ==
    ASSUME IInv, NEW h \in Handlers, NEW q, Become(h, q),
           handler[h].step \notin {"forgetCart", "announceAddress", "forgetAddress"},
           UNCHANGED <<sold, cart, address, cache>>
    PROVE  CopiesSound'
  <1>1. ASSUME NEW g \in Handlers, g # h
        PROVE  handler'[g] = handler[g]
    BY <1>1, ThreeParts DEF Become, HandlersSound
  <1>2. CartWriteUnfinished => CartWriteUnfinished'
    BY <1>1 DEF CartWriteUnfinished, At
  <1>3. ASSUME NEW a \in Addresses
        PROVE  AddressWriteUnfinished(a) => AddressWriteUnfinished(a)'
    BY <1>1 DEF AddressWriteUnfinished, At
  <1> QED
    BY <1>2, <1>3, ThreeParts, CopiesKept DEF CopiesSound

\* Both together.
LEMMA QuietMove ==
    ASSUME IInv, NEW h \in Handlers, NEW q, Sound(q), Become(h, q),
           q.step # "insertAddress",
           handler[h].step \notin {"forgetCart", "announceAddress", "forgetAddress"},
           UNCHANGED <<sold, cart, made, address, cache, offered>>,
           \/ UNCHANGED placed
           \/ placed' \in [items : Contents, text : Texts]
    PROVE  IInv'
  <1>1. HandlersSound' /\ PendingWithinLimit' /\ CopiesSound'
    BY MoveKeeps, MoveKeepsCopies
  <1>2. RowsTyped'
    BY ThreeParts DEF RowsTyped
  <1> QED
    BY <1>1, <1>2 DEF IInv, TypeOK, RowsTyped, HandlersSound, CopiesSound

\* A request that begins at a step where it needs nothing yet.
LEMMA BeginIsSound ==
    ASSUME NEW op \in Ops, NEW step \in {"forgetCart", "insertAddress"}
    PROVE  /\ Begin(op, step) \in Request
           /\ Sound(Begin(op, step)) /\ Sound(Begin(op, step))'
  BY NamesAssumption
  DEF Begin, Request, Step, Sound, Fits, CartFits, AddressFits, SameCart, Listed, InBook

\* Who is overtaken says so, and holds the same.
LEMMA OvertakenHolds ==
    ASSUME HandlersSound, NEW what \in {"cart", "address"}, NEW G \in SUBSET Handlers,
           NEW h \in Handlers, NEW q \in Request,
           handler' = [Overtaken(what, G) EXCEPT ![h] = q],
           \A g \in G : ~At(g, "idle")
    PROVE  /\ handler' \in [Handlers -> Request \cup {Idle}]
           /\ handler'[h] = q
           /\ \A g \in Handlers \ (G \cup {h}) : handler'[g] = handler[g]
           /\ \A g \in G \ {h} :
                /\ handler'[g] \in Request
                /\ handler'[g] = [handler[g] EXCEPT !.late = @ \cup {what}]
                /\ what \in handler'[g].late
                /\ \A w \in {"cart", "address"} \ {what} :
                    w \in handler'[g].late <=> w \in handler[g].late
  <1>1. /\ handler'[h] = q
        /\ \A g \in Handlers \ (G \cup {h}) : handler'[g] = handler[g]
        /\ \A g \in G \ {h} :
            handler'[g] = [handler[g] EXCEPT !.late = @ \cup {what}]
    BY DEF Overtaken
  <1>2. ASSUME NEW g \in G \ {h}
        PROVE  /\ handler'[g] \in Request
               /\ what \in handler'[g].late
               /\ \A w \in {"cart", "address"} \ {what} :
                    w \in handler'[g].late <=> w \in handler[g].late
    <2>1. handler[g] \in Request
      BY BusyHoldsRequest DEF At
    <2>2. handler'[g] = [handler[g] EXCEPT !.late = @ \cup {what}]
      BY <1>1
    <2> QED
      BY <2>1, <2>2 DEF Request
  <1>3. \A g \in Handlers : handler'[g] \in Request \cup {Idle}
    BY <1>1, <1>2 DEF HandlersSound
  <1>4. handler' \in [Handlers -> Request \cup {Idle}]
    BY <1>3 DEF Overtaken
  <1> QED
    BY <1>1, <1>2, <1>4

\* The cart is written: the copy need not be right until its key is deleted.
LEMMA CartWritten ==
    ASSUME IInv, NEW h \in Handlers, NEW op \in Ops, NEW contents \in Contents,
           handler[h].step \in {"idle", "insert", "update", "deleteItem"},
           handler' = [CartOvertaken EXCEPT ![h] = Begin(op, "forgetCart")],
           cart' = contents, UNCHANGED <<sold, address, cache>>
    PROVE  HandlersSound' /\ PendingWithinLimit' /\ CopiesSound'
  <1> DEFINE q == Begin(op, "forgetCart")
             G == {g \in Handlers : HoldsCart(g)}
  <1>1. q \in Request /\ Sound(q)'
    BY BeginIsSound
  <1>2. \A g \in G : ~At(g, "idle")
    BY DEF HoldsCart
  <1>3. HandlersSound
    BY ThreeParts
  <1>4. /\ handler' \in [Handlers -> Request \cup {Idle}]
        /\ handler'[h] = q
        /\ \A g \in Handlers \ (G \cup {h}) : handler'[g] = handler[g]
        /\ \A g \in G \ {h} :
            /\ handler'[g] \in Request
            /\ handler'[g] = [handler[g] EXCEPT !.late = @ \cup {"cart"}]
            /\ "cart" \in handler'[g].late
            /\ "address" \in handler'[g].late <=> "address" \in handler[g].late
    BY <1>1, <1>2, <1>3, OvertakenHolds DEF CartOvertaken
  <1>5. cart' # NoEntry
    BY NamesAssumption
  <1>6. ASSUME NEW g \in Handlers
        PROVE  Sound(handler[g])'
    <2>1. CASE g = h
      BY <1>1, <1>4, <2>1
    <2>2. CASE g \in G \ {h}
      <3>1. handler[g] \in Request /\ Fits(handler[g]) /\ AddressFits(handler[g])
        BY <1>2, <1>3, <2>2, BusyHoldsRequest DEF At
      <3> DEFINE r == handler'[g]
      <3>2. /\ r \in Request /\ "cart" \in r.late
            /\ "address" \in r.late <=> "address" \in handler[g].late
            /\ r.step = handler[g].step /\ r.op = handler[g].op
            /\ r.product = handler[g].product /\ r.address = handler[g].address
            /\ r.items = handler[g].items /\ r.text = handler[g].text
            /\ r.book = handler[g].book
        BY <1>4, <2>2, <3>1 DEF Request
      <3>3. Fits(handler[g])'
        BY <1>5, <3>1, <3>2 DEF Fits
      <3>4. CartFits(handler[g])'
        BY <3>2 DEF CartFits
      <3>5. AddressFits(handler[g])'
        BY <3>1, <3>2 DEF AddressFits, Listed, InBook
      <3> QED
        BY <3>2, <3>3, <3>4, <3>5 DEF Sound
    <2>3. CASE g \notin G \cup {h}
      <3>1. handler'[g] = handler[g] /\ Sound(handler[g])
        BY <1>3, <1>4, <2>3, HandlersAreSound
      <3>2. CASE handler[g] = Idle
        BY <3>1, <3>2 DEF Sound
      <3>3. CASE handler[g] # Idle
        <4>1. handler[g] \in Request /\ Fits(handler[g]) /\ AddressFits(handler[g])
          BY <3>1, <3>3 DEF Sound
        <4>2. Fits(handler[g])'
          BY <1>5, <3>1, <4>1 DEF Fits
        <4>3. CartFits(handler[g])'
          BY <2>3, <3>1, <4>1 DEF CartFits, HoldsCart, At, Request, Step
        <4>4. AddressFits(handler[g])'
          BY <3>1, <4>1 DEF AddressFits, Listed, InBook
        <4> QED
          BY <3>1, <4>1, <4>2, <4>3, <4>4 DEF Sound
      <3> QED
        BY <3>2, <3>3
    <2> QED
      BY <2>1, <2>2, <2>3
  <1>7. HandlersSound'
    BY <1>4, <1>6, SoundHandlers
  <1>8. \A g \in Handlers \ {h} :
            /\ handler'[g].step = handler[g].step
            /\ At(g, "idle") \/ handler'[g].address = handler[g].address
    <2>1. \A g \in G : handler[g] \in Request
      BY <1>2, <1>3, BusyHoldsRequest DEF At
    <2> QED
      BY <1>4, <2>1 DEF Request
  <1>9. handler'[h].step = "forgetCart"
    BY <1>4 DEF Begin
  <1>10. PendingWithinLimit'
    <2>1. InBook' \subseteq InBook /\ Inserting' \subseteq Inserting
      BY <1>8, <1>9 DEF InBook, Inserting, At
    <2> QED
      BY <2>1, ThreeParts, PendingKept
  <1>11. CopiesSound'
    <2>1. CartWriteUnfinished'
      BY <1>9 DEF CartWriteUnfinished, At
    <2>2. \A a \in Addresses : AddressWriteUnfinished(a) => AddressWriteUnfinished(a)'
      BY <1>8 DEF AddressWriteUnfinished, At
    <2>3. CachedCartIsRight'
      BY <2>1 DEF CachedCartIsRight
    <2>4. CachedAddressesAreRight'
      BY <2>2, ThreeParts DEF CachedAddressesAreRight, CopiesSound, Listed, InBook
    <2> QED
      BY <1>5, <2>3, <2>4, ThreeParts DEF CopiesSound, NoCartYet
  <1> QED
    BY <1>7, <1>10, <1>11

\* An address is written: its copies need not be right until they are renewed.
LEMMA AddressWritten ==
    ASSUME IInv, NEW h \in Handlers, NEW a \in Addresses,
           NEW value \in Texts \cup {Gone}, NEW q \in Request,
           handler[h].step \in {"insertAddress", "writeAddress"},
           WriteAddress(h, a, value, q), UNCHANGED <<sold, cart, cache>>,
           q.step \in {"announceAddress", "forgetAddress"}, q.address = a,
           q.text \in {value, NoEntry}, Fits(q), CartFits(q)
    PROVE  /\ HandlersSound' /\ CopiesSound'
           /\ Inserting' = Inserting \ {h} /\ InBook' \subseteq InBook \cup {a}
           /\ value = Gone => InBook' \subseteq InBook
  <1> DEFINE G == {g \in Handlers : HoldsAddress(g, a)}
  <1>1. \A g \in G : ~At(g, "idle")
    BY DEF HoldsAddress
  <1>2. HandlersSound /\ address \in Book
    BY ThreeParts DEF RowsTyped
  <1>3. handler' = [Overtaken("address", G) EXCEPT ![h] = q]
    BY DEF WriteAddress
  <1>4. /\ handler' \in [Handlers -> Request \cup {Idle}]
        /\ handler'[h] = q
        /\ \A g \in Handlers \ (G \cup {h}) : handler'[g] = handler[g]
        /\ \A g \in G \ {h} :
            /\ handler'[g] \in Request
            /\ handler'[g] = [handler[g] EXCEPT !.late = @ \cup {"address"}]
            /\ "address" \in handler'[g].late
            /\ "cart" \in handler'[g].late <=> "cart" \in handler[g].late
    BY <1>1, <1>2, <1>3, OvertakenHolds
  <1>5. /\ address'[a] = value
        /\ \A b \in Addresses \ {a} : address'[b] = address[b]
    BY <1>2 DEF WriteAddress, Book
  <1>6. ASSUME NEW g \in Handlers
        PROVE  Sound(handler[g])'
    <2>1. CASE g = h
      <3>1. q.book = NoEntry
        BY DEF Fits
      <3>2. Fits(handler[g])' /\ CartFits(handler[g])'
        BY <1>4, <2>1 DEF Fits, CartFits, SameCart
      <3>3. AddressFits(handler[g])'
        BY <1>4, <1>5, <2>1, <3>1 DEF AddressFits
      <3> QED
        BY <1>4, <2>1, <3>2, <3>3 DEF Sound
    <2>2. CASE g \in G \ {h}
      <3>1. handler[g] \in Request /\ Fits(handler[g]) /\ CartFits(handler[g])
        BY <1>1, <1>2, <2>2, BusyHoldsRequest DEF At
      <3> DEFINE r == handler'[g]
      <3>2. /\ r \in Request /\ "address" \in r.late
            /\ "cart" \in r.late <=> "cart" \in handler[g].late
            /\ r.step = handler[g].step /\ r.op = handler[g].op
            /\ r.product = handler[g].product /\ r.address = handler[g].address
            /\ r.items = handler[g].items /\ r.text = handler[g].text
            /\ r.book = handler[g].book
        BY <1>4, <2>2, <3>1 DEF Request
      <3>3. Fits(handler[g])'
        BY <3>1, <3>2 DEF Fits
      <3>4. CartFits(handler[g])'
        BY <3>1, <3>2 DEF CartFits, SameCart
      <3>5. AddressFits(handler[g])'
        BY <3>2 DEF AddressFits
      <3> QED
        BY <3>2, <3>3, <3>4, <3>5 DEF Sound
    <2>3. CASE g \notin G \cup {h}
      <3>1. handler'[g] = handler[g] /\ Sound(handler[g])
        BY <1>2, <1>4, <2>3, HandlersAreSound
      <3>2. CASE handler[g] = Idle
        BY <3>1, <3>2 DEF Sound
      <3>3. CASE handler[g] # Idle
        <4>1. /\ handler[g] \in Request /\ Fits(handler[g])
              /\ CartFits(handler[g]) /\ AddressFits(handler[g])
          BY <3>1, <3>3 DEF Sound
        <4>2. Fits(handler[g])' /\ CartFits(handler[g])'
          BY <3>1, <4>1 DEF Fits, CartFits, SameCart
        <4>3. /\ handler[g].book = NoEntry
              /\ handler[g].text # NoEntry =>
                    handler[g].address \in Addresses \ {a}
          BY <2>3, <4>1 DEF HoldsAddress, At, Request, Step, Fits
        <4>4. AddressFits(handler[g])'
          BY <1>5, <3>1, <4>1, <4>3 DEF AddressFits
        <4> QED
          BY <3>1, <4>1, <4>2, <4>4 DEF Sound
      <3> QED
        BY <3>2, <3>3
    <2> QED
      BY <2>1, <2>2, <2>3
  <1>7. HandlersSound'
    BY <1>4, <1>6, SoundHandlers
  <1>8. \A g \in Handlers \ {h} :
            /\ handler'[g].step = handler[g].step
            /\ At(g, "idle") \/ handler'[g].address = handler[g].address
    <2>1. \A g \in G : handler[g] \in Request
      BY <1>1, <1>2, BusyHoldsRequest DEF At
    <2> QED
      BY <1>4, <2>1 DEF Request
  <1>9. CopiesSound'
    <2>1. CartWriteUnfinished => CartWriteUnfinished'
      BY <1>8 DEF CartWriteUnfinished, At
    <2>2. \A b \in Addresses : AddressWriteUnfinished(b) => AddressWriteUnfinished(b)'
      BY <1>8 DEF AddressWriteUnfinished, At
    <2>3. AddressWriteUnfinished(a)'
      BY <1>4 DEF AddressWriteUnfinished, At
    <2>4. \A b \in Addresses \ {a} : Listed'[b] = Listed[b]
      BY <1>5 DEF Listed, InBook
    <2>5. CachedAddressesAreRight'
      <3> SUFFICES ASSUME NEW b \in Addresses, ~AddressWriteUnfinished(b)'
                   PROVE  /\ cache'[b] # NoEntry /\ ~cache'[b].late =>
                                cache'[b].value = address'[b]
                          /\ cache'[ListKey] # NoEntry /\ ~cache'[ListKey].late =>
                                cache'[ListKey].value[b] = Listed'[b]
        BY DEF CachedAddressesAreRight
      <3>1. b # a /\ ~AddressWriteUnfinished(b)
        BY <2>2, <2>3
      <3> QED
        BY <1>5, <2>4, <3>1, ThreeParts DEF CopiesSound, CachedAddressesAreRight
    <2>6. CachedCartIsRight'
      BY <2>1, ThreeParts DEF CopiesSound, CachedCartIsRight, SameCart
    <2> QED
      BY <2>5, <2>6, ThreeParts DEF CopiesSound, NoCartYet
  <1>10. Inserting' = Inserting \ {h}
    BY <1>4, <1>8 DEF Inserting, At
  <1>11. /\ InBook' \subseteq InBook \cup {a}
         /\ value = Gone => InBook' \subseteq InBook
    BY <1>5, NamesAssumption DEF InBook
  <1> QED
    BY <1>7, <1>9, <1>10, <1>11

-----------------------------------------------------------------------------
(* Carts.                                                                  *)

LEMMA AfterCartIsSound ==
    ASSUME NEW h \in Handlers, NEW q \in Request, NEW items \in Contents,
           NEW late \in BOOLEAN, AfterCart(h, q, items, late), cart # NoEntry,
           q.step = "fillCart", q.text = NoEntry, q.book = NoEntry,
           q.op = "order" => q.address # NoEntry,
           q.op = "remove" => q.product # NoEntry,
           late \/ SameCart(items, cart)
    PROVE  \E r : Sound(r) /\ r.step # "insertAddress" /\ Become(h, r)
  <1>1. items # NoEntry
    BY NamesAssumption
  <1>2. CASE Answer(h)
    BY <1>2 DEF Answer, Sound, Idle
  <1>3. CASE /\ q.op = "remove"
             /\ Become(h, [q EXCEPT !.step = "deleteItem", !.items = items, !.late = {}])
    <2> DEFINE r == [q EXCEPT !.step = "deleteItem", !.items = items, !.late = {}]
    <2>1. /\ r \in Request /\ r.step = "deleteItem" /\ r.op = "remove"
          /\ r.text = NoEntry /\ r.book = NoEntry /\ r.product # NoEntry
          /\ r.items = items
      BY <1>3 DEF Request, Step
    <2>2. Fits(r) /\ CartFits(r) /\ AddressFits(r)
      BY <1>1, <2>1 DEF Fits, CartFits, AddressFits
    <2> QED
      BY <1>3, <2>1, <2>2 DEF Sound
  <1>4. CASE /\ q.op = "order"
             /\ Become(h, [q EXCEPT !.step = "lookUpAddress", !.items = items,
                           !.late = IF late THEN {"cart"} ELSE {}])
    <2> DEFINE r == [q EXCEPT !.step = "lookUpAddress", !.items = items,
                     !.late = IF late THEN {"cart"} ELSE {}]
    <2>1. /\ r \in Request /\ r.step = "lookUpAddress" /\ r.op = "order"
          /\ r.text = NoEntry /\ r.book = NoEntry /\ r.address # NoEntry
          /\ r.items = items /\ late => "cart" \in r.late
      BY <1>4 DEF Request, Step
    <2>2. Fits(r) /\ CartFits(r) /\ AddressFits(r)
      BY <1>1, <2>1 DEF Fits, CartFits, AddressFits
    <2> QED
      BY <1>4, <2>1, <2>2 DEF Sound
  <1> QED
    BY <1>2, <1>3, <1>4 DEF AfterCart

LEMMA getMyCartKeeps ==
    ASSUME IInv, NEW h \in Handlers, At(h, "idle"), NEW q \in Request,
           getMyCart(h, q), q.step = "fillCart", q.items = NoEntry,
           q.text = NoEntry, q.book = NoEntry,
           q.op = "remove" => q.product # NoEntry,
           q.op = "order" => q.address # NoEntry
    PROVE  IInv'
  <1>1. UNCHANGED <<sold, cart, made, address, cache, offered, placed>>
    BY DEF getMyCart, cartVars
  <1>2. CASE cart # NoEntry /\ Become(h, [q EXCEPT !.step = "fillCart", !.items = cart])
    <2> DEFINE r == [q EXCEPT !.step = "fillCart", !.items = cart]
    <2>1. cart \in Contents
      BY <1>2, ThreeParts DEF RowsTyped
    <2>2. /\ r \in Request /\ r.step = "fillCart" /\ r.op = q.op
          /\ r.product = q.product /\ r.address = q.address /\ r.items = cart
          /\ r.text = NoEntry /\ r.book = NoEntry
      BY <2>1 DEF Request, Step
    <2>3. Fits(r) /\ CartFits(r) /\ AddressFits(r)
      BY <1>2, <2>2 DEF Fits, CartFits, AddressFits, SameCart
    <2> QED
      BY <1>1, <1>2, <2>2, <2>3, QuietMove DEF Sound, At
  <1>3. CASE /\ cache[CartKey] # NoEntry
             /\ AfterCart(h, q, cache[CartKey].value,
                          cache[CartKey].late \/ CartWriteUnfinished)
    <2>1. /\ cache[CartKey].value \in Contents /\ cache[CartKey].late \in BOOLEAN
          /\ cart # NoEntry
      BY <1>3, ThreeParts DEF CopiesSound, NoCartYet, Entry
    <2>2. \/ cache[CartKey].late \/ CartWriteUnfinished
          \/ SameCart(cache[CartKey].value, cart)
      BY <1>3, ThreeParts DEF CopiesSound, CachedCartIsRight
    <2>3. (cache[CartKey].late \/ CartWriteUnfinished) \in BOOLEAN
      OBVIOUS
    <2>4. PICK r : Sound(r) /\ r.step # "insertAddress" /\ Become(h, r)
      BY <1>3, <2>1, <2>2, <2>3, AfterCartIsSound
    <2> QED
      BY <1>1, <2>4, QuietMove DEF At
  <1> QED
    BY <1>2, <1>3 DEF getMyCart

LEMMA FillCartKeeps ==
    ASSUME IInv, NEW h \in Handlers, FillCart(h)
    PROVE  IInv'
  <1> DEFINE q == handler[h]
             late == "cart" \in q.late
             c == [value |-> q.items, late |-> late]
  <1>1. q \in Request /\ Fits(q) /\ CartFits(q) /\ q.step = "fillCart"
    BY ThreeParts, BusyHoldsRequest DEF FillCart, At
  <1>2. /\ q.items \in Contents /\ cart # NoEntry /\ q.book = NoEntry
        /\ q.op = "order" => q.address # NoEntry
        /\ q.op = "remove" => q.product # NoEntry
        /\ q.text = NoEntry
        /\ late \/ SameCart(q.items, cart)
    BY <1>1 DEF Fits, CartFits, Request
  <1>3. UNCHANGED <<sold, cart, made, address, offered, placed>>
    BY DEF FillCart, cartVars
  <1> HIDE DEF q, late
  <1>4. PICK r : Sound(r) /\ r.step # "insertAddress" /\ Become(h, r)
    <2>1. AfterCart(h, q, q.items, late) /\ late \in BOOLEAN
      BY DEF FillCart, q, late
    <2> QED
      BY <1>1, <1>2, <2>1, AfterCartIsSound
  <1>5. HandlersSound' /\ PendingWithinLimit'
    BY <1>3, <1>4, MoveKeeps
  <1>6. CopiesSound'
    <2>1. /\ DOMAIN cache' = Keys /\ cache'[CartKey] = c
          /\ \A k \in Keys \ {CartKey} : cache'[k] = cache[k]
      BY ThreeParts DEF FillCart, CopiesSound, Keys, q, late
    <2>2. c \in Entry(Contents)
      BY <1>2 DEF Entry, late
    <2>3. CartFresh(cache'[CartKey])
      BY <1>2, <2>1, <2>2 DEF CartFresh
    <2>4. cache'[ListKey] = cache[ListKey] /\ \A a \in Addresses : cache'[a] = cache[a]
      BY <2>1, NamesAssumption DEF Keys
    <2>5. ASSUME NEW a \in Addresses
          PROVE  AddressWriteUnfinished(a) => AddressWriteUnfinished(a)'
      BY <1>1, <1>4, ThreeParts DEF q, AddressWriteUnfinished, At, Become, HandlersSound
    <2> QED
      BY <1>3, <2>1, <2>3, <2>4, <2>5, ThreeParts, CopiesKept
  <1>7. RowsTyped'
    BY <1>3, ThreeParts DEF RowsTyped
  <1> QED
    BY <1>5, <1>6, <1>7 DEF IInv, TypeOK, RowsTyped, HandlersSound, CopiesSound

\* The rows of the cart after it was written.
LEMMA CartRowsTyped ==
    ASSUME IInv, NEW h \in Handlers, NEW op \in Ops, NEW contents \in Contents,
           handler[h].step \in {"idle", "insert", "update", "deleteItem"},
           handler' = [CartOvertaken EXCEPT ![h] = Begin(op, "forgetCart")],
           cart' = contents, made' \in [Products -> 0 .. MaxItems],
           UNCHANGED <<sold, address, cache, placed, offered>>
    PROVE  IInv'
  <1>1. HandlersSound' /\ PendingWithinLimit' /\ CopiesSound'
    BY CartWritten
  <1>2. RowsTyped'
    BY ThreeParts DEF RowsTyped
  <1> QED
    BY <1>1, <1>2 DEF IInv, TypeOK, RowsTyped, HandlersSound, CopiesSound

LEMMA UpsertCartKeeps ==
    ASSUME IInv, NEW h \in Handlers, UpsertCart(h)
    PROVE  IInv'
  <1> DEFINE q == handler[h]
             r == [q EXCEPT !.step = "insert"]
  <1>1. /\ q \in Request /\ Fits(q) /\ q.step = "upsert"
        /\ q.items = NoEntry \/ cart # NoEntry
        /\ q.text = NoEntry /\ q.book = NoEntry
    BY ThreeParts, BusyHoldsRequest DEF UpsertCart, At, Fits
  <1>2. /\ r \in Request /\ r.step = "insert" /\ r.op = q.op /\ r.late = q.late
        /\ r.items = q.items /\ r.text = q.text /\ r.book = q.book
        /\ r.product = q.product /\ r.address = q.address
    BY <1>1 DEF Request, Step
  <1>3. CartFits(q) /\ AddressFits(q)
    BY <1>1, ThreeParts, BusyHoldsRequest
  <1>4. CartFits(r) /\ AddressFits(r)
    BY <1>1, <1>2, <1>3 DEF CartFits, AddressFits
  <1>5. Become(h, r)
    BY DEF UpsertCart, Proceed, Become
  <1>6. UNCHANGED <<sold, made, address, cache, placed, offered>>
    BY DEF UpsertCart
  <1>7. CASE cart # NoEntry
    <2>1. Fits(r) /\ UNCHANGED cart
      BY <1>1, <1>2, <1>7 DEF Fits, UpsertCart
    <2> QED
      BY <1>1, <1>2, <1>4, <1>5, <1>6, <2>1, QuietMove DEF Sound
  <1>8. CASE cart = NoEntry
    <2>1. cart' \in Contents /\ cart' # NoEntry
      BY <1>8, NamesAssumption DEF UpsertCart, Contents
    <2>2. ASSUME NEW g \in Handlers
          PROVE  Sound(handler[g])'
      <3>1. CASE g = h
        <4>1. handler'[g] = r
          BY <1>5, <3>1, ThreeParts DEF Become, HandlersSound
        <4>2. r.items = NoEntry
          BY <1>1, <1>2, <1>8
        <4> QED
          BY <1>1, <1>2, <1>6, <2>1, <4>1, <4>2
          DEF Sound, Fits, CartFits, AddressFits
      <3>2. CASE g # h
        <4>1. handler'[g] = handler[g] /\ Sound(handler[g])
          BY <1>5, <3>2, ThreeParts, HandlersAreSound DEF Become, HandlersSound
        <4>2. CASE handler[g] = Idle
          BY <4>1, <4>2 DEF Sound
        <4>3. CASE handler[g] # Idle
          <5>1. /\ handler[g] \in Request /\ Fits(handler[g]) /\ AddressFits(handler[g])
                /\ handler[g].items = NoEntry
            BY <1>8, <4>1, <4>3 DEF Sound, Fits
          <5>2. Fits(handler[g])' /\ CartFits(handler[g])'
            BY <2>1, <4>1, <5>1 DEF Fits, CartFits
          <5>3. AddressFits(handler[g])'
            BY <1>6, <4>1, <5>1 DEF AddressFits, Listed, InBook
          <5> QED
            BY <4>1, <5>1, <5>2, <5>3 DEF Sound
        <4> QED
          BY <4>2, <4>3
      <3> QED
        BY <3>1, <3>2
    <2>3. HandlersSound'
      <3>1. handler' \in [Handlers -> Request \cup {Idle}]
        BY <1>2, <1>5, ThreeParts DEF Become, HandlersSound
      <3> QED
        BY <2>2, <3>1, SoundHandlers
    <2>4. \A g \in Handlers \ {h} : handler'[g] = handler[g]
      BY <1>5, ThreeParts DEF Become, HandlersSound
    <2>5. PendingWithinLimit'
      <3>1. InBook' \subseteq InBook /\ Inserting' \subseteq Inserting
        BY <1>2, <1>5, <1>6, ThreeParts
        DEF Become, HandlersSound, InBook, Inserting, At
      <3> QED
        BY <3>1, ThreeParts, PendingKept
    <2>6. CopiesSound'
      <3>1. \A a \in Addresses : AddressWriteUnfinished(a) => AddressWriteUnfinished(a)'
        BY <1>1, <2>4 DEF AddressWriteUnfinished, At
      <3>2. cache'[CartKey] = NoEntry
        BY <1>6, <1>8, ThreeParts DEF CopiesSound, NoCartYet
      <3>3. CachedAddressesAreRight'
        BY <1>6, <3>1, ThreeParts DEF CopiesSound, CachedAddressesAreRight, Listed, InBook
      <3> QED
        BY <1>6, <3>2, <3>3, ThreeParts DEF CopiesSound, NoCartYet, CachedCartIsRight
    <2>7. RowsTyped'
      BY <1>6, <2>1, ThreeParts DEF RowsTyped
    <2> QED
      BY <2>3, <2>5, <2>6, <2>7 DEF IInv, TypeOK, RowsTyped, HandlersSound, CopiesSound
  <1> QED
    BY <1>7, <1>8

LEMMA AnswerIsSound == Sound(Idle) /\ Idle.step # "insertAddress"
  BY DEF Sound, Idle

\* Answering without a word to write.
LEMMA AnswerKeeps ==
    ASSUME IInv, NEW h \in Handlers, Answer(h),
           handler[h].step \notin {"forgetCart", "announceAddress", "forgetAddress"},
           UNCHANGED <<sold, cart, made, address, cache, offered>>,
           \/ UNCHANGED placed
           \/ placed' \in [items : Contents, text : Texts]
    PROVE  IInv'
  BY AnswerIsSound, QuietMove DEF Answer

LEMMA InsertItemKeeps ==
    ASSUME IInv, NEW h \in Handlers, InsertItem(h)
    PROVE  IInv'
  <1> DEFINE p == handler[h].product
  <1>1. /\ handler[h] \in Request /\ Fits(handler[h]) /\ handler[h].step = "insert"
    BY ThreeParts, BusyHoldsRequest DEF InsertItem, At
  <1>2. p \in Products /\ cart \in Contents /\ handler[h].op \in Ops
    BY <1>1, ThreeParts DEF Fits, Request, RowsTyped
  <1>3. CASE p \in sold \ InCart
    <2> DEFINE contents == [cart EXCEPT ![p] = [id |-> made[p] + 1, quantity |-> 1]]
    <2>1. made[p] \in 0 .. MaxItems /\ made[p] < MaxItems
      BY <1>2, <1>3, ThreeParts DEF InsertItem, RowsTyped
    <2>2. made[p] + 1 \in 0 .. MaxItems /\ made[p] + 1 \in 1 .. MaxItems
      BY <2>1, BoundsAssumption
    <2>3. contents \in Contents
      BY <1>2, <2>2, QuantitiesAssumption DEF Contents, Item
    <2>4. made' \in [Products -> 0 .. MaxItems]
      BY <1>2, <1>3, <2>2, ThreeParts DEF InsertItem, RowsTyped
    <2> QED
      BY <1>1, <1>2, <1>3, <2>3, <2>4, CartRowsTyped DEF InsertItem, WriteCart
  <1>4. CASE p \notin sold \ InCart
    BY <1>1, <1>4, AnswerKeeps DEF InsertItem
  <1> QED
    BY <1>3, <1>4

LEMMA UpdateItemsKeeps ==
    ASSUME IInv, NEW h \in Handlers, UpdateItems(h)
    PROVE  IInv'
  <1>1. /\ handler[h] \in Request /\ Fits(handler[h]) /\ handler[h].step = "update"
    BY ThreeParts, BusyHoldsRequest DEF UpdateItems, At
  <1>2. cart \in Contents /\ handler[h].op \in Ops
    BY <1>1, ThreeParts DEF Fits, Request, RowsTyped
  <1>3. PICK S \in SUBSET {p \in Products : handler[h].items[p] # Absent} \ {{}} :
            IF S \subseteq InCart
            THEN \E want \in [S -> Quantities] :
                    WriteCart(h, [p \in Products |->
                        IF p \in S THEN [cart[p] EXCEPT !.quantity = want[p]] ELSE cart[p]])
            ELSE Answer(h) /\ UNCHANGED cart
    BY DEF UpdateItems
  <1>4. UNCHANGED <<sold, made, address, cache, placed, offered>>
    BY DEF UpdateItems
  <1>5. CASE S \subseteq InCart
    <2>1. PICK want \in [S -> Quantities] :
            WriteCart(h, [p \in Products |->
                IF p \in S THEN [cart[p] EXCEPT !.quantity = want[p]] ELSE cart[p]])
      BY <1>3, <1>5
    <2> DEFINE contents ==
            [p \in Products |->
                IF p \in S THEN [cart[p] EXCEPT !.quantity = want[p]] ELSE cart[p]]
    <2>2. \A p \in S : cart[p] \in Item
      BY <1>2, <1>5 DEF InCart, Contents
    <2>3. contents \in Contents
      BY <1>2, <2>2 DEF Contents, Item
    <2> QED
      BY <1>1, <1>2, <1>4, <2>1, <2>3, ThreeParts, CartRowsTyped DEF WriteCart, RowsTyped
  <1>6. CASE ~(S \subseteq InCart)
    BY <1>1, <1>3, <1>4, <1>6, AnswerKeeps
  <1> QED
    BY <1>5, <1>6

LEMMA DeleteItemKeeps ==
    ASSUME IInv, NEW h \in Handlers, DeleteItem(h)
    PROVE  IInv'
  <1> DEFINE p == handler[h].product
  <1>1. /\ handler[h] \in Request /\ Fits(handler[h]) /\ handler[h].step = "deleteItem"
    BY ThreeParts, BusyHoldsRequest DEF DeleteItem, At
  <1>2. cart \in Contents /\ handler[h].op \in Ops
    BY <1>1, ThreeParts DEF Fits, Request, RowsTyped
  <1>3. UNCHANGED <<sold, made, address, cache, placed, offered>>
    BY DEF DeleteItem
  <1>4. [cart EXCEPT ![p] = Absent] \in Contents
    BY <1>2 DEF Contents
  <1>5. CASE WriteCart(h, [cart EXCEPT ![p] = Absent])
    BY <1>1, <1>2, <1>3, <1>4, <1>5, ThreeParts, CartRowsTyped DEF WriteCart, RowsTyped
  <1>6. CASE Answer(h) /\ UNCHANGED cart
    BY <1>1, <1>3, <1>6, AnswerKeeps
  <1> QED
    BY <1>5, <1>6 DEF DeleteItem

LEMMA ForgetCartKeeps ==
    ASSUME IInv, NEW h \in Handlers, ForgetCart(h)
    PROVE  IInv'
  <1>1. /\ handler[h].step = "forgetCart" /\ Become(h, Idle)
        /\ UNCHANGED <<sold, cart, made, address, placed, offered>>
    BY DEF ForgetCart, At, Answer, cartVars
  <1>2. HandlersSound' /\ PendingWithinLimit'
    BY <1>1, AnswerIsSound, MoveKeeps
  <1>3. CopiesSound'
    <2>1. /\ DOMAIN cache' = Keys /\ cache'[CartKey] = NoEntry
          /\ cache'[ListKey] = cache[ListKey]
          /\ \A a \in Addresses : cache'[a] = cache[a]
      BY ThreeParts, NamesAssumption DEF ForgetCart, CopiesSound, Keys
    <2>2. CartFresh(cache'[CartKey])
      BY <2>1 DEF CartFresh, Entry
    <2>3. ASSUME NEW a \in Addresses
          PROVE  AddressWriteUnfinished(a) => AddressWriteUnfinished(a)'
      BY <1>1, ThreeParts DEF AddressWriteUnfinished, At, Become, HandlersSound
    <2> QED
      BY <1>1, <2>1, <2>2, <2>3, ThreeParts, CopiesKept
  <1>4. RowsTyped'
    BY <1>1, ThreeParts DEF RowsTyped
  <1> QED
    BY <1>2, <1>3, <1>4 DEF IInv, TypeOK, RowsTyped, HandlersSound, CopiesSound

\* The deletion takes the product out of the comparison of copies and rows.
LEMMA deleteProductKeeps ==
    ASSUME IInv, NEW p \in Products, deleteProduct(p)
    PROVE  IInv'
  <1>1. /\ UNCHANGED <<made, address, cache, handler, placed, offered>>
        /\ sold' = sold \ {p}
        /\ cart = NoEntry => cart' = NoEntry
        /\ cart \in Contents =>
            /\ cart' \in Contents
            /\ \A q \in sold' : cart'[q] = cart[q]
    BY ThreeParts, NamesAssumption DEF deleteProduct, RowsTyped, Contents
  <1>2. cart \in Contents \cup {NoEntry} /\ sold \subseteq Products
    BY ThreeParts DEF RowsTyped
  <1>3. cart # NoEntry => cart' # NoEntry
    BY <1>1, <1>2, NamesAssumption
  <1>4. RowsTyped'
    BY <1>1, <1>2, ThreeParts DEF RowsTyped
  <1>5. ASSUME NEW g \in Handlers
        PROVE  Sound(handler[g])'
    <2>1. handler'[g] = handler[g] /\ Sound(handler[g])
      BY <1>1, ThreeParts, HandlersAreSound
    <2>2. CASE handler[g] = Idle
      BY <2>1, <2>2 DEF Sound
    <2>3. CASE handler[g] # Idle
      <3>1. /\ handler[g] \in Request /\ Fits(handler[g])
            /\ CartFits(handler[g]) /\ AddressFits(handler[g])
        BY <2>1, <2>3 DEF Sound
      <3>2. Fits(handler[g])'
        BY <1>3, <2>1, <3>1 DEF Fits
      <3>3. CartFits(handler[g])'
        BY <1>1, <1>2, <2>1, <3>1 DEF Fits, CartFits, SameCart
      <3>4. AddressFits(handler[g])'
        BY <1>1, <2>1, <3>1 DEF AddressFits, Listed, InBook
      <3> QED
        BY <2>1, <3>1, <3>2, <3>3, <3>4 DEF Sound
    <2> QED
      BY <2>2, <2>3
  <1>6. HandlersSound'
    <2>1. handler' \in [Handlers -> Request \cup {Idle}]
      BY <1>1, ThreeParts DEF HandlersSound
    <2> QED
      BY <1>5, <2>1, SoundHandlers
  <1>7. PendingWithinLimit'
    BY <1>1, ThreeParts DEF PendingWithinLimit, InBook, Inserting, At
  <1>8. CopiesSound'
    <2>1. NoCartYet'
      BY <1>1, <1>2, <1>3, ThreeParts DEF CopiesSound, NoCartYet
    <2>2. CachedCartIsRight'
      BY <1>1, <1>2, ThreeParts
      DEF CopiesSound, NoCartYet, CachedCartIsRight, SameCart, CartWriteUnfinished, At
    <2>3. CachedAddressesAreRight'
      BY <1>1, ThreeParts
      DEF CopiesSound, CachedAddressesAreRight, AddressWriteUnfinished, At, Listed, InBook
    <2> QED
      BY <1>1, <2>1, <2>2, <2>3, ThreeParts DEF CopiesSound
  <1> QED
    BY <1>4, <1>6, <1>7, <1>8 DEF IInv, TypeOK, RowsTyped, HandlersSound, CopiesSound

LEMMA CartsNextKeeps ==
    ASSUME IInv, CartsNext
    PROVE  IInv'
  <1> USE DEF cartVars
  <1>1. ASSUME NEW h \in Handlers, NEW p \in Products, addItemToCart(h, p)
        PROVE  IInv'
    <2> DEFINE q == [Begin("add", "upsert") EXCEPT !.product = p]
    <2>1. /\ q \in Request /\ q.step = "upsert" /\ q.op = "add" /\ q.product = p
          /\ q.items = NoEntry /\ q.text = NoEntry /\ q.book = NoEntry
      BY DEF Begin, Request, Step, Ops, CartOps
    <2>2. Sound(q)
      BY <2>1, NamesAssumption DEF Sound, Fits, CartFits, AddressFits
    <2> QED
      BY <1>1, <2>1, <2>2, QuietMove DEF addItemToCart, Arrives, At
  <1>2. ASSUME NEW h \in Handlers, NEW p \in Products, removeItemFromCart(h, p)
        PROVE  IInv'
    <2> DEFINE q == [Begin("remove", "fillCart") EXCEPT !.product = p]
    <2>1. /\ q \in Request /\ q.step = "fillCart" /\ q.op = "remove" /\ q.product # NoEntry
          /\ q.items = NoEntry /\ q.text = NoEntry /\ q.book = NoEntry
      BY NamesAssumption DEF Begin, Request, Step, Ops, CartOps
    <2> QED
      BY <1>2, <2>1, getMyCartKeeps DEF removeItemFromCart, Arrives
  <1>3. ASSUME NEW h \in Handlers, ReadCart(h)
        PROVE  IInv'
    <2> DEFINE q == Begin("getCart", "fillCart")
    <2>1. /\ q \in Request /\ q.step = "fillCart" /\ q.op = "getCart"
          /\ q.items = NoEntry /\ q.text = NoEntry /\ q.book = NoEntry
      BY DEF Begin, Request, Step, Ops, CartOps
    <2> QED
      BY <1>3, <2>1, getMyCartKeeps DEF ReadCart, Arrives
  <1>4. ASSUME NEW h \in Handlers, manageCart(h)
        PROVE  IInv'
    <2> DEFINE q == [Begin("manage", "update") EXCEPT !.items = cart]
    <2>1. cart \in Contents /\ cart # NoEntry
      BY <1>4, ThreeParts DEF manageCart, InCart, RowsTyped
    <2>2. /\ q \in Request /\ q.step = "update" /\ q.op = "manage" /\ q.items = cart
          /\ q.text = NoEntry /\ q.book = NoEntry
      BY <2>1 DEF Begin, Request, Step, Ops, CartOps
    <2>3. Sound(q)
      BY <2>1, <2>2 DEF Sound, Fits, CartFits, AddressFits
    <2> QED
      BY <1>4, <2>2, <2>3, QuietMove DEF manageCart, Arrives, At
  <1>5. ASSUME NEW h \in Handlers, clearCart(h)
        PROVE  IInv'
    <2>1. [p \in Products |-> Absent] \in Contents
      BY DEF Contents
    <2>2. made' \in [Products -> 0 .. MaxItems]
      BY <1>5, ThreeParts DEF clearCart, RowsTyped
    <2> QED
      BY <1>5, <2>1, <2>2, CartRowsTyped DEF clearCart, Arrives, At, Ops, CartOps
  <1> QED
    BY <1>1, <1>2, <1>3, <1>4, <1>5, UpsertCartKeeps, InsertItemKeeps, UpdateItemsKeeps,
       FillCartKeeps, DeleteItemKeeps, ForgetCartKeeps, deleteProductKeeps
    DEF CartsNext

-----------------------------------------------------------------------------
(* Addresses.                                                              *)

\* A request that asks for an address, alone or for its order.
Seeks(q) ==
    /\ q \in Request /\ q.step \in {"fillAddress", "lookUpAddress"}
    /\ q.address # NoEntry /\ q.book = NoEntry
    /\ q.op = "order" => q.items # NoEntry
    /\ q.items # NoEntry => cart # NoEntry
    /\ CartFits(q)

LEMMA AfterAddressIsSound ==
    ASSUME NEW h \in Handlers, NEW q, Seeks(q), NEW text \in Texts,
           NEW late \in BOOLEAN, AfterAddress(h, q, text, late),
           late \/ text = address[q.address]
    PROVE  \E r : Sound(r) /\ r.step # "insertAddress" /\ Become(h, r)
  <1>1. text # NoEntry
    BY NamesAssumption
  <1>2. CASE Answer(h)
    BY <1>2, AnswerIsSound DEF Answer
  <1>3. CASE /\ q.op \in {"update", "delete"}
             /\ Become(h, [q EXCEPT !.step = "writeAddress", !.text = NoEntry, !.late = {}])
    <2> DEFINE r == [q EXCEPT !.step = "writeAddress", !.text = NoEntry, !.late = {}]
    <2>1. /\ r \in Request /\ r.step = "writeAddress" /\ r.op \in {"update", "delete"}
          /\ r.text = NoEntry /\ r.book = NoEntry /\ r.address # NoEntry
          /\ r.items # NoEntry => cart # NoEntry
      BY <1>3 DEF Seeks, Request, Step
    <2>2. Fits(r) /\ CartFits(r) /\ AddressFits(r)
      BY <2>1 DEF Fits, CartFits, AddressFits
    <2> QED
      BY <1>3, <2>1, <2>2 DEF Sound
  <1>4. CASE /\ q.op = "order"
             /\ Become(h, [q EXCEPT !.step = "place", !.text = text,
                           !.late = @ \cup {w \in {"address"} : late}])
    <2> DEFINE r == [q EXCEPT !.step = "place", !.text = text,
                     !.late = @ \cup {w \in {"address"} : late}]
    <2>1. q.late \cup {w \in {"address"} : late} \in SUBSET {"cart", "address"}
      BY DEF Seeks, Request
    <2>2. /\ r \in Request /\ r.step = "place" /\ r.op = "order"
          /\ r.late = q.late \cup {w \in {"address"} : late}
          /\ r.text = text /\ r.book = NoEntry
          /\ r.address = q.address /\ r.items = q.items
      BY <1>4, <2>1 DEF Seeks, Request, Step
    <2>3. Fits(r)
      BY <1>1, <1>4, <2>2 DEF Seeks, Fits
    <2>4. CartFits(r)
      BY <1>4, <2>2 DEF Seeks, CartFits
    <2>5. AddressFits(r)
      BY <2>2 DEF AddressFits
    <2> QED
      BY <1>4, <2>2, <2>3, <2>4, <2>5 DEF Sound
  <1> QED
    BY <1>2, <1>3, <1>4 DEF AfterAddress

LEMMA getShippingAddressByIdKeeps ==
    ASSUME IInv, NEW h \in Handlers, handler[h].step \in {"idle", "lookUpAddress"},
           NEW q, Seeks(q), getShippingAddressById(h, q)
    PROVE  IInv'
  <1> DEFINE a == q.address
  <1>1. UNCHANGED <<sold, cart, made, address, cache, offered, placed>>
    BY DEF getShippingAddressById, cartVars
  <1>2. a \in Addresses
    BY DEF Seeks, Request
  <1>3. CASE /\ a \in InBook
             /\ Become(h, [q EXCEPT !.step = "fillAddress", !.text = address[a]])
    <2> DEFINE r == [q EXCEPT !.step = "fillAddress", !.text = address[a]]
    <2>1. address[a] \in Texts /\ address[a] # NoEntry
      BY <1>3, NamesAssumption DEF InBook
    <2>2. /\ r \in Request /\ r.step = "fillAddress" /\ r.op = q.op
          /\ r.address = a /\ r.text = address[a] /\ r.book = NoEntry
          /\ r.items = q.items /\ r.late = q.late
      BY <2>1 DEF Seeks, Request, Step
    <2>3. Fits(r)
      BY <2>1, <2>2 DEF Seeks, Fits
    <2>4. CartFits(r)
      BY <2>2 DEF Seeks, CartFits
    <2>5. AddressFits(r)
      BY <2>2 DEF AddressFits
    <2> QED
      BY <1>1, <1>3, <2>2, <2>3, <2>4, <2>5, QuietMove DEF Sound
  <1>4. CASE /\ cache[a] # NoEntry
             /\ AfterAddress(h, q, cache[a].value,
                             cache[a].late \/ AddressWriteUnfinished(a))
    <2>1. cache[a].value \in Texts /\ cache[a].late \in BOOLEAN
      BY <1>2, <1>4, ThreeParts DEF CopiesSound, Entry
    <2>2. \/ cache[a].late \/ AddressWriteUnfinished(a)
          \/ cache[a].value = address[a]
      BY <1>2, <1>4, ThreeParts DEF CopiesSound, CachedAddressesAreRight
    <2>3. (cache[a].late \/ AddressWriteUnfinished(a)) \in BOOLEAN
      OBVIOUS
    <2>4. PICK r : Sound(r) /\ r.step # "insertAddress" /\ Become(h, r)
      BY <1>4, <2>1, <2>2, <2>3, AfterAddressIsSound
    <2> QED
      BY <1>1, <2>4, QuietMove
  <1> QED
    BY <1>3, <1>4 DEF getShippingAddressById

LEMMA ReadAddressKeeps ==
    ASSUME IInv, NEW h \in Handlers, NEW a \in Addresses,
           NEW op \in {"getAddress", "update", "delete"}, ReadAddress(h, op, a)
    PROVE  IInv'
  <1> DEFINE q == [Begin(op, "fillAddress") EXCEPT !.address = a]
  <1>1. Seeks(q)
    BY NamesAssumption DEF Begin, Seeks, CartFits, Request, Step, Ops, AddressOps
  <1> QED
    BY <1>1, getShippingAddressByIdKeeps DEF ReadAddress, Arrives, At

\* No copy is left to renew when h goes on from another step.
LEMMA UnfinishedKept ==
    ASSUME HandlersSound, NEW h \in Handlers, NEW q, Become(h, q)
    PROVE  /\ handler[h].step # "forgetCart" =>
                (CartWriteUnfinished => CartWriteUnfinished')
           /\ handler[h].step \notin {"announceAddress", "forgetAddress"} =>
                \A b \in Addresses :
                    AddressWriteUnfinished(b) => AddressWriteUnfinished(b)'
           /\ \A b \in Addresses :
                handler[h].address # b =>
                    (AddressWriteUnfinished(b) => AddressWriteUnfinished(b)')
  <1>1. \A g \in Handlers \ {h} : handler'[g] = handler[g]
    BY DEF Become, HandlersSound
  <1> QED
    BY <1>1 DEF CartWriteUnfinished, AddressWriteUnfinished, At

LEMMA FillAddressKeeps ==
    ASSUME IInv, NEW h \in Handlers, FillAddress(h)
    PROVE  IInv'
  <1> DEFINE q == handler[h]
             late == "address" \in q.late
             c == [value |-> q.text, late |-> late]
  <1>1. /\ q \in Request /\ Fits(q) /\ CartFits(q) /\ AddressFits(q)
        /\ q.step = "fillAddress"
    BY ThreeParts, BusyHoldsRequest DEF FillAddress, At
  <1>2. /\ q.text \in Texts /\ q.address \in Addresses
        /\ late \/ q.text = address[q.address]
    BY <1>1 DEF Fits, AddressFits, Request
  <1>3. Seeks(q)
    BY <1>1 DEF Fits, Seeks
  <1>4. UNCHANGED <<sold, cart, made, address, offered, placed>>
    BY DEF FillAddress, cartVars
  <1>5. /\ DOMAIN cache' = Keys /\ cache'[q.address] = c
        /\ \A k \in Keys \ {q.address} : cache'[k] = cache[k]
    BY <1>2, ThreeParts DEF FillAddress, CopiesSound, Keys
  <1>6. AfterAddress(h, q, q.text, late) /\ late \in BOOLEAN
    BY DEF FillAddress
  <1> HIDE DEF q, late
  <1>7. PICK r : Sound(r) /\ r.step # "insertAddress" /\ Become(h, r)
    BY <1>2, <1>3, <1>6, AfterAddressIsSound
  <1>8. HandlersSound' /\ PendingWithinLimit'
    BY <1>4, <1>7, MoveKeeps
  <1>9. CopiesSound'
    <2>1. c \in Entry(Texts)
      BY <1>2, <1>6 DEF Entry
    <2>2. RowFresh(q.address, c)
      BY <1>2, <2>1 DEF RowFresh
    <2>3. /\ cache'[CartKey] = cache[CartKey] /\ cache'[ListKey] = cache[ListKey]
          /\ \A a \in Addresses : cache'[a] = cache[a] \/ RowFresh(a, cache'[a])
      BY <1>2, <1>5, <2>2, NamesAssumption DEF Keys
    <2>4. /\ CartWriteUnfinished => CartWriteUnfinished'
          /\ \A a \in Addresses : AddressWriteUnfinished(a) => AddressWriteUnfinished(a)'
      BY <1>1, <1>7, ThreeParts, UnfinishedKept DEF q
    <2> QED
      BY <1>4, <1>5, <2>3, <2>4, ThreeParts, CopiesKept
  <1>10. RowsTyped'
    BY <1>4, ThreeParts DEF RowsTyped
  <1> QED
    BY <1>8, <1>9, <1>10 DEF IInv, TypeOK, RowsTyped, HandlersSound, CopiesSound

\* After a write the copy of the row is replaced and that of the list deleted;
\* if a command fails the copy that stays is late.
LEMMA CopiesRenewed ==
    ASSUME IInv, NEW h \in Handlers, Answer(h), handler[h].step # "forgetCart",
           NEW a \in Addresses, handler[h].address = a, NEW c, RowFresh(a, c),
           NEW lost \in SUBSET {a, ListKey},
           cache' = Copies([cache EXCEPT ![a] = c, ![ListKey] = NoEntry], lost),
           UNCHANGED <<sold, cart, made, address, placed, offered>>
    PROVE  IInv'
  <1> DEFINE new == [cache EXCEPT ![a] = c, ![ListKey] = NoEntry]
  <1>1. HandlersSound' /\ PendingWithinLimit'
    BY AnswerIsSound, MoveKeeps DEF Answer
  <1>2. CopiesSound'
    <2>1. /\ lost \in SUBSET Keys /\ a # ListKey /\ CartKey \in Keys \ {a, ListKey}
          /\ \A b \in Addresses : b # ListKey /\ b \in Keys
      BY NamesAssumption DEF Keys
    <2>2. /\ new[a] = c /\ new[ListKey] = NoEntry /\ new[CartKey] = cache[CartKey]
          /\ \A b \in Addresses \ {a} : new[b] = cache[b]
      BY <2>1, ThreeParts DEF CopiesSound, Keys
    <2>3. /\ DOMAIN cache' = Keys
          /\ \A k \in Keys \ lost : cache'[k] = new[k]
          /\ ListKey \in lost => ListFresh(cache'[ListKey])
          /\ \A b \in Addresses \cap lost : RowFresh(b, cache'[b])
      BY <2>1, ThreeParts, LostIsLate
    <2>4. ListFresh(NoEntry)
      BY DEF ListFresh, Entry
    <2>5. /\ cache'[CartKey] = cache[CartKey] /\ ListFresh(cache'[ListKey])
          /\ RowFresh(a, cache'[a])
      BY <2>1, <2>2, <2>3, <2>4 DEF Keys
    <2>6. ASSUME NEW b \in Addresses, b # a
          PROVE  cache'[b] = cache[b]
      BY <2>1, <2>2, <2>3, <2>6
    <2>7. /\ CartWriteUnfinished => CartWriteUnfinished'
          /\ \A b \in Addresses \ {a} :
                AddressWriteUnfinished(b) => AddressWriteUnfinished(b)'
      BY ThreeParts, UnfinishedKept DEF Answer
    <2> QED
      BY <2>3, <2>5, <2>6, <2>7, ThreeParts, CopiesKept
  <1>3. RowsTyped'
    BY ThreeParts DEF RowsTyped
  <1> QED
    BY <1>1, <1>2, <1>3 DEF IInv, TypeOK, RowsTyped, HandlersSound, CopiesSound

LEMMA RenewalsKeep ==
    ASSUME IInv, NEW h \in Handlers, AnnounceAddress(h) \/ ForgetAddress(h)
    PROVE  IInv'
  <1> DEFINE q == handler[h]
             a == q.address
  <1>1. /\ q \in Request /\ Fits(q) /\ AddressFits(q)
        /\ q.step \in {"announceAddress", "forgetAddress"}
    BY ThreeParts, BusyHoldsRequest DEF AnnounceAddress, ForgetAddress, At
  <1>2. a \in Addresses
    BY <1>1 DEF Fits, Request
  <1>3. CASE AnnounceAddress(h)
    <2> DEFINE late == "address" \in q.late
               c == [value |-> q.text, late |-> late]
    <2>1. late \/ q.text = address[a]
      BY <1>1, <1>3 DEF AnnounceAddress, At, Fits, AddressFits, Request
    <2>2. late \in BOOLEAN
      OBVIOUS
    <2>3. q.text \in Texts
      BY <1>1, <1>3 DEF AnnounceAddress, At, Fits, Request
    <2>4. PICK lost \in SUBSET {a, ListKey} :
            cache' = Copies([cache EXCEPT ![a] = c, ![ListKey] = NoEntry], lost)
      BY <1>3 DEF AnnounceAddress
    <2> HIDE DEF late
    <2>5. RowFresh(a, c)
      BY <2>1, <2>2, <2>3 DEF RowFresh, Entry
    <2>6. Answer(h) /\ UNCHANGED <<sold, cart, made, address, placed, offered>>
      BY <1>3 DEF AnnounceAddress, cartVars
    <2> QED
      BY <1>1, <1>2, <2>4, <2>5, <2>6, CopiesRenewed
  <1>4. CASE ForgetAddress(h)
    <2>1. PICK lost \in SUBSET {a, ListKey} :
            cache' = Copies([cache EXCEPT ![a] = NoEntry, ![ListKey] = NoEntry], lost)
      BY <1>4 DEF ForgetAddress
    <2>2. RowFresh(a, NoEntry)
      BY DEF RowFresh, Entry
    <2>3. Answer(h) /\ UNCHANGED <<sold, cart, made, address, placed, offered>>
      BY <1>4 DEF ForgetAddress, cartVars
    <2> QED
      BY <1>1, <1>2, <2>1, <2>2, <2>3, CopiesRenewed
  <1> QED
    BY <1>3, <1>4

\* One more has counted; all others may have too.
LEMMA createShippingAddressKeeps ==
    ASSUME IInv, NEW h \in Handlers, createShippingAddress(h)
    PROVE  IInv'
  <1> DEFINE q == Begin("create", "insertAddress")
  <1>1. UNCHANGED <<sold, cart, made, address, cache, offered, placed>>
    BY DEF createShippingAddress, cartVars
  <1>2. Sound(q) /\ Become(h, q)
    BY BeginIsSound DEF createShippingAddress, Ops, AddressOps
  <1>3. HandlersSound'
    BY <1>1, <1>2, ThreeParts, BecomeKeepsSound
  <1>4. CopiesSound'
    BY <1>1, <1>2, MoveKeepsCopies DEF createShippingAddress, Arrives, At
  <1>5. PendingWithinLimit'
    <2>1. InBook' = InBook /\ Inserting' \subseteq Handlers
      BY <1>1 DEF InBook, Inserting
    <2>2. Cardinality(InBook) < MAX_SHIPPING_ADDRESSES
      BY DEF createShippingAddress, BelowLimit
    <2>3. /\ Cardinality(Inserting') <= Cardinality(Handlers)
          /\ Cardinality(Inserting') \in Nat
      BY <2>1, HandlersAssumption, FS_Subset, FS_CardinalityType
    <2> QED
      BY <2>1, <2>2, <2>3, SetsAreFinite, LimitAssumption DEF PendingWithinLimit
  <1>6. RowsTyped'
    BY <1>1, ThreeParts DEF RowsTyped
  <1> QED
    BY <1>3, <1>4, <1>5, <1>6 DEF IInv, TypeOK, RowsTyped, HandlersSound, CopiesSound

LEMMA InsertAddressKeeps ==
    ASSUME IInv, NEW h \in Handlers, InsertAddress(h)
    PROVE  IInv'
  <1>1. PICK a \in Addresses, text \in Texts :
            /\ address[a] = Unborn
            /\ WriteAddress(h, a, text, [Begin("create", "announceAddress") EXCEPT
                                            !.address = a, !.text = text])
    BY DEF InsertAddress
  <1> DEFINE q == [Begin("create", "announceAddress") EXCEPT !.address = a, !.text = text]
  <1>2. UNCHANGED <<sold, cart, made, cache, placed, offered>>
    BY DEF InsertAddress, cartVars
  <1>3. /\ q \in Request /\ q.step = "announceAddress" /\ q.op = "create"
        /\ q.address = a /\ q.text = text /\ q.items = NoEntry /\ q.book = NoEntry
    BY DEF Begin, Request, Step, Ops, AddressOps
  <1>4. Fits(q) /\ CartFits(q)
    BY <1>3, NamesAssumption DEF Fits, CartFits
  <1>5. /\ HandlersSound' /\ CopiesSound'
        /\ Inserting' = Inserting \ {h} /\ InBook' \subseteq InBook \cup {a}
    <2>1. /\ WriteAddress(h, a, text, q) /\ text \in Texts \cup {Gone}
          /\ handler[h].step = "insertAddress"
      BY <1>1 DEF InsertAddress, At
    <2> HIDE DEF q
    <2> QED
      BY <1>2, <1>3, <1>4, <2>1, AddressWritten
  <1>6. PendingWithinLimit'
    <2>1. h \in Inserting
      BY DEF InsertAddress, Inserting
    <2>2. Cardinality(Inserting') = Cardinality(Inserting) - 1
      BY <1>5, <2>1, SetsAreFinite, FS_RemoveElement
    <2>3. /\ Cardinality(InBook') <= Cardinality(InBook) + 1
          /\ Cardinality(InBook') \in Nat
      <3>1. /\ IsFiniteSet(InBook \cup {a})
            /\ Cardinality(InBook \cup {a}) <= Cardinality(InBook) + 1
        <4>1. /\ IsFiniteSet(InBook \cup {a})
              /\ Cardinality(InBook \cup {a}) =
                    IF a \in InBook THEN Cardinality(InBook) ELSE Cardinality(InBook) + 1
          BY SetsAreFinite, FS_AddElement, Zenon
        <4> QED
          BY <4>1, SetsAreFinite
      <3> QED
        BY <1>5, <3>1, SetsAreFinite, FS_Subset, FS_CardinalityType
    <2> QED
      BY <2>2, <2>3, SetsAreFinite, LimitAssumption, ThreeParts DEF PendingWithinLimit
  <1>7. RowsTyped'
    BY <1>1, <1>2, ThreeParts DEF RowsTyped, WriteAddress, Book
  <1> QED
    BY <1>5, <1>6, <1>7 DEF IInv, TypeOK, RowsTyped, HandlersSound, CopiesSound

LEMMA AddressChangesKeep ==
    ASSUME IInv, NEW h \in Handlers, updateShippingAddress(h) \/ deleteShippingList(h)
    PROVE  IInv'
  <1> DEFINE a == handler[h].address
  <1>1. /\ handler[h] \in Request /\ Fits(handler[h])
        /\ handler[h].step = "writeAddress" /\ handler[h].op \in {"update", "delete"}
        /\ a \in InBook /\ UNCHANGED <<sold, cart, made, cache, placed, offered>>
    BY ThreeParts, BusyHoldsRequest
    DEF updateShippingAddress, deleteShippingList, At, cartVars
  <1>2. a \in Addresses
    BY <1>1 DEF InBook
  <1>3. PICK value \in Texts \cup {Gone}, q \in Request :
            /\ WriteAddress(h, a, value, q)
            /\ q.step \in {"announceAddress", "forgetAddress"} /\ q.address = a
            /\ q.text \in {value, NoEntry} /\ Fits(q) /\ CartFits(q)
    <2>1. CASE updateShippingAddress(h)
      <3>1. PICK text \in Texts :
              WriteAddress(h, a, text, [handler[h] EXCEPT !.step = "announceAddress",
                                          !.text = text])
        BY <2>1 DEF updateShippingAddress
      <3> DEFINE q == [handler[h] EXCEPT !.step = "announceAddress", !.text = text]
      <3>2. /\ q \in Request /\ q.step = "announceAddress" /\ q.address = a
            /\ q.text = text /\ q.op = handler[h].op /\ q.items = handler[h].items
            /\ q.book = handler[h].book /\ q.product = handler[h].product
        BY <1>1 DEF Request, Step
      <3>3. Fits(q) /\ CartFits(q)
        BY <1>1, <3>2, NamesAssumption DEF Fits, CartFits
      <3> QED
        BY <3>1, <3>2, <3>3
    <2>2. CASE deleteShippingList(h)
      <3> DEFINE q == [handler[h] EXCEPT !.step = "forgetAddress"]
      <3>1. /\ q \in Request /\ q.step = "forgetAddress" /\ q.address = a
            /\ q.text = handler[h].text /\ q.op = handler[h].op
            /\ q.items = handler[h].items
            /\ q.book = handler[h].book /\ q.product = handler[h].product
        BY <1>1 DEF Request, Step
      <3>2. Fits(q) /\ CartFits(q) /\ q.text = NoEntry
        BY <1>1, <3>1 DEF Fits, CartFits
      <3> QED
        BY <2>2, <3>1, <3>2 DEF deleteShippingList
    <2> QED
      BY <2>1, <2>2
  <1>4. /\ HandlersSound' /\ CopiesSound'
        /\ Inserting' = Inserting \ {h} /\ InBook' \subseteq InBook \cup {a}
    BY <1>1, <1>2, <1>3, AddressWritten
  <1>5. PendingWithinLimit'
    BY <1>1, <1>4, ThreeParts, PendingKept
  <1>6. RowsTyped'
    BY <1>1, <1>2, <1>3, ThreeParts DEF RowsTyped, WriteAddress, Book
  <1> QED
    BY <1>4, <1>5, <1>6 DEF IInv, TypeOK, RowsTyped, HandlersSound, CopiesSound

LEMMA FillListKeeps ==
    ASSUME IInv, NEW h \in Handlers, FillList(h)
    PROVE  IInv'
  <1> DEFINE q == handler[h]
             late == "address" \in q.late
             c == [value |-> q.book, late |-> late]
  <1>1. /\ q \in Request /\ q.step = "fillList" /\ q.book \in Listing
        /\ late \/ q.book = Listed
    <2>1. q \in Request /\ Fits(q) /\ AddressFits(q) /\ q.step = "fillList"
      BY ThreeParts, BusyHoldsRequest DEF FillList, At
    <2> QED
      BY <2>1 DEF Fits, AddressFits, Request
  <1>2. Answer(h) /\ UNCHANGED <<sold, cart, made, address, placed, offered>>
    BY DEF FillList, cartVars
  <1>3. HandlersSound' /\ PendingWithinLimit'
    BY <1>2, AnswerIsSound, MoveKeeps DEF Answer
  <1>4. CopiesSound'
    <2>1. /\ DOMAIN cache' = Keys /\ cache'[ListKey] = c
          /\ cache'[CartKey] = cache[CartKey]
          /\ \A a \in Addresses : cache'[a] = cache[a]
      BY ThreeParts, NamesAssumption DEF FillList, CopiesSound, Keys
    <2>2. late \in BOOLEAN
      OBVIOUS
    <2>3. ListFresh(c)
      <3> HIDE DEF late, q
      <3> QED
        BY <1>1, <2>2 DEF ListFresh, Entry
    <2>4. /\ CartWriteUnfinished => CartWriteUnfinished'
          /\ \A a \in Addresses : AddressWriteUnfinished(a) => AddressWriteUnfinished(a)'
      BY <1>1, <1>2, ThreeParts, UnfinishedKept DEF Answer
    <2> HIDE DEF c
    <2> QED
      BY <1>2, <2>1, <2>3, <2>4, ThreeParts, CopiesKept
  <1>5. RowsTyped'
    BY <1>2, ThreeParts DEF RowsTyped
  <1> QED
    BY <1>3, <1>4, <1>5 DEF IInv, TypeOK, RowsTyped, HandlersSound, CopiesSound

LEMMA AddressesNextKeeps ==
    ASSUME IInv, AddressesNext
    PROVE  IInv'
  <1>1. ASSUME NEW h \in Handlers, AddressIsGone(h)
        PROVE  IInv'
    BY <1>1, AnswerKeeps DEF AddressIsGone, At, cartVars
  <1>2. ASSUME NEW h \in Handlers, getMyShippingAddresses(h)
        PROVE  IInv'
    <2> DEFINE q == [Begin("list", "fillList") EXCEPT !.book = Listed]
    <2>1. Listed \in Listing /\ Listed # NoEntry
      BY NamesAssumption DEF Listed, Listing, InBook
    <2>2. /\ q \in Request /\ q.step = "fillList" /\ q.op = "list" /\ q.book = Listed
          /\ q.items = NoEntry /\ q.text = NoEntry
      BY <2>1 DEF Begin, Request, Step, Ops, AddressOps
    <2>3. Sound(q)
      BY <2>1, <2>2 DEF Sound, Fits, CartFits, AddressFits
    <2> QED
      BY <1>2, <2>2, <2>3, QuietMove DEF getMyShippingAddresses, Arrives, At, cartVars
  <1> QED
    BY <1>1, <1>2, createShippingAddressKeeps, InsertAddressKeeps, ReadAddressKeeps,
       FillAddressKeeps, AddressChangesKeep, RenewalsKeep, FillListKeeps
    DEF AddressesNext

-----------------------------------------------------------------------------
(* Orders, and what may happen at any time.                                *)

LEMMA OrdersNextKeeps ==
    ASSUME IInv, OrdersNext
    PROVE  IInv'
  <1>1. ASSUME NEW h \in Handlers, NEW a \in Addresses, createOrder(h, a)
        PROVE  IInv'
    <2> DEFINE q == [Begin("order", "fillCart") EXCEPT !.address = a]
    <2>1. /\ q \in Request /\ q.step = "fillCart" /\ q.op = "order"
          /\ q.address # NoEntry
          /\ q.items = NoEntry /\ q.text = NoEntry /\ q.book = NoEntry
      BY NamesAssumption DEF Begin, Request, Step, Ops
    <2> QED
      BY <1>1, <2>1, getMyCartKeeps DEF createOrder, Arrives
  <1>2. ASSUME NEW h \in Handlers, LookUpAddress(h)
        PROVE  IInv'
    <2>1. /\ handler[h] \in Request /\ Fits(handler[h]) /\ CartFits(handler[h])
          /\ handler[h].step = "lookUpAddress"
      BY <1>2, ThreeParts, BusyHoldsRequest DEF LookUpAddress, At
    <2>2. Seeks(handler[h])
      BY <2>1 DEF Fits, Seeks
    <2> QED
      BY <1>2, <2>1, <2>2, getShippingAddressByIdKeeps DEF LookUpAddress
  <1>3. ASSUME NEW h \in Handlers, PlaceOrder(h)
        PROVE  IInv'
    <2>1. handler[h] \in Request /\ Fits(handler[h]) /\ handler[h].step = "place"
      BY <1>3, ThreeParts, BusyHoldsRequest DEF PlaceOrder, At
    <2>2. placed' \in [items : Contents, text : Texts]
      BY <1>3, <2>1 DEF PlaceOrder, Fits, Request
    <2> QED
      BY <1>3, <2>1, <2>2, AnswerKeeps DEF PlaceOrder, cartVars
  <1>4. ASSUME NEW h \in Handlers, OrderRefused(h)
        PROVE  IInv'
    BY <1>4, AnswerKeeps DEF OrderRefused, At, cartVars
  <1> QED
    BY <1>1, <1>2, <1>3, <1>4 DEF OrdersNext

\* A request that dies leaves late the copies it had still to renew.
LEMMA HandlerDiesKeeps ==
    ASSUME IInv, NEW h \in Handlers, HandlerDies(h)
    PROVE  IInv'
  <1> DEFINE lost == Unreached(h)
  <1>1. handler[h] \in Request /\ Fits(handler[h])
    BY ThreeParts, BusyHoldsRequest DEF HandlerDies, At
  <1>2. /\ Answer(h) /\ cache' = Copies(cache, lost)
        /\ UNCHANGED <<sold, cart, made, address, placed, offered>>
    BY DEF HandlerDies, cartVars
  <1>3. HandlersSound' /\ PendingWithinLimit'
    BY <1>2, AnswerIsSound, MoveKeeps DEF Answer
  <1>4. CopiesSound'
    <2>1. /\ handler[h].step = "forgetCart" => CartKey \in lost
          /\ handler[h].step \in {"announceAddress", "forgetAddress"} =>
                handler[h].address \in Addresses \cap lost /\ ListKey \in lost
          /\ lost \in SUBSET Keys
      BY <1>1 DEF Unreached, At, Keys, Fits, Request
    <2> HIDE DEF lost
    <2>2. /\ DOMAIN cache' = Keys
          /\ \A k \in Keys \ lost : cache'[k] = cache[k]
          /\ CartKey \in lost => CartFresh(cache'[CartKey])
          /\ ListKey \in lost => ListFresh(cache'[ListKey])
          /\ \A a \in Addresses \cap lost : RowFresh(a, cache'[a])
      BY <1>2, <2>1, ThreeParts, LostIsLate
    <2>3. /\ CartKey \notin lost => (CartWriteUnfinished => CartWriteUnfinished')
          /\ \A a \in Addresses :
              \/ ~AddressWriteUnfinished(a) \/ AddressWriteUnfinished(a)'
              \/ a \in lost /\ ListKey \in lost
      BY <1>2, <2>1, ThreeParts, UnfinishedKept DEF Answer
    <2>4. /\ CartKey \in Keys /\ ListKey \in Keys
          /\ \A a \in Addresses : a \in Keys
      BY DEF Keys
    <2> QED
      BY <1>2, <2>2, <2>3, <2>4, ThreeParts, CopiesKept
  <1>5. RowsTyped'
    BY <1>2, ThreeParts DEF RowsTyped
  <1> QED
    BY <1>3, <1>4, <1>5 DEF IInv, TypeOK, RowsTyped, HandlersSound, CopiesSound

LEMMA ExpireKeeps ==
    ASSUME IInv, NEW k \in Keys, Expire(k)
    PROVE  IInv'
  <1>1. UNCHANGED <<sold, cart, made, address, handler, placed, offered>>
    BY DEF Expire, cartVars
  <1>2. HandlersSound' /\ PendingWithinLimit' /\ RowsTyped'
    BY <1>1, ThreeParts
    DEF HandlersSound, FieldsFit, Fits, CartsHeld, HoldsCart, SameCart, AddressesHeld,
        At, Listed, InBook, Inserting, PendingWithinLimit, RowsTyped
  <1>3. CopiesSound'
    <2>1. /\ DOMAIN cache' = Keys
          /\ \A j \in Keys : cache'[j] \in {cache[j], NoEntry}
          /\ CartKey \in Keys /\ ListKey \in Keys
          /\ \A a \in Addresses : a \in Keys
      BY ThreeParts DEF Expire, CopiesSound, Keys
    <2>2. /\ CartFresh(NoEntry) /\ ListFresh(NoEntry)
          /\ \A a \in Addresses : RowFresh(a, NoEntry)
      BY DEF CartFresh, ListFresh, RowFresh, Entry
    <2>3. /\ CartWriteUnfinished => CartWriteUnfinished'
          /\ \A a \in Addresses : AddressWriteUnfinished(a) => AddressWriteUnfinished(a)'
      BY <1>1 DEF CartWriteUnfinished, AddressWriteUnfinished, At
    <2> QED
      BY <1>1, <2>1, <2>2, <2>3, ThreeParts, CopiesKept
  <1> QED
    BY <1>2, <1>3 DEF IInv, TypeOK, RowsTyped, HandlersSound, CopiesSound

-----------------------------------------------------------------------------
(* The theorems.                                                           *)

LEMMA InvariantInit == Init => IInv
  <1> SUFFICES ASSUME Init PROVE IInv
    OBVIOUS
  <1>1. PICK s \in Scenarios : cart = s.cart /\ address = s.addresses /\ offered = s.offered
    BY DEF Init
  <1>2. /\ cart \in Contents \cup {NoEntry} /\ address \in Book /\ offered \subseteq Ops
        /\ Cardinality({a \in Addresses : s.addresses[a] \in Texts})
                <= MAX_SHIPPING_ADDRESSES
    BY <1>1, ScenariosAssumption
  <1>3. RowsTyped
    BY <1>2, BoundsAssumption DEF Init, RowsTyped
  <1>4. HandlersSound
    BY DEF Init, HandlersSound, FieldsFit, CartsHeld, HoldsCart, AddressesHeld, At, Idle
  <1>5. CopiesSound
    BY DEF Init, CopiesSound, Keys, Entry, NoCartYet, CachedCartIsRight,
           CachedAddressesAreRight
  <1>6. PendingWithinLimit
    <2>1. Inserting = {}
      BY DEF Init, Inserting, At, Idle
    <2>2. InBook = {a \in Addresses : s.addresses[a] \in Texts}
      BY <1>1 DEF InBook
    <2> QED
      BY <1>2, <2>1, <2>2, SetsAreFinite, FS_EmptySet, LimitAssumption
      DEF PendingWithinLimit
  <1> QED
    BY <1>3, <1>4, <1>5, <1>6, ThreeParts

LEMMA InvariantNext == IInv /\ [Next]_vars => IInv'
  <1> SUFFICES ASSUME IInv, [Next]_vars PROVE IInv'
    OBVIOUS
  <1>1. CASE UNCHANGED vars
    BY <1>1
    DEF vars, IInv, TypeOK, FieldsFit, Fits, NoCartYet, CartsHeld, HoldsCart, SameCart,
        CachedCartIsRight, CartWriteUnfinished, AddressesHeld, CachedAddressesAreRight,
        AddressWriteUnfinished, Listed, InBook, Inserting, PendingWithinLimit, At
  <1> QED
    BY <1>1, CartsNextKeeps, AddressesNextKeeps, OrdersNextKeeps, HandlerDiesKeeps,
       ExpireKeeps
    DEF Next

\* The rows, the copies and what the requests hold agree as IInv says, in
\* every state of every number of requests.
THEOREM InvariantHolds == Spec => []IInv
  BY InvariantInit, InvariantNext, PTL DEF Spec

\* The cached cart of a user (cart.service.ts:163) agrees with its rows, unless
\* a request has still to delete the key, or the copy is late.
THEOREM CartCopyIsRight == Spec => []CachedCartIsRight
  <1>1. IInv => CachedCartIsRight
    BY DEF IInv
  <1> QED
    BY <1>1, InvariantHolds, PTL

\* So do the cached addresses, one by one and in the list
\* (shipping-address.service.ts:118, :61).
THEOREM AddressCopiesAreRight == Spec => []CachedAddressesAreRight
  <1>1. IInv => CachedAddressesAreRight
    BY DEF IInv
  <1> QED
    BY <1>1, InvariantHolds, PTL

\* An order (orders.service.ts:24) is placed with the cart and the address as
\* they are, unless a write overtook it or the copy it took.
THEOREM OrdersTakeTheCart == Spec => []OrderTakesTheCart
  <1>1. IInv => OrderTakesTheCart
    <2> SUFFICES ASSUME IInv, NEW h \in Handlers, At(h, "place")
                 PROVE  /\ "cart" \notin handler[h].late => SameCart(handler[h].items, cart)
                        /\ "address" \notin handler[h].late =>
                            handler[h].text = address[handler[h].address]
      BY DEF OrderTakesTheCart
    <2>1. /\ handler[h] \in Request /\ Fits(handler[h]) /\ handler[h].step = "place"
          /\ CartFits(handler[h]) /\ AddressFits(handler[h])
      BY ThreeParts, BusyHoldsRequest DEF At
    <2> QED
      BY <2>1 DEF Fits, CartFits, AddressFits
  <1> QED
    BY <1>1, InvariantHolds, PTL

\* A user exceeds MAX_SHIPPING_ADDRESSES (shipping-address.service.ts:31) by no
\* more than the other requests under way.
THEOREM LimitHoldsBut == Spec => []AddressesWithinLimit
  <1>1. IInv => AddressesWithinLimit
    <2> SUFFICES ASSUME IInv PROVE AddressesWithinLimit
      OBVIOUS
    <2>1. PendingWithinLimit
      BY ThreeParts
    <2> QED
      BY <2>1, SetsAreFinite, LimitAssumption DEF PendingWithinLimit, AddressesWithinLimit
  <1> QED
    BY <1>1, InvariantHolds, PTL

=============================================================================
