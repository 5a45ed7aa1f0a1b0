--------------------------- MODULE CatalogProofs ----------------------------
(***************************************************************************)
(* Theorems about Catalog, for any number of products, categories, admins  *)
(* and files.                                                              *)
(***************************************************************************)
EXTENDS Catalog, FiniteSetTheorems, TLAPS

-----------------------------------------------------------------------------
(* The first part of the invariant: rows, requests and copies.             *)

FilesTyped == file \in [Files -> {"free", "stored", "deleted"}] /\ spoiled \subseteq Files
RowsFit == row \in Table /\ ImagesWithinLimit

\* What may be under the key k, and when it is right.
FitsKey(k, c) ==
    /\ k \in Items => c \in Entry(Item) \cup {NoEntry}
    /\ k \in Lists => c \in Entry(Listing) \cup {NoEntry}
Right(k, value) ==
    /\ k \in Items => value = row[k]
    /\ k \in Lists => value = Listed(k)
Agrees(k, c) == FitsKey(k, c) /\ (c # NoEntry => c.late \/ Right(k, c.value))

\* A request has still to write or delete k.
Owed(k) ==
    \E a \in Admins : admin[a].step \in Committed /\ k \in KeysOf(admin[a].item)

CopiesSound ==
    /\ DOMAIN cache = Keys
    /\ \A k \in Keys : FitsKey(k, cache[k]) /\ (Agrees(k, cache[k]) \/ Owed(k))

\* SeenIsCurrent and WritesFit, of one request.
Current(q) ==
    /\ q.step \in Holding /\ ~q.late => q.seen = row[q.item]
    /\ q.step = "fillList" /\ ~q.late => q.seen = Listed(q.list)
Fits(q) ==
    /\ q.step \in {"create", "created"} =>
        /\ Cardinality(q.images) \in 1 .. MAX_IMAGES
        /\ q.cover \notin q.images
    /\ q.step = "created" => q.attempt < MAX_RETRIES /\ q.made # {}
    /\ q.step = "commit" =>
        IF q.op = "images" THEN Cardinality(q.keep \cup q.new) \in 1 .. MAX_IMAGES
        ELSE \E f \in Files : q.keep \cup q.new = {f}
Sound(q) == q \in AdminState /\ Current(q) /\ Fits(q)

AdminsSound ==
    /\ admin \in [Admins -> AdminState]
    /\ \A a \in Admins : Sound(admin[a])

Base == FilesTyped /\ RowsFit /\ AdminsSound /\ CopiesSound

LEMMA KeyKinds ==
    /\ Keys = Items \cup Lists
    /\ Items \cap Lists = {}
    /\ \A x \in Items : ListOf(x) \in Lists /\ KeysOf(x) = {x, ListOf(x)}
    /\ \A x \in Items : KeysOf(x) \subseteq Keys
  BY ItemsAssumption DEF Keys, KeysOf, ListOf, Lists

\* The steps a request can be at, and its fields at each of them.
LEMMA StepFields ==
    ASSUME NEW q \in AdminState
    PROVE  /\ q.step \in {"idle", "create", "created", "cleanup", "fill", "fillList",
                          "commit", "discard", "announce", "forget"}
           /\ q.step \in Holding =>
                q.item \in Items /\ q.seen \in Item /\ q.late \in BOOLEAN
           /\ q.step = "fillList" =>
                q.list \in Lists /\ q.seen \in Listing /\ q.late \in BOOLEAN
           /\ q.step \in Committed => q.item \in Items
           /\ q.step \in {"create", "created"} =>
                /\ q.cover \in Files /\ q.images \subseteq Files
                /\ q.attempt \in 0 .. MAX_RETRIES /\ q.made \subseteq Products
           /\ q.step = "created" => q.item \in Products
           /\ q.step = "cleanup" => q.files \subseteq Files
           /\ q.step = "fill" => q.op \in Ops
           /\ q.step \in {"commit", "discard"} =>
                q.item \in Items /\ q.op \in Ops /\ q.removed \subseteq Files
           /\ q.step \in {"commit", "discard", "announce"} => q.new \subseteq Files
           /\ q.step = "commit" => q.keep \subseteq Files
           /\ q.step = "forget" => q.item \in Products
           /\ q.step = "idle" => q = Idle
  <1>1. CASE q = Idle
    BY <1>1 DEF Idle, Holding, Committed
  <1>2. CASE q \in [step : {"create"}, cover : Files, images : SUBSET Files,
                    attempt : 0 .. MAX_RETRIES, made : SUBSET Products]
    BY <1>2 DEF Holding, Committed
  <1>3. CASE q \in [step : {"created"}, item : Products, seen : Item, cover : Files,
                    images : SUBSET Files, attempt : 0 .. MAX_RETRIES,
                    made : SUBSET Products, late : BOOLEAN]
    BY <1>3 DEF Holding, Committed, Items
  <1>4. CASE q \in [step : {"cleanup"}, files : SUBSET Files]
    BY <1>4 DEF Holding, Committed
  <1>5. CASE q \in [step : {"fill"}, item : Items, op : Ops, seen : Item, late : BOOLEAN]
    BY <1>5 DEF Holding, Committed
  <1>6. CASE q \in [step : {"fillList"}, list : Lists, seen : Listing, late : BOOLEAN]
    BY <1>6 DEF Holding, Committed
  <1>7. CASE q \in [step : {"commit"}, item : Items, op : Ops, keep : SUBSET Files,
                    new : SUBSET Files, removed : SUBSET Files]
    BY <1>7 DEF Holding, Committed
  <1>8. CASE q \in [step : {"discard"}, item : Items, op : Ops, seen : Item,
                    new : SUBSET Files, removed : SUBSET Files, late : BOOLEAN]
    BY <1>8 DEF Holding, Committed
  <1>9. CASE q \in [step : {"announce"}, item : Items, seen : Item,
                    new : SUBSET Files, late : BOOLEAN]
    BY <1>9 DEF Holding, Committed
  <1>10. CASE q \in [step : {"forget"}, item : Products]
    BY <1>10 DEF Holding, Committed, Items
  <1> QED
    BY <1>1, <1>2, <1>3, <1>4, <1>5, <1>6, <1>7, <1>8, <1>9, <1>10 DEF AdminState

\* A holder that was overtaken is as it was, and late.
LEMMA LateFields ==
    ASSUME NEW q \in AdminState, q.step \in Holding \cup {"fillList"}
    PROVE  LET s == [q EXCEPT !.late = TRUE]
           IN  /\ s \in AdminState /\ s.late
               /\ s.step = q.step /\ s.seen = q.seen
               /\ q.step \in Holding => s.item = q.item
               /\ q.step = "created" => /\ s.cover = q.cover /\ s.images = q.images
                                        /\ s.attempt = q.attempt /\ s.made = q.made
               /\ q.step = "fillList" => s.list = q.list
               /\ q.step = "fill" => s.op = q.op
               /\ q.step = "discard" => s.op = q.op /\ s.removed = q.removed
               /\ q.step \in {"discard", "announce"} => s.new = q.new
  <1> DEFINE s == [q EXCEPT !.late = TRUE]
  <1>1. CASE q.step = "created"
    <2>1. q \in [step : {"created"}, item : Products, seen : Item, cover : Files,
                 images : SUBSET Files, attempt : 0 .. MAX_RETRIES,
                 made : SUBSET Products, late : BOOLEAN]
      BY <1>1 DEF AdminState, Idle
    <2> QED
      BY <2>1, <1>1 DEF AdminState, Holding
  <1>2. CASE q.step = "fill"
    <2>1. q \in [step : {"fill"}, item : Items, op : Ops, seen : Item, late : BOOLEAN]
      BY <1>2 DEF AdminState, Idle
    <2> QED
      BY <2>1, <1>2 DEF AdminState, Holding
  <1>3. CASE q.step = "fillList"
    <2>1. q \in [step : {"fillList"}, list : Lists, seen : Listing, late : BOOLEAN]
      BY <1>3 DEF AdminState, Idle
    <2> QED
      BY <2>1, <1>3 DEF AdminState, Holding
  <1>4. CASE q.step = "discard"
    <2>1. q \in [step : {"discard"}, item : Items, op : Ops, seen : Item,
                 new : SUBSET Files, removed : SUBSET Files, late : BOOLEAN]
      BY <1>4 DEF AdminState, Idle
    <2> QED
      BY <2>1, <1>4 DEF AdminState, Holding
  <1>5. CASE q.step = "announce"
    <2>1. q \in [step : {"announce"}, item : Items, seen : Item,
                 new : SUBSET Files, late : BOOLEAN]
      BY <1>5 DEF AdminState, Idle
    <2> QED
      BY <2>1, <1>5 DEF AdminState, Holding
  <1> QED
    BY <1>1, <1>2, <1>3, <1>4, <1>5 DEF Holding

LEMMA NothingAgrees == \A k : Agrees(k, NoEntry)
  BY KeyKinds DEF Agrees, FitsKey

LEMMA IdleIsSound == Sound(Idle)
  BY DEF Sound, AdminState, Idle, Current, Fits, Holding

-----------------------------------------------------------------------------
(* Steps that write no row.                                                *)

LEMMA BecomeKeepsSound ==
    ASSUME AdminsSound, NEW a \in Admins, NEW q, Sound(q), Become(a, q), UNCHANGED row
    PROVE  AdminsSound'
  <1>1. ASSUME NEW b \in Admins
        PROVE  Sound(admin[b])'
    <2>1. Sound(admin'[b])
      BY DEF Become, AdminsSound
    <2>2. \A l : Listed(l)' = Listed(l)
      BY DEF Listed, Live
    <2> QED
      BY <2>1, <2>2 DEF Sound, Current, Fits
  <1>2. admin' \in [Admins -> AdminState]
    BY DEF Become, AdminsSound, Sound
  <1> QED
    BY <1>1, <1>2 DEF AdminsSound

\* Every copy is kept or right, and right where a request that owed it is done.
LEMMA CopiesKept ==
    ASSUME CopiesSound, UNCHANGED row, DOMAIN cache' = Keys,
           \A k \in Keys :
              \/ Agrees(k, cache'[k])
              \/ cache'[k] = cache[k] /\ (Owed(k) => Owed(k)')
    PROVE  CopiesSound'
  <1>1. \A l : Listed(l)' = Listed(l)
    BY DEF Listed, Live
  <1> QED
    BY <1>1 DEF CopiesSound, Agrees, FitsKey, Right

LEMMA OwedKept ==
    ASSUME AdminsSound, NEW a \in Admins, NEW q, Become(a, q)
    PROVE  /\ admin[a].step \notin Committed => \A k \in Keys : Owed(k) => Owed(k)'
           /\ \A k \in Keys \ KeysOf(admin[a].item) : Owed(k) => Owed(k)'
  <1>1. \A b \in Admins \ {a} : admin'[b] = admin[b]
    BY DEF Become, AdminsSound
  <1> QED
    BY <1>1 DEF Owed

\* A step that touches neither rows nor copies.
LEMMA QuietMove ==
    ASSUME Base, NEW a \in Admins, NEW q, Sound(q), Become(a, q),
           \/ admin[a].step \notin Committed
           \/ q.step \in Committed /\ q.item = admin[a].item,
           UNCHANGED <<row, cache>>, FilesTyped'
    PROVE  Base'
  <1>1. AdminsSound'
    BY BecomeKeepsSound DEF Base
  <1>2. \A k \in Keys : Owed(k) => Owed(k)'
    <2>1. CASE admin[a].step \notin Committed
      BY <2>1, OwedKept DEF Base
    <2>2. CASE q.step \in Committed /\ q.item = admin[a].item
      <3>1. admin'[a] = q
        BY DEF Become, Base, AdminsSound
      <3>2. \A k \in KeysOf(admin[a].item) : Owed(k)'
        BY <2>2, <3>1 DEF Owed
      <3> QED
        BY <3>2, OwedKept DEF Base
    <2> QED
      BY <2>1, <2>2
  <1>3. CopiesSound'
    BY <1>2, CopiesKept DEF Base, CopiesSound
  <1>4. RowsFit'
    BY DEF Base, RowsFit, ImagesWithinLimit, Live
  <1> QED
    BY <1>1, <1>3, <1>4 DEF Base

\* A step that sets or deletes keys: what it owed is right after it.
LEMMA CacheMove ==
    ASSUME Base, NEW a \in Admins, NEW q, Sound(q), Become(a, q),
           UNCHANGED row, FilesTyped', DOMAIN cache' = Keys,
           \A k \in Keys :
              \/ Agrees(k, cache'[k])
              \/ /\ cache'[k] = cache[k]
                 /\ admin[a].step \in Committed => k \notin KeysOf(admin[a].item)
    PROVE  Base'
  <1>1. AdminsSound'
    BY BecomeKeepsSound DEF Base
  <1>2. CopiesSound'
    <2>1. \A k \in Keys :
            (admin[a].step \in Committed => k \notin KeysOf(admin[a].item))
                => (Owed(k) => Owed(k)')
      BY OwedKept DEF Base
    <2> QED
      BY <2>1, CopiesKept DEF Base
  <1>3. RowsFit'
    BY DEF Base, RowsFit, ImagesWithinLimit, Live
  <1> QED
    BY <1>1, <1>2, <1>3 DEF Base

\* A copy that a command failed to replace is known to be late.
LEMMA OutdatedIsLate ==
    ASSUME CopiesSound, NEW keys \in SUBSET Keys
    PROVE  /\ \A k \in keys : Agrees(k, Outdated(keys)[k])
           /\ \A k \in Keys \ keys : Outdated(keys)[k] = cache[k]
           /\ DOMAIN Outdated(keys) = Keys
  <1>1. ASSUME NEW k \in keys
        PROVE  Agrees(k, Outdated(keys)[k])
    <2>1. CASE cache[k] = NoEntry
      BY <2>1, NothingAgrees DEF Outdated
    <2>2. CASE cache[k] # NoEntry
      <3>1. Outdated(keys)[k] = [cache[k] EXCEPT !.late = TRUE] /\ FitsKey(k, cache[k])
        BY <2>2 DEF CopiesSound, Outdated
      <3>2. ASSUME NEW S, cache[k] \in Entry(S)
            PROVE  Outdated(keys)[k] \in Entry(S) /\ Outdated(keys)[k].late
        BY <3>1, <3>2 DEF Entry
      <3> QED
        BY <2>2, <3>1, <3>2, KeyKinds DEF Agrees, FitsKey
    <2> QED
      BY <2>1, <2>2
  <1>2. /\ \A k \in Keys \ keys : Outdated(keys)[k] = cache[k]
        /\ DOMAIN Outdated(keys) = Keys
    BY DEF Outdated
  <1> QED
    BY <1>1, <1>2

\* What a request sets the key of its row, or of its list, to.
LEMMA FilledAgrees ==
    ASSUME Base, NEW a \in Admins
    PROVE  /\ admin[a].step \in Holding => Agrees(admin[a].item, Filled(a))
           /\ At(a, "fillList") => Agrees(admin[a].list, Filled(a))
  <1>1. Sound(admin[a])
    BY DEF Base, AdminsSound
  <1>2. ASSUME admin[a].step \in Holding
        PROVE  Agrees(admin[a].item, Filled(a))
    <2>1. admin[a].item \in Items /\ admin[a].seen \in Item /\ admin[a].late \in BOOLEAN
      BY <1>1, <1>2, StepFields DEF Sound
    <2>2. Filled(a) \in Entry(Item)
      BY <2>1 DEF Filled, Entry
    <2> QED
      BY <1>1, <1>2, <2>1, <2>2, KeyKinds DEF Agrees, FitsKey, Right, Filled, Sound, Current
  <1>3. ASSUME At(a, "fillList")
        PROVE  Agrees(admin[a].list, Filled(a))
    <2>1. admin[a].list \in Lists /\ admin[a].seen \in Listing /\ admin[a].late \in BOOLEAN
      BY <1>1, <1>3, StepFields DEF Sound, At
    <2>2. Filled(a) \in Entry(Listing)
      BY <2>1 DEF Filled, Entry
    <2> QED
      BY <1>1, <1>3, <2>1, <2>2, KeyKinds
      DEF Agrees, FitsKey, Right, Filled, Sound, Current, At
  <1> QED
    BY <1>2, <1>3

\* The commands after a write, of which some may be lost.
LEMMA AnnouncedAgrees ==
    ASSUME Base, NEW a \in Admins, admin[a].step \in Holding,
           NEW lost \in SUBSET KeysOf(admin[a].item),
           cache' = PartlyAnnounced(a, lost)
    PROVE  /\ DOMAIN cache' = Keys
           /\ \A k \in KeysOf(admin[a].item) : Agrees(k, cache'[k])
           /\ \A k \in Keys \ KeysOf(admin[a].item) : cache'[k] = cache[k]
  <1>1. admin[a].item \in Items
    BY StepFields DEF Base, AdminsSound, Sound
  <1>2. lost \subseteq Keys /\ KeysOf(admin[a].item) \subseteq Keys
    BY <1>1, KeyKinds
  <1>3. DOMAIN cache = Keys /\ CopiesSound
    BY DEF Base, CopiesSound
  <1>4. DOMAIN cache' = Keys /\ \A k \in Keys \ KeysOf(admin[a].item) : cache'[k] = cache[k]
    BY <1>1, <1>2, <1>3, KeyKinds DEF PartlyAnnounced, Announced
  <1>5. ASSUME NEW k \in KeysOf(admin[a].item)
        PROVE  Agrees(k, cache'[k])
    <2>1. CASE k \in lost
      <3>1. cache'[k] = Outdated(lost)[k]
        BY <1>2, <2>1 DEF PartlyAnnounced
      <3> QED
        BY <1>2, <1>3, <2>1, <3>1, OutdatedIsLate
    <2>2. CASE k \notin lost
      <3>1. cache'[k] = Announced(a)[k]
        BY <1>2, <1>5, <2>2 DEF PartlyAnnounced
      <3>2. CASE k = admin[a].item
        <4>1. Announced(a)[k] = Filled(a)
          BY <1>1, <1>2, <1>3, <3>2, KeyKinds DEF Announced
        <4> QED
          BY <3>1, <3>2, <4>1, FilledAgrees
      <3>3. CASE k = ListOf(admin[a].item)
        <4>1. Announced(a)[k] = NoEntry
          BY <1>1, <1>2, <1>3, <3>3, KeyKinds DEF Announced
        <4> QED
          BY <3>1, <4>1, NothingAgrees
      <3> QED
        BY <1>1, <1>5, <3>2, <3>3, KeyKinds
    <2> QED
      BY <2>1, <2>2
  <1> QED
    BY <1>4, <1>5

\* Announced is the same with nothing lost.
LEMMA NothingLost ==
    ASSUME Base, NEW a \in Admins, cache' = Announced(a)
    PROVE  cache' = PartlyAnnounced(a, {})
  <1>1. Announced(a) = [k \in Keys |-> Announced(a)[k]]
    BY DEF Announced, Base, CopiesSound
  <1> QED
    BY <1>1 DEF PartlyAnnounced

-----------------------------------------------------------------------------
(* Steps that write a row.                                                 *)

\* A request a commits a write of x: who holds x or its list is late, and a
\* owes the keys of x.
LEMMA CommitKeeps ==
    ASSUME Base, NEW a \in Admins, admin[a].step \notin Committed, NEW x \in Items,
           NEW value \in Item \cup {Gone},
           value \in Item /\ x \in Products => Cardinality(value.images) \in 1 .. MAX_IMAGES,
           NEW q \in AdminState, Fits(q), q.step \in Committed, q.item = x,
           q.step \in Holding => q.seen = value,
           row' = [row EXCEPT ![x] = value], Commit(a, x, q), cache' = cache, FilesTyped'
    PROVE  Base'
  <1>1. /\ row \in Table /\ AdminsSound /\ CopiesSound
        /\ row' \in Table /\ row'[x] = value
        /\ \A y \in Items \ {x} : row'[y] = row[y]
    BY DEF Base, RowsFit, Table, Value
  <1>2. \A l \in Lists \ {ListOf(x)} : Listed(l)' = Listed(l)
    <2>1. ASSUME NEW l \in Lists \ {ListOf(x)}, NEW y \in Items
          PROVE  (IF ListOf(y) = l /\ Live(y) THEN row[y] ELSE Absent)'
                    = (IF ListOf(y) = l /\ Live(y) THEN row[y] ELSE Absent)
      BY <1>1, <2>1 DEF Live, ListOf
    <2>2. ASSUME NEW l \in Lists \ {ListOf(x)}
          PROVE  Listed(l)' = Listed(l)
      BY <2>1, <2>2 DEF Listed
    <2> QED
      BY <2>2
  <1>3. ASSUME NEW b \in Admins, b # a
        PROVE  /\ Sound(admin[b])'
               /\ admin'[b].step = admin[b].step
               /\ admin[b].step \in Committed => admin'[b].item = admin[b].item
    <2>1. Sound(admin[b])
      BY <1>1 DEF AdminsSound
    <2>2. CASE b \in Holders(x)
      <3>1. admin'[b] = [admin[b] EXCEPT !.late = TRUE]
        BY <1>3, <2>2 DEF Commit
      <3>2. admin[b].step \in Holding \cup {"fillList"} /\ admin[b] \in AdminState
        BY <2>1, <2>2 DEF Holders, At, Sound
      <3>3. /\ admin'[b] \in AdminState /\ admin'[b].late
            /\ admin'[b].step = admin[b].step
            /\ admin[b].step \in Holding => admin'[b].item = admin[b].item
        BY <3>1, <3>2, LateFields
      <3>4. admin[b].step = "created" =>
                /\ admin'[b].cover = admin[b].cover /\ admin'[b].images = admin[b].images
                /\ admin'[b].attempt = admin[b].attempt /\ admin'[b].made = admin[b].made
        BY <3>1, <3>2, LateFields
      <3>5. admin'[b].step \notin {"create", "commit"}
        BY <3>2, <3>3 DEF Holding
      <3>6. Fits(admin[b])'
        BY <2>1, <3>3, <3>4, <3>5 DEF Sound, Fits
      <3>7. admin[b].step \in Committed => admin[b].step \in Holding
        BY <3>2 DEF Committed, Holding
      <3> QED
        BY <3>3, <3>6, <3>7 DEF Sound, Current
    <2>3. CASE b \notin Holders(x)
      <3>1. admin'[b] = admin[b]
        BY <1>3, <2>3 DEF Commit
      <3>2. admin[b].step \in Holding => admin[b].item \in Items \ {x}
        BY <2>1, <2>3, StepFields DEF Holders, Sound
      <3>3. admin[b].step = "fillList" => admin[b].list \in Lists \ {ListOf(x)}
        BY <2>1, <2>3, StepFields DEF Holders, Sound, At
      <3>4. Current(admin[b])'
        BY <1>1, <1>2, <2>1, <3>1, <3>2, <3>3 DEF Sound, Current
      <3> QED
        BY <2>1, <3>1, <3>4 DEF Sound, Fits
    <2> QED
      BY <2>2, <2>3
  <1>4. admin'[a] = q
    BY DEF Commit
  <1>5. AdminsSound'
    <2>1. Sound(admin[a])'
      BY <1>1, <1>4 DEF Sound, Current, Committed, Fits
    <2>2. \A b \in Admins : Sound(admin[b])'
      BY <1>3, <2>1
    <2>3. \A b \in Admins : admin'[b] \in AdminState
      BY <2>2 DEF Sound
    <2>4. admin' \in [Admins -> AdminState]
      BY <2>3 DEF Commit
    <2> QED
      BY <2>2, <2>4 DEF AdminsSound
  <1>6. \A k \in Keys : Owed(k) => Owed(k)'
    BY <1>3 DEF Owed
  <1>7. \A k \in KeysOf(x) : Owed(k)'
    BY <1>4 DEF Owed
  <1>8. CopiesSound'
    <2>1. ASSUME NEW k \in Keys, ~Owed(k)'
          PROVE  Agrees(k, cache[k])'
      <3>1. k \notin KeysOf(x) /\ Agrees(k, cache[k])
        BY <1>1, <1>6, <1>7, <2>1 DEF CopiesSound
      <3>2. k \in Items => k \in Items \ {x}
        BY <3>1, KeyKinds
      <3>3. k \in Lists => k \in Lists \ {ListOf(x)}
        BY <3>1, KeyKinds
      <3> QED
        BY <1>1, <1>2, <3>1, <3>2, <3>3 DEF Agrees, FitsKey, Right
    <2>2. \A k \in Keys : FitsKey(k, cache[k])'
      BY <1>1 DEF CopiesSound, FitsKey
    <2> QED
      BY <1>1, <2>1, <2>2 DEF CopiesSound
  <1>9. RowsFit'
    <2>1. ASSUME NEW p \in Products, Live(p)'
          PROVE  Cardinality(row'[p].images) \in 1 .. MAX_IMAGES
      <3>1. CASE p = x
        BY <1>1, <2>1, <3>1 DEF Live
      <3>2. CASE p # x
        BY <1>1, <2>1, <3>2 DEF Live, Base, RowsFit, ImagesWithinLimit, Items
      <3> QED
        BY <3>1, <3>2
    <2> QED
      BY <1>1, <2>1 DEF RowsFit, ImagesWithinLimit
  <1> QED
    BY <1>5, <1>8, <1>9 DEF Base

-----------------------------------------------------------------------------
(* The first part is inductive: one lemma per action.                      *)

LEMMA UploadTyped ==
    ASSUME FilesTyped, NEW files, Upload(files), spoiled' \subseteq Files
    PROVE  FilesTyped' /\ files \subseteq Files
  BY DEF FilesTyped, Upload, Fresh

LEMMA DestroyTyped ==
    ASSUME FilesTyped, NEW files, Destroy(files), spoiled' \subseteq Files
    PROVE  FilesTyped'
  BY DEF FilesTyped, Destroy

LEMMA SameFiles ==
    ASSUME FilesTyped, UNCHANGED file, spoiled' \subseteq Files
    PROVE  FilesTyped'
  BY DEF FilesTyped

LEMMA InitBase == Init => Base
  <1> SUFFICES ASSUME Init PROVE Base
    OBVIOUS
  <1>1. PICK s \in Scenarios :
            /\ file = [f \in Files |-> IF f \in s.files THEN "free" ELSE "deleted"]
            /\ row = [x \in Items |-> IF x \in s.items THEN Unborn ELSE Absent]
    BY DEF Init
  <1>2. FilesTyped
    BY <1>1 DEF Init, FilesTyped
  <1>3. RowsFit
    BY <1>1 DEF RowsFit, Table, Value, ImagesWithinLimit, Live, Items
  <1>4. AdminsSound
    BY IdleIsSound DEF Init, AdminsSound, Sound
  <1>5. CopiesSound
    BY NothingAgrees DEF Init, CopiesSound, Agrees
  <1> QED
    BY <1>2, <1>3, <1>4, <1>5 DEF Base

LEMMA CreateBase ==
    ASSUME Base, NEW a \in Admins, createProduct(a)
    PROVE  Base'
  <1>1. PICK cover \in Fresh : \E images \in SUBSET (Fresh \ {cover}) :
            /\ Cardinality(images) \in 1 .. MAX_IMAGES
            /\ Upload({cover} \cup images)
            /\ Become(a, [step |-> "create", cover |-> cover, images |-> images,
                          attempt |-> 0, made |-> {}])
    BY DEF createProduct
  <1>2. PICK images \in SUBSET (Fresh \ {cover}) :
            /\ Cardinality(images) \in 1 .. MAX_IMAGES
            /\ Upload({cover} \cup images)
            /\ Become(a, [step |-> "create", cover |-> cover, images |-> images,
                          attempt |-> 0, made |-> {}])
    BY <1>1
  <1> DEFINE q == [step |-> "create", cover |-> cover, images |-> images,
                   attempt |-> 0, made |-> {}]
  <1>3. q \in AdminState
    BY <1>2, LimitsAssumption DEF AdminState, Fresh
  <1>4. Sound(q)
    BY <1>2, <1>3 DEF Sound, Current, Fits, Holding
  <1>5. FilesTyped'
    BY <1>2, UploadTyped DEF Base, FilesTyped, createProduct
  <1> QED
    BY <1>2, <1>4, <1>5, QuietMove DEF createProduct, At, Committed

LEMMA InsertBase ==
    ASSUME Base, NEW a \in Admins, NEW p \in Products, InsertProduct(a, p)
    PROVE  Base'
  <1>1. PICK details \in Details :
        LET product == [details |-> details, cover |-> admin[a].cover,
                        images |-> admin[a].images]
        IN  /\ row' = [row EXCEPT ![p] = product]
            /\ Commit(a, p, [step |-> "created", item |-> p, seen |-> product,
                             cover |-> admin[a].cover, images |-> admin[a].images,
                             attempt |-> admin[a].attempt,
                             made |-> admin[a].made \cup {p}, late |-> FALSE])
    BY DEF InsertProduct
  <1> DEFINE product == [details |-> details, cover |-> admin[a].cover,
                         images |-> admin[a].images]
             q == [step |-> "created", item |-> p, seen |-> product,
                   cover |-> admin[a].cover, images |-> admin[a].images,
                   attempt |-> admin[a].attempt,
                   made |-> admin[a].made \cup {p}, late |-> FALSE]
  <1>2. Sound(admin[a]) /\ admin[a].step = "create"
    BY DEF Base, AdminsSound, InsertProduct, At
  <1>3. /\ admin[a].cover \in Files /\ admin[a].images \subseteq Files
        /\ admin[a].attempt \in 0 .. MAX_RETRIES /\ admin[a].made \subseteq Products
        /\ admin[a].attempt < MAX_RETRIES
    BY <1>2, StepFields DEF Sound, InsertProduct
  <1>4. product \in Item
    BY <1>3 DEF Item
  <1>5. q \in AdminState
    BY <1>3, <1>4 DEF AdminState
  <1>6. Fits(q)
    BY <1>2, <1>3 DEF Sound, Fits
  <1>7. FilesTyped'
    BY <1>3, SameFiles DEF Base, FilesTyped, InsertProduct
  <1>8. p \in Items /\ Cardinality(product.images) \in 1 .. MAX_IMAGES
    BY <1>2 DEF Items, Sound, Fits
  <1> HIDE DEF q, product
  <1>9. /\ q.step = "created" /\ q.item = p /\ q.seen = product
        /\ row' = [row EXCEPT ![p] = product] /\ Commit(a, p, q)
        /\ cache' = cache
    BY <1>1 DEF q, product, InsertProduct
  <1> QED
    BY <1>2, <1>4, <1>5, <1>6, <1>7, <1>8, <1>9, CommitKeeps DEF Committed

LEMMA ToCleanupBase ==
    ASSUME Base, NEW a \in Admins, admin[a].step \in {"create", "created"}, ToCleanup(a)
    PROVE  /\ Sound([step |-> "cleanup", files |-> {admin[a].cover} \cup admin[a].images])
           /\ spoiled' \subseteq Files
  <1>1. admin[a].cover \in Files /\ admin[a].images \subseteq Files
    BY StepFields DEF Base, AdminsSound, Sound
  <1>2. [step |-> "cleanup", files |-> {admin[a].cover} \cup admin[a].images] \in AdminState
    BY <1>1 DEF AdminState
  <1> QED
    BY <1>1, <1>2 DEF Sound, Current, Fits, Holding, ToCleanup, Base, FilesTyped

LEMMA InsertFailsBase ==
    ASSUME Base, NEW a \in Admins, InsertFails(a)
    PROVE  Base'
  <1>1. Sound(admin[a]) /\ admin[a].step = "create" /\ admin[a].step \notin Committed
    BY DEF Base, AdminsSound, InsertFails, At, Committed
  <1>2. CASE /\ admin[a].attempt < MAX_RETRIES - 1
             /\ admin' = [admin EXCEPT ![a].attempt = @ + 1]
             /\ UNCHANGED spoiled
    <2> DEFINE q == [admin[a] EXCEPT !.attempt = @ + 1]
    <2>1. admin[a] \in [step : {"create"}, cover : Files, images : SUBSET Files,
                        attempt : 0 .. MAX_RETRIES, made : SUBSET Products]
      BY <1>1 DEF Sound, AdminState, Idle
    <2>2. q \in [step : {"create"}, cover : Files, images : SUBSET Files,
                 attempt : 0 .. MAX_RETRIES, made : SUBSET Products]
      BY <1>2, <2>1, LimitsAssumption
    <2>3. Sound(q)
      <3>1. q \in AdminState
        BY <2>2 DEF AdminState
      <3>2. q.step = "create" /\ q.images = admin[a].images /\ q.cover = admin[a].cover
        BY <2>1
      <3> QED
        BY <1>1, <3>1, <3>2 DEF Sound, Current, Fits, Holding
    <2>4. Become(a, q)
      BY <1>2 DEF Become
    <2>5. FilesTyped'
      BY <1>2, SameFiles DEF Base, FilesTyped, InsertFails
    <2> QED
      BY <1>1, <2>3, <2>4, <2>5, QuietMove DEF InsertFails
  <1>3. CASE ToCleanup(a)
    <2>1. FilesTyped'
      BY <1>1, <1>3, ToCleanupBase, SameFiles DEF Base, InsertFails
    <2> QED
      BY <1>1, <1>3, <2>1, ToCleanupBase, QuietMove DEF InsertFails, ToCleanup
  <1> QED
    BY <1>2, <1>3 DEF InsertFails

LEMMA CreatedBase ==
    ASSUME Base, NEW a \in Admins, ProductCreated(a)
    PROVE  Base'
  <1>1. Sound(admin[a]) /\ admin[a].step = "created" /\ admin[a].step \in Holding
    BY DEF Base, AdminsSound, ProductCreated, At, Holding
  <1> DEFINE q == [step |-> "create", cover |-> admin[a].cover,
                   images |-> admin[a].images, attempt |-> admin[a].attempt + 1,
                   made |-> admin[a].made]
  <1>2. Become(a, q)
    BY DEF ProductCreated
  <1>3. Sound(q)
    <2>1. /\ admin[a].cover \in Files /\ admin[a].images \subseteq Files
          /\ admin[a].attempt \in 0 .. MAX_RETRIES /\ admin[a].made \subseteq Products
          /\ admin[a].attempt < MAX_RETRIES
      BY <1>1, StepFields DEF Sound, Fits
    <2>2. q \in AdminState
      BY <2>1, LimitsAssumption DEF AdminState
    <2> QED
      BY <1>1, <2>2 DEF Sound, Current, Fits, Holding
  <1>4. cache' = PartlyAnnounced(a, {})
    BY NothingLost DEF ProductCreated
  <1>5. /\ DOMAIN cache' = Keys
        /\ \A k \in KeysOf(admin[a].item) : Agrees(k, cache'[k])
        /\ \A k \in Keys \ KeysOf(admin[a].item) : cache'[k] = cache[k]
    BY <1>1, <1>4, AnnouncedAgrees
  <1>6. FilesTyped' /\ UNCHANGED row
    BY DEF Base, FilesTyped, ProductCreated
  <1> QED
    BY <1>2, <1>3, <1>5, <1>6, CacheMove

LEMMA CreatedFailsBase ==
    ASSUME Base, NEW a \in Admins, ProductCreatedFails(a)
    PROVE  Base'
  <1>1. /\ admin[a].step = "created"
        /\ admin[a].step \in Holding /\ admin[a].step \in {"create", "created"}
    BY DEF ProductCreatedFails, At, Holding
  <1>2. PICK lost \in SUBSET KeysOf(admin[a].item) : cache' = PartlyAnnounced(a, lost)
    BY DEF ProductCreatedFails
  <1>3. /\ DOMAIN cache' = Keys
        /\ \A k \in KeysOf(admin[a].item) : Agrees(k, cache'[k])
        /\ \A k \in Keys \ KeysOf(admin[a].item) : cache'[k] = cache[k]
    BY <1>1, <1>2, AnnouncedAgrees
  <1>4. FilesTyped' /\ UNCHANGED row
    BY <1>1, ToCleanupBase DEF Base, FilesTyped, ProductCreatedFails
  <1> QED
    BY <1>1, <1>3, <1>4, ToCleanupBase, CacheMove DEF ProductCreatedFails, ToCleanup

LEMMA EndsBase ==
    ASSUME Base, NEW a \in Admins, CreationEnds(a) \/ Cleanup(a)
    PROVE  Base'
  <1>1. /\ admin[a].step \notin Committed
        /\ Become(a, Idle) /\ UNCHANGED <<row, cache, spoiled>>
    BY DEF CreationEnds, Cleanup, At, Committed
  <1>2. FilesTyped'
    BY <1>1, DestroyTyped, SameFiles DEF Base, FilesTyped, CreationEnds, Cleanup
  <1> QED
    BY <1>1, <1>2, IdleIsSound, QuietMove

LEMMA LiveIsItem ==
    ASSUME Base, NEW x \in Items, Live(x)
    PROVE  row[x] \in Item
  BY DEF Base, RowsFit, Table, Value, Live

LEMMA UpdateBase ==
    ASSUME Base, NEW a \in Admins, NEW p \in Products, updateProduct(a, p)
    PROVE  Base'
  <1>1. PICK details \in Details :
        LET product == [row[p] EXCEPT !.details = details]
        IN  /\ row' = [row EXCEPT ![p] = product]
            /\ Commit(a, p, Announcement(p, product, {}, FALSE))
    BY DEF updateProduct
  <1> DEFINE product == [row[p] EXCEPT !.details = details]
             q == Announcement(p, product, {}, FALSE)
  <1>2. p \in Items /\ row[p] \in Item
    BY LiveIsItem DEF updateProduct, Items
  <1>3. product \in Item /\ product.images = row[p].images
    BY <1>2 DEF Item
  <1>4. Cardinality(product.images) \in 1 .. MAX_IMAGES
    BY <1>3 DEF updateProduct, Base, RowsFit, ImagesWithinLimit
  <1>5. /\ admin[a].step \notin Committed /\ cache' = cache
        /\ row' = [row EXCEPT ![p] = product] /\ Commit(a, p, q)
    BY <1>1 DEF updateProduct, At, Committed
  <1>6. FilesTyped'
    BY DEF Base, FilesTyped, updateProduct
  <1> HIDE DEF product
  <1>7. q \in AdminState /\ Fits(q) /\ q.step \in Committed /\ q.item = p /\ q.seen = product
    BY <1>2, <1>3 DEF q, Announcement, AdminState, Fits, Committed
  <1> HIDE DEF q
  <1> QED
    BY <1>2, <1>3, <1>4, <1>5, <1>6, <1>7, CommitKeeps

LEMMA DeleteBase ==
    ASSUME Base, NEW a \in Admins, NEW p \in Products, deleteProduct(a, p)
    PROVE  Base'
  <1> DEFINE q == [step |-> "forget", item |-> p]
  <1>1. q \in AdminState /\ Fits(q) /\ q.step \in Committed /\ q.item = p
        /\ q.step \notin Holding
    BY DEF AdminState, Fits, Committed, Holding
  <1>2. /\ admin[a].step \notin Committed /\ cache' = cache
        /\ row' = [row EXCEPT ![p] = Gone] /\ Commit(a, p, q)
    BY DEF deleteProduct, At, Committed
  <1>3. p \in Items /\ Gone \notin Item
    BY NoEntryAssumption DEF Items
  <1>4. FilesTyped'
    BY DEF Base, FilesTyped, deleteProduct
  <1> HIDE DEF q
  <1> QED
    BY <1>1, <1>2, <1>3, <1>4, CommitKeeps

LEMMA ForgetBase ==
    ASSUME Base, NEW a \in Admins, ForgetProduct(a)
    PROVE  Base'
  <1>1. admin[a].item \in Items
    BY StepFields DEF Base, AdminsSound, Sound, ForgetProduct, At, Items
  <1> DEFINE keys == KeysOf(admin[a].item)
  <1>2. PICK lost \in SUBSET keys :
        cache' = [k \in Keys |-> IF k \in keys \ lost THEN NoEntry
                                 ELSE Outdated(lost)[k]]
    BY DEF ForgetProduct
  <1>3. lost \subseteq Keys /\ keys \subseteq Keys /\ CopiesSound
    BY <1>1, KeyKinds DEF Base
  <1>4. \A k \in lost : Agrees(k, cache'[k])
    BY <1>2, <1>3, OutdatedIsLate
  <1>5. \A k \in keys \ lost : Agrees(k, cache'[k])
    BY <1>2, <1>3, NothingAgrees
  <1>6. \A k \in Keys \ keys : cache'[k] = cache[k]
    BY <1>2, <1>3, OutdatedIsLate
  <1>7. DOMAIN cache' = Keys
    BY <1>2
  <1>8. FilesTyped' /\ UNCHANGED row /\ Become(a, Idle)
    BY DEF Base, FilesTyped, ForgetProduct
  <1> QED
    BY <1>4, <1>5, <1>6, <1>7, <1>8, IdleIsSound, CacheMove

LEMMA CategoryBase ==
    ASSUME Base, NEW a \in Admins, NEW c \in Categories, createCategory(a, c)
    PROVE  Base'
  <1>1. PICK logo \in Fresh, details \in Details :
        LET category == [details |-> details, cover |-> logo, images |-> {}]
        IN  /\ Upload({logo})
            /\ row' = [row EXCEPT ![c] = category]
            /\ Commit(a, c, Announcement(c, category, {}, FALSE))
    BY DEF createCategory
  <1> DEFINE category == [details |-> details, cover |-> logo, images |-> {}]
             q == Announcement(c, category, {}, FALSE)
  <1>2. c \in Items /\ c \notin Products /\ category \in Item
    BY ItemsAssumption DEF Items, Item, Fresh
  <1>3. FilesTyped'
    BY <1>1, UploadTyped DEF Base, FilesTyped, createCategory
  <1>4. /\ admin[a].step \notin Committed /\ cache' = cache
        /\ row' = [row EXCEPT ![c] = category] /\ Commit(a, c, q)
    BY <1>1 DEF createCategory, At, Committed
  <1> HIDE DEF category
  <1>5. q \in AdminState /\ Fits(q) /\ q.step \in Committed /\ q.item = c /\ q.seen = category
    BY <1>2 DEF q, Announcement, AdminState, Fits, Committed
  <1> HIDE DEF q
  <1> QED
    BY <1>2, <1>3, <1>4, <1>5, CommitKeeps

LEMMA SumsOfImages ==
    ASSUME NEW S \in SUBSET Files, NEW T \in SUBSET Files,
           Cardinality(S) + Cardinality(T) \in 1 .. MAX_IMAGES
    PROVE  Cardinality(S \cup T) \in 1 .. MAX_IMAGES
  <1>1. IsFiniteSet(S) /\ IsFiniteSet(T) /\ IsFiniteSet(S \cap T) /\ IsFiniteSet(S \cup T)
    <2>1. IsFiniteSet(S) /\ IsFiniteSet(T)
      BY FilesAssumption, FS_Subset
    <2> QED
      BY <2>1, FS_Union, FS_Intersection
  <1>2. /\ Cardinality(S) \in Nat /\ Cardinality(T) \in Nat
        /\ Cardinality(S \cap T) \in Nat /\ Cardinality(S \cup T) \in Nat
    BY <1>1, FS_CardinalityType
  <1>3. Cardinality(S \cup T) = Cardinality(S) + Cardinality(T) - Cardinality(S \cap T)
    BY <1>1, FS_Union
  <1>4. Cardinality(S \cup T) # 0
    <2>1. SUFFICES ASSUME Cardinality(S \cup T) = 0 PROVE FALSE
      OBVIOUS
    <2>2. S = {} /\ T = {}
      BY <1>1, <2>1, FS_EmptySet
    <2> QED
      BY <2>2, FS_EmptySet
  <1> QED
    BY <1>2, <1>3, <1>4, LimitsAssumption

\* An edit to come.
LEMMA EditIsSound ==
    ASSUME NEW x \in Items, NEW op \in Ops, NEW keep \in SUBSET Files,
           NEW new \in SUBSET Files, NEW removed \in SUBSET Files,
           IF op = "images" THEN Cardinality(keep \cup new) \in 1 .. MAX_IMAGES
           ELSE \E f \in Files : keep \cup new = {f}
    PROVE  Sound(Edit(x, op, keep, new, removed))
  BY DEF Edit, Sound, AdminState, Current, Fits, Holding

LEMMA ContinueIsSound ==
    ASSUME FilesTyped, NEW a \in Admins, NEW x \in Items, NEW op, NEW base \in Item,
           Continue(a, x, op, base), spoiled' \subseteq Files
    PROVE  (\E q : Sound(q) /\ Become(a, q)) /\ FilesTyped'
  <1>1. base.cover \in Files /\ base.images \subseteq Files
    BY DEF Item
  <1>2. CASE op = "get" /\ Become(a, Idle) /\ UNCHANGED file
    BY <1>2, IdleIsSound, SameFiles
  <1>3. CASE op = "thumbnail" /\ changeProductThumbnail(a, x, base)
    <2>1. PICK f \in Fresh : /\ Upload({f})
                             /\ Become(a, Edit(x, "thumbnail", {}, {f}, {base.cover}))
      BY <1>3 DEF changeProductThumbnail
    <2>2. f \in Files
      BY DEF Fresh
    <2>3. Sound(Edit(x, "thumbnail", {}, {f}, {base.cover}))
      BY <1>1, <2>2, EditIsSound DEF Ops
    <2> QED
      BY <2>1, <2>3, UploadTyped
  <1>4. CASE op = "images" /\ updateProductImages(a, x, base)
    <2>1. PICK removed \in SUBSET base.images, new \in SUBSET Fresh :
            /\ Cardinality(base.images \ removed) + Cardinality(new) \in 1 .. MAX_IMAGES
            /\ Upload(new)
            /\ Become(a, Edit(x, "images", base.images \ removed, new, removed))
      BY <1>4 DEF updateProductImages
    <2>2. /\ new \subseteq Files /\ base.images \ removed \subseteq Files
          /\ removed \subseteq Files
      BY <1>1 DEF Fresh
    <2>3. Cardinality((base.images \ removed) \cup new) \in 1 .. MAX_IMAGES
      BY <2>1, <2>2, SumsOfImages
    <2>4. Sound(Edit(x, "images", base.images \ removed, new, removed))
      BY <2>2, <2>3, EditIsSound DEF Ops
    <2> QED
      BY <2>1, <2>4, UploadTyped
  <1>5. CASE op = "category" /\ updateCategory(a, x, base)
    <2>1. CASE \E logo \in Fresh :
                /\ Upload({logo})
                /\ Become(a, Edit(x, "category", {}, {logo}, {base.cover}))
      <3>1. PICK logo \in Fresh :
                /\ Upload({logo})
                /\ Become(a, Edit(x, "category", {}, {logo}, {base.cover}))
        BY <2>1
      <3>2. logo \in Files
        BY DEF Fresh
      <3>3. Sound(Edit(x, "category", {}, {logo}, {base.cover}))
        BY <1>1, <3>2, EditIsSound DEF Ops
      <3> QED
        BY <3>1, <3>3, UploadTyped
    <2>2. CASE /\ Become(a, Edit(x, "category", {base.cover}, {}, {}))
               /\ UNCHANGED file
      <3>1. Sound(Edit(x, "category", {base.cover}, {}, {}))
        BY <1>1, EditIsSound DEF Ops
      <3> QED
        BY <2>2, <3>1, SameFiles
    <2> QED
      BY <1>5, <2>1, <2>2 DEF updateCategory
  <1> QED
    BY <1>2, <1>3, <1>4, <1>5 DEF Continue

LEMMA OpsAreOps == \A x \in Items : OpsOf(x) \subseteq Ops
  BY DEF OpsOf, Ops

LEMMA CachedIsItem ==
    ASSUME Base, NEW x \in Items, cache[x] # NoEntry
    PROVE  cache[x].value \in Item /\ cache[x].late \in BOOLEAN
  BY KeyKinds DEF Base, CopiesSound, FitsKey, Entry

LEMMA GetBase ==
    ASSUME Base, NEW a \in Admins, NEW x \in Items, NEW op \in OpsOf(x), getById(a, x, op)
    PROVE  Base'
  <1>1. admin[a].step \notin Committed /\ UNCHANGED <<row, cache, spoiled>>
    BY DEF getById, At, Committed
  <1>2. FilesTyped /\ spoiled' \subseteq Files
    BY <1>1 DEF Base, FilesTyped
  <1>3. CASE /\ Live(x)
             /\ Become(a, [step |-> "fill", item |-> x, op |-> op, seen |-> row[x],
                           late |-> FALSE])
             /\ UNCHANGED file
    <2> DEFINE q == [step |-> "fill", item |-> x, op |-> op, seen |-> row[x],
                     late |-> FALSE]
    <2>1. row[x] \in Item
      BY <1>3, LiveIsItem
    <2>2. q \in AdminState
      BY <2>1, OpsAreOps DEF AdminState
    <2>3. Sound(q)
      BY <2>2 DEF Sound, Current, Fits
    <2>4. FilesTyped'
      BY <1>2, <1>3, SameFiles
    <2> QED
      BY <1>1, <1>3, <2>3, <2>4, QuietMove
  <1>4. CASE cache[x] # NoEntry /\ Continue(a, x, op, cache[x].value)
    <2>1. cache[x].value \in Item
      BY <1>4, CachedIsItem
    <2>2. (\E q : Sound(q) /\ Become(a, q)) /\ FilesTyped'
      BY <1>2, <1>4, <2>1, ContinueIsSound
    <2> QED
      BY <1>1, <2>2, QuietMove
  <1> QED
    BY <1>3, <1>4 DEF getById

LEMMA FillBase ==
    ASSUME Base, NEW a \in Admins, FillItem(a)
    PROVE  Base'
  <1>1. /\ admin[a].step = "fill" /\ admin[a].step \in Holding
        /\ admin[a].step \notin Committed
    BY DEF FillItem, At, Holding, Committed
  <1>2. admin[a].item \in Items /\ admin[a].seen \in Item
    BY <1>1, StepFields DEF Base, AdminsSound, Sound
  <1>3. UNCHANGED <<row, spoiled>> /\ FilesTyped /\ spoiled' \subseteq Files
    BY DEF FillItem, Base, FilesTyped
  <1>4. (\E q : Sound(q) /\ Become(a, q)) /\ FilesTyped'
    BY <1>2, <1>3, ContinueIsSound DEF FillItem
  <1>5. /\ DOMAIN cache' = Keys
        /\ \A k \in Keys : Agrees(k, cache'[k]) \/ cache'[k] = cache[k]
    BY <1>1, FilledAgrees DEF FillItem, Base, CopiesSound
  <1> QED
    BY <1>1, <1>3, <1>4, <1>5, CacheMove

LEMMA GetAllBase ==
    ASSUME Base, NEW a \in Admins, NEW l \in Lists, getAll(a, l)
    PROVE  Base'
  <1> DEFINE q == [step |-> "fillList", list |-> l, seen |-> Listed(l), late |-> FALSE]
  <1>1. Listed(l) \in Listing
    BY DEF Listed, Listing, Table, Value, Base, RowsFit
  <1>2. q \in AdminState
    BY <1>1 DEF AdminState
  <1>3. Sound(q)
    BY <1>2 DEF Sound, Current, Fits, Holding
  <1>4. FilesTyped'
    BY SameFiles DEF Base, FilesTyped, getAll
  <1>5. admin[a].step \notin Committed
    BY DEF getAll, At, Committed
  <1> QED
    BY <1>3, <1>4, <1>5, QuietMove DEF getAll

LEMMA FillListBase ==
    ASSUME Base, NEW a \in Admins, FillList(a)
    PROVE  Base'
  <1>1. admin[a].step \notin Committed /\ At(a, "fillList")
    BY DEF FillList, At, Committed
  <1>2. /\ DOMAIN cache' = Keys
        /\ \A k \in Keys : Agrees(k, cache'[k]) \/ cache'[k] = cache[k]
    BY <1>1, FilledAgrees DEF FillList, Base, CopiesSound
  <1>3. FilesTyped'
    BY SameFiles DEF Base, FilesTyped, FillList
  <1> QED
    BY <1>1, <1>2, <1>3, IdleIsSound, CacheMove DEF FillList

\* What an edit writes is a row, with images within the limit.
LEMMA WrittenFits ==
    ASSUME Base, NEW a \in Admins, At(a, "commit"), Live(admin[a].item), NEW details \in Details
    PROVE  LET value == Written(admin[a], details)
           IN  /\ value \in Item
               /\ admin[a].item \in Products => Cardinality(value.images) \in 1 .. MAX_IMAGES
  <1> DEFINE x == admin[a].item
             files == admin[a].keep \cup admin[a].new
  <1>1. Sound(admin[a]) /\ admin[a].step = "commit"
    BY DEF Base, AdminsSound, At
  <1>2. x \in Items /\ files \subseteq Files
    BY <1>1, StepFields DEF Sound
  <1>3. row[x] \in Item
    BY <1>2, LiveIsItem
  <1>4. CASE admin[a].op = "images"
    <2>1. Written(admin[a], details) = [row[x] EXCEPT !.images = files]
      BY <1>4 DEF Written
    <2>2. Cardinality(files) \in 1 .. MAX_IMAGES
      BY <1>1, <1>4 DEF Sound, Fits
    <2> QED
      BY <1>2, <1>3, <2>1, <2>2 DEF Item
  <1>5. CASE admin[a].op # "images"
    <2>1. PICK f \in Files : files = {f}
      BY <1>1, <1>5 DEF Sound, Fits
    <2>2. (CHOOSE g \in files : TRUE) \in Files
      BY <2>1
    <2>3. Written(admin[a], details) = [row[x] EXCEPT !.cover = CHOOSE g \in files : TRUE,
                                                      !.details = details]
      BY <1>5 DEF Written
    <2>4. Written(admin[a], details).images = row[x].images
      BY <1>3, <2>3 DEF Item
    <2> QED
      BY <1>3, <2>2, <2>3, <2>4 DEF Item, Base, RowsFit, ImagesWithinLimit
  <1> QED
    BY <1>4, <1>5

\* A commit, taken apart.
LEMMA CommitParts ==
    ASSUME Base, NEW a \in Admins, CommitEdit(a)
    PROVE  /\ At(a, "commit") /\ Live(admin[a].item) /\ admin[a].item \in Items
           /\ UNCHANGED <<file, cache>>
           /\ \E details \in Details, q \in AdminState :
                LET value == Written(admin[a], details)
                IN  /\ value \in Item
                    /\ row' = [row EXCEPT ![admin[a].item] = value]
                    /\ spoiled' = spoiled \cup
                            ((FilesOf(value) \ FilesOf(row[admin[a].item])) \ admin[a].new)
                    /\ Commit(a, admin[a].item, q)
                    /\ q.step \in {"announce", "discard"}
                    /\ q.item = admin[a].item /\ q.seen = value
                    /\ q.step = "discard" => /\ q.removed = admin[a].removed
                                             /\ q.op = admin[a].op
  <1> DEFINE edit == admin[a]
             x == edit.item
             undo == IF edit.op = "images" THEN edit.new ELSE {}
  <1>1. At(a, "commit") /\ Live(x) /\ UNCHANGED <<file, cache>>
    BY DEF CommitEdit
  <1>2. /\ x \in Items /\ edit.op \in Ops /\ edit.removed \subseteq Files
        /\ undo \subseteq Files
    BY <1>1, StepFields DEF Base, AdminsSound, Sound, At
  <1>3. row[x] \in Item
    BY <1>1, <1>2, LiveIsItem
  <1>4. PICK details \in IF edit.op = "category" THEN Details ELSE {row[x].details} :
            LET value == Written(edit, details)
            IN  /\ row' = [row EXCEPT ![x] = value]
                /\ spoiled' = spoiled \cup
                        ((FilesOf(value) \ FilesOf(row[x])) \ edit.new)
                /\ Commit(a, x,
                    IF edit.removed = {} THEN Announcement(x, value, undo, FALSE)
                    ELSE [step |-> "discard", item |-> x, op |-> edit.op, seen |-> value,
                          new |-> undo, removed |-> edit.removed, late |-> FALSE])
    BY DEF CommitEdit
  <1>5. details \in Details
    BY <1>3, <1>4 DEF Item
  <1> DEFINE value == Written(edit, details)
             q == IF edit.removed = {} THEN Announcement(x, value, undo, FALSE)
                  ELSE [step |-> "discard", item |-> x, op |-> edit.op, seen |-> value,
                        new |-> undo, removed |-> edit.removed, late |-> FALSE]
  <1>6. value \in Item
    BY <1>1, <1>5, WrittenFits
  <1> HIDE DEF value, undo
  <1>7. /\ q \in AdminState /\ q.step \in {"announce", "discard"}
        /\ q.item = x /\ q.seen = value
        /\ q.step = "discard" => q.removed = edit.removed /\ q.op = edit.op
    <2>1. CASE edit.removed = {}
      BY <1>2, <1>6, <2>1 DEF Announcement, AdminState
    <2>2. CASE edit.removed # {}
      BY <1>2, <1>6, <2>2 DEF AdminState
    <2> QED
      BY <2>1, <2>2
  <1>8. /\ row' = [row EXCEPT ![x] = value] /\ Commit(a, x, q)
        /\ spoiled' = spoiled \cup ((FilesOf(value) \ FilesOf(row[x])) \ edit.new)
    BY <1>4 DEF value, undo
  <1> HIDE DEF q
  <1> QED
    BY <1>1, <1>2, <1>5, <1>6, <1>7, <1>8 DEF value

LEMMA CommitEditBase ==
    ASSUME Base, NEW a \in Admins, CommitEdit(a)
    PROVE  Base'
  <1> DEFINE x == admin[a].item
  <1>1. At(a, "commit") /\ x \in Items /\ UNCHANGED <<file, cache>> /\ Live(x)
    BY CommitParts
  <1>2. PICK details \in Details, q \in AdminState :
            LET value == Written(admin[a], details)
            IN  /\ value \in Item
                /\ row' = [row EXCEPT ![x] = value]
                /\ spoiled' = spoiled \cup
                        ((FilesOf(value) \ FilesOf(row[x])) \ admin[a].new)
                /\ Commit(a, x, q)
                /\ q.step \in {"announce", "discard"}
                /\ q.item = x /\ q.seen = value
    BY CommitParts
  <1> DEFINE value == Written(admin[a], details)
  <1>3. x \in Products => Cardinality(value.images) \in 1 .. MAX_IMAGES
    BY <1>1, WrittenFits
  <1>4. FilesOf(value) \subseteq Files
    BY <1>2 DEF FilesOf, Item
  <1>5. FilesTyped'
    BY <1>1, <1>2, <1>4, SameFiles DEF Base, FilesTyped
  <1>6. Fits(q) /\ q.step \in Committed /\ admin[a].step \notin Committed
    BY <1>1, <1>2 DEF Fits, Committed, At
  <1> HIDE DEF value
  <1>7. /\ value \in Item /\ row' = [row EXCEPT ![x] = value]
        /\ Commit(a, x, q) /\ q.item = x /\ q.seen = value
    BY <1>2 DEF value
  <1> QED
    BY <1>1, <1>3, <1>5, <1>6, <1>7, CommitKeeps

LEMMA CommitFailsBase ==
    ASSUME Base, NEW a \in Admins, CommitFails(a)
    PROVE  Base'
  <1>1. /\ admin[a].step \notin Committed /\ Become(a, Idle)
        /\ UNCHANGED <<row, cache, spoiled>>
    BY DEF CommitFails, At, Committed, RollBack
  <1>2. FilesTyped'
    BY <1>1, DestroyTyped, SameFiles DEF CommitFails, RollBack, Base, FilesTyped
  <1> QED
    BY <1>1, <1>2, IdleIsSound, QuietMove

LEMMA DiscardBase ==
    ASSUME Base, NEW a \in Admins, Discard(a)
    PROVE  Base'
  <1> DEFINE x == admin[a].item
  <1>1. /\ Sound(admin[a]) /\ admin[a].step = "discard" /\ admin[a].step \in Holding
        /\ admin[a].step \in Committed
    BY DEF Base, AdminsSound, Discard, At, Holding, Committed
  <1>2. /\ x \in Items /\ admin[a].seen \in Item /\ admin[a].late \in BOOLEAN
        /\ admin[a].new \subseteq Files
    BY <1>1, StepFields DEF Sound
  <1>3. FilesTyped'
    BY DestroyTyped DEF Discard, Base, FilesTyped
  <1>4. CASE /\ Become(a, Announcement(x, admin[a].seen, admin[a].new, admin[a].late))
             /\ UNCHANGED cache
    <2> DEFINE q == Announcement(x, admin[a].seen, admin[a].new, admin[a].late)
    <2>1. q \in AdminState
      BY <1>2 DEF Announcement, AdminState
    <2>2. q.step = "announce" /\ q.item = x /\ q.seen = admin[a].seen /\ q.late = admin[a].late
      BY DEF Announcement
    <2>3. Sound(q)
      BY <1>1, <2>1, <2>2 DEF Sound, Current, Fits
    <2>4. q.step \in Committed
      BY <2>2 DEF Committed
    <2> HIDE DEF q
    <2> QED
      BY <1>3, <1>4, <2>2, <2>3, <2>4, QuietMove DEF q, Discard
  <1>5. CASE Become(a, Idle) /\ cache' = Outdated(KeysOf(x))
    <2>1. KeysOf(x) \subseteq Keys /\ CopiesSound
      BY <1>2, KeyKinds DEF Base
    <2>2. /\ DOMAIN cache' = Keys
          /\ \A k \in KeysOf(x) : Agrees(k, cache'[k])
          /\ \A k \in Keys \ KeysOf(x) : cache'[k] = cache[k]
      BY <1>5, <2>1, OutdatedIsLate
    <2>3. UNCHANGED row
      BY DEF Discard
    <2> QED
      BY <1>3, <1>5, <2>2, <2>3, IdleIsSound, CacheMove
  <1> QED
    BY <1>4, <1>5 DEF Discard

LEMMA AnnounceBase ==
    ASSUME Base, NEW a \in Admins, Announce(a) \/ AnnounceFails(a)
    PROVE  Base'
  <1>1. admin[a].step \in Holding /\ Become(a, Idle) /\ UNCHANGED row
    BY DEF Announce, AnnounceFails, At, Holding, RollBack
  <1>2. PICK lost \in SUBSET KeysOf(admin[a].item) : cache' = PartlyAnnounced(a, lost)
    BY NothingLost DEF Announce, AnnounceFails
  <1>3. /\ DOMAIN cache' = Keys
        /\ \A k \in KeysOf(admin[a].item) : Agrees(k, cache'[k])
        /\ \A k \in Keys \ KeysOf(admin[a].item) : cache'[k] = cache[k]
    BY <1>1, <1>2, AnnouncedAgrees
  <1>4. FilesTyped'
    <2>1. CASE Announce(a)
      BY <2>1, SameFiles DEF Announce, Base, FilesTyped
    <2>2. CASE AnnounceFails(a)
      <3>1. admin[a].new \subseteq Files
        BY <2>2, StepFields DEF AnnounceFails, At, Base, AdminsSound, Sound
      <3> QED
        BY <2>2, <3>1, DestroyTyped DEF AnnounceFails, RollBack, Base, FilesTyped
    <2> QED
      BY <2>1, <2>2
  <1> QED
    BY <1>1, <1>3, <1>4, IdleIsSound, CacheMove

LEMMA DiesBase ==
    ASSUME Base, NEW a \in Admins, HandlerDies(a)
    PROVE  Base'
  <1>1. Become(a, Idle) /\ UNCHANGED <<file, row, spoiled>> /\ FilesTyped'
    BY DEF HandlerDies, Base, FilesTyped
  <1>2. CASE admin[a].step \notin Committed
    BY <1>1, <1>2, IdleIsSound, QuietMove DEF HandlerDies
  <1>3. CASE admin[a].step \in Committed
    <2> DEFINE keys == KeysOf(admin[a].item)
    <2>1. keys \subseteq Keys /\ CopiesSound
      BY <1>3, StepFields, KeyKinds DEF Base, AdminsSound, Sound
    <2>2. cache' = Outdated(keys)
      BY <1>3 DEF HandlerDies
    <2>3. /\ DOMAIN cache' = Keys
          /\ \A k \in keys : Agrees(k, cache'[k])
          /\ \A k \in Keys \ keys : cache'[k] = cache[k]
      BY <2>1, <2>2, OutdatedIsLate
    <2> QED
      BY <1>1, <2>3, IdleIsSound, CacheMove
  <1> QED
    BY <1>2, <1>3

LEMMA ExpireBase ==
    ASSUME Base, NEW k \in Keys, Expire(k)
    PROVE  Base'
  <1>1. UNCHANGED <<file, row, admin, spoiled>>
    BY DEF Expire
  <1>2. \A l : Listed(l)' = Listed(l)
    BY <1>1 DEF Listed, Live
  <1>3. AdminsSound'
    BY <1>1, <1>2 DEF Base, AdminsSound, Sound, Current, Fits
  <1>4. /\ DOMAIN cache' = Keys
        /\ \A j \in Keys : Agrees(j, cache'[j]) \/ cache'[j] = cache[j]
    BY NothingAgrees DEF Expire, Base, CopiesSound
  <1>5. CopiesSound'
    BY <1>1, <1>4, CopiesKept DEF Base, Owed
  <1> QED
    BY <1>1, <1>3, <1>5 DEF Base, FilesTyped, RowsFit, ImagesWithinLimit, Live

LEMMA StutterBase ==
    ASSUME Base, UNCHANGED vars
    PROVE  Base'
  <1>1. \A l : Listed(l)' = Listed(l)
    BY DEF Listed, Live, vars
  <1>2. AdminsSound'
    BY <1>1 DEF Base, AdminsSound, Sound, Current, Fits, vars
  <1>3. CopiesSound'
    BY <1>1 DEF vars, Base, CopiesSound, Agrees, FitsKey, Right, Owed
  <1> QED
    BY <1>2, <1>3 DEF vars, Base, FilesTyped, RowsFit, ImagesWithinLimit, Live

LEMMA NextBase == Base /\ [Next]_vars => Base'
  <1> SUFFICES ASSUME Base, [Next]_vars PROVE Base'
    OBVIOUS
  <1>1. CASE UNCHANGED vars
    BY <1>1, StutterBase
  <1>2. ASSUME NEW a \in Admins, createProduct(a) PROVE Base'
    BY <1>2, CreateBase
  <1>3. ASSUME NEW a \in Admins, NEW p \in Products, InsertProduct(a, p) PROVE Base'
    BY <1>3, InsertBase
  <1>4. ASSUME NEW a \in Admins, InsertFails(a) PROVE Base'
    BY <1>4, InsertFailsBase
  <1>5. ASSUME NEW a \in Admins, ProductCreated(a) PROVE Base'
    BY <1>5, CreatedBase
  <1>6. ASSUME NEW a \in Admins, ProductCreatedFails(a) PROVE Base'
    BY <1>6, CreatedFailsBase
  <1>7. ASSUME NEW a \in Admins, CreationEnds(a) \/ Cleanup(a) PROVE Base'
    BY <1>7, EndsBase
  <1>8. ASSUME NEW a \in Admins, NEW p \in Products, updateProduct(a, p) PROVE Base'
    BY <1>8, UpdateBase
  <1>9. ASSUME NEW a \in Admins, NEW p \in Products, deleteProduct(a, p) PROVE Base'
    BY <1>9, DeleteBase
  <1>10. ASSUME NEW a \in Admins, ForgetProduct(a) PROVE Base'
    BY <1>10, ForgetBase
  <1>11. ASSUME NEW a \in Admins, NEW c \in Categories, createCategory(a, c) PROVE Base'
    BY <1>11, CategoryBase
  <1>12. ASSUME NEW a \in Admins, NEW x \in Items, NEW op \in OpsOf(x), getById(a, x, op)
         PROVE  Base'
    BY <1>12, GetBase
  <1>13. ASSUME NEW a \in Admins, FillItem(a) PROVE Base'
    BY <1>13, FillBase
  <1>14. ASSUME NEW a \in Admins, NEW l \in Lists, getAll(a, l) PROVE Base'
    BY <1>14, GetAllBase
  <1>15. ASSUME NEW a \in Admins, FillList(a) PROVE Base'
    BY <1>15, FillListBase
  <1>16. ASSUME NEW a \in Admins, CommitEdit(a) PROVE Base'
    BY <1>16, CommitEditBase
  <1>17. ASSUME NEW a \in Admins, CommitFails(a) PROVE Base'
    BY <1>17, CommitFailsBase
  <1>18. ASSUME NEW a \in Admins, Discard(a) PROVE Base'
    BY <1>18, DiscardBase
  <1>19. ASSUME NEW a \in Admins, Announce(a) \/ AnnounceFails(a) PROVE Base'
    BY <1>19, AnnounceBase
  <1>20. ASSUME NEW a \in Admins, HandlerDies(a) PROVE Base'
    BY <1>20, DiesBase
  <1>21. ASSUME NEW k \in Keys, Expire(k) PROVE Base'
    BY <1>21, ExpireBase
  <1> QED
    BY <1>1, <1>2, <1>3, <1>4, <1>5, <1>6, <1>7, <1>8, <1>9, <1>10, <1>11, <1>12, <1>13,
       <1>14, <1>15, <1>16, <1>17, <1>18, <1>19, <1>20, <1>21 DEF Next

-----------------------------------------------------------------------------
(* The second part of the invariant: files, one by one.                    *)

\* The files of x that the request q has from a copy of x.
OldFiles(q) == IF q.step = "commit" THEN q.keep \cup q.removed ELSE q.removed
ClaimsCover(q, x, f) ==
    \/ q.step \in Holding /\ q.item = x /\ f = q.seen.cover
    \/ q.step \in {"commit", "discard"} /\ q.item = x /\ q.op # "images" /\ f \in OldFiles(q)
ClaimsImage(q, x, f) ==
    \/ q.step \in Holding /\ q.item = x /\ f \in q.seen.images
    \/ q.step \in {"commit", "discard"} /\ q.item = x /\ q.op = "images" /\ f \in OldFiles(q)

CoverOf(x, f) ==
    \/ Live(x) /\ f = row[x].cover
    \/ cache[x] # NoEntry /\ f = cache[x].value.cover
    \/ \E a \in Admins : ClaimsCover(admin[a], x, f)
ImageOf(x, f) ==
    \/ Live(x) /\ f \in row[x].images
    \/ cache[x] # NoEntry /\ f \in cache[x].value.images
    \/ \E a \in Admins : ClaimsImage(admin[a], x, f)
KnownTo(x, f) == CoverOf(x, f) \/ ImageOf(x, f)

\* The files that the request q has uploaded and no row has named, and those of
\* a creation.
Uploaded(q, f) ==
    \/ q.step = "create" /\ q.made = {} /\ (f = q.cover \/ f \in q.images)
    \/ q.step = "cleanup" /\ f \in q.files
    \/ q.step = "commit" /\ f \in q.new
MadeBy(q, f) == q.step \in {"create", "created"} /\ (f = q.cover \/ f \in q.images)

\* FilesApart and NamedFilesAreStored, of one file.
Alone(f) ==
    /\ \A x \in Items : CoverOf(x, f) /\ ImageOf(x, f) => f \in spoiled
    /\ \A x, y \in Items : KnownTo(x, f) /\ KnownTo(y, f) /\ x # y => f \in spoiled
    /\ \A x \in Items, a \in Admins :
        KnownTo(x, f) /\ Uploaded(admin[a], f) => f \in spoiled
    /\ \A a, b \in Admins :
        Uploaded(admin[a], f) /\ Uploaded(admin[b], f) /\ a # b => f \in spoiled
    /\ \A x \in Items : KnownTo(x, f) => file[f] # "free"
    /\ \A a \in Admins :
        /\ Uploaded(admin[a], f) \/ MadeBy(admin[a], f) => file[f] # "free"
        /\ Uploaded(admin[a], f) => f \in spoiled \/ file[f] = "stored"
    /\ \A x \in Items : Live(x) /\ f \in FilesOf(row[x]) => f \in spoiled \/ file[f] = "stored"

\* RemovedAreGone, of one request.
Removes(q) ==
    /\ q.step = "commit" => q.keep \cap q.removed = {}
    /\ q.step = "discard" /\ Live(q.item) =>
        q.removed \cap FilesOf(row[q.item]) \subseteq spoiled

FilesSound ==
    /\ \A f \in Files : Alone(f)
    /\ \A a \in Admins : Removes(admin[a])

LEMMA KnownByOne ==
    ASSUME NEW x \in Items, NEW f
    PROVE  /\ f \in Covers(x) <=> CoverOf(x, f)
           /\ f \in Images(x) <=> ImageOf(x, f)
           /\ f \in Known(x) <=> KnownTo(x, f)
  <1>1. \A copy : copy \in CopiesOf(x) <=>
            \/ Live(x) /\ copy = row[x]
            \/ cache[x] # NoEntry /\ copy = cache[x].value
            \/ \E a \in Admins : /\ admin[a].step \in Holding /\ admin[a].item = x
                                 /\ copy = admin[a].seen
    BY DEF CopiesOf, Live
  <1>2. /\ f \in OldCovers(x) <=>
            \E a \in Admins : /\ admin[a].step \in {"commit", "discard"} /\ admin[a].item = x
                              /\ admin[a].op # "images" /\ f \in OldFiles(admin[a])
        /\ f \in OldImages(x) <=>
            \E a \in Admins : /\ admin[a].step \in {"commit", "discard"} /\ admin[a].item = x
                              /\ admin[a].op = "images" /\ f \in OldFiles(admin[a])
    BY DEF OldCovers, OldImages, Editors, Old, OldFiles, At
  <1>3. f \in Covers(x) <=> CoverOf(x, f)
    BY <1>1, <1>2 DEF Covers, CoverOf, ClaimsCover
  <1>4. f \in Images(x) <=> ImageOf(x, f)
    <2>1. f \in Images(x) <=> (\E copy \in CopiesOf(x) : f \in copy.images) \/ f \in OldImages(x)
      BY DEF Images
    <2>2. (\E copy \in CopiesOf(x) : f \in copy.images) <=>
            \/ Live(x) /\ f \in row[x].images
            \/ cache[x] # NoEntry /\ f \in cache[x].value.images
            \/ \E a \in Admins : /\ admin[a].step \in Holding /\ admin[a].item = x
                                 /\ f \in admin[a].seen.images
      BY <1>1
    <2> QED
      BY <1>2, <2>1, <2>2 DEF ImageOf, ClaimsImage
  <1> QED
    BY <1>3, <1>4 DEF Known, KnownTo

LEMMA HeldByOne ==
    ASSUME NEW a \in Admins, NEW f
    PROVE  /\ f \in Held(a) <=> Uploaded(admin[a], f)
           /\ f \in Made(a) <=> MadeBy(admin[a], f)
  BY DEF Held, Made, Uploaded, MadeBy, At

LEMMA ClaimsAreFiles ==
    ASSUME Base
    PROVE  /\ \A x \in Items : \A f : KnownTo(x, f) => f \in Files
           /\ \A a \in Admins : \A f : Uploaded(admin[a], f) \/ MadeBy(admin[a], f) => f \in Files
           /\ \A x \in Items : Live(x) => FilesOf(row[x]) \subseteq Files
  <1>1. ASSUME NEW a \in Admins, NEW x, NEW f,
               ClaimsCover(admin[a], x, f) \/ ClaimsImage(admin[a], x, f)
        PROVE  f \in Files
    <2>1. Sound(admin[a])
      BY DEF Base, AdminsSound
    <2> QED
      BY <1>1, <2>1, StepFields DEF Sound, ClaimsCover, ClaimsImage, OldFiles, Item
  <1>2. ASSUME NEW x \in Items, Live(x)
        PROVE  row[x].cover \in Files /\ row[x].images \subseteq Files
    BY <1>2, LiveIsItem DEF Item
  <1>3. ASSUME NEW x \in Items, cache[x] # NoEntry
        PROVE  cache[x].value.cover \in Files /\ cache[x].value.images \subseteq Files
    BY <1>3, CachedIsItem DEF Item
  <1>4. ASSUME NEW a \in Admins, NEW f, Uploaded(admin[a], f) \/ MadeBy(admin[a], f)
        PROVE  f \in Files
    <2>1. Sound(admin[a])
      BY DEF Base, AdminsSound
    <2> QED
      BY <1>4, <2>1, StepFields DEF Sound, Uploaded, MadeBy
  <1> QED
    BY <1>1, <1>2, <1>3, <1>4 DEF KnownTo, CoverOf, ImageOf, FilesOf

LEMMA TwoParts == IInv <=> Base /\ FilesSound
  <1>1. IInv <=> /\ TypeOK /\ SeenIsCurrent /\ CatalogCachesFollowRows
                 /\ WritesFit /\ ImagesWithinLimit
                 /\ FilesApart /\ RemovedAreGone /\ NamedFilesAreStored
    BY DEF IInv
  <1>2. /\ TypeOK /\ SeenIsCurrent /\ CatalogCachesFollowRows
        /\ WritesFit /\ ImagesWithinLimit
        <=> Base
    <2>1. (\A a \in Admins : Current(admin[a]) /\ Fits(admin[a])) <=> SeenIsCurrent /\ WritesFit
      BY DEF SeenIsCurrent, WritesFit, Current, Fits, At
    <2>2. (\A k \in Keys : FitsKey(k, cache[k]))
            <=> /\ \A x \in Items : cache[x] \in Entry(Item) \cup {NoEntry}
                /\ \A l \in Lists : cache[l] \in Entry(Listing) \cup {NoEntry}
      BY KeyKinds DEF FitsKey
    <2>3. ASSUME NEW x \in Items,
                 \A a \in Admins : admin[a].step \in Committed => admin[a].item \in Items
          PROVE  Owed(x) <=> Pending(x)
      BY <2>3, KeyKinds DEF Owed, Pending
    <2>4. ASSUME NEW l \in Lists,
                 \A a \in Admins : admin[a].step \in Committed => admin[a].item \in Items
          PROVE  Owed(l) <=> \E x \in Items : ListOf(x) = l /\ Pending(x)
      BY <2>4, KeyKinds DEF Owed, Pending, KeysOf
    <2>5. ASSUME admin \in [Admins -> AdminState]
          PROVE  \A a \in Admins : admin[a].step \in Committed => admin[a].item \in Items
      BY <2>5, StepFields
    <2>6. ASSUME admin \in [Admins -> AdminState], \A k \in Keys : FitsKey(k, cache[k])
          PROVE  (\A k \in Keys : Agrees(k, cache[k]) \/ Owed(k)) <=> CatalogCachesFollowRows
      <3>1. \A x \in Items : (Agrees(x, cache[x]) \/ Owed(x)) <=>
                (cache[x] # NoEntry /\ ~Pending(x)
                    => cache[x].late \/ cache[x].value = row[x])
        BY <2>3, <2>5, <2>6, KeyKinds DEF Agrees, Right
      <3>2. \A l \in Lists : (Agrees(l, cache[l]) \/ Owed(l)) <=>
                (cache[l] # NoEntry /\ (\A x \in Items : ListOf(x) = l => ~Pending(x))
                    => cache[l].late \/ cache[l].value = Listed(l))
        BY <2>4, <2>5, <2>6, KeyKinds DEF Agrees, Right
      <3>3. (\A k \in Keys : Agrees(k, cache[k]) \/ Owed(k)) <=>
                /\ \A x \in Items : Agrees(x, cache[x]) \/ Owed(x)
                /\ \A l \in Lists : Agrees(l, cache[l]) \/ Owed(l)
        BY KeyKinds
      <3> QED
        BY <3>1, <3>2, <3>3 DEF CatalogCachesFollowRows
    <2> QED
      BY <2>1, <2>2, <2>6
      DEF Base, TypeOK, FilesTyped, RowsFit, AdminsSound, CopiesSound, Sound
  <1>3. ASSUME Base
        PROVE  FilesApart /\ RemovedAreGone /\ NamedFilesAreStored <=> FilesSound
    <2>1. RemovedAreGone <=> \A a \in Admins : Removes(admin[a])
      BY DEF RemovedAreGone, Removes, At
    <2>2. FilesApart <=>
        /\ \A x \in Items : \A f :
            /\ CoverOf(x, f) /\ ImageOf(x, f) => f \in spoiled
            /\ KnownTo(x, f) => file[f] # "free"
            /\ \A a \in Admins : KnownTo(x, f) /\ Uploaded(admin[a], f) => f \in spoiled
            /\ \A y \in Items \ {x} : KnownTo(x, f) /\ KnownTo(y, f) => f \in spoiled
        /\ \A a \in Admins : \A f :
            /\ Uploaded(admin[a], f) \/ MadeBy(admin[a], f) => file[f] # "free"
            /\ Uploaded(admin[a], f) => f \in spoiled \/ file[f] = "stored"
            /\ \A b \in Admins \ {a} :
                Uploaded(admin[a], f) /\ Uploaded(admin[b], f) => f \in spoiled
      <3>1. FilesApart <=>
        /\ \A x \in Items : \A f :
            /\ f \in Covers(x) /\ f \in Images(x) => f \in spoiled
            /\ f \in Known(x) => file[f] # "free"
            /\ \A a \in Admins : f \in Known(x) /\ f \in Held(a) => f \in spoiled
            /\ \A y \in Items \ {x} : f \in Known(x) /\ f \in Known(y) => f \in spoiled
        /\ \A a \in Admins : \A f :
            /\ f \in Held(a) \/ f \in Made(a) => file[f] # "free"
            /\ f \in Held(a) => f \in spoiled \/ file[f] = "stored"
            /\ \A b \in Admins \ {a} : f \in Held(a) /\ f \in Held(b) => f \in spoiled
        BY DEF FilesApart, Known
      <3> QED
        BY <3>1, KnownByOne, HeldByOne
    <2>3. NamedFilesAreStored <=>
            \A x \in Items : \A f :
                Live(x) /\ f \in FilesOf(row[x]) => f \in spoiled \/ file[f] = "stored"
      BY DEF NamedFilesAreStored
    <2>4. FilesApart /\ NamedFilesAreStored <=> \A f \in Files : Alone(f)
      <3>1. ASSUME FilesApart, NamedFilesAreStored, NEW f \in Files
            PROVE  Alone(f)
        BY <2>2, <2>3, <3>1 DEF Alone
      <3>2. ASSUME \A f \in Files : Alone(f)
            PROVE  FilesApart /\ NamedFilesAreStored
        BY <1>3, <2>2, <2>3, <3>2, ClaimsAreFiles DEF Alone, KnownTo
      <3> QED
        BY <3>1, <3>2
    <2> QED
      BY <2>1, <2>4 DEF FilesSound
  <1> QED
    BY <1>1, <1>2, <1>3

-----------------------------------------------------------------------------
(* How the files fare in a step.                                           *)

LEMMA InitFiles == Init => FilesSound
  <1> SUFFICES ASSUME Init PROVE FilesSound
    OBVIOUS
  <1>1. \A x \in Items : ~Live(x) /\ cache[x] = NoEntry
    BY DEF Init, Live, Keys
  <1>2. \A a \in Admins : admin[a].step = "idle"
    BY DEF Init, Idle
  <1>3. \A x, f : \A a \in Admins : ~ClaimsCover(admin[a], x, f) /\ ~ClaimsImage(admin[a], x, f)
    BY <1>2 DEF ClaimsCover, ClaimsImage, Holding
  <1>4. \A x \in Items : \A f : ~KnownTo(x, f)
    BY <1>1, <1>3 DEF KnownTo, CoverOf, ImageOf
  <1>5. \A f : \A a \in Admins : ~Uploaded(admin[a], f) /\ ~MadeBy(admin[a], f)
    BY <1>2 DEF Uploaded, MadeBy
  <1>6. \A a \in Admins : Removes(admin[a])
    BY <1>2 DEF Removes
  <1> QED
    BY <1>1, <1>4, <1>5, <1>6 DEF FilesSound, Alone, KnownTo

\* What a may delete: what it uploaded, or replaced, or the code has lost track of.
Expendable(a, f) ==
    \/ f \in spoiled'
    \/ Uploaded(admin[a], f)
    \/ admin[a].step = "discard" /\ f \in admin[a].removed

FilesMove(a) ==
    \A f \in Files :
        \/ file'[f] = file[f]
        \/ file[f] = "free" /\ file'[f] = "stored"
        \/ file'[f] = "deleted" /\ Expendable(a, f)

\* Nothing else that anybody relies on is deleted.
LEMMA OthersFilesStay ==
    ASSUME FilesSound, AdminsSound, NEW a \in Admins, NEW f \in Files,
           spoiled \subseteq spoiled', FilesMove(a), f \notin spoiled'
    PROVE  /\ \A b \in Admins \ {a} : Uploaded(admin[b], f) => file'[f] = "stored"
           /\ \A x \in Items : Live(x) /\ f \in FilesOf(row[x]) => file'[f] = "stored"
           /\ file[f] # "free" => file'[f] # "free"
  <1>1. Alone(f) /\ f \notin spoiled
    BY DEF FilesSound
  <1>2. admin[a].step = "discard" /\ f \in admin[a].removed =>
            admin[a].item \in Items /\ KnownTo(admin[a].item, f)
    <2>1. admin[a].step = "discard" => admin[a].item \in Items
      BY StepFields DEF AdminsSound, Sound
    <2> QED
      BY <2>1 DEF KnownTo, CoverOf, ImageOf, ClaimsCover, ClaimsImage, OldFiles
  <1>3. ASSUME NEW b \in Admins \ {a}, Uploaded(admin[b], f)
        PROVE  file'[f] = "stored"
    <2>1. file[f] = "stored" /\ ~Uploaded(admin[a], f)
      BY <1>1, <1>3 DEF Alone
    <2>2. ~(admin[a].step = "discard" /\ f \in admin[a].removed)
      BY <1>1, <1>2, <1>3 DEF Alone
    <2> QED
      BY <2>1, <2>2 DEF FilesMove, Expendable
  <1>4. ASSUME NEW x \in Items, Live(x), f \in FilesOf(row[x])
        PROVE  file'[f] = "stored"
    <2>1. KnownTo(x, f)
      BY <1>4 DEF KnownTo, CoverOf, ImageOf, FilesOf
    <2>2. file[f] = "stored" /\ ~Uploaded(admin[a], f)
      BY <1>1, <1>4, <2>1 DEF Alone
    <2>3. ~(admin[a].step = "discard" /\ f \in admin[a].removed)
      <3>1. SUFFICES ASSUME admin[a].step = "discard", f \in admin[a].removed PROVE FALSE
        OBVIOUS
      <3>2. admin[a].item = x
        BY <1>1, <1>2, <2>1, <3>1 DEF Alone
      <3> QED
        BY <1>1, <1>4, <3>1, <3>2 DEF FilesSound, Removes
    <2> QED
      BY <2>2, <2>3 DEF FilesMove, Expendable
  <1> QED
    BY <1>1, <1>3, <1>4 DEF FilesMove

\* No row changes.  What a holds next it held, knew or has just uploaded.
LEMMA StillSound ==
    ASSUME Base, Base', FilesSound, NEW a \in Admins, NEW q, Become(a, q), UNCHANGED row,
           spoiled \subseteq spoiled', FilesMove(a),
           \A x \in Items : cache'[x] # NoEntry =>
              \/ cache[x] # NoEntry /\ cache'[x].value = cache[x].value
              \/ /\ admin[a].step \in Holding /\ admin[a].item = x
                 /\ cache'[x].value = admin[a].seen,
           \A x \in Items : \A f : ClaimsCover(q, x, f) => CoverOf(x, f),
           \A x \in Items : \A f : ClaimsImage(q, x, f) => ImageOf(x, f),
           \A f \in Files : Uploaded(q, f) /\ f \notin spoiled' =>
              /\ Uploaded(admin[a], f) \/ file[f] = "free"
              /\ file'[f] = "stored",
           \A f \in Files : Uploaded(q, f) \/ MadeBy(q, f) => file'[f] # "free",
           q.step = "commit" => q.keep \cap q.removed = {}, q.step # "discard"
    PROVE  FilesSound'
  <1>1. admin'[a] = q /\ \A b \in Admins \ {a} : admin'[b] = admin[b]
    BY DEF Become, Base, AdminsSound
  <1>2. \A x : Live(x)' = Live(x)
    BY DEF Live
  <1>3. ASSUME NEW x \in Items, NEW f
        PROVE  /\ CoverOf(x, f)' => CoverOf(x, f)
               /\ ImageOf(x, f)' => ImageOf(x, f)
    <2>1. CoverOf(x, f)' <=>
            \/ Live(x)' /\ f = row'[x].cover
            \/ cache'[x] # NoEntry /\ f = cache'[x].value.cover
            \/ \E b \in Admins : ClaimsCover(admin'[b], x, f)
      BY DEF CoverOf, ClaimsCover, OldFiles
    <2>2. ImageOf(x, f)' <=>
            \/ Live(x)' /\ f \in row'[x].images
            \/ cache'[x] # NoEntry /\ f \in cache'[x].value.images
            \/ \E b \in Admins : ClaimsImage(admin'[b], x, f)
      BY DEF ImageOf, ClaimsImage, OldFiles
    <2>3. cache'[x] # NoEntry /\ f = cache'[x].value.cover => CoverOf(x, f)
      BY DEF CoverOf, ClaimsCover
    <2>4. cache'[x] # NoEntry /\ f \in cache'[x].value.images => ImageOf(x, f)
      BY DEF ImageOf, ClaimsImage
    <2>5. \A b \in Admins : ClaimsCover(admin'[b], x, f) => CoverOf(x, f)
      BY <1>1 DEF CoverOf
    <2>6. \A b \in Admins : ClaimsImage(admin'[b], x, f) => ImageOf(x, f)
      BY <1>1 DEF ImageOf
    <2> QED
      BY <1>2, <2>1, <2>2, <2>3, <2>4, <2>5, <2>6 DEF CoverOf, ImageOf
  <1>4. ASSUME NEW f \in Files
        PROVE  Alone(f)'
    <2>1. Alone(f) /\ (f \in spoiled => f \in spoiled')
      BY DEF FilesSound
    <2>2. \A x \in Items : KnownTo(x, f)' => KnownTo(x, f)
      BY <1>3 DEF KnownTo
    <2>3. \A b \in Admins : /\ Uploaded(admin[b], f)' <=> Uploaded(admin'[b], f)
                            /\ MadeBy(admin[b], f)' <=> MadeBy(admin'[b], f)
      BY DEF Uploaded, MadeBy
    <2>4. file[f] # "free" => file'[f] # "free"
      BY DEF FilesMove
    <2>5. \A x \in Items, b \in Admins :
            KnownTo(x, f)' /\ Uploaded(admin[b], f)' => f \in spoiled'
      BY <1>1, <2>1, <2>2, <2>3 DEF Alone
    <2>6. \A b, c \in Admins :
            Uploaded(admin[b], f)' /\ Uploaded(admin[c], f)' /\ b # c => f \in spoiled'
      BY <1>1, <2>1, <2>3 DEF Alone
    <2>7. \A b \in Admins :
            /\ Uploaded(admin[b], f)' \/ MadeBy(admin[b], f)' => file'[f] # "free"
            /\ Uploaded(admin[b], f)' => f \in spoiled' \/ file'[f] = "stored"
      <3>1. \A b \in Admins \ {a} : Uploaded(admin[b], f) \/ MadeBy(admin[b], f) => file'[f] # "free"
        BY <2>1, <2>4 DEF Alone
      <3>2. \A b \in Admins \ {a} : Uploaded(admin[b], f) => f \in spoiled' \/ file'[f] = "stored"
        BY OthersFilesStay DEF Base
      <3>3. /\ Uploaded(q, f) \/ MadeBy(q, f) => file'[f] # "free"
            /\ Uploaded(q, f) => f \in spoiled' \/ file'[f] = "stored"
        OBVIOUS
      <3> QED
        BY <1>1, <2>3, <3>1, <3>2, <3>3
    <2>8. \A x \in Items : Live(x)' /\ f \in FilesOf(row'[x]) => f \in spoiled' \/ file'[f] = "stored"
      BY <1>2, OthersFilesStay DEF Base
    <2>9. \A x \in Items : KnownTo(x, f)' => file'[f] # "free"
      BY <2>1, <2>2, <2>4 DEF Alone
    <2>10. \A x \in Items : CoverOf(x, f)' /\ ImageOf(x, f)' => f \in spoiled'
      BY <1>3, <2>1 DEF Alone
    <2>11. \A x, y \in Items : KnownTo(x, f)' /\ KnownTo(y, f)' /\ x # y => f \in spoiled'
      BY <2>1, <2>2 DEF Alone
    <2> QED
      BY <2>5, <2>6, <2>7, <2>8, <2>9, <2>10, <2>11 DEF Alone, FilesOf
  <1>5. ASSUME NEW b \in Admins
        PROVE  Removes(admin[b])'
    <2>1. Removes(admin[b])
      BY DEF FilesSound
    <2> QED
      BY <1>1, <1>2, <2>1 DEF Removes
  <1> QED
    BY <1>4, <1>5 DEF FilesSound

\* A holder that was overtaken claims what it claimed.
LEMMA LateClaims ==
    ASSUME AdminsSound, NEW a \in Admins, NEW x, NEW q, Commit(a, x, q),
           NEW b \in Admins, b # a
    PROVE  /\ \A y \in Items : \A f :
                /\ ClaimsCover(admin'[b], y, f) <=> ClaimsCover(admin[b], y, f)
                /\ ClaimsImage(admin'[b], y, f) <=> ClaimsImage(admin[b], y, f)
           /\ \A f : /\ Uploaded(admin'[b], f) <=> Uploaded(admin[b], f)
                     /\ MadeBy(admin'[b], f) <=> MadeBy(admin[b], f)
           /\ admin'[b].step = admin[b].step
           /\ admin[b].step = "discard" =>
                admin'[b].item = admin[b].item /\ admin'[b].removed = admin[b].removed
           /\ admin[b].step = "commit" => admin'[b] = admin[b]
  <1>1. CASE b \notin Holders(x)
    BY <1>1 DEF Commit
  <1>2. CASE b \in Holders(x)
    <2>1. admin'[b] = [admin[b] EXCEPT !.late = TRUE]
      BY <1>2 DEF Commit
    <2>2. admin[b].step \in Holding \cup {"fillList"} /\ admin[b] \in AdminState
      BY <1>2 DEF Holders, At, AdminsSound
    <2>3. /\ admin'[b].step = admin[b].step /\ admin'[b].seen = admin[b].seen
          /\ admin[b].step \in Holding => admin'[b].item = admin[b].item
          /\ admin[b].step = "created" => /\ admin'[b].cover = admin[b].cover
                                          /\ admin'[b].images = admin[b].images
          /\ admin[b].step = "discard" => /\ admin'[b].op = admin[b].op
                                          /\ admin'[b].removed = admin[b].removed
      BY <2>1, <2>2, LateFields
    <2>4. admin[b].step \notin {"commit", "create", "cleanup"}
      BY <2>2 DEF Holding
    <2> QED
      BY <2>2, <2>3, <2>4
      DEF ClaimsCover, ClaimsImage, Uploaded, MadeBy, OldFiles, Holding
  <1> QED
    BY <1>1, <1>2

\* A row x is written.  Its files are those of copies of x, or covers and
\* images which a has uploaded or which the code has lost track of.
CommitFits(a, x, value, q, covers, images) ==
    /\ row' = [row EXCEPT ![x] = value] /\ Commit(a, x, q) /\ UNCHANGED cache
    /\ spoiled \cup (covers \cap images) \subseteq spoiled'
    /\ \A f \in covers \cup images :
          /\ f \in spoiled' \/ Uploaded(admin[a], f) \/ file[f] = "free"
          /\ file'[f] # "free"
          /\ file[f] = "free" => file'[f] = "stored"
    /\ \A f \in Files : \/ file'[f] = file[f]
                        \/ file[f] = "free" /\ file'[f] = "stored"
    /\ value \in Item =>
          /\ CoverOf(x, value.cover) \/ value.cover \in covers
          /\ \A f \in value.images : ImageOf(x, f) \/ f \in images
          /\ \A f \in FilesOf(value) :
                \/ Live(x) /\ f \in FilesOf(row[x])
                \/ f \in covers \cup images \cup spoiled'
    /\ q.step \in {"created", "announce", "discard", "forget"}
    /\ q.step \in Holding => value \in Item /\ q.item = x /\ q.seen = value
    /\ q.step = "discard" =>
          /\ q.removed \cap FilesOf(value) \subseteq spoiled'
          /\ \A f \in q.removed : /\ q.op # "images" => CoverOf(x, f)
                                  /\ q.op = "images" => ImageOf(x, f)
    /\ \A f : MadeBy(q, f) => f \in covers \cup images

LEMMA CommitSound ==
    ASSUME Base, Base', FilesSound, NEW a \in Admins, NEW x \in Items,
           NEW value \in Item \cup {Gone}, NEW q, NEW covers, NEW images,
           CommitFits(a, x, value, q, covers, images)
    PROVE  FilesSound'
  <1> USE DEF CommitFits
  <1>1. /\ row \in Table /\ row' \in Table /\ row'[x] = value
        /\ \A y \in Items \ {x} : row'[y] = row[y]
    BY DEF Base, RowsFit, Table, Value
  <1>2. admin'[a] = q
    BY DEF Commit
  <1>3. /\ \A y \in Items \ {x} : Live(y)' <=> Live(y)
        /\ Live(x)' <=> value \in Item
    BY <1>1, NoEntryAssumption DEF Live
  <1>4. q.step \in Holding \/ q.step = "forget"
    BY DEF Holding
  <1>5. ASSUME NEW y \in Items, NEW f
        PROVE  /\ CoverOf(y, f)' => CoverOf(y, f) \/ (y = x /\ f \in covers)
               /\ ImageOf(y, f)' => ImageOf(y, f) \/ (y = x /\ f \in images)
    <2>1. CoverOf(y, f)' <=>
            \/ Live(y)' /\ f = row'[y].cover
            \/ cache[y] # NoEntry /\ f = cache[y].value.cover
            \/ \E b \in Admins : ClaimsCover(admin'[b], y, f)
      BY DEF CoverOf, ClaimsCover, OldFiles
    <2>2. ImageOf(y, f)' <=>
            \/ Live(y)' /\ f \in row'[y].images
            \/ cache[y] # NoEntry /\ f \in cache[y].value.images
            \/ \E b \in Admins : ClaimsImage(admin'[b], y, f)
      BY DEF ImageOf, ClaimsImage, OldFiles
    <2>3. /\ Live(y)' /\ f = row'[y].cover => CoverOf(y, f) \/ (y = x /\ f \in covers)
          /\ Live(y)' /\ f \in row'[y].images => ImageOf(y, f) \/ (y = x /\ f \in images)
      <3>1. CASE y = x
        BY <1>1, <1>3, <3>1
      <3>2. CASE y # x
        BY <1>1, <1>3, <3>2 DEF CoverOf, ImageOf
      <3> QED
        BY <3>1, <3>2
    <2>4. /\ ClaimsCover(q, y, f) => CoverOf(y, f) \/ (y = x /\ f \in covers)
          /\ ClaimsImage(q, y, f) => ImageOf(y, f) \/ (y = x /\ f \in images)
      BY <1>4 DEF ClaimsCover, ClaimsImage, OldFiles, Holding
    <2>5. ASSUME NEW b \in Admins
          PROVE  /\ ClaimsCover(admin'[b], y, f) => CoverOf(y, f) \/ (y = x /\ f \in covers)
                 /\ ClaimsImage(admin'[b], y, f) => ImageOf(y, f) \/ (y = x /\ f \in images)
      <3>1. CASE b = a
        BY <1>2, <2>4, <3>1
      <3>2. CASE b # a
        BY <3>2, LateClaims DEF Base, CoverOf, ImageOf
      <3> QED
        BY <3>1, <3>2
    <2> QED
      BY <2>1, <2>2, <2>3, <2>5 DEF CoverOf, ImageOf
  <1>6. ASSUME NEW f \in Files
        PROVE  Alone(f)'
    <2>1. /\ Alone(f) /\ (f \in spoiled => f \in spoiled')
          /\ file[f] # "free" => file'[f] # "free"
          /\ file[f] = "stored" => file'[f] = "stored"
      BY DEF FilesSound
    <2>2. \A y \in Items : KnownTo(y, f)' => KnownTo(y, f) \/ (y = x /\ f \in covers \cup images)
      BY <1>5 DEF KnownTo
    <2>3. \A b \in Admins : /\ Uploaded(admin[b], f)' <=> Uploaded(admin'[b], f)
                            /\ MadeBy(admin[b], f)' <=> MadeBy(admin'[b], f)
      BY DEF Uploaded, MadeBy
    <2>4. /\ ~Uploaded(admin'[a], f)
          /\ MadeBy(admin'[a], f) => f \in covers \cup images
      BY <1>2 DEF Uploaded
    <2>5. \A b \in Admins \ {a} : /\ Uploaded(admin'[b], f) <=> Uploaded(admin[b], f)
                                  /\ MadeBy(admin'[b], f) <=> MadeBy(admin[b], f)
      BY LateClaims DEF Base
    <2>6. f \in covers \cup images =>
            \/ f \in spoiled'
            \/ /\ \A y \in Items : ~KnownTo(y, f)
               /\ \A b \in Admins \ {a} : ~Uploaded(admin[b], f)
      BY <2>1 DEF Alone
    <2>7. \A y \in Items, b \in Admins :
            KnownTo(y, f)' /\ Uploaded(admin[b], f)' => f \in spoiled'
      BY <2>1, <2>2, <2>3, <2>4, <2>5, <2>6 DEF Alone
    <2>8. \A b, c \in Admins :
            Uploaded(admin[b], f)' /\ Uploaded(admin[c], f)' /\ b # c => f \in spoiled'
      BY <2>1, <2>3, <2>4, <2>5 DEF Alone
    <2>9. \A b \in Admins :
            /\ Uploaded(admin[b], f)' \/ MadeBy(admin[b], f)' => file'[f] # "free"
            /\ Uploaded(admin[b], f)' => f \in spoiled' \/ file'[f] = "stored"
      BY <2>1, <2>3, <2>4, <2>5 DEF Alone
    <2>10. \A y \in Items : KnownTo(y, f)' => file'[f] # "free"
      BY <2>1, <2>2 DEF Alone
    <2>11. \A y \in Items : CoverOf(y, f)' /\ ImageOf(y, f)' => f \in spoiled'
      BY <1>5, <2>1, <2>6 DEF Alone, KnownTo
    <2>12. \A y, z \in Items : KnownTo(y, f)' /\ KnownTo(z, f)' /\ y # z => f \in spoiled'
      BY <2>1, <2>2, <2>6 DEF Alone
    <2>13. ASSUME NEW y \in Items, Live(y)', f \in FilesOf(row'[y])
           PROVE  f \in spoiled' \/ file'[f] = "stored"
      <3>1. CASE y # x
        BY <1>1, <1>3, <2>1, <2>13, <3>1 DEF Alone
      <3>2. CASE y = x
        <4>1. \/ Live(x) /\ f \in FilesOf(row[x])
              \/ f \in covers \cup images \cup spoiled'
          BY <1>1, <1>3, <2>13, <3>2
        <4>2. f \in covers \cup images =>
                f \in spoiled' \/ file[f] = "stored" \/ file[f] = "free"
          BY <2>1 DEF Alone
        <4> QED
          BY <2>1, <4>1, <4>2 DEF Alone
      <3> QED
        BY <3>1, <3>2
    <2> QED
      BY <2>7, <2>8, <2>9, <2>10, <2>11, <2>12, <2>13 DEF Alone, FilesOf
  <1>7. ASSUME NEW b \in Admins
        PROVE  Removes(admin[b])'
    <2>1. CASE b = a
      BY <1>1, <1>2, <2>1 DEF Removes, FilesOf, Holding
    <2>2. CASE b # a
      <3>1. Removes(admin[b])
        BY DEF FilesSound
      <3>2. /\ admin'[b].step = admin[b].step
            /\ admin[b].step = "discard" =>
                admin'[b].item = admin[b].item /\ admin'[b].removed = admin[b].removed
            /\ admin[b].step = "commit" => admin'[b] = admin[b]
        BY <2>2, LateClaims DEF Base
      <3>3. ASSUME admin[b].step = "discard", Live(admin[b].item)',
                   NEW f \in admin[b].removed, f \in FilesOf(row'[admin[b].item])
            PROVE  f \in spoiled'
        <4>1. admin[b].item \in Items /\ f \in Files
          BY <3>3, StepFields DEF Base, AdminsSound, Sound
        <4>2. CASE admin[b].item # x
          BY <1>1, <1>3, <3>1, <3>2, <3>3, <4>1, <4>2 DEF Removes
        <4>3. CASE admin[b].item = x
          <5>1. KnownTo(x, f)
            BY <3>3, <4>3 DEF KnownTo, CoverOf, ImageOf, ClaimsCover, ClaimsImage, OldFiles
          <5>2. \/ Live(x) /\ f \in FilesOf(row[x])
                \/ f \in covers \cup images \cup spoiled'
            BY <1>1, <1>3, <3>2, <3>3, <4>3
          <5>3. f \in covers \cup images => f \in spoiled'
            BY <4>1, <5>1 DEF FilesSound, Alone
          <5> QED
            BY <3>1, <3>3, <4>3, <5>2, <5>3 DEF Removes
        <4> QED
          BY <4>2, <4>3
      <3> QED
        BY <3>1, <3>2, <3>3 DEF Removes, FilesOf
    <2> QED
      BY <2>1, <2>2
  <1> QED
    BY <1>6, <1>7 DEF FilesSound

-----------------------------------------------------------------------------
(* The second part is inductive: the actions that write no row.            *)

\* A request that claims nothing.
LEMMA NoClaims ==
    ASSUME NEW q, q.step \in {"idle", "fillList", "create", "cleanup"}
    PROVE  \A x, f : ~ClaimsCover(q, x, f) /\ ~ClaimsImage(q, x, f)
  BY DEF ClaimsCover, ClaimsImage, Holding

\* A request ends.
LEMMA RestFiles ==
    ASSUME Base, Base', FilesSound, NEW a \in Admins, Become(a, Idle), UNCHANGED row,
           spoiled \subseteq spoiled', FilesMove(a),
           \A x \in Items : cache'[x] # NoEntry =>
              \/ cache[x] # NoEntry /\ cache'[x].value = cache[x].value
              \/ /\ admin[a].step \in Holding /\ admin[a].item = x
                 /\ cache'[x].value = admin[a].seen
    PROVE  FilesSound'
  <1>1. Idle.step = "idle"
    BY DEF Idle
  <1>2. \A f : ~Uploaded(Idle, f) /\ ~MadeBy(Idle, f)
    BY <1>1 DEF Uploaded, MadeBy
  <1>3. \A x, f : ~ClaimsCover(Idle, x, f) /\ ~ClaimsImage(Idle, x, f)
    BY <1>1, NoClaims
  <1> QED
    BY <1>1, <1>2, <1>3, StillSound

LEMMA SameFilesMove ==
    ASSUME NEW a \in Admins, UNCHANGED file
    PROVE  FilesMove(a)
  BY DEF FilesMove

LEMMA UploadMoves ==
    ASSUME FilesTyped, NEW a \in Admins, NEW files, Upload(files)
    PROVE  /\ FilesMove(a)
           /\ \A f \in files : f \in Files /\ file[f] = "free" /\ file'[f] = "stored"
  BY DEF FilesTyped, FilesMove, Upload, Fresh

LEMMA DestroyMoves ==
    ASSUME FilesTyped, NEW a \in Admins, NEW files, Destroy(files),
           \A f \in files : Expendable(a, f)
    PROVE  FilesMove(a)
  BY DEF FilesTyped, FilesMove, Destroy

LEMMA OutdatedValues ==
    ASSUME Base, NEW keys, NEW x \in Items, Outdated(keys)[x] # NoEntry
    PROVE  cache[x] # NoEntry /\ Outdated(keys)[x].value = cache[x].value
  <1>1. x \in Keys
    BY KeyKinds
  <1>2. CASE cache[x] = NoEntry
    BY <1>1, <1>2 DEF Outdated
  <1>3. CASE cache[x] # NoEntry
    <2>1. cache[x] \in Entry(Item)
      BY <1>1, <1>3, KeyKinds DEF Base, CopiesSound, FitsKey
    <2> QED
      BY <1>1, <1>3, <2>1 DEF Outdated, Entry
  <1> QED
    BY <1>2, <1>3

LEMMA AnnouncedValues ==
    ASSUME Base, NEW a \in Admins, admin[a].step \in Holding, NEW lost,
           cache' = PartlyAnnounced(a, lost), NEW x \in Items, cache'[x] # NoEntry
    PROVE  \/ cache[x] # NoEntry /\ cache'[x].value = cache[x].value
           \/ admin[a].item = x /\ cache'[x].value = admin[a].seen
  <1>1. x \in Keys /\ DOMAIN cache = Keys /\ admin[a].item \in Items
    BY KeyKinds, StepFields DEF Base, CopiesSound, AdminsSound, Sound
  <1>2. CASE x \in lost
    BY <1>1, <1>2, OutdatedValues DEF PartlyAnnounced
  <1>3. CASE x \notin lost
    <2>1. cache'[x] = Announced(a)[x]
      BY <1>1, <1>3 DEF PartlyAnnounced
    <2>2. x # ListOf(admin[a].item)
      BY <1>1, KeyKinds
    <2>3. CASE admin[a].item = x
      <3>1. Announced(a)[x] = Filled(a)
        BY <1>1, <2>2, <2>3 DEF Announced
      <3> QED
        BY <2>1, <2>3, <3>1 DEF Filled
    <2>4. CASE admin[a].item # x
      <3>1. Announced(a)[x] = cache[x]
        BY <1>1, <2>2, <2>4 DEF Announced
      <3> QED
        BY <2>1, <3>1
    <2> QED
      BY <2>3, <2>4
  <1> QED
    BY <1>2, <1>3

LEMMA CreateFiles ==
    ASSUME Base, FilesSound, NEW a \in Admins, createProduct(a)
    PROVE  FilesSound'
  <1>1. PICK cover \in Fresh : \E images \in SUBSET (Fresh \ {cover}) :
            /\ Upload({cover} \cup images)
            /\ Become(a, [step |-> "create", cover |-> cover, images |-> images,
                          attempt |-> 0, made |-> {}])
    BY DEF createProduct
  <1>2. PICK images \in SUBSET (Fresh \ {cover}) :
            /\ Upload({cover} \cup images)
            /\ Become(a, [step |-> "create", cover |-> cover, images |-> images,
                          attempt |-> 0, made |-> {}])
    BY <1>1
  <1> DEFINE q == [step |-> "create", cover |-> cover, images |-> images,
                   attempt |-> 0, made |-> {}]
  <1>3. /\ FilesMove(a)
        /\ \A f \in {cover} \cup images :
            f \in Files /\ file[f] = "free" /\ file'[f] = "stored"
    BY <1>2, UploadMoves DEF Base
  <1>4. q.step = "create" /\ q.cover = cover /\ q.images = images
    OBVIOUS
  <1> HIDE DEF q
  <1>5. \A f \in Files : Uploaded(q, f) \/ MadeBy(q, f) => f \in {cover} \cup images
    BY <1>4 DEF Uploaded, MadeBy
  <1>6. \A f \in Files : /\ Uploaded(q, f) => file[f] = "free" /\ file'[f] = "stored"
                         /\ MadeBy(q, f) => file'[f] # "free"
    BY <1>3, <1>5
  <1>7. UNCHANGED <<row, cache, spoiled>> /\ Become(a, q)
    BY <1>2 DEF createProduct, q
  <1> QED
    BY <1>3, <1>4, <1>6, <1>7, CreateBase, NoClaims, StillSound

\* The state before the clean-up.
LEMMA ToCleanupFiles ==
    ASSUME Base, FilesSound, NEW a \in Admins, admin[a].step \in {"create", "created"},
           admin[a].step = "created" => admin[a].made # {}, ToCleanup(a), UNCHANGED file
    PROVE  LET q == [step |-> "cleanup", files |-> {admin[a].cover} \cup admin[a].images]
           IN  /\ spoiled \subseteq spoiled'
               /\ \A f \in Files : Uploaded(q, f) => file'[f] # "free"
               /\ \A f \in Files : Uploaded(q, f) /\ f \notin spoiled' =>
                    Uploaded(admin[a], f) /\ file'[f] = "stored"
  <1> DEFINE q == [step |-> "cleanup", files |-> {admin[a].cover} \cup admin[a].images]
  <1>1. \A f : Uploaded(q, f) <=> f = admin[a].cover \/ f \in admin[a].images
    BY DEF Uploaded
  <1>2. spoiled' = spoiled \cup IF admin[a].made = {} THEN {}
                               ELSE {admin[a].cover} \cup admin[a].images
    BY DEF ToCleanup
  <1>3. ASSUME NEW f \in Files, Uploaded(q, f)
        PROVE  file[f] # "free"
    <2>1. MadeBy(admin[a], f)
      BY <1>1, <1>3 DEF MadeBy
    <2> QED
      BY <2>1 DEF FilesSound, Alone
  <1>4. ASSUME NEW f \in Files, Uploaded(q, f), f \notin spoiled'
        PROVE  Uploaded(admin[a], f) /\ file[f] = "stored"
    <2>1. admin[a].made = {} /\ f \notin spoiled
      BY <1>1, <1>2, <1>4
    <2>2. Uploaded(admin[a], f)
      BY <1>1, <1>4, <2>1 DEF Uploaded
    <2> QED
      BY <2>1, <2>2 DEF FilesSound, Alone
  <1> QED
    BY <1>2, <1>3, <1>4

LEMMA CleanupStarts ==
    ASSUME Base, Base', FilesSound, NEW a \in Admins, admin[a].step \in {"create", "created"},
           admin[a].step = "created" => admin[a].made # {}, ToCleanup(a),
           UNCHANGED <<file, row>>,
           \A x \in Items : cache'[x] # NoEntry =>
              \/ cache[x] # NoEntry /\ cache'[x].value = cache[x].value
              \/ /\ admin[a].step \in Holding /\ admin[a].item = x
                 /\ cache'[x].value = admin[a].seen
    PROVE  FilesSound'
  <1> DEFINE q == [step |-> "cleanup", files |-> {admin[a].cover} \cup admin[a].images]
  <1>1. /\ spoiled \subseteq spoiled'
        /\ \A f \in Files : Uploaded(q, f) => file'[f] # "free"
        /\ \A f \in Files : Uploaded(q, f) /\ f \notin spoiled' =>
            Uploaded(admin[a], f) /\ file'[f] = "stored"
    BY ToCleanupFiles
  <1>2. q.step = "cleanup" /\ Become(a, q) /\ FilesMove(a)
    BY SameFilesMove DEF ToCleanup
  <1> HIDE DEF q
  <1>3. \A f : ~MadeBy(q, f)
    BY <1>2 DEF MadeBy
  <1> QED
    BY <1>1, <1>2, <1>3, NoClaims, StillSound

LEMMA InsertFailsFiles ==
    ASSUME Base, FilesSound, NEW a \in Admins, InsertFails(a)
    PROVE  FilesSound'
  <1>1. admin[a].step = "create" /\ Base' /\ UNCHANGED <<file, row, cache>>
    BY InsertFailsBase DEF InsertFails, At
  <1>2. CASE admin' = [admin EXCEPT ![a].attempt = @ + 1] /\ UNCHANGED spoiled
    <2> DEFINE q == [admin[a] EXCEPT !.attempt = @ + 1]
    <2>1. admin[a] \in [step : {"create"}, cover : Files, images : SUBSET Files,
                        attempt : 0 .. MAX_RETRIES, made : SUBSET Products]
      BY <1>1 DEF Base, AdminsSound, AdminState, Idle
    <2>2. /\ q.step = "create" /\ q.cover = admin[a].cover /\ q.images = admin[a].images
          /\ q.made = admin[a].made
      BY <2>1
    <2>3. Become(a, q) /\ FilesMove(a)
      BY <1>1, <1>2, SameFilesMove DEF Become
    <2> HIDE DEF q
    <2>4. \A f : /\ Uploaded(q, f) <=> Uploaded(admin[a], f)
                 /\ MadeBy(q, f) <=> MadeBy(admin[a], f)
      BY <1>1, <2>2 DEF Uploaded, MadeBy
    <2>5. /\ \A f \in Files : Uploaded(q, f) /\ f \notin spoiled' =>
                Uploaded(admin[a], f) /\ file'[f] = "stored"
          /\ \A f \in Files : Uploaded(q, f) \/ MadeBy(q, f) => file'[f] # "free"
      BY <1>1, <1>2, <2>4 DEF FilesSound, Alone
    <2> QED
      BY <1>1, <1>2, <2>2, <2>3, <2>5, NoClaims, StillSound
  <1>3. CASE ToCleanup(a)
    BY <1>1, <1>3, CleanupStarts
  <1> QED
    BY <1>2, <1>3 DEF InsertFails

LEMMA CreatedFiles ==
    ASSUME Base, FilesSound, NEW a \in Admins, ProductCreated(a)
    PROVE  FilesSound'
  <1>1. /\ admin[a].step = "created" /\ admin[a].step \in Holding /\ Base'
        /\ UNCHANGED <<file, row, spoiled>>
    BY CreatedBase DEF ProductCreated, At, Holding
  <1>2. cache' = PartlyAnnounced(a, {})
    BY NothingLost DEF ProductCreated
  <1>3. admin[a].made # {}
    BY <1>1 DEF Base, AdminsSound, Sound, Fits
  <1> DEFINE q == [step |-> "create", cover |-> admin[a].cover,
                   images |-> admin[a].images, attempt |-> admin[a].attempt + 1,
                   made |-> admin[a].made]
  <1>4. Become(a, q) /\ FilesMove(a)
    BY <1>1, SameFilesMove DEF ProductCreated
  <1>5. /\ q.step = "create" /\ q.cover = admin[a].cover /\ q.images = admin[a].images
        /\ q.made = admin[a].made
    OBVIOUS
  <1> HIDE DEF q
  <1>6. \A f : ~Uploaded(q, f) /\ (MadeBy(q, f) => MadeBy(admin[a], f))
    BY <1>1, <1>3, <1>5 DEF Uploaded, MadeBy
  <1>7. \A f \in Files : MadeBy(q, f) => file'[f] # "free"
    BY <1>1, <1>6 DEF FilesSound, Alone
  <1>8. \A x \in Items : cache'[x] # NoEntry =>
              \/ cache[x] # NoEntry /\ cache'[x].value = cache[x].value
              \/ admin[a].item = x /\ cache'[x].value = admin[a].seen
    BY <1>1, <1>2, AnnouncedValues
  <1> QED
    BY <1>1, <1>4, <1>5, <1>6, <1>7, <1>8, NoClaims, StillSound

LEMMA CreatedFailsFiles ==
    ASSUME Base, FilesSound, NEW a \in Admins, ProductCreatedFails(a)
    PROVE  FilesSound'
  <1>1. /\ admin[a].step = "created" /\ admin[a].step \in Holding /\ Base'
        /\ UNCHANGED <<file, row>>
    BY CreatedFailsBase DEF ProductCreatedFails, At, Holding
  <1>2. \A x \in Items : cache'[x] # NoEntry =>
              \/ cache[x] # NoEntry /\ cache'[x].value = cache[x].value
              \/ admin[a].item = x /\ cache'[x].value = admin[a].seen
    BY <1>1, AnnouncedValues DEF ProductCreatedFails
  <1>3. admin[a].made # {}
    BY <1>1 DEF Base, AdminsSound, Sound, Fits
  <1> QED
    BY <1>1, <1>2, <1>3, CleanupStarts DEF ProductCreatedFails

LEMMA EndsFiles ==
    ASSUME Base, FilesSound, NEW a \in Admins, CreationEnds(a) \/ Cleanup(a)
    PROVE  FilesSound'
  <1>1. /\ Become(a, Idle) /\ UNCHANGED <<row, cache, spoiled>> /\ Base'
        /\ FilesTyped
    BY EndsBase DEF CreationEnds, Cleanup, Base
  <1>2. CASE CreationEnds(a)
    BY <1>1, <1>2, SameFilesMove, RestFiles DEF CreationEnds
  <1>3. CASE Cleanup(a)
    <2>1. \A f \in admin[a].files : Expendable(a, f)
      BY <1>3 DEF Cleanup, At, Expendable, Uploaded
    <2> QED
      BY <1>1, <1>3, <2>1, DestroyMoves, RestFiles DEF Cleanup
  <1> QED
    BY <1>2, <1>3

LEMMA ForgetFiles ==
    ASSUME Base, FilesSound, NEW a \in Admins, ForgetProduct(a)
    PROVE  FilesSound'
  <1>1. Become(a, Idle) /\ UNCHANGED <<file, row, spoiled>> /\ Base'
    BY ForgetBase DEF ForgetProduct
  <1>2. PICK lost \in SUBSET KeysOf(admin[a].item) :
        cache' = [k \in Keys |-> IF k \in KeysOf(admin[a].item) \ lost THEN NoEntry
                                 ELSE Outdated(lost)[k]]
    BY DEF ForgetProduct
  <1>3. ASSUME NEW x \in Items, cache'[x] # NoEntry
        PROVE  cache[x] # NoEntry /\ cache'[x].value = cache[x].value
    <2>1. cache'[x] = Outdated(lost)[x]
      BY <1>2, <1>3, KeyKinds
    <2> QED
      BY <1>3, <2>1, OutdatedValues
  <1> QED
    BY <1>1, <1>3, SameFilesMove, RestFiles

\* A read that goes on, from a copy of x that is known.
LEMMA ContinueFiles ==
    ASSUME Base, Base', FilesSound, NEW a \in Admins, NEW x \in Items, NEW op,
           NEW base, CoverOf(x, base.cover), \A f \in base.images : ImageOf(x, f),
           Continue(a, x, op, base), UNCHANGED <<row, spoiled>>,
           \A y \in Items : cache'[y] # NoEntry =>
              \/ cache[y] # NoEntry /\ cache'[y].value = cache[y].value
              \/ /\ admin[a].step \in Holding /\ admin[a].item = y
                 /\ cache'[y].value = admin[a].seen
    PROVE  FilesSound'
  <1>1. ASSUME NEW o, o # "get", NEW keep, NEW new, NEW removed,
               FilesMove(a), \A f \in new : file[f] = "free" /\ file'[f] = "stored",
               keep \cap removed = {},
               \A f \in keep \cup removed : /\ o # "images" => CoverOf(x, f)
                                            /\ o = "images" => ImageOf(x, f),
               Become(a, Edit(x, o, keep, new, removed))
        PROVE  FilesSound'
    <2> DEFINE q == Edit(x, o, keep, new, removed)
    <2>1. /\ q.step = "commit" /\ q.keep = keep /\ q.removed = removed
          /\ \A y, f : ClaimsCover(q, y, f) =>
                y = x /\ o # "images" /\ f \in keep \cup removed
          /\ \A y, f : ClaimsImage(q, y, f) =>
                y = x /\ o = "images" /\ f \in keep \cup removed
          /\ \A f : (Uploaded(q, f) <=> f \in new) /\ ~MadeBy(q, f)
      BY DEF Edit, ClaimsCover, ClaimsImage, Uploaded, MadeBy, OldFiles, Holding
    <2> HIDE DEF q
    <2>2. Become(a, q)
      BY <1>1 DEF q
    <2>3. /\ \A y \in Items : \A f : ClaimsCover(q, y, f) => CoverOf(y, f)
          /\ \A y \in Items : \A f : ClaimsImage(q, y, f) => ImageOf(y, f)
      BY <1>1, <2>1
    <2>4. /\ \A f \in Files : Uploaded(q, f) /\ f \notin spoiled' =>
                file[f] = "free" /\ file'[f] = "stored"
          /\ \A f \in Files : Uploaded(q, f) \/ MadeBy(q, f) => file'[f] # "free"
      BY <1>1, <2>1
    <2> QED
      BY <1>1, <2>1, <2>2, <2>3, <2>4, StillSound
  <1>2. CASE op = "get" /\ Become(a, Idle) /\ UNCHANGED file
    BY <1>2, SameFilesMove, RestFiles
  <1>3. CASE op = "thumbnail" /\ changeProductThumbnail(a, x, base)
    <2>1. PICK f \in Fresh : /\ Upload({f})
                             /\ Become(a, Edit(x, "thumbnail", {}, {f}, {base.cover}))
      BY <1>3 DEF changeProductThumbnail
    <2>2. FilesMove(a) /\ \A g \in {f} : file[g] = "free" /\ file'[g] = "stored"
      BY <2>1, UploadMoves DEF Base
    <2> QED
      BY <1>1, <2>1, <2>2
  <1>4. CASE op = "images" /\ updateProductImages(a, x, base)
    <2>1. PICK removed \in SUBSET base.images, new \in SUBSET Fresh :
            /\ Upload(new)
            /\ Become(a, Edit(x, "images", base.images \ removed, new, removed))
      BY <1>4 DEF updateProductImages
    <2>2. FilesMove(a) /\ \A g \in new : file[g] = "free" /\ file'[g] = "stored"
      BY <2>1, UploadMoves DEF Base
    <2>3. (base.images \ removed) \cap removed = {}
      OBVIOUS
    <2>4. \A f \in (base.images \ removed) \cup removed : ImageOf(x, f)
      BY <2>1
    <2> QED
      BY <1>1, <2>1, <2>2, <2>3, <2>4
  <1>5. CASE op = "category" /\ updateCategory(a, x, base)
    <2>1. CASE \E logo \in Fresh :
                /\ Upload({logo})
                /\ Become(a, Edit(x, "category", {}, {logo}, {base.cover}))
      <3>1. PICK logo \in Fresh :
                /\ Upload({logo})
                /\ Become(a, Edit(x, "category", {}, {logo}, {base.cover}))
        BY <2>1
      <3>2. FilesMove(a) /\ \A g \in {logo} : file[g] = "free" /\ file'[g] = "stored"
        BY <3>1, UploadMoves DEF Base
      <3> QED
        BY <1>1, <3>1, <3>2
    <2>2. CASE /\ Become(a, Edit(x, "category", {base.cover}, {}, {}))
               /\ UNCHANGED file
      BY <1>1, <2>2, SameFilesMove
    <2> QED
      BY <1>5, <2>1, <2>2 DEF updateCategory
  <1> QED
    BY <1>2, <1>3, <1>4, <1>5 DEF Continue

LEMMA GetFiles ==
    ASSUME Base, FilesSound, NEW a \in Admins, NEW x \in Items, NEW op \in OpsOf(x),
           getById(a, x, op)
    PROVE  FilesSound'
  <1>1. Base' /\ UNCHANGED <<row, cache, spoiled>>
    BY GetBase DEF getById
  <1>2. CASE /\ Live(x)
             /\ Become(a, [step |-> "fill", item |-> x, op |-> op, seen |-> row[x],
                           late |-> FALSE])
             /\ UNCHANGED file
    <2> DEFINE q == [step |-> "fill", item |-> x, op |-> op, seen |-> row[x],
                     late |-> FALSE]
    <2>1. q.step = "fill" /\ q.item = x /\ q.seen = row[x]
      OBVIOUS
    <2> HIDE DEF q
    <2>2. /\ \A y, f : ClaimsCover(q, y, f) => CoverOf(y, f)
          /\ \A y, f : ClaimsImage(q, y, f) => ImageOf(y, f)
          /\ \A f : ~Uploaded(q, f) /\ ~MadeBy(q, f)
      BY <1>2, <2>1
      DEF ClaimsCover, ClaimsImage, CoverOf, ImageOf, Uploaded, MadeBy
    <2>3. Become(a, q)
      BY <1>2 DEF q
    <2> QED
      BY <1>1, <1>2, <2>1, <2>2, <2>3, SameFilesMove, StillSound
  <1>3. CASE cache[x] # NoEntry /\ Continue(a, x, op, cache[x].value)
    <2>1. /\ CoverOf(x, cache[x].value.cover)
          /\ \A f \in cache[x].value.images : ImageOf(x, f)
      BY <1>3 DEF CoverOf, ImageOf
    <2> QED
      BY <1>1, <1>3, <2>1, ContinueFiles
  <1> QED
    BY <1>2, <1>3 DEF getById

LEMMA FillFiles ==
    ASSUME Base, FilesSound, NEW a \in Admins, FillItem(a)
    PROVE  FilesSound'
  <1> DEFINE x == admin[a].item
  <1>1. admin[a].step = "fill" /\ admin[a].step \in Holding /\ Base'
    BY FillBase DEF FillItem, At, Holding
  <1>2. x \in Items /\ DOMAIN cache = Keys
    BY <1>1, StepFields DEF Base, AdminsSound, Sound, CopiesSound
  <1>3. /\ CoverOf(x, admin[a].seen.cover)
        /\ \A f \in admin[a].seen.images : ImageOf(x, f)
    BY <1>1, <1>2 DEF CoverOf, ImageOf, ClaimsCover, ClaimsImage
  <1>4. ASSUME NEW y \in Items, cache'[y] # NoEntry
        PROVE  \/ cache[y] # NoEntry /\ cache'[y].value = cache[y].value
               \/ x = y /\ cache'[y].value = admin[a].seen
    BY <1>2, <1>4, KeyKinds DEF FillItem, Filled
  <1>5. Continue(a, x, admin[a].op, admin[a].seen) /\ UNCHANGED <<row, spoiled>>
    BY DEF FillItem
  <1> QED
    BY <1>1, <1>2, <1>3, <1>4, <1>5, ContinueFiles

LEMMA ListFiles ==
    ASSUME Base, FilesSound, NEW a \in Admins,
           (\E l \in Lists : getAll(a, l)) \/ FillList(a)
    PROVE  FilesSound'
  <1>1. Base' /\ UNCHANGED <<file, row, spoiled>> /\ FilesMove(a)
    BY GetAllBase, FillListBase, SameFilesMove DEF getAll, FillList
  <1>2. ASSUME NEW l \in Lists, getAll(a, l)
        PROVE  FilesSound'
    <2> DEFINE q == [step |-> "fillList", list |-> l, seen |-> Listed(l), late |-> FALSE]
    <2>1. q.step = "fillList" /\ Become(a, q) /\ UNCHANGED cache
      BY <1>2 DEF getAll
    <2> HIDE DEF q
    <2>2. \A f : ~Uploaded(q, f) /\ ~MadeBy(q, f)
      BY <2>1 DEF Uploaded, MadeBy
    <2> QED
      BY <1>1, <2>1, <2>2, NoClaims, StillSound
  <1>3. CASE FillList(a)
    <2>1. admin[a].list \in Lists
      BY <1>3, StepFields DEF FillList, At, Base, AdminsSound, Sound
    <2>2. \A x \in Items : cache'[x] = cache[x]
      BY <1>3, <2>1, KeyKinds DEF FillList, Base, CopiesSound
    <2> QED
      BY <1>1, <1>3, <2>2, RestFiles DEF FillList
  <1> QED
    BY <1>2, <1>3

LEMMA CommitFailsFiles ==
    ASSUME Base, FilesSound, NEW a \in Admins, CommitFails(a)
    PROVE  FilesSound'
  <1>1. /\ Become(a, Idle) /\ UNCHANGED <<row, cache, spoiled>> /\ Base' /\ FilesTyped
    BY CommitFailsBase DEF CommitFails, RollBack, Base
  <1>2. FilesMove(a)
    <2>1. CASE UNCHANGED file
      BY <2>1, SameFilesMove
    <2>2. CASE Destroy(admin[a].new)
      <3>1. \A f \in admin[a].new : Expendable(a, f)
        BY DEF CommitFails, At, Expendable, Uploaded
      <3> QED
        BY <1>1, <2>2, <3>1, DestroyMoves
    <2> QED
      BY <2>1, <2>2 DEF CommitFails, RollBack
  <1> QED
    BY <1>1, <1>2, RestFiles

LEMMA DiscardFiles ==
    ASSUME Base, FilesSound, NEW a \in Admins, Discard(a)
    PROVE  FilesSound'
  <1> DEFINE x == admin[a].item
  <1>1. /\ admin[a].step = "discard" /\ admin[a].step \in Holding
        /\ UNCHANGED <<row, spoiled>> /\ Base' /\ FilesTyped
    BY DiscardBase DEF Discard, At, Holding, Base
  <1>2. FilesMove(a)
    <2>1. PICK done \in SUBSET admin[a].removed : Destroy(done)
      BY DEF Discard
    <2>2. \A f \in done : Expendable(a, f)
      BY <1>1 DEF Expendable
    <2> QED
      BY <1>1, <2>1, <2>2, DestroyMoves
  <1>3. CASE /\ Become(a, Announcement(x, admin[a].seen, admin[a].new, admin[a].late))
             /\ UNCHANGED cache
    <2> DEFINE q == Announcement(x, admin[a].seen, admin[a].new, admin[a].late)
    <2>1. q.step = "announce" /\ q.item = x /\ q.seen = admin[a].seen
      BY DEF Announcement
    <2> HIDE DEF q
    <2>2. /\ \A y, f : ClaimsCover(q, y, f) => CoverOf(y, f)
          /\ \A y, f : ClaimsImage(q, y, f) => ImageOf(y, f)
          /\ \A f : ~Uploaded(q, f) /\ ~MadeBy(q, f)
      BY <1>1, <2>1
      DEF ClaimsCover, ClaimsImage, CoverOf, ImageOf, Uploaded, MadeBy
    <2>3. Become(a, q)
      BY <1>3 DEF q
    <2> QED
      BY <1>1, <1>2, <1>3, <2>1, <2>2, <2>3, StillSound
  <1>4. CASE Become(a, Idle) /\ cache' = Outdated(KeysOf(x))
    BY <1>1, <1>2, <1>4, OutdatedValues, RestFiles
  <1> QED
    BY <1>3, <1>4 DEF Discard

LEMMA AnnounceFiles ==
    ASSUME Base, FilesSound, NEW a \in Admins, Announce(a) \/ AnnounceFails(a)
    PROVE  FilesSound'
  <1>1. /\ admin[a].step \in Holding /\ Become(a, Idle) /\ UNCHANGED row
        /\ Base' /\ FilesTyped /\ spoiled \subseteq spoiled'
    BY AnnounceBase DEF Announce, AnnounceFails, At, Holding, RollBack, Base
  <1>2. \E lost : cache' = PartlyAnnounced(a, lost)
    BY NothingLost DEF Announce, AnnounceFails
  <1>3. \A x \in Items : cache'[x] # NoEntry =>
              \/ cache[x] # NoEntry /\ cache'[x].value = cache[x].value
              \/ admin[a].item = x /\ cache'[x].value = admin[a].seen
    BY <1>1, <1>2, AnnouncedValues
  <1>4. FilesMove(a)
    <2>1. CASE Announce(a)
      BY <2>1, SameFilesMove DEF Announce
    <2>2. CASE AnnounceFails(a)
      <3>1. \A f \in admin[a].new : Expendable(a, f)
        BY <2>2 DEF AnnounceFails, Expendable
      <3> QED
        BY <1>1, <2>2, <3>1, DestroyMoves DEF AnnounceFails, RollBack
    <2> QED
      BY <2>1, <2>2
  <1> QED
    BY <1>1, <1>3, <1>4, RestFiles

LEMMA DiesFiles ==
    ASSUME Base, FilesSound, NEW a \in Admins, HandlerDies(a)
    PROVE  FilesSound'
  <1>1. Become(a, Idle) /\ UNCHANGED <<file, row, spoiled>> /\ Base' /\ FilesMove(a)
    BY DiesBase, SameFilesMove DEF HandlerDies
  <1>2. \A x \in Items : cache'[x] # NoEntry =>
            cache[x] # NoEntry /\ cache'[x].value = cache[x].value
    BY OutdatedValues DEF HandlerDies
  <1> QED
    BY <1>1, <1>2, RestFiles

\* No request moves, and no copy of a row is new.
LEMMA ExpireFiles ==
    ASSUME Base, FilesSound, (\E k \in Keys : Expire(k)) \/ UNCHANGED vars
    PROVE  FilesSound'
  <1>1. UNCHANGED <<file, row, admin, spoiled>>
    BY DEF Expire, vars
  <1>2. \A x \in Items : cache'[x] # NoEntry => cache'[x] = cache[x]
    BY KeyKinds DEF Expire, vars, Base, CopiesSound
  <1>3. \A x : Live(x)' = Live(x)
    BY <1>1 DEF Live
  <1>4. \A x \in Items : \A f : /\ CoverOf(x, f)' => CoverOf(x, f)
                                /\ ImageOf(x, f)' => ImageOf(x, f)
    BY <1>1, <1>2, <1>3 DEF CoverOf, ImageOf, ClaimsCover, ClaimsImage, OldFiles
  <1>5. ASSUME NEW f \in Files
        PROVE  Alone(f)'
    <2>1. Alone(f)
      BY DEF FilesSound
    <2>2. \A a \in Admins : /\ Uploaded(admin[a], f)' <=> Uploaded(admin[a], f)
                            /\ MadeBy(admin[a], f)' <=> MadeBy(admin[a], f)
      BY <1>1 DEF Uploaded, MadeBy
    <2>3. \A x \in Items : KnownTo(x, f)' => KnownTo(x, f)
      BY <1>4 DEF KnownTo
    <2> QED
      BY <1>1, <1>3, <1>4, <2>1, <2>2, <2>3 DEF Alone, FilesOf
  <1>6. \A a \in Admins : Removes(admin[a])'
    BY <1>1, <1>3 DEF FilesSound, Removes, FilesOf
  <1> QED
    BY <1>5, <1>6 DEF FilesSound

-----------------------------------------------------------------------------
(* The second part is inductive: the actions that write a row.             *)

LEMMA InsertFiles ==
    ASSUME Base, FilesSound, NEW a \in Admins, NEW p \in Products, InsertProduct(a, p)
    PROVE  FilesSound'
  <1>1. PICK details \in Details :
        LET product == [details |-> details, cover |-> admin[a].cover,
                        images |-> admin[a].images]
        IN  /\ row' = [row EXCEPT ![p] = product]
            /\ Commit(a, p, [step |-> "created", item |-> p, seen |-> product,
                             cover |-> admin[a].cover, images |-> admin[a].images,
                             attempt |-> admin[a].attempt,
                             made |-> admin[a].made \cup {p}, late |-> FALSE])
    BY DEF InsertProduct
  <1> DEFINE product == [details |-> details, cover |-> admin[a].cover,
                         images |-> admin[a].images]
             q == [step |-> "created", item |-> p, seen |-> product,
                   cover |-> admin[a].cover, images |-> admin[a].images,
                   attempt |-> admin[a].attempt,
                   made |-> admin[a].made \cup {p}, late |-> FALSE]
             covers == {admin[a].cover}
             images == admin[a].images
  <1>2. Sound(admin[a]) /\ admin[a].step = "create" /\ Base'
    BY InsertBase DEF Base, AdminsSound, InsertProduct, At
  <1>3. covers \cup images \subseteq Files /\ covers \cap images = {}
    BY <1>2, StepFields DEF Sound, Fits
  <1>4. product \in Item /\ FilesOf(product) = covers \cup images
    BY <1>3 DEF Item, FilesOf
  <1>5. /\ product.cover = admin[a].cover /\ product.images = admin[a].images
        /\ q.step = "created" /\ q.item = p /\ q.seen = product
        /\ q.cover = admin[a].cover /\ q.images = admin[a].images
    OBVIOUS
  <1>6. row' = [row EXCEPT ![p] = product] /\ Commit(a, p, q)
    BY <1>1
  <1> HIDE DEF product, q
  <1>7. /\ UNCHANGED <<file, cache>> /\ p \in Items
        /\ spoiled' = spoiled \cup IF admin[a].made = {} THEN {} ELSE covers \cup images
    BY DEF InsertProduct, Items
  <1>8. \A f \in covers \cup images :
            /\ f \in spoiled' \/ Uploaded(admin[a], f)
            /\ file[f] # "free"
    <2>1. \A f \in covers \cup images : MadeBy(admin[a], f)
      BY <1>2 DEF MadeBy
    <2>2. \A f \in covers \cup images : admin[a].made = {} => Uploaded(admin[a], f)
      BY <1>2 DEF Uploaded
    <2> QED
      BY <1>3, <1>7, <2>1, <2>2 DEF FilesSound, Alone
  <1>9. \A f : MadeBy(q, f) => f \in covers \cup images
    BY <1>5 DEF MadeBy
  <1> HIDE DEF covers, images
  <1>10. product.cover \in covers /\ product.images = images
    BY <1>5 DEF covers, images
  <1>11. spoiled \subseteq spoiled' /\ covers \cap images \subseteq spoiled'
    BY <1>3, <1>7
  <1>12. CommitFits(a, p, product, q, covers, images)
    BY <1>4, <1>5, <1>6, <1>7, <1>8, <1>9, <1>10, <1>11 DEF CommitFits
  <1> QED
    BY <1>2, <1>4, <1>7, <1>12, CommitSound

\* A write that names no new file.
LEMMA UpdateFiles ==
    ASSUME Base, FilesSound, NEW a \in Admins, NEW p \in Products,
           updateProduct(a, p) \/ deleteProduct(a, p)
    PROVE  FilesSound'
  <1>1. Base' /\ UNCHANGED <<file, cache, spoiled>> /\ Live(p) /\ p \in Items
    BY UpdateBase, DeleteBase DEF updateProduct, deleteProduct, Items
  <1>2. row[p] \in Item
    BY <1>1, LiveIsItem
  <1>3. ASSUME NEW value \in Item \cup {Gone}, row' = [row EXCEPT ![p] = value],
               NEW q, Commit(a, p, q), q.step \in {"announce", "forget"},
               q.step = "announce" => value \in Item /\ q.item = p /\ q.seen = value,
               value \in Item => value.cover = row[p].cover /\ value.images = row[p].images
        PROVE  FilesSound'
    <2>1. value \in Item =>
            /\ CoverOf(p, value.cover)
            /\ \A f \in value.images : ImageOf(p, f)
            /\ \A f \in FilesOf(value) : f \in FilesOf(row[p])
      BY <1>1, <1>3 DEF CoverOf, ImageOf, FilesOf
    <2>2. /\ q.step \in Holding => q.step = "announce"
          /\ \A f : ~MadeBy(q, f)
      BY <1>3 DEF Holding, MadeBy
    <2>3. CommitFits(a, p, value, q, {}, {})
      BY <1>1, <1>3, <2>1, <2>2 DEF CommitFits
    <2> QED
      BY <1>1, <1>3, <2>3, CommitSound
  <1>4. CASE updateProduct(a, p)
    <2>1. PICK details \in Details :
        LET product == [row[p] EXCEPT !.details = details]
        IN  /\ row' = [row EXCEPT ![p] = product]
            /\ Commit(a, p, Announcement(p, product, {}, FALSE))
      BY <1>4 DEF updateProduct
    <2> DEFINE product == [row[p] EXCEPT !.details = details]
               q == Announcement(p, product, {}, FALSE)
    <2>2. /\ product \in Item /\ product.images = row[p].images
          /\ product.cover = row[p].cover
      BY <1>2 DEF Item
    <2>3. q.step = "announce" /\ q.item = p /\ q.seen = product
      BY DEF Announcement
    <2>4. row' = [row EXCEPT ![p] = product] /\ Commit(a, p, q)
      BY <2>1
    <2> HIDE DEF product, q
    <2> QED
      BY <1>3, <2>2, <2>3, <2>4
  <1>5. CASE deleteProduct(a, p)
    <2> DEFINE q == [step |-> "forget", item |-> p]
    <2>1. row' = [row EXCEPT ![p] = Gone] /\ Commit(a, p, q) /\ q.step = "forget"
      BY <1>5 DEF deleteProduct
    <2>2. Gone \notin Item
      BY NoEntryAssumption
    <2> HIDE DEF q
    <2> QED
      BY <1>3, <2>1, <2>2
  <1> QED
    BY <1>4, <1>5

LEMMA CategoryFiles ==
    ASSUME Base, FilesSound, NEW a \in Admins, NEW c \in Categories, createCategory(a, c)
    PROVE  FilesSound'
  <1>1. PICK logo \in Fresh, details \in Details :
        LET category == [details |-> details, cover |-> logo, images |-> {}]
        IN  /\ Upload({logo})
            /\ row' = [row EXCEPT ![c] = category]
            /\ Commit(a, c, Announcement(c, category, {}, FALSE))
    BY DEF createCategory
  <1> DEFINE category == [details |-> details, cover |-> logo, images |-> {}]
             q == Announcement(c, category, {}, FALSE)
  <1>2. /\ c \in Items /\ category \in Item /\ FilesOf(category) = {logo}
        /\ category.cover = logo /\ category.images = {}
    BY DEF Items, Item, Fresh, FilesOf
  <1>3. Base' /\ UNCHANGED <<cache, spoiled>>
    BY CategoryBase DEF createCategory
  <1>4. q.step = "announce" /\ q.item = c /\ q.seen = category
    BY DEF Announcement
  <1>5. row' = [row EXCEPT ![c] = category] /\ Commit(a, c, q)
    BY <1>1
  <1> HIDE DEF category, q
  <1>6. /\ file[logo] = "free" /\ file'[logo] = "stored"
        /\ \A f \in Files : \/ file'[f] = file[f]
                            \/ file[f] = "free" /\ file'[f] = "stored"
    BY <1>1 DEF Upload, Fresh
  <1>7. q.step \in Holding /\ \A f : ~MadeBy(q, f)
    BY <1>4 DEF Holding, MadeBy
  <1> DEFINE covers == {logo}
             images == {}
  <1>8. /\ covers \cap images = {} /\ covers \cup images = {logo}
        /\ category.cover \in covers
    BY <1>2
  <1> HIDE DEF covers, images
  <1>9. CommitFits(a, c, category, q, covers, images)
    BY <1>2, <1>3, <1>4, <1>5, <1>6, <1>7, <1>8 DEF CommitFits
  <1> QED
    BY <1>2, <1>3, <1>9, CommitSound

\* Where the files come from that an edit writes.
LEMMA WrittenFrom ==
    ASSUME Base, NEW a \in Admins, At(a, "commit"), Live(admin[a].item),
           NEW details \in Details
    PROVE  LET value == Written(admin[a], details)
               files == admin[a].keep \cup admin[a].new
           IN  IF admin[a].op = "images"
               THEN value.cover = row[admin[a].item].cover /\ value.images = files
               ELSE value.cover \in files /\ value.images = row[admin[a].item].images
  <1>1. Sound(admin[a]) /\ admin[a].step = "commit"
    BY DEF Base, AdminsSound, At
  <1>2. row[admin[a].item] \in Item
    BY <1>1, LiveIsItem, StepFields DEF Sound
  <1>3. CASE admin[a].op = "images"
    BY <1>2, <1>3 DEF Written, Item
  <1>4. CASE admin[a].op # "images"
    <2> DEFINE files == admin[a].keep \cup admin[a].new
    <2>1. \E f \in files : TRUE
      BY <1>1, <1>4 DEF Sound, Fits
    <2>2. (CHOOSE f \in files : TRUE) \in files
      BY <2>1
    <2>3. Written(admin[a], details) = [row[admin[a].item] EXCEPT
                !.cover = CHOOSE f \in files : TRUE, !.details = details]
      BY <1>4 DEF Written
    <2> QED
      BY <1>2, <1>4, <2>2, <2>3 DEF Item
  <1> QED
    BY <1>3, <1>4

LEMMA CommitEditFiles ==
    ASSUME Base, FilesSound, NEW a \in Admins, CommitEdit(a)
    PROVE  FilesSound'
  <1> DEFINE x == admin[a].item
             keep == admin[a].keep
             new == admin[a].new
             op == admin[a].op
  <1>1. /\ At(a, "commit") /\ x \in Items /\ UNCHANGED <<file, cache>> /\ Live(x)
        /\ Base'
    BY CommitParts, CommitEditBase
  <1>2. PICK details \in Details, q \in AdminState :
            LET value == Written(admin[a], details)
            IN  /\ value \in Item
                /\ row' = [row EXCEPT ![x] = value]
                /\ spoiled' = spoiled \cup ((FilesOf(value) \ FilesOf(row[x])) \ new)
                /\ Commit(a, x, q)
                /\ q.step \in {"announce", "discard"}
                /\ q.item = x /\ q.seen = value
                /\ q.step = "discard" => q.removed = admin[a].removed /\ q.op = op
    BY CommitParts
  <1> DEFINE value == Written(admin[a], details)
             covers == IF op = "images" THEN {} ELSE new
             images == IF op = "images" THEN new ELSE {}
  <1>3. IF op = "images" THEN value.cover = row[x].cover /\ value.images = keep \cup new
        ELSE value.cover \in keep \cup new /\ value.images = row[x].images
    BY <1>1, WrittenFrom
  <1>4. /\ value \in Item /\ row' = [row EXCEPT ![x] = value]
        /\ spoiled' = spoiled \cup ((FilesOf(value) \ FilesOf(row[x])) \ new)
        /\ Commit(a, x, q) /\ q.item = x /\ q.seen = value
    BY <1>2
  <1> HIDE DEF value
  <1>5. /\ admin[a].step = "commit" /\ keep \cup new \cup admin[a].removed \subseteq Files
        /\ keep \cap admin[a].removed = {}
    BY <1>1, StepFields DEF At, Base, AdminsSound, Sound, FilesSound, Removes
  <1>6. covers \cap images = {} /\ covers \cup images = new
    OBVIOUS
  <1>7. \A f \in new : Uploaded(admin[a], f) /\ file[f] # "free"
    BY <1>5 DEF Uploaded, FilesSound, Alone
  <1>8. \A f \in keep \cup admin[a].removed : /\ op # "images" => CoverOf(x, f)
                                              /\ op = "images" => ImageOf(x, f)
    BY <1>5 DEF CoverOf, ImageOf, ClaimsCover, ClaimsImage, OldFiles
  <1>9. CoverOf(x, row[x].cover) /\ \A f \in row[x].images : ImageOf(x, f)
    BY <1>1 DEF CoverOf, ImageOf
  <1>10. /\ CoverOf(x, value.cover) \/ value.cover \in covers
         /\ \A f \in value.images : ImageOf(x, f) \/ f \in images
    BY <1>3, <1>8, <1>9
  <1>11. \A f \in FilesOf(value) : f \in FilesOf(row[x]) \/ f \in new \cup spoiled'
    BY <1>4
  <1>12. admin[a].removed \cap FilesOf(value) \subseteq spoiled'
    <2>1. ASSUME NEW f \in admin[a].removed, f \in FilesOf(value)
          PROVE  f \in spoiled
      <3>1. f \in Files /\ KnownTo(x, f) /\ f \notin keep
        BY <1>5, <1>8, <2>1 DEF KnownTo
      <3>2. f \in new => f \in spoiled
        BY <1>1, <1>7, <3>1 DEF FilesSound, Alone
      <3>3. CASE op = "images"
        <4>1. f \notin new => f = row[x].cover
          BY <1>3, <2>1, <3>1, <3>3 DEF FilesOf
        <4> QED
          BY <1>1, <1>8, <1>9, <2>1, <3>1, <3>2, <3>3, <4>1 DEF FilesSound, Alone
      <3>4. CASE op # "images"
        <4>1. f \notin new => f \in row[x].images
          BY <1>3, <2>1, <3>1, <3>4 DEF FilesOf
        <4> QED
          BY <1>1, <1>8, <1>9, <2>1, <3>1, <3>2, <3>4, <4>1 DEF FilesSound, Alone
      <3> QED
        BY <3>3, <3>4
    <2> QED
      BY <1>4, <2>1
  <1>13. /\ q.step \in {"announce", "discard"}
         /\ q.step = "discard" => q.removed = admin[a].removed /\ q.op = op
         /\ \A f : ~MadeBy(q, f)
    BY <1>2 DEF MadeBy
  <1>14. spoiled \subseteq spoiled'
    BY <1>4
  <1> HIDE DEF covers, images, keep, new
  <1>15. CommitFits(a, x, value, q, covers, images)
    BY <1>1, <1>4, <1>6, <1>7, <1>8, <1>10, <1>11, <1>12, <1>13, <1>14 DEF CommitFits
  <1> QED
    BY <1>1, <1>4, <1>15, CommitSound

-----------------------------------------------------------------------------
(* The theorems.                                                           *)

LEMMA NextFiles == Base /\ FilesSound /\ [Next]_vars => FilesSound'
  <1> SUFFICES ASSUME Base, FilesSound, [Next]_vars PROVE FilesSound'
    OBVIOUS
  <1>1. CASE UNCHANGED vars
    BY <1>1, ExpireFiles
  <1>2. ASSUME NEW a \in Admins, createProduct(a) PROVE FilesSound'
    BY <1>2, CreateFiles
  <1>3. ASSUME NEW a \in Admins, NEW p \in Products, InsertProduct(a, p) PROVE FilesSound'
    BY <1>3, InsertFiles
  <1>4. ASSUME NEW a \in Admins, InsertFails(a) PROVE FilesSound'
    BY <1>4, InsertFailsFiles
  <1>5. ASSUME NEW a \in Admins, ProductCreated(a) PROVE FilesSound'
    BY <1>5, CreatedFiles
  <1>6. ASSUME NEW a \in Admins, ProductCreatedFails(a) PROVE FilesSound'
    BY <1>6, CreatedFailsFiles
  <1>7. ASSUME NEW a \in Admins, CreationEnds(a) \/ Cleanup(a) PROVE FilesSound'
    BY <1>7, EndsFiles
  <1>8. ASSUME NEW a \in Admins, NEW p \in Products, updateProduct(a, p) \/ deleteProduct(a, p)
        PROVE  FilesSound'
    BY <1>8, UpdateFiles
  <1>9. ASSUME NEW a \in Admins, ForgetProduct(a) PROVE FilesSound'
    BY <1>9, ForgetFiles
  <1>10. ASSUME NEW a \in Admins, NEW c \in Categories, createCategory(a, c) PROVE FilesSound'
    BY <1>10, CategoryFiles
  <1>11. ASSUME NEW a \in Admins, NEW x \in Items, NEW op \in OpsOf(x), getById(a, x, op)
         PROVE  FilesSound'
    BY <1>11, GetFiles
  <1>12. ASSUME NEW a \in Admins, FillItem(a) PROVE FilesSound'
    BY <1>12, FillFiles
  <1>13. ASSUME NEW a \in Admins, (\E l \in Lists : getAll(a, l)) \/ FillList(a)
         PROVE  FilesSound'
    BY <1>13, ListFiles
  <1>14. ASSUME NEW a \in Admins, CommitEdit(a) PROVE FilesSound'
    BY <1>14, CommitEditFiles
  <1>15. ASSUME NEW a \in Admins, CommitFails(a) PROVE FilesSound'
    BY <1>15, CommitFailsFiles
  <1>16. ASSUME NEW a \in Admins, Discard(a) PROVE FilesSound'
    BY <1>16, DiscardFiles
  <1>17. ASSUME NEW a \in Admins, Announce(a) \/ AnnounceFails(a) PROVE FilesSound'
    BY <1>17, AnnounceFiles
  <1>18. ASSUME NEW a \in Admins, HandlerDies(a) PROVE FilesSound'
    BY <1>18, DiesFiles
  <1>19. ASSUME NEW k \in Keys, Expire(k) PROVE FilesSound'
    BY <1>19, ExpireFiles
  <1> QED
    BY <1>1, <1>2, <1>3, <1>4, <1>5, <1>6, <1>7, <1>8, <1>9, <1>10, <1>11, <1>12, <1>13,
       <1>14, <1>15, <1>16, <1>17, <1>18, <1>19 DEF Next

\* The inductive invariant of Catalog.tla: the rows are as they should be, a
\* request that was not overtaken holds what the database holds, and every file
\* has one owner and one role unless the code has lost track of it.
THEOREM InvariantHolds == Spec => []IInv
  <1>1. Init => IInv
    BY InitBase, InitFiles, TwoParts
  <1>2. IInv /\ [Next]_vars => IInv'
    <2> SUFFICES ASSUME IInv, [Next]_vars PROVE IInv'
      OBVIOUS
    <2>1. Base' /\ FilesSound'
      BY TwoParts, NextBase, NextFiles
    <2> QED
      BY <2>1, PTL, TwoParts
  <1> QED
    BY <1>1, <1>2, PTL DEF Spec

\* products.service.ts, category.service.ts: a cached product, category or list
\* is that of the database unless a write is on its way to it, overtook the
\* request that set it, or lost its commands.
THEOREM CopiesFollow == Spec => []CatalogCachesFollowRows
  <1>1. IInv => CatalogCachesFollowRows
    BY DEF IInv
  <1> QED
    BY <1>1, InvariantHolds, PTL

\* products.service.ts:305-330: a product has an image, and no more than
\* MAX_IMAGES, however many admins edit the same copy of it.
THEOREM LimitOfImages == Spec => []ImagesWithinLimit
  <1>1. IInv => ImagesWithinLimit
    BY DEF IInv
  <1> QED
    BY <1>1, InvariantHolds, PTL

\* A file that a row names is at Cloudinary, but for the files that the retry
\* loop, a rollback after the commit or a write from an old copy spoiled.
THEOREM NamedFilesStay == Spec => []NamedFilesAreStored
  <1>1. IInv => NamedFilesAreStored
    BY DEF IInv
  <1> QED
    BY <1>1, InvariantHolds, PTL

=============================================================================
