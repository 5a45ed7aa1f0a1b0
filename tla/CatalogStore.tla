---------------------------- MODULE CatalogStore ----------------------------
(***************************************************************************)
(* What the product and the category service share: their rows, the files  *)
(* at Cloudinary those rows name, and the copies of rows and lists in      *)
(* Redis.  A handler is one step from one await to the next; an upload     *)
(* touches nothing another handler can see and is part of the step that    *)
(* leads to it.                                                            *)
(***************************************************************************)
EXTENDS Naturals, FiniteSets

CONSTANTS
    Products,       \* ids of products
    Categories,     \* ids of categories
    Scenarios,      \* bound: the items one behaviour may insert, the files
                    \* it may upload
    Files,          \* what Cloudinary may store, numbered as it is uploaded
    Details,        \* what else a row holds
    Admins,         \* handlers
    MAX_IMAGES,
    MAX_RETRIES,
    NoEntry,        \* an absent Redis key
    Unborn, Gone,   \* what a row is before its insert and after its deletion
    Absent          \* what it is if the behaviour never inserts it

Items == Products \cup Categories

\* Redis keys: one per item, and the lists with their default parameters.
Lists == {"products", "categories"}
Keys == Items \cup Lists
ListOf(x) == IF x \in Products THEN "products" ELSE "categories"
KeysOf(x) == {x, ListOf(x)}

\* A product or a category: cover is its thumbnail or logo.
Item == [details : Details, cover : Files, images : SUBSET Files]
Value == Item \cup {Unborn, Gone, Absent}
Table == [Items -> Value]

\* A cached list: the rows it names, and Absent for the others.
Listing == Table

Entry(S) == [value : S, late : BOOLEAN]

FilesOf(value) == {value.cover} \cup value.images

ASSUME ItemsAssumption == /\ Products \cap Categories = {}
                          /\ Lists \cap Items = {}

ASSUME ScenariosAssumption ==
    Scenarios \subseteq [items : SUBSET Items, files : SUBSET Files]

ASSUME FilesAssumption == Files \subseteq Nat /\ IsFiniteSet(Files)

ASSUME NoEntryAssumption ==
    /\ NoEntry \notin Entry(Item) \cup Entry(Listing)
    /\ {Unborn, Gone, Absent} \cap Item = {}

ASSUME LimitsAssumption == /\ MAX_IMAGES \in Nat \ {0}
                           /\ MAX_RETRIES \in Nat \ {0}

VARIABLES
    file,       \* file[f]: "free", "stored" or "deleted"
    row,        \* row[x]: the product or category x as PostgreSQL has it
    cache,      \* cache[x]: its copy in Redis; cache[l]: the list l; late is a
                \* ghost: a write overtook the handler that set the entry, or
                \* failed to replace it
    admin,      \* admin[a]: what the handler a does next
    spoiled     \* ghost: files that a second row names, that a rollback after
                \* the commit deletes, or that a write from an old copy of the
                \* row brought back

vars == <<file, row, cache, admin, spoiled>>

-----------------------------------------------------------------------------
Idle == [step |-> "idle"]

\* Operations that start from getProductById or getCategoryById.
OpsOf(x) == IF x \in Products THEN {"get", "thumbnail", "images"}
            ELSE {"get", "category"}
Ops == {"get", "thumbnail", "images", "category"}

AdminState ==
    {Idle}
    \* createProduct: the next attempt, what follows it, the clean-up; made is
    \* the set of products this request has inserted.
    \cup [step : {"create"}, cover : Files, images : SUBSET Files,
          attempt : 0 .. MAX_RETRIES, made : SUBSET Products]
    \cup [step : {"created"}, item : Products, seen : Item, cover : Files,
          images : SUBSET Files, attempt : 0 .. MAX_RETRIES,
          made : SUBSET Products, late : BOOLEAN]
    \cup [step : {"cleanup"}, files : SUBSET Files]
    \* Cache-aside reads.
    \cup [step : {"fill"}, item : Items, op : Ops, seen : Item,
          late : BOOLEAN]
    \cup [step : {"fillList"}, list : Lists, seen : Listing, late : BOOLEAN]
    \* Updates: keep are the files they take from the copy they start from,
    \* new those they uploaded, removed those they delete after the commit.
    \* After the commit new is what a failure rolls back.
    \cup [step : {"commit"}, item : Items, op : Ops, keep : SUBSET Files,
          new : SUBSET Files, removed : SUBSET Files]
    \cup [step : {"discard"}, item : Items, op : Ops, seen : Item,
          new : SUBSET Files, removed : SUBSET Files, late : BOOLEAN]
    \cup [step : {"announce"}, item : Items, seen : Item,
          new : SUBSET Files, late : BOOLEAN]
    \cup [step : {"forget"}, item : Products]

TypeOK ==
    /\ DOMAIN cache = Keys
    /\ file \in [Files -> {"free", "stored", "deleted"}]
    /\ row \in Table
    /\ \A x \in Items : cache[x] \in Entry(Item) \cup {NoEntry}
    /\ \A l \in Lists : cache[l] \in Entry(Listing) \cup {NoEntry}
    /\ admin \in [Admins -> AdminState]
    /\ spoiled \subseteq Files

Init ==
    /\ \E s \in Scenarios :
        /\ file = [f \in Files |-> IF f \in s.files THEN "free" ELSE "deleted"]
        /\ row = [x \in Items |-> IF x \in s.items THEN Unborn ELSE Absent]
    /\ cache = [k \in Keys |-> NoEntry]
    /\ admin = [a \in Admins |-> Idle]
    /\ spoiled = {}

-----------------------------------------------------------------------------
At(a, step) == admin[a].step = step
Become(a, state) == admin' = [admin EXCEPT ![a] = state]

Live(x) == row[x] \notin {Unborn, Gone, Absent}
Listed(l) == [x \in Items |-> IF ListOf(x) = l /\ Live(x) THEN row[x] ELSE Absent]

\* Cloudinary.
Fresh == {f \in Files : file[f] = "free"}
Upload(files) == /\ files \subseteq Fresh
                 /\ \A f \in files, g \in Fresh \ files : f < g
                 /\ file' = [f \in Files |-> IF f \in files THEN "stored" ELSE file[f]]
Destroy(files) ==
    file' = [f \in Files |-> IF f \in files THEN "deleted" ELSE file[f]]

\* The next step of a handler that is about to update x.
Edit(x, op, keep, new, removed) ==
    [step |-> "commit", item |-> x, op |-> op, keep |-> keep,
     new |-> new, removed |-> removed]

\* The next step of a handler that has updated x.
Announcement(x, seen, new, late) ==
    [step |-> "announce", item |-> x, seen |-> seen, new |-> new, late |-> late]

\* Steps of a handler that has committed and not told Redis.
Committed == {"created", "discard", "announce", "forget"}

\* Steps of a handler that is about to set the key of a row to what it holds.
Holding == {"fill", "created", "discard", "announce"}

\* Handlers that will write to Redis what they know of x or of its list.
Holders(x) ==
    {b \in Admins :
        \/ admin[b].step \in Holding /\ admin[b].item = x
        \/ At(b, "fillList") /\ admin[b].list = ListOf(x)}

\* The handler a commits a write of x and goes on as state; the other holders
\* are late.
Commit(a, x, state) ==
    admin' = [b \in Admins |-> IF b = a THEN state
                               ELSE IF b \in Holders(x)
                               THEN [admin[b] EXCEPT !.late = TRUE]
                               ELSE admin[b]]

\* Slip: the row is read again, and may be gone by now.
Filled_rereads(a) ==
    [value |-> IF At(a, "fillList") THEN admin[a].seen ELSE row[admin[a].item],
     late |-> admin[a].late]

\* What the handler a writes to Redis.
Filled(a) == [value |-> admin[a].seen, late |-> admin[a].late]

\* Slip: the key of the list is forgotten.
Announced_keepsList(a) == [cache EXCEPT ![admin[a].item] = Filled(a)]

\* A committed write sets the key of its row and deletes the key of the list.
Announced(a) ==
    LET x == admin[a].item
    IN  [cache EXCEPT ![x] = Filled(a), ![ListOf(x)] = NoEntry]

\* Entries of these keys stay though the row has changed.
Outdated(keys) ==
    [k \in Keys |-> IF k \in keys /\ cache[k] # NoEntry
                    THEN [cache[k] EXCEPT !.late = TRUE] ELSE cache[k]]

\* Redis does not carry out the commands on the keys in lost.
PartlyAnnounced(a, lost) ==
    [k \in Keys |-> IF k \in lost THEN Outdated(lost)[k] ELSE Announced(a)[k]]

=============================================================================
