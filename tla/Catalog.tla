------------------------------ MODULE Catalog -------------------------------
(***************************************************************************)
(* Products and categories together: the reads both services begin with,   *)
(* the way of an update from its commit to the caches, and what they       *)
(* promise.                                                                *)
(***************************************************************************)
EXTENDS ProductCatalog, CategoryCatalog

\* What a handler does with the copy it got.
Continue(a, x, op, base) ==
    \/ op = "get" /\ Become(a, Idle) /\ UNCHANGED file
    \/ op = "thumbnail" /\ changeProductThumbnail(a, x, base)
    \/ op = "images" /\ updateProductImages(a, x, base)
    \/ op = "category" /\ updateCategory(a, x, base)

\* getProductById and getCategoryById.  A miss and its query are one step: by
\* the time of the query another handler may have filled the key.
getById(a, x, op) ==
    /\ At(a, "idle")
    /\ \/ /\ Live(x)
          /\ Become(a, [step |-> "fill", item |-> x, op |-> op, seen |-> row[x],
                        late |-> FALSE])
          /\ UNCHANGED file
       \/ /\ cache[x] # NoEntry
          /\ Continue(a, x, op, cache[x].value)
    /\ UNCHANGED <<row, cache, spoiled>>

FillItem(a) ==
    /\ At(a, "fill")
    /\ cache' = [cache EXCEPT ![admin[a].item] = Filled(a)]
    /\ Continue(a, admin[a].item, admin[a].op, admin[a].seen)
    /\ UNCHANGED <<row, spoiled>>

\* getAllProducts and getCategories with their default parameters.  (Bound: a
\* list is not read in behaviours that never insert one of its items.)
getAll(a, l) ==
    /\ At(a, "idle")
    /\ \E x \in Items : ListOf(x) = l /\ row[x] # Absent
    /\ Become(a, [step |-> "fillList", list |-> l, seen |-> Listed(l),
                  late |-> FALSE])
    /\ UNCHANGED <<file, row, cache, spoiled>>

FillList(a) ==
    /\ At(a, "fillList")
    /\ cache' = [cache EXCEPT ![admin[a].list] = Filled(a)]
    /\ Become(a, Idle)
    /\ UNCHANGED <<file, row, spoiled>>

-----------------------------------------------------------------------------
\* Slip: new images are pushed onto those the row has by now.
Written_pushes(edit, details) ==
    IF edit.op = "images"
    THEN [row[edit.item] EXCEPT !.images = (@ \ edit.removed) \cup edit.new]
    ELSE [row[edit.item] EXCEPT
            !.cover = CHOOSE f \in edit.keep \cup edit.new : TRUE,
            !.details = details]

\* What an update writes over row[x].
Written(edit, details) ==
    LET files == edit.keep \cup edit.new
    IN  IF edit.op = "images" THEN [row[edit.item] EXCEPT !.images = files]
        ELSE [row[edit.item] EXCEPT !.cover = CHOOSE f \in files : TRUE,
                                    !.details = details]

CommitEdit(a) ==
    /\ At(a, "commit")
    /\ Live(admin[a].item)
    /\ LET edit == admin[a]
           x == edit.item
       IN  \E details \in
                IF edit.op = "category" THEN Details ELSE {row[x].details} :
            LET value == Written(edit, details)
                undo == IF edit.op = "images" THEN edit.new ELSE {}
            IN  /\ row' = [row EXCEPT ![x] = value]
                /\ spoiled' = spoiled \cup
                        ((FilesOf(value) \ FilesOf(row[x])) \ edit.new)
                /\ Commit(a, x,
                    IF edit.removed = {}
                    THEN Announcement(x, value, undo, FALSE)
                    ELSE [step |-> "discard", item |-> x, op |-> edit.op,
                          seen |-> value, new |-> undo,
                          removed |-> edit.removed, late |-> FALSE])
    /\ UNCHANGED <<file, cache>>

\* Slip: the old files are deleted although the update failed.
CommitFails_discards(a) ==
    /\ At(a, "commit")
    /\ Destroy(admin[a].removed)
    /\ Become(a, Idle)
    /\ UNCHANGED <<row, cache, spoiled>>

\* The row is gone, or the database fails.
CommitFails(a) ==
    /\ At(a, "commit")
    /\ IF admin[a].op = "images" THEN RollBack(a)
       ELSE Become(a, Idle) /\ UNCHANGED file
    /\ UNCHANGED <<row, cache, spoiled>>

\* The files replaced are deleted.  deleteMultipleFiles swallows a failure,
\* deleteFile throws, and the caches keep the old row.
Discard(a) ==
    /\ At(a, "discard")
    /\ \E done \in SUBSET admin[a].removed :
        /\ Destroy(done)
        /\ IF done = admin[a].removed \/ admin[a].op = "images"
           THEN /\ Become(a, Announcement(admin[a].item, admin[a].seen,
                                          admin[a].new, admin[a].late))
                /\ UNCHANGED cache
           ELSE /\ Become(a, Idle)
                /\ cache' = Outdated(KeysOf(admin[a].item))
    /\ UNCHANGED <<row, spoiled>>

Announce(a) ==
    /\ At(a, "announce")
    /\ cache' = Announced(a)
    /\ Become(a, Idle)
    /\ UNCHANGED <<file, row, spoiled>>

\* Redis fails after the commit; updateProductImages then rolls back.
AnnounceFails(a) ==
    /\ At(a, "announce")
    /\ \E lost \in SUBSET KeysOf(admin[a].item) : cache' = PartlyAnnounced(a, lost)
    /\ RollBack(a)
    /\ spoiled' = spoiled \cup admin[a].new
    /\ UNCHANGED row

\* A query fails or the process dies, and nothing is undone.  (Before a commit
\* that is CommitFails or InsertFails, but for files that nobody names.)
HandlerDies(a) ==
    /\ admin[a].step \in Committed \cup {"fill", "fillList"}
    /\ cache' = IF admin[a].step \in Committed
                THEN Outdated(KeysOf(admin[a].item)) ELSE cache
    /\ Become(a, Idle)
    /\ UNCHANGED <<file, row, spoiled>>

\* A TTL runs out.
Expire(k) ==
    /\ cache[k] # NoEntry
    /\ cache' = [cache EXCEPT ![k] = NoEntry]
    /\ UNCHANGED <<file, row, admin, spoiled>>

Next ==
    \/ \E a \in Admins :
        \/ createProduct(a)
        \/ \E p \in Products : InsertProduct(a, p)
        \/ InsertFails(a)
        \/ ProductCreated(a)
        \/ ProductCreatedFails(a)
        \/ CreationEnds(a)
        \/ Cleanup(a)
        \/ \E p \in Products : updateProduct(a, p) \/ deleteProduct(a, p)
        \/ ForgetProduct(a)
        \/ \E c \in Categories : createCategory(a, c)
        \/ \E x \in Items : \E op \in OpsOf(x) : getById(a, x, op)
        \/ FillItem(a)
        \/ \E l \in Lists : getAll(a, l)
        \/ FillList(a)
        \/ CommitEdit(a)
        \/ CommitFails(a)
        \/ Discard(a)
        \/ Announce(a)
        \/ AnnounceFails(a)
        \/ HandlerDies(a)
    \/ \E k \in Keys : Expire(k)

Spec == Init /\ [][Next]_vars

-----------------------------------------------------------------------------
\* A file that a row names is at Cloudinary: old files go only after the row
\* has let go of them, new ones only if it never names them.  What breaks this
\* is in spoiled.
NamedFilesAreStored ==
    \A x \in Items : Live(x) =>
        \A f \in FilesOf(row[x]) \ spoiled : file[f] = "stored"

\* Two admins may add images from one and the same copy of a product; it never
\* has more than MAX_IMAGES of them, nor none.
ImagesWithinLimit ==
    \A p \in Products : Live(p) => Cardinality(row[p].images) \in 1 .. MAX_IMAGES

\* A write of x whose cache commands are still to come.
Pending(x) == \E a \in Admins :
                /\ admin[a].step \in Committed
                /\ admin[a].item = x

\* Setting a row's key and deleting the default list's after the commit is
\* enough: an entry is that of the database unless a write is on its way to
\* it, overtook the handler that set it, or lost its commands.
CatalogCachesFollowRows ==
    /\ \A x \in Items :
        cache[x] # NoEntry /\ ~ Pending(x) =>
            cache[x].late \/ cache[x].value = row[x]
    /\ \A l \in Lists :
        cache[l] # NoEntry /\ (\A x \in Items : ListOf(x) = l => ~ Pending(x)) =>
            cache[l].late \/ cache[l].value = Listed(l)

\* products.controller.ts:39 says "Creates a new product with the provided
\* name, description, price, stock, and status.": one request, one product.
\* The retry loop of createProduct has no exit on success.
OneProductPerRequest ==
    \A a \in Admins :
        At(a, "create") \/ At(a, "created") => Cardinality(admin[a].made) <= 1

-----------------------------------------------------------------------------
(* Why the properties hold: what the handlers in flight may rely on.       *)

\* Who is about to write to Redis and was not overtaken holds what is there.
SeenIsCurrent ==
    \A a \in Admins :
        /\ admin[a].step \in Holding /\ ~admin[a].late =>
            admin[a].seen = row[admin[a].item]
        /\ At(a, "fillList") /\ ~admin[a].late => admin[a].seen = Listed(admin[a].list)

\* What an insert or an update is going to write is a row as it should be.
WritesFit ==
    \A a \in Admins :
        /\ admin[a].step \in {"create", "created"} =>
            /\ Cardinality(admin[a].images) \in 1 .. MAX_IMAGES
            /\ admin[a].cover \notin admin[a].images
        /\ At(a, "created") => admin[a].attempt < MAX_RETRIES /\ admin[a].made # {}
        /\ At(a, "commit") =>
            LET files == admin[a].keep \cup admin[a].new
            IN  IF admin[a].op = "images" THEN Cardinality(files) \in 1 .. MAX_IMAGES
                ELSE \E f \in Files : files = {f}

\* The copies of x that an edit starts from or that reach Redis.
CopiesOf(x) ==
    ({row[x]} \ {Unborn, Gone, Absent})
    \cup {entry.value : entry \in {cache[x]} \ {NoEntry}}
    \cup {admin[a].seen :
            a \in {b \in Admins : admin[b].step \in Holding /\ admin[b].item = x}}

\* The files that edits of x, of its images or of its cover, took from a copy.
Editors(x) ==
    {a \in Admins : admin[a].step \in {"commit", "discard"} /\ admin[a].item = x}
Old(a) == IF At(a, "commit") THEN admin[a].keep \cup admin[a].removed
          ELSE admin[a].removed
OldCovers(x) == UNION {Old(a) : a \in {b \in Editors(x) : admin[b].op # "images"}}
OldImages(x) == UNION {Old(a) : a \in {b \in Editors(x) : admin[b].op = "images"}}

Covers(x) == {copy.cover : copy \in CopiesOf(x)} \cup OldCovers(x)
Images(x) == OldImages(x) \cup UNION {copy.images : copy \in CopiesOf(x)}
Known(x) == Covers(x) \cup Images(x)

\* The files of a creation.
Made(a) == IF admin[a].step \in {"create", "created"}
           THEN {admin[a].cover} \cup admin[a].images ELSE {}

\* The files that a has uploaded and no row has named.
Held(a) ==
    CASE At(a, "create") -> IF admin[a].made = {} THEN Made(a) ELSE {}
      [] At(a, "cleanup") -> admin[a].files
      [] At(a, "commit") -> admin[a].new
      [] OTHER -> {}

\* Every file has one owner and one role, but for those in spoiled; none is
\* uploaded again, and it is there until a row names it.
FilesApart ==
    /\ \A x \in Items :
        LET covers == Covers(x)
            images == Images(x)
            known == covers \cup images
        IN  /\ covers \cap images \subseteq spoiled
            /\ \A f \in known : file[f] # "free"
            /\ \A a \in Admins : known \cap Held(a) \subseteq spoiled
            /\ \A y \in Items \ {x} : known \cap Known(y) \subseteq spoiled
    /\ \A a \in Admins :
        LET held == Held(a)
        IN  /\ \A f \in held \cup Made(a) : file[f] # "free"
            /\ \A f \in held \ spoiled : file[f] = "stored"
            /\ \A b \in Admins \ {a} : held \cap Held(b) \subseteq spoiled

\* What an edit deletes is not what it keeps, and no longer what the row names.
RemovedAreGone ==
    \A a \in Admins :
        /\ At(a, "commit") => admin[a].keep \cap admin[a].removed = {}
        /\ At(a, "discard") /\ Live(admin[a].item) =>
            admin[a].removed \cap FilesOf(row[admin[a].item]) \subseteq spoiled

IInv ==
    /\ TypeOK
    /\ SeenIsCurrent /\ CatalogCachesFollowRows
    /\ WritesFit /\ ImagesWithinLimit
    /\ FilesApart /\ RemovedAreGone /\ NamedFilesAreStored

=============================================================================
