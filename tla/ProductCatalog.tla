--------------------------- MODULE ProductCatalog ---------------------------
(* products.service.ts and upload-file.service.ts.                          *)
EXTENDS CatalogStore

\* Uploads thumbnail and images of a product that does not exist yet.  Its
\* category has been looked up as any "get" does; categories are never deleted.
createProduct(a) ==
    /\ At(a, "idle")
    /\ \E cover \in Fresh : \E images \in SUBSET (Fresh \ {cover}) :
        /\ Cardinality(images) \in 1 .. MAX_IMAGES
        /\ \A f \in images : cover < f
        /\ Upload({cover} \cup images)
        /\ Become(a, [step |-> "create", cover |-> cover, images |-> images,
                      attempt |-> 0, made |-> {}])
    /\ UNCHANGED <<row, cache, spoiled>>

\* An insert succeeds, and the loop goes on all the same.
InsertProduct(a, p) ==
    /\ At(a, "create")
    /\ admin[a].attempt < MAX_RETRIES
    /\ row[p] = Unborn
    /\ \E details \in Details :
        LET product == [details |-> details, cover |-> admin[a].cover,
                        images |-> admin[a].images]
        IN  /\ row' = [row EXCEPT ![p] = product]
            /\ Commit(a, p, [step |-> "created", item |-> p, seen |-> product,
                             cover |-> admin[a].cover, images |-> admin[a].images,
                             attempt |-> admin[a].attempt,
                             made |-> admin[a].made \cup {p}, late |-> FALSE])
    /\ spoiled' = spoiled \cup IF admin[a].made = {} THEN {}
                               ELSE {admin[a].cover} \cup admin[a].images
    /\ UNCHANGED <<file, cache>>

\* What createProduct has uploaded is deleted again, made or not.
ToCleanup(a) ==
    /\ Become(a, [step |-> "cleanup",
                  files |-> {admin[a].cover} \cup admin[a].images])
    /\ spoiled' = spoiled \cup IF admin[a].made = {} THEN {}
                               ELSE {admin[a].cover} \cup admin[a].images

\* The SKU exists already: once more, or give up.  Any other failure gives up.
InsertFails(a) ==
    /\ At(a, "create")
    /\ admin[a].attempt < MAX_RETRIES
    /\ \/ /\ admin[a].attempt < MAX_RETRIES - 1
          /\ admin' = [admin EXCEPT ![a].attempt = @ + 1]
          /\ UNCHANGED spoiled
       \/ ToCleanup(a)
    /\ UNCHANGED <<file, row, cache>>

\* Redis takes both commands, and the loop takes the next attempt.
ProductCreated(a) ==
    /\ At(a, "created")
    /\ cache' = Announced(a)
    /\ Become(a, [step |-> "create", cover |-> admin[a].cover,
                  images |-> admin[a].images, attempt |-> admin[a].attempt + 1,
                  made |-> admin[a].made])
    /\ UNCHANGED <<file, row, spoiled>>

ProductCreatedFails(a) ==
    /\ At(a, "created")
    /\ \E lost \in SUBSET KeysOf(admin[a].item) : cache' = PartlyAnnounced(a, lost)
    /\ ToCleanup(a)
    /\ UNCHANGED <<file, row>>

CreationEnds(a) ==
    /\ At(a, "create")
    /\ admin[a].attempt = MAX_RETRIES
    /\ Become(a, Idle)
    /\ UNCHANGED <<file, row, cache, spoiled>>

\* A file that nobody names and that could not be deleted is told from a
\* deleted one by no property, so that the attempt is enough.
Cleanup(a) ==
    /\ At(a, "cleanup")
    /\ Destroy(admin[a].files)
    /\ Become(a, Idle)
    /\ UNCHANGED <<row, cache, spoiled>>

-----------------------------------------------------------------------------
updateProduct(a, p) ==
    /\ At(a, "idle")
    /\ Live(p)
    /\ \E details \in Details :
        LET product == [row[p] EXCEPT !.details = details]
        IN  /\ row' = [row EXCEPT ![p] = product]
            /\ Commit(a, p, Announcement(p, product, {}, FALSE))
    /\ UNCHANGED <<file, cache, spoiled>>

\* The row goes; its files stay at Cloudinary.
deleteProduct(a, p) ==
    /\ At(a, "idle")
    /\ Live(p)
    /\ row' = [row EXCEPT ![p] = Gone]
    /\ Commit(a, p, [step |-> "forget", item |-> p])
    /\ UNCHANGED <<file, cache, spoiled>>

ForgetProduct(a) ==
    /\ At(a, "forget")
    /\ \E lost \in SUBSET KeysOf(admin[a].item) :
        cache' = [k \in Keys |-> IF k \in KeysOf(admin[a].item) \ lost THEN NoEntry
                                 ELSE Outdated(lost)[k]]
    /\ Become(a, Idle)
    /\ UNCHANGED <<file, row, spoiled>>

-----------------------------------------------------------------------------
(* changeProductThumbnail and updateProductImages, from the copy of the    *)
(* product that getProductById returned.                                   *)

changeProductThumbnail(a, p, base) ==
    \E f \in Fresh :
        /\ Upload({f})
        /\ Become(a, Edit(p, "thumbnail", {}, {f}, {base.cover}))

updateProductImages(a, p, base) ==
    \E removed \in SUBSET base.images, new \in SUBSET Fresh :
        /\ Cardinality(base.images \ removed) + Cardinality(new) \in 1 .. MAX_IMAGES
        /\ Upload(new)
        /\ Become(a, Edit(p, "images", base.images \ removed, new, removed))

\* What updateProductImages has uploaded is deleted again, committed or not.
RollBack(a) ==
    /\ Destroy(admin[a].new)
    /\ Become(a, Idle)

=============================================================================
