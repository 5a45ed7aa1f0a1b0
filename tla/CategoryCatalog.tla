-------------------------- MODULE CategoryCatalog ---------------------------
(* category.service.ts.                                                     *)
EXTENDS CatalogStore

\* A logo is uploaded, then the category inserted.
createCategory(a, c) ==
    /\ At(a, "idle")
    /\ row[c] = Unborn
    /\ \E logo \in Fresh, details \in Details :
        LET category == [details |-> details, cover |-> logo, images |-> {}]
        IN  /\ Upload({logo})
            /\ row' = [row EXCEPT ![c] = category]
            /\ Commit(a, c, Announcement(c, category, {}, FALSE))
    /\ UNCHANGED <<cache, spoiled>>

\* updateCategory, from the copy that getCategoryById returned: with a new
\* logo, or with the logo of the copy.
updateCategory(a, c, base) ==
    \/ \E logo \in Fresh :
        /\ Upload({logo})
        /\ Become(a, Edit(c, "category", {}, {logo}, {base.cover}))
    \/ /\ Become(a, Edit(c, "category", {base.cover}, {}, {}))
       /\ UNCHANGED file

=============================================================================
