----------------------------- MODULE MCCatalog ------------------------------
(* Instances of the catalog for TLC: products and categories share no row,  *)
(* file or key, so that a behaviour with one kind of them is enough.        *)
EXTENDS Catalog, TLC

FourFiles == 1 .. 4

\* A product and two more uploads; a category and two more.
OneKind == {[items |-> Products, files |-> 1 .. 4],
            [items |-> Categories, files |-> 1 .. 3]}
OnlyProducts == {[items |-> Products, files |-> 1 .. 4]}

CatalogSymmetry == Permutations(Admins)

=============================================================================
