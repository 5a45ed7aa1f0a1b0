---------------------------- MODULE MCRateLimit -----------------------------
(* Instances of RateLimit for TLC. *)
EXTENDS RateLimit, TLC

CONSTANTS home, office, account

\* One account from two addresses.
TwoPaths == {<<home, account>>, <<office, account>>}

RequestSymmetry == Permutations(Requests)

=============================================================================
