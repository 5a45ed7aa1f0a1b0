------------------------- MODULE MCPlatformReviews --------------------------
(* Instances of PlatformReviews for TLC: the second review is written after *)
(* the first was deleted.                                                   *)
EXTENDS PlatformReviews

CONSTANTS good, bad

\* What a behaviour offers beside "add": reads of one kind, and the writes that
\* change what they find.
AllScenarios ==
    {{"add"} \cup S : S \in {{"update", "delete"}, {"update", "getMine"},
                            {"delete", "getMine"}, {"delete", "getOne"},
                            {"update", "admin"}, {"delete", "public"},
                            {"update", "trend"}, {"summary"}}}

=============================================================================
