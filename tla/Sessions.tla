------------------------------ MODULE Sessions ------------------------------
(***************************************************************************)
(* auth.service.ts and its passport strategies: login, the pair of tokens, *)
(* the rotation of the refresh token, logout.                              *)
(***************************************************************************)
EXTENDS UserReads

login(h) ==
    /\ Arrives(h, "login")
    /\ \E pass \in Passwords : Lookup(h, Request0("login", "lookup", 0, pass, FALSE))

\* generateTokens: the refresh token is signed, then set.
SignTokens(h) ==
    /\ At(h, "issue")
    /\ Sign(h, "refreshToken")
    /\ UNCHANGED <<rowVars, codeVars, tokenVars, offered>>

StoreRefresh(h) ==
    /\ At(h, "store")
    /\ handler[h].op # "spend"
    /\ refresh' = [token |-> handler[h].arg, old |-> FALSE, unended |-> FALSE]
    /\ Answer(h)
    /\ UNCHANGED <<rowVars, codeVars, reset, issued, offered, ghost>>

\* RefreshTokenStrategy.validate only tests that there is a token.
refreshToken(h) ==
    /\ Arrives(h, "refresh")
    /\ refresh # NoEntry
    /\ \E token \in 1 .. issued["refreshToken"] :
        Become(h, Request0("refresh", "lookup", token, NoEntry,
                           Spent("refreshToken", token)))
    /\ UNCHANGED <<rowVars, codeVars, tokenVars, issued, offered, ghost>>

\* Slip: the guard's test is taken to be enough.
CompareRefresh_anyToken(h) ==
    /\ At(h, "compare")
    /\ IF refresh # NoEntry THEN Proceed(h, "rotate") ELSE Answer(h)
    /\ UNCHANGED <<rowVars, codeVars, tokenVars, issued, offered, ghost>>

CompareRefresh(h) ==
    /\ At(h, "compare")
    /\ IF refresh # NoEntry /\ refresh.token = handler[h].arg
       THEN Proceed(h, "rotate") ELSE Answer(h)
    /\ UNCHANGED <<rowVars, codeVars, tokenVars, issued, offered, ghost>>

DeleteRefresh(h) ==
    /\ At(h, "rotate")
    /\ refresh' = NoEntry
    /\ Spend(InRefresh \cup {<<"refreshToken", handler[h].arg>>})
    /\ Proceed(h, "issue")
    /\ UNCHANGED <<rowVars, codeVars, reset, issued, offered>>

logout(h) ==
    /\ At(h, "logout")
    /\ refresh' = NoEntry
    /\ Spend(InRefresh)
    /\ Answer(h)
    /\ UNCHANGED <<rowVars, codeVars, reset, issued, offered>>

ExpireRefresh ==
    /\ refresh # NoEntry
    /\ refresh' = NoEntry
    /\ UNCHANGED <<rowVars, codeVars, reset, handler, issued, offered, ghost>>

=============================================================================
