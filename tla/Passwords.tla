----------------------------- MODULE Passwords ------------------------------
(***************************************************************************)
(* password.service.ts: a new password, with the old one or with a code    *)
(* from a mail.  Neither way touches the copies of the user in Redis.      *)
(***************************************************************************)
EXTENDS UserReads

\* The new password differs from the one it is compared with.
CheckPassword(h, next) ==
    /\ \E new \in Passwords \ {row.password} :
        Become(h, [handler[h] EXCEPT !.step = next, !.pass = new])
    /\ UNCHANGED <<rowVars, codeVars, tokenVars, issued, offered, ghost>>

changePassword(h) == At(h, "checkOld") /\ CheckPassword(h, "writePassword")
resetPassword(h) == At(h, "checkNew") /\ CheckPassword(h, "consume")

forgotPasswordVerifyOtp(h) ==
    /\ Arrives(h, "spend")
    /\ code["reset"] # NoEntry
    /\ Become(h, Request0("spend", "spend", code["reset"], NoEntry,
                        Spent("reset", code["reset"])))
    /\ UNCHANGED <<rowVars, codeVars, tokenVars, issued, offered, ghost>>

DeleteResetCode(h) ==
    /\ At(h, "spend")
    /\ code' = [code EXCEPT !["reset"] = NoEntry]
    /\ Spend({<<"reset", handler[h].arg>>})
    /\ Proceed(h, "grant")
    /\ UNCHANGED <<rowVars, cooldown, mailed, tokenVars, issued, offered>>

SignGrant(h) ==
    /\ At(h, "grant")
    /\ Sign(h, "resetToken")
    /\ UNCHANGED <<rowVars, codeVars, tokenVars, offered>>

StoreReset(h) ==
    /\ At(h, "store")
    /\ handler[h].op = "spend"
    /\ reset' = handler[h].arg
    /\ Answer(h)
    /\ UNCHANGED <<rowVars, codeVars, refresh, issued, offered, ghost>>

PresentReset(h) ==
    /\ Arrives(h, "reset")
    /\ reset # NoEntry
    /\ Become(h, Request0("reset", "checkNew", reset, NoEntry, Spent("resetToken", reset)))
    /\ UNCHANGED <<rowVars, codeVars, tokenVars, issued, offered, ghost>>

DeleteResetToken(h) ==
    /\ At(h, "consume")
    /\ reset' = NoEntry
    /\ Spend({<<"resetToken", handler[h].arg>>})
    /\ Proceed(h, "writePassword")
    /\ UNCHANGED <<rowVars, codeVars, refresh, issued, offered>>

\* Slip: the session is ended only when the password was forgotten.
WritePassword_keepsSession(h) ==
    /\ At(h, "writePassword")
    /\ row' = [row EXCEPT !.password = handler[h].pass]
    /\ refresh' = IF refresh = NoEntry THEN NoEntry
                  ELSE [refresh EXCEPT !.old = TRUE, !.unended = FALSE]
    /\ IF handler[h].op = "reset" THEN Proceed(h, "endSession") ELSE Answer(h)
    /\ UNCHANGED <<cached, codeVars, reset, issued, offered, ghost>>

WritePassword(h) ==
    /\ At(h, "writePassword")
    /\ row' = [row EXCEPT !.password = handler[h].pass]
    /\ refresh' = IF refresh = NoEntry THEN NoEntry
                  ELSE [refresh EXCEPT !.old = TRUE, !.unended = FALSE]
    /\ Proceed(h, "endSession")
    /\ UNCHANGED <<cached, codeVars, reset, issued, offered, ghost>>

EndSession(h) ==
    /\ At(h, "endSession")
    /\ refresh' = NoEntry
    /\ Spend(InRefresh)
    /\ Answer(h)
    /\ UNCHANGED <<rowVars, codeVars, reset, issued, offered>>

ExpireReset ==
    /\ reset # NoEntry
    /\ reset' = NoEntry
    /\ UNCHANGED <<rowVars, codeVars, refresh, handler, issued, offered, ghost>>

=============================================================================
