---------------------------- MODULE Registration ----------------------------
(***************************************************************************)
(* auth.service.ts: registration, one-time codes by mail and their         *)
(* verification; and the mail of a forgotten password, which differs from  *)
(* a resend in what a failure undoes.                                      *)
(***************************************************************************)
EXTENDS UserReads

registerUser(h) ==
    /\ Arrives(h, "register")
    /\ row = Unborn
    /\ Become(h, Request0("register", "create", 0, NoEntry, FALSE))
    /\ UNCHANGED <<rowVars, codeVars, tokenVars, issued, offered, ghost>>

\* The second of two registrations violates the unique email.
CreateUser(h) ==
    /\ At(h, "create")
    /\ IF row = Unborn
       THEN /\ \E password \in Passwords, profile \in Profiles :
                row' = [status |-> "PENDING", password |-> password,
                        profile |-> profile]
            /\ Proceed(h, "code")
       ELSE UNCHANGED row /\ Answer(h)
    /\ UNCHANGED <<cached, codeVars, tokenVars, issued, offered, ghost>>

resendOtp(h) ==
    /\ Arrives(h, "resend")
    /\ Lookup(h, Request0("resend", "lookup", 0, NoEntry, FALSE))

forgotPassword(h) ==
    /\ Arrives(h, "forgot")
    /\ row # Unborn
    /\ Become(h, Request0("forgot", "cooldown", 0, NoEntry, FALSE))
    /\ UNCHANGED <<rowVars, codeVars, tokenVars, issued, offered, ghost>>

\* Slip: the test and the set are two commands, and the test came before.
TakeCooldown_unconditional(h) ==
    /\ At(h, "cooldown")
    /\ cooldown' = [cooldown EXCEPT ![Channel(handler[h].op)] = TRUE]
    /\ Proceed(h, "code")
    /\ UNCHANGED <<rowVars, code, mailed, tokenVars, issued, offered, ghost>>

\* SET NX.
TakeCooldown(h) ==
    LET c == Channel(handler[h].op)
    IN  /\ At(h, "cooldown")
        /\ cooldown' = [cooldown EXCEPT ![c] = TRUE]
        /\ IF cooldown[c] THEN Answer(h) ELSE Proceed(h, "code")
        /\ UNCHANGED <<rowVars, code, mailed, tokenVars, issued, offered, ghost>>

SetCode(h) ==
    LET c == Channel(handler[h].op)
        new == issued[c] + 1
    IN  /\ At(h, "code")
        /\ new <= MaxCodes
        /\ code' = [code EXCEPT ![c] = new]
        /\ issued' = [issued EXCEPT ![c] = new]
        /\ Become(h, [handler[h] EXCEPT !.step = "mail", !.arg = new])
        /\ ghost' = [ghost EXCEPT !.tangled = IF \E g \in Handlers : InMail(g, c)
                                              THEN @ \cup {c} ELSE @ \ {c}]
        /\ UNCHANGED <<rowVars, cooldown, mailed, tokenVars, offered>>

\* The mail is queued; nobody waits for its delivery.
QueueMail(h) ==
    /\ At(h, "mail")
    /\ mailed' = [mailed EXCEPT ![Channel(handler[h].op)] = handler[h].arg]
    /\ Answer(h)
    /\ UNCHANGED <<rowVars, code, cooldown, tokenVars, issued, offered, ghost>>

\* Slip: a code that was not mailed stays.
CodeFails_keepsCode(h) ==
    /\ handler[h].step \in {"code", "mail"}
    /\ handler[h].op # "register"
    /\ Answer(h)
    /\ UNCHANGED <<rowVars, codeVars, tokenVars, issued, offered, ghost>>

\* The catch of resendOtp and of forgotPassword; registerUser has none.
CodeFails(h) ==
    /\ handler[h].step \in {"code", "mail"}
    /\ handler[h].op # "register"
    /\ Proceed(h, IF handler[h].op = "resend" THEN "undoCooldown" ELSE "undoCode")
    /\ UNCHANGED <<rowVars, codeVars, tokenVars, issued, offered, ghost>>

\* Whoever took the cooldown is not protected by it any more.
CooldownGone(c) ==
    [g \in Handlers |-> IF Mailing(g, c) THEN [handler[g] EXCEPT !.late = TRUE]
                        ELSE handler[g]]

UndoCooldown(h) ==
    LET c == Channel(handler[h].op)
    IN  /\ At(h, "undoCooldown")
        /\ cooldown' = [cooldown EXCEPT ![c] = FALSE]
        /\ handler' = [CooldownGone(c) EXCEPT ![h].step = "undoCode"]
        /\ UNCHANGED <<rowVars, code, mailed, tokenVars, issued, offered, ghost>>

UndoCode(h) ==
    /\ At(h, "undoCode")
    /\ code' = [code EXCEPT ![Channel(handler[h].op)] = NoEntry]
    /\ Answer(h)
    /\ UNCHANGED <<rowVars, cooldown, mailed, tokenVars, issued, offered, ghost>>

verifyOtp(h) ==
    /\ Arrives(h, "verify")
    /\ code["verify"] # NoEntry
    /\ Become(h, Request0("verify", "lookup", code["verify"], NoEntry,
                        Spent("verify", code["verify"])))
    /\ UNCHANGED <<rowVars, codeVars, tokenVars, issued, offered, ghost>>

\* Slip: a status no reader knows.
Activate_verified(h) ==
    /\ At(h, "activate")
    /\ row' = [row EXCEPT !.status = "VERIFIED"]
    /\ Overtake(h, "forget")
    /\ UNCHANGED <<cached, codeVars, tokenVars, issued, offered, ghost>>

Activate(h) ==
    /\ At(h, "activate")
    /\ row' = [row EXCEPT !.status = "ACTIVE"]
    /\ Overtake(h, "forget")
    /\ UNCHANGED <<cached, codeVars, tokenVars, issued, offered, ghost>>

\* The code and both copies of the user; a failed DEL ends the request.
Forget(h) ==
    /\ At(h, "forget")
    /\ \E kept \in SUBSET (Keys \cup {"code"}) :
        /\ cached' = [k \in Keys |-> IF k \in kept THEN Outdated(kept)[k] ELSE NoEntry]
        /\ code' = [code EXCEPT !["verify"] = IF "code" \in kept THEN @ ELSE NoEntry]
        /\ IF "code" \in kept THEN UNCHANGED ghost
           ELSE Spend({<<"verify", handler[h].arg>>})
        /\ IF kept = {} THEN Proceed(h, "issue") ELSE Answer(h)
    /\ UNCHANGED <<row, cooldown, mailed, tokenVars, issued, offered>>

ExpireCode(c) ==
    /\ code[c] # NoEntry
    /\ code' = [code EXCEPT ![c] = NoEntry]
    /\ UNCHANGED <<rowVars, cooldown, mailed, tokenVars, handler, issued, offered,
                   ghost>>

ExpireCooldown(c) ==
    /\ cooldown[c]
    /\ cooldown' = [cooldown EXCEPT ![c] = FALSE]
    /\ handler' = CooldownGone(c)
    /\ UNCHANGED <<rowVars, code, mailed, tokenVars, issued, offered, ghost>>

=============================================================================
