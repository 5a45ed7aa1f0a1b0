------------------------------ MODULE Accounts ------------------------------
(***************************************************************************)
(* Registration, sessions and passwords of one user together.              *)
(***************************************************************************)
EXTENDS Registration, Sessions, Passwords

\* A call to Redis, PostgreSQL or the queue fails, or the process dies.  What
\* the handler was to undo, delete or end stays: the refresh token of before a
\* new password too.
HandlerDies(h) ==
    LET q == handler[h]
    IN  /\ ~At(h, "idle")
        /\ Answer(h)
        /\ cached' = IF q.step \in {"forget", "forgetUser"} THEN Outdated(Keys)
                     ELSE cached
        /\ refresh' = IF q.step = "endSession" /\ refresh # NoEntry
                      THEN [refresh EXCEPT !.unended = refresh.old] ELSE refresh
        /\ ghost' = IF q.step \in {"mail", "undoCooldown", "undoCode"}
                    THEN [ghost EXCEPT !.tangled = @ \cup {Channel(q.op)}] ELSE ghost
        /\ UNCHANGED <<row, codeVars, reset, issued, offered>>

Requested(h) ==
    \/ registerUser(h)
    \/ resendOtp(h)
    \/ forgotPassword(h)
    \/ verifyOtp(h)
    \/ login(h)
    \/ refreshToken(h)
    \/ forgotPasswordVerifyOtp(h)
    \/ PresentReset(h)
    \/ \E op \in Guarded : Authenticate(h, op)

Continued(h) ==
    \/ LookUpUser(h)
    \/ FillUser(h)
    \/ updateUserProfile(h)
    \/ ForgetUser(h)
    \/ CreateUser(h)
    \/ TakeCooldown(h)
    \/ SetCode(h)
    \/ QueueMail(h)
    \/ CodeFails(h)
    \/ UndoCooldown(h)
    \/ UndoCode(h)
    \/ Activate(h)
    \/ Forget(h)
    \/ SignTokens(h)
    \/ StoreRefresh(h)
    \/ CompareRefresh(h)
    \/ DeleteRefresh(h)
    \/ logout(h)
    \/ changePassword(h)
    \/ resetPassword(h)
    \/ DeleteResetCode(h)
    \/ SignGrant(h)
    \/ StoreReset(h)
    \/ DeleteResetToken(h)
    \/ WritePassword(h)
    \/ EndSession(h)
    \/ HandlerDies(h)

Expired ==
    \/ \E k \in Keys : ExpireUser(k)
    \/ \E c \in Channels : ExpireCode(c) \/ ExpireCooldown(c)
    \/ ExpireRefresh
    \/ ExpireReset

Next == Expired \/ \E h \in Handlers : Requested(h) \/ Continued(h)

Spec == Init /\ [][Next]_vars

-----------------------------------------------------------------------------
\* user.service.ts:72, auth.service.ts:209: a copy of the user says what the
\* row says of status and profile, unless the row was written between a read
\* and its SET or a DEL failed; nobody is kept out after verification.
CachedUserFollowsRow ==
    \A k \in Keys :
        \/ cached[k] = NoEntry
        \/ cached[k].late
        \/ \E h \in Handlers : handler[h].step \in {"forget", "forgetUser"}
        \/ /\ cached[k].user.status = row.status
           /\ cached[k].user.profile = row.profile

\* auth.service.ts:153-176, password.service.ts:136-150: the code that Redis
\* holds, if any, is the one last mailed, through failures, retries and
\* rollbacks; unless two mailers overlapped, or one died before it undid.
NewestMailVerifies ==
    \A c \in Channels :
        \/ c \in ghost.tangled
        \/ mailed[c] = 0
        \/ \E h \in Handlers : InMail(h, c)
        \/ code[c] \in {NoEntry, mailed[c]}

\* auth.service.ts:144, password.service.ts:119: of two requests for a mail
\* only one gets past the cooldown, however they interleave, until the
\* cooldown runs out or a failure undoes it.
CooldownExcludes ==
    \A g, h \in Handlers, c \in Channels :
        \/ g = h
        \/ ~(Mailing(g, c) /\ Mailing(h, c))
        \/ "register" \in {handler[g].op, handler[h].op}
        \/ handler[g].late \/ handler[h].late

\* What a request presents, and the steps it takes only once that was accepted.
KindOf(op) == IF op = "verify" THEN "verify" ELSE IF op = "spend" THEN "reset"
              ELSE IF op = "rotate" THEN "refreshToken" ELSE "resetToken"
Accepted(q) ==
    \/ q.step \in {"spend", "checkNew", "consume"}
    \/ q.step \in {"lookup", "fill", "activate", "forget"} /\ q.op = "verify"
    \/ q.step = "rotate"

\* auth.service.ts:310, password.service.ts:217: a code, a refresh token or a
\* reset token that had been used, or ended by a logout or a new password, when
\* it arrives is refused; unless the same token was signed again that second.
SpentIsRefused ==
    \A h \in Handlers :
        LET q == handler[h]
        IN  (Accepted(q) /\ q.replay) => <<KindOf(q.op), q.arg>> \in ghost.twice

\* password.service.ts:89, :257: a refresh token that was there when the
\* password changed is gone once the change has been answered with success,
\* also when a login, a rotation or another change is under way.  Where the DEL
\* fails the request fails and the old token stays good: nothing retries it.
ChangeEndsSessions ==
    refresh # NoEntry /\ refresh.old =>
        \/ refresh.unended
        \/ \E h \in Handlers : At(h, "endSession")

-----------------------------------------------------------------------------
(* Why the properties hold: what the handlers in flight may rely on.       *)

\* Where a request is tells what it holds, and that there is a user.
Fits(q) ==
    /\ q.step \notin {"idle", "create"} => row # Unborn
    /\ q.step = "fill" => q.seen # NoEntry
    /\ q.step = "mail" => q.arg \in Codes
    /\ q.step = "store" => q.arg \in Tokens
    /\ q.step \in {"consume", "writePassword"} => q.pass # NoEntry
    /\ q.step \in {"checkNew", "consume"} => q.op = "reset"
    /\ q.step \in {"compare", "rotate"} => q.op = "rotate"
    /\ q.step = "spend" => q.op = "spend"
    /\ q.step = "create" => q.op = "register"
    /\ q.step \in {"activate", "forget"} => q.op = "verify"
    /\ q.step = "issue" => q.op # "spend"
    /\ q.step = "grant" => q.op = "spend"

FieldsFit == \A h \in Handlers : Fits(handler[h])

NobodyYet ==
    row = Unborn =>
        /\ \A k \in Keys : cached[k] = NoEntry
        /\ \A c \in Channels : code[c] = NoEntry
        /\ refresh = NoEntry /\ reset = NoEntry

\* Who is about to cache the user and was not overtaken has the user as it is.
FillsAreCurrent ==
    \A h \in Handlers :
        At(h, "fill") /\ ~handler[h].late =>
            /\ handler[h].seen.status = row.status
            /\ handler[h].seen.profile = row.profile

\* A code that is about to be mailed has not been replaced.
MailIsCurrent ==
    \A h \in Handlers :
        LET c == Channel(handler[h].op)
        IN  At(h, "mail") /\ c \notin ghost.tangled => code[c] \in {NoEntry, handler[h].arg}

\* A mailer has the cooldown it took, until it is told that it is gone.
CooldownHeld ==
    \A h \in Handlers, c \in Channels :
        Mailing(h, c) /\ handler[h].op # "register" /\ ~handler[h].late => cooldown[c]

\* The tokens in Redis, the one h is about to store, the one h was accepted with.
Held == InRefresh \cup {<<"resetToken", n>> : n \in {reset} \ {NoEntry}}
Storing(h) ==
    IF ~At(h, "store") THEN {}
    ELSE IF handler[h].op = "spend" THEN {<<"resetToken", handler[h].arg>>}
    ELSE {<<"refreshToken", handler[h].arg>>}
Presented(h) ==
    IF At(h, "rotate") THEN {<<"refreshToken", handler[h].arg>>}
    ELSE IF handler[h].step \in {"checkNew", "consume"}
    THEN {<<"resetToken", handler[h].arg>>}
    ELSE {}

\* A request that came with a refresh token and has not been answered for it.
Refreshing(q) ==
    /\ q.step \in {"lookup", "fill", "compare", "rotate"}
    /\ q.op \in {"refresh", "rotate"}

\* Numbers are given out in order.
InOrder ==
    /\ \A c \in Channels : code[c] # NoEntry => code[c] <= issued[c]
    /\ \A t \in ghost.spent \cup Held : t[2] <= issued[t[1]]
    /\ \A h \in Handlers : \A t \in Storing(h) \cup Presented(h) : t[2] <= issued[t[1]]
    /\ \A h \in Handlers :
        /\ handler[h].step \in {"lookup", "fill", "activate", "forget"} /\ handler[h].op = "verify"
            => handler[h].arg <= issued["verify"]
        /\ At(h, "spend") => handler[h].arg <= issued["reset"]
        /\ Refreshing(handler[h]) => handler[h].arg <= issued["refreshToken"]

\* Codes and tokens are spent for good, unless the same token is signed again:
\* what is in Redis was not spent, what is about to be stored is in no other
\* hands, and a replay remembers what was spent.
SpentForGood ==
    /\ \A c \in Channels : code[c] # NoEntry => ~Spent(c, code[c])
    /\ ghost.spent \cap Held \subseteq ghost.twice
    /\ \A h \in Handlers :
        Storing(h) \cap (ghost.spent \cup Held) \subseteq ghost.twice
    /\ \A g, h \in Handlers :
        g # h => Storing(h) \cap (Storing(g) \cup Presented(g)) \subseteq ghost.twice
    /\ \A h \in Handlers : Refreshing(handler[h]) /\ handler[h].replay =>
        Spent("refreshToken", handler[h].arg)

IInv ==
    /\ TypeOK
    /\ FieldsFit
    /\ NobodyYet
    /\ FillsAreCurrent
    /\ MailIsCurrent
    /\ CooldownHeld
    /\ InOrder
    /\ SpentForGood

=============================================================================
