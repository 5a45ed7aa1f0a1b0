---------------------------- MODULE AccountStore ----------------------------
(***************************************************************************)
(* What the authentication, password and user services share, for one     *)
(* user: the row in PostgreSQL, its two copies in Redis, the one-time      *)
(* codes and their cooldowns, the refresh and the reset token, and the     *)
(* requests under way.  No key and no row is shared by two users.          *)
(***************************************************************************)
EXTENDS Integers, FiniteSets

CONSTANTS
    Handlers,   \* requests that may be under way at once
    Passwords,
    Profiles,   \* names, phones and avatars a user may have
    Scenarios,  \* bound: a behaviour offers the ops of one scenario
    MaxCodes,   \* bound: codes made per channel
    MaxTokens,  \* bound: tokens of each kind with a time stamp of their own
    Unborn,     \* the row before the registration
    NoEntry     \* an absent Redis key

Status == {"PENDING", "ACTIVE"}
User == [status : Status, password : Passwords, profile : Profiles]

\* userCacheKeyWithId and userCacheKeyWithEmail.
Keys == {"id", "email"}
Copy == [user : User, late : BOOLEAN]

\* What a one-time code is for.
Channels == {"verify", "reset"}
Codes == 1 .. MaxCodes
Tokens == 1 .. MaxTokens

\* The two marks are ghosts.  old: the password was changed while the token was
\* there; unended: the DEL that was to end it after that change failed.
RefreshEntry == [token : Tokens, old : BOOLEAN, unended : BOOLEAN]

Mailers == {"register", "resend", "forgot"}
Guarded == {"me", "profile", "change", "logout"}
Offers == Mailers \cup Guarded
            \cup {"verify", "login", "refresh", "spend", "reset"}

\* Behind the guards the user is looked up a second time: GET me becomes
\* "current" and refresh becomes "rotate".
Ops == Offers \cup {"current", "rotate"}
Channel(op) == IF op \in {"forgot", "spend"} THEN "reset" ELSE "verify"
KeyOf(op) == IF op \in {"resend", "verify", "login"} THEN "email" ELSE "id"

ASSUME BoundsAssumption == MaxCodes \in Nat \ {0} /\ MaxTokens \in Nat \ {0}

ASSUME ScenariosAssumption ==
    Scenarios \subseteq [row : User \cup {Unborn}, offered : SUBSET Offers]

ASSUME NoEntryAssumption ==
    /\ NoEntry \notin Copy \cup User \cup Codes \cup Passwords
    /\ NoEntry \notin RefreshEntry
    /\ Unborn \notin User

VARIABLES
    row,        \* the users row, or Unborn
    cached,     \* cached[k]: the copy under the key k; late is a ghost: a write
                \* overtook the handler that set it, or failed to delete it
    code,       \* code[c]: the one-time code whose hash Redis holds
    cooldown,   \* cooldown[c]: the resend key of the channel exists
    refresh,    \* the refresh token in Redis
    reset,      \* the password reset token in Redis
    handler,    \* handler[h]: what the request h does next
    issued,     \* codes and tokens made so far
    mailed,     \* mailed[c]: the code of the last mail queued
    offered,    \* the operations of this behaviour
    ghost       \* tangled: channels whose last mailer was not alone; spent:
                \* codes and tokens used, or ended by logout or a new
                \* password; twice: tokens signed
                \* again within the second

rowVars == <<row, cached>>
codeVars == <<code, cooldown, mailed>>
tokenVars == <<refresh, reset>>
vars == <<row, cached, code, cooldown, refresh, reset, handler, issued, mailed,
          offered, ghost>>

Kinds == Channels \cup {"refreshToken", "resetToken"}

-----------------------------------------------------------------------------
\* arg: the code or token presented; pass: the password presented or to be
\* written; seen: the copy to be cached; late is a ghost: what the handler
\* holds has been overtaken, or the cooldown it took is gone; replay is a
\* ghost: what it presents had been spent when it arrived.
Step == {"create", "cooldown", "code", "mail", "undoCooldown", "undoCode",
         "lookup", "fill", "activate", "forget", "issue", "store", "compare",
         "rotate", "logout", "profile", "forgetUser", "checkOld", "spend",
         "grant", "checkNew", "consume", "writePassword", "endSession"}

Request == [op : Ops, step : Step, arg : Codes \cup Tokens \cup {0},
            pass : Passwords \cup {NoEntry}, seen : User \cup {NoEntry},
            late : BOOLEAN, replay : BOOLEAN]
Idle == [step |-> "idle"]

TypeOK ==
    /\ row \in User \cup {Unborn}
    /\ cached \in [Keys -> Copy \cup {NoEntry}]
    /\ code \in [Channels -> Codes \cup {NoEntry}]
    /\ cooldown \in [Channels -> BOOLEAN]
    /\ refresh \in RefreshEntry \cup {NoEntry}
    /\ reset \in Tokens \cup {NoEntry}
    /\ handler \in [Handlers -> Request \cup {Idle}]
    /\ issued \in [Kinds -> Nat]
    /\ \A k \in Channels : issued[k] <= MaxCodes
    /\ \A k \in Kinds \ Channels : issued[k] <= MaxTokens
    /\ mailed \in [Channels -> Codes \cup {0}]
    /\ offered \subseteq Offers
    /\ ghost \in [tangled : SUBSET Channels,
                  spent : SUBSET (Kinds \X Nat), twice : SUBSET (Kinds \X Nat)]

Init ==
    /\ \E s \in Scenarios : row = s.row /\ offered = s.offered
    /\ cached = [k \in Keys |-> NoEntry]
    /\ code = [c \in Channels |-> NoEntry]
    /\ cooldown = [c \in Channels |-> FALSE]
    /\ refresh = NoEntry
    /\ reset = NoEntry
    /\ handler = [h \in Handlers |-> Idle]
    /\ issued = [k \in Kinds |-> 0]
    /\ mailed = [c \in Channels |-> 0]
    /\ ghost = [tangled |-> {}, spent |-> {}, twice |-> {}]

-----------------------------------------------------------------------------
At(h, step) == handler[h].step = step
Arrives(h, op) == At(h, "idle") /\ op \in offered

\* The handler h goes on to its next await, or answers.
Request0(op, step, arg, pass, replay) ==
    [op |-> op, step |-> step, arg |-> arg, pass |-> pass,
     seen |-> NoEntry, late |-> FALSE, replay |-> replay]
Become(h, state) == handler' = [handler EXCEPT ![h] = state]
Proceed(h, step) == handler' = [handler EXCEPT ![h].step = step]
Answer(h) == Become(h, Idle)

\* A write changes the row that other handlers are about to cache.
Overtake(h, step) ==
    handler' = [g \in Handlers |->
                    IF g = h THEN [handler[h] EXCEPT !.step = step]
                    ELSE IF At(g, "fill") THEN [handler[g] EXCEPT !.late = TRUE]
                    ELSE handler[g]]

\* Copies under these keys stay although the row has changed.
Outdated(keys) ==
    [k \in Keys |-> IF k \in keys /\ cached[k] # NoEntry
                    THEN [cached[k] EXCEPT !.late = TRUE] ELSE cached[k]]
Forgotten(keys) == [k \in Keys |-> IF k \in keys THEN NoEntry ELSE cached[k]]

\* Handlers that are about to make a code, or have made one and not mailed it.
InMail(h, c) == /\ handler[h].step \in {"mail", "undoCooldown", "undoCode"}
                /\ Channel(handler[h].op) = c
Mailing(h, c) == \/ InMail(h, c)
                 \/ At(h, "code") /\ Channel(handler[h].op) = c

InRefresh == IF refresh = NoEntry THEN {} ELSE {<<"refreshToken", refresh.token>>}
Spend(items) == ghost' = [ghost EXCEPT !.spent = @ \cup items]
Spent(kind, n) == <<kind, n>> \in ghost.spent

\* A JWT is determined by its payload and the second it is signed in.
Sign(h, kind) ==
    \E token \in (1 .. MaxTokens) \cap {issued[kind], issued[kind] + 1} :
        /\ Become(h, [handler[h] EXCEPT !.step = "store", !.arg = token])
        /\ issued' = [issued EXCEPT ![kind] = token]
        /\ ghost' = [ghost EXCEPT !.twice = IF token = issued[kind]
                                            THEN @ \cup {<<kind, token>>} ELSE @]

=============================================================================
