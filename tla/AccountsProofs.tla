--------------------------- MODULE AccountsProofs ---------------------------
(***************************************************************************)
(* Theorems about Accounts, for any number of requests, passwords,         *)
(* profiles, codes and tokens.                                             *)
(***************************************************************************)
EXTENDS Accounts, TLAPS

USE BoundsAssumption, ScenariosAssumption, NoEntryAssumption

-----------------------------------------------------------------------------
(* Types.                                                                  *)

Typed == TypeOK /\ FieldsFit /\ NobodyYet

\* A handler that is not idle holds a request.
LEMMA BusyHoldsRequest ==
    ASSUME TypeOK, NEW h \in Handlers, handler[h].step # "idle"
    PROVE  handler[h] \in Request
  BY DEF TypeOK, Idle

LEMMA TypedInit == Init => Typed
  BY DEF Init, Typed, TypeOK, FieldsFit, Fits, NobodyYet, Idle, Channels, Kinds, Keys

\* What h becomes fits, and nothing else changed that the others rely on.
LEMMA BecomeKeepsFields ==
    ASSUME Typed, NEW h \in Handlers, NEW q \in Request \cup {Idle}, Become(h, q),
           Fits(q), row # Unborn => row' # Unborn
    PROVE  /\ handler' \in [Handlers -> Request \cup {Idle}]
           /\ FieldsFit'
  BY DEF Typed, TypeOK, FieldsFit, Fits, Become

LEMMA RequestFits ==
    ASSUME NEW op \in Ops, NEW step \in Step, NEW arg \in Codes \cup Tokens \cup {0},
           NEW pass \in Passwords \cup {NoEntry}, NEW replay \in BOOLEAN
    PROVE  Request0(op, step, arg, pass, replay) \in Request
  BY DEF Request0, Request

LEMMA ContinueKeeps ==
    ASSUME Typed, NEW h \in Handlers, NEW q \in Request, NEW user \in User,
           row # Unborn, Continue(h, q, user), UNCHANGED row
    PROVE  /\ handler' \in [Handlers -> Request \cup {Idle}]
           /\ FieldsFit'
  <1>1. CASE Answer(h)
    BY <1>1, BecomeKeepsFields DEF Answer, Fits, Idle
  <1>2. ASSUME NEW move \in Moves,
               Become(h, [q EXCEPT !.op = move[2], !.step = move[3]])
        PROVE  /\ handler' \in [Handlers -> Request \cup {Idle}]
               /\ FieldsFit'
    <2> DEFINE r == [q EXCEPT !.op = move[2], !.step = move[3]]
    <2>1. /\ move[2] \in Ops
          /\ move[3] \in {"cooldown", "activate", "issue", "lookup", "compare",
                          "logout", "profile", "checkOld"}
          /\ move[3] = "compare" => move[2] = "rotate"
          /\ move[3] = "activate" => move[2] = "verify"
          /\ move[3] = "issue" => move[2] = "login"
      BY DEF Moves, Ops, Offers, Mailers, Guarded
    <2>2. r \in Request /\ r.step = move[3]
      BY <2>1 DEF Request, Step
    <2>3. r.op = move[2]
      BY DEF Request
    <2>4. Fits(r)
      BY <2>1, <2>2, <2>3 DEF Fits
    <2> QED
      BY <1>2, <2>2, <2>4, BecomeKeepsFields
  <1> QED
    BY <1>1, <1>2 DEF Continue

LEMMA LookupKeeps ==
    ASSUME Typed, NEW h \in Handlers, NEW q \in Request, Lookup(h, q)
    PROVE  Typed'
  <1>1. UNCHANGED <<rowVars, codeVars, tokenVars, issued, offered, ghost>>
    BY DEF Lookup
  <1>2. /\ handler' \in [Handlers -> Request \cup {Idle}]
        /\ FieldsFit'
    <2>1. CASE row # Unborn /\ Become(h, [q EXCEPT !.step = "fill", !.seen = row])
      <3> DEFINE r == [q EXCEPT !.step = "fill", !.seen = row]
      <3>1. row \in User /\ row # NoEntry
        BY <2>1 DEF Typed, TypeOK
      <3>2. r \in Request /\ r.step = "fill" /\ r.seen = row
        BY <3>1 DEF Request, Step
      <3>3. Fits(r)
        BY <2>1, <3>1, <3>2 DEF Fits
      <3> QED
        BY <1>1, <2>1, <3>2, <3>3, BecomeKeepsFields DEF rowVars
    <2>2. CASE /\ cached[KeyOf(q.op)] # NoEntry
               /\ Continue(h, q, cached[KeyOf(q.op)].user)
      <3>1. KeyOf(q.op) \in Keys
        BY DEF KeyOf, Keys
      <3>2. cached[KeyOf(q.op)].user \in User /\ row # Unborn
        BY <2>2, <3>1 DEF Typed, TypeOK, NobodyYet, Copy
      <3> QED
        BY <1>1, <2>2, <3>2, ContinueKeeps DEF rowVars
    <2> QED
      BY <2>1, <2>2 DEF Lookup
  <1> QED
    BY <1>1, <1>2 DEF Typed, TypeOK, NobodyYet, rowVars, codeVars, tokenVars

\* Only h has moved.
LEMMA MoveKeeps ==
    ASSUME Typed, NEW h \in Handlers, NEW q \in Request \cup {Idle}, Become(h, q),
           Fits(q), UNCHANGED <<rowVars, codeVars, tokenVars, issued, offered, ghost>>
    PROVE  Typed'
  BY BecomeKeepsFields
  DEF Typed, TypeOK, NobodyYet, rowVars, codeVars, tokenVars

LEMMA RequestedKeepsTypes ==
    ASSUME Typed, NEW h \in Handlers, Requested(h)
    PROVE  Typed'
  <1> USE DEF Ops, Offers, Mailers, Guarded
  <1>1. CASE registerUser(h)
    <2> DEFINE q == Request0("register", "create", 0, NoEntry, FALSE)
    <2>1. q \in Request /\ Fits(q)
      BY DEF Request0, Request, Step, Fits
    <2> QED
      BY <1>1, <2>1, MoveKeeps DEF registerUser
  <1>2. CASE resendOtp(h)
    BY <1>2, LookupKeeps, RequestFits DEF Step, resendOtp
  <1>3. CASE forgotPassword(h)
    <2> DEFINE q == Request0("forgot", "cooldown", 0, NoEntry, FALSE)
    <2>1. q \in Request /\ Fits(q)
      BY <1>3 DEF Request0, Request, Step, Fits, forgotPassword
    <2> QED
      BY <1>3, <2>1, MoveKeeps DEF forgotPassword
  <1>4. CASE verifyOtp(h)
    <2> DEFINE q == Request0("verify", "lookup", code["verify"], NoEntry,
                            Spent("verify", code["verify"]))
    <2>1. code["verify"] \in Codes /\ row # Unborn
      BY <1>4 DEF verifyOtp, Typed, TypeOK, NobodyYet, Channels
    <2>2. q \in Request /\ Fits(q)
      BY <2>1 DEF Request0, Request, Step, Fits, Spent
    <2> QED
      BY <1>4, <2>2, MoveKeeps DEF verifyOtp
  <1>5. CASE login(h)
    BY <1>5, LookupKeeps, RequestFits DEF Step, login
  <1>6. CASE refreshToken(h)
    <2>1. PICK token \in 1 .. issued["refreshToken"] :
            Become(h, Request0("refresh", "lookup", token, NoEntry,
                               Spent("refreshToken", token)))
      BY <1>6 DEF refreshToken
    <2> DEFINE q == Request0("refresh", "lookup", token, NoEntry,
                             Spent("refreshToken", token))
    <2>2. token \in Tokens /\ row # Unborn
      BY <1>6 DEF refreshToken, Typed, TypeOK, NobodyYet, Kinds, Channels, Tokens
    <2>3. q \in Request /\ Fits(q)
      BY <2>2 DEF Request0, Request, Step, Fits, Spent
    <2> QED
      BY <1>6, <2>1, <2>3, MoveKeeps DEF refreshToken
  <1>7. CASE forgotPasswordVerifyOtp(h)
    <2> DEFINE q == Request0("spend", "spend", code["reset"], NoEntry,
                            Spent("reset", code["reset"]))
    <2>1. code["reset"] \in Codes /\ row # Unborn
      BY <1>7 DEF forgotPasswordVerifyOtp, Typed, TypeOK, NobodyYet, Channels
    <2>2. q \in Request /\ Fits(q)
      BY <2>1 DEF Request0, Request, Step, Fits, Spent
    <2> QED
      BY <1>7, <2>2, MoveKeeps DEF forgotPasswordVerifyOtp
  <1>8. CASE PresentReset(h)
    <2> DEFINE q == Request0("reset", "checkNew", reset, NoEntry, Spent("resetToken", reset))
    <2>1. reset \in Tokens /\ row # Unborn
      BY <1>8 DEF PresentReset, Typed, TypeOK, NobodyYet
    <2>2. q \in Request /\ Fits(q)
      BY <2>1 DEF Request0, Request, Step, Fits, Spent
    <2> QED
      BY <1>8, <2>2, MoveKeeps DEF PresentReset
  <1>9. ASSUME NEW op \in Guarded, Authenticate(h, op) PROVE Typed'
    BY <1>9, LookupKeeps, RequestFits DEF Step, Authenticate
  <1> QED
    BY <1>1, <1>2, <1>3, <1>4, <1>5, <1>6, <1>7, <1>8, <1>9 DEF Requested

\* A request that goes on is the same request at another step.
LEMMA ProceedKeeps ==
    ASSUME Typed, NEW h \in Handlers, handler[h].step # "idle", NEW step \in Step,
           Proceed(h, step), Fits([handler[h] EXCEPT !.step = step]),
           row # Unborn => row' # Unborn
    PROVE  /\ handler' \in [Handlers -> Request \cup {Idle}]
           /\ FieldsFit'
  <1> DEFINE q == [handler[h] EXCEPT !.step = step]
  <1>1. handler[h] \in Request
    BY BusyHoldsRequest DEF Typed
  <1>2. q \in Request
    BY <1>1 DEF Request
  <1>3. Become(h, q)
    BY DEF Proceed, Become, Typed, TypeOK
  <1> QED
    BY <1>2, <1>3, BecomeKeepsFields

LEMMA AnswerKeeps ==
    ASSUME Typed, NEW h \in Handlers, Answer(h), row # Unborn => row' # Unborn
    PROVE  /\ handler' \in [Handlers -> Request \cup {Idle}]
           /\ FieldsFit'
  BY BecomeKeepsFields DEF Answer, Fits, Idle

\* Some requests are told that they are late, one may go on.
LEMMA MarksKeep ==
    ASSUME Typed, row # Unborn => row' # Unborn,
           handler' = [g \in Handlers |-> handler'[g]],
           \A g \in Handlers :
              \/ handler'[g] = handler[g]
              \/ /\ handler[g].step # "idle"
                 /\ handler'[g] = [handler[g] EXCEPT !.late = TRUE]
              \/ handler'[g] \in Request /\ Fits(handler'[g])
    PROVE  /\ handler' \in [Handlers -> Request \cup {Idle}]
           /\ FieldsFit'
  <1>1. ASSUME NEW g \in Handlers
        PROVE  handler'[g] \in Request \cup {Idle} /\ Fits(handler[g])'
    <2>1. CASE handler'[g] = handler[g]
      <3>1. handler[g] \in Request \cup {Idle} /\ Fits(handler[g])
        BY DEF Typed, TypeOK, FieldsFit
      <3> QED
        BY <2>1, <3>1 DEF Fits
    <2>2. CASE /\ handler[g].step # "idle"
               /\ handler'[g] = [handler[g] EXCEPT !.late = TRUE]
      <3>1. handler[g] \in Request
        BY <2>2, BusyHoldsRequest DEF Typed
      <3>2. Fits(handler[g])
        BY DEF Typed, FieldsFit
      <3>3. handler'[g] \in Request
        BY <2>2, <3>1 DEF Request
      <3> QED
        BY <2>2, <3>1, <3>2, <3>3 DEF Fits, Request
    <2>3. CASE handler'[g] \in Request /\ Fits(handler'[g])
      BY <2>3 DEF Fits
    <2> QED
      BY <2>1, <2>2, <2>3
  <1>2. handler' \in [Handlers -> Request \cup {Idle}]
    BY <1>1
  <1> QED
    BY <1>1, <1>2 DEF FieldsFit

LEMMA OvertakeKeeps ==
    ASSUME Typed, NEW h \in Handlers, handler[h].step # "idle",
           NEW step \in {"forget", "forgetUser"}, Overtake(h, step),
           step = "forget" => handler[h].op = "verify",
           row # Unborn, row' # Unborn
    PROVE  /\ handler' \in [Handlers -> Request \cup {Idle}]
           /\ FieldsFit'
  <1>1. handler[h] \in Request
    BY BusyHoldsRequest DEF Typed
  <1>2. handler'[h] = [handler[h] EXCEPT !.step = step]
    BY DEF Overtake
  <1>3. handler'[h] \in Request /\ Fits(handler'[h])
    BY <1>1, <1>2 DEF Request, Step, Fits
  <1>4. ASSUME NEW g \in Handlers, g # h
        PROVE  \/ handler'[g] = handler[g]
               \/ /\ handler[g].step # "idle"
                  /\ handler'[g] = [handler[g] EXCEPT !.late = TRUE]
    BY <1>4 DEF Overtake, At
  <1>5. handler' = [g \in Handlers |-> handler'[g]]
    BY DEF Overtake
  <1> QED
    BY <1>3, <1>4, <1>5, MarksKeep

LEMMA CooldownGoneMarks ==
    ASSUME NEW c \in Channels, NEW g \in Handlers
    PROVE  \/ CooldownGone(c)[g] = handler[g]
           \/ /\ handler[g].step # "idle"
              /\ CooldownGone(c)[g] = [handler[g] EXCEPT !.late = TRUE]
  BY DEF CooldownGone, Mailing, InMail, At

LEMMA OutdatedKeeps ==
    ASSUME TypeOK, NEW keys \in SUBSET Keys, NEW k \in Keys
    PROVE  /\ Outdated(keys)[k] \in Copy \cup {NoEntry}
           /\ cached[k] = NoEntry => Outdated(keys)[k] = NoEntry
  <1>1. cached[k] \in Copy \cup {NoEntry}
    BY DEF TypeOK
  <1>2. cached[k] # NoEntry => [cached[k] EXCEPT !.late = TRUE] \in Copy
    BY <1>1 DEF Copy
  <1> QED
    BY <1>1, <1>2 DEF Outdated

LEMMA ReadsKeepTypes ==
    ASSUME Typed, NEW h \in Handlers,
           LookUpUser(h) \/ FillUser(h) \/ updateUserProfile(h) \/ ForgetUser(h)
    PROVE  Typed'
  <1> USE DEF rowVars, codeVars, tokenVars
  <1>1. CASE LookUpUser(h)
    BY <1>1, LookupKeeps, BusyHoldsRequest DEF LookUpUser, At, Typed
  <1>2. CASE FillUser(h)
    <2> DEFINE q == handler[h]
               r == [q EXCEPT !.seen = NoEntry, !.late = FALSE]
    <2>1. /\ q \in Request /\ q.seen \in User /\ q.late \in BOOLEAN
          /\ row # Unborn /\ UNCHANGED row
      BY <1>2, BusyHoldsRequest DEF FillUser, At, Typed, FieldsFit, Fits, Request
    <2>2. r \in Request
      BY <2>1 DEF Request
    <2>3. Continue(h, r, q.seen)
      BY <1>2 DEF FillUser
    <2>4. /\ handler' \in [Handlers -> Request \cup {Idle}]
          /\ FieldsFit'
      BY <2>1, <2>2, <2>3, ContinueKeeps
    <2>5. cached' \in [Keys -> Copy \cup {NoEntry}]
      BY <1>2, <2>1 DEF FillUser, Typed, TypeOK, Copy, KeyOf, Keys
    <2> QED
      BY <1>2, <2>1, <2>4, <2>5 DEF FillUser, Typed, TypeOK, NobodyYet
  <1>3. CASE updateUserProfile(h)
    <2>1. row \in User /\ handler[h].step # "idle"
      BY <1>3 DEF updateUserProfile, At, Typed, TypeOK, FieldsFit, Fits
    <2>2. row' \in User
      BY <1>3, <2>1 DEF updateUserProfile, User
    <2>3. /\ handler' \in [Handlers -> Request \cup {Idle}]
          /\ FieldsFit'
      BY <1>3, <2>1, <2>2, OvertakeKeeps DEF updateUserProfile
    <2> QED
      BY <1>3, <2>2, <2>3 DEF updateUserProfile, Typed, TypeOK, NobodyYet
  <1>4. CASE ForgetUser(h)
    <2>1. /\ handler' \in [Handlers -> Request \cup {Idle}]
          /\ FieldsFit'
      BY <1>4, AnswerKeeps DEF ForgetUser
    <2>2. /\ cached' \in [Keys -> Copy \cup {NoEntry}]
          /\ \A k \in Keys : cached[k] = NoEntry => cached'[k] = NoEntry
      <3>1. PICK lost \in SUBSET Keys :
              cached' = [k \in Keys |-> IF k \in lost THEN Outdated(lost)[k] ELSE NoEntry]
        BY <1>4 DEF ForgetUser
      <3>2. ASSUME NEW k \in Keys
            PROVE  /\ cached'[k] \in Copy \cup {NoEntry}
                   /\ cached[k] = NoEntry => cached'[k] = NoEntry
        BY <3>1, OutdatedKeeps DEF Typed
      <3> QED
        BY <3>1, <3>2
    <2> QED
      BY <1>4, <2>1, <2>2 DEF ForgetUser, Typed, TypeOK, NobodyYet
  <1> QED
    BY <1>1, <1>2, <1>3, <1>4

LEMMA RegistrationKeepsTypes ==
    ASSUME Typed, NEW h \in Handlers,
           \/ CreateUser(h) \/ TakeCooldown(h) \/ SetCode(h) \/ QueueMail(h)
           \/ CodeFails(h) \/ UndoCooldown(h) \/ UndoCode(h)
           \/ Activate(h) \/ Forget(h)
    PROVE  Typed'
  <1> USE DEF rowVars, codeVars, tokenVars
  <1>0. handler[h].step # "idle" /\ handler[h] \in Request
    <2>1. handler[h].step # "idle"
      BY DEF CreateUser, TakeCooldown, SetCode, QueueMail, CodeFails, UndoCooldown,
             UndoCode, Activate, Forget, At
    <2> QED
      BY <2>1, BusyHoldsRequest DEF Typed
  <1>c. \A q : Channel(q.op) \in Channels
    BY DEF Channel, Channels
  <1>1. CASE CreateUser(h) /\ row = Unborn
    <2>1. row' \in User
      BY <1>1 DEF CreateUser, User, Status
    <2>2. handler'[h] = [handler[h] EXCEPT !.step = "code"]
      BY <1>1 DEF CreateUser, Proceed, Typed, TypeOK
    <2>3. handler'[h] \in Request /\ handler'[h].step = "code"
      BY <1>0, <2>2 DEF Request, Step
    <2>4. ASSUME NEW g \in Handlers
          PROVE  handler'[g] \in Request \cup {Idle} /\ Fits(handler[g])'
      <3>1. CASE g = h
        BY <2>1, <2>3, <3>1 DEF Fits
      <3>2. CASE g # h
        <4>1. handler'[g] = handler[g] /\ handler[g] \in Request \cup {Idle}
          BY <1>1, <3>2 DEF CreateUser, Proceed, Typed, TypeOK
        <4>2. Fits(handler[g])
          BY DEF Typed, FieldsFit
        <4> QED
          BY <2>1, <4>1, <4>2 DEF Fits
      <3> QED
        BY <3>1, <3>2
    <2>5. handler' \in [Handlers -> Request \cup {Idle}]
      BY <1>1, <2>4 DEF CreateUser, Proceed, Typed, TypeOK
    <2> QED
      BY <1>1, <2>1, <2>4, <2>5 DEF CreateUser, Typed, TypeOK, FieldsFit, NobodyYet
  <1>2. CASE CreateUser(h) /\ row # Unborn
    BY <1>2, AnswerKeeps DEF CreateUser, Typed, TypeOK, NobodyYet
  <1>3. CASE TakeCooldown(h)
    <2>1. Fits([handler[h] EXCEPT !.step = "code"])
      BY <1>0, <1>3 DEF TakeCooldown, At, Fits, Typed, FieldsFit, Request
    <2>2. /\ handler' \in [Handlers -> Request \cup {Idle}]
          /\ FieldsFit'
      BY <1>0, <1>3, <2>1, ProceedKeeps, AnswerKeeps DEF TakeCooldown, Step
    <2> QED
      BY <1>3, <1>c, <2>2 DEF TakeCooldown, Typed, TypeOK, NobodyYet
  <1>4. CASE SetCode(h)
    <2> DEFINE c == Channel(handler[h].op)
               new == issued[c] + 1
               q == [handler[h] EXCEPT !.step = "mail", !.arg = new]
    <2>1. c \in Channels /\ c \in Kinds /\ new \in Codes
      BY <1>4, <1>c DEF SetCode, Typed, TypeOK, Kinds, Codes
    <2>2. q \in Request
      BY <1>0, <2>1 DEF Request, Step
    <2>3. row # Unborn
      BY <1>4 DEF SetCode, At, Typed, FieldsFit, Fits
    <2>4. Fits(q)
      BY <1>0, <2>1, <2>3 DEF Fits, Request
    <2>5. /\ handler' \in [Handlers -> Request \cup {Idle}]
          /\ FieldsFit'
      BY <1>4, <2>2, <2>4, BecomeKeepsFields DEF SetCode
    <2>6. code' \in [Channels -> Codes \cup {NoEntry}]
      BY <1>4, <2>1 DEF SetCode, Typed, TypeOK
    <2>7. /\ issued' \in [Kinds -> Nat]
          /\ \A k \in Channels : issued'[k] <= MaxCodes
          /\ \A k \in Kinds \ Channels : issued'[k] <= MaxTokens
      BY <1>4, <2>1 DEF SetCode, Typed, TypeOK, Codes
    <2>8. ghost' \in [tangled : SUBSET Channels,
                      spent : SUBSET (Kinds \X Nat), twice : SUBSET (Kinds \X Nat)]
      BY <1>4, <2>1 DEF SetCode, Typed, TypeOK
    <2> QED
      BY <1>4, <2>3, <2>5, <2>6, <2>7, <2>8 DEF SetCode, Typed, TypeOK, NobodyYet
  <1>5. CASE QueueMail(h)
    <2>1. handler[h].arg \in Codes
      BY <1>5 DEF QueueMail, At, Typed, FieldsFit, Fits
    <2>2. mailed' \in [Channels -> Codes \cup {0}]
      BY <1>5, <1>c, <2>1 DEF QueueMail, Typed, TypeOK
    <2> QED
      BY <1>5, <2>2, AnswerKeeps DEF QueueMail, Typed, TypeOK, NobodyYet
  <1>6. CASE CodeFails(h)
    <2>1. ASSUME NEW step \in {"undoCooldown", "undoCode"}
          PROVE  Fits([handler[h] EXCEPT !.step = step])
      BY <1>0, <1>6 DEF CodeFails, Fits, Typed, FieldsFit, Request
    <2>2. /\ handler' \in [Handlers -> Request \cup {Idle}]
          /\ FieldsFit'
      BY <1>0, <1>6, <2>1, ProceedKeeps DEF CodeFails, Step
    <2> QED
      BY <1>6, <2>2 DEF CodeFails, Typed, TypeOK, NobodyYet
  <1>7. CASE UndoCooldown(h)
    <2> DEFINE c == Channel(handler[h].op)
    <2>1. CooldownGone(c)[h] \in Request /\ row # Unborn
      <3>1. [handler[h] EXCEPT !.late = TRUE] \in Request
        BY <1>0 DEF Request
      <3>2. CooldownGone(c)[h] \in Request
        BY <1>0, <1>c, <3>1, CooldownGoneMarks
      <3>3. Fits(handler[h])
        BY DEF Typed, FieldsFit
      <3> QED
        BY <1>7, <3>2, <3>3 DEF UndoCooldown, At, Fits
    <2>2. handler' = [CooldownGone(c) EXCEPT ![h].step = "undoCode"]
      BY <1>7 DEF UndoCooldown
    <2>3. handler'[h] = [CooldownGone(c)[h] EXCEPT !.step = "undoCode"]
      BY <2>2 DEF CooldownGone
    <2>4. handler'[h] \in Request /\ Fits(handler'[h])
      BY <2>1, <2>3 DEF Request, Step, Fits
    <2>5. ASSUME NEW g \in Handlers, g # h
          PROVE  handler'[g] = CooldownGone(c)[g]
      BY <2>2, <2>5 DEF CooldownGone
    <2>6. handler' = [g \in Handlers |-> handler'[g]]
      BY <2>2 DEF CooldownGone
    <2>7. /\ handler' \in [Handlers -> Request \cup {Idle}]
          /\ FieldsFit'
      BY <1>c, <1>7, <2>4, <2>5, <2>6, CooldownGoneMarks, MarksKeep DEF UndoCooldown
    <2> QED
      BY <1>7, <1>c, <2>7 DEF UndoCooldown, Typed, TypeOK, NobodyYet
  <1>8. CASE UndoCode(h)
    BY <1>8, <1>c, AnswerKeeps DEF UndoCode, Typed, TypeOK, NobodyYet
  <1>9. CASE Activate(h)
    <2>1. row \in User /\ handler[h].op = "verify"
      BY <1>9 DEF Activate, At, Typed, TypeOK, FieldsFit, Fits
    <2>2. row' \in User
      BY <1>9, <2>1 DEF Activate, User, Status
    <2>3. /\ handler' \in [Handlers -> Request \cup {Idle}]
          /\ FieldsFit'
      BY <1>0, <1>9, <2>1, <2>2, OvertakeKeeps DEF Activate
    <2> QED
      BY <1>9, <2>2, <2>3 DEF Activate, Typed, TypeOK, NobodyYet
  <1>10. CASE Forget(h)
    <2>1. PICK kept \in SUBSET (Keys \cup {"code"}) :
            /\ cached' = [k \in Keys |-> IF k \in kept THEN Outdated(kept)[k] ELSE NoEntry]
            /\ code' = [code EXCEPT !["verify"] = IF "code" \in kept THEN @ ELSE NoEntry]
            /\ IF "code" \in kept THEN UNCHANGED ghost
               ELSE Spend({<<"verify", handler[h].arg>>})
            /\ IF kept = {} THEN Proceed(h, "issue") ELSE Answer(h)
      BY <1>10 DEF Forget
    <2>2. ASSUME NEW k \in Keys
          PROVE  /\ cached'[k] \in Copy \cup {NoEntry}
                 /\ cached[k] = NoEntry => cached'[k] = NoEntry
      <3>1. cached[k] \in Copy \cup {NoEntry}
        BY DEF Typed, TypeOK
      <3>2. cached[k] # NoEntry => [cached[k] EXCEPT !.late = TRUE] \in Copy
        BY <3>1 DEF Copy
      <3> QED
        BY <2>1, <3>1, <3>2 DEF Outdated
    <2>3. cached' \in [Keys -> Copy \cup {NoEntry}]
      BY <2>1, <2>2
    <2>4. code' \in [Channels -> Codes \cup {NoEntry}]
      BY <2>1 DEF Typed, TypeOK
    <2>5. \A c \in Channels : code[c] = NoEntry => code'[c] = NoEntry
      BY <2>1 DEF Typed, TypeOK
    <2>6. ghost' \in [tangled : SUBSET Channels,
                      spent : SUBSET (Kinds \X Nat), twice : SUBSET (Kinds \X Nat)]
      BY <1>0, <2>1 DEF Spend, Typed, TypeOK, Request, Codes, Tokens, Kinds, Channels
    <2>7. Fits([handler[h] EXCEPT !.step = "issue"])
      BY <1>0, <1>10 DEF Forget, At, Fits, Typed, FieldsFit, Request
    <2>8. UNCHANGED <<row, cooldown, mailed, tokenVars, issued, offered>>
      BY <1>10 DEF Forget
    <2>9. /\ handler' \in [Handlers -> Request \cup {Idle}]
          /\ FieldsFit'
      BY <1>0, <2>1, <2>7, <2>8, ProceedKeeps, AnswerKeeps DEF Step
    <2> QED
      BY <2>2, <2>3, <2>4, <2>5, <2>6, <2>8, <2>9 DEF Typed, TypeOK, NobodyYet
  <1> QED
    BY <1>1, <1>2, <1>3, <1>4, <1>5, <1>6, <1>7, <1>8, <1>9, <1>10

\* A handler goes on or answers, the row stays, and keys may be emptied.
LEMMA TokensKeepTypes ==
    ASSUME Typed, UNCHANGED <<rowVars, cooldown, mailed, offered>>,
           code' \in [Channels -> Codes \cup {NoEntry}],
           refresh' \in RefreshEntry \cup {NoEntry},
           reset' \in Tokens \cup {NoEntry},
           row = Unborn => code' = code /\ refresh' = NoEntry /\ reset' = NoEntry,
           /\ issued' \in [Kinds -> Nat]
           /\ \A k \in Channels : issued'[k] <= MaxCodes
           /\ \A k \in Kinds \ Channels : issued'[k] <= MaxTokens,
           ghost' \in [tangled : SUBSET Channels,
                       spent : SUBSET (Kinds \X Nat), twice : SUBSET (Kinds \X Nat)],
           handler' \in [Handlers -> Request \cup {Idle}],
           FieldsFit'
    PROVE  Typed'
  BY DEF Typed, TypeOK, NobodyYet, rowVars

LEMMA SpendKeepsTypes ==
    ASSUME TypeOK, NEW items \in SUBSET (Kinds \X Nat), Spend(items)
    PROVE  ghost' \in [tangled : SUBSET Channels,
                       spent : SUBSET (Kinds \X Nat), twice : SUBSET (Kinds \X Nat)]
  BY DEF Spend, TypeOK

LEMMA InRefreshTypes ==
    ASSUME TypeOK
    PROVE  InRefresh \in SUBSET (Kinds \X Nat)
  BY DEF InRefresh, TypeOK, RefreshEntry, Kinds, Tokens

LEMMA SignKeepsTypes ==
    ASSUME Typed, NEW h \in Handlers, NEW kind \in {"refreshToken", "resetToken"},
           handler[h].step \notin {"idle", "create"}, Sign(h, kind), UNCHANGED row
    PROVE  /\ issued' \in [Kinds -> Nat]
           /\ \A k \in Channels : issued'[k] <= MaxCodes
           /\ \A k \in Kinds \ Channels : issued'[k] <= MaxTokens
           /\ ghost' \in [tangled : SUBSET Channels,
                          spent : SUBSET (Kinds \X Nat), twice : SUBSET (Kinds \X Nat)]
           /\ handler' \in [Handlers -> Request \cup {Idle}]
           /\ FieldsFit'
  <1>1. PICK token \in (1 .. MaxTokens) \cap {issued[kind], issued[kind] + 1} :
            /\ Become(h, [handler[h] EXCEPT !.step = "store", !.arg = token])
            /\ issued' = [issued EXCEPT ![kind] = token]
            /\ ghost' = [ghost EXCEPT !.twice = IF token = issued[kind]
                                                THEN @ \cup {<<kind, token>>} ELSE @]
    BY DEF Sign
  <1> DEFINE q == [handler[h] EXCEPT !.step = "store", !.arg = token]
  <1>2. kind \in Kinds \ Channels /\ token \in Tokens /\ token \in Nat
    BY DEF Kinds, Channels, Tokens
  <1>3. Fits(handler[h]) /\ handler[h] \in Request
    BY BusyHoldsRequest DEF Typed, FieldsFit
  <1>4. q \in Request
    BY <1>2, <1>3 DEF Request, Step
  <1>5. Fits(q)
    BY <1>2, <1>3 DEF Fits, Request
  <1>6. /\ handler' \in [Handlers -> Request \cup {Idle}]
        /\ FieldsFit'
    BY <1>1, <1>4, <1>5, BecomeKeepsFields
  <1>7. /\ issued' \in [Kinds -> Nat]
        /\ \A k \in Channels : issued'[k] <= MaxCodes
        /\ \A k \in Kinds \ Channels : issued'[k] <= MaxTokens
    BY <1>1, <1>2 DEF Typed, TypeOK
  <1>8. ghost' \in [tangled : SUBSET Channels,
                    spent : SUBSET (Kinds \X Nat), twice : SUBSET (Kinds \X Nat)]
    BY <1>1, <1>2 DEF Typed, TypeOK
  <1> QED
    BY <1>6, <1>7, <1>8

LEMMA SessionsKeepTypes ==
    ASSUME Typed, NEW h \in Handlers,
           \/ SignTokens(h) \/ StoreRefresh(h) \/ CompareRefresh(h)
           \/ DeleteRefresh(h) \/ logout(h)
    PROVE  Typed'
  <1> USE DEF codeVars, tokenVars
  <1>0. handler[h].step \notin {"idle", "create"} /\ handler[h] \in Request
        /\ Fits(handler[h]) /\ row # Unborn
    <2>1. handler[h].step \notin {"idle", "create"}
      BY DEF SignTokens, StoreRefresh, CompareRefresh, DeleteRefresh, logout, At
    <2>2. Fits(handler[h])
      BY DEF Typed, FieldsFit
    <2> QED
      BY <2>1, <2>2, BusyHoldsRequest DEF Typed, Fits
  <1>1. CASE SignTokens(h)
    BY <1>0, <1>1, SignKeepsTypes, TokensKeepTypes
    DEF SignTokens, rowVars, Typed, TypeOK, NobodyYet
  <1>2. CASE StoreRefresh(h)
    <2>1. handler[h].arg \in Tokens
      BY <1>0, <1>2 DEF StoreRefresh, At, Fits
    <2>2. FieldsFit' /\ handler' \in [Handlers -> Request \cup {Idle}]
      BY <1>2, AnswerKeeps DEF StoreRefresh, rowVars
    <2> QED
      BY <1>0, <1>2, <2>1, <2>2, TokensKeepTypes
      DEF StoreRefresh, RefreshEntry, Typed, TypeOK
  <1>3. CASE CompareRefresh(h)
    <2>1. Fits([handler[h] EXCEPT !.step = "rotate"])
      BY <1>0, <1>3 DEF CompareRefresh, At, Fits, Request
    <2>2. FieldsFit' /\ handler' \in [Handlers -> Request \cup {Idle}]
      BY <1>0, <1>3, <2>1, AnswerKeeps, ProceedKeeps DEF CompareRefresh, rowVars, Step
    <2> QED
      BY <1>0, <1>3, <2>2, TokensKeepTypes DEF CompareRefresh, Typed, TypeOK
  <1>4. CASE DeleteRefresh(h)
    <2>1. InRefresh \cup {<<"refreshToken", handler[h].arg>>} \in SUBSET (Kinds \X Nat)
      BY <1>0, InRefreshTypes DEF Typed, Request, Codes, Tokens, Kinds
    <2>2. Fits([handler[h] EXCEPT !.step = "issue"])
      BY <1>0, <1>4 DEF DeleteRefresh, At, Fits, Request
    <2>3. FieldsFit' /\ handler' \in [Handlers -> Request \cup {Idle}]
      BY <1>0, <1>4, <2>2, ProceedKeeps DEF DeleteRefresh, rowVars, Step
    <2> QED
      BY <1>0, <1>4, <2>1, <2>3, SpendKeepsTypes, TokensKeepTypes
      DEF DeleteRefresh, Typed, TypeOK
  <1>5. CASE logout(h)
    <2>1. FieldsFit' /\ handler' \in [Handlers -> Request \cup {Idle}]
      BY <1>5, AnswerKeeps DEF logout, rowVars
    <2> QED
      BY <1>0, <1>5, <2>1, InRefreshTypes, SpendKeepsTypes, TokensKeepTypes
      DEF logout, Typed, TypeOK
  <1> QED
    BY <1>1, <1>2, <1>3, <1>4, <1>5

LEMMA PasswordsKeepTypes ==
    ASSUME Typed, NEW h \in Handlers,
           \/ changePassword(h) \/ resetPassword(h) \/ DeleteResetCode(h)
           \/ SignGrant(h) \/ StoreReset(h) \/ DeleteResetToken(h)
           \/ WritePassword(h) \/ EndSession(h)
    PROVE  Typed'
  <1> USE DEF codeVars, tokenVars
  <1>0. handler[h].step \notin {"idle", "create"} /\ handler[h] \in Request
        /\ Fits(handler[h]) /\ row # Unborn
    <2>1. handler[h].step \notin {"idle", "create"}
      BY DEF changePassword, resetPassword, DeleteResetCode, SignGrant, StoreReset,
             DeleteResetToken, WritePassword, EndSession, At
    <2>2. Fits(handler[h])
      BY DEF Typed, FieldsFit
    <2> QED
      BY <2>1, <2>2, BusyHoldsRequest DEF Typed, Fits
  <1>1. ASSUME NEW next \in {"writePassword", "consume"},
               next = "consume" => handler[h].op = "reset", CheckPassword(h, next)
        PROVE  Typed'
    <2>1. PICK new \in Passwords :
            Become(h, [handler[h] EXCEPT !.step = next, !.pass = new])
      BY <1>1 DEF CheckPassword
    <2> DEFINE q == [handler[h] EXCEPT !.step = next, !.pass = new]
    <2>2. q \in Request
      BY <1>0 DEF Request, Step
    <2>3. Fits(q)
      BY <1>0, <1>1 DEF Fits, Request
    <2> QED
      BY <1>1, <2>1, <2>2, <2>3, MoveKeeps DEF CheckPassword
  <1>2. CASE changePassword(h)
    BY <1>1, <1>2 DEF changePassword
  <1>3. CASE resetPassword(h)
    BY <1>0, <1>1, <1>3 DEF resetPassword, At, Fits
  <1>4. CASE DeleteResetCode(h)
    <2>1. {<<"reset", handler[h].arg>>} \in SUBSET (Kinds \X Nat)
      BY <1>0 DEF Request, Codes, Tokens, Kinds, Channels
    <2>2. Fits([handler[h] EXCEPT !.step = "grant"])
      BY <1>0, <1>4 DEF DeleteResetCode, At, Fits, Request
    <2>3. FieldsFit' /\ handler' \in [Handlers -> Request \cup {Idle}]
      BY <1>0, <1>4, <2>2, ProceedKeeps DEF DeleteResetCode, rowVars, Step
    <2> QED
      BY <1>0, <1>4, <2>1, <2>3, SpendKeepsTypes, TokensKeepTypes
      DEF DeleteResetCode, Typed, TypeOK
  <1>5. CASE SignGrant(h)
    BY <1>0, <1>5, SignKeepsTypes, TokensKeepTypes
    DEF SignGrant, rowVars, Typed, TypeOK
  <1>6. CASE StoreReset(h)
    <2>1. handler[h].arg \in Tokens
      BY <1>0, <1>6 DEF StoreReset, At, Fits
    <2>2. FieldsFit' /\ handler' \in [Handlers -> Request \cup {Idle}]
      BY <1>6, AnswerKeeps DEF StoreReset, rowVars
    <2> QED
      BY <1>0, <1>6, <2>1, <2>2, TokensKeepTypes DEF StoreReset, Typed, TypeOK
  <1>7. CASE DeleteResetToken(h)
    <2>1. {<<"resetToken", handler[h].arg>>} \in SUBSET (Kinds \X Nat)
      BY <1>0 DEF Request, Codes, Tokens, Kinds
    <2>2. Fits([handler[h] EXCEPT !.step = "writePassword"])
      BY <1>0, <1>7 DEF DeleteResetToken, At, Fits, Request
    <2>3. FieldsFit' /\ handler' \in [Handlers -> Request \cup {Idle}]
      BY <1>0, <1>7, <2>2, ProceedKeeps DEF DeleteResetToken, rowVars, Step
    <2> QED
      BY <1>0, <1>7, <2>1, <2>3, SpendKeepsTypes, TokensKeepTypes
      DEF DeleteResetToken, Typed, TypeOK
  <1>8. CASE WritePassword(h)
    <2>1. row \in User /\ handler[h].pass \in Passwords
      BY <1>0, <1>8 DEF WritePassword, At, Fits, Request, Typed, TypeOK
    <2>2. row' \in User
      BY <1>8, <2>1 DEF WritePassword, User
    <2>3. refresh' \in RefreshEntry \cup {NoEntry}
      BY <1>8 DEF WritePassword, RefreshEntry, Typed, TypeOK
    <2>4. Fits([handler[h] EXCEPT !.step = "endSession"])
      BY <1>0 DEF Fits, Request
    <2>5. FieldsFit' /\ handler' \in [Handlers -> Request \cup {Idle}]
      BY <1>0, <1>8, <2>2, <2>4, ProceedKeeps DEF WritePassword, Step
    <2> QED
      BY <1>8, <2>2, <2>3, <2>5 DEF WritePassword, Typed, TypeOK, NobodyYet
  <1>9. CASE EndSession(h)
    <2>1. FieldsFit' /\ handler' \in [Handlers -> Request \cup {Idle}]
      BY <1>9, AnswerKeeps DEF EndSession, rowVars
    <2> QED
      BY <1>0, <1>9, <2>1, InRefreshTypes, SpendKeepsTypes, TokensKeepTypes
      DEF EndSession, Typed, TypeOK
  <1> QED
    BY <1>2, <1>3, <1>4, <1>5, <1>6, <1>7, <1>8, <1>9

LEMMA EndsKeepTypes ==
    ASSUME Typed, NEW h \in Handlers, HandlerDies(h)
    PROVE  Typed'
  <1> USE DEF codeVars
  <1>1. handler[h] \in Request /\ UNCHANGED <<row, codeVars, reset, issued, offered>>
    BY BusyHoldsRequest DEF HandlerDies, At, Typed
  <1>2. FieldsFit' /\ handler' \in [Handlers -> Request \cup {Idle}]
    BY <1>1, AnswerKeeps DEF HandlerDies
  <1>3. /\ cached' \in [Keys -> Copy \cup {NoEntry}]
        /\ \A k \in Keys : cached[k] = NoEntry => cached'[k] = NoEntry
    <2>1. CASE cached' = cached
      BY <2>1 DEF Typed, TypeOK
    <2>2. CASE cached' = Outdated(Keys)
      BY <2>2, OutdatedKeeps DEF Typed, Outdated
    <2> QED
      BY <2>1, <2>2 DEF HandlerDies
  <1>4. /\ refresh' \in RefreshEntry \cup {NoEntry}
        /\ refresh = NoEntry => refresh' = NoEntry
    BY DEF HandlerDies, Typed, TypeOK, RefreshEntry
  <1>5. ghost' \in [tangled : SUBSET Channels,
                    spent : SUBSET (Kinds \X Nat), twice : SUBSET (Kinds \X Nat)]
    BY DEF HandlerDies, Typed, TypeOK, Channel, Channels
  <1> QED
    BY <1>1, <1>2, <1>3, <1>4, <1>5 DEF Typed, TypeOK, NobodyYet

LEMMA ExpiredKeepsTypes ==
    ASSUME Typed, Expired
    PROVE  Typed'
  <1> USE DEF rowVars, codeVars, tokenVars
  <1>1. ASSUME NEW k \in Keys, ExpireUser(k) PROVE Typed'
    BY <1>1 DEF ExpireUser, Forgotten, Typed, TypeOK, FieldsFit, Fits, NobodyYet
  <1>2. ASSUME NEW c \in Channels, ExpireCode(c) PROVE Typed'
    BY <1>2 DEF ExpireCode, Typed, TypeOK, FieldsFit, Fits, NobodyYet
  <1>3. ASSUME NEW c \in Channels, ExpireCooldown(c) PROVE Typed'
    <2>1. handler' = [g \in Handlers |-> handler'[g]]
      BY <1>3 DEF ExpireCooldown, CooldownGone
    <2>2. FieldsFit' /\ handler' \in [Handlers -> Request \cup {Idle}]
      BY <1>3, <2>1, CooldownGoneMarks, MarksKeep DEF ExpireCooldown
    <2> QED
      BY <1>3, <2>2 DEF ExpireCooldown, Typed, TypeOK, NobodyYet
  <1>4. CASE ExpireRefresh
    BY <1>4 DEF ExpireRefresh, Typed, TypeOK, FieldsFit, Fits, NobodyYet
  <1>5. CASE ExpireReset
    BY <1>5 DEF ExpireReset, Typed, TypeOK, FieldsFit, Fits, NobodyYet
  <1> QED
    BY <1>1, <1>2, <1>3, <1>4, <1>5 DEF Expired

LEMMA NextKeepsTypes ==
    ASSUME Typed, Next
    PROVE  Typed'
  BY RequestedKeepsTypes, ReadsKeepTypes, RegistrationKeepsTypes, SessionsKeepTypes,
     PasswordsKeepTypes, EndsKeepTypes, ExpiredKeepsTypes
  DEF Next, Continued

LEMMA StutterKeepsTypes ==
    ASSUME Typed, UNCHANGED vars
    PROVE  Typed'
  BY DEF vars, rowVars, codeVars, tokenVars, Typed, TypeOK, FieldsFit, Fits, NobodyYet

\* What the actions rely on: the types, the fields a request has at each step, and
\* that nothing is kept for a user who has not registered.
THEOREM TypesHold == Spec => []Typed
  BY TypedInit, NextKeepsTypes, StutterKeepsTypes, PTL DEF Spec

-----------------------------------------------------------------------------
(* What a step of one request leaves alone.                                *)

\* The requests other than h are at most told that they are late.
Same(g) ==
    \/ handler'[g] = handler[g]
    \/ /\ handler[g] \in Request
       /\ handler'[g] = [handler[g] EXCEPT !.late = TRUE]

LEMMA SameFields ==
    ASSUME NEW g \in Handlers, Same(g)
    PROVE  /\ handler'[g].step = handler[g].step
           /\ handler[g].step # "idle" =>
                /\ handler'[g].op = handler[g].op
                /\ handler'[g].arg = handler[g].arg
                /\ handler'[g].pass = handler[g].pass
                /\ handler'[g].seen = handler[g].seen
                /\ handler'[g].replay = handler[g].replay
                /\ handler[g].late => handler'[g].late
  BY DEF Same, Request

LEMMA BecomeLeavesOthers ==
    ASSUME Typed, NEW h \in Handlers, NEW g \in Handlers \ {h}, NEW q, Become(h, q)
    PROVE  handler'[g] = handler[g]
  BY DEF Become, Typed, TypeOK

LEMMA ProceedLeavesOthers ==
    ASSUME Typed, NEW h \in Handlers, NEW g \in Handlers \ {h}, NEW step, Proceed(h, step)
    PROVE  handler'[g] = handler[g]
  BY DEF Proceed, Typed, TypeOK

LEMMA LookupLeavesOthers ==
    ASSUME Typed, NEW h \in Handlers, NEW g \in Handlers \ {h}, NEW q, Lookup(h, q)
    PROVE  handler'[g] = handler[g]
  BY BecomeLeavesOthers DEF Lookup, Continue, Answer

LEMMA OthersStay ==
    ASSUME Typed, NEW h \in Handlers, NEW g \in Handlers \ {h},
           Requested(h) \/ Continued(h)
    PROVE  Same(g)
  <1> USE BecomeLeavesOthers, ProceedLeavesOthers, LookupLeavesOthers DEF Same, Answer
  <1>1. CASE Requested(h)
    BY <1>1
    DEF Requested, registerUser, resendOtp, forgotPassword, verifyOtp, login,
        refreshToken, forgotPasswordVerifyOtp, PresentReset, Authenticate
  <1>2. CASE LookUpUser(h) \/ FillUser(h) \/ ForgetUser(h)
    BY <1>2 DEF LookUpUser, FillUser, ForgetUser, Continue
  <1>3. CASE updateUserProfile(h) \/ Activate(h)
    <2>1. PICK step : Overtake(h, step)
      BY <1>3 DEF updateUserProfile, Activate
    <2>2. handler'[g] = IF At(g, "fill") THEN [handler[g] EXCEPT !.late = TRUE]
                        ELSE handler[g]
      BY <2>1 DEF Overtake
    <2>3. At(g, "fill") => handler[g] \in Request
      BY BusyHoldsRequest DEF At, Typed
    <2> QED
      BY <2>2, <2>3
  <1>4. CASE \/ CreateUser(h) \/ TakeCooldown(h) \/ SetCode(h) \/ QueueMail(h)
             \/ CodeFails(h) \/ UndoCode(h)
    BY <1>4 DEF CreateUser, TakeCooldown, SetCode, QueueMail, CodeFails, UndoCode
  <1>5. CASE UndoCooldown(h)
    <2>1. Channel(handler[h].op) \in Channels
      BY DEF Channel, Channels
    <2>2. handler'[g] = CooldownGone(Channel(handler[h].op))[g]
      BY <1>5 DEF UndoCooldown, CooldownGone
    <2> QED
      BY <2>1, <2>2, CooldownGoneMarks, BusyHoldsRequest DEF Typed
  <1>6. CASE Forget(h)
    BY <1>6 DEF Forget
  <1>7. CASE \/ SignTokens(h) \/ StoreRefresh(h) \/ CompareRefresh(h)
             \/ DeleteRefresh(h) \/ logout(h)
    BY <1>7 DEF SignTokens, Sign, StoreRefresh, CompareRefresh, DeleteRefresh, logout
  <1>8. CASE \/ changePassword(h) \/ resetPassword(h) \/ DeleteResetCode(h)
             \/ SignGrant(h) \/ StoreReset(h) \/ DeleteResetToken(h)
             \/ WritePassword(h) \/ EndSession(h)
    BY <1>8
    DEF changePassword, resetPassword, CheckPassword, DeleteResetCode, SignGrant, Sign,
        StoreReset, DeleteResetToken, WritePassword, EndSession
  <1>9. CASE HandlerDies(h)
    BY <1>9 DEF HandlerDies
  <1> QED
    BY <1>1, <1>2, <1>3, <1>4, <1>5, <1>6, <1>7, <1>8, <1>9 DEF Continued

-----------------------------------------------------------------------------
(* A new password ends the session.                                        *)

\* Every other step leaves the refresh token, and is not at the end of a change.
LEMMA RefreshTouched ==
    ASSUME NEW h \in Handlers, Requested(h) \/ Continued(h)
    PROVE  \/ StoreRefresh(h) \/ DeleteRefresh(h) \/ logout(h) \/ WritePassword(h)
           \/ EndSession(h) \/ HandlerDies(h)
           \/ UNCHANGED refresh /\ ~At(h, "endSession")
  <1> USE DEF At, Arrives, tokenVars
  <1>1. CASE Requested(h)
    BY <1>1
    DEF Requested, registerUser, resendOtp, forgotPassword, verifyOtp, login, Lookup,
        refreshToken, forgotPasswordVerifyOtp, PresentReset, Authenticate
  <1>2. CASE LookUpUser(h) \/ FillUser(h) \/ ForgetUser(h) \/ updateUserProfile(h)
    BY <1>2 DEF LookUpUser, Lookup, FillUser, ForgetUser, updateUserProfile
  <1>3. CASE \/ CreateUser(h) \/ TakeCooldown(h) \/ SetCode(h) \/ QueueMail(h)
             \/ CodeFails(h) \/ UndoCooldown(h) \/ UndoCode(h) \/ Activate(h) \/ Forget(h)
    BY <1>3 DEF CreateUser, TakeCooldown, SetCode, QueueMail, CodeFails, UndoCooldown,
                UndoCode, Activate, Forget
  <1>4. CASE \/ SignTokens(h) \/ CompareRefresh(h)
             \/ changePassword(h) \/ resetPassword(h) \/ DeleteResetCode(h)
             \/ SignGrant(h) \/ StoreReset(h) \/ DeleteResetToken(h)
    BY <1>4 DEF SignTokens, CompareRefresh, changePassword, resetPassword, CheckPassword,
                DeleteResetCode, SignGrant, StoreReset, DeleteResetToken
  <1> QED
    BY <1>1, <1>2, <1>3, <1>4 DEF Continued

LEMMA SessionsStep ==
    ASSUME Typed, ChangeEndsSessions, [Next]_vars
    PROVE  ChangeEndsSessions'
  <1> USE DEF ChangeEndsSessions
  <1>1. CASE UNCHANGED vars
    BY <1>1 DEF vars, tokenVars, At
  <1>2. CASE Expired
    <2>1. refresh' \in {refresh, NoEntry}
      BY <1>2 DEF Expired, ExpireUser, ExpireCode, ExpireCooldown, ExpireRefresh,
                  ExpireReset, tokenVars
    <2>2. ASSUME NEW g \in Handlers PROVE handler'[g].step = handler[g].step
      <3>1. CASE UNCHANGED handler
        BY <3>1
      <3>2. ASSUME NEW c \in Channels, ExpireCooldown(c)
            PROVE  handler'[g].step = handler[g].step
        BY <3>2, CooldownGoneMarks, BusyHoldsRequest, SameFields
        DEF ExpireCooldown, Same, Typed
      <3> QED
        BY <1>2, <3>1, <3>2
        DEF Expired, ExpireUser, ExpireCode, ExpireRefresh, ExpireReset
    <2> QED
      BY <2>1, <2>2 DEF At
  <1>3. ASSUME NEW h \in Handlers, Requested(h) \/ Continued(h)
        PROVE  ChangeEndsSessions'
    <2>1. CASE StoreRefresh(h)
      BY <2>1 DEF StoreRefresh
    <2>2. CASE DeleteRefresh(h) \/ logout(h) \/ EndSession(h)
      BY <2>2 DEF DeleteRefresh, logout, EndSession
    <2>3. CASE WritePassword(h)
      BY <2>3 DEF WritePassword, Proceed, At, Typed, TypeOK
    <2>4. ASSUME NEW g \in Handlers, g # h, At(g, "endSession")
          PROVE  At(g, "endSession")'
      BY <1>3, <2>4, OthersStay, SameFields DEF At
    <2>5. CASE HandlerDies(h)
      <3>1. CASE At(h, "endSession")
        BY <2>5, <3>1 DEF HandlerDies, At, Typed, TypeOK
      <3>2. CASE ~At(h, "endSession")
        <4>1. UNCHANGED refresh
          BY <2>5, <3>2 DEF HandlerDies, At
        <4> QED
          BY <2>4, <3>2, <4>1
      <3> QED
        BY <3>1, <3>2
    <2>6. CASE UNCHANGED refresh /\ ~At(h, "endSession")
      BY <2>4, <2>6
    <2> QED
      BY <1>3, <2>1, <2>2, <2>3, <2>5, <2>6, RefreshTouched
  <1> QED
    BY <1>1, <1>2, <1>3 DEF Next

\* password.service.ts:89, :257: whatever else is under way, the refresh token that
\* was there when the password changed is gone once the change was answered with
\* success; it stays only where its DEL failed and the request with it.
THEOREM ChangedPasswordEndsSessions == Spec => []ChangeEndsSessions
  <1>1. Init => ChangeEndsSessions
    BY DEF Init, ChangeEndsSessions
  <1> QED
    BY <1>1, TypesHold, SessionsStep, PTL DEF Spec

-----------------------------------------------------------------------------
(* The copies of the user.                                                 *)

LEMMA BecomeSets ==
    ASSUME Typed, NEW h \in Handlers, NEW q, Become(h, q)
    PROVE  handler'[h] = q
  BY DEF Become, Typed, TypeOK

LEMMA ProceedSets ==
    ASSUME Typed, NEW h \in Handlers, NEW step, Proceed(h, step), handler[h].step # "idle"
    PROVE  /\ handler'[h] = [handler[h] EXCEPT !.step = step]
           /\ handler[h] \in Request
           /\ handler'[h].step = step
  <1>1. handler'[h] = [handler[h] EXCEPT !.step = step]
    BY DEF Proceed, Typed, TypeOK
  <1>2. handler[h] \in Request
    BY BusyHoldsRequest DEF Typed
  <1> QED
    BY <1>1, <1>2 DEF Request

LEMMA AnswerSets ==
    ASSUME Typed, NEW h \in Handlers, Answer(h)
    PROVE  handler'[h] = Idle /\ handler'[h].step = "idle"
  BY BecomeSets DEF Answer, Idle

\* After a look-up the request is where Moves says, or has been answered.
Moved(h, q) ==
    \/ handler'[h] = Idle
    \/ \E move \in Moves :
        /\ move[1] = q.op
        /\ handler'[h] = [q EXCEPT !.op = move[2], !.step = move[3]]

LEMMA ContinueMoves ==
    ASSUME Typed, NEW h \in Handlers, NEW q, NEW user, Continue(h, q, user)
    PROVE  Moved(h, q)
  BY BecomeSets, AnswerSets DEF Continue, Moved

LEMMA LookupMoves ==
    ASSUME Typed, NEW h \in Handlers, NEW q, Lookup(h, q)
    PROVE  \/ /\ row # Unborn
              /\ handler'[h] = [q EXCEPT !.step = "fill", !.seen = row]
           \/ Moved(h, q)
  BY BecomeSets, ContinueMoves DEF Lookup

LEMMA MovedFits ==
    ASSUME NEW h \in Handlers, NEW q \in Request, Moved(h, q)
    PROVE  /\ handler'[h].step \in {"idle", "cooldown", "activate", "issue", "lookup",
                                    "compare", "logout", "profile", "checkOld"}
           /\ handler'[h].step # "idle" =>
                /\ handler'[h].arg = q.arg
                /\ handler'[h].replay = q.replay
                /\ <<q.op, handler'[h].op, handler'[h].step>> \in Moves
  <1>1. CASE handler'[h] = Idle
    BY <1>1 DEF Idle
  <1>2. ASSUME NEW move \in Moves, move[1] = q.op,
               handler'[h] = [q EXCEPT !.op = move[2], !.step = move[3]]
        PROVE  /\ handler'[h].step = move[3] /\ handler'[h].op = move[2]
               /\ handler'[h].arg = q.arg /\ handler'[h].replay = q.replay
               /\ move[3] \in {"cooldown", "activate", "issue", "lookup", "compare",
                               "logout", "profile", "checkOld"}
               /\ <<q.op, handler'[h].op, handler'[h].step>> \in Moves
    <2>1. /\ handler'[h].step = move[3] /\ handler'[h].op = move[2]
          /\ handler'[h].arg = q.arg /\ handler'[h].replay = q.replay
      BY <1>2 DEF Request
    <2>2. /\ move = <<move[1], move[2], move[3]>>
          /\ move[3] \in {"cooldown", "activate", "issue", "lookup", "compare",
                          "logout", "profile", "checkOld"}
      BY DEF Moves
    <2>3. <<q.op, handler'[h].op, handler'[h].step>> = move
      BY <1>2, <2>1, <2>2
    <2> QED
      BY <2>1, <2>2, <2>3
  <1>3. CASE handler'[h] # Idle
    <2>1. PICK move \in Moves :
            /\ move[1] = q.op
            /\ handler'[h] = [q EXCEPT !.op = move[2], !.step = move[3]]
      BY <1>3 DEF Moved
    <2> QED
      BY <1>2, <2>1
  <1> QED
    BY <1>1, <1>3

LEMMA LookupFills ==
    ASSUME Typed, NEW h \in Handlers, NEW q \in Request, Lookup(h, q),
           At(h, "fill")'
    PROVE  handler'[h].seen = row /\ UNCHANGED row
  <1>1. ~Moved(h, q)
    BY MovedFits DEF At
  <1>2. handler'[h] = [q EXCEPT !.step = "fill", !.seen = row]
    BY <1>1, LookupMoves
  <1> QED
    BY <1>2 DEF Request, Lookup, rowVars

\* The requests that begin with a look-up, and the steps the others begin with.
LEMMA RequestedStep ==
    ASSUME Typed, NEW h \in Handlers, Requested(h)
    PROVE  \/ \E op \in Ops, pass \in Passwords \cup {NoEntry} :
                /\ op \in {"resend", "login"} \cup Guarded
                /\ Request0(op, "lookup", 0, pass, FALSE) \in Request
                /\ Lookup(h, Request0(op, "lookup", 0, pass, FALSE))
           \/ handler'[h].step \in {"create", "cooldown", "lookup", "spend", "checkNew"}
  <1> USE BecomeSets DEF Request0
  <1>1. CASE registerUser(h)
    BY <1>1 DEF registerUser
  <1>2. CASE resendOtp(h)
    BY <1>2, RequestFits DEF resendOtp, Ops, Offers, Mailers, Step
  <1>3. CASE forgotPassword(h)
    BY <1>3 DEF forgotPassword
  <1>4. CASE verifyOtp(h)
    BY <1>4 DEF verifyOtp
  <1>5. CASE login(h)
    BY <1>5, RequestFits DEF login, Ops, Offers, Step
  <1>6. CASE refreshToken(h)
    BY <1>6 DEF refreshToken
  <1>7. CASE forgotPasswordVerifyOtp(h)
    BY <1>7 DEF forgotPasswordVerifyOtp
  <1>8. CASE PresentReset(h)
    BY <1>8 DEF PresentReset
  <1>9. ASSUME NEW op \in Guarded, Authenticate(h, op)
        PROVE  /\ op \in Ops
               /\ Request0(op, "lookup", 0, NoEntry, FALSE) \in Request
               /\ Lookup(h, Request0(op, "lookup", 0, NoEntry, FALSE))
    BY <1>9, RequestFits DEF Authenticate, Ops, Offers, Step
  <1> QED
    BY <1>1, <1>2, <1>3, <1>4, <1>5, <1>6, <1>7, <1>8, <1>9 DEF Requested

\* The steps that requests go on to, by the step that they come from.
Enters(h, S) == handler'[h].step \in S

\* The steps that choose a code, a token or a password.
LEMMA ChosenSets ==
    ASSUME Typed, NEW h \in Handlers
    PROVE  /\ SetCode(h) => handler'[h].step = "mail"
           /\ SignTokens(h) \/ SignGrant(h) => handler'[h].step = "store"
           /\ changePassword(h) => handler'[h].step = "writePassword"
           /\ resetPassword(h) => handler'[h].step = "consume"
  <1>1. handler[h].step # "idle" => handler[h] \in Request
    BY BusyHoldsRequest DEF Typed
  <1>2. ASSUME NEW step, NEW x, handler[h].step # "idle",
               \/ Become(h, [handler[h] EXCEPT !.step = step, !.arg = x])
               \/ Become(h, [handler[h] EXCEPT !.step = step, !.pass = x])
        PROVE  handler'[h].step = step
    <2>1. \/ handler'[h] = [handler[h] EXCEPT !.step = step, !.arg = x]
          \/ handler'[h] = [handler[h] EXCEPT !.step = step, !.pass = x]
      BY <1>2, BecomeSets
    <2>2. handler[h] \in Request
      BY <1>1, <1>2
    <2> QED
      BY <2>1, <2>2 DEF Request
  <1>3. SetCode(h) => handler'[h].step = "mail"
    BY <1>2 DEF SetCode, At
  <1>4. SignTokens(h) \/ SignGrant(h) => handler'[h].step = "store"
    <2>1. ASSUME NEW kind, Sign(h, kind), handler[h].step # "idle"
          PROVE  handler'[h].step = "store"
      BY <1>2, <2>1 DEF Sign
    <2> QED
      BY <2>1 DEF SignTokens, SignGrant, At
  <1>5. ASSUME NEW next, CheckPassword(h, next), handler[h].step # "idle"
        PROVE  handler'[h].step = next
    BY <1>2, <1>5 DEF CheckPassword
  <1> QED
    BY <1>3, <1>4, <1>5 DEF changePassword, resetPassword, At

LEMMA ContinuedStep ==
    ASSUME Typed, NEW h \in Handlers
    PROVE  /\ updateUserProfile(h) => Enters(h, {"forgetUser"})
           /\ ForgetUser(h) => Enters(h, {"idle"})
           /\ CreateUser(h) => Enters(h, {"code", "idle"})
           /\ TakeCooldown(h) => Enters(h, {"code", "idle"})
           /\ SetCode(h) => Enters(h, {"mail"})
           /\ QueueMail(h) => Enters(h, {"idle"})
           /\ CodeFails(h) => Enters(h, {"undoCooldown", "undoCode"})
           /\ UndoCooldown(h) => Enters(h, {"undoCode"})
           /\ UndoCode(h) => Enters(h, {"idle"})
           /\ Activate(h) => Enters(h, {"forget"})
           /\ Forget(h) => Enters(h, {"issue", "idle"})
           /\ SignTokens(h) \/ SignGrant(h) => Enters(h, {"store"})
           /\ StoreRefresh(h) \/ StoreReset(h) => Enters(h, {"idle"})
           /\ CompareRefresh(h) => Enters(h, {"rotate", "idle"})
           /\ DeleteRefresh(h) => Enters(h, {"issue"})
           /\ logout(h) => Enters(h, {"idle"})
           /\ changePassword(h) => Enters(h, {"writePassword"})
           /\ resetPassword(h) => Enters(h, {"consume"})
           /\ DeleteResetCode(h) => Enters(h, {"grant"})
           /\ DeleteResetToken(h) => Enters(h, {"writePassword"})
           /\ WritePassword(h) => Enters(h, {"endSession"})
           /\ EndSession(h) => Enters(h, {"idle"})
           /\ HandlerDies(h) => Enters(h, {"idle"})
  <1> USE DEF Enters, At
  <1>1. handler[h].step # "idle" => handler[h] \in Request
    BY BusyHoldsRequest DEF Typed
  <1>2. updateUserProfile(h) => Enters(h, {"forgetUser"})
    BY <1>1 DEF updateUserProfile, Overtake, Request
  <1>3. Activate(h) => Enters(h, {"forget"})
    BY <1>1 DEF Activate, Overtake, Request
  <1>4. UndoCooldown(h) => Enters(h, {"undoCode"})
    <2>1. ASSUME UndoCooldown(h) PROVE Enters(h, {"undoCode"})
      <3> DEFINE c == Channel(handler[h].op)
      <3>1. CooldownGone(c)[h] = [handler[h] EXCEPT !.late = TRUE]
        BY <2>1 DEF UndoCooldown, CooldownGone, Mailing, InMail
      <3>2. handler'[h] = [CooldownGone(c)[h] EXCEPT !.step = "undoCode"]
        BY <2>1 DEF UndoCooldown, CooldownGone
      <3> QED
        BY <1>1, <2>1, <3>1, <3>2 DEF UndoCooldown, Request
    <2> QED
      BY <2>1
  <1>5. /\ SetCode(h) => Enters(h, {"mail"})
        /\ SignTokens(h) \/ SignGrant(h) => Enters(h, {"store"})
        /\ changePassword(h) => Enters(h, {"writePassword"})
        /\ resetPassword(h) => Enters(h, {"consume"})
    BY ChosenSets
  <1>6. /\ CreateUser(h) => Enters(h, {"code", "idle"})
        /\ TakeCooldown(h) => Enters(h, {"code", "idle"})
        /\ CodeFails(h) => Enters(h, {"undoCooldown", "undoCode"})
        /\ Forget(h) => Enters(h, {"issue", "idle"})
        /\ CompareRefresh(h) => Enters(h, {"rotate", "idle"})
        /\ DeleteRefresh(h) => Enters(h, {"issue"})
        /\ DeleteResetCode(h) => Enters(h, {"grant"})
        /\ DeleteResetToken(h) => Enters(h, {"writePassword"})
        /\ WritePassword(h) => Enters(h, {"endSession"})
    BY ProceedSets, AnswerSets
    DEF CreateUser, TakeCooldown, CodeFails, Forget, CompareRefresh, DeleteRefresh,
        DeleteResetCode, DeleteResetToken, WritePassword
  <1>7. /\ ForgetUser(h) => Enters(h, {"idle"})
        /\ QueueMail(h) => Enters(h, {"idle"})
        /\ UndoCode(h) => Enters(h, {"idle"})
        /\ StoreRefresh(h) \/ StoreReset(h) => Enters(h, {"idle"})
        /\ logout(h) => Enters(h, {"idle"})
        /\ EndSession(h) => Enters(h, {"idle"})
        /\ HandlerDies(h) => Enters(h, {"idle"})
    BY AnswerSets
    DEF ForgetUser, QueueMail, UndoCode, StoreRefresh, StoreReset, logout, EndSession,
        HandlerDies
  <1> QED
    BY <1>2, <1>3, <1>4, <1>5, <1>6, <1>7

LEMMA FillKeepsRequest ==
    ASSUME Typed, NEW h \in Handlers, FillUser(h)
    PROVE  \E q \in Request :
            /\ q.step = "fill" /\ handler[h].step = "fill"
            /\ q.op = handler[h].op /\ q.arg = handler[h].arg
            /\ q.replay = handler[h].replay
            /\ Moved(h, q)
  <1> DEFINE q == [handler[h] EXCEPT !.seen = NoEntry, !.late = FALSE]
  <1>1. handler[h] \in Request /\ handler[h].step = "fill"
    BY BusyHoldsRequest DEF FillUser, At, Typed
  <1>2. /\ q \in Request /\ q.step = "fill"
        /\ q.op = handler[h].op /\ q.arg = handler[h].arg
        /\ q.replay = handler[h].replay
    BY <1>1 DEF Request
  <1>3. Continue(h, q, handler[h].seen)
    BY DEF FillUser
  <1>4. Moved(h, q)
    BY <1>2, <1>3, ContinueMoves
  <1> QED
    BY <1>1, <1>2, <1>4

\* Who is about to cache the user has just read the row.
LEMMA BeginsToFill ==
    ASSUME Typed, NEW h \in Handlers, Requested(h) \/ Continued(h), At(h, "fill")'
    PROVE  handler'[h].seen = row /\ UNCHANGED row
  <1>1. CASE Requested(h)
    BY <1>1, RequestedStep, LookupFills DEF At
  <1>2. CASE LookUpUser(h)
    BY <1>2, LookupFills, BusyHoldsRequest DEF LookUpUser, At, Typed
  <1>3. ~FillUser(h)
    BY FillKeepsRequest, MovedFits DEF At
  <1> QED
    BY <1>1, <1>2, <1>3, ContinuedStep DEF Continued, Enters, At

\* Every other step leaves the row and its copies, and is not at the end of a write.
LEMMA CopiesTouched ==
    ASSUME NEW h \in Handlers, Requested(h) \/ Continued(h)
    PROVE  \/ CreateUser(h) \/ FillUser(h) \/ updateUserProfile(h) \/ Activate(h)
           \/ WritePassword(h) \/ ForgetUser(h) \/ Forget(h) \/ HandlerDies(h)
           \/ /\ UNCHANGED <<row, cached>>
              /\ handler[h].step \notin {"forget", "forgetUser"}
  <1> USE DEF At, Arrives, rowVars
  <1>1. CASE Requested(h)
    BY <1>1
    DEF Requested, registerUser, resendOtp, forgotPassword, verifyOtp, login, Lookup,
        refreshToken, forgotPasswordVerifyOtp, PresentReset, Authenticate
  <1>2. CASE \/ LookUpUser(h) \/ TakeCooldown(h) \/ SetCode(h) \/ QueueMail(h)
             \/ CodeFails(h) \/ UndoCooldown(h) \/ UndoCode(h)
    BY <1>2 DEF LookUpUser, Lookup, TakeCooldown, SetCode, QueueMail, CodeFails,
                UndoCooldown, UndoCode
  <1>3. CASE \/ SignTokens(h) \/ StoreRefresh(h) \/ CompareRefresh(h) \/ DeleteRefresh(h)
             \/ logout(h)
    BY <1>3 DEF SignTokens, StoreRefresh, CompareRefresh, DeleteRefresh, logout
  <1>4. CASE \/ changePassword(h) \/ resetPassword(h) \/ DeleteResetCode(h)
             \/ SignGrant(h) \/ StoreReset(h) \/ DeleteResetToken(h) \/ EndSession(h)
    BY <1>4 DEF changePassword, resetPassword, CheckPassword, DeleteResetCode, SignGrant,
                StoreReset, DeleteResetToken, EndSession
  <1> QED
    BY <1>1, <1>2, <1>3, <1>4 DEF Continued

\* A new profile or status is told to everyone who is about to cache the user.
LEMMA OvertakeMarks ==
    ASSUME Typed, NEW h \in Handlers, NEW step, Overtake(h, step),
           NEW g \in Handlers \ {h}, At(g, "fill")
    PROVE  handler'[g].late
  <1>1. handler'[g] = [handler[g] EXCEPT !.late = TRUE] /\ handler[g] \in Request
    BY BusyHoldsRequest DEF Overtake, At, Typed
  <1> QED
    BY <1>1 DEF Request

LEMMA FillsStep ==
    ASSUME Typed, FillsAreCurrent, NEW h \in Handlers, Requested(h) \/ Continued(h)
    PROVE  FillsAreCurrent'
  <1>1. SUFFICES ASSUME NEW g \in Handlers, At(g, "fill")', ~handler'[g].late
                 PROVE  /\ handler'[g].seen.status = row'.status
                        /\ handler'[g].seen.profile = row'.profile
    BY DEF FillsAreCurrent, At
  <1>2. CASE g = h
    BY <1>1, <1>2, BeginsToFill
  <1>3. CASE g # h
    <2>1. Same(g) /\ At(g, "fill") /\ handler[g] \in Request
      BY <1>1, <1>3, OthersStay, SameFields, BusyHoldsRequest DEF At, Typed
    <2>2. handler'[g].seen = handler[g].seen /\ ~handler[g].late /\ row # Unborn
      BY <1>1, <2>1, SameFields DEF At, Typed, FieldsFit, Fits, Request
    <2>3. /\ handler[g].seen.status = row.status
          /\ handler[g].seen.profile = row.profile
      BY <2>1, <2>2 DEF FillsAreCurrent
    <2>4. ~updateUserProfile(h) /\ ~Activate(h)
      BY <1>1, <1>3, <2>1, OvertakeMarks DEF updateUserProfile, Activate
    <2>5. CASE CreateUser(h)
      BY <2>2, <2>3, <2>5 DEF CreateUser
    <2>6. CASE WritePassword(h)
      <3>1. row' = [row EXCEPT !.password = handler[h].pass] /\ row \in User
        BY <2>2, <2>6 DEF WritePassword, Typed, TypeOK
      <3> QED
        BY <2>2, <2>3, <3>1 DEF User
    <2>7. CASE FillUser(h) \/ ForgetUser(h) \/ Forget(h) \/ HandlerDies(h)
      BY <2>2, <2>3, <2>7 DEF FillUser, ForgetUser, Forget, HandlerDies
    <2> QED
      BY <2>2, <2>3, <2>4, <2>5, <2>6, <2>7, CopiesTouched
  <1> QED
    BY <1>2, <1>3

\* The copies, whatever is about to be deleted.
Follows(k) ==
    \/ cached[k] = NoEntry
    \/ cached[k].late
    \/ /\ cached[k].user.status = row.status
       /\ cached[k].user.profile = row.profile

LEMMA OutdatedIsLate ==
    ASSUME TypeOK, NEW keys \in SUBSET (Keys \cup {"code"}), NEW k \in Keys, k \in keys,
           cached' = [j \in Keys |-> IF j \in keys THEN Outdated(keys)[j] ELSE NoEntry]
    PROVE  cached'[k] = NoEntry \/ cached'[k].late
  <1>1. cached'[k] = IF cached[k] # NoEntry THEN [cached[k] EXCEPT !.late = TRUE] ELSE cached[k]
    BY DEF Outdated
  <1>2. cached[k] # NoEntry => cached[k] \in Copy
    BY DEF TypeOK
  <1> QED
    BY <1>1, <1>2 DEF Copy

\* Nobody leaves a copy behind that has not been deleted or given up.
LEMMA LeavesFollowing ==
    ASSUME Typed, NEW h \in Handlers, NEW k \in Keys,
           handler[h].step \in {"forget", "forgetUser"},
           ForgetUser(h) \/ Forget(h) \/ HandlerDies(h)
    PROVE  cached'[k] = NoEntry \/ cached'[k].late
  <1>1. CASE ForgetUser(h)
    <2>1. PICK lost \in SUBSET Keys :
            cached' = [j \in Keys |-> IF j \in lost THEN Outdated(lost)[j] ELSE NoEntry]
      BY <1>1 DEF ForgetUser
    <2>2. lost \in SUBSET (Keys \cup {"code"})
      OBVIOUS
    <2>3. k \notin lost => cached'[k] = NoEntry
      BY <2>1
    <2> QED
      BY <2>1, <2>2, <2>3, OutdatedIsLate DEF Typed
  <1>2. CASE Forget(h)
    <2>1. PICK kept \in SUBSET (Keys \cup {"code"}) :
            cached' = [j \in Keys |-> IF j \in kept THEN Outdated(kept)[j] ELSE NoEntry]
      BY <1>2 DEF Forget
    <2>2. k \notin kept => cached'[k] = NoEntry
      BY <2>1
    <2> QED
      BY <2>1, <2>2, OutdatedIsLate DEF Typed
  <1>3. CASE HandlerDies(h)
    <2>1. cached' = Outdated(Keys)
      BY <1>3 DEF HandlerDies
    <2>2. cached' = [j \in Keys |-> IF j \in Keys THEN Outdated(Keys)[j] ELSE NoEntry]
      BY <2>1 DEF Outdated
    <2>3. Keys \in SUBSET (Keys \cup {"code"})
      OBVIOUS
    <2> QED
      BY <2>2, <2>3, OutdatedIsLate DEF Typed
  <1> QED
    BY <1>1, <1>2, <1>3

LEMMA CopiesStep ==
    ASSUME Typed, FillsAreCurrent, CachedUserFollowsRow, NEW h \in Handlers,
           Requested(h) \/ Continued(h)
    PROVE  CachedUserFollowsRow'
  <1> DEFINE Busy == \E g \in Handlers : handler'[g].step \in {"forget", "forgetUser"}
  <1>1. SUFFICES ASSUME NEW k \in Keys, ~Busy
                 PROVE  \/ cached'[k] = NoEntry
                        \/ cached'[k].late
                        \/ /\ cached'[k].user.status = row'.status
                           /\ cached'[k].user.profile = row'.profile
    BY DEF CachedUserFollowsRow
  <1>2. ASSUME NEW g \in Handlers, g # h
        PROVE  handler[g].step \notin {"forget", "forgetUser"}
    BY <1>1, <1>2, OthersStay, SameFields
  <1>3. handler[h].step \notin {"forget", "forgetUser"} => Follows(k)
    BY <1>2 DEF CachedUserFollowsRow, Follows
  <1>4. cached[k] \in Copy \cup {NoEntry}
    BY DEF Typed, TypeOK
  <1>5. ~updateUserProfile(h) /\ ~Activate(h)
    BY <1>1, ContinuedStep DEF Enters
  <1>6. CASE CreateUser(h)
    <2>1. handler[h].step = "create" /\ UNCHANGED cached
      BY <1>6 DEF CreateUser, At
    <2>2. CASE row = Unborn
      BY <2>1, <2>2 DEF Typed, NobodyYet
    <2>3. CASE row # Unborn
      BY <1>3, <1>6, <2>1, <2>3 DEF CreateUser, Follows
    <2> QED
      BY <2>2, <2>3
  <1>7. CASE WritePassword(h)
    <2>1. /\ handler[h].step = "writePassword" /\ UNCHANGED cached
          /\ row' = [row EXCEPT !.password = handler[h].pass]
      BY <1>7 DEF WritePassword, At
    <2>2. Fits(handler[h])
      BY DEF Typed, FieldsFit
    <2>3. row \in User
      BY <2>1, <2>2 DEF Fits, Typed, TypeOK
    <2>4. row'.status = row.status /\ row'.profile = row.profile
      BY <2>1, <2>3 DEF User
    <2> QED
      BY <1>3, <2>1, <2>4 DEF Follows
  <1>8. CASE FillUser(h)
    <2>1. /\ handler[h].step = "fill" /\ UNCHANGED row
          /\ cached' = [cached EXCEPT ![KeyOf(handler[h].op)] =
                          [user |-> handler[h].seen, late |-> handler[h].late]]
      BY <1>8 DEF FillUser, At
    <2>2. CASE k = KeyOf(handler[h].op)
      <3>1. cached'[k] = [user |-> handler[h].seen, late |-> handler[h].late]
        BY <2>1, <2>2 DEF Typed, TypeOK
      <3>2. ~handler[h].late => /\ handler[h].seen.status = row.status
                                /\ handler[h].seen.profile = row.profile
        BY <2>1 DEF FillsAreCurrent, At
      <3> QED
        BY <2>1, <3>1, <3>2
    <2>3. CASE k # KeyOf(handler[h].op)
      BY <1>3, <2>1, <2>3 DEF Follows, Typed, TypeOK
    <2> QED
      BY <2>2, <2>3
  <1>9. CASE ForgetUser(h) \/ Forget(h)
    BY <1>9, LeavesFollowing DEF ForgetUser, Forget, At
  <1>10. CASE HandlerDies(h)
    <2>1. CASE handler[h].step \in {"forget", "forgetUser"}
      BY <1>10, <2>1, LeavesFollowing
    <2>2. CASE handler[h].step \notin {"forget", "forgetUser"}
      BY <1>3, <1>10, <2>2 DEF HandlerDies, Follows
    <2> QED
      BY <2>1, <2>2
  <1> QED
    BY <1>3, <1>5, <1>6, <1>7, <1>8, <1>9, <1>10, CopiesTouched DEF Follows

\* What runs out by itself.
LEMMA ExpiredStays ==
    ASSUME Typed, Expired
    PROVE  /\ \A g \in Handlers : Same(g)
           /\ UNCHANGED <<row, mailed, issued, ghost, offered>>
           /\ \A k \in Keys : cached'[k] \in {cached[k], NoEntry}
           /\ \A c \in Channels : code'[c] \in {code[c], NoEntry}
           /\ refresh' \in {refresh, NoEntry} /\ reset' \in {reset, NoEntry}
  <1> USE DEF rowVars, codeVars, tokenVars, Same
  <1>1. ASSUME NEW k \in Keys, ExpireUser(k)
        PROVE  /\ UNCHANGED <<row, handler, codeVars, tokenVars, issued, ghost, offered>>
               /\ \A j \in Keys : cached'[j] \in {cached[j], NoEntry}
    BY <1>1 DEF ExpireUser, Forgotten
  <1>2. ASSUME NEW c \in Channels, ExpireCode(c)
        PROVE  /\ UNCHANGED <<row, cached, handler, mailed, tokenVars, issued, ghost, offered>>
               /\ \A d \in Channels : code'[d] \in {code[d], NoEntry}
    BY <1>2 DEF ExpireCode, Typed, TypeOK
  <1>3. ASSUME NEW c \in Channels, ExpireCooldown(c)
        PROVE  /\ UNCHANGED <<row, cached, code, mailed, tokenVars, issued, ghost, offered>>
               /\ \A g \in Handlers : Same(g)
    BY <1>3, CooldownGoneMarks, BusyHoldsRequest DEF ExpireCooldown, Typed
  <1> QED
    BY <1>1, <1>2, <1>3 DEF Expired, ExpireRefresh, ExpireReset

LEMMA CopiesNext ==
    ASSUME Typed, FillsAreCurrent, CachedUserFollowsRow, [Next]_vars
    PROVE  FillsAreCurrent' /\ CachedUserFollowsRow'
  <1>1. CASE UNCHANGED vars
    BY <1>1 DEF vars, rowVars, FillsAreCurrent, CachedUserFollowsRow, At
  <1>2. CASE Expired
    <2>1. ASSUME NEW g \in Handlers
          PROVE  /\ handler'[g].step = handler[g].step
                 /\ At(g, "fill") => /\ handler'[g].seen = handler[g].seen
                                     /\ handler[g].late => handler'[g].late
      BY <1>2, ExpiredStays, SameFields DEF At
    <2>2. UNCHANGED row /\ \A k \in Keys : cached'[k] \in {cached[k], NoEntry}
      BY <1>2, ExpiredStays
    <2>3. FillsAreCurrent'
      BY <2>1, <2>2 DEF FillsAreCurrent, At
    <2>4. CachedUserFollowsRow'
      BY <2>1, <2>2 DEF CachedUserFollowsRow
    <2> QED
      BY <2>3, <2>4
  <1>3. ASSUME NEW h \in Handlers, Requested(h) \/ Continued(h)
        PROVE  FillsAreCurrent' /\ CachedUserFollowsRow'
    BY <1>3, FillsStep, CopiesStep
  <1> QED
    BY <1>1, <1>2, <1>3 DEF Next

LEMMA CopiesStay == Spec => [](FillsAreCurrent /\ CachedUserFollowsRow)
  <1>1. Init => FillsAreCurrent /\ CachedUserFollowsRow
    BY DEF Init, FillsAreCurrent, CachedUserFollowsRow, At, Idle
  <1> QED
    BY <1>1, TypesHold, CopiesNext, PTL DEF Spec

\* user.service.ts:72, auth.service.ts:209: a copy of the user follows the row's status
\* and profile, unless a write overtook the read it came from or could not delete it.
THEOREM CopiesFollowRow == Spec => []CachedUserFollowsRow
  BY CopiesStay, PTL

-----------------------------------------------------------------------------
(* The cooldown.                                                           *)

MailSteps == {"code", "mail", "undoCooldown", "undoCode"}

\* Requests get to make a code in two ways, and go on from there in three.
LEMMA MailSources ==
    ASSUME Typed, NEW h \in Handlers, Requested(h) \/ Continued(h),
           handler'[h].step \in MailSteps
    PROVE  \/ CreateUser(h) \/ TakeCooldown(h)
           \/ SetCode(h) \/ CodeFails(h) \/ UndoCooldown(h)
  <1> USE DEF MailSteps, Enters
  <1>1. ASSUME NEW q \in Request, Lookup(h, q) PROVE FALSE
    <2>1. ~Moved(h, q)
      BY MovedFits
    <2>2. handler'[h] = [q EXCEPT !.step = "fill", !.seen = row]
      BY <1>1, <2>1, LookupMoves
    <2> QED
      BY <2>2 DEF Request
  <1>2. ~Requested(h)
    BY <1>1, RequestedStep
  <1>3. ~LookUpUser(h)
    BY <1>1, BusyHoldsRequest DEF LookUpUser, At, Typed
  <1>4. ~FillUser(h)
    BY FillKeepsRequest, MovedFits
  <1>5. /\ ~updateUserProfile(h) /\ ~ForgetUser(h) /\ ~QueueMail(h) /\ ~UndoCode(h)
        /\ ~Activate(h) /\ ~Forget(h) /\ ~SignTokens(h) /\ ~SignGrant(h)
        /\ ~StoreRefresh(h) /\ ~StoreReset(h) /\ ~CompareRefresh(h) /\ ~DeleteRefresh(h)
    BY ContinuedStep
  <1>6. /\ ~logout(h) /\ ~changePassword(h) /\ ~resetPassword(h) /\ ~DeleteResetCode(h)
        /\ ~DeleteResetToken(h) /\ ~WritePassword(h) /\ ~EndSession(h) /\ ~HandlerDies(h)
    BY ContinuedStep
  <1> QED
    BY <1>2, <1>3, <1>4, <1>5, <1>6 DEF Continued

\* What a mailer's own step leaves of it.
LEMMA MailerKeeps ==
    ASSUME Typed, NEW h \in Handlers,
           SetCode(h) \/ CodeFails(h) \/ UndoCooldown(h)
    PROVE  /\ handler[h] \in Request
           /\ handler[h].step \in MailSteps
           /\ handler'[h].step \in MailSteps \ {"code"}
           /\ handler'[h].op = handler[h].op
           /\ handler[h].late => handler'[h].late
  <1> USE DEF MailSteps, At
  <1>1. handler[h] \in Request /\ handler[h].step \in MailSteps
    BY BusyHoldsRequest DEF SetCode, CodeFails, UndoCooldown, Typed
  <1>2. handler'[h].step \in MailSteps \ {"code"}
    BY ContinuedStep DEF Enters
  <1>3. CASE SetCode(h)
    <2>1. PICK x : handler'[h] = [handler[h] EXCEPT !.step = "mail", !.arg = x]
      BY <1>3, BecomeSets DEF SetCode
    <2> QED
      BY <1>1, <1>2, <2>1 DEF Request
  <1>4. CASE CodeFails(h)
    <2>1. PICK step : Proceed(h, step)
      BY <1>4 DEF CodeFails
    <2>2. handler'[h] = [handler[h] EXCEPT !.step = step]
      BY <1>1, <2>1, ProceedSets
    <2> QED
      BY <1>1, <1>2, <2>2 DEF Request
  <1>5. CASE UndoCooldown(h)
    <2> DEFINE c == Channel(handler[h].op)
    <2>1. CooldownGone(c)[h] = [handler[h] EXCEPT !.late = TRUE]
      BY <1>5 DEF UndoCooldown, CooldownGone, Mailing, InMail
    <2>2. handler'[h] = [CooldownGone(c)[h] EXCEPT !.step = "undoCode"]
      BY <1>5 DEF UndoCooldown, CooldownGone
    <2> QED
      BY <1>1, <1>2, <2>1, <2>2 DEF Request
  <1> QED
    BY <1>3, <1>4, <1>5

LEMMA MailingIs ==
    ASSUME NEW g \in Handlers, NEW c
    PROVE  /\ Mailing(g, c) <=> handler[g].step \in MailSteps /\ Channel(handler[g].op) = c
           /\ Mailing(g, c)' <=>
                handler'[g].step \in MailSteps /\ Channel(handler'[g].op) = c
  BY DEF Mailing, InMail, At, MailSteps, Channel

LEMMA BecomesMailer ==
    ASSUME Typed, NEW h \in Handlers, NEW c \in Channels, Requested(h) \/ Continued(h),
           Mailing(h, c)', handler'[h].op # "register"
    PROVE  \/ TakeCooldown(h) /\ ~cooldown[c] /\ cooldown'[c]
           \/ /\ Mailing(h, c)
              /\ handler'[h].op = handler[h].op
              /\ handler[h].late => handler'[h].late
  <1>1. CASE SetCode(h) \/ CodeFails(h) \/ UndoCooldown(h)
    BY <1>1, MailerKeeps, MailingIs
  <1>2. CASE TakeCooldown(h)
    <2>1. /\ Proceed(h, "code") /\ ~cooldown[Channel(handler[h].op)]
          /\ cooldown' = [cooldown EXCEPT ![Channel(handler[h].op)] = TRUE]
      BY <1>2, AnswerSets, MailingIs DEF TakeCooldown, MailSteps
    <2>2. handler'[h] = [handler[h] EXCEPT !.step = "code"] /\ handler[h] \in Request
      BY <1>2, <2>1, ProceedSets DEF TakeCooldown, At
    <2>3. Channel(handler[h].op) = c
      BY <2>2, MailingIs DEF Request
    <2> QED
      BY <1>2, <2>1, <2>3 DEF Typed, TypeOK
  <1>3. ~CreateUser(h)
    <2>1. SUFFICES ASSUME CreateUser(h) PROVE FALSE
      OBVIOUS
    <2>2. Proceed(h, "code")
      BY <2>1, AnswerSets, MailingIs DEF CreateUser, MailSteps
    <2>3. handler[h].step = "create" /\ Fits(handler[h])
      BY <2>1 DEF CreateUser, At, Typed, FieldsFit
    <2>4. handler[h].op = "register"
      BY <2>3 DEF Fits
    <2>5. handler'[h] = [handler[h] EXCEPT !.step = "code"] /\ handler[h] \in Request
      BY <2>2, <2>3, ProceedSets
    <2> QED
      BY <2>4, <2>5 DEF Request
  <1> QED
    BY <1>1, <1>2, <1>3, MailSources, MailingIs

\* Whoever may lose the cooldown is told.
LEMMA CooldownTouched ==
    ASSUME Typed, NEW h \in Handlers, NEW c \in Channels, Requested(h) \/ Continued(h)
    PROVE  \/ cooldown[c] => cooldown'[c]
           \/ \A g \in Handlers : Mailing(g, c) => handler'[g].late
  <1> USE DEF codeVars
  <1>1. CASE Requested(h)
    BY <1>1
    DEF Requested, registerUser, resendOtp, forgotPassword, verifyOtp, login, Lookup,
        refreshToken, forgotPasswordVerifyOtp, PresentReset, Authenticate
  <1>2. CASE LookUpUser(h) \/ FillUser(h) \/ updateUserProfile(h) \/ ForgetUser(h)
    BY <1>2 DEF LookUpUser, Lookup, FillUser, updateUserProfile, ForgetUser
  <1>3. CASE TakeCooldown(h)
    BY <1>3 DEF TakeCooldown, Typed, TypeOK
  <1>4. CASE UndoCooldown(h)
    <2>1. Channel(handler[h].op) \in Channels
      BY DEF Channel, Channels
    <2>2. CASE c # Channel(handler[h].op)
      BY <1>4, <2>1, <2>2 DEF UndoCooldown, Typed, TypeOK
    <2>3. CASE c = Channel(handler[h].op)
      <3>1. ASSUME NEW g \in Handlers, Mailing(g, c)
            PROVE  handler'[g].late
        <4>1. handler[g] \in Request
          BY <3>1, MailingIs, BusyHoldsRequest DEF MailSteps, Typed
        <4>2. CooldownGone(c)[g] = [handler[g] EXCEPT !.late = TRUE]
          BY <3>1 DEF CooldownGone
        <4>3. \/ handler'[g] = CooldownGone(c)[g]
              \/ handler'[g] = [CooldownGone(c)[g] EXCEPT !.step = "undoCode"]
          BY <1>4, <2>3 DEF UndoCooldown, CooldownGone
        <4> QED
          BY <4>1, <4>2, <4>3 DEF Request
      <3> QED
        BY <3>1
    <2> QED
      BY <2>2, <2>3
  <1>5. CASE \/ CreateUser(h) \/ SetCode(h) \/ QueueMail(h) \/ CodeFails(h) \/ UndoCode(h)
             \/ Activate(h) \/ Forget(h)
    BY <1>5 DEF CreateUser, SetCode, QueueMail, CodeFails, UndoCode, Activate, Forget
  <1>6. CASE \/ SignTokens(h) \/ StoreRefresh(h) \/ CompareRefresh(h) \/ DeleteRefresh(h)
             \/ logout(h)
    BY <1>6 DEF SignTokens, StoreRefresh, CompareRefresh, DeleteRefresh, logout
  <1>7. CASE \/ changePassword(h) \/ resetPassword(h) \/ DeleteResetCode(h)
             \/ SignGrant(h) \/ StoreReset(h) \/ DeleteResetToken(h)
             \/ WritePassword(h) \/ EndSession(h) \/ HandlerDies(h)
    BY <1>7 DEF changePassword, resetPassword, CheckPassword, DeleteResetCode, SignGrant,
                StoreReset, DeleteResetToken, WritePassword, EndSession, HandlerDies
  <1> QED
    BY <1>1, <1>2, <1>3, <1>4, <1>5, <1>6, <1>7 DEF Continued

LEMMA OthersMail ==
    ASSUME Typed, NEW g \in Handlers, NEW c \in Channels, Same(g), Mailing(g, c)'
    PROVE  /\ Mailing(g, c)
           /\ handler'[g].op = handler[g].op
           /\ handler[g].late => handler'[g].late
  BY SameFields, MailingIs DEF MailSteps

LEMMA CooldownStep ==
    ASSUME Typed, CooldownHeld, CooldownExcludes, NEW h \in Handlers,
           Requested(h) \/ Continued(h)
    PROVE  CooldownHeld' /\ CooldownExcludes'
  <1>1. ASSUME NEW g \in Handlers, NEW c \in Channels, Mailing(g, c)',
               handler'[g].op # "register"
        PROVE  \/ g = h /\ TakeCooldown(h) /\ ~cooldown[c] /\ cooldown'[c]
               \/ /\ Mailing(g, c)
                  /\ handler'[g].op = handler[g].op
                  /\ handler[g].late => handler'[g].late
    <2>1. CASE g = h
      BY <1>1, <2>1, BecomesMailer
    <2>2. CASE g # h
      BY <1>1, <2>2, OthersStay, OthersMail
    <2> QED
      BY <2>1, <2>2
  <1>2. CooldownHeld'
    <2>1. SUFFICES ASSUME NEW g \in Handlers, NEW c \in Channels, Mailing(g, c)',
                          handler'[g].op # "register", ~handler'[g].late
                   PROVE  cooldown'[c]
      BY DEF CooldownHeld
    <2>2. CASE Mailing(g, c) /\ handler'[g].op = handler[g].op /\ ~handler[g].late
      BY <2>1, <2>2, CooldownTouched DEF CooldownHeld
    <2> QED
      BY <1>1, <2>1, <2>2
  <1>3. CooldownExcludes'
    <2>1. SUFFICES ASSUME NEW f \in Handlers, NEW g \in Handlers, NEW c \in Channels,
                          f # g, Mailing(f, c)', Mailing(g, c)',
                          handler'[f].op # "register", handler'[g].op # "register",
                          ~handler'[f].late, ~handler'[g].late
                   PROVE  FALSE
      BY DEF CooldownExcludes
    <2>2. ASSUME NEW i \in Handlers, NEW j \in Handlers, i # j, i = h, ~cooldown[c],
                 Mailing(j, c)', handler'[j].op # "register", ~handler'[j].late
          PROVE  FALSE
      BY <1>1, <2>2 DEF CooldownHeld
    <2>3. CASE /\ Mailing(f, c) /\ handler'[f].op = handler[f].op /\ ~handler[f].late
               /\ Mailing(g, c) /\ handler'[g].op = handler[g].op /\ ~handler[g].late
      BY <2>1, <2>3 DEF CooldownExcludes
    <2> QED
      BY <1>1, <2>1, <2>2, <2>3
  <1> QED
    BY <1>2, <1>3

LEMMA CooldownNext ==
    ASSUME Typed, CooldownHeld, CooldownExcludes, [Next]_vars
    PROVE  CooldownHeld' /\ CooldownExcludes'
  <1>1. CASE UNCHANGED vars
    BY <1>1 DEF vars, codeVars, CooldownHeld, CooldownExcludes, Mailing, InMail, At
  <1>2. CASE Expired
    <2>1. ASSUME NEW g \in Handlers, NEW c \in Channels, Mailing(g, c)'
          PROVE  /\ Mailing(g, c)
                 /\ handler'[g].op = handler[g].op
                 /\ handler[g].late => handler'[g].late
      BY <1>2, <2>1, ExpiredStays, OthersMail
    <2>2. ASSUME NEW c \in Channels
          PROVE  \/ cooldown[c] => cooldown'[c]
                 \/ \A g \in Handlers : Mailing(g, c) => handler'[g].late
      <3>1. CASE UNCHANGED cooldown
        BY <3>1
      <3>2. ASSUME NEW d \in Channels, ExpireCooldown(d)
            PROVE  \/ cooldown[c] => cooldown'[c]
                   \/ \A g \in Handlers : Mailing(g, c) => handler'[g].late
        <4>1. CASE c # d
          BY <3>2, <4>1 DEF ExpireCooldown, Typed, TypeOK
        <4>2. ASSUME c = d, NEW g \in Handlers, Mailing(g, c)
              PROVE  handler'[g].late
          <5>1. handler[g] \in Request
            BY <4>2, MailingIs, BusyHoldsRequest DEF MailSteps, Typed
          <5>2. handler'[g] = [handler[g] EXCEPT !.late = TRUE]
            BY <3>2, <4>2 DEF ExpireCooldown, CooldownGone
          <5> QED
            BY <5>1, <5>2 DEF Request
        <4> QED
          BY <4>1, <4>2
      <3> QED
        BY <1>2, <3>1, <3>2
        DEF Expired, ExpireUser, ExpireCode, ExpireRefresh, ExpireReset, codeVars
    <2>3. CooldownHeld'
      BY <2>1, <2>2 DEF CooldownHeld
    <2>4. CooldownExcludes'
      BY <2>1 DEF CooldownExcludes
    <2> QED
      BY <2>3, <2>4
  <1>3. ASSUME NEW h \in Handlers, Requested(h) \/ Continued(h)
        PROVE  CooldownHeld' /\ CooldownExcludes'
    BY <1>3, CooldownStep
  <1> QED
    BY <1>1, <1>2, <1>3 DEF Next

LEMMA CooldownStays == Spec => [](CooldownHeld /\ CooldownExcludes)
  <1>1. Init => CooldownHeld /\ CooldownExcludes
    BY DEF Init, CooldownHeld, CooldownExcludes, Mailing, InMail, At, Idle
  <1> QED
    BY <1>1, TypesHold, CooldownNext, PTL DEF Spec

\* auth.service.ts:144, password.service.ts:119: for any number of requests, only one
\* at a time gets past the cooldown of a channel while the cooldown lasts.
THEOREM CooldownHoldsOne == Spec => []CooldownExcludes
  BY CooldownStays, PTL

-----------------------------------------------------------------------------
(* The last mail.                                                          *)

InMailSteps == {"mail", "undoCooldown", "undoCode"}

LEMMA InMailIs ==
    ASSUME NEW g \in Handlers, NEW c
    PROVE  /\ InMail(g, c) <=> handler[g].step \in InMailSteps /\ Channel(handler[g].op) = c
           /\ InMail(g, c)' <=>
                handler'[g].step \in InMailSteps /\ Channel(handler'[g].op) = c
  BY DEF InMail, InMailSteps, Channel

\* Every other step leaves what was mailed, at most deletes a code, and is not a mailer's.
LEMMA MailTouched ==
    ASSUME Typed, NEW h \in Handlers, Requested(h) \/ Continued(h)
    PROVE  \/ SetCode(h) \/ QueueMail(h) \/ CodeFails(h) \/ UndoCooldown(h)
           \/ UndoCode(h) \/ HandlerDies(h)
           \/ /\ UNCHANGED mailed /\ ghost'.tangled = ghost.tangled
              /\ \A c \in Channels : code'[c] \in {code[c], NoEntry}
              /\ handler[h].step \notin InMailSteps
  <1> USE DEF codeVars, InMailSteps, At, Arrives
  <1>1. CASE Requested(h)
    BY <1>1
    DEF Requested, registerUser, resendOtp, forgotPassword, verifyOtp, login, Lookup,
        refreshToken, forgotPasswordVerifyOtp, PresentReset, Authenticate
  <1>2. CASE LookUpUser(h) \/ FillUser(h) \/ updateUserProfile(h) \/ ForgetUser(h)
    BY <1>2 DEF LookUpUser, Lookup, FillUser, updateUserProfile, ForgetUser
  <1>3. CASE CreateUser(h) \/ TakeCooldown(h) \/ Activate(h)
    BY <1>3 DEF CreateUser, TakeCooldown, Activate
  <1>4. ASSUME NEW items, Spend(items) PROVE ghost'.tangled = ghost.tangled
    BY <1>4 DEF Spend, Typed, TypeOK
  <1>5. CASE Forget(h)
    <2>1. PICK kept \in SUBSET (Keys \cup {"code"}) :
            /\ code' = [code EXCEPT !["verify"] = IF "code" \in kept THEN @ ELSE NoEntry]
            /\ IF "code" \in kept THEN UNCHANGED ghost
               ELSE Spend({<<"verify", handler[h].arg>>})
      BY <1>5 DEF Forget
    <2>2. \A c \in Channels : code'[c] \in {code[c], NoEntry}
      BY <2>1 DEF Typed, TypeOK
    <2> QED
      BY <1>4, <1>5, <2>1, <2>2 DEF Forget
  <1>6. CASE CompareRefresh(h) \/ StoreRefresh(h)
    BY <1>6 DEF CompareRefresh, StoreRefresh
  <1>7. CASE DeleteRefresh(h) \/ logout(h) \/ EndSession(h) \/ DeleteResetToken(h)
    BY <1>4, <1>7 DEF DeleteRefresh, logout, EndSession, DeleteResetToken
  <1>8. CASE SignTokens(h) \/ SignGrant(h)
    <2>1. ASSUME NEW kind, Sign(h, kind) PROVE ghost'.tangled = ghost.tangled
      BY <2>1 DEF Sign, Typed, TypeOK
    <2> QED
      BY <1>8, <2>1 DEF SignTokens, SignGrant
  <1>9. CASE DeleteResetCode(h)
    BY <1>4, <1>9 DEF DeleteResetCode, Typed, TypeOK
  <1>10. CASE changePassword(h) \/ resetPassword(h) \/ StoreReset(h) \/ WritePassword(h)
    BY <1>10 DEF changePassword, resetPassword, CheckPassword, StoreReset, WritePassword
  <1> QED
    BY <1>1, <1>2, <1>3, <1>5, <1>6, <1>7, <1>8, <1>9, <1>10 DEF Continued

\* Only SetCode gets a request to the mail.
LEMMA BecomesMail ==
    ASSUME Typed, NEW h \in Handlers, Requested(h) \/ Continued(h), ~SetCode(h)
    PROVE  handler'[h].step # "mail"
  <1>1. SUFFICES ASSUME handler'[h].step = "mail" PROVE FALSE
    OBVIOUS
  <1>2. CreateUser(h) \/ TakeCooldown(h) \/ CodeFails(h) \/ UndoCooldown(h)
    BY <1>1, MailSources DEF MailSteps
  <1> QED
    BY <1>1, <1>2, ContinuedStep DEF Enters

LEMMA OthersInMail ==
    ASSUME NEW g \in Handlers, NEW c, Same(g)
    PROVE  /\ InMail(g, c)' <=> InMail(g, c)
           /\ At(g, "mail")' <=> At(g, "mail")
           /\ At(g, "mail") => /\ handler'[g].op = handler[g].op
                               /\ handler'[g].arg = handler[g].arg
  BY SameFields, InMailIs DEF At, InMailSteps

\* What the properties say of one channel.
Mails(c) == \A g \in Handlers :
    At(g, "mail") /\ Channel(handler[g].op) = c /\ c \notin ghost.tangled =>
        code[c] \in {NoEntry, handler[g].arg}
Newest(c) ==
    \/ c \in ghost.tangled
    \/ mailed[c] = 0
    \/ \E g \in Handlers : InMail(g, c)
    \/ code[c] \in {NoEntry, mailed[c]}

LEMMA ByChannel ==
    /\ MailIsCurrent <=> \A c \in Channels : Mails(c)
    /\ NewestMailVerifies <=> \A c \in Channels : Newest(c)
    /\ MailIsCurrent' <=> \A c \in Channels : Mails(c)'
    /\ NewestMailVerifies' <=> \A c \in Channels : Newest(c)'
  BY DEF MailIsCurrent, Mails, NewestMailVerifies, Newest, Channel, Channels

LEMMA SetCodeMails ==
    ASSUME Typed, NEW h \in Handlers, NEW c \in Channels, SetCode(h), Mails(c), Newest(c)
    PROVE  Mails(c)' /\ Newest(c)'
  <1> DEFINE d == Channel(handler[h].op)
             new == issued[d] + 1
  <1>1. d \in Channels
    BY DEF Channel, Channels
  <1>2. handler[h] \in Request /\ handler[h].step = "code"
    BY BusyHoldsRequest DEF SetCode, At, Typed
  <1>3. handler'[h] = [handler[h] EXCEPT !.step = "mail", !.arg = new]
    BY BecomeSets DEF SetCode
  <1>4. /\ handler'[h].step = "mail" /\ handler'[h].arg = new
        /\ handler'[h].op = handler[h].op
    BY <1>2, <1>3 DEF Request
  <1>5. /\ code' = [code EXCEPT ![d] = new] /\ UNCHANGED mailed
        /\ ghost'.tangled = IF \E g \in Handlers : InMail(g, d)
                            THEN ghost.tangled \cup {d} ELSE ghost.tangled \ {d}
    BY DEF SetCode, Typed, TypeOK
  <1>6. ASSUME NEW g \in Handlers, g # h PROVE Same(g)
    BY <1>6, OthersStay DEF Continued
  <1>7. CASE c = d
    <2>1. InMail(h, c)'
      BY <1>4, <1>7, InMailIs DEF InMailSteps, Channel
    <2>2. ASSUME NEW g \in Handlers, At(g, "mail")', Channel(handler'[g].op) = c,
                 c \notin ghost'.tangled
          PROVE  code'[c] \in {NoEntry, handler'[g].arg}
      <3>1. CASE g = h
        BY <1>1, <1>4, <1>5, <1>7, <3>1 DEF Typed, TypeOK
      <3>2. CASE g # h
        <4>1. InMail(g, c)
          BY <1>6, <2>2, <3>2, OthersInMail, InMailIs DEF At, InMailSteps
        <4> QED
          BY <1>5, <1>7, <2>2, <4>1
      <3> QED
        BY <3>1, <3>2
    <2> QED
      BY <2>1, <2>2 DEF Mails, Newest, At, Channel
  <1>8. CASE c # d
    <2>1. /\ code'[c] = code[c]
          /\ c \in ghost'.tangled <=> c \in ghost.tangled
      BY <1>1, <1>5, <1>8 DEF Typed, TypeOK
    <2>2. ASSUME NEW g \in Handlers, At(g, "mail")', Channel(handler'[g].op) = c
          PROVE  /\ At(g, "mail") /\ Channel(handler[g].op) = c
                 /\ handler'[g].arg = handler[g].arg
      <3>1. g # h
        BY <1>4, <1>8, <2>2 DEF Channel
      <3> QED
        BY <1>6, <2>2, <3>1, OthersInMail
    <2>3. ASSUME NEW g \in Handlers, InMail(g, c) PROVE InMail(g, c)'
      <3>1. g # h
        BY <1>2, <2>3, InMailIs DEF InMailSteps
      <3> QED
        BY <1>6, <2>3, <3>1, OthersInMail
    <2>4. Mails(c)'
      BY <2>1, <2>2 DEF Mails, At, Channel
    <2>5. Newest(c)'
      BY <1>5, <2>1, <2>3 DEF Newest
    <2> QED
      BY <2>4, <2>5
  <1> QED
    BY <1>7, <1>8

\* A step that makes no code keeps the mails current.
LEMMA MailsStay ==
    ASSUME Typed, NEW h \in Handlers, NEW c \in Channels, Requested(h) \/ Continued(h),
           ~SetCode(h), Mails(c), code'[c] \in {code[c], NoEntry},
           c \in ghost.tangled => c \in ghost'.tangled
    PROVE  Mails(c)'
  <1>1. ASSUME NEW g \in Handlers, At(g, "mail")', Channel(handler'[g].op) = c
        PROVE  /\ At(g, "mail") /\ Channel(handler[g].op) = c
               /\ handler'[g].arg = handler[g].arg
    <2>1. g # h
      BY <1>1, BecomesMail DEF At
    <2> QED
      BY <1>1, <2>1, OthersStay, OthersInMail
  <1> QED
    BY <1>1 DEF Mails, At, Channel

LEMMA MailStep ==
    ASSUME Typed, NEW h \in Handlers, NEW c \in Channels, Requested(h) \/ Continued(h),
           Mails(c), Newest(c)
    PROVE  Mails(c)' /\ Newest(c)'
  <1> DEFINE d == Channel(handler[h].op)
  <1> USE DEF codeVars
  <1>1. d \in Channels
    BY DEF Channel, Channels
  <1>2. ASSUME NEW g \in Handlers, g # h, InMail(g, c) PROVE InMail(g, c)'
    BY <1>2, OthersStay, OthersInMail
  <1>3. CASE SetCode(h)
    BY <1>3, SetCodeMails
  <1>4. CASE QueueMail(h)
    <2>1. /\ UNCHANGED <<code, ghost>> /\ handler[h].step = "mail"
          /\ mailed' = [mailed EXCEPT ![d] = handler[h].arg]
          /\ ~SetCode(h)
      BY <1>4 DEF QueueMail, SetCode, At
    <2>2. Mails(c)'
      BY <2>1, MailsStay
    <2>3. CASE c = d
      <3>1. c \notin ghost.tangled => code[c] \in {NoEntry, handler[h].arg}
        BY <2>1, <2>3 DEF Mails, At
      <3>2. mailed'[c] = handler[h].arg
        BY <1>1, <2>1, <2>3 DEF Typed, TypeOK
      <3>3. Newest(c)'
        BY <2>1, <3>1, <3>2 DEF Newest
      <3> QED
        BY <2>2, <3>3
    <2>4. CASE c # d
      <3>1. mailed'[c] = mailed[c] /\ ~InMail(h, c)
        BY <1>1, <2>1, <2>4, InMailIs DEF Typed, TypeOK
      <3>2. Newest(c)'
        BY <1>2, <2>1, <3>1 DEF Newest
      <3> QED
        BY <2>2, <3>2
    <2> QED
      BY <2>3, <2>4
  <1>5. CASE CodeFails(h) \/ UndoCooldown(h)
    <2>1. UNCHANGED <<code, mailed, ghost>>
      BY <1>5 DEF CodeFails, UndoCooldown
    <2>2. InMail(h, c) => InMail(h, c)'
      BY <1>5, MailerKeeps, InMailIs DEF InMailSteps, MailSteps, Channel
    <2>3. Newest(c)'
      BY <1>2, <1>3, <2>1, <2>2 DEF Newest
    <2> QED
      BY <1>3, <2>1, <2>3, MailsStay
  <1>6. CASE UndoCode(h)
    <2>1. /\ UNCHANGED <<mailed, ghost>> /\ ~SetCode(h)
          /\ code' = [code EXCEPT ![d] = NoEntry]
      BY <1>6 DEF UndoCode, SetCode, At
    <2>2. code'[c] = IF c = d THEN NoEntry ELSE code[c]
      BY <1>1, <2>1 DEF Typed, TypeOK
    <2>3. c # d => ~InMail(h, c)
      BY InMailIs
    <2>4. Newest(c)'
      BY <1>2, <2>1, <2>2, <2>3 DEF Newest
    <2> QED
      BY <2>1, <2>2, <2>4, MailsStay
  <1>7. CASE HandlerDies(h)
    <2>1. /\ UNCHANGED <<mailed, code>>
          /\ ghost'.tangled = IF handler[h].step \in InMailSteps
                              THEN ghost.tangled \cup {d} ELSE ghost.tangled
      BY <1>7 DEF HandlerDies, InMailSteps, Typed, TypeOK
    <2>2. InMail(h, c) => c \in ghost'.tangled
      BY <2>1, InMailIs
    <2>3. Newest(c)'
      BY <1>2, <2>1, <2>2 DEF Newest
    <2>4. CASE ~SetCode(h)
      BY <2>1, <2>3, <2>4, MailsStay
    <2> QED
      BY <1>3, <2>4
  <1>8. CASE /\ UNCHANGED mailed /\ ghost'.tangled = ghost.tangled
             /\ code'[c] \in {code[c], NoEntry}
             /\ handler[h].step \notin InMailSteps
    <2>1. ~InMail(h, c)
      BY <1>8, InMailIs
    <2>2. Newest(c)'
      BY <1>2, <1>8, <2>1 DEF Newest
    <2>3. CASE ~SetCode(h)
      BY <1>8, <2>2, <2>3, MailsStay
    <2> QED
      BY <1>3, <2>3
  <1> QED
    BY <1>3, <1>4, <1>5, <1>6, <1>7, <1>8, MailTouched

LEMMA MailNext ==
    ASSUME Typed, NEW c \in Channels, Mails(c), Newest(c), [Next]_vars
    PROVE  Mails(c)' /\ Newest(c)'
  <1>1. CASE UNCHANGED vars
    BY <1>1 DEF vars, codeVars, Mails, Newest, InMail, At, Channel
  <1>2. CASE Expired
    <2>1. UNCHANGED <<mailed, ghost>> /\ code'[c] \in {code[c], NoEntry}
      BY <1>2, ExpiredStays
    <2>2. ASSUME NEW g \in Handlers
          PROVE  /\ InMail(g, c)' <=> InMail(g, c)
                 /\ At(g, "mail")' => /\ At(g, "mail")
                                      /\ handler'[g].op = handler[g].op
                                      /\ handler'[g].arg = handler[g].arg
      BY <1>2, ExpiredStays, OthersInMail
    <2>3. Mails(c)'
      BY <2>1, <2>2 DEF Mails, Channel
    <2>4. Newest(c)'
      BY <2>1, <2>2 DEF Newest
    <2> QED
      BY <2>3, <2>4
  <1> QED
    BY <1>1, <1>2, MailStep DEF Next

LEMMA MailStays == Spec => [](MailIsCurrent /\ NewestMailVerifies)
  <1>1. Init => MailIsCurrent /\ NewestMailVerifies
    BY DEF Init, MailIsCurrent, NewestMailVerifies, At, Idle
  <1>2. Typed /\ MailIsCurrent /\ NewestMailVerifies /\ [Next]_vars
        => MailIsCurrent' /\ NewestMailVerifies'
    BY ByChannel, MailNext
  <1> QED
    BY <1>1, <1>2, TypesHold, PTL DEF Spec

\* auth.service.ts:153-176, password.service.ts:136-150: the code in Redis is the one
\* last mailed, whatever fails and is undone, unless mailers overlapped.
THEOREM NewestMailCounts == Spec => []NewestMailVerifies
  BY MailStays, PTL

-----------------------------------------------------------------------------
(* Codes and tokens that have been used.                                   *)

TokenKinds == {"refreshToken", "resetToken"}
Below(t) == t[2] <= issued[t[1]]

Ordered ==
    /\ \A c \in Channels : code[c] # NoEntry => code[c] <= issued[c]
    /\ \A t \in ghost.spent : Below(t)
    /\ \A t \in Held : Below(t)
    /\ \A g \in Handlers : \A t \in Storing(g) : Below(t)
    /\ \A g \in Handlers : \A t \in Presented(g) : Below(t)

Apart ==
    /\ \A c \in Channels : code[c] # NoEntry => <<c, code[c]>> \notin ghost.spent
    /\ ghost.spent \cap Held \subseteq ghost.twice
    /\ \A g \in Handlers : Storing(g) \cap ghost.spent \subseteq ghost.twice
    /\ \A g \in Handlers : Storing(g) \cap Held \subseteq ghost.twice
    /\ \A f, g \in Handlers : f # g => Storing(f) \cap Storing(g) \subseteq ghost.twice
    /\ \A f, g \in Handlers : f # g => Storing(f) \cap Presented(g) \subseteq ghost.twice

\* What the invariants say of one request.
Claim(q) ==
    /\ q.step \in {"lookup", "fill", "activate", "forget"} /\ q.op = "verify"
        => q.arg <= issued["verify"]
    /\ q.step = "spend" => q.arg <= issued["reset"]
    /\ Refreshing(q) => q.arg <= issued["refreshToken"]
    /\ Refreshing(q) /\ q.replay => <<"refreshToken", q.arg>> \in ghost.spent
    /\ Accepted(q) /\ q.replay => <<KindOf(q.op), q.arg>> \in ghost.twice

Kept == Ordered /\ Apart /\ \A g \in Handlers : Claim(handler[g])

LEMMA KeptIs ==
    /\ InOrder /\ SpentForGood /\ SpentIsRefused <=> Kept
    /\ InOrder' /\ SpentForGood' /\ SpentIsRefused' <=> Kept'
  <1>1. InOrder /\ SpentForGood /\ SpentIsRefused => Kept
    BY DEF InOrder, SpentForGood, SpentIsRefused, Kept, Ordered, Apart, Claim, Below, Spent, At
  <1>2. Kept => InOrder /\ SpentForGood /\ SpentIsRefused
    BY DEF InOrder, SpentForGood, SpentIsRefused, Kept, Ordered, Apart, Claim, Below, Spent, At
  <1> QED
    BY <1>1, <1>2, PTL

\* Types of the sets of tokens.
LEMMA TokenSets ==
    ASSUME Typed
    PROVE  /\ Held \in SUBSET (TokenKinds \X Nat)
           /\ ghost.spent \in SUBSET (Kinds \X Nat)
           /\ \A g \in Handlers : Storing(g) \in SUBSET (TokenKinds \X Nat)
           /\ \A g \in Handlers : Presented(g) \in SUBSET (TokenKinds \X Nat)
  <1> USE DEF TokenKinds
  <1>1. Held \in SUBSET (TokenKinds \X Nat)
    BY DEF Held, InRefresh, Typed, TypeOK, RefreshEntry, Tokens
  <1>2. ASSUME NEW g \in Handlers, handler[g].step # "idle"
        PROVE  handler[g].arg \in Nat
    BY <1>2, BusyHoldsRequest DEF Typed, Request, Codes, Tokens
  <1>3. ASSUME NEW g \in Handlers PROVE Storing(g) \in SUBSET (TokenKinds \X Nat)
    BY <1>2 DEF Storing, At
  <1>4. ASSUME NEW g \in Handlers PROVE Presented(g) \in SUBSET (TokenKinds \X Nat)
    BY <1>2 DEF Presented, At
  <1> QED
    BY <1>1, <1>3, <1>4 DEF Typed, TypeOK

LEMMA KindsAre ==
    /\ TokenKinds \subseteq Kinds /\ Channels \subseteq Kinds
    /\ TokenKinds \cap Channels = {}
    /\ TokenKinds \X Nat \subseteq Kinds \X Nat
  BY DEF TokenKinds, Kinds, Channels

\* Who is not between the signing and the store, or has not been accepted.
LEMMA NoTokens ==
    ASSUME NEW g \in Handlers
    PROVE  /\ handler'[g].step # "store" => Storing(g)' = {}
           /\ handler'[g].step \notin {"rotate", "checkNew", "consume"} => Presented(g)' = {}
  BY DEF Storing, Presented, At

LEMMA SameTokens ==
    ASSUME NEW g \in Handlers, Same(g)
    PROVE  Storing(g)' = Storing(g) /\ Presented(g)' = Presented(g)
  <1>1. handler'[g].step = handler[g].step
    BY SameFields
  <1>2. handler[g].step # "idle" =>
            handler'[g].op = handler[g].op /\ handler'[g].arg = handler[g].arg
    BY SameFields
  <1> QED
    BY <1>1, <1>2 DEF Storing, Presented, At

LEMMA SameClaim ==
    ASSUME Typed, Typed', NEW g \in Handlers, Same(g), Claim(handler[g]),
           \A k \in Kinds : issued[k] <= issued'[k],
           ghost.spent \subseteq ghost'.spent, ghost.twice \subseteq ghost'.twice
    PROVE  Claim(handler[g])'
  <1>1. CASE handler[g].step = "idle"
    BY <1>1, SameFields DEF Claim, Refreshing, Accepted
  <1>2. CASE handler[g].step # "idle"
    <2>1. /\ handler'[g].step = handler[g].step /\ handler'[g].op = handler[g].op
          /\ handler'[g].arg = handler[g].arg /\ handler'[g].replay = handler[g].replay
      BY <1>2, SameFields
    <2>2. handler[g].arg \in Nat
      BY <1>2, BusyHoldsRequest DEF Typed, Request, Codes, Tokens
    <2>3. \A k \in Kinds : handler[g].arg <= issued[k] => handler[g].arg <= issued'[k]
      BY <2>2 DEF Typed, TypeOK
    <2>4. "verify" \in Kinds /\ "reset" \in Kinds /\ "refreshToken" \in Kinds
      BY DEF Kinds, Channels
    <2> QED
      BY <2>1, <2>3, <2>4 DEF Claim, Refreshing, Accepted
  <1> QED
    BY <1>1, <1>2

-----------------------------------------------------------------------------
(* Three ways in which a step of h touches codes and tokens.               *)

\* Nothing is made; what is deleted is spent, and h stores what it was about to.
Calm(h) ==
    /\ UNCHANGED issued
    /\ ghost'.twice = ghost.twice
    /\ Storing(h)' = {}
    /\ Presented(h)' \subseteq Presented(h) \cup Held
    /\ \E items \in SUBSET (Kinds \X Nat) :
        /\ ghost'.spent = ghost.spent \cup items
        /\ \A t \in items : Below(t) /\ (t \in Held \cup Presented(h) \/ t[1] \in Channels)
        /\ Held' \subseteq (Held \cup Storing(h)) \ items
        /\ \A c \in Channels :
            \/ code'[c] = NoEntry
            \/ code'[c] = code[c] /\ <<c, code[c]>> \notin items

LEMMA CalmKeeps ==
    ASSUME Typed, Ordered, Apart, NEW h \in Handlers, Calm(h),
           \A g \in Handlers \ {h} :
              Storing(g)' = Storing(g) /\ Presented(g)' = Presented(g)
    PROVE  Ordered' /\ Apart'
  <1>1. PICK items \in SUBSET (Kinds \X Nat) :
          /\ ghost'.spent = ghost.spent \cup items
          /\ \A t \in items : Below(t) /\ (t \in Held \cup Presented(h) \/ t[1] \in Channels)
          /\ Held' \subseteq (Held \cup Storing(h)) \ items
          /\ \A c \in Channels :
              \/ code'[c] = NoEntry
              \/ code'[c] = code[c] /\ <<c, code[c]>> \notin items
    BY DEF Calm
  <1>2. /\ \A g \in Handlers : Storing(g)' \subseteq Storing(g)
        /\ \A g \in Handlers : Presented(g)' \subseteq Presented(g) \cup Held
        /\ Storing(h)' = {} /\ ghost'.twice = ghost.twice
    BY DEF Calm
  <1>3. \A t : Below(t)' <=> Below(t)
    BY DEF Calm, Below
  <1>4. Ordered'
    <2>1. \A c \in Channels : code'[c] # NoEntry => code'[c] <= issued'[c]
      BY <1>1 DEF Ordered, Calm
    <2>2. \A t \in ghost'.spent : Below(t)
      BY <1>1 DEF Ordered
    <2>3. \A t \in Held' : Below(t)
      BY <1>1 DEF Ordered
    <2>4. \A g \in Handlers : \A t \in Storing(g)' : Below(t)
      BY <1>2 DEF Ordered
    <2>5. \A g \in Handlers : \A t \in Presented(g)' : Below(t)
      BY <1>2 DEF Ordered
    <2> QED
      BY <1>3, <2>1, <2>2, <2>3, <2>4, <2>5 DEF Ordered
  <1>5. \A c \in Channels : code'[c] # NoEntry => <<c, code'[c]>> \notin ghost'.spent
    BY <1>1 DEF Apart
  <1>6. ghost'.spent \cap Held' \subseteq ghost'.twice
    BY <1>1, <1>2 DEF Apart
  <1>7. ASSUME NEW g \in Handlers PROVE Storing(g)' \cap ghost'.spent \subseteq ghost'.twice
    <2>1. SUFFICES ASSUME NEW t \in Storing(g), g # h, t \in items
                   PROVE  t \in ghost.twice
      BY <1>1, <1>2 DEF Apart
    <2>2. t[1] \notin Channels
      <3>1. t \in TokenKinds \X Nat
        BY <2>1, TokenSets
      <3> QED
        BY <3>1, KindsAre
    <2>3. t \in Held \cup Presented(h)
      BY <1>1, <2>1, <2>2
    <2> QED
      BY <2>1, <2>3 DEF Apart
  <1>8. ASSUME NEW g \in Handlers PROVE Storing(g)' \cap Held' \subseteq ghost'.twice
    <2>1. CASE g = h
      BY <1>2, <2>1
    <2>2. CASE g # h
      BY <1>1, <1>2, <2>2 DEF Apart
    <2> QED
      BY <2>1, <2>2
  <1>9. ASSUME NEW f \in Handlers, NEW g \in Handlers, f # g
        PROVE  Storing(f)' \cap Storing(g)' \subseteq ghost'.twice
    BY <1>2, <1>9 DEF Apart
  <1>10. ASSUME NEW f \in Handlers, NEW g \in Handlers, f # g
         PROVE  Storing(f)' \cap Presented(g)' \subseteq ghost'.twice
    BY <1>2, <1>10 DEF Apart
  <1> QED
    BY <1>4, <1>5, <1>6, <1>7, <1>8, <1>9, <1>10 DEF Apart

\* Numbers only grow.
LEMMA BelowStays ==
    ASSUME Typed, Typed', \A k \in Kinds : issued[k] <= issued'[k],
           NEW t \in Kinds \X Nat, Below(t)
    PROVE  Below(t)'
  <1>1. t[1] \in Kinds /\ t[2] \in Nat
    OBVIOUS
  <1>2. issued[t[1]] \in Nat /\ issued'[t[1]] \in Nat /\ issued[t[1]] <= issued'[t[1]]
    BY <1>1 DEF Typed, TypeOK
  <1> QED
    BY <1>1, <1>2 DEF Below

\* A token is made: a new one, or again the last one.
SignsToken(h, kind, token) ==
    /\ Storing(h)' = {<<kind, token>>}
    /\ Presented(h)' = {}
    /\ issued' = [issued EXCEPT ![kind] = token]
    /\ ghost'.spent = ghost.spent
    /\ ghost'.twice = IF token = issued[kind]
                      THEN ghost.twice \cup {<<kind, token>>} ELSE ghost.twice
    /\ UNCHANGED code
    /\ Held' = Held
Signs(h) ==
    \E kind \in TokenKinds : \E token \in {issued[kind], issued[kind] + 1} :
        SignsToken(h, kind, token)

LEMMA SignsKeeps ==
    ASSUME Typed, Typed', Ordered, Apart, NEW h \in Handlers, Signs(h),
           \A g \in Handlers \ {h} :
              Storing(g)' = Storing(g) /\ Presented(g)' = Presented(g)
    PROVE  Ordered' /\ Apart'
  <1>0. PICK kind \in TokenKinds :
          \E token \in {issued[kind], issued[kind] + 1} : SignsToken(h, kind, token)
    BY DEF Signs
  <1>1. PICK token \in {issued[kind], issued[kind] + 1} : SignsToken(h, kind, token)
    BY <1>0
  <1> USE DEF SignsToken
  <1>2. kind \in Kinds /\ issued \in [Kinds -> Nat] /\ kind \notin Channels
    BY KindsAre DEF Typed, TypeOK
  <1>3. \A k \in Kinds : issued[k] <= issued'[k]
    BY <1>1, <1>2
  <1>4. ghost.twice \subseteq ghost'.twice
    BY <1>1
  \* The new token is nobody's, or known to be made twice.
  <1>5. ASSUME Below(<<kind, token>>) PROVE <<kind, token>> \in ghost'.twice
    <2>1. token <= issued[kind]
      BY <1>5 DEF Below
    <2>2. token = issued[kind]
      BY <1>1, <1>2, <2>1
    <2> QED
      BY <1>1, <2>2
  <1>6. Ordered'
    <2>1. \A c \in Channels : code'[c] # NoEntry => code'[c] <= issued'[c]
      BY <1>1, <1>2, KindsAre DEF Ordered
    <2>2. \A t \in ghost'.spent : Below(t)'
      BY <1>1, <1>3, BelowStays, TokenSets DEF Ordered
    <2>3. \A t \in Held' : Below(t)'
      BY <1>1, <1>3, BelowStays, TokenSets, KindsAre DEF Ordered
    <2>4. Below(<<kind, token>>)'
      BY <1>1, <1>2 DEF Below
    <2>5. ASSUME NEW g \in Handlers, NEW t \in Storing(g)' PROVE Below(t)'
      BY <1>1, <1>3, <2>4, BelowStays, TokenSets, KindsAre DEF Ordered
    <2>6. ASSUME NEW g \in Handlers, NEW t \in Presented(g)' PROVE Below(t)'
      BY <1>1, <1>3, BelowStays, TokenSets, KindsAre DEF Ordered
    <2> QED
      BY <2>1, <2>2, <2>3, <2>5, <2>6 DEF Ordered
  <1>7. \A c \in Channels : code'[c] # NoEntry => <<c, code'[c]>> \notin ghost'.spent
    BY <1>1 DEF Apart
  <1>8. ghost'.spent \cap Held' \subseteq ghost'.twice
    BY <1>1, <1>4 DEF Apart
  <1>9. ASSUME NEW g \in Handlers PROVE Storing(g)' \cap ghost'.spent \subseteq ghost'.twice
    BY <1>1, <1>4, <1>5 DEF Apart, Ordered
  <1>10. ASSUME NEW g \in Handlers PROVE Storing(g)' \cap Held' \subseteq ghost'.twice
    BY <1>1, <1>4, <1>5 DEF Apart, Ordered
  <1>11. ASSUME NEW f \in Handlers, NEW g \in Handlers, f # g
         PROVE  Storing(f)' \cap Storing(g)' \subseteq ghost'.twice
    BY <1>1, <1>4, <1>5, <1>11 DEF Apart, Ordered
  <1>12. ASSUME NEW f \in Handlers, NEW g \in Handlers, f # g
         PROVE  Storing(f)' \cap Presented(g)' \subseteq ghost'.twice
    BY <1>1, <1>4, <1>5, <1>12 DEF Apart, Ordered
  <1> QED
    BY <1>6, <1>7, <1>8, <1>9, <1>10, <1>11, <1>12 DEF Apart

\* A code is made, always a new one.
MakesCode(h) ==
    \E c \in Channels :
        /\ issued' = [issued EXCEPT ![c] = issued[c] + 1]
        /\ code' = [code EXCEPT ![c] = issued[c] + 1]
        /\ ghost'.spent = ghost.spent /\ ghost'.twice = ghost.twice
        /\ Storing(h)' = {} /\ Presented(h)' = {}
        /\ Held' = Held

LEMMA CodesKeeps ==
    ASSUME Typed, Typed', Ordered, Apart, NEW h \in Handlers, MakesCode(h),
           \A g \in Handlers \ {h} :
              Storing(g)' = Storing(g) /\ Presented(g)' = Presented(g)
    PROVE  Ordered' /\ Apart'
  <1>1. PICK c \in Channels :
          /\ issued' = [issued EXCEPT ![c] = issued[c] + 1]
          /\ code' = [code EXCEPT ![c] = issued[c] + 1]
          /\ ghost'.spent = ghost.spent /\ ghost'.twice = ghost.twice
          /\ Storing(h)' = {} /\ Presented(h)' = {}
          /\ Held' = Held
    BY DEF MakesCode
  <1>2. c \in Kinds /\ issued \in [Kinds -> Nat]
    BY KindsAre DEF Typed, TypeOK
  <1>3. \A k \in Kinds : issued[k] <= issued'[k]
    BY <1>1, <1>2
  <1>4. /\ \A g \in Handlers : Storing(g)' \subseteq Storing(g)
        /\ \A g \in Handlers : Presented(g)' \subseteq Presented(g)
    BY <1>1
  <1>5. ASSUME NEW d \in Channels, code'[d] # NoEntry
        PROVE  code'[d] <= issued'[d] /\ <<d, code'[d]>> \notin ghost'.spent
    <2>1. CASE d = c
      <3>1. code'[d] = issued[c] + 1 /\ issued'[d] = issued[c] + 1
        BY <1>1, <1>2, <2>1 DEF Typed, TypeOK
      <3>2. ~Below(<<d, issued[c] + 1>>)
        BY <1>2, <2>1 DEF Below
      <3> QED
        BY <1>1, <1>2, <3>1, <3>2 DEF Ordered
    <2>2. CASE d # c
      <3>1. code'[d] = code[d] /\ issued'[d] = issued[d]
        BY <1>1, <1>2, <2>2, KindsAre DEF Typed, TypeOK
      <3> QED
        BY <1>1, <1>5, <3>1 DEF Ordered, Apart
    <2> QED
      BY <2>1, <2>2
  <1>6. Ordered'
    <2>1. \A t \in ghost'.spent : Below(t)'
      BY <1>1, <1>3, BelowStays, TokenSets DEF Ordered
    <2>2. \A t \in Held' : Below(t)'
      BY <1>1, <1>3, BelowStays, TokenSets, KindsAre DEF Ordered
    <2>3. ASSUME NEW g \in Handlers, NEW t \in Storing(g)' PROVE Below(t)'
      BY <1>3, <1>4, BelowStays, TokenSets, KindsAre DEF Ordered
    <2>4. ASSUME NEW g \in Handlers, NEW t \in Presented(g)' PROVE Below(t)'
      BY <1>3, <1>4, BelowStays, TokenSets, KindsAre DEF Ordered
    <2> QED
      BY <1>5, <2>1, <2>2, <2>3, <2>4 DEF Ordered
  <1>7. Apart'
    BY <1>1, <1>4, <1>5 DEF Apart
  <1> QED
    BY <1>6, <1>7

-----------------------------------------------------------------------------
(* What h has to show for where it goes.                                   *)

\* A look-up keeps what was presented.
LEMMA MovedClaim ==
    ASSUME NEW h \in Handlers, NEW q \in Request, Moved(h, q), Claim(q),
           q.step \in {"lookup", "fill"}, UNCHANGED <<issued, ghost>>
    PROVE  /\ Claim(handler[h])'
           /\ handler'[h].step \notin {"store", "rotate", "checkNew", "consume"}
  <1>1. handler'[h].step \in {"idle", "cooldown", "activate", "issue", "lookup",
                              "compare", "logout", "profile", "checkOld"}
    BY MovedFits
  <1>2. CASE handler'[h].step = "idle"
    BY <1>2 DEF Claim, Refreshing, Accepted
  <1>3. CASE handler'[h].step # "idle"
    <2>1. /\ handler'[h].arg = q.arg /\ handler'[h].replay = q.replay
          /\ <<q.op, handler'[h].op, handler'[h].step>> \in Moves
      BY <1>3, MovedFits
    <2>2. /\ handler'[h].step = "activate" => q.op = "verify" /\ handler'[h].op = "verify"
          /\ handler'[h].step = "lookup" => /\ handler'[h].op # "verify"
                                            /\ handler'[h].op = "rotate" => q.op = "refresh"
                                            /\ handler'[h].op # "refresh"
          /\ handler'[h].step = "compare" => q.op = "rotate" /\ handler'[h].op = "rotate"
      BY <2>1 DEF Moves
    <2> QED
      BY <1>1, <2>1, <2>2 DEF Claim, Refreshing, Accepted
  <1> QED
    BY <1>1, <1>2, <1>3

LEMMA LookupClaim ==
    ASSUME Typed, NEW h \in Handlers, NEW q \in Request, Lookup(h, q), Claim(q),
           q.step = "lookup"
    PROVE  /\ Claim(handler[h])'
           /\ handler'[h].step \notin {"store", "rotate", "checkNew", "consume"}
  <1>1. UNCHANGED <<issued, ghost>>
    BY DEF Lookup
  <1>2. CASE handler'[h] = [q EXCEPT !.step = "fill", !.seen = row]
    <2>1. /\ handler'[h].step = "fill" /\ handler'[h].op = q.op
          /\ handler'[h].arg = q.arg /\ handler'[h].replay = q.replay
      BY <1>2 DEF Request
    <2> QED
      BY <1>1, <2>1 DEF Claim, Refreshing, Accepted
  <1>3. CASE Moved(h, q)
    BY <1>1, <1>3, MovedClaim
  <1> QED
    BY <1>2, <1>3, LookupMoves

\* A request that presents nothing.
LEMMA FreshClaim ==
    ASSUME Typed, NEW op, NEW pass
    PROVE  Claim(Request0(op, "lookup", 0, pass, FALSE))
  <1>1. 0 <= issued["verify"] /\ 0 <= issued["refreshToken"]
    BY DEF Typed, TypeOK, Kinds, Channels
  <1> QED
    BY <1>1 DEF Claim, Request0, Refreshing, Accepted

LEMMA RequestedUnchanged ==
    ASSUME NEW h \in Handlers, Requested(h)
    PROVE  UNCHANGED <<row, cached, codeVars, tokenVars, issued, offered, ghost>>
  BY DEF Requested, registerUser, resendOtp, forgotPassword, verifyOtp, login, Lookup,
         refreshToken, forgotPasswordVerifyOtp, PresentReset, Authenticate, rowVars

LEMMA RequestedClaim ==
    ASSUME Typed, Kept, NEW h \in Handlers, Requested(h)
    PROVE  Claim(handler[h])' /\ Presented(h)' \subseteq Held /\ Storing(h)' = {}
  <1> DEFINE Goal == Claim(handler[h])' /\ Presented(h)' \subseteq Held /\ Storing(h)' = {}
  <1>0. UNCHANGED <<issued, ghost>>
    BY RequestedUnchanged
  <1>1. ASSUME NEW q \in Request, Lookup(h, q), Claim(q), q.step = "lookup" PROVE Goal
    BY <1>1, LookupClaim, NoTokens
  <1>2. ASSUME NEW op \in Ops, NEW pass \in Passwords \cup {NoEntry},
               Lookup(h, Request0(op, "lookup", 0, pass, FALSE))
        PROVE  Goal
    <2>1. Request0(op, "lookup", 0, pass, FALSE) \in Request
      BY RequestFits DEF Step
    <2>2. Request0(op, "lookup", 0, pass, FALSE).step = "lookup"
      BY DEF Request0
    <2> QED
      BY <1>1, <1>2, <2>1, <2>2, FreshClaim
  <1>3. ASSUME NEW op, NEW step \in {"create", "cooldown"},
               Become(h, Request0(op, step, 0, NoEntry, FALSE))
        PROVE  Goal
    <2>1. handler'[h].step \in {"create", "cooldown"}
      BY <1>3, BecomeSets DEF Request0
    <2> QED
      BY <2>1, NoTokens DEF Claim, Refreshing, Accepted
  <1>4. CASE verifyOtp(h)
    <2>1. /\ handler'[h].step = "lookup" /\ handler'[h].op = "verify"
          /\ handler'[h].arg = code["verify"]
          /\ handler'[h].replay = Spent("verify", code["verify"])
          /\ code["verify"] # NoEntry
      BY <1>4, BecomeSets DEF verifyOtp, Request0
    <2>2. code["verify"] <= issued["verify"] /\ ~Spent("verify", code["verify"])
      BY <2>1 DEF Kept, Ordered, Apart, Spent, Channels
    <2> QED
      BY <1>0, <2>1, <2>2, NoTokens DEF Claim, Refreshing, Accepted
  <1>5. CASE refreshToken(h)
    <2>1. PICK token \in 1 .. issued["refreshToken"] :
            Become(h, Request0("refresh", "lookup", token, NoEntry,
                               Spent("refreshToken", token)))
      BY <1>5 DEF refreshToken
    <2>2. /\ handler'[h].step = "lookup" /\ handler'[h].op = "refresh"
          /\ handler'[h].arg = token
          /\ handler'[h].replay = Spent("refreshToken", token)
      BY <2>1, BecomeSets DEF Request0
    <2>3. token <= issued["refreshToken"]
      BY <2>1
    <2> QED
      BY <1>0, <2>2, <2>3, NoTokens DEF Claim, Refreshing, Accepted, Spent
  <1>6. CASE forgotPasswordVerifyOtp(h)
    <2>1. /\ handler'[h].step = "spend" /\ handler'[h].op = "spend"
          /\ handler'[h].arg = code["reset"]
          /\ handler'[h].replay = Spent("reset", code["reset"])
          /\ code["reset"] # NoEntry
      BY <1>6, BecomeSets DEF forgotPasswordVerifyOtp, Request0
    <2>2. code["reset"] <= issued["reset"] /\ ~Spent("reset", code["reset"])
      BY <2>1 DEF Kept, Ordered, Apart, Spent, Channels
    <2> QED
      BY <1>0, <2>1, <2>2, NoTokens DEF Claim, Refreshing, Accepted
  <1>7. CASE PresentReset(h)
    <2>1. /\ handler'[h].step = "checkNew" /\ handler'[h].op = "reset"
          /\ handler'[h].arg = reset
          /\ handler'[h].replay = Spent("resetToken", reset)
          /\ reset # NoEntry
      BY <1>7, BecomeSets DEF PresentReset, Request0
    <2>2. <<"resetToken", reset>> \in Held
      BY <2>1 DEF Held
    <2>3. Spent("resetToken", reset) => <<"resetToken", reset>> \in ghost.twice
      BY <2>2 DEF Kept, Apart, Spent
    <2>4. Presented(h)' = {<<"resetToken", reset>>}
      BY <2>1 DEF Presented, At
    <2>5. Claim(handler[h])'
      BY <1>0, <2>1, <2>3 DEF Claim, Refreshing, Accepted, KindOf
    <2> QED
      BY <2>1, <2>2, <2>4, <2>5, NoTokens
  <1>8. CASE registerUser(h) \/ forgotPassword(h)
    BY <1>3, <1>8 DEF registerUser, forgotPassword
  <1>9. CASE resendOtp(h) \/ login(h)
    BY <1>2, <1>9 DEF resendOtp, login, Ops, Offers, Mailers
  <1>10. ASSUME NEW op \in Guarded, Authenticate(h, op) PROVE Goal
    BY <1>2, <1>10 DEF Authenticate, Ops, Offers
  <1> QED
    BY <1>4, <1>5, <1>6, <1>7, <1>8, <1>9, <1>10 DEF Requested

Elsewhere == {"idle", "create", "cooldown", "code", "mail", "undoCooldown", "undoCode",
              "issue", "logout", "profile", "forgetUser", "checkOld", "grant",
              "writePassword", "endSession"}

LEMMA ContinuedClaim ==
    ASSUME Typed, Kept, NEW h \in Handlers, Continued(h), ~SignTokens(h), ~SignGrant(h)
    PROVE  /\ Claim(handler[h])'
           /\ Presented(h)' \subseteq Presented(h) \cup Held
           /\ Storing(h)' = {}
  <1> DEFINE Goal == /\ Claim(handler[h])'
                     /\ Presented(h)' \subseteq Presented(h) \cup Held
                     /\ Storing(h)' = {}
  <1>0. Claim(handler[h]) /\ (handler[h].step # "idle" => handler[h] \in Request)
    BY BusyHoldsRequest DEF Kept, Typed
  <1>1. CASE handler'[h].step \in Elsewhere
    BY <1>1, NoTokens DEF Elsewhere, Claim, Refreshing, Accepted
  <1>2. CASE LookUpUser(h)
    <2>1. handler[h].step = "lookup" /\ Lookup(h, handler[h])
      BY <1>2 DEF LookUpUser, At
    <2> QED
      BY <1>0, <2>1, LookupClaim, NoTokens
  <1>3. CASE FillUser(h)
    <2>1. PICK q \in Request :
            /\ q.step = "fill" /\ handler[h].step = "fill"
            /\ q.op = handler[h].op /\ q.arg = handler[h].arg
            /\ q.replay = handler[h].replay
            /\ Moved(h, q)
      BY <1>3, FillKeepsRequest
    <2>2. Claim(q)
      BY <1>0, <2>1 DEF Claim, Refreshing, Accepted
    <2>3. UNCHANGED <<issued, ghost>>
      BY <1>3 DEF FillUser
    <2> QED
      BY <2>1, <2>2, <2>3, MovedClaim, NoTokens
  <1>4. CASE Activate(h)
    <2>1. handler[h].step = "activate" /\ UNCHANGED <<issued, ghost>>
      BY <1>4 DEF Activate, At
    <2>2. handler'[h] = [handler[h] EXCEPT !.step = "forget"]
      BY <1>4 DEF Activate, Overtake
    <2>3. /\ handler'[h].step = "forget" /\ handler'[h].op = handler[h].op
          /\ handler'[h].arg = handler[h].arg /\ handler'[h].replay = handler[h].replay
      BY <1>0, <2>1, <2>2 DEF Request
    <2>4. Claim(handler[h])'
      BY <1>0, <2>1, <2>3 DEF Claim, Refreshing, Accepted
    <2> QED
      BY <2>3, <2>4, NoTokens
  <1>5. CASE CompareRefresh(h)
    <2>1. handler[h].step = "compare" /\ UNCHANGED <<issued, ghost>>
      BY <1>5 DEF CompareRefresh, At
    <2>2. CASE Answer(h)
      BY <1>1, <2>2, AnswerSets DEF Elsewhere
    <2>3. CASE refresh # NoEntry /\ refresh.token = handler[h].arg /\ Proceed(h, "rotate")
      <3>1. handler'[h] = [handler[h] EXCEPT !.step = "rotate"] /\ handler[h] \in Request
        BY <2>1, <2>3, ProceedSets
      <3>2. /\ handler'[h].step = "rotate" /\ handler'[h].op = handler[h].op
            /\ handler'[h].arg = handler[h].arg /\ handler'[h].replay = handler[h].replay
        BY <3>1 DEF Request
      <3>3. <<"refreshToken", handler[h].arg>> \in Held
        BY <2>3 DEF Held, InRefresh
      <3>4. handler[h].op = "rotate"
        BY <2>1 DEF Typed, FieldsFit, Fits
      <3>5. /\ handler[h].arg <= issued["refreshToken"]
            /\ handler[h].replay => <<"refreshToken", handler[h].arg>> \in ghost.spent
        BY <1>0, <2>1, <3>4 DEF Claim, Refreshing
      <3>6. handler[h].replay => <<"refreshToken", handler[h].arg>> \in ghost.twice
        BY <3>3, <3>5 DEF Kept, Apart
      <3>7. Claim(handler[h])'
        BY <2>1, <3>2, <3>4, <3>5, <3>6 DEF Claim, Refreshing, Accepted, KindOf
      <3>8. Presented(h)' = {<<"refreshToken", handler[h].arg>>}
        BY <3>2 DEF Presented, At
      <3> QED
        BY <3>2, <3>3, <3>7, <3>8, NoTokens
    <2> QED
      BY <1>5, <2>2, <2>3 DEF CompareRefresh
  <1>6. CASE resetPassword(h)
    <2>1. PICK new : Become(h, [handler[h] EXCEPT !.step = "consume", !.pass = new])
      BY <1>6 DEF resetPassword, CheckPassword
    <2>2. handler[h].step = "checkNew" /\ UNCHANGED <<issued, ghost>>
      BY <1>6 DEF resetPassword, CheckPassword, At
    <2>3. handler'[h] = [handler[h] EXCEPT !.step = "consume", !.pass = new]
      BY <2>1, BecomeSets
    <2>4. /\ handler'[h].step = "consume" /\ handler'[h].op = handler[h].op
          /\ handler'[h].arg = handler[h].arg /\ handler'[h].replay = handler[h].replay
      BY <1>0, <2>2, <2>3 DEF Request
    <2>5. Presented(h)' = Presented(h)
      BY <2>2, <2>4 DEF Presented, At
    <2>6. Claim(handler[h])'
      BY <1>0, <2>2, <2>4 DEF Claim, Refreshing, Accepted
    <2> QED
      BY <2>4, <2>5, <2>6, NoTokens
  <1>7. /\ updateUserProfile(h) \/ ForgetUser(h) \/ CreateUser(h) \/ TakeCooldown(h)
             => handler'[h].step \in Elsewhere
        /\ SetCode(h) \/ QueueMail(h) \/ CodeFails(h) \/ UndoCooldown(h)
             => handler'[h].step \in Elsewhere
        /\ UndoCode(h) \/ Forget(h) \/ StoreRefresh(h) \/ StoreReset(h)
             => handler'[h].step \in Elsewhere
    BY ContinuedStep DEF Enters, Elsewhere
  <1>8. /\ DeleteRefresh(h) \/ logout(h) \/ changePassword(h) \/ DeleteResetCode(h)
             => handler'[h].step \in Elsewhere
        /\ DeleteResetToken(h) \/ WritePassword(h) \/ EndSession(h) \/ HandlerDies(h)
             => handler'[h].step \in Elsewhere
    BY ContinuedStep DEF Enters, Elsewhere
  <1> QED
    BY <1>1, <1>2, <1>3, <1>4, <1>5, <1>6, <1>7, <1>8 DEF Continued

-----------------------------------------------------------------------------
(* Every step is one of the three.                                         *)

\* Nothing is used; a code may be deleted.
Quiet ==
    /\ UNCHANGED <<issued, reset>>
    /\ ghost'.spent = ghost.spent /\ ghost'.twice = ghost.twice
    /\ InRefresh' = InRefresh
    /\ \A c \in Channels : code'[c] \in {code[c], NoEntry}

LEMMA TokensTouched ==
    ASSUME Typed, NEW h \in Handlers, Requested(h) \/ Continued(h)
    PROVE  \/ SetCode(h) \/ SignTokens(h) \/ SignGrant(h)
           \/ StoreRefresh(h) \/ StoreReset(h)
           \/ DeleteRefresh(h) \/ logout(h) \/ EndSession(h)
           \/ DeleteResetToken(h) \/ DeleteResetCode(h) \/ Forget(h)
           \/ Quiet
  <1> USE DEF codeVars, tokenVars
  <1>0. refresh # NoEntry => refresh \in RefreshEntry
    BY DEF Typed, TypeOK
  <1>1. CASE UNCHANGED <<code, refresh, reset, issued>>
              /\ ghost'.spent = ghost.spent /\ ghost'.twice = ghost.twice
    BY <1>1 DEF Quiet, InRefresh
  <1>2. CASE Requested(h)
    BY <1>1, <1>2, RequestedUnchanged
  <1>3. CASE LookUpUser(h) \/ FillUser(h) \/ updateUserProfile(h) \/ ForgetUser(h)
    BY <1>1, <1>3 DEF LookUpUser, Lookup, FillUser, updateUserProfile, ForgetUser
  <1>4. CASE \/ CreateUser(h) \/ TakeCooldown(h) \/ QueueMail(h) \/ CodeFails(h)
             \/ UndoCooldown(h) \/ Activate(h)
    BY <1>1, <1>4 DEF CreateUser, TakeCooldown, QueueMail, CodeFails, UndoCooldown, Activate
  <1>5. CASE UndoCode(h)
    <2>1. \A c \in Channels : code'[c] \in {code[c], NoEntry}
      BY <1>5 DEF UndoCode, Typed, TypeOK
    <2> QED
      BY <1>5, <2>1 DEF UndoCode, Quiet, InRefresh
  <1>6. CASE CompareRefresh(h) \/ changePassword(h) \/ resetPassword(h)
    BY <1>1, <1>6 DEF CompareRefresh, changePassword, resetPassword, CheckPassword
  <1>7. CASE WritePassword(h)
    <2>1. refresh' = IF refresh = NoEntry THEN NoEntry
                     ELSE [refresh EXCEPT !.old = TRUE, !.unended = FALSE]
      BY <1>7 DEF WritePassword
    <2>2. InRefresh' = InRefresh
      <3>1. CASE refresh = NoEntry
        BY <2>1, <3>1 DEF InRefresh
      <3>2. CASE refresh # NoEntry
        <4>1. refresh' \in RefreshEntry /\ refresh'.token = refresh.token
          BY <1>0, <2>1, <3>2 DEF RefreshEntry
        <4> QED
          BY <3>2, <4>1 DEF InRefresh
      <3> QED
        BY <3>1, <3>2
    <2> QED
      BY <1>7, <2>2 DEF WritePassword, Quiet
  <1>8. CASE HandlerDies(h)
    <2>1. InRefresh' = InRefresh
      <3>1. CASE refresh' = refresh
        BY <3>1 DEF InRefresh
      <3>2. CASE refresh # NoEntry /\ refresh' = [refresh EXCEPT !.unended = refresh.old]
        <4>1. refresh' \in RefreshEntry /\ refresh'.token = refresh.token
          BY <1>0, <3>2 DEF RefreshEntry
        <4> QED
          BY <3>2, <4>1 DEF InRefresh
      <3> QED
        BY <1>8, <3>1, <3>2 DEF HandlerDies
    <2>2. ghost'.spent = ghost.spent /\ ghost'.twice = ghost.twice
      BY <1>8 DEF HandlerDies, Typed, TypeOK
    <2> QED
      BY <1>8, <2>1, <2>2 DEF HandlerDies, Quiet
  <1> QED
    BY <1>2, <1>3, <1>4, <1>5, <1>6, <1>7, <1>8 DEF Continued

\* Calm, by what is used.
LEMMA CalmBy ==
    ASSUME Typed, NEW h \in Handlers, UNCHANGED issued, ghost'.twice = ghost.twice,
           Storing(h)' = {}, Presented(h)' \subseteq Presented(h) \cup Held,
           NEW items \in SUBSET (Kinds \X Nat),
           ghost'.spent = ghost.spent \cup items,
           \A t \in items : Below(t) /\ (t \in Held \cup Presented(h) \/ t[1] \in Channels),
           Held' \subseteq (Held \cup Storing(h)) \ items,
           \A c \in Channels : \/ code'[c] = NoEntry
                               \/ code'[c] = code[c] /\ <<c, code[c]>> \notin items
    PROVE  Calm(h)
  BY DEF Calm

LEMMA SpendAdds ==
    ASSUME Typed, NEW items, Spend(items)
    PROVE  ghost'.spent = ghost.spent \cup items /\ ghost'.twice = ghost.twice
  BY DEF Spend, Typed, TypeOK

LEMMA QuietIsCalm ==
    ASSUME Typed, NEW h \in Handlers, Quiet, Storing(h)' = {},
           Presented(h)' \subseteq Presented(h) \cup Held
    PROVE  Calm(h)
  <1>1. Held' = Held
    BY DEF Quiet, Held
  <1>2. ghost'.spent = ghost.spent \cup {}
    BY DEF Quiet
  <1>3. \A c \in Channels : code'[c] = NoEntry \/ (code'[c] = code[c] /\ <<c, code[c]>> \notin {})
    BY DEF Quiet
  <1>4. {} \in SUBSET (Kinds \X Nat)
    OBVIOUS
  <1>5. Held' \subseteq (Held \cup Storing(h)) \ {}
    BY <1>1
  <1>6. UNCHANGED issued /\ ghost'.twice = ghost.twice
    BY DEF Quiet
  <1> QED
    BY <1>2, <1>3, <1>4, <1>5, <1>6, CalmBy

\* A refresh or a reset token is deleted.
LEMMA EndsAreCalm ==
    ASSUME Typed, Kept, NEW h \in Handlers,
           DeleteRefresh(h) \/ logout(h) \/ EndSession(h) \/ DeleteResetToken(h)
    PROVE  Calm(h)
  <1>0. /\ Storing(h)' = {} /\ Presented(h)' \subseteq Presented(h) \cup Held
        /\ UNCHANGED <<issued, code>>
    <2>1. Continued(h) /\ ~SignTokens(h) /\ ~SignGrant(h)
      BY DEF DeleteRefresh, logout, EndSession, DeleteResetToken, SignTokens, SignGrant,
             At, Continued
    <2> QED
      BY <2>1, ContinuedClaim
      DEF DeleteRefresh, logout, EndSession, DeleteResetToken, codeVars
  <1>1. ASSUME NEW items \in SUBSET (Held \cup Presented(h)), Spend(items),
               Held' \subseteq Held \ items
        PROVE  Calm(h)
    <2>1. items \in SUBSET (TokenKinds \X Nat)
      BY TokenSets
    <2>2. items \in SUBSET (Kinds \X Nat)
      BY <2>1, KindsAre
    <2>3. \A t \in items : Below(t) /\ t \in Held \cup Presented(h)
      BY DEF Kept, Ordered
    <2>4. \A c \in Channels : <<c, code[c]>> \notin items
      BY <2>1, KindsAre
    <2>5. ghost'.spent = ghost.spent \cup items /\ ghost'.twice = ghost.twice
      BY <1>1, SpendAdds
    <2>6. Held' \subseteq (Held \cup Storing(h)) \ items
      BY <1>1
    <2>7. \A c \in Channels : \/ code'[c] = NoEntry
                              \/ code'[c] = code[c] /\ <<c, code[c]>> \notin items
      BY <1>0, <2>4
    <2> QED
      BY <1>0, <2>2, <2>3, <2>5, <2>6, <2>7, CalmBy
  <1>2. CASE DeleteRefresh(h)
    <2> DEFINE items == InRefresh \cup {<<"refreshToken", handler[h].arg>>}
    <2>1. /\ Spend(items) /\ refresh' = NoEntry /\ reset' = reset
          /\ handler[h].step = "rotate"
      BY <1>2 DEF DeleteRefresh, At
    <2>2. items \in SUBSET (Held \cup Presented(h))
      BY <2>1 DEF Held, Presented, At
    <2>3. Held' \subseteq Held \ items
      BY <2>1 DEF Held, InRefresh
    <2> QED
      BY <1>1, <2>1, <2>2, <2>3
  <1>3. CASE logout(h) \/ EndSession(h)
    <2>1. Spend(InRefresh) /\ refresh' = NoEntry /\ reset' = reset
      BY <1>3 DEF logout, EndSession
    <2>2. InRefresh \in SUBSET (Held \cup Presented(h))
      BY DEF Held
    <2>3. Held' \subseteq Held \ InRefresh
      BY <2>1 DEF Held, InRefresh
    <2> QED
      BY <1>1, <2>1, <2>2, <2>3
  <1>4. CASE DeleteResetToken(h)
    <2> DEFINE items == {<<"resetToken", handler[h].arg>>}
    <2>1. /\ Spend(items) /\ reset' = NoEntry /\ refresh' = refresh
          /\ handler[h].step = "consume"
      BY <1>4 DEF DeleteResetToken, At
    <2>2. items \in SUBSET (Held \cup Presented(h))
      BY <2>1 DEF Presented, At
    <2>3. Held' \subseteq Held \ items
      BY <2>1 DEF Held, InRefresh
    <2> QED
      BY <1>1, <2>1, <2>2, <2>3
  <1> QED
    BY <1>2, <1>3, <1>4

\* A code is deleted because it was used.
LEMMA UsesAreCalm ==
    ASSUME Typed, Kept, NEW h \in Handlers, DeleteResetCode(h) \/ Forget(h)
    PROVE  Calm(h)
  <1>0. /\ Storing(h)' = {} /\ Presented(h)' \subseteq Presented(h) \cup Held
        /\ UNCHANGED issued /\ Held' = Held
    <2>1. Continued(h) /\ ~SignTokens(h) /\ ~SignGrant(h)
      BY DEF DeleteResetCode, Forget, SignTokens, SignGrant, At, Continued
    <2>2. Held' = Held
      BY DEF DeleteResetCode, Forget, tokenVars, Held, InRefresh
    <2> QED
      BY <2>1, <2>2, ContinuedClaim DEF DeleteResetCode, Forget
  <1>1. ASSUME NEW c \in Channels, handler[h].arg <= issued[c], handler[h].step # "idle",
               Spend({<<c, handler[h].arg>>}), code' = [code EXCEPT ![c] = NoEntry]
        PROVE  Calm(h)
    <2> DEFINE items == {<<c, handler[h].arg>>}
    <2>1. handler[h].arg \in Nat
      BY <1>1, BusyHoldsRequest DEF Typed, Request, Codes, Tokens
    <2>2. items \in SUBSET (Kinds \X Nat)
      BY <2>1, KindsAre
    <2>3. \A t \in items : Below(t) /\ t[1] \in Channels
      BY <1>1 DEF Below
    <2>4. Held' \subseteq (Held \cup Storing(h)) \ items
      BY <1>0, TokenSets, KindsAre
    <2>5. \A d \in Channels : \/ code'[d] = NoEntry
                              \/ code'[d] = code[d] /\ <<d, code[d]>> \notin items
      BY <1>1 DEF Typed, TypeOK
    <2>6. ghost'.spent = ghost.spent \cup items /\ ghost'.twice = ghost.twice
      BY <1>1, SpendAdds
    <2> QED
      BY <1>0, <2>2, <2>3, <2>4, <2>5, <2>6, CalmBy
  <1>2. Claim(handler[h])
    BY DEF Kept
  <1>3. CASE DeleteResetCode(h)
    <2>1. handler[h].step = "spend" /\ handler[h].arg <= issued["reset"]
      BY <1>2, <1>3 DEF DeleteResetCode, At, Claim
    <2> QED
      BY <1>1, <1>3, <2>1 DEF DeleteResetCode, Channels
  <1>4. CASE Forget(h)
    <2>1. handler[h].step = "forget" /\ handler[h].op = "verify"
      BY <1>4 DEF Forget, At, Typed, FieldsFit, Fits
    <2>2. handler[h].arg <= issued["verify"]
      BY <1>2, <2>1 DEF Claim
    <2>3. PICK kept \in SUBSET (Keys \cup {"code"}) :
            /\ code' = [code EXCEPT !["verify"] = IF "code" \in kept THEN @ ELSE NoEntry]
            /\ IF "code" \in kept THEN UNCHANGED ghost
               ELSE Spend({<<"verify", handler[h].arg>>})
      BY <1>4 DEF Forget
    <2>4. CASE "code" \in kept
      <3>1. code' = code /\ UNCHANGED ghost
        BY <2>3, <2>4 DEF Typed, TypeOK
      <3>2. Quiet
        BY <1>0, <1>4, <3>1 DEF Quiet, Forget, tokenVars, InRefresh
      <3> QED
        BY <1>0, <3>2, QuietIsCalm
    <2>5. CASE "code" \notin kept
      BY <1>1, <2>1, <2>2, <2>3, <2>5 DEF Channels
    <2> QED
      BY <2>4, <2>5
  <1> QED
    BY <1>3, <1>4

LEMMA StoresAreCalm ==
    ASSUME Typed, Kept, NEW h \in Handlers, StoreRefresh(h) \/ StoreReset(h)
    PROVE  Calm(h)
  <1>1. /\ Storing(h)' = {} /\ Presented(h)' \subseteq Presented(h) \cup Held
    <2>1. Continued(h) /\ ~SignTokens(h) /\ ~SignGrant(h)
      BY DEF StoreRefresh, StoreReset, SignTokens, SignGrant, At, Continued
    <2> QED
      BY <2>1, ContinuedClaim
  <1>2. UNCHANGED <<issued, ghost, code>> /\ handler[h].step = "store"
    BY DEF StoreRefresh, StoreReset, At, codeVars
  <1>3. CASE StoreRefresh(h)
    <2>1. /\ refresh' = [token |-> handler[h].arg, old |-> FALSE, unended |-> FALSE]
          /\ UNCHANGED reset /\ handler[h].op # "spend"
      BY <1>3 DEF StoreRefresh
    <2>2. Storing(h) = {<<"refreshToken", handler[h].arg>>}
      BY <1>2, <2>1 DEF Storing, At
    <2>3. InRefresh' \subseteq {<<"refreshToken", handler[h].arg>>}
      BY <2>1 DEF InRefresh
    <2> QED
      BY <1>1, <1>2, <2>1, <2>2, <2>3 DEF Calm, Held
  <1>4. CASE StoreReset(h)
    <2>1. reset' = handler[h].arg /\ UNCHANGED refresh /\ handler[h].op = "spend"
      BY <1>4 DEF StoreReset
    <2>2. Storing(h) = {<<"resetToken", handler[h].arg>>}
      BY <1>2, <2>1 DEF Storing, At
    <2>3. InRefresh' = InRefresh
      BY <2>1 DEF InRefresh
    <2> QED
      BY <1>1, <1>2, <2>1, <2>2, <2>3 DEF Calm, Held
  <1> QED
    BY <1>3, <1>4

LEMMA SignsAre ==
    ASSUME Typed, NEW h \in Handlers, SignTokens(h) \/ SignGrant(h)
    PROVE  Signs(h) /\ Claim(handler[h])'
  <1>1. PICK kind \in TokenKinds :
          /\ Sign(h, kind)
          /\ kind = "resetToken" <=> handler[h].op = "spend"
    <2>1. CASE SignTokens(h)
      BY <2>1 DEF SignTokens, At, Typed, FieldsFit, Fits, TokenKinds
    <2>2. CASE SignGrant(h)
      BY <2>2 DEF SignGrant, At, Typed, FieldsFit, Fits, TokenKinds
    <2> QED
      BY <2>1, <2>2
  <1>2. PICK token \in (1 .. MaxTokens) \cap {issued[kind], issued[kind] + 1} :
          /\ Become(h, [handler[h] EXCEPT !.step = "store", !.arg = token])
          /\ issued' = [issued EXCEPT ![kind] = token]
          /\ ghost' = [ghost EXCEPT !.twice = IF token = issued[kind]
                                              THEN @ \cup {<<kind, token>>} ELSE @]
    BY <1>1 DEF Sign
  <1>3. handler[h] \in Request
    BY BusyHoldsRequest DEF SignTokens, SignGrant, At, Typed
  <1>4. handler'[h] = [handler[h] EXCEPT !.step = "store", !.arg = token]
    BY <1>2, BecomeSets
  <1>5. /\ handler'[h].step = "store" /\ handler'[h].arg = token
        /\ handler'[h].op = handler[h].op
    BY <1>3, <1>4 DEF Request
  <1>6. Storing(h)' = {<<kind, token>>}
    BY <1>1, <1>5 DEF Storing, At, TokenKinds
  <1>7. Presented(h)' = {}
    BY <1>5, NoTokens
  <1>8. /\ ghost'.spent = ghost.spent
        /\ ghost'.twice = IF token = issued[kind]
                          THEN ghost.twice \cup {<<kind, token>>} ELSE ghost.twice
    BY <1>2 DEF Typed, TypeOK
  <1>9. UNCHANGED code /\ Held' = Held
    BY DEF SignTokens, SignGrant, codeVars, tokenVars, Held, InRefresh
  <1>10. Claim(handler[h])'
    BY <1>5 DEF Claim, Refreshing, Accepted
  <1> QED
    BY <1>2, <1>6, <1>7, <1>8, <1>9, <1>10 DEF Signs, SignsToken

LEMMA SetCodeMakes ==
    ASSUME Typed, NEW h \in Handlers, SetCode(h)
    PROVE  MakesCode(h)
  <1> DEFINE c == Channel(handler[h].op)
  <1>1. c \in Channels
    BY DEF Channel, Channels
  <1>2. handler'[h].step = "mail"
    BY ChosenSets
  <1>3. /\ issued' = [issued EXCEPT ![c] = issued[c] + 1]
        /\ code' = [code EXCEPT ![c] = issued[c] + 1]
        /\ ghost'.spent = ghost.spent /\ ghost'.twice = ghost.twice
    BY DEF SetCode, Typed, TypeOK
  <1>4. Held' = Held
    BY DEF SetCode, tokenVars, Held, InRefresh
  <1> QED
    BY <1>1, <1>2, <1>3, <1>4, NoTokens DEF MakesCode

LEMMA Grows ==
    ASSUME Typed, NEW h \in Handlers, Calm(h) \/ Signs(h) \/ MakesCode(h)
    PROVE  /\ \A k \in Kinds : issued[k] <= issued'[k]
           /\ ghost.spent \subseteq ghost'.spent /\ ghost.twice \subseteq ghost'.twice
  <1>0. issued \in [Kinds -> Nat]
    BY DEF Typed, TypeOK
  <1>1. CASE Calm(h)
    BY <1>0, <1>1 DEF Calm
  <1>2. CASE Signs(h)
    BY <1>0, <1>2 DEF Signs, SignsToken
  <1>3. CASE MakesCode(h)
    BY <1>0, <1>3 DEF MakesCode
  <1> QED
    BY <1>1, <1>2, <1>3

LEMMA KeptStep ==
    ASSUME Typed, Typed', Kept, NEW h \in Handlers, Requested(h) \/ Continued(h)
    PROVE  Kept'
  <1>1. /\ Claim(handler[h])'
        /\ Calm(h) \/ Signs(h) \/ MakesCode(h)
    <2>1. CASE SignTokens(h) \/ SignGrant(h)
      BY <2>1, SignsAre
    <2>2. CASE ~SignTokens(h) /\ ~SignGrant(h)
      <3>1. /\ Claim(handler[h])' /\ Storing(h)' = {}
            /\ Presented(h)' \subseteq Presented(h) \cup Held
        BY <2>2, RequestedClaim, ContinuedClaim
      <3> QED
        BY <2>2, <3>1, TokensTouched, QuietIsCalm, EndsAreCalm, UsesAreCalm, StoresAreCalm,
           SetCodeMakes
    <2> QED
      BY <2>1, <2>2
  <1>2. \A g \in Handlers \ {h} : Same(g)
    BY OthersStay
  <1>3. \A g \in Handlers \ {h} :
            Storing(g)' = Storing(g) /\ Presented(g)' = Presented(g)
    BY <1>2, SameTokens
  <1>4. Ordered' /\ Apart'
    BY <1>1, <1>3, CalmKeeps, SignsKeeps, CodesKeeps DEF Kept
  <1>5. ASSUME NEW g \in Handlers PROVE Claim(handler[g])'
    <2>1. CASE g = h
      BY <1>1, <2>1
    <2>2. CASE g # h
      BY <1>1, <1>2, <2>2, Grows, SameClaim DEF Kept
    <2> QED
      BY <2>1, <2>2
  <1> QED
    BY <1>4, <1>5 DEF Kept

LEMMA KeptExpired ==
    ASSUME Typed, Typed', Kept, Expired
    PROVE  Kept'
  <1>1. /\ \A g \in Handlers : Same(g)
        /\ UNCHANGED <<issued, ghost>>
        /\ \A c \in Channels : code'[c] \in {code[c], NoEntry}
        /\ refresh' \in {refresh, NoEntry} /\ reset' \in {reset, NoEntry}
    BY ExpiredStays
  <1>2. Held' \subseteq Held
    BY <1>1 DEF Held, InRefresh
  <1>3. \A g \in Handlers : Storing(g)' = Storing(g) /\ Presented(g)' = Presented(g)
    BY <1>1, SameTokens
  <1>4. \A t : Below(t)' <=> Below(t)
    BY <1>1 DEF Below
  <1>5. Ordered'
    BY <1>1, <1>2, <1>3, <1>4 DEF Kept, Ordered
  <1>6. Apart'
    BY <1>1, <1>2, <1>3 DEF Kept, Apart
  <1>7. \A k \in Kinds : issued[k] <= issued'[k]
    BY <1>1 DEF Typed, TypeOK
  <1>8. ASSUME NEW g \in Handlers PROVE Claim(handler[g])'
    BY <1>1, <1>7, SameClaim DEF Kept
  <1> QED
    BY <1>5, <1>6, <1>8 DEF Kept

LEMMA KeptStutter ==
    ASSUME Typed, Kept, UNCHANGED vars
    PROVE  Kept'
  <1>1. /\ UNCHANGED <<code, issued, ghost, handler>> /\ Held' = Held
        /\ \A g \in Handlers : Storing(g)' = Storing(g) /\ Presented(g)' = Presented(g)
    BY DEF vars, Held, InRefresh, Storing, Presented, At
  <1>2. Ordered'
    BY <1>1 DEF Kept, Ordered, Below
  <1>3. Apart'
    BY <1>1 DEF Kept, Apart
  <1>4. ASSUME NEW g \in Handlers PROVE Claim(handler[g])'
    BY <1>1 DEF Kept, Claim, Refreshing, Accepted
  <1> QED
    BY <1>2, <1>3, <1>4 DEF Kept

LEMMA KeptNext ==
    ASSUME Typed, Typed', Kept, [Next]_vars
    PROVE  Kept'
  BY KeptStep, KeptExpired, KeptStutter DEF Next

LEMMA KeptInit == Init => Kept
  <1> SUFFICES ASSUME Init PROVE Kept
    OBVIOUS
  <1>1. /\ ghost.spent = {} /\ Held = {} /\ \A c \in Channels : code[c] = NoEntry
        /\ \A g \in Handlers : handler[g].step = "idle"
    BY DEF Init, Held, InRefresh, Idle
  <1>2. \A g \in Handlers : Storing(g) = {} /\ Presented(g) = {}
    BY <1>1 DEF Storing, Presented, At
  <1>3. \A g \in Handlers : Claim(handler[g])
    BY <1>1 DEF Claim, Refreshing, Accepted
  <1> QED
    BY <1>1, <1>2, <1>3 DEF Kept, Ordered, Apart

LEMMA KeptHolds == Spec => []Kept
  BY KeptInit, KeptNext, TypesHold, PTL DEF Spec

\* auth.service.ts:310, password.service.ts:217: a code or a token that has been used,
\* or ended by a logout or a new password, is refused for good.
THEOREM UsedIsRefused == Spec => []SpentIsRefused
  BY KeptHolds, KeptIs, PTL

\* The invariant that the run checks is the one that the proofs rest on.
THEOREM InvariantHolds == Spec => []IInv
  <1>1. IInv <=> /\ Typed /\ FillsAreCurrent /\ MailIsCurrent /\ CooldownHeld
                 /\ InOrder /\ SpentForGood
    BY DEF IInv, Typed
  <1> QED
    BY <1>1, TypesHold, CopiesStay, CooldownStays, MailStays, KeptHolds, KeptIs, PTL

=============================================================================
