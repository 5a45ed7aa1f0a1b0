------------------------------ MODULE UserReads ------------------------------
(***************************************************************************)
(* user.service.ts: the cached reads that most requests begin with, and    *)
(* the updates of the profile.                                             *)
(***************************************************************************)
EXTENDS AccountStore

\* What a request does with the copy of the user it got: <<its operation, what
\* it becomes, its next step>>.
Moves == {<<"resend", "resend", "cooldown">>, <<"verify", "verify", "activate">>,
          <<"login", "login", "issue">>, <<"me", "current", "lookup">>,
          <<"refresh", "rotate", "lookup">>, <<"rotate", "rotate", "compare">>,
          <<"logout", "logout", "logout">>, <<"profile", "profile", "profile">>,
          <<"change", "change", "checkOld">>}

Passes(q, user) ==
    /\ q.op # "current"
    /\ q.op = "resend" => user.status = "PENDING"
    /\ q.op \notin {"resend", "verify"} => user.status = "ACTIVE"
    /\ q.op = "login" => user.password = q.pass

Continue(h, q, user) ==
    \/ /\ Passes(q, user)
       /\ \E move \in Moves :
            /\ move[1] = q.op
            /\ Become(h, [q EXCEPT !.op = move[2], !.step = move[3]])
    \/ ~Passes(q, user) /\ Answer(h)

\* getUserById and getUserByEmail.  A miss and its query are one step: by the
\* time of the query another handler may have filled the key.
Lookup(h, q) ==
    /\ \/ /\ row # Unborn
          /\ Become(h, [q EXCEPT !.step = "fill", !.seen = row])
       \/ /\ cached[KeyOf(q.op)] # NoEntry
          /\ Continue(h, q, cached[KeyOf(q.op)].user)
    /\ UNCHANGED <<rowVars, codeVars, tokenVars, issued, offered, ghost>>

FillUser(h) ==
    /\ At(h, "fill")
    /\ LET q == handler[h]
       IN  /\ cached' = [cached EXCEPT ![KeyOf(q.op)] =
                            [user |-> q.seen, late |-> q.late]]
           /\ Continue(h, [q EXCEPT !.seen = NoEntry, !.late = FALSE], q.seen)
    /\ UNCHANGED <<row, codeVars, tokenVars, issued, offered, ghost>>

\* AccessTokenStrategy.validate, in front of every route that is not public.
Authenticate(h, op) ==
    /\ Arrives(h, op)
    /\ op \in Guarded
    /\ Lookup(h, Request0(op, "lookup", 0, NoEntry, FALSE))

\* The lookup of verifyOtp and refreshToken, and getCurrentUser.
LookUpUser(h) == At(h, "lookup") /\ Lookup(h, handler[h])

\* updateUserProfile and changeAvatar.
updateUserProfile(h) ==
    /\ At(h, "profile")
    /\ \E profile \in Profiles \ {row.profile} : row' = [row EXCEPT !.profile = profile]
    /\ Overtake(h, "forgetUser")
    /\ UNCHANGED <<cached, codeVars, tokenVars, issued, offered, ghost>>

\* Slip: only the key with the id is deleted.
ForgetUser_idOnly(h) ==
    /\ At(h, "forgetUser")
    /\ cached' = Forgotten({"id"})
    /\ Answer(h)
    /\ UNCHANGED <<row, codeVars, tokenVars, issued, offered, ghost>>

ForgetUser(h) ==
    /\ At(h, "forgetUser")
    /\ \E lost \in SUBSET Keys :
        cached' = [k \in Keys |-> IF k \in lost THEN Outdated(lost)[k] ELSE NoEntry]
    /\ Answer(h)
    /\ UNCHANGED <<row, codeVars, tokenVars, issued, offered, ghost>>

ExpireUser(k) ==
    /\ cached[k] # NoEntry
    /\ cached' = Forgotten({k})
    /\ UNCHANGED <<row, codeVars, tokenVars, handler, issued, offered, ghost>>

=============================================================================
