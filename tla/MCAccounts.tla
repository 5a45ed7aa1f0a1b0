----------------------------- MODULE MCAccounts -----------------------------
(* Instances of Accounts for TLC. *)
EXTENDS Accounts, TLC

CONSTANTS p1, p2, n1, n2

Active == [status |-> "ACTIVE", password |-> p1, profile |-> n1]

\* One behaviour registers, or has sessions, or edits the profile, or recovers
\* the password.
Join == [row |-> Unborn, offered |-> {"register", "resend", "verify"}]
Session == [row |-> Active, offered |-> {"login", "refresh", "change"}]
Profile == [row |-> Active, offered |-> {"me", "profile", "login", "logout"}]
Recover == [row |-> Active, offered |-> {"forgot", "spend", "reset"}]

AllScenarios == {Join, Session, Profile, Recover}

HandlerSymmetry == Permutations(Handlers)

=============================================================================
