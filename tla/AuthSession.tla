---------------------------- MODULE AuthSession ----------------------------
(***************************************************************************)
(* The sessions of one account: login, rotation of refresh tokens, logout, *)
(* and the writes of the account row that are meant to end every session   *)
(* by raising token_version (accounts/services/authentication.py,          *)
(* accounts/authentication.py, services/password.py, services/profile.py). *)
(*                                                                         *)
(* Requests run in parallel; a step is a statement of the database, with   *)
(* the code up to the next one. The claims sid, token_version and scope of *)
(* a token are columns of its session that nothing updates, so a refresh   *)
(* token is its session, its generation and its jti, and an access token   *)
(* its session. A client may present any token that was ever issued.       *)
(***************************************************************************)
EXTENDS Integers, FiniteSets

CONSTANTS
  Requests,    \* requests the backend serves at a time
  Sids,        \* bound: sessions that are ever created
  Jtis,        \* bound: refresh tokens that are ever issued
  MaxVersion   \* bound: the highest token_version

ASSUME SessionAssumption == MaxVersion \in Nat \ {0}

VARIABLES
  user,      \* the account row
  sessions,  \* the AuthSession rows
  tokens,    \* refresh tokens issued
  signup,    \* the SIGNUP challenge is open
  resets,    \* token_version of each password reset token signed
  req,       \* the requests
  reported,  \* sessions for which a client was told of a reuse
  torn       \* a write has saved a token_version another write had replaced

vars == <<user, sessions, tokens, signup, resets, req, reported, torn>>

Status == {"pending", "active", "blocked"}
User == [version : 1 .. MaxVersion, status : Status, verified : BOOLEAN]
Scope == {"full", "phone_onboarding"}
Token == [sid : Sids, gen : Nat, jti : Jtis]

Session == [made : BOOLEAN, version : 1 .. MaxVersion, scope : Scope, gen : Nat,
            jti : Jtis \union {"none"}, revoked : BOOLEAN, expired : BOOLEAN]
NoSession == [made |-> FALSE, version |-> 1, scope |-> "full", gen |-> 0,
              jti |-> "none", revoked |-> FALSE, expired |-> FALSE]

\* A request: where it is, what it does, the credential it came with (an access
\* token has no jti), and the rows of the session and the account as it has read them.
Places == {"idle", "issue", "resolve", "activate", "rotate", "session", "write", "form"}
Tasks == {"none", "password", "social", "change", "phone"}
Credential == [sid : Sids \union {"none"}, gen : Nat, jti : Jtis \union {"none"}]
Request == [at : Places, does : Tasks, cred : Credential, row : Session, seen : User]
NoCredential == [sid |-> "none", gen |-> 0, jti |-> "none"]
Unread == [version |-> 1, status |-> "pending", verified |-> FALSE]
NoRequest == [at |-> "idle", does |-> "none", cred |-> NoCredential,
              row |-> NoSession, seen |-> Unread]

Init ==
  /\ user \in {u \in User : u.version = 1 /\ u.status # "blocked"
                              /\ (u.verified => u.status = "active")}
  /\ sessions = [s \in Sids |-> NoSession]
  /\ tokens = {} /\ resets = {} /\ reported = {}
  /\ signup = (user.status = "pending")
  /\ req = [r \in Requests |-> NoRequest]
  /\ torn = FALSE

Made == {s \in Sids : sessions[s].made}

\* Mutant of Locked: select_for_update is dropped.
Locked_Never(s) == FALSE

Locked(s) == \E r \in Requests : req[r].at = "rotate" /\ req[r].cred.sid = s
At(r, place) == req[r].at = place
Ends(r) == req' = [req EXCEPT ![r] = NoRequest]
Begins(r, place, task, seen) ==
  /\ At(r, "idle")
  /\ req' = [req EXCEPT ![r] = [NoRequest EXCEPT !.at = place, !.does = task, !.seen = seen]]
Goes(r, place) == req' = [req EXCEPT ![r].at = place]

\* assert_account_eligible
Eligible(u, onboarding) ==
  /\ u.status # "blocked"
  /\ onboarding \/ (u.status = "active" /\ u.verified)

\* validate_session
Valid(u, row) ==
  /\ ~row.revoked /\ ~row.expired
  /\ row.version = u.version
  /\ Eligible(u, row.scope = "phone_onboarding")

\* _issue_pair: the row of session s becomes new, and names the token issued.
IssuePair(s, new) ==
  \E j \in {k \in Jtis : \A t \in tokens : t.jti # k} :
    /\ sessions' = [sessions EXCEPT ![s] = [new EXCEPT !.jti = j]]
    /\ tokens' = tokens \union {[sid |-> s, gen |-> new.gen, jti |-> j]}
----------------------------------------------------------------------------
(* Login *)

\* authenticate_user: the password is right.
Login(r) ==
  /\ Eligible(user, FALSE)
  /\ Begins(r, "issue", "password", Unread)
  /\ UNCHANGED <<user, sessions, tokens, signup, resets, reported, torn>>

\* authenticate_with_social_provider: _resolve_user reads the account ...
SocialLogin(r) ==
  /\ user.status # "blocked"
  /\ Begins(r, "resolve", "social", user)
  /\ UNCHANGED <<user, sessions, tokens, signup, resets, reported, torn>>

\* ... and saves the status of an account that never finished its signup.
Resolve(r) ==
  /\ At(r, "resolve")
  /\ user' = [user EXCEPT !.status = IF req[r].seen.status = "pending" THEN "active" ELSE @]
  /\ req' = [req EXCEPT ![r].at = "issue", ![r].seen = Unread]
  /\ UNCHANGED <<sessions, tokens, signup, resets, reported, torn>>

\* VerificationConfirmView, for the SIGNUP challenge: the code is right ...
Confirm(r) ==
  /\ signup
  /\ signup' = FALSE
  /\ Begins(r, "activate", "password", Unread)
  /\ UNCHANGED <<user, sessions, tokens, resets, reported, torn>>

\* ... and the account is saved as active, whatever it has become.
Activate(r) ==
  /\ At(r, "activate")
  /\ user' = [user EXCEPT !.status = "active", !.verified = TRUE]
  /\ Goes(r, "issue")
  /\ UNCHANGED <<sessions, tokens, signup, resets, reported, torn>>

\* issue_tokens_for_user: reads the account again, under a lock, in one transaction.
\* Mutant of NewSession: the row is built but not saved.
NewSession_Unsaved(u) == [NoSession EXCEPT !.version = u.version]

NewSession(u) == [NoSession EXCEPT !.made = TRUE, !.version = u.version,
  !.scope = IF u.status = "active" /\ u.verified THEN "full" ELSE "phone_onboarding"]

Issue(r) ==
  /\ At(r, "issue")
  /\ \/ /\ Eligible(user, req[r].does = "social")
        /\ \E s \in Sids \ Made : IssuePair(s, NewSession(user))
     \/ /\ ~Eligible(user, req[r].does = "social")
        /\ UNCHANGED <<sessions, tokens>>
  /\ Ends(r)
  /\ UNCHANGED <<user, signup, resets, reported, torn>>
----------------------------------------------------------------------------
(* Rotation and logout *)

\* rotate_refresh_token: locks the session row, then reads the account.
Rotate(r, t) ==
  /\ ~sessions[t.sid].expired /\ ~Locked(t.sid)
  /\ At(r, "idle")
  /\ req' = [req EXCEPT ![r] = [at |-> "rotate", does |-> "none", cred |-> t,
                                row |-> sessions[t.sid], seen |-> user]]
  /\ UNCHANGED <<user, sessions, tokens, signup, resets, reported, torn>>

Rejected(r) ==
  /\ At(r, "rotate")
  /\ ~Valid(req[r].seen, req[r].row)
  /\ Ends(r)
  /\ UNCHANGED <<user, sessions, tokens, signup, resets, reported, torn>>

Current(cred, row) == row.gen = cred.gen /\ row.jti = cred.jti

\* Mutant of Reused: the error is raised inside the transaction.
Reused_RolledBack(r) ==
  /\ At(r, "rotate")
  /\ Valid(req[r].seen, req[r].row) /\ ~Current(req[r].cred, req[r].row)
  /\ reported' = reported \union {req[r].cred.sid}
  /\ Ends(r)
  /\ UNCHANGED <<user, sessions, tokens, signup, resets, torn>>

\* A consumed token revokes its session; the error is raised after the commit.
Reused(r) == LET s == req[r].cred.sid IN
  /\ At(r, "rotate")
  /\ Valid(req[r].seen, req[r].row) /\ ~Current(req[r].cred, req[r].row)
  /\ sessions' = [sessions EXCEPT ![s].revoked = TRUE]
  /\ reported' = reported \union {s}
  /\ Ends(r)
  /\ UNCHANGED <<user, tokens, signup, resets, torn>>

\* Mutant of Rotated: the session takes the account's version over.
Rotated_Upgrades(r) == LET s == req[r].cred.sid IN
  /\ At(r, "rotate")
  /\ Valid(req[r].seen, req[r].row) /\ Current(req[r].cred, req[r].row)
  /\ IssuePair(s, [sessions[s] EXCEPT !.gen = req[r].row.gen + 1, !.version = user.version])
  /\ Ends(r)
  /\ UNCHANGED <<user, signup, resets, reported, torn>>

\* The new generation and jti are saved, and no other column.
Rotated(r) == LET s == req[r].cred.sid IN
  /\ At(r, "rotate")
  /\ Valid(req[r].seen, req[r].row) /\ Current(req[r].cred, req[r].row)
  /\ IssuePair(s, [sessions[s] EXCEPT !.gen = req[r].row.gen + 1])
  /\ Ends(r)
  /\ UNCHANGED <<user, signup, resets, reported, torn>>

\* revoke_refresh_token: one UPDATE, which waits for the lock. Any refresh token
\* of the session will do.
Logout(t) ==
  /\ ~sessions[t.sid].expired /\ ~Locked(t.sid)
  /\ sessions' = [sessions EXCEPT ![t.sid].revoked = TRUE]
  /\ UNCHANGED <<user, tokens, signup, resets, req, reported, torn>>

\* Seven days have passed since the login.
Expire(s) ==
  /\ sessions[s].made /\ ~sessions[s].expired
  /\ sessions' = [sessions EXCEPT ![s].expired = TRUE]
  /\ UNCHANGED <<user, tokens, signup, resets, req, reported, torn>>
----------------------------------------------------------------------------
(* Writes of the account row *)

\* VersionedJWTAuthentication.get_user: reads the account ...
Authenticate(r, s, task) ==
  /\ sessions[s].made
  /\ sessions[s].version = user.version /\ user.status # "blocked"
  /\ task = "phone" \/ sessions[s].scope = "full"
  /\ At(r, "idle")
  /\ req' = [req EXCEPT ![r] = [NoRequest EXCEPT !.at = "session", !.does = task,
                                                !.cred.sid = s, !.seen = user]]
  /\ UNCHANGED <<user, sessions, tokens, signup, resets, reported, torn>>

\* ... then the session; the request goes on with the account row it has read.
Validate(r) ==
  /\ At(r, "session")
  /\ IF Valid(req[r].seen, sessions[req[r].cred.sid]) THEN Goes(r, "write") ELSE Ends(r)
  /\ UNCHANGED <<user, sessions, tokens, signup, resets, reported, torn>>

\* verify_password_reset_code signs the version that the account has.
SignReset ==
  /\ user.verified
  /\ resets' = resets \union {user.version}
  /\ UNCHANGED <<user, sessions, tokens, signup, req, reported, torn>>

\* reset_password_with_token, up to the save
Reset(r) ==
  /\ user.version \in resets
  /\ Begins(r, "write", "change", user)
  /\ UNCHANGED <<user, sessions, tokens, signup, resets, reported, torn>>

\* change_password, change_email, confirm_phone_change and the end of
\* reset_password_with_token: save the version read, plus one.
Write(r) ==
  /\ At(r, "write")
  /\ req[r].seen.version < MaxVersion
  /\ user' = [user EXCEPT !.version = req[r].seen.version + 1,
                          !.verified = @ \/ req[r].does = "phone"]
  /\ torn' = (torn \/ req[r].seen.version # user.version)
  /\ Ends(r)
  /\ UNCHANGED <<sessions, tokens, signup, resets, reported>>

\* The admin's form of the account shows the row as it was when it was opened ...
Open(r) ==
  /\ Begins(r, "form", "none", user)
  /\ UNCHANGED <<user, sessions, tokens, signup, resets, reported, torn>>

\* ... and saves every field of it, with the status the admin chose.
Submit(r, status) ==
  /\ At(r, "form")
  /\ user' = [req[r].seen EXCEPT !.status = status]
  /\ torn' = (torn \/ req[r].seen.version # user.version)
  /\ Ends(r)
  /\ UNCHANGED <<sessions, tokens, signup, resets, reported>>
----------------------------------------------------------------------------
Serve(r) ==
  \/ Login(r) \/ SocialLogin(r) \/ Resolve(r) \/ Confirm(r) \/ Activate(r) \/ Issue(r)
  \/ \E t \in tokens : Rotate(r, t)
  \/ Rejected(r) \/ Reused(r) \/ Rotated(r)
  \/ \E s \in Sids, task \in {"change", "phone"} : Authenticate(r, s, task)
  \/ Validate(r) \/ Reset(r) \/ Write(r)
  \/ Open(r)
  \/ \E status \in {"active", "blocked"} : Submit(r, status)

Next ==
  \/ \E r \in Requests : Serve(r)
  \/ \E t \in tokens : Logout(t)
  \/ \E s \in Sids : Expire(s)
  \/ SignReset

Spec == Init /\ [][Next]_vars
----------------------------------------------------------------------------
(* Properties *)

\* Every variable has its type, and a session that does not exist has no token.
TypeOK ==
  /\ user \in User
  /\ sessions \in [Sids -> Session]
  /\ tokens \subseteq Token /\ \A t \in tokens : t.sid \in Made
  /\ signup \in BOOLEAN /\ torn \in BOOLEAN
  /\ resets \subseteq 1 .. MaxVersion
  /\ req \in [Requests -> Request]
  /\ reported \subseteq Sids

\* A session is a chain: each refresh token has a generation of its own, up to
\* the session's, and the session's row names the newest. So two rotations never
\* answer the same token, whatever runs beside them.
OneCurrentToken ==
  /\ \A t, u \in tokens : t.sid = u.sid /\ t.gen = u.gen => t = u
  /\ \A t \in tokens : t.gen <= sessions[t.sid].gen
  /\ \A s \in Made : [sid |-> s, gen |-> sessions[s].gen, jti |-> sessions[s].jti] \in tokens

\* A client that was told of a reuse was told the truth: the session is revoked,
\* although the request that revoked it failed.
ReportedIsRevoked == \A s \in reported : sessions[s].revoked

\* A revoked session stays revoked and gets no other token: the rotation that
\* runs beside a logout has either committed before it or fails.
RevokedIsFinal ==
  [][\A s \in Sids : sessions[s].revoked =>
       sessions'[s].revoked /\ \A t \in tokens' \ tokens : t.sid # s]_vars

\* No session is opened for an account that is blocked when it is opened,
\* however long ago the request found it eligible, and none for a version gone by.
OpenedToEligible ==
  [][\A s \in Made' \ Made :
       user.status # "blocked" /\ sessions'[s].version = user.version]_vars

\* A session that has ended, as revoked, expired or of another version than the
\* account's, stays ended (VersionedJWTAuthentication), unless a write of the account
\* row overtook another.
Ended(s) == /\ sessions[s].made
            /\ \/ sessions[s].revoked \/ sessions[s].expired
               \/ sessions[s].version # user.version
EndedStaysUnlessTorn == [][torn' \/ \A s \in Sids : Ended(s) => Ended(s)']_vars
=============================================================================
