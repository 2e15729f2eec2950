------------------------- MODULE AuthSessionProofs -------------------------
(***************************************************************************)
(* Proofs about AuthSession, for any number of requests, sessions and      *)
(* tokens: a session is one chain of refresh tokens, a revoked session is  *)
(* over, and a session that has ended stays ended as long as no write of   *)
(* the account overtakes another.                                          *)
(***************************************************************************)
EXTENDS AuthSession, TLAPS

\* row has the columns of session s.
Reads(row, s) ==
  /\ row.version = sessions[s].version /\ row.scope = sessions[s].scope
  /\ row.gen = sessions[s].gen /\ row.jti = sessions[s].jti
  /\ row.revoked = sessions[s].revoked

\* The lock of rotate_refresh_token: one rotation of a session at a time, which
\* knows the row as it is.
LockInv ==
  \A r \in Requests : req[r].at = "rotate" =>
    /\ req[r].cred \in tokens
    /\ Reads(req[r].row, req[r].cred.sid)
    /\ \A q \in Requests : req[q].at = "rotate" /\ req[q].cred.sid = req[r].cred.sid => q = r

\* No session is of a version that the account has not reached.
VersionInv == torn \/ \A s \in Made : sessions[s].version <= user.version

\* Only a session that exists has been revoked.
RevokedMade == \A s \in Sids : sessions[s].revoked => s \in Made

SessionInv ==
  TypeOK /\ LockInv /\ OneCurrentToken /\ ReportedIsRevoked /\ VersionInv /\ RevokedMade

-----------------------------------------------------------------------------
(* Types. *)

LEMMA RecordTypes ==
  /\ NoSession \in Session /\ NoRequest \in Request /\ NoCredential \in Credential
  /\ Token \subseteq Credential
BY SessionAssumption
   DEF NoSession, Session, Scope, NoRequest, Request, Unread, User, Status, NoCredential,
       Credential, Places, Tasks, Token

LEMMA RequestFields ==
  ASSUME NEW x \in Request, NEW p \in Places, NEW d \in Tasks, NEW u \in User
  PROVE  /\ [x EXCEPT !.at = p] \in Request
         /\ [x EXCEPT !.at = p, !.seen = u] \in Request
         /\ [x EXCEPT !.at = p, !.does = d, !.seen = u] \in Request
BY DEF Request

\* A step of a request changes that request alone.
Only(r, x) == x \in Request /\ req' = [req EXCEPT ![r] = x]

LEMMA OnlyTyped ==
  ASSUME TypeOK, NEW r \in Requests, NEW x, Only(r, x)
  PROVE  /\ req' \in [Requests -> Request] /\ req'[r] = x
         /\ \A q \in Requests \ {r} : req'[q] = req[q]
BY DEF Only, TypeOK

\* A row of a session that is issued a token.
LEMMA IssueTyped ==
  ASSUME TypeOK, NEW s \in Sids, NEW new \in Session, new.made, IssuePair(s, new)
  PROVE  /\ sessions' \in [Sids -> Session]
         /\ tokens' \subseteq Token /\ \A t \in tokens' : sessions'[t.sid].made
         /\ \E j \in Jtis :
              /\ tokens' = tokens \union {[sid |-> s, gen |-> new.gen, jti |-> j]}
              /\ sessions'[s] = [new EXCEPT !.jti = j]
         /\ \A z \in Sids \ {s} : sessions'[z] = sessions[z]
<1>1. PICK j \in Jtis :
        /\ sessions' = [sessions EXCEPT ![s] = [new EXCEPT !.jti = j]]
        /\ tokens' = tokens \union {[sid |-> s, gen |-> new.gen, jti |-> j]}
  BY DEF IssuePair
<1>2. [new EXCEPT !.jti = j] \in Session /\ [new EXCEPT !.jti = j].made /\ new.gen \in Nat
  BY DEF Session
<1>3. sessions' \in [Sids -> Session] /\ sessions'[s] = [new EXCEPT !.jti = j]
  BY <1>1, <1>2 DEF TypeOK
<1>4. \A z \in Sids \ {s} : sessions'[z] = sessions[z]
  BY <1>1 DEF TypeOK
<1>5. [sid |-> s, gen |-> new.gen, jti |-> j] \in Token
  BY <1>2 DEF Token
<1>6. \A t \in tokens' : sessions'[t.sid].made
  BY <1>1, <1>2, <1>3, <1>4 DEF TypeOK, Made
<1>7. QED
  BY <1>1, <1>3, <1>4, <1>5, <1>6 DEF TypeOK

\* The steps of a request other than Rotate end it or take it to another place;
\* none of them starts a rotation.
Step(r) ==
  \/ Login(r) \/ SocialLogin(r) \/ Resolve(r) \/ Confirm(r) \/ Activate(r) \/ Issue(r)
  \/ Rejected(r) \/ Reused(r) \/ Rotated(r)
  \/ \E s \in Sids, task \in {"change", "phone"} : Authenticate(r, s, task)
  \/ Validate(r) \/ Reset(r) \/ Write(r) \/ Open(r)
  \/ \E status \in {"active", "blocked"} : Submit(r, status)

Moves(r) == \E x : Only(r, x) /\ x.at # "rotate"

LEMMA StepMoves ==
  ASSUME TypeOK, NEW r \in Requests, Step(r)
  PROVE  Moves(r)
<1>1. NoRequest \in Request /\ NoRequest.at # "rotate"
  BY RecordTypes DEF NoRequest
<1>2. req[r] \in Request /\ user \in User /\ Unread \in User
  BY SessionAssumption DEF TypeOK, Unread, User, Status
<1>3. ASSUME Ends(r) PROVE Moves(r)
  BY <1>1, <1>3 DEF Ends, Only, Moves
<1>4. ASSUME NEW p \in Places, p # "rotate", NEW d \in Tasks, NEW u \in User, Begins(r, p, d, u)
      PROVE  Moves(r)
  <2> DEFINE x == [NoRequest EXCEPT !.at = p, !.does = d, !.seen = u]
  <2>1. x \in Request /\ x.at = p
    BY <1>1, RequestFields DEF Request
  <2>2. req' = [req EXCEPT ![r] = x]
    BY <1>4 DEF Begins
  <2> HIDE DEF x
  <2>3. QED
    BY <1>4, <2>1, <2>2 DEF Only, Moves
<1>5. ASSUME NEW p \in Places, p # "rotate", Goes(r, p) PROVE Moves(r)
  <2> DEFINE x == [req[r] EXCEPT !.at = p]
  <2>1. x \in Request /\ x.at = p
    BY <1>2, RequestFields DEF Request
  <2>2. req' = [req EXCEPT ![r] = x]
    BY <1>5 DEF Goes
  <2> HIDE DEF x
  <2>3. QED
    BY <1>5, <2>1, <2>2 DEF Only, Moves
<1>6. CASE Login(r)
  BY <1>2, <1>4, <1>6 DEF Login, Places, Tasks
<1>7. CASE SocialLogin(r)
  BY <1>2, <1>4, <1>7 DEF SocialLogin, Places, Tasks
<1>8. CASE Resolve(r)
  <2> DEFINE x == [req[r] EXCEPT !.at = "issue", !.seen = Unread]
  <2>1. x \in Request /\ x.at = "issue"
    BY <1>2 DEF Request, Places
  <2>2. req' = [req EXCEPT ![r] = x]
    BY <1>8 DEF Resolve
  <2> HIDE DEF x
  <2>3. QED
    BY <2>1, <2>2 DEF Only, Moves
<1>9. CASE Confirm(r)
  BY <1>2, <1>4, <1>9 DEF Confirm, Places, Tasks
<1>10. CASE Activate(r)
  BY <1>5, <1>10 DEF Activate, Places
<1>11. CASE Issue(r) \/ Rejected(r) \/ Reused(r) \/ Rotated(r) \/ Write(r)
  BY <1>3, <1>11 DEF Issue, Rejected, Reused, Rotated, Write
<1>12. CASE \E s \in Sids, task \in {"change", "phone"} : Authenticate(r, s, task)
  <2>1. PICK s \in Sids, task \in {"change", "phone"} : Authenticate(r, s, task)
    BY <1>12
  <2> DEFINE x == [NoRequest EXCEPT !.at = "session", !.does = task,
                                    !.cred.sid = s, !.seen = user]
  <2>2. x \in Request /\ x.at = "session"
    BY <1>2, <2>1, RecordTypes DEF Request, Credential, Places, Tasks, NoRequest, NoCredential
  <2>3. req' = [req EXCEPT ![r] = x]
    BY <2>1 DEF Authenticate
  <2> HIDE DEF x
  <2>4. QED
    BY <2>2, <2>3 DEF Only, Moves
<1>13. CASE Validate(r)
  BY <1>3, <1>5, <1>13 DEF Validate, Places
<1>14. CASE Reset(r) \/ Open(r)
  BY <1>2, <1>4, <1>14 DEF Reset, Open, Places, Tasks
<1>15. CASE \E status \in {"active", "blocked"} : Submit(r, status)
  BY <1>3, <1>15 DEF Submit
<1>16. QED
  BY <1>6, <1>7, <1>8, <1>9, <1>10, <1>11, <1>12, <1>13, <1>14, <1>15 DEF Step

LEMMA RotateMoves ==
  ASSUME TypeOK, NEW r \in Requests, NEW t \in tokens, Rotate(r, t)
  PROVE  \E x : /\ Only(r, x) /\ x.at = "rotate" /\ x.cred = t
                /\ x.row = sessions[t.sid] /\ x.seen = user
<1> DEFINE x == [at |-> "rotate", does |-> "none", cred |-> t,
                 row |-> sessions[t.sid], seen |-> user]
<1>1. x \in Request
  BY RecordTypes DEF TypeOK, Request, Token, Places, Tasks
<1>2. req' = [req EXCEPT ![r] = x]
  BY DEF Rotate
<1>3. /\ x.at = "rotate" /\ x.cred = t
      /\ x.row = sessions[t.sid] /\ x.seen = user
  OBVIOUS
<1> HIDE DEF x
<1>4. QED
  BY <1>1, <1>2, <1>3 DEF Only

\* The account row stays one, and its version only falls behind where a write tears.
LEMMA UserStep ==
  ASSUME TypeOK, NEW r \in Requests, Step(r)
  PROVE  user' \in User /\ torn' \in BOOLEAN /\ (torn' \/ (~torn /\ user'.version >= user.version))
<1>1. user \in User /\ req[r].seen \in User /\ torn \in BOOLEAN
  BY DEF TypeOK, Request
<1>2. \A u \in User : u.version \in Nat /\ u.version \in 1 .. MaxVersion
  BY SessionAssumption DEF User
<1>3. CASE UNCHANGED <<user, torn>>
  BY <1>1, <1>2, <1>3
<1>4. CASE Resolve(r) \/ Activate(r)
  <2>1. user' \in User /\ user'.version = user.version
    BY <1>1, <1>4 DEF Resolve, Activate, User, Status
  <2>2. torn' = torn
    BY <1>4 DEF Resolve, Activate
  <2>3. QED
    BY <1>1, <1>2, <2>1, <2>2
<1>5. CASE Write(r)
  <2>1. req[r].seen.version + 1 \in 1 .. MaxVersion
    BY <1>1, <1>2, <1>5, SessionAssumption DEF Write
  <2>2. (user.verified \/ req[r].does = "phone") \in BOOLEAN
    BY Zenon, <1>1
  <2> DEFINE x == [user EXCEPT !.version = req[r].seen.version + 1,
                               !.verified = @ \/ req[r].does = "phone"]
  <2>3. x \in User /\ x.version = req[r].seen.version + 1
    BY <1>1, <2>1, <2>2 DEF User
  <2>4. user' = x
    BY <1>5 DEF Write
  <2> HIDE DEF x
  <2>5. torn' = (torn \/ req[r].seen.version # user.version)
    BY <1>5 DEF Write
  <2>6. torn' \in BOOLEAN /\ (torn' \/ (~torn /\ req[r].seen.version = user.version))
    BY Zenon, <2>5
  <2>7. QED
    BY <1>1, <1>2, <2>3, <2>4, <2>6
<1>6. CASE \E status \in {"active", "blocked"} : Submit(r, status)
  <2>1. PICK status \in {"active", "blocked"} : Submit(r, status)
    BY <1>6
  <2>2. user' \in User /\ user'.version = req[r].seen.version
    BY <1>1, <2>1 DEF Submit, User, Status
  <2>3. torn' = (torn \/ req[r].seen.version # user.version)
    BY <2>1 DEF Submit
  <2>4. torn' \in BOOLEAN /\ (torn' \/ (~torn /\ req[r].seen.version = user.version))
    BY Zenon, <2>3
  <2>5. QED
    BY <1>1, <1>2, <2>2, <2>4
<1>7. QED
  BY <1>3, <1>4, <1>5, <1>6
     DEF Step, Login, SocialLogin, Confirm, Issue, Rejected, Reused, Rotated,
         Authenticate, Validate, Reset, Open

\* What a rotation has read.
LEMMA Holder ==
  ASSUME TypeOK, LockInv, NEW r \in Requests, req[r].at = "rotate"
  PROVE  /\ req[r].cred \in Token /\ req[r].cred.sid \in Made
         /\ req[r].row.gen = sessions[req[r].cred.sid].gen
         /\ req[r].row.jti = sessions[req[r].cred.sid].jti
         /\ req[r].row.revoked = sessions[req[r].cred.sid].revoked
BY DEF TypeOK, LockInv, Reads

\* The three ways a step of a request changes the sessions.
LEMMA IssueStep ==
  ASSUME TypeOK, NEW r \in Requests, Issue(r), ~UNCHANGED <<sessions, tokens>>
  PROVE  \E s \in Sids \ Made : /\ NewSession(user) \in Session
                                /\ NewSession(user).made
                                /\ IssuePair(s, NewSession(user))
                                /\ user.status # "blocked"
<1>1. NewSession(user) \in Session /\ NewSession(user).made
  BY RecordTypes DEF TypeOK, NewSession, NoSession, Session, Scope, User
<1>2. QED
  BY <1>1 DEF Issue, Eligible

LEMMA NextGeneration ==
  ASSUME NEW row \in Session
  PROVE  LET new == [row EXCEPT !.gen = row.gen + 1]
         IN  /\ new \in Session /\ new.gen = row.gen + 1 /\ new.made = row.made
             /\ new.version = row.version /\ new.revoked = row.revoked
             /\ new.expired = row.expired
<1>1. row.gen + 1 \in Nat
  BY DEF Session
<1>2. QED
  BY <1>1 DEF Session

LEMMA RotatedStep ==
  ASSUME TypeOK, LockInv, NEW r \in Requests, Rotated(r)
  PROVE  LET s == req[r].cred.sid
             new == [sessions[s] EXCEPT !.gen = sessions[s].gen + 1]
         IN  /\ s \in Made /\ new \in Session /\ new.made
             /\ new.gen = sessions[s].gen + 1 /\ new.version = sessions[s].version
             /\ new.revoked = FALSE /\ sessions[s].revoked = FALSE
             /\ new.expired = sessions[s].expired
             /\ IssuePair(s, new)
<1> DEFINE s == req[r].cred.sid
           new == [sessions[s] EXCEPT !.gen = sessions[s].gen + 1]
<1>1. At(r, "rotate") /\ req[r].at = "rotate"
  BY DEF Rotated, At
<1>2. s \in Made /\ req[r].row.gen = sessions[s].gen /\ req[r].row.revoked = sessions[s].revoked
  BY <1>1, Holder
<1>3. sessions[s] \in Session /\ sessions[s].gen \in Nat /\ sessions[s].made
  BY <1>2 DEF TypeOK, Made, Session
<1>4. new \in Session /\ new.gen = sessions[s].gen + 1 /\ new.made = sessions[s].made
      /\ new.version = sessions[s].version /\ new.revoked = sessions[s].revoked
      /\ new.expired = sessions[s].expired
  BY <1>3, NextGeneration
<1>5. sessions[s].revoked = FALSE
  BY <1>2, <1>3 DEF Rotated, Valid, Session
<1>6. IssuePair(s, new)
  BY <1>2 DEF Rotated
<1>7. QED
  BY <1>2, <1>3, <1>4, <1>5, <1>6

-----------------------------------------------------------------------------
(* The chain of tokens, and the lock. *)

LEMMA ChainIssued ==
  ASSUME TypeOK, OneCurrentToken, NEW s \in Sids, NEW new \in Session, new.made,
         IssuePair(s, new), \A t \in tokens : t.sid = s => t.gen < new.gen
  PROVE  OneCurrentToken'
<1>1. PICK j \in Jtis : /\ tokens' = tokens \union {[sid |-> s, gen |-> new.gen, jti |-> j]}
                        /\ sessions'[s] = [new EXCEPT !.jti = j]
  BY IssueTyped
<1>2. \A z \in Sids \ {s} : sessions'[z] = sessions[z]
  BY IssueTyped
<1>3. sessions'[s].gen = new.gen /\ sessions'[s].jti = j /\ sessions'[s].made /\ new.gen \in Nat
  BY <1>1 DEF Session
<1> DEFINE fresh == [sid |-> s, gen |-> new.gen, jti |-> j]
<1>4. fresh \in tokens' /\ fresh.sid = s /\ fresh.gen = new.gen
  BY <1>1
<1>5. \A t \in tokens' : t = fresh \/ t \in tokens
  BY <1>1
<1>6. \A t \in tokens : t.sid \in Sids /\ t.gen \in Nat /\ t.gen <= sessions[t.sid].gen
  BY DEF TypeOK, Token, OneCurrentToken
<1>7. \A t \in tokens' : t.gen <= sessions'[t.sid].gen
  BY <1>2, <1>3, <1>4, <1>5, <1>6
<1>8. ASSUME NEW t \in tokens', NEW u \in tokens', t.sid = u.sid, t.gen = u.gen
      PROVE  t = u
  BY <1>3, <1>4, <1>5, <1>6, <1>8 DEF OneCurrentToken
<1>9. ASSUME NEW z \in Made'
      PROVE  [sid |-> z, gen |-> sessions'[z].gen, jti |-> sessions'[z].jti] \in tokens'
  <2>1. CASE z = s
    BY <1>3, <1>4, <2>1
  <2>2. CASE z # s
    <3>1. z \in Made /\ sessions'[z] = sessions[z]
      BY <1>2, <1>9, <2>2 DEF Made
    <3>2. QED
      BY <1>1, <3>1 DEF OneCurrentToken
  <2>3. QED
    BY <2>1, <2>2
<1>10. QED
  BY <1>7, <1>8, <1>9 DEF OneCurrentToken

\* A step that keeps the tokens, and of each session all but revoked and expired.
Keeps(s) ==
  /\ sessions'[s].made = sessions[s].made /\ sessions'[s].version = sessions[s].version
  /\ sessions'[s].scope = sessions[s].scope
  /\ sessions'[s].gen = sessions[s].gen /\ sessions'[s].jti = sessions[s].jti
  /\ sessions[s].revoked => sessions'[s].revoked
  /\ sessions[s].expired => sessions'[s].expired

LEMMA Marked ==
  ASSUME TypeOK, NEW s \in Sids,
         \/ sessions' = [sessions EXCEPT ![s].revoked = TRUE]
         \/ sessions' = [sessions EXCEPT ![s].expired = TRUE]
  PROVE  /\ sessions' \in [Sids -> Session]
         /\ \A z \in Sids : Keeps(z)
         /\ \A z \in Sids \ {s} : sessions'[z] = sessions[z]
<1>1. \A row \in Session : /\ [row EXCEPT !.revoked = TRUE] \in Session
                           /\ [row EXCEPT !.expired = TRUE] \in Session
  BY DEF Session
<1>2. sessions \in [Sids -> Session]
  BY DEF TypeOK
<1>3. sessions' \in [Sids -> Session]
  BY <1>1, <1>2
<1>4. \A z \in Sids \ {s} : sessions'[z] = sessions[z]
  BY <1>2
<1>5. \/ sessions'[s] = [sessions[s] EXCEPT !.revoked = TRUE]
      \/ sessions'[s] = [sessions[s] EXCEPT !.expired = TRUE]
  BY <1>2
<1>6. Keeps(s)
  BY <1>2, <1>5 DEF Keeps, Session
<1>7. QED
  BY <1>3, <1>4, <1>6 DEF Keeps

LEMMA ChainKept ==
  ASSUME TypeOK, OneCurrentToken, UNCHANGED tokens, \A s \in Sids : Keeps(s)
  PROVE  OneCurrentToken'
<1>1. Made' = Made
  BY DEF Made, Keeps
<1>2. \A t \in tokens : t.sid \in Sids
  BY DEF TypeOK, Token
<1>3. Made \subseteq Sids
  BY DEF Made
<1>4. QED
  BY <1>1, <1>2, <1>3 DEF OneCurrentToken, Keeps

\* The rotations that are not r's keep their lock.
LEMMA LockKept ==
  ASSUME TypeOK, LockInv, NEW r \in Requests, Moves(r), tokens \subseteq tokens',
         \A q \in Requests \ {r} : req[q].at = "rotate" =>
           sessions'[req[q].cred.sid] = sessions[req[q].cred.sid]
  PROVE  LockInv'
<1>1. PICK x : Only(r, x) /\ x.at # "rotate"
  BY DEF Moves
<1>2. req'[r].at # "rotate" /\ \A q \in Requests \ {r} : req'[q] = req[q]
  BY <1>1, OnlyTyped
<1>3. QED
  BY <1>2 DEF LockInv, Reads

-----------------------------------------------------------------------------
(* The steps. *)

\* What a step of a request does to the sessions, with what the properties ask of it.
SessionsKept == UNCHANGED <<sessions, tokens, reported>>

\* A session is opened, or its next token is issued.
Issues(r, s, new) ==
  /\ s \in Sids /\ new \in Session /\ new.made /\ IssuePair(s, new) /\ reported' = reported
  /\ \/ /\ s \notin Made /\ new.version = user.version /\ ~new.revoked
        /\ user.status # "blocked" /\ user' = user
     \/ /\ s \in Made /\ req[r].at = "rotate" /\ req[r].cred.sid = s
        /\ new.gen = sessions[s].gen + 1 /\ new.version = sessions[s].version
        /\ ~sessions[s].revoked /\ ~new.revoked /\ new.expired = sessions[s].expired

Revokes(r, s) ==
  /\ s \in Made /\ req[r].at = "rotate" /\ req[r].cred.sid = s
  /\ sessions' = [sessions EXCEPT ![s].revoked = TRUE]
  /\ tokens' = tokens /\ reported' = reported \union {s}

LEMMA StepSessions ==
  ASSUME TypeOK, LockInv, NEW r \in Requests, Step(r)
  PROVE  \/ SessionsKept
         \/ \E s, new : Issues(r, s, new)
         \/ \E s : Revokes(r, s)
<1>1. CASE Issue(r)
  <2>1. CASE UNCHANGED <<sessions, tokens>>
    BY <1>1, <2>1 DEF Issue, SessionsKept
  <2>2. CASE ~UNCHANGED <<sessions, tokens>>
    <3>1. PICK s \in Sids \ Made : /\ NewSession(user) \in Session /\ NewSession(user).made
                                   /\ IssuePair(s, NewSession(user)) /\ user.status # "blocked"
      BY <1>1, <2>2, IssueStep
    <3>2. NewSession(user).version = user.version /\ ~NewSession(user).revoked
      BY DEF NewSession, NoSession
    <3>3. reported' = reported /\ user' = user
      BY <1>1 DEF Issue
    <3>4. QED
      BY <3>1, <3>2, <3>3 DEF Issues
  <2>3. QED
    BY <2>1, <2>2
<1>2. CASE Rotated(r)
  <2> DEFINE s == req[r].cred.sid
             new == [sessions[s] EXCEPT !.gen = sessions[s].gen + 1]
  <2>1. /\ s \in Made /\ new \in Session /\ new.made
        /\ new.gen = sessions[s].gen + 1 /\ new.version = sessions[s].version
        /\ new.revoked = FALSE /\ sessions[s].revoked = FALSE
        /\ new.expired = sessions[s].expired
        /\ IssuePair(s, new)
    BY <1>2, RotatedStep
  <2>2. req[r].at = "rotate" /\ reported' = reported /\ Made \subseteq Sids
    BY <1>2 DEF Rotated, At, Made
  <2> HIDE DEF new
  <2>3. QED
    BY <2>1, <2>2 DEF Issues
<1>3. CASE Reused(r)
  <2>1. req[r].at = "rotate"
    BY <1>3 DEF Reused, At
  <2>2. req[r].cred.sid \in Made
    BY <2>1, Holder
  <2>3. QED
    BY <1>3, <2>1, <2>2 DEF Reused, Revokes
<1>4. CASE Step(r) /\ ~(Issue(r) \/ Rotated(r) \/ Reused(r))
  BY <1>4 DEF Step, Login, SocialLogin, Resolve, Confirm, Activate, Rejected, Authenticate,
              Validate, Reset, Write, Open, Submit, SessionsKept
<1>5. QED
  BY <1>1, <1>2, <1>3, <1>4

LEMMA StepInv ==
  ASSUME SessionInv, NEW r \in Requests, Step(r)
  PROVE  SessionInv'
<1> USE DEF SessionInv
<1>1. Moves(r)
  BY StepMoves
<1>2. req' \in [Requests -> Request]
  BY <1>1, OnlyTyped DEF Moves
<1>3. user' \in User /\ torn' \in BOOLEAN /\ (torn' \/ (~torn /\ user'.version >= user.version))
  BY UserStep
<1>4. signup' \in BOOLEAN /\ resets' \subseteq 1 .. MaxVersion
  BY DEF TypeOK, Step, Login, SocialLogin, Resolve, Confirm, Activate, Issue, Rejected,
         Reused, Rotated, Authenticate, Validate, Reset, Write, Open, Submit
<1>5. \A u \in User : u.version \in Nat
  BY SessionAssumption DEF User
<1>6. user \in User /\ \A s \in Sids : sessions[s].version \in Nat
  BY <1>5, SessionAssumption DEF TypeOK, Session
<1>7. CASE SessionsKept
  <2>1. TypeOK'
    BY <1>2, <1>3, <1>4, <1>7 DEF TypeOK, SessionsKept, Made
  <2>2. LockInv'
    BY <1>1, <1>7, LockKept DEF SessionsKept
  <2>3. OneCurrentToken' /\ ReportedIsRevoked' /\ RevokedMade'
    BY <1>7 DEF SessionsKept, OneCurrentToken, ReportedIsRevoked, Made, RevokedMade
  <2>4. VersionInv'
    <3>1. Made' = Made /\ Made \subseteq Sids
      BY <1>7 DEF SessionsKept, Made
    <3>2. QED
      BY <1>3, <1>5, <1>6, <1>7, <3>1 DEF VersionInv, SessionsKept
  <2>5. QED
    BY <2>1, <2>2, <2>3, <2>4
<1>8. CASE \E s, new : Issues(r, s, new)
  <2>1. PICK s, new : Issues(r, s, new)
    BY <1>8
  <2>2. s \in Sids /\ new \in Session /\ new.made /\ IssuePair(s, new) /\ reported' = reported
    BY <2>1 DEF Issues
  <2>3. /\ sessions' \in [Sids -> Session]
        /\ tokens' \subseteq Token /\ \A t \in tokens' : sessions'[t.sid].made
        /\ \A z \in Sids \ {s} : sessions'[z] = sessions[z]
        /\ tokens \subseteq tokens'
    BY <2>2, IssueTyped
  <2>4. sessions'[s].made /\ sessions'[s].version = new.version /\ sessions'[s].revoked = new.revoked
    <3>1. PICK j \in Jtis : sessions'[s] = [new EXCEPT !.jti = j]
      BY <2>2, IssueTyped
    <3>2. QED
      BY <2>2, <3>1 DEF Session
  <2>5. TypeOK'
    <3>1. \A t \in tokens' : t.sid \in Made'
      BY <2>3 DEF Made, Token
    <3>2. QED
      BY <1>2, <1>3, <1>4, <2>2, <2>3, <3>1 DEF TypeOK
  <2>6. \A t \in tokens : t.sid = s => t.gen < new.gen
    BY <2>1, <2>2 DEF Issues, TypeOK, OneCurrentToken, Token, Session
  <2>7. OneCurrentToken'
    BY <2>2, <2>6, ChainIssued
  <2>8. LockInv'
    <3>1. ASSUME NEW q \in Requests \ {r}, req[q].at = "rotate"
          PROVE  req[q].cred.sid # s /\ req[q].cred.sid \in Sids
      BY <2>1, <3>1, Holder DEF Issues, LockInv, Made
    <3>2. QED
      BY <1>1, <2>3, <3>1, LockKept
  <2>9. ReportedIsRevoked' /\ RevokedMade'
    <3>1. s \notin reported
      BY <2>1, <2>2 DEF ReportedIsRevoked, RevokedMade, Issues
    <3>2. \A z \in Sids \ {s} : sessions'[z] = sessions[z]
      BY <2>3
    <3>3. reported \subseteq Sids
      BY DEF TypeOK
    <3>4. ReportedIsRevoked'
      BY <2>2, <3>1, <3>2, <3>3 DEF ReportedIsRevoked
    <3>5. RevokedMade'
      BY <2>4, <3>2 DEF RevokedMade, Made
    <3>6. QED
      BY <3>4, <3>5
  <2>10. VersionInv'
    <3>1. CASE torn'
      BY <3>1 DEF VersionInv
    <3>2. CASE ~torn'
      <4>1. \A z \in Made : sessions[z].version <= user.version
        BY <1>3, <3>2 DEF VersionInv
      <4>2. Made' = Made \union {s} /\ Made \subseteq Sids
        BY <2>2, <2>3, <2>4 DEF Made
      <4>3. sessions'[s].version <= user.version
        BY <1>5, <1>6, <2>1, <2>4, <4>1 DEF Issues
      <4>4. \A z \in Made' : sessions'[z].version <= user.version /\ sessions'[z].version \in Nat
        BY <1>6, <2>2, <2>3, <4>1, <4>2, <4>3, SessionAssumption DEF Session
      <4>5. QED
        BY <1>3, <1>5, <1>6, <3>2, <4>4 DEF VersionInv
    <3>3. QED
      BY <3>1, <3>2
  <2>11. QED
    BY <2>5, <2>7, <2>8, <2>9, <2>10
<1>9. CASE \E s : Revokes(r, s)
  <2>1. PICK s : Revokes(r, s)
    BY <1>9
  <2>2. s \in Sids /\ tokens' = tokens /\ reported' = reported \union {s}
    BY <2>1 DEF Revokes, Made
  <2>3. /\ sessions' \in [Sids -> Session]
        /\ \A z \in Sids : Keeps(z)
        /\ \A z \in Sids \ {s} : sessions'[z] = sessions[z]
    BY <2>1, <2>2, Marked DEF Revokes
  <2>4. Made' = Made /\ Made \subseteq Sids
    BY <2>3 DEF Made, Keeps
  <2>5. TypeOK'
    BY <1>2, <1>3, <1>4, <2>2, <2>3, <2>4 DEF TypeOK
  <2>6. OneCurrentToken'
    BY <2>2, <2>3, ChainKept
  <2>7. LockInv'
    <3>1. ASSUME NEW q \in Requests \ {r}, req[q].at = "rotate"
          PROVE  req[q].cred.sid # s /\ req[q].cred.sid \in Sids
      BY <2>1, <3>1, Holder DEF Revokes, LockInv, Made
    <3>2. QED
      BY <1>1, <2>2, <2>3, <3>1, LockKept
  <2>8. sessions'[s].revoked
    BY <2>1, <2>2 DEF Revokes, TypeOK, Session
  <2>9. ReportedIsRevoked'
    BY <2>2, <2>3, <2>8 DEF ReportedIsRevoked, Keeps, TypeOK
  <2>10. RevokedMade'
    BY <2>1, <2>3, <2>4 DEF RevokedMade, Revokes
  <2>11. VersionInv'
    BY <1>3, <1>5, <1>6, <2>3, <2>4 DEF VersionInv, Keeps
  <2>12. QED
    BY <2>5, <2>6, <2>7, <2>9, <2>10, <2>11
<1>10. QED
  BY <1>7, <1>8, <1>9, StepSessions

\* A rotation begins: it has the lock, and what it has read is the row.
LEMMA RotateInv ==
  ASSUME SessionInv, NEW r \in Requests, NEW t \in tokens, Rotate(r, t)
  PROVE  SessionInv'
<1> USE DEF SessionInv
<1>1. PICK x : /\ Only(r, x) /\ x.at = "rotate" /\ x.cred = t
               /\ x.row = sessions[t.sid] /\ x.seen = user
  BY RotateMoves
<1>2. /\ req' \in [Requests -> Request] /\ req'[r] = x
      /\ \A q \in Requests \ {r} : req'[q] = req[q]
  BY <1>1, OnlyTyped
<1>3. UNCHANGED <<user, sessions, tokens, signup, resets, reported, torn>> /\ ~Locked(t.sid)
  BY DEF Rotate
<1>4. TypeOK'
  BY <1>2, <1>3 DEF TypeOK, Made
<1>5. OneCurrentToken' /\ ReportedIsRevoked' /\ VersionInv' /\ RevokedMade'
  BY <1>3 DEF OneCurrentToken, ReportedIsRevoked, VersionInv, RevokedMade, Made
<1>6. \A q \in Requests : req[q].at = "rotate" => req[q].cred.sid # t.sid
  BY <1>3 DEF Locked
<1>7. LockInv'
  BY <1>1, <1>2, <1>3, <1>6 DEF LockInv, Reads
<1>8. QED
  BY <1>4, <1>5, <1>7

\* A logout or the end of the seven days marks one session.
LEMMA MarkInv ==
  ASSUME SessionInv, NEW s \in Made, UNCHANGED <<user, tokens, signup, resets, req, reported, torn>>,
         \/ sessions' = [sessions EXCEPT ![s].revoked = TRUE] /\ ~Locked(s)
         \/ sessions' = [sessions EXCEPT ![s].expired = TRUE]
  PROVE  SessionInv'
<1> USE DEF SessionInv
<1>1. s \in Sids
  BY DEF Made
<1>2. /\ sessions' \in [Sids -> Session]
      /\ \A z \in Sids : Keeps(z)
      /\ \A z \in Sids \ {s} : sessions'[z] = sessions[z]
  BY <1>1, Marked
<1>3. Made' = Made
  BY <1>2 DEF Made, Keeps
<1>4. TypeOK'
  BY <1>2, <1>3 DEF TypeOK
<1>5. OneCurrentToken'
  BY <1>2, ChainKept
<1>6. ReportedIsRevoked' /\ VersionInv'
  BY <1>2, <1>3 DEF ReportedIsRevoked, VersionInv, Keeps, TypeOK, Made
<1>7. RevokedMade'
  <2>1. CASE sessions' = [sessions EXCEPT ![s].revoked = TRUE]
    BY <1>2, <1>3, <2>1 DEF RevokedMade
  <2>2. CASE sessions' = [sessions EXCEPT ![s].expired = TRUE]
    <3>1. \A z \in Sids : sessions'[z].revoked = sessions[z].revoked
      BY <1>1, <2>2 DEF TypeOK, Session
    <3>2. QED
      BY <1>3, <3>1 DEF RevokedMade
  <2>3. QED
    BY <2>1, <2>2
<1>8. LockInv'
  <2>1. \A q \in Requests : req[q].at = "rotate" => req[q].cred.sid \in Sids
    BY Holder DEF Made
  <2>2. CASE ~Locked(s)
    <3>1. \A q \in Requests : req[q].at = "rotate" => req[q].cred.sid # s
      BY <2>2 DEF Locked
    <3>2. QED
      BY <1>2, <2>1, <3>1 DEF LockInv, Reads
  <2>3. CASE sessions' = [sessions EXCEPT ![s].expired = TRUE]
    <3>1. \A z \in Sids : /\ sessions'[z].revoked = sessions[z].revoked
      BY <1>1, <2>3 DEF TypeOK, Session
    <3>2. QED
      BY <1>2, <2>1, <3>1 DEF LockInv, Reads, Keeps
  <2>4. QED
    BY <2>2, <2>3
<1>9. QED
  BY <1>4, <1>5, <1>6, <1>7, <1>8

LEMMA SessionInit == Init => SessionInv
<1> SUFFICES ASSUME Init PROVE SessionInv
  OBVIOUS
<1>1. user \in User
  BY DEF Init
<1>2. \A s \in Sids : ~sessions[s].made /\ ~sessions[s].revoked
  BY DEF Init, NoSession
<1>3. \A r \in Requests : req[r].at = "idle"
  BY DEF Init, NoRequest
<1>4. signup \in BOOLEAN
  BY Zenon DEF Init
<1>5. TypeOK
  BY <1>1, <1>2, <1>4, RecordTypes DEF Init, TypeOK
<1>6. LockInv
  BY <1>3 DEF LockInv
<1>7. OneCurrentToken /\ ReportedIsRevoked /\ VersionInv /\ RevokedMade
  BY <1>2 DEF Init, OneCurrentToken, ReportedIsRevoked, VersionInv, RevokedMade, Made
<1>8. QED
  BY <1>5, <1>6, <1>7 DEF SessionInv

LEMMA SessionNext == SessionInv /\ [Next]_vars => SessionInv'
<1> SUFFICES ASSUME SessionInv, [Next]_vars PROVE SessionInv'
  OBVIOUS
<1>1. ASSUME NEW r \in Requests, Serve(r) PROVE SessionInv'
  <2>1. CASE Step(r)
    BY <2>1, StepInv
  <2>2. CASE \E t \in tokens : Rotate(r, t)
    BY <2>2, RotateInv
  <2>3. QED
    BY <1>1, <2>1, <2>2 DEF Serve, Step
<1>2. ASSUME NEW t \in tokens, Logout(t) PROVE SessionInv'
  <2>1. t.sid \in Made
    BY DEF SessionInv, TypeOK
  <2>2. QED
    BY <1>2, <2>1, MarkInv DEF Logout
<1>3. ASSUME NEW s \in Sids, Expire(s) PROVE SessionInv'
  BY <1>3, MarkInv DEF Expire, Made
<1>4. CASE SignReset
  <2>1. resets' \subseteq 1 .. MaxVersion
    BY <1>4 DEF SignReset, SessionInv, TypeOK, User
  <2>2. UNCHANGED <<user, sessions, tokens, signup, req, reported, torn>>
    BY <1>4 DEF SignReset
  <2>3. QED
    BY <2>1, <2>2 DEF SessionInv, TypeOK, LockInv, Reads, OneCurrentToken, ReportedIsRevoked,
                      VersionInv, RevokedMade, Made
<1>5. CASE UNCHANGED vars
  BY <1>5 DEF vars, SessionInv, TypeOK, LockInv, Reads, OneCurrentToken, ReportedIsRevoked,
              VersionInv, RevokedMade, Made
<1>6. QED
  BY <1>1, <1>2, <1>3, <1>4, <1>5 DEF Next

\* Every reachable state satisfies the invariant the theorems below rest on.
THEOREM SessionInvariant == Spec => []SessionInv
BY SessionInit, SessionNext, PTL DEF Spec

\* The type invariant.
THEOREM SessionTypeCorrect == Spec => []TypeOK
<1>1. SessionInv => TypeOK
  BY DEF SessionInv
<1>2. QED
  BY <1>1, SessionInvariant, PTL

\* The refresh tokens of a session are one chain and its row names the newest:
\* of any two rotations of the same token one fails.
THEOREM OneChain == Spec => []OneCurrentToken
<1>1. SessionInv => OneCurrentToken
  BY DEF SessionInv
<1>2. QED
  BY <1>1, SessionInvariant, PTL

\* A reuse that was reported has revoked its session.
THEOREM ReuseRevokes == Spec => []ReportedIsRevoked
<1>1. SessionInv => ReportedIsRevoked
  BY DEF SessionInv
<1>2. QED
  BY <1>1, SessionInvariant, PTL

-----------------------------------------------------------------------------
(* What no step does. *)

\* Some session, which exists, is marked as revoked or expired.
Marks(s) ==
  /\ s \in Made /\ tokens' = tokens
  /\ \/ sessions' = [sessions EXCEPT ![s].revoked = TRUE]
     \/ sessions' = [sessions EXCEPT ![s].expired = TRUE]

LEMMA Effects ==
  ASSUME SessionInv, [Next]_vars
  PROVE  /\ torn' \/ (~torn /\ user'.version >= user.version)
         /\ \/ UNCHANGED <<sessions, tokens>>
            \/ \E r \in Requests : \E s, new : Issues(r, s, new)
            \/ \E s : Marks(s)
<1> USE DEF SessionInv
<1>1. ASSUME UNCHANGED <<user, torn>>
      PROVE  torn' \/ (~torn /\ user'.version >= user.version)
  <2>1. user'.version >= user.version
    BY <1>1, SessionAssumption DEF TypeOK, User
  <2>2. QED
    BY <1>1, <2>1
<1>2. ASSUME NEW r \in Requests, Step(r)
      PROVE  /\ torn' \/ (~torn /\ user'.version >= user.version)
             /\ SessionsKept \/ (\E s, new : Issues(r, s, new)) \/ \E s : Revokes(r, s)
  BY <1>2, UserStep, StepSessions
<1>3. CASE \E r \in Requests : Step(r)
  BY <1>2, <1>3 DEF SessionsKept, Revokes, Marks
<1>4. CASE \E t \in tokens : Logout(t)
  <2>1. PICK t \in tokens : Logout(t)
    BY <1>4
  <2>2. t.sid \in Made
    BY DEF TypeOK
  <2>3. QED
    BY <1>1, <2>1, <2>2 DEF Logout, Marks
<1>5. CASE \E s \in Sids : Expire(s)
  <2>1. PICK s \in Sids : Expire(s)
    BY <1>5
  <2>2. Marks(s) /\ UNCHANGED <<user, torn>>
    BY <2>1 DEF Expire, Marks, Made
  <2>3. QED
    BY <1>1, <2>2
<1>6. CASE (\E r \in Requests : \E t \in tokens : Rotate(r, t)) \/ SignReset \/ UNCHANGED vars
  <2>1. UNCHANGED <<user, torn, sessions, tokens>>
    BY <1>6 DEF Rotate, SignReset, vars
  <2>2. QED
    BY <1>1, <2>1
<1>7. QED
  BY <1>3, <1>4, <1>5, <1>6 DEF Next, Serve, Step

\* The session that is issued a token, and the others.
LEMMA IssuesOne ==
  ASSUME SessionInv, NEW r \in Requests, NEW s, NEW new, Issues(r, s, new)
  PROVE  /\ s \in Sids /\ ~sessions[s].revoked
         /\ \A z \in Sids \ {s} : sessions'[z] = sessions[z]
         /\ \A t \in tokens' \ tokens : t.sid = s
         /\ sessions'[s].made /\ sessions'[s].version = new.version
         /\ sessions'[s].expired = new.expired
<1>1. s \in Sids /\ new \in Session /\ new.made /\ IssuePair(s, new)
  BY DEF Issues
<1>2. PICK j \in Jtis : /\ tokens' = tokens \union {[sid |-> s, gen |-> new.gen, jti |-> j]}
                        /\ sessions'[s] = [new EXCEPT !.jti = j]
  BY <1>1, IssueTyped DEF SessionInv
<1>3. \A z \in Sids \ {s} : sessions'[z] = sessions[z]
  BY <1>1, IssueTyped DEF SessionInv
<1>4. ~sessions[s].revoked
  BY <1>1 DEF Issues, SessionInv, RevokedMade
<1>5. QED
  BY <1>1, <1>2, <1>3, <1>4 DEF Session

LEMMA MarksOne ==
  ASSUME SessionInv, NEW s, Marks(s)
  PROVE  tokens' = tokens /\ Made' = Made /\ \A z \in Sids : Keeps(z)
<1>1. s \in Sids
  BY DEF Marks, Made
<1>2. \A z \in Sids : Keeps(z)
  BY <1>1, Marked DEF Marks, SessionInv
<1>3. QED
  BY <1>2 DEF Made, Keeps, Marks

\* A revoked session stays revoked, and no token of it is issued any more.
THEOREM RevokedForever == Spec => RevokedIsFinal
<1>1. SessionInv /\ [Next]_vars =>
        [\A s \in Sids : sessions[s].revoked =>
           sessions'[s].revoked /\ \A t \in tokens' \ tokens : t.sid # s]_vars
  <2> SUFFICES ASSUME SessionInv, [Next]_vars, NEW s \in Sids, sessions[s].revoked
               PROVE  sessions'[s].revoked /\ \A t \in tokens' \ tokens : t.sid # s
    OBVIOUS
  <2>1. CASE UNCHANGED <<sessions, tokens>>
    BY <2>1
  <2>2. CASE \E r \in Requests : \E z, new : Issues(r, z, new)
    BY <2>2, IssuesOne
  <2>3. CASE \E z : Marks(z)
    BY <2>3, MarksOne DEF Keeps
  <2>4. QED
    BY <2>1, <2>2, <2>3, Effects
<1>2. QED
  BY <1>1, SessionInvariant, PTL DEF Spec, RevokedIsFinal

\* Sessions are opened to accounts that are not blocked, at their present version.
THEOREM OpenedRight == Spec => OpenedToEligible
<1>1. SessionInv /\ [Next]_vars =>
        [\A s \in Made' \ Made :
           user.status # "blocked" /\ sessions'[s].version = user.version]_vars
  <2> SUFFICES ASSUME SessionInv, [Next]_vars, NEW s \in Made' \ Made
               PROVE  user.status # "blocked" /\ sessions'[s].version = user.version
    OBVIOUS
  <2>1. CASE UNCHANGED <<sessions, tokens>>
    BY <2>1 DEF Made
  <2>2. CASE \E r \in Requests : \E z, new : Issues(r, z, new)
    <3>1. PICK r \in Requests : \E z, new : Issues(r, z, new)
      BY <2>2
    <3>2. PICK z, new : Issues(r, z, new)
      BY <3>1
    <3>3. s = z
      BY <3>2, IssuesOne DEF Made
    <3>4. QED
      BY <3>2, <3>3, IssuesOne DEF Issues
  <2>3. CASE \E z : Marks(z)
    BY <2>3, MarksOne
  <2>4. QED
    BY <2>1, <2>2, <2>3, Effects
<1>2. QED
  BY <1>1, SessionInvariant, PTL DEF Spec, OpenedToEligible

\* A session that has ended stays ended, in every step up to the first write of
\* the account that overtakes another.
THEOREM EndedForGood == Spec => EndedStaysUnlessTorn
<1>1. SessionInv /\ [Next]_vars => [torn' \/ \A s \in Sids : Ended(s) => Ended(s)']_vars
  <2> SUFFICES ASSUME SessionInv, [Next]_vars, ~torn', NEW s \in Sids, Ended(s)
               PROVE  Ended(s)'
    OBVIOUS
  <2>1. ~torn /\ user'.version >= user.version
    BY Effects
  <2>2. user.version \in Nat /\ user'.version \in Nat /\ sessions[s].version \in Nat
    BY SessionNext, SessionAssumption DEF SessionInv, TypeOK, User, Session
  <2>3. s \in Made /\ sessions[s].version <= user.version
    BY <2>1 DEF SessionInv, VersionInv, Ended, Made
  <2>4. sessions[s].version # user.version => sessions[s].version # user'.version
    BY <2>1, <2>2, <2>3
  <2>5. CASE UNCHANGED <<sessions, tokens>>
    BY <2>4, <2>5 DEF Ended
  <2>6. CASE \E r \in Requests : \E z, new : Issues(r, z, new)
    <3>1. PICK r \in Requests : \E z, new : Issues(r, z, new)
      BY <2>6
    <3>2. PICK z, new : Issues(r, z, new)
      BY <3>1
    <3>3. CASE s # z
      BY <2>4, <3>2, <3>3, IssuesOne DEF Ended
    <3>4. CASE s = z
      <4>1. new.version = sessions[s].version /\ new.expired = sessions[s].expired
        BY <2>3, <3>2, <3>4 DEF Issues
      <4>2. QED
        BY <2>4, <3>2, <3>4, <4>1, IssuesOne DEF Ended
    <3>5. QED
      BY <3>3, <3>4
  <2>7. CASE \E z : Marks(z)
    BY <2>3, <2>4, <2>7, MarksOne DEF Ended, Keeps
  <2>8. QED
    BY <2>5, <2>6, <2>7, Effects
<1>2. QED
  BY <1>1, SessionInvariant, PTL DEF Spec, EndedStaysUnlessTorn
=============================================================================
