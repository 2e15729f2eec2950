------------------------ MODULE TokenRefreshProofs -------------------------
(***************************************************************************)
(* Proofs about TokenRefresh, for any number of pages, calls and pairs:    *)
(* the browser presents a refresh token once, is logged out for a cause,   *)
(* and at rest holds the newest pair, as long as nothing is lost and no    *)
(* reply puts an older pair into the cookie.                               *)
(***************************************************************************)
EXTENDS TokenRefresh, TLAPS

\* Pairs by their place in the chain of the session.
Known(j) == \E t \in tokens : t.jti = j
Gen(j) == TokenOf(j).gen
Newest(j) == \A t \in tokens : t.gen <= Gen(j)
Follows(k, j) == Known(j) /\ Known(k) /\ Gen(j) < Gen(k)

\* The backend: one account that nobody writes, one session, one chain of pairs.
Backend ==
  /\ user = [version |-> 1, status |-> "active", verified |-> TRUE]
  /\ \A s \in Sids : sessions[s].version = 1
  /\ \A t, u \in tokens : t.sid = u.sid
  /\ \A t, u \in tokens : t.jti = u.jti \/ t.gen = u.gen => t = u
  /\ \A t \in tokens :
       /\ t.gen <= sessions[t.sid].gen
       /\ [sid |-> t.sid, gen |-> sessions[t.sid].gen, jti |-> sessions[t.sid].jti] \in tokens

\* A call that has no answer yet is a rotation in the backend; there is one at a
\* time, and it knows the session's row.
Reads(row, s) ==
  /\ row.version = sessions[s].version /\ row.scope = sessions[s].scope
  /\ row.gen = sessions[s].gen /\ row.jti = sessions[s].jti
  /\ row.revoked = sessions[s].revoked /\ (row.expired => sessions[s].expired)

Lock ==
  \A r \in Requests :
    /\ calls[r].state \in {"waiting", "gone"} => req[r].at = "rotate"
    /\ req[r].at = "rotate" =>
         /\ calls[r].state \in {"waiting", "gone"}
         /\ req[r].cred \in tokens /\ req[r].cred.jti = calls[r].of
         /\ req[r].seen = user /\ Reads(req[r].row, req[r].cred.sid)
         /\ \A q \in Requests : req[q].at = "rotate" => q = r

\* What the frontend holds are pairs of the backend.
Carries(p) == pages[p].at \in {"sent", "waiting"}
Held ==
  /\ cookie = "expired" \/ Known(cookie)
  /\ \A p \in Pages :
       /\ Carries(p) => Known(pages[p].tok)
       /\ pages[p].at = "reply" => pages[p].tok = "expired" \/ Known(pages[p].tok)
  /\ \A r \in Requests :
       /\ calls[r].state # "none" => Known(calls[r].of)
       /\ calls[r].state = "ok" => calls[r].to \in Jtis
  /\ \A j \in Jtis : rotations[j].state = "ok" => rotations[j].to \in Jtis

\* A rotation leads from a pair to a newer one.
Became(j, k) ==
  \/ rotations[j].state = "ok" /\ rotations[j].to = k
  \/ \E r \in Requests : calls[r].state = "ok" /\ calls[r].of = j /\ calls[r].to = k
Order == \A j, k \in Jtis : Became(j, k) => Follows(k, j)

\* Nothing says that the session has ended before it has, unless something slipped.
Over == \E s \in Sids : sessions[s].revoked \/ sessions[s].expired
Cause ==
  \/ slipped \/ Over
  \/ /\ cookie # "expired"
     /\ \A p \in Pages : pages[p].at = "reply" => pages[p].tok # "expired"
     /\ \A r \in Requests : calls[r].state # "refused"
     /\ \A j \in Jtis : rotations[j].state # "refused"

\* A call has its entry in the Map and a page that waits for it; no other call has
\* the same token.
Flight ==
  /\ \A r \in Requests : calls[r].state # "none" =>
       /\ calls[r].state # "gone"
       /\ rotations[calls[r].of].state = "pending"
       /\ \A q \in Requests : calls[q].state # "none" /\ calls[q].of = calls[r].of => q = r
  /\ \A p \in Pages : pages[p].at = "waiting" => rotations[pages[p].tok].state = "pending"
  /\ \A j \in Jtis : rotations[j].state = "pending" =>
       \E p \in Pages : pages[p].at = "waiting" /\ pages[p].tok = j

\* A pair that the browser may present is the newest, or its rotation is at hand.
InUse(j) == cookie = j \/ \E p \in Pages : Carries(p) /\ pages[p].tok = j
Done(j) ==
  \/ rotations[j].state = "ok"
  \/ \E r \in Requests : calls[r].state = "ok" /\ calls[r].of = j
Fresh == \A j \in Jtis : InUse(j) => Newest(j) \/ Done(j)

\* A pair is presented, and thereby replaced, only after the cookie has reached it.
Reach ==
  \A c \in Jtis : cookie = c =>
    /\ \A j \in Jtis : InUse(j) => Gen(j) <= Gen(c)
    /\ \A t, u \in tokens : t.gen < u.gen => t.gen <= Gen(c)

\* While the cookie is a pair that was replaced, a reply with the next one is coming.
Owed ==
  \A j \in Jtis : rotations[j].state = "ok" /\ cookie = j =>
    \E p \in Pages : pages[p].at = "reply" /\ pages[p].tok = rotations[j].to

Smooth == slipped \/ (Flight /\ Fresh /\ Reach /\ Owed /\ reported = {})

RefreshInv == TypeOK /\ Backend /\ Lock /\ Held /\ Order /\ Cause /\ Smooth
-----------------------------------------------------------------------------
(* Pairs *)

\* A jti names one token.
LEMMA TokenOfIs ==
  ASSUME Backend, NEW t \in tokens
  PROVE  TokenOf(t.jti) = t
<1>1. \E u \in tokens : u.jti = t.jti
  OBVIOUS
<1>2. TokenOf(t.jti) \in tokens /\ TokenOf(t.jti).jti = t.jti
  BY <1>1, Zenon DEF TokenOf
<1>3. QED
  BY <1>2 DEF Backend

LEMMA KnownPair ==
  ASSUME TypeOK, Backend, NEW j, Known(j)
  PROVE  /\ j \in Jtis /\ j # "none" /\ j # "expired" /\ Gen(j) \in Nat
         /\ TokenOf(j) \in tokens /\ TokenOf(j).jti = j /\ Gen(j) = TokenOf(j).gen
<1>1. PICK t \in tokens : t.jti = j
  BY DEF Known
<1>2. TokenOf(j) = t
  BY <1>1, TokenOfIs
<1>3. t \in B!Token
  BY DEF TypeOK, B!TypeOK
<1>4. QED
  BY <1>1, <1>2, <1>3, RefreshAssumption DEF B!Token, Gen

\* Generations tell pairs apart.
LEMMA ByGeneration ==
  ASSUME TypeOK, Backend, NEW j, NEW k, Known(j), Known(k), Gen(j) = Gen(k)
  PROVE  j = k
BY KnownPair DEF Backend

LEMMA SamePairs ==
  ASSUME tokens' = tokens
  PROVE  \A j : /\ Known(j)' <=> Known(j)
                /\ TokenOf(j)' = TokenOf(j) /\ Gen(j)' = Gen(j)
                /\ Newest(j)' <=> Newest(j)
<1>1. \A j : TokenOf(j)' = TokenOf(j)
  BY DEF TokenOf
<1>2. \A j : Gen(j)' = Gen(j)
  BY <1>1 DEF Gen
<1>3. QED
  BY <1>1, <1>2 DEF Known, Newest

\* A pair keeps its generation when others are issued.
LEMMA MorePairs ==
  ASSUME Backend, Backend', tokens \subseteq tokens', NEW j, Known(j)
  PROVE  Known(j)' /\ TokenOf(j)' = TokenOf(j) /\ Gen(j)' = Gen(j)
<1>1. PICK t \in tokens : t.jti = j
  BY DEF Known
<1>2. TokenOf(j) = t
  BY <1>1, TokenOfIs
<1>3. t \in tokens' /\ Known(j)'
  BY <1>1 DEF Known
<1>4. \E u \in tokens' : u.jti = j
  BY <1>1, <1>3
<1>5. TokenOf(j)' \in tokens' /\ TokenOf(j)'.jti = j
  BY <1>4, Zenon DEF TokenOf
<1>6. TokenOf(j)' = t
  BY <1>1, <1>3, <1>5 DEF Backend
<1>7. QED
  BY <1>2, <1>3, <1>6 DEF Gen

-----------------------------------------------------------------------------
(* The backend *)

LEMMA BackTypes ==
  /\ B!NoSession \in B!Session /\ B!NoRequest \in B!Request
  /\ [version |-> 1, status |-> "active", verified |-> TRUE] \in B!User
  /\ B!Token \subseteq B!Credential
BY RefreshAssumption
   DEF B!NoSession, B!Session, B!Scope, B!NoRequest, B!Request, B!Unread, B!User, B!Status,
       B!NoCredential, B!Credential, B!Places, B!Tasks, B!Token

\* Rows of sessions change by being revoked or expiring only.
Marked ==
  /\ UNCHANGED <<user, tokens, signup, resets, torn>> /\ reported' \subseteq Sids
  /\ sessions' \in [Sids -> B!Session]
  /\ \A s \in Sids :
       /\ sessions'[s].made = sessions[s].made /\ sessions'[s].version = sessions[s].version
       /\ sessions'[s].gen = sessions[s].gen /\ sessions'[s].jti = sessions[s].jti
       /\ sessions'[s].scope = sessions[s].scope
       /\ sessions[s].revoked => sessions'[s].revoked
       /\ sessions[s].expired => sessions'[s].expired

LEMMA MarkedKeeps ==
  ASSUME TypeOK, Backend, Marked, req' \in [Requests -> B!Request]
  PROVE  B!TypeOK' /\ Backend' /\ (Over => Over') /\ tokens' = tokens
<1>1. \A t \in tokens : t.sid \in Sids
  BY DEF TypeOK, B!TypeOK, B!Token
<1>2. B!TypeOK'
  BY <1>1 DEF TypeOK, B!TypeOK, B!Made, Marked
<1>3. Backend'
  BY <1>1 DEF Backend, Marked
<1>4. QED
  BY <1>2, <1>3 DEF Marked, Over

\* One row gets another mark.
LEMMA MarkOne ==
  ASSUME TypeOK, NEW s \in Sids,
         \/ sessions' = [sessions EXCEPT ![s].revoked = TRUE]
         \/ sessions' = [sessions EXCEPT ![s].expired = TRUE],
         UNCHANGED <<user, tokens, signup, resets, torn>>, reported' \subseteq Sids
  PROVE  Marked
<1>1. sessions \in [Sids -> B!Session]
  BY DEF TypeOK, B!TypeOK
<1>2. [sessions[s] EXCEPT !.revoked = TRUE] \in B!Session
  BY <1>1 DEF B!Session
<1>3. [sessions[s] EXCEPT !.expired = TRUE] \in B!Session
  BY <1>1 DEF B!Session
<1>4. CASE sessions' = [sessions EXCEPT ![s].revoked = TRUE]
  <2>1. sessions' = [sessions EXCEPT ![s] = [sessions[s] EXCEPT !.revoked = TRUE]]
    BY <1>4
  <2>2. sessions' \in [Sids -> B!Session]
    BY <1>1, <1>2, <2>1
  <2>3. sessions'[s] = [sessions[s] EXCEPT !.revoked = TRUE]
    BY <1>1, <2>1
  <2>4. \A z \in Sids \ {s} : sessions'[z] = sessions[z]
    BY <1>1, <2>1
  <2>5. QED
    BY <1>1, <2>2, <2>3, <2>4 DEF Marked, B!Session
<1>5. CASE sessions' = [sessions EXCEPT ![s].expired = TRUE]
  <2>1. sessions' = [sessions EXCEPT ![s] = [sessions[s] EXCEPT !.expired = TRUE]]
    BY <1>5
  <2>2. sessions' \in [Sids -> B!Session]
    BY <1>1, <1>3, <2>1
  <2>3. sessions'[s] = [sessions[s] EXCEPT !.expired = TRUE]
    BY <1>1, <2>1
  <2>4. \A z \in Sids \ {s} : sessions'[z] = sessions[z]
    BY <1>1, <2>1
  <2>5. QED
    BY <1>1, <2>2, <2>3, <2>4 DEF Marked, B!Session
<1>6. QED
  BY <1>4, <1>5

\* A rotation in the backend ends: the request is idle again, and no other is at work.
LEMMA RequestEnds ==
  ASSUME TypeOK, NEW r \in Requests, B!Ends(r)
  PROVE  /\ req' \in [Requests -> B!Request] /\ req'[r].at = "idle"
         /\ \A q \in Requests \ {r} : req'[q] = req[q]
<1>1. req \in [Requests -> B!Request]
  BY DEF TypeOK, B!TypeOK
<1>2. B!NoRequest.at = "idle"
  BY DEF B!NoRequest
<1>3. QED
  BY <1>1, <1>2, BackTypes DEF B!Ends

\* The answer to a call leaves no call waiting for it.
LEMMA AnsweredCall ==
  ASSUME TypeOK, NEW r \in Requests, NEW state \in {"ok", "refused"}, NEW j \in Pair,
         calls[r].state \in {"waiting", "gone"}, Answered(r, state, j)
  PROVE  /\ calls' \in [Requests -> [state : {"none", "waiting", "ok", "refused", "gone"},
                                     of : Pair, to : Pair]]
         /\ calls[r].state = "waiting" =>
              calls'[r].state = state /\ calls'[r].of = calls[r].of /\ calls'[r].to = j
         /\ calls[r].state = "gone" => calls'[r] = NoCall
         /\ \A q \in Requests \ {r} : calls'[q] = calls[q]
<1> DEFINE C == [state : {"none", "waiting", "ok", "refused", "gone"}, of : Pair, to : Pair]
<1>1. calls \in [Requests -> C]
  BY DEF TypeOK
<1>2. NoCall \in C
  BY DEF NoCall, None, Pair
<1>3. CASE calls[r].state = "waiting"
  <2> DEFINE c == [calls[r] EXCEPT !.state = state, !.to = j]
  <2>1. c \in C /\ c.state = state /\ c.of = calls[r].of /\ c.to = j
    BY <1>1
  <2>2. calls' = [calls EXCEPT ![r] = c]
    BY <1>3 DEF Answered
  <2> HIDE DEF c
  <2>3. QED
    BY <1>1, <1>3, <2>1, <2>2
<1>4. CASE calls[r].state = "gone"
  <2>1. calls' = [calls EXCEPT ![r] = NoCall]
    BY <1>4 DEF Answered
  <2>2. QED
    BY <1>1, <1>2, <1>4, <2>1
<1>5. QED
  BY <1>3, <1>4

LEMMA NoCallState == NoCall.state = "none" /\ NoCall.of = "none" /\ NoCall.to = "none"
BY DEF NoCall, None

\* When a rotation ends, nobody holds the lock.
LEMMA LockReleased ==
  ASSUME TypeOK, Lock, NEW r \in Requests, req[r].at = "rotate", B!Ends(r),
         NEW state \in {"ok", "refused"}, NEW j \in Pair, Answered(r, state, j)
  PROVE  Lock'
<1>1. calls[r].state \in {"waiting", "gone"} /\ \A q \in Requests \ {r} : req[q].at # "rotate"
  BY DEF Lock
<1>2. \A q \in Requests : req'[q].at # "rotate"
  BY <1>1, RequestEnds
<1>3. calls'[r].state \notin {"waiting", "gone"}
  <2>1. CASE calls[r].state = "waiting"
    BY <2>1, AnsweredCall
  <2>2. CASE calls[r].state = "gone"
    BY <2>2, AnsweredCall, NoCallState
  <2>3. QED
    BY <1>1, <2>1, <2>2
<1>4. \A q \in Requests \ {r} : calls'[q].state \notin {"waiting", "gone"}
  BY <1>1, AnsweredCall DEF Lock
<1>5. QED
  BY <1>2, <1>3, <1>4 DEF Lock

\* A rotation that commits adds the newest pair to the chain.
LEMMA Rotation ==
  ASSUME TypeOK, Backend, Lock, NEW r \in Requests, Rotate(r)
  PROVE  \E j \in Jtis, g \in Nat, s \in Sids :
           /\ req[r].at = "rotate" /\ B!Ends(r) /\ Answered(r, "ok", j) /\ ~Known(j)
           /\ \A t \in tokens : t.gen <= g /\ t.sid = s
           /\ calls[r].of = req[r].cred.jti /\ req[r].cred.gen = g /\ req[r].cred \in tokens
           /\ tokens' = tokens \union {[sid |-> s, gen |-> g + 1, jti |-> j]}
           /\ sessions' \in [Sids -> B!Session] /\ sessions'[s].made
           /\ sessions'[s].gen = g + 1 /\ sessions'[s].jti = j
           /\ sessions'[s].version = sessions[s].version
           /\ sessions'[s].revoked = sessions[s].revoked
           /\ sessions'[s].expired = sessions[s].expired
           /\ \A z \in Sids \ {s} : sessions'[z] = sessions[z]
           /\ UNCHANGED <<user, signup, resets, reported, torn>>
<1>1. /\ req[r].at = "rotate" /\ B!Current(req[r].cred, req[r].row) /\ B!Ends(r)
      /\ B!IssuePair(req[r].cred.sid, [sessions[req[r].cred.sid] EXCEPT !.gen = req[r].row.gen + 1])
      /\ UNCHANGED <<user, signup, resets, reported, torn>>
  BY DEF Rotate, B!Rotated, B!At
<1>2. PICK c \in tokens : c = req[r].cred
  BY <1>1 DEF Lock
<1>3. PICK s \in Sids : s = c.sid
  BY DEF TypeOK, B!TypeOK, B!Token
<1>4. PICK g \in Nat : g = c.gen
  BY DEF TypeOK, B!TypeOK, B!Token
<1>5. /\ req[r].row.gen = g /\ sessions[s].gen = g /\ sessions[s].made
      /\ \A t \in tokens : t.gen <= g /\ t.sid = s
      /\ calls[r].of = c.jti
  <2>1. Reads(req[r].row, s) /\ calls[r].of = c.jti
    BY <1>1, <1>2, <1>3 DEF Lock
  <2>2. req[r].row.gen = g
    BY <1>1, <1>2, <1>4 DEF B!Current
  <2>3. sessions[s].gen = g
    BY <2>1, <2>2 DEF Reads
  <2>4. \A t \in tokens : t.sid = s
    BY <1>3 DEF Backend
  <2>5. \A t \in tokens : t.gen <= g
    BY <2>3, <2>4 DEF Backend
  <2>6. sessions[s].made
    BY <1>3 DEF TypeOK, B!TypeOK, B!Made
  <2>7. QED
    BY <2>1, <2>2, <2>3, <2>4, <2>5, <2>6
<1> DEFINE new == [sessions[s] EXCEPT !.gen = g + 1]
<1>6. sessions \in [Sids -> B!Session] /\ sessions[s] \in B!Session
  BY DEF TypeOK, B!TypeOK
<1>7. /\ new \in B!Session /\ new.gen = g + 1 /\ new.made = sessions[s].made
      /\ new.version = sessions[s].version /\ new.revoked = sessions[s].revoked
      /\ new.expired = sessions[s].expired
  BY <1>6 DEF B!Session
<1>8. B!IssuePair(s, new)
  BY <1>1, <1>2, <1>3, <1>5
<1> HIDE DEF new
<1>9. PICK j \in Jtis :
        /\ \A t \in tokens : t.jti # j
        /\ sessions' = [sessions EXCEPT ![s] = [new EXCEPT !.jti = j]]
        /\ tokens' = tokens \union {[sid |-> s, gen |-> g + 1, jti |-> j]}
  BY <1>7, <1>8 DEF B!IssuePair
<1> DEFINE row == [new EXCEPT !.jti = j]
<1>10. /\ row \in B!Session /\ row.gen = g + 1 /\ row.jti = j /\ row.made = new.made
       /\ row.version = new.version /\ row.revoked = new.revoked /\ row.expired = new.expired
  BY <1>7 DEF B!Session
<1> HIDE DEF row
<1>11. /\ sessions' \in [Sids -> B!Session] /\ sessions'[s] = row
       /\ \A z \in Sids \ {s} : sessions'[z] = sessions[z]
  BY <1>6, <1>9, <1>10 DEF row
<1>12. Answered(r, "ok", j)
  <2>1. PICK t \in tokens' \ tokens : Answered(r, "ok", t.jti)
    BY DEF Rotate
  <2>2. t.jti = j
    BY <1>9, <2>1
  <2>3. QED
    BY <2>1, <2>2
<1>13. ~Known(j)
  BY <1>9 DEF Known
<1>14. /\ sessions'[s].made /\ sessions'[s].gen = g + 1 /\ sessions'[s].jti = j
       /\ sessions'[s].version = sessions[s].version
       /\ sessions'[s].revoked = sessions[s].revoked
       /\ sessions'[s].expired = sessions[s].expired
  BY <1>5, <1>7, <1>10, <1>11
<1>15. /\ calls[r].of = req[r].cred.jti /\ req[r].cred.gen = g /\ req[r].cred \in tokens
  BY <1>2, <1>4, <1>5
<1>16. QED
  BY <1>1, <1>5, <1>9, <1>11, <1>12, <1>13, <1>14, <1>15

\* The steps of the backend, and of calls as far as the backend knows of them.
CallsKept ==
  \A r \in Requests :
    /\ calls'[r].state \in {"waiting", "gone"} <=> calls[r].state \in {"waiting", "gone"}
    /\ calls[r].state \in {"waiting", "gone"} => calls'[r].of = calls[r].of

LEMMA BackendSame ==
  ASSUME TypeOK, Backend, Lock, UNCHANGED backend, CallsKept
  PROVE  B!TypeOK' /\ Backend' /\ Lock' /\ (Over => Over') /\ tokens \subseteq tokens'
<1> USE DEF backend
<1>1. B!TypeOK'
  BY DEF TypeOK, B!TypeOK, B!Made
<1>2. Backend'
  BY DEF Backend
<1>3. Lock'
  BY DEF Lock, CallsKept, Reads
<1>4. QED
  BY <1>1, <1>2, <1>3 DEF Over

BackKept == B!TypeOK' /\ Backend' /\ Lock' /\ (Over => Over') /\ tokens \subseteq tokens'

LEMMA CallBack ==
  ASSUME TypeOK, Backend, Lock, Held, NEW p \in Pages, NEW r \in Requests, Call(p, r)
  PROVE  /\ BackKept /\ tokens' = tokens
         /\ calls'[r] = [state |-> "waiting", of |-> pages[p].tok, to |-> None]
         /\ \A q \in Requests \ {r} : calls'[q] = calls[q]
<1>1. PICK j : j = pages[p].tok
  OBVIOUS
<1>2. Known(j)
  BY <1>1 DEF Call, Refreshes, Held, Carries
<1>3. PICK t \in tokens : t = TokenOf(j) /\ t.jti = j
  BY <1>2, KnownPair
<1>4. /\ req' = [req EXCEPT ![r] = [at |-> "rotate", does |-> "none", cred |-> t,
                                    row |-> sessions[t.sid], seen |-> user]]
      /\ ~B!Locked(t.sid) /\ UNCHANGED <<user, sessions, tokens, signup, resets, reported, torn>>
      /\ calls' = [calls EXCEPT ![r] = [state |-> "waiting", of |-> j, to |-> None]]
  BY <1>1, <1>3 DEF Call, B!Rotate
<1> DEFINE x == [at |-> "rotate", does |-> "none", cred |-> t,
                 row |-> sessions[t.sid], seen |-> user]
<1>5. x \in B!Request
  BY BackTypes DEF TypeOK, B!TypeOK, B!Token, B!Request, B!Places, B!Tasks
<1>6. /\ x.at = "rotate" /\ x.cred = t /\ x.row = sessions[t.sid] /\ x.seen = user
      /\ req' = [req EXCEPT ![r] = x]
  BY <1>4
<1> HIDE DEF x
<1>7. /\ req' \in [Requests -> B!Request] /\ req'[r] = x
      /\ \A q \in Requests \ {r} : req'[q] = req[q]
  BY <1>5, <1>6 DEF TypeOK, B!TypeOK
<1>8. /\ calls'[r] = [state |-> "waiting", of |-> j, to |-> None]
      /\ \A q \in Requests \ {r} : calls'[q] = calls[q]
  BY <1>4 DEF TypeOK
<1>9. \A q \in Requests : req[q].at # "rotate"
  BY <1>4 DEF B!Locked, Lock, Backend
<1>10. \A q \in Requests \ {r} :
         req'[q].at # "rotate" /\ calls'[q].state \notin {"waiting", "gone"}
  BY <1>7, <1>8, <1>9 DEF Lock
<1>11. Reads(req[r].row, req[r].cred.sid)'
  BY <1>4, <1>6, <1>7 DEF Reads
<1>12. Lock'
  <2>1. /\ calls'[r].state = "waiting" /\ calls'[r].of = j
        /\ req'[r].at = "rotate" /\ req'[r].cred \in tokens' /\ req'[r].cred.jti = j
        /\ req'[r].seen = user'
    BY <1>3, <1>4, <1>6, <1>7, <1>8
  <2>2. QED
    BY <1>10, <1>11, <2>1 DEF Lock
<1>13. B!TypeOK' /\ Backend' /\ (Over => Over')
  BY <1>4, <1>7 DEF TypeOK, B!TypeOK, B!Made, Backend, Over
<1>14. QED
  BY <1>1, <1>4, <1>8, <1>12, <1>13 DEF BackKept

LEMMA RotateBack ==
  ASSUME TypeOK, Backend, Lock, NEW r \in Requests, Rotate(r)
  PROVE  BackKept
<1>1. PICK j \in Jtis, g \in Nat, s \in Sids :
        /\ req[r].at = "rotate" /\ B!Ends(r) /\ Answered(r, "ok", j) /\ ~Known(j)
        /\ \A t \in tokens : t.gen <= g /\ t.sid = s
        /\ tokens' = tokens \union {[sid |-> s, gen |-> g + 1, jti |-> j]}
        /\ sessions' \in [Sids -> B!Session] /\ sessions'[s].made
        /\ sessions'[s].gen = g + 1 /\ sessions'[s].jti = j
        /\ sessions'[s].version = sessions[s].version
        /\ sessions'[s].revoked = sessions[s].revoked
        /\ sessions'[s].expired = sessions[s].expired
        /\ \A z \in Sids \ {s} : sessions'[z] = sessions[z]
        /\ UNCHANGED <<user, signup, resets, reported, torn>>
  BY Rotation
<1>2. PICK new : new = [sid |-> s, gen |-> g + 1, jti |-> j]
  OBVIOUS
<1>3. /\ new.sid = s /\ new.gen = g + 1 /\ new.jti = j /\ new \in B!Token
      /\ tokens' = tokens \union {new}
  BY <1>1, <1>2 DEF B!Token
<1>4. tokens \subseteq B!Token /\ \A t \in tokens : t.gen \in Nat
  BY DEF TypeOK, B!TypeOK, B!Token
<1>5. B!TypeOK'
  <2>1. \A t \in tokens' : t.sid = s
    BY <1>1, <1>3
  <2>2. req' \in [Requests -> B!Request]
    BY <1>1, RequestEnds
  <2>3. QED
    BY <1>1, <1>3, <1>4, <2>1, <2>2 DEF TypeOK, B!TypeOK, B!Made
<1>6. Backend'
  <2>1. \A t \in tokens : t.jti # j /\ t.gen < new.gen
    BY <1>1, <1>3, <1>4 DEF Known
  <2>2. \A t, u \in tokens' : t.sid = u.sid /\ (t.jti = u.jti \/ t.gen = u.gen => t = u)
    BY <1>1, <1>3, <1>4, <2>1 DEF Backend
  <2>3. \A t \in tokens' : t.sid = s /\ t.gen <= sessions'[s].gen
    BY <1>1, <1>3, <1>4, <2>1
  <2>4. [sid |-> s, gen |-> sessions'[s].gen, jti |-> sessions'[s].jti] = new
    BY <1>1, <1>2
  <2>5. \A z \in Sids : sessions'[z].version = 1
    BY <1>1 DEF Backend
  <2>6. user' = [version |-> 1, status |-> "active", verified |-> TRUE]
    BY <1>1 DEF Backend
  <2>7. QED
    BY <1>3, <2>2, <2>3, <2>4, <2>5, <2>6 DEF Backend
<1>7. Lock'
  <2>1. j \in Pair
    BY DEF Pair
  <2>2. QED
    BY <1>1, <2>1, LockReleased
<1>8. Over => Over'
  BY <1>1 DEF Over
<1>9. QED
  BY <1>3, <1>5, <1>6, <1>7, <1>8 DEF BackKept

LEMMA RefuseBack ==
  ASSUME TypeOK, Backend, Lock, NEW r \in Requests, Refuse(r)
  PROVE  /\ BackKept /\ tokens' = tokens /\ req[r].at = "rotate" /\ Over'
         /\ Answered(r, "refused", None)
<1>1. PICK c \in tokens : c = req[r].cred
  BY DEF Refuse, B!Reused, B!Rejected, B!At, Lock
<1>2. PICK s \in Sids : s = c.sid
  BY DEF TypeOK, B!TypeOK, B!Token
<1>3. req[r].at = "rotate" /\ B!Ends(r) /\ Answered(r, "refused", None)
  BY DEF Refuse, B!Reused, B!Rejected, B!At
<1>4. sessions \in [Sids -> B!Session] /\ reported \subseteq Sids
  BY DEF TypeOK, B!TypeOK
<1>5. Marked /\ Over'
  <2>1. CASE B!Reused(r)
    <3>1. /\ sessions' = [sessions EXCEPT ![s].revoked = TRUE]
          /\ reported' = reported \union {s}
          /\ UNCHANGED <<user, tokens, signup, resets, torn>>
      BY <1>1, <1>2, <2>1 DEF B!Reused
    <3>2. Marked
      BY <1>4, <3>1, MarkOne
    <3>3. sessions'[s].revoked
      BY <1>4, <3>1 DEF B!Session
    <3>4. QED
      BY <3>2, <3>3 DEF Over
  <2>2. CASE B!Rejected(r)
    <3>1. UNCHANGED <<user, sessions, tokens, signup, resets, reported, torn>>
      BY <2>2 DEF B!Rejected
    <3>2. ~B!Valid(user, req[r].row) /\ Reads(req[r].row, s)
      BY <1>1, <1>2, <1>3, <2>2 DEF B!Rejected, Lock
    <3>3. B!Eligible(user, req[r].row.scope = "phone_onboarding")
      BY DEF Backend, B!Eligible
    <3>4. req[r].row.version = user.version
      BY <3>2 DEF Reads, Backend
    <3>5. req[r].row.revoked \/ req[r].row.expired
      BY <3>2, <3>3, <3>4 DEF B!Valid
    <3>6. sessions[s].revoked \/ sessions[s].expired
      BY <3>2, <3>5 DEF Reads
    <3>7. QED
      BY <1>4, <3>1, <3>6 DEF Marked, Over
  <2>3. QED
    BY <2>1, <2>2 DEF Refuse
<1>6. None \in Pair
  BY DEF None, Pair
<1>7. Lock'
  BY <1>3, <1>6, LockReleased
<1>8. QED
  BY <1>3, <1>5, <1>7, MarkedKeeps, RequestEnds DEF BackKept

LEMMA BreakBack ==
  ASSUME TypeOK, Backend, Lock, Smooth, NEW r \in Requests, Break(r)
  PROVE  /\ BackKept /\ tokens' = tokens /\ req[r].at = "rotate"
         /\ Answered(r, "refused", None) /\ slipped'
<1>1. /\ req[r].at = "rotate" /\ B!Ends(r) /\ Answered(r, "refused", None)
      /\ UNCHANGED <<user, sessions, tokens, signup, resets, reported, torn>>
  BY DEF Break
<1>2. Marked
  BY <1>1 DEF Marked, TypeOK, B!TypeOK
<1>3. None \in Pair
  BY DEF None, Pair
<1>4. Lock'
  BY <1>1, <1>3, LockReleased
<1>5. slipped'
  <2>1. CASE calls[r].state = "gone"
    BY <2>1 DEF Break, Smooth, Flight
  <2>2. CASE calls[r].state # "gone"
    BY <2>2 DEF Break, Slip
  <2>3. QED
    BY <2>1, <2>2
<1>6. QED
  BY <1>1, <1>2, <1>4, <1>5, MarkedKeeps, RequestEnds DEF BackKept

LEMMA TimeBack ==
  ASSUME TypeOK, Backend, Lock, Expire \/ Revoke
  PROVE  BackKept /\ tokens' = tokens
<1>1. CASE Expire
  <2>1. PICK s \in Sids : B!Expire(s)
    BY <1>1 DEF Expire
  <2>2. Marked /\ UNCHANGED <<req, calls>>
    BY <1>1, <2>1, MarkOne DEF Expire, B!Expire, front, TypeOK, B!TypeOK
  <2>3. Lock'
    <3>1. \A r \in Requests : req[r].at = "rotate" => req[r].cred.sid \in Sids
      BY DEF Lock, TypeOK, B!TypeOK, B!Token
    <3>2. \A z \in Sids : sessions'[z].revoked = sessions[z].revoked
      BY <2>1 DEF B!Expire, TypeOK, B!TypeOK, B!Session
    <3>3. QED
      BY <2>2, <3>1, <3>2 DEF Lock, Reads, Marked
  <2>4. QED
    BY <2>2, <2>3, MarkedKeeps DEF BackKept, TypeOK, B!TypeOK
<1>2. CASE Revoke
  <2>1. PICK t \in tokens : B!Logout(t)
    BY <1>2 DEF Revoke
  <2>2. PICK s \in Sids : s = t.sid
    BY DEF TypeOK, B!TypeOK, B!Token
  <2>3. Marked /\ UNCHANGED <<req, calls>>
    BY <1>2, <2>1, <2>2, MarkOne DEF Revoke, B!Logout, front, TypeOK, B!TypeOK
  <2>4. \A r \in Requests : req[r].at # "rotate"
    BY <2>1 DEF B!Logout, B!Locked, Lock, Backend
  <2>5. Lock'
    BY <2>3, <2>4 DEF Lock
  <2>6. QED
    BY <2>3, <2>5, MarkedKeeps DEF BackKept, TypeOK, B!TypeOK
<1>3. QED
  BY <1>1, <1>2

-----------------------------------------------------------------------------
(* The frontend *)

PageType == [at : {"idle", "sent", "waiting", "reply"}, tok : Pair \union {"expired"},
             must : BOOLEAN]
EntryType == [state : {"none", "pending", "ok", "refused"}, to : Pair]
CallType == [state : {"none", "waiting", "ok", "refused", "gone"}, of : Pair, to : Pair]

FrontOK ==
  /\ cookie \in Jtis \union {"expired"} /\ pages \in [Pages -> PageType]
  /\ rotations \in [Jtis -> EntryType] /\ calls \in [Requests -> CallType]
  /\ losses \in 0 .. MaxLosses /\ slipped \in BOOLEAN /\ old \subseteq {t.jti : t \in tokens}

LEMMA FrontTyped == TypeOK <=> B!TypeOK /\ FrontOK
BY DEF TypeOK, FrontOK, PageType, EntryType, CallType

FrontKept == FrontOK' /\ Held' /\ Order' /\ Cause' /\ Smooth'

LEMMA Records ==
  /\ NoPage \in PageType /\ NoEntry \in EntryType /\ NoCall \in CallType
  /\ NoPage.at = "idle" /\ NoEntry.state = "none" /\ NoCall.state = "none"
BY DEF NoPage, NoEntry, NoCall, None, Pair, PageType, EntryType, CallType

LEMMA Slipping ==
  ASSUME TypeOK, Slip
  PROVE  losses' \in 0 .. MaxLosses /\ slipped' = TRUE
BY RefreshAssumption DEF Slip, TypeOK

LEMMA PageReplied ==
  ASSUME TypeOK, NEW p \in Pages, NEW j \in Pair \union {"expired"},
         pages' = [pages EXCEPT ![p] = Replied(pages[p], j)]
  PROVE  /\ pages' \in [Pages -> PageType] /\ pages'[p].at = "reply" /\ pages'[p].tok = j
         /\ \A q \in Pages \ {p} : pages'[q] = pages[q]
<1>1. pages \in [Pages -> PageType] /\ pages[p] \in PageType
  BY FrontTyped DEF FrontOK
<1> DEFINE x == Replied(pages[p], j)
<1>2. x \in PageType /\ x.at = "reply" /\ x.tok = j
  BY <1>1 DEF Replied, PageType
<1> HIDE DEF x
<1>3. pages' = [pages EXCEPT ![p] = x]
  BY DEF x
<1>4. QED
  BY <1>1, <1>2, <1>3

\* A page waits for a rotation.
LEMMA PageWaits ==
  ASSUME TypeOK, NEW p \in Pages, pages' = [pages EXCEPT ![p] = [pages[p] EXCEPT !.at = "waiting"]]
  PROVE  /\ pages' \in [Pages -> PageType]
         /\ pages'[p].at = "waiting" /\ pages'[p].tok = pages[p].tok
         /\ \A q \in Pages \ {p} : pages'[q] = pages[q]
<1>1. pages \in [Pages -> PageType] /\ pages[p] \in PageType
  BY FrontTyped DEF FrontOK
<1> DEFINE x == [pages[p] EXCEPT !.at = "waiting"]
<1>2. x \in PageType /\ x.at = "waiting" /\ x.tok = pages[p].tok
  BY <1>1 DEF PageType
<1> HIDE DEF x
<1>3. pages' = [pages EXCEPT ![p] = x]
  BY DEF x
<1>4. QED
  BY <1>1, <1>2, <1>3

\* An entry of the Map is replaced.
LEMMA EntrySet ==
  ASSUME TypeOK, NEW j \in Jtis, NEW e \in EntryType, rotations' = [rotations EXCEPT ![j] = e]
  PROVE  /\ rotations' \in [Jtis -> EntryType] /\ rotations'[j] = e
         /\ \A i \in Jtis \ {j} : rotations'[i] = rotations[i]
BY FrontTyped DEF FrontOK

\* The pages that are woken, with the pair they get.
Waits(p, j) == pages[p].at = "waiting" /\ pages[p].tok = j
LEMMA WokenPages ==
  ASSUME TypeOK, NEW j, NEW to \in Pair \union {"expired"}, pages' = Woken(j, to)
  PROVE  /\ pages' \in [Pages -> PageType]
         /\ \A p \in Pages : Waits(p, j) =>
              /\ pages'[p].at = "reply" /\ pages'[p].tok \in {to, "expired"}
              /\ to # j => pages'[p].tok = to
         /\ \A p \in Pages : ~Waits(p, j) => pages'[p] = pages[p]
<1>1. \A p \in Pages : pages[p] \in PageType
  BY FrontTyped DEF FrontOK
<1>2. \A p \in Pages, k \in Pair \union {"expired"} :
        /\ Replied(pages[p], k) \in PageType
        /\ Replied(pages[p], k).at = "reply" /\ Replied(pages[p], k).tok = k
  BY <1>1 DEF Replied, PageType
<1> DEFINE k(p) == IF to = j /\ pages[p].must THEN "expired" ELSE to
<1>3. pages' = [p \in Pages |-> IF Waits(p, j) THEN Replied(pages[p], k(p)) ELSE pages[p]]
  BY DEF Woken, Waits
<1>4. \A p \in Pages : k(p) \in {to, "expired"} /\ k(p) \in Pair \union {"expired"}
                       /\ (to # j => k(p) = to)
  OBVIOUS
<1> HIDE DEF k
<1>5. \A p \in Pages :
        pages'[p] = IF Waits(p, j) THEN Replied(pages[p], k(p)) ELSE pages[p]
  BY <1>3, Zenon
<1>6. \A p \in Pages : Waits(p, j) =>
        /\ pages'[p] \in PageType
        /\ pages'[p].at = "reply" /\ pages'[p].tok \in {to, "expired"}
        /\ to # j => pages'[p].tok = to
  BY <1>2, <1>4, <1>5
<1>7. \A p \in Pages : ~Waits(p, j) => pages'[p] = pages[p]
  BY <1>5
<1>8. pages' = [p \in Pages |-> pages'[p]]
  BY <1>3, Zenon
<1>9. pages' \in [Pages -> PageType]
  BY <1>1, <1>6, <1>7, <1>8
<1>10. QED
  BY <1>6, <1>7, <1>9

\* Steps that replace no pair and do not touch the cookie.
LEMMA SmoothSame ==
  ASSUME RefreshInv, tokens' = tokens, cookie' = cookie,
         \/ slipped'
         \/ /\ ~slipped /\ reported' = reported /\ Flight' /\ Owed'
            /\ \A j \in Jtis : InUse(j)' => InUse(j)
            /\ \A j \in Jtis : Done(j) /\ InUse(j)' => Done(j)'
  PROVE  Smooth'
<1>1. CASE slipped'
  BY <1>1 DEF Smooth
<1>2. CASE ~slipped'
  <2>1. Flight /\ Fresh /\ Reach /\ Owed /\ reported = {}
    BY <1>2 DEF RefreshInv, Smooth
  <2>2. Fresh'
    <3>1. \A j : Newest(j)' <=> Newest(j)
      BY SamePairs
    <3>2. QED
      BY <1>2, <2>1, <3>1 DEF Fresh
  <2>3. Reach'
    <3>1. \A j : Gen(j)' = Gen(j)
      BY SamePairs
    <3>2. QED
      BY <1>2, <2>1, <3>1 DEF Reach
  <2>4. QED
    BY <1>2, <2>1, <2>2, <2>3 DEF Smooth
<1>3. QED
  BY <1>1, <1>2

LEMMA OrderSame ==
  ASSUME Order, tokens' = tokens, \A j, k \in Jtis : Became(j, k)' => Became(j, k)
  PROVE  Order'
<1>1. \A j : (Known(j)' <=> Known(j)) /\ Gen(j)' = Gen(j)
  BY SamePairs
<1>2. QED
  BY <1>1 DEF Order, Follows

-----------------------------------------------------------------------------
(* The steps of the frontend *)

LEMMA SendStep ==
  ASSUME RefreshInv, NEW p \in Pages, NEW must \in BOOLEAN, Send(p, must)
  PROVE  FrontKept
<1> USE DEF RefreshInv
<1>1. /\ pages[p].at = "idle" /\ cookie \in Jtis
      /\ pages' = [pages EXCEPT ![p] = [at |-> "sent", tok |-> cookie, must |-> must]]
      /\ UNCHANGED <<cookie, old, rotations, calls, losses, slipped, tokens, sessions, reported>>
  BY DEF Send, backend
<1>2. [at |-> "sent", tok |-> cookie, must |-> must] \in PageType
  BY <1>1 DEF PageType, Pair
<1>3. /\ pages' \in [Pages -> PageType] /\ pages'[p].at = "sent" /\ pages'[p].tok = cookie
      /\ \A q \in Pages \ {p} : pages'[q] = pages[q]
  BY <1>1, <1>2, FrontTyped DEF FrontOK
<1>4. FrontOK'
  BY <1>1, <1>3, FrontTyped DEF FrontOK
<1>5. Held'
  BY <1>1, <1>3, RefreshAssumption DEF Held, Carries, Known
<1>6. Order'
  BY <1>1, OrderSame DEF Became
<1>7. Cause'
  BY <1>1, <1>3 DEF Cause, Over
<1>8. Smooth'
  <2>1. \A j \in Jtis : (InUse(j)' => InUse(j)) /\ (Done(j) => Done(j)')
    BY <1>1, <1>3 DEF InUse, Done, Carries
  <2>2. Flight => Flight'
    BY <1>1, <1>3 DEF Flight
  <2>3. Owed => Owed'
    BY <1>1, <1>3 DEF Owed
  <2>4. QED
    BY <1>1, <2>1, <2>2, <2>3, SmoothSame DEF Smooth
<1>9. QED
  BY <1>4, <1>5, <1>6, <1>7, <1>8 DEF FrontKept

\* The callback answers at once, without a rotation: with a pair of the backend, or
\* "expired" for a cause.
LEMMA ReplyStep ==
  ASSUME RefreshInv, NEW p \in Pages, NEW j \in Pair \union {"expired"},
         Carries(p), pages[p].at = "sent", pages' = [pages EXCEPT ![p] = Replied(pages[p], j)],
         (Known(j) /\ j # "expired") \/ (j = "expired" /\ (slipped \/ Over)),
         UNCHANGED <<cookie, old, rotations, calls, losses, slipped, tokens, sessions, reported>>
  PROVE  FrontKept
<1> USE DEF RefreshInv
<1>1. /\ pages' \in [Pages -> PageType] /\ pages'[p].at = "reply" /\ pages'[p].tok = j
      /\ \A q \in Pages \ {p} : pages'[q] = pages[q]
  BY PageReplied
<1>2. FrontOK'
  BY <1>1, FrontTyped DEF FrontOK
<1>3. Held'
  BY <1>1 DEF Held, Carries, Known
<1>4. Order'
  BY OrderSame DEF Became
<1>5. Cause'
  BY <1>1 DEF Cause, Over
<1>6. Smooth'
  <2>1. \A i \in Jtis : (InUse(i)' => InUse(i)) /\ (Done(i) => Done(i)')
    BY <1>1 DEF InUse, Done, Carries
  <2>2. Flight => Flight'
    BY <1>1 DEF Flight
  <2>3. Owed => Owed'
    BY <1>1 DEF Owed
  <2>4. QED
    BY <2>1, <2>2, <2>3, SmoothSame DEF Smooth
<1>7. QED
  BY <1>2, <1>3, <1>4, <1>5, <1>6 DEF FrontKept

LEMMA KeepStep ==
  ASSUME RefreshInv, NEW p \in Pages, Keep(p)
  PROVE  FrontKept
<1>1. pages[p].at = "sent" /\ Carries(p) /\ Known(pages[p].tok)
  BY DEF Keep, RefreshInv, Held, Carries
<1>2. PICK j : j = pages[p].tok
  OBVIOUS
<1>3. j \in Jtis /\ j # "expired" /\ Known(j)
  <2>1. Known(j)
    BY <1>1, <1>2
  <2>2. QED
    BY <2>1, KnownPair DEF RefreshInv
<1>4. pages' = [pages EXCEPT ![p] = Replied(pages[p], j)]
  BY <1>2 DEF Keep
<1>5. UNCHANGED <<cookie, old, rotations, calls, losses, slipped, tokens, sessions, reported>>
  BY DEF Keep, backend
<1>6. j \in Pair \union {"expired"}
  BY <1>3 DEF Pair
<1>7. (Known(j) /\ j # "expired") \/ (j = "expired" /\ (slipped \/ Over))
  BY <1>3
<1>8. QED
  BY <1>1, <1>4, <1>5, <1>6, <1>7, ReplyStep

LEMMA JoinStep ==
  ASSUME RefreshInv, NEW p \in Pages, Join(p)
  PROVE  FrontKept
<1> USE DEF RefreshInv
<1>1. pages[p].at = "sent" /\ Carries(p) /\ Known(pages[p].tok)
  BY DEF Join, Refreshes, Held, Carries
<1>2. PICK j : j = pages[p].tok
  OBVIOUS
<1>3. j \in Jtis /\ Known(j)
  <2>1. Known(j)
    BY <1>1, <1>2
  <2>2. QED
    BY <2>1, KnownPair
<1>4. rotations[j] \in EntryType /\ rotations[j].state # "none"
  BY <1>2, <1>3, FrontTyped DEF FrontOK, Join
<1>5. UNCHANGED <<cookie, old, rotations, calls, losses, slipped, tokens, sessions, reported>>
  BY DEF Join, backend
<1>6. CASE rotations[j].state = "ok"
  <2>1. PICK k : k = rotations[j].to
    OBVIOUS
  <2>2. k \in Jtis /\ Known(k)
    BY <1>3, <1>6, <2>1 DEF Held, Order, Became, Follows
  <2>3. pages' = [pages EXCEPT ![p] = Replied(pages[p], k)]
    BY <1>2, <1>6, <2>1 DEF Join
  <2>4. k # "expired" /\ k \in Pair \union {"expired"}
    BY <2>2, RefreshAssumption DEF Pair
  <2>5. (Known(k) /\ k # "expired") \/ (k = "expired" /\ (slipped \/ Over))
    BY <2>2, <2>4
  <2>6. QED
    BY <1>1, <1>5, <2>3, <2>4, <2>5, ReplyStep
<1>7. CASE rotations[j].state = "refused"
  <2>1. pages' = [pages EXCEPT ![p] = Replied(pages[p], "expired")]
    BY <1>2, <1>7 DEF Join
  <2>2. slipped \/ Over
    BY <1>3, <1>7 DEF Cause
  <2>3. QED
    BY <1>1, <1>5, <2>1, <2>2, ReplyStep DEF Pair
<1>8. CASE rotations[j].state = "pending"
  <2>1. pages' = [pages EXCEPT ![p] = [pages[p] EXCEPT !.at = "waiting"]]
    BY <1>2, <1>8 DEF Join
  <2>2. /\ pages' \in [Pages -> PageType]
        /\ pages'[p].at = "waiting" /\ pages'[p].tok = j
        /\ \A q \in Pages \ {p} : pages'[q] = pages[q]
    BY <1>2, <2>1, PageWaits
  <2>3. FrontOK'
    BY <1>5, <2>2, FrontTyped DEF FrontOK
  <2>4. Held'
    BY <1>3, <1>5, <2>2 DEF Held, Carries, Known
  <2>5. Order'
    BY <1>5, OrderSame DEF Became
  <2>6. Cause'
    BY <1>5, <2>2 DEF Cause, Over
  <2>7. Smooth'
    <3>1. \A i \in Jtis : (InUse(i)' => InUse(i)) /\ (Done(i) => Done(i)')
      BY <1>1, <1>2, <1>5, <2>2 DEF InUse, Done, Carries
    <3>2. Flight => Flight'
      BY <1>1, <1>5, <1>8, <2>2 DEF Flight
    <3>3. Owed => Owed'
      BY <1>1, <1>5, <2>2 DEF Owed
    <3>4. QED
      BY <1>5, <3>1, <3>2, <3>3, SmoothSame DEF Smooth
  <2>8. QED
    BY <2>3, <2>4, <2>5, <2>6, <2>7 DEF FrontKept
<1>9. QED
  BY <1>4, <1>6, <1>7, <1>8 DEF EntryType

LEMMA CallStep ==
  ASSUME RefreshInv, NEW p \in Pages, NEW r \in Requests, Call(p, r), tokens' = tokens
  PROVE  FrontKept
<1> USE DEF RefreshInv
<1>1. /\ pages[p].at = "sent" /\ Carries(p) /\ Known(pages[p].tok)
      /\ calls[r].state = "none"
  BY Records DEF Call, Refreshes, Held, Carries
<1>2. PICK j : j = pages[p].tok
  OBVIOUS
<1>3. j \in Jtis /\ j # "expired" /\ Known(j)
  <2>1. Known(j)
    BY <1>1, <1>2
  <2>2. QED
    BY <2>1, KnownPair
<1>4. /\ UNCHANGED <<cookie, old, losses, slipped, sessions, reported>>
      /\ rotations[j].state = "none"
      /\ rotations' = [rotations EXCEPT ![j] = [state |-> "pending", to |-> None]]
      /\ pages' = [pages EXCEPT ![p] = [pages[p] EXCEPT !.at = "waiting"]]
      /\ calls' = [calls EXCEPT ![r] = [state |-> "waiting", of |-> j, to |-> None]]
  BY <1>2 DEF Call, B!Rotate
<1>5. /\ pages' \in [Pages -> PageType]
      /\ pages'[p].at = "waiting" /\ pages'[p].tok = j
      /\ \A q \in Pages \ {p} : pages'[q] = pages[q]
  BY <1>2, <1>4, PageWaits
<1>6. /\ rotations' \in [Jtis -> EntryType] /\ rotations'[j].state = "pending"
      /\ \A i \in Jtis \ {j} : rotations'[i] = rotations[i]
  <2>1. [state |-> "pending", to |-> None] \in EntryType
    BY DEF EntryType, Pair, None
  <2>2. QED
    BY <1>3, <1>4, <2>1, EntrySet
<1>7. /\ calls' \in [Requests -> CallType]
      /\ calls'[r].state = "waiting" /\ calls'[r].of = j
      /\ \A q \in Requests \ {r} : calls'[q] = calls[q]
  <2>1. [state |-> "waiting", of |-> j, to |-> None] \in CallType
    BY <1>3 DEF CallType, Pair, None
  <2>2. QED
    BY <1>4, <2>1, FrontTyped DEF FrontOK
<1>8. FrontOK'
  BY <1>4, <1>5, <1>6, <1>7, FrontTyped DEF FrontOK
<1>9. Held'
  BY <1>3, <1>4, <1>5, <1>6, <1>7 DEF Held, Carries, Known
<1>10. Order'
  <2>1. \A i, k \in Jtis : Became(i, k)' => Became(i, k)
    BY <1>4, <1>6, <1>7 DEF Became
  <2>2. QED
    BY <2>1, OrderSame
<1>11. Cause'
  BY <1>4, <1>5, <1>6, <1>7 DEF Cause, Over
<1>12. Smooth'
  <2>1. \A i \in Jtis : (InUse(i)' => InUse(i)) /\ (Done(i) => Done(i)')
    BY <1>1, <1>2, <1>4, <1>5, <1>6, <1>7 DEF InUse, Done, Carries
  <2>2. Flight => Flight'
    <3> SUFFICES ASSUME Flight PROVE Flight'
      OBVIOUS
    <3>1. \A q \in Requests : calls[q].state # "none" => calls[q].of # j /\ calls[q].of \in Jtis
      <4>1. \A q \in Requests : calls[q].state # "none" => calls[q].of \in Jtis
        BY DEF Held, Known, TypeOK, B!TypeOK, B!Token
      <4>2. QED
        BY <1>4, <4>1 DEF Flight
    <3>2. \A q \in Pages : pages[q].at = "waiting" => pages[q].tok # j /\ pages[q].tok \in Jtis
      <4>1. \A q \in Pages : pages[q].at = "waiting" => pages[q].tok \in Jtis
        BY DEF Held, Carries, Known, TypeOK, B!TypeOK, B!Token
      <4>2. QED
        BY <1>4, <4>1 DEF Flight
    <3>3. \A q \in Requests : calls'[q].state # "none" =>
            /\ calls'[q].state # "gone" /\ rotations'[calls'[q].of].state = "pending"
            /\ \A z \in Requests : calls'[z].state # "none" /\ calls'[z].of = calls'[q].of => z = q
      BY <1>6, <1>7, <3>1 DEF Flight
    <3>4. \A q \in Pages : pages'[q].at = "waiting" => rotations'[pages'[q].tok].state = "pending"
      BY <1>5, <1>6, <3>2 DEF Flight
    <3>5. \A i \in Jtis : rotations'[i].state = "pending" =>
            \E q \in Pages : pages'[q].at = "waiting" /\ pages'[q].tok = i
      BY <1>1, <1>5, <1>6 DEF Flight
    <3>6. QED
      BY <3>3, <3>4, <3>5 DEF Flight
  <2>3. Owed => Owed'
    BY <1>1, <1>4, <1>5, <1>6 DEF Owed
  <2>4. QED
    BY <1>4, <2>1, <2>2, <2>3, SmoothSame DEF Smooth
<1>13. QED
  BY <1>8, <1>9, <1>10, <1>11, <1>12 DEF FrontKept

LEMMA CallExpiredStep ==
  ASSUME RefreshInv, NEW p \in Pages, CallExpired(p)
  PROVE  FrontKept
<1> USE DEF RefreshInv
<1>1. pages[p].at = "sent" /\ Carries(p) /\ Known(pages[p].tok)
  BY DEF CallExpired, Refreshes, Held, Carries
<1>2. PICK j : j = pages[p].tok
  OBVIOUS
<1>3. j \in Jtis /\ TokenOf(j) \in tokens
  <2>1. Known(j)
    BY <1>1, <1>2
  <2>2. QED
    BY <2>1, KnownPair
<1>4. /\ UNCHANGED <<cookie, old, calls, losses, slipped, tokens, sessions, reported>>
      /\ rotations[j].state = "none" /\ sessions[TokenOf(j).sid].expired
      /\ rotations' = [rotations EXCEPT ![j] = [state |-> "refused", to |-> None]]
      /\ pages' = [pages EXCEPT ![p] = Replied(pages[p], "expired")]
  BY <1>2 DEF CallExpired, backend
<1>5. /\ pages' \in [Pages -> PageType] /\ pages'[p].at = "reply" /\ pages'[p].tok = "expired"
      /\ \A q \in Pages \ {p} : pages'[q] = pages[q]
  BY <1>4, PageReplied
<1>6. /\ rotations' \in [Jtis -> EntryType] /\ rotations'[j].state = "refused"
      /\ \A i \in Jtis \ {j} : rotations'[i] = rotations[i]
  <2>1. [state |-> "refused", to |-> None] \in EntryType
    BY DEF EntryType, Pair, None
  <2>2. QED
    BY <1>3, <1>4, <2>1, EntrySet
<1>7. FrontOK'
  BY <1>4, <1>5, <1>6, FrontTyped DEF FrontOK
<1>8. Held'
  BY <1>4, <1>5, <1>6 DEF Held, Carries, Known
<1>9. Order'
  <2>1. \A i, k \in Jtis : Became(i, k)' => Became(i, k)
    BY <1>4, <1>6 DEF Became
  <2>2. QED
    BY <1>4, <2>1, OrderSame
<1>10. Over'
  BY <1>3, <1>4 DEF Over, TypeOK, B!TypeOK, B!Token
<1>11. Smooth'
  <2>1. \A i \in Jtis : (InUse(i)' => InUse(i)) /\ (Done(i) => Done(i)')
    BY <1>1, <1>2, <1>4, <1>5, <1>6 DEF InUse, Done, Carries
  <2>2. Flight => Flight'
    <3> SUFFICES ASSUME Flight PROVE Flight'
      OBVIOUS
    <3>1. \A q \in Requests : calls[q].state # "none" => calls[q].of # j /\ calls[q].of \in Jtis
      <4>1. \A q \in Requests : calls[q].state # "none" => calls[q].of \in Jtis
        BY DEF Held, Known, TypeOK, B!TypeOK, B!Token
      <4>2. QED
        BY <1>4, <4>1 DEF Flight
    <3>2. \A q \in Pages : pages[q].at = "waiting" => pages[q].tok # j /\ pages[q].tok \in Jtis
      <4>1. \A q \in Pages : pages[q].at = "waiting" => pages[q].tok \in Jtis
        BY DEF Held, Carries, Known, TypeOK, B!TypeOK, B!Token
      <4>2. QED
        BY <1>4, <4>1 DEF Flight
    <3>3. QED
      BY <1>1, <1>4, <1>5, <1>6, <3>1, <3>2 DEF Flight
  <2>3. Owed => Owed'
    BY <1>1, <1>4, <1>5, <1>6 DEF Owed
  <2>4. QED
    BY <1>4, <2>1, <2>2, <2>3, SmoothSame DEF Smooth
<1>12. QED
  BY <1>7, <1>8, <1>9, <1>10, <1>11 DEF FrontKept, Cause

LEMMA DeliverStep ==
  ASSUME RefreshInv, NEW p \in Pages, Deliver(p)
  PROVE  FrontKept
<1> USE DEF RefreshInv
<1>1. PICK c : c = cookie
  OBVIOUS
<1>2. PICK d : d = pages[p].tok
  OBVIOUS
<1>3. /\ pages[p].at = "reply" /\ cookie' = d /\ pages' = [pages EXCEPT ![p] = NoPage]
      /\ UNCHANGED <<old, rotations, calls, losses, tokens, sessions, reported>>
  BY <1>2 DEF Deliver, backend
<1>4. /\ slipped' \in BOOLEAN /\ (slipped => slipped')
      /\ ~slipped' => /\ d \in Jtis => c \in Jtis
                      /\ d \in Jtis => ~Newer(c, d)
  BY <1>1, <1>3, FrontTyped DEF Deliver, FrontOK
<1>5. d = "expired" \/ (Known(d) /\ d \in Jtis)
  <2>1. d = "expired" \/ Known(d)
    BY <1>2, <1>3 DEF Held
  <2>2. QED
    BY <2>1, KnownPair
<1>6. /\ pages' \in [Pages -> PageType] /\ pages'[p].at = "idle"
      /\ \A q \in Pages \ {p} : pages'[q] = pages[q]
  BY <1>3, Records, FrontTyped DEF FrontOK
<1>7. FrontOK'
  BY <1>3, <1>4, <1>5, <1>6, FrontTyped DEF FrontOK
<1>8. Held'
  BY <1>3, <1>5, <1>6 DEF Held, Carries, Known
<1>9. Order'
  <2>1. \A i, k \in Jtis : Became(i, k)' => Became(i, k)
    BY <1>3 DEF Became
  <2>2. QED
    BY <1>3, <2>1, OrderSame
<1>10. Cause'
  BY <1>2, <1>3, <1>4, <1>6 DEF Cause, Over
<1>11. Smooth'
  <2> SUFFICES ASSUME ~slipped' PROVE Smooth'
    BY DEF Smooth
  <2>1. Flight /\ Fresh /\ Reach /\ Owed /\ reported = {} /\ ~slipped
    BY <1>4 DEF Smooth
  <2>2. Flight'
    BY <1>3, <1>6, <2>1 DEF Flight
  <2>3. \A j : /\ Gen(j)' = Gen(j) /\ (Newest(j)' <=> Newest(j))
    BY <1>3, SamePairs
  <2>4. \A j \in Jtis : (InUse(j)' => InUse(j) \/ j = d) /\ (Done(j)' <=> Done(j))
    BY <1>3, <1>6 DEF InUse, Done, Carries
  <2>5. CASE d = "expired"
    <3>1. \A j \in Jtis : j # d
      BY <2>5, RefreshAssumption
    <3>2. Fresh'
      BY <2>1, <2>3, <2>4, <3>1 DEF Fresh
    <3>3. Reach' /\ Owed'
      BY <1>3, <3>1 DEF Reach, Owed
    <3>4. QED
      BY <1>3, <2>1, <2>2, <3>2, <3>3 DEF Smooth
  <2>6. CASE Known(d) /\ d \in Jtis
    <3>1. c \in Jtis /\ Known(c) /\ InUse(c) /\ cookie = c
      BY <1>1, <1>4, <2>6, RefreshAssumption DEF Held, InUse
    <3>2. /\ Gen(c) \in Nat /\ Gen(d) \in Nat /\ TokenOf(d) \in tokens
          /\ TokenOf(d).gen = Gen(d)
      BY <2>6, <3>1, KnownPair
    <3>3. Gen(c) <= Gen(d)
      BY <1>4, <2>6, <3>2 DEF Newer, Gen
    <3>4. \A t \in tokens : t.gen \in Nat
      BY DEF TypeOK, B!TypeOK, B!Token
    <3>5. c # d => Gen(c) < Gen(d) /\ Newest(d)
      <4> SUFFICES ASSUME c # d PROVE Gen(c) < Gen(d) /\ Newest(d)
        OBVIOUS
      <4>1. Gen(c) < Gen(d)
        BY <2>6, <3>1, <3>2, <3>3, ByGeneration
      <4>2. \A t \in tokens : t.gen <= Gen(d)
        BY <2>1, <3>1, <3>2, <3>4, <4>1 DEF Reach
      <4>3. QED
        BY <4>1, <4>2 DEF Newest
    <3>6. Fresh'
      BY <2>1, <2>3, <2>4, <3>1, <3>5 DEF Fresh
    <3>7. Reach'
      <4>1. \A j \in Jtis : InUse(j)' => Gen(j)' <= Gen(d)'
        <5> SUFFICES ASSUME NEW j \in Jtis, InUse(j)' PROVE Gen(j) <= Gen(d)
          BY <2>3
        <5>1. CASE j = d
          BY <5>1, <3>2
        <5>2. CASE InUse(j)
          <6>1. Known(j)
            BY <5>2, RefreshAssumption DEF InUse, Held
          <6>2. Gen(j) \in Nat /\ Gen(j) <= Gen(c)
            BY <2>1, <3>1, <5>2, <6>1, KnownPair DEF Reach
          <6>3. QED
            BY <3>2, <3>3, <6>2
        <5>3. QED
          BY <2>4, <5>1, <5>2
      <4>2. \A t, u \in tokens' : t.gen < u.gen => t.gen <= Gen(d)'
        <5>1. \A t, u \in tokens : t.gen < u.gen => t.gen <= Gen(c)
          BY <2>1, <3>1 DEF Reach
        <5>2. QED
          BY <1>3, <2>3, <3>2, <3>3, <3>4, <5>1
      <4>3. QED
        BY <1>3, <4>1, <4>2 DEF Reach
    <3>8. Owed'
      <4> SUFFICES ASSUME rotations[d].state = "ok"
                   PROVE  \E q \in Pages : pages'[q].at = "reply" /\ pages'[q].tok = rotations[d].to
        BY <1>3 DEF Owed
      <4>1. PICK k \in Jtis : k = rotations[d].to
        BY <2>6 DEF Held
      <4>2. Follows(k, d)
        BY <2>6, <4>1 DEF Order, Became
      <4>3. /\ Gen(k) \in Nat /\ TokenOf(k) \in tokens /\ TokenOf(k).gen = Gen(k)
            /\ Gen(d) < Gen(k) /\ k # d
        BY <3>2, <4>2, KnownPair DEF Follows
      <4>4. Gen(d) <= Gen(c)
        BY <2>1, <3>1, <3>2, <4>3 DEF Reach
      <4>5. c = d
        BY <3>2, <3>5, <4>4
      <4>6. PICK q \in Pages : pages[q].at = "reply" /\ pages[q].tok = k
        BY <2>1, <2>6, <3>1, <4>1, <4>5 DEF Owed
      <4>7. q # p
        BY <1>2, <4>3, <4>6
      <4>8. QED
        BY <1>6, <4>1, <4>6, <4>7
    <3>9. QED
      BY <1>3, <2>1, <2>2, <3>6, <3>7, <3>8 DEF Smooth
  <2>7. QED
    BY <1>5, <2>5, <2>6
<1>12. QED
  BY <1>7, <1>8, <1>9, <1>10, <1>11 DEF FrontKept

LEMMA DropStep ==
  ASSUME RefreshInv, NEW p \in Pages, Drop(p)
  PROVE  FrontKept
<1> USE DEF RefreshInv
<1>1. /\ pages' = [pages EXCEPT ![p] = NoPage] /\ slipped' = TRUE /\ losses' \in 0 .. MaxLosses
      /\ UNCHANGED <<cookie, old, rotations, calls, tokens>>
  BY Slipping DEF Drop, backend
<1>2. /\ pages' \in [Pages -> PageType] /\ pages'[p].at = "idle"
      /\ \A q \in Pages \ {p} : pages'[q] = pages[q]
  BY <1>1, Records, FrontTyped DEF FrontOK
<1>3. FrontOK'
  BY <1>1, <1>2, FrontTyped DEF FrontOK
<1>4. Held'
  BY <1>1, <1>2 DEF Held, Carries, Known
<1>5. Order'
  BY <1>1, OrderSame DEF Became
<1>6. QED
  BY <1>1, <1>3, <1>4, <1>5 DEF FrontKept, Cause, Smooth

LEMMA TokenOfNext ==
  ASSUME Backend', NEW t \in tokens'
  PROVE  TokenOf(t.jti)' = t /\ Gen(t.jti)' = t.gen
<1>1. \E u \in tokens' : u.jti = t.jti
  OBVIOUS
<1>2. TokenOf(t.jti)' \in tokens' /\ TokenOf(t.jti)'.jti = t.jti
  BY <1>1, Zenon DEF TokenOf
<1>3. TokenOf(t.jti)' = t
  BY <1>2 DEF Backend
<1>4. QED
  BY <1>3 DEF Gen

LEMMA RotateStep ==
  ASSUME RefreshInv, NEW r \in Requests, Rotate(r), BackKept
  PROVE  FrontKept
<1> USE DEF RefreshInv
<1>1. PICK k \in Jtis, g \in Nat, s \in Sids :
        /\ req[r].at = "rotate" /\ Answered(r, "ok", k)
        /\ \A t \in tokens : t.gen <= g /\ t.sid = s
        /\ calls[r].of = req[r].cred.jti /\ req[r].cred.gen = g /\ req[r].cred \in tokens
        /\ tokens' = tokens \union {[sid |-> s, gen |-> g + 1, jti |-> k]}
        /\ UNCHANGED <<user, signup, resets, reported, torn>>
  BY Rotation
<1>2. UNCHANGED <<cookie, pages, old, rotations, losses, slipped>>
  BY DEF Rotate
<1>3. PICK i : i = calls[r].of
  OBVIOUS
<1>4. PICK c \in tokens : c = req[r].cred
  BY <1>1
<1>5. c.jti = i /\ c.gen = g /\ i \in Jtis /\ Known(i) /\ Gen(i) = g
  BY <1>1, <1>3, <1>4, TokenOfIs DEF TypeOK, B!TypeOK, B!Token, Known, Gen
<1>6. PICK n \in tokens' : n.jti = k /\ n.gen = g + 1 /\ tokens' = tokens \union {n}
  BY <1>1
<1>7. Known(k)' /\ Gen(k)' = g + 1
  <2>1. Gen(n.jti)' = n.gen
    BY TokenOfNext DEF BackKept
  <2>2. QED
    BY <1>6, <2>1 DEF Known
<1>8. \A j : Known(j) => Known(j)' /\ Gen(j)' = Gen(j) /\ Gen(j) \in Nat
  BY <1>1, MorePairs, KnownPair DEF BackKept
<1>9. calls[r].state \in {"waiting", "gone"} /\ k \in Pair
  BY <1>1 DEF Lock, Pair
<1>10. /\ calls' \in [Requests -> CallType]
       /\ calls[r].state = "waiting" =>
            calls'[r].state = "ok" /\ calls'[r].of = i /\ calls'[r].to = k
       /\ calls[r].state = "gone" => calls'[r].state = "none"
       /\ \A q \in Requests \ {r} : calls'[q] = calls[q]
  BY <1>1, <1>3, <1>9, AnsweredCall, Records DEF CallType
<1>11. FrontOK'
  BY <1>1, <1>2, <1>10, FrontTyped DEF FrontOK
<1>12. Held'
  <2>1. \A j : (\E t \in tokens : t.jti = j) => \E t \in tokens' : t.jti = j
    BY <1>1
  <2>2. \A q \in Requests : calls'[q].state # "none" => \E t \in tokens' : t.jti = calls'[q].of
    BY <1>3, <1>5, <1>9, <1>10, <2>1 DEF Held, Known
  <2>3. \A q \in Requests : calls'[q].state = "ok" => calls'[q].to \in Jtis
    BY <1>9, <1>10 DEF Held
  <2>4. QED
    BY <1>2, <2>1, <2>2, <2>3 DEF Held, Carries, Known
<1>13. Order'
  <2> SUFFICES ASSUME NEW a \in Jtis, NEW b \in Jtis, Became(a, b)' PROVE Follows(b, a)'
    BY DEF Order
  <2>1. CASE Became(a, b)
    BY <1>8, <2>1 DEF Order, Follows
  <2>2. CASE a = i /\ b = k
    BY <1>5, <1>7, <1>8, <2>2 DEF Follows
  <2>3. QED
    BY <1>2, <1>9, <1>10, <2>1, <2>2 DEF Became
<1>14. Cause'
  <2>1. \A q \in Requests : calls'[q].state = "refused" => calls[q].state = "refused"
    BY <1>9, <1>10
  <2>2. QED
    BY <1>2, <2>1 DEF Cause, BackKept
<1>15. Smooth'
  <2> SUFFICES ASSUME ~slipped PROVE Smooth'
    BY <1>2 DEF Smooth
  <2>1. Flight /\ Fresh /\ Reach /\ Owed /\ reported = {}
    BY DEF Smooth
  <2>2. /\ calls[r].state = "waiting" /\ calls'[r].state = "ok" /\ calls'[r].of = i
    BY <1>9, <1>10, <2>1 DEF Flight
  <2>3. Flight'
    BY <1>2, <1>3, <1>10, <2>1, <2>2 DEF Flight
  <2>4. InUse(i)
    BY <1>3, <1>5, <2>1, <2>2 DEF Flight, InUse, Carries
  <2>5. \A j \in Jtis : InUse(j) => Known(j)
    BY RefreshAssumption DEF InUse, Held
  <2>6. \A j \in Jtis : (InUse(j)' => InUse(j)) /\ (Done(j) => Done(j)') /\ Done(i)'
    BY <1>2, <1>10, <2>2 DEF InUse, Done, Carries
  <2>7. Fresh'
    <3> SUFFICES ASSUME NEW j \in Jtis, InUse(j)' PROVE Done(j)'
      BY DEF Fresh
    <3>1. InUse(j) /\ Known(j)
      BY <2>5, <2>6
    <3>2. CASE Newest(j)
      <4>1. g <= Gen(j)
        BY <1>4, <1>5, <3>2 DEF Newest
      <4>2. Gen(j) <= g
        BY <1>1, <3>1, KnownPair
      <4>3. j = i
        BY <1>5, <1>8, <3>1, <4>1, <4>2, ByGeneration
      <4>4. QED
        BY <2>6, <4>3
    <3>3. CASE Done(j)
      BY <2>6, <3>3
    <3>4. QED
      BY <2>1, <3>1, <3>2, <3>3 DEF Fresh
  <2>8. Reach'
    <3> SUFFICES ASSUME NEW d \in Jtis, cookie = d
                 PROVE  /\ \A j \in Jtis : InUse(j)' => Gen(j)' <= Gen(d)'
                        /\ \A t, u \in tokens' : t.gen < u.gen => t.gen <= Gen(d)'
      BY <1>2 DEF Reach
    <3>1. Known(d) /\ Gen(d)' = Gen(d) /\ Gen(d) \in Nat
      BY <1>8, RefreshAssumption DEF Held
    <3>2. /\ \A j \in Jtis : InUse(j) => Gen(j) <= Gen(d)
          /\ \A t, u \in tokens : t.gen < u.gen => t.gen <= Gen(d)
      BY <2>1 DEF Reach
    <3>3. \A j \in Jtis : InUse(j)' => Gen(j)' <= Gen(d)'
      BY <1>8, <2>5, <2>6, <3>1, <3>2
    <3>4. \A t \in tokens : t.gen \in Nat
      BY DEF TypeOK, B!TypeOK, B!Token
    <3>5. g <= Gen(d)
      BY <1>5, <2>4, <3>2
    <3>6. \A t \in tokens : t.gen <= Gen(d)
      BY <1>1, <3>1, <3>4, <3>5
    <3>7. \A t, u \in tokens' : t.gen < u.gen => t.gen <= Gen(d)
      BY <1>1, <1>6, <3>4, <3>6
    <3>8. QED
      BY <3>1, <3>3, <3>7
  <2>9. Owed'
    BY <1>2, <2>1 DEF Owed
  <2>10. QED
    BY <1>1, <2>1, <2>3, <2>7, <2>8, <2>9 DEF Smooth
<1>16. QED
  BY <1>11, <1>12, <1>13, <1>14, <1>15 DEF FrontKept

\* The backend answers a call with a refusal or an error: the call waits for it, or was
\* given up.
LEMMA RefusedCall ==
  ASSUME RefreshInv, NEW r \in Requests, req[r].at = "rotate",
         Answered(r, "refused", None), tokens' = tokens,
         UNCHANGED <<cookie, pages, old, rotations>>,
         losses' \in 0 .. MaxLosses, slipped' \in BOOLEAN
  PROVE  /\ FrontOK' /\ Held' /\ Order'
         /\ calls[r].state \in {"waiting", "gone"}
         /\ \A q \in Requests : calls'[q].state # "none" =>
              /\ calls[q].state # "none" /\ calls'[q].of = calls[q].of
              /\ calls[q].state # "gone" => calls'[q].state # "gone"
         /\ \A q \in Requests \ {r} : calls'[q] = calls[q]
<1> USE DEF RefreshInv
<1>1. calls[r].state \in {"waiting", "gone"} /\ None \in Pair
  BY DEF Lock, None, Pair
<1>2. /\ calls' \in [Requests -> CallType]
      /\ calls[r].state = "waiting" => calls'[r].state = "refused" /\ calls'[r].of = calls[r].of
      /\ calls[r].state = "gone" => calls'[r].state = "none"
      /\ \A q \in Requests \ {r} : calls'[q] = calls[q]
  BY <1>1, AnsweredCall, Records DEF CallType
<1>3. FrontOK'
  BY <1>2, FrontTyped DEF FrontOK
<1>4. Held'
  BY <1>1, <1>2 DEF Held, Carries, Known
<1>5. Order'
  <2>1. \A i, k \in Jtis : Became(i, k)' => Became(i, k)
    BY <1>1, <1>2 DEF Became
  <2>2. QED
    BY <2>1, OrderSame
<1>6. QED
  BY <1>1, <1>2, <1>3, <1>4, <1>5

\* While nothing has slipped, a call presents the newest pair: the backend finds no reuse.
LEMMA NoReuse ==
  ASSUME RefreshInv, NEW r \in Requests, ~slipped
  PROVE  ~B!Reused(r)
<1> USE DEF RefreshInv
<1> SUFFICES ASSUME req[r].at = "rotate", ~B!Current(req[r].cred, req[r].row) PROVE FALSE
  BY DEF B!Reused, B!At
<1>1. Flight /\ Fresh
  BY DEF Smooth
<1>2. PICK c \in tokens : c = req[r].cred
  BY DEF Lock
<1>3. PICK i : i = calls[r].of
  OBVIOUS
<1>4. c.jti = i /\ i \in Jtis /\ calls[r].state = "waiting" /\ Reads(req[r].row, c.sid)
  BY <1>1, <1>2, <1>3 DEF Lock, Flight, TypeOK, B!TypeOK, B!Token
<1>5. Gen(i) = c.gen
  BY <1>4, TokenOfIs DEF Gen
<1>6. InUse(i) /\ rotations[i].state = "pending"
  BY <1>1, <1>3, <1>4 DEF Flight, InUse, Carries
<1>7. ~Done(i)
  BY <1>1, <1>3, <1>4, <1>6 DEF Done, Flight
<1>8. Newest(i)
  BY <1>1, <1>4, <1>6, <1>7 DEF Fresh
<1>9. PICK y \in tokens : /\ y.sid = c.sid /\ y.gen = sessions[c.sid].gen
                          /\ y.jti = sessions[c.sid].jti /\ c.gen <= y.gen
  BY DEF Backend
<1>10. y.gen <= c.gen /\ y.gen \in Nat /\ c.gen \in Nat
  BY <1>5, <1>8 DEF Newest, TypeOK, B!TypeOK, B!Token
<1>11. y = c
  <2>1. y.gen = c.gen
    BY <1>9, <1>10
  <2>2. QED
    BY <2>1 DEF Backend
<1>12. QED
  BY <1>2, <1>4, <1>9, <1>11 DEF B!Current, Reads

LEMMA RefuseStep ==
  ASSUME RefreshInv, NEW r \in Requests, Refuse(r)
  PROVE  FrontKept
<1> USE DEF RefreshInv
<1>1. /\ UNCHANGED <<cookie, pages, old, rotations, losses, slipped>>
      /\ tokens' = tokens /\ req[r].at = "rotate" /\ Over' /\ Answered(r, "refused", None)
  BY RefuseBack DEF Refuse
<1>2. losses' \in 0 .. MaxLosses /\ slipped' \in BOOLEAN
  BY <1>1, FrontTyped DEF FrontOK
<1>3. /\ FrontOK' /\ Held' /\ Order'
      /\ calls[r].state \in {"waiting", "gone"}
      /\ \A q \in Requests : calls'[q].state # "none" =>
           /\ calls[q].state # "none" /\ calls'[q].of = calls[q].of
           /\ calls[q].state # "gone" => calls'[q].state # "gone"
      /\ \A q \in Requests \ {r} : calls'[q] = calls[q]
  BY <1>1, <1>2, RefusedCall
<1>4. Smooth'
  <2>1. slipped' \/ reported' = reported
    <3>1. CASE slipped
      BY <1>1, <3>1
    <3>2. CASE ~slipped
      BY <3>2, NoReuse DEF Refuse, B!Rejected
    <3>3. QED
      BY <3>1, <3>2
  <2>2. \A i \in Jtis : (InUse(i)' => InUse(i)) /\ (Done(i) => Done(i)')
    BY <1>1, <1>3 DEF InUse, Done, Carries
  <2>3. Flight => Flight'
    BY <1>1, <1>3 DEF Flight
  <2>4. Owed => Owed'
    BY <1>1 DEF Owed
  <2>5. QED
    BY <1>1, <2>1, <2>2, <2>3, <2>4, SmoothSame DEF Smooth
<1>5. QED
  BY <1>1, <1>3, <1>4 DEF FrontKept, Cause

LEMMA BreakStep ==
  ASSUME RefreshInv, NEW r \in Requests, Break(r)
  PROVE  FrontKept
<1> USE DEF RefreshInv
<1>1. /\ UNCHANGED <<cookie, pages, old, rotations>>
      /\ tokens' = tokens /\ req[r].at = "rotate" /\ slipped' /\ Answered(r, "refused", None)
  BY BreakBack DEF Break
<1>2. losses' \in 0 .. MaxLosses /\ slipped' \in BOOLEAN
  <2>1. CASE calls[r].state = "gone"
    BY <2>1, FrontTyped DEF Break, FrontOK
  <2>2. CASE calls[r].state # "gone"
    BY <2>2, Slipping DEF Break
  <2>3. QED
    BY <2>1, <2>2
<1>3. FrontOK' /\ Held' /\ Order'
  BY <1>1, <1>2, RefusedCall
<1>4. QED
  BY <1>1, <1>3 DEF FrontKept, Cause, Smooth

LEMMA ReceiveStep ==
  ASSUME RefreshInv, NEW r \in Requests, Receive(r)
  PROVE  FrontKept
<1> USE DEF RefreshInv
<1>1. calls[r] \in CallType /\ calls[r].state \in {"ok", "refused"}
  BY FrontTyped DEF FrontOK, Receive
<1>2. PICK i : i = calls[r].of
  OBVIOUS
<1>3. PICK to : to = IF calls[r].state = "ok" THEN calls[r].to ELSE "expired"
  OBVIOUS
<1>4. i \in Jtis /\ Known(i) /\ i # "expired"
  <2>1. Known(i)
    BY <1>1, <1>2 DEF Held
  <2>2. QED
    BY <2>1, KnownPair
<1>5. /\ UNCHANGED <<cookie, old, losses, slipped, tokens, sessions, reported>>
      /\ rotations' = [rotations EXCEPT ![i] = [state |-> calls[r].state, to |-> calls[r].to]]
      /\ pages' = Woken(i, to)
      /\ calls' = [calls EXCEPT ![r] = NoCall]
  BY <1>2, <1>3 DEF Receive, backend
<1>6. /\ calls' \in [Requests -> CallType] /\ calls'[r].state = "none"
      /\ \A q \in Requests \ {r} : calls'[q] = calls[q]
  BY <1>5, Records, FrontTyped DEF FrontOK
<1>7. /\ rotations' \in [Jtis -> EntryType]
      /\ rotations'[i].state = calls[r].state /\ rotations'[i].to = calls[r].to
      /\ \A j \in Jtis \ {i} : rotations'[j] = rotations[j]
  <2>1. [state |-> calls[r].state, to |-> calls[r].to] \in EntryType
    BY <1>1 DEF CallType, EntryType
  <2>2. QED
    BY <1>4, <1>5, <2>1, EntrySet
<1>8. /\ to \in Pair \union {"expired"} /\ to # i
      /\ to # "expired" => to \in Jtis /\ Known(to)
      /\ calls[r].state = "ok" => to = calls[r].to /\ to # "expired"
      /\ calls[r].state = "refused" => to = "expired"
  <2>1. CASE calls[r].state = "ok"
    <3>1. to \in Jtis /\ Follows(to, i)
      BY <1>2, <1>3, <1>4, <2>1 DEF Held, Order, Became
    <3>2. Known(to) /\ Gen(to) \in Nat /\ Gen(i) < Gen(to) /\ to # "expired"
      BY <3>1, KnownPair DEF Follows
    <3>3. to # i
      BY <1>4, <3>2, KnownPair
    <3>4. QED
      BY <1>3, <2>1, <3>1, <3>2, <3>3 DEF Pair
  <2>2. CASE calls[r].state = "refused"
    BY <1>3, <1>4, <2>2
  <2>3. QED
    BY <1>1, <2>1, <2>2
<1>9. /\ pages' \in [Pages -> PageType]
      /\ \A p \in Pages : Waits(p, i) => pages'[p].at = "reply" /\ pages'[p].tok = to
      /\ \A p \in Pages : ~Waits(p, i) => pages'[p] = pages[p]
  BY <1>5, <1>8, WokenPages
<1>10. FrontOK'
  BY <1>5, <1>6, <1>7, <1>9, FrontTyped DEF FrontOK
<1>11. Held'
  <2>1. \A p \in Pages :
          /\ Carries(p)' => Known(pages'[p].tok)
          /\ pages'[p].at = "reply" => pages'[p].tok = "expired" \/ Known(pages'[p].tok)
    BY <1>8, <1>9 DEF Held, Carries
  <2>2. \A q \in Requests :
          /\ calls'[q].state # "none" => Known(calls'[q].of)
          /\ calls'[q].state = "ok" => calls'[q].to \in Jtis
    BY <1>6 DEF Held
  <2>3. \A j \in Jtis : rotations'[j].state = "ok" => rotations'[j].to \in Jtis
    BY <1>7, <1>8 DEF Held
  <2>4. cookie' = "expired" \/ Known(cookie')
    BY <1>5 DEF Held
  <2>5. QED
    BY <1>5, <2>1, <2>2, <2>3, <2>4 DEF Held, Carries, Known
<1>12. Order'
  <2>1. \A j, k \in Jtis : Became(j, k)' => Became(j, k)
    BY <1>2, <1>6, <1>7 DEF Became
  <2>2. QED
    BY <1>5, <2>1, OrderSame
<1>13. Cause'
  BY <1>1, <1>4, <1>5, <1>6, <1>7, <1>8, <1>9 DEF Cause, Over
<1>14. Smooth'
  <2> SUFFICES ASSUME ~slipped PROVE Smooth'
    BY <1>5 DEF Smooth
  <2>1. Flight /\ Owed
    BY DEF Smooth
  <2>2. rotations[i].state = "pending"
    BY <1>1, <1>2, <2>1 DEF Flight
  <2>3. \A q \in Requests \ {r} : calls[q].state # "none" => calls[q].of # i /\ calls[q].of \in Jtis
    <3>1. \A q \in Requests : calls[q].state # "none" => calls[q].of \in Jtis
      BY DEF Held, Known, TypeOK, B!TypeOK, B!Token
    <3>2. QED
      BY <1>1, <1>2, <2>1, <3>1 DEF Flight
  <2>4. \A p \in Pages : pages'[p].at = "waiting" =>
          pages'[p] = pages[p] /\ pages[p].tok # i /\ pages[p].tok \in Jtis
    <3>1. \A p \in Pages : pages[p].at = "waiting" => pages[p].tok \in Jtis
      BY DEF Held, Carries, Known, TypeOK, B!TypeOK, B!Token
    <3>2. QED
      BY <1>9, <3>1 DEF Waits
  <2>5. Flight'
    <3>1. \A q \in Requests : calls'[q].state # "none" =>
            /\ calls'[q].state # "gone" /\ rotations'[calls'[q].of].state = "pending"
            /\ \A z \in Requests : calls'[z].state # "none" /\ calls'[z].of = calls'[q].of => z = q
      BY <1>6, <1>7, <2>1, <2>3 DEF Flight
    <3>2. \A p \in Pages : pages'[p].at = "waiting" => rotations'[pages'[p].tok].state = "pending"
      BY <1>7, <2>1, <2>4 DEF Flight
    <3>3. \A j \in Jtis : rotations'[j].state = "pending" =>
            \E p \in Pages : pages'[p].at = "waiting" /\ pages'[p].tok = j
      BY <1>1, <1>7, <1>9, <2>1 DEF Flight, Waits
    <3>4. QED
      BY <3>1, <3>2, <3>3 DEF Flight
  <2>6. \A j \in Jtis : (InUse(j)' => InUse(j)) /\ (Done(j) => Done(j)')
    <3>1. \A j \in Jtis : InUse(j)' => InUse(j)
      BY <1>5, <1>9 DEF InUse, Carries
    <3>2. \A j \in Jtis : Done(j) => Done(j)'
      BY <1>2, <1>6, <1>7, <2>2 DEF Done
    <3>3. QED
      BY <3>1, <3>2
  <2>7. Owed'
    <3> SUFFICES ASSUME NEW j \in Jtis, rotations'[j].state = "ok", cookie' = j
                 PROVE  \E p \in Pages : pages'[p].at = "reply" /\ pages'[p].tok = rotations'[j].to
      BY DEF Owed
    <3>1. CASE j = i
      <4>1. PICK p \in Pages : Waits(p, i)
        BY <1>4, <2>1, <2>2 DEF Flight, Waits
      <4>2. QED
        BY <1>7, <1>8, <1>9, <3>1, <4>1
    <3>2. CASE j # i
      <4>1. PICK p \in Pages : pages[p].at = "reply" /\ pages[p].tok = rotations[j].to
        BY <1>5, <1>7, <2>1, <3>2 DEF Owed
      <4>2. QED
        BY <1>7, <1>9, <3>2, <4>1 DEF Waits
    <3>3. QED
      BY <3>1, <3>2
  <2>8. QED
    BY <1>5, <2>5, <2>6, <2>7, SmoothSame
<1>15. QED
  BY <1>10, <1>11, <1>12, <1>13, <1>14 DEF FrontKept

LEMMA LoseStep ==
  ASSUME RefreshInv, NEW r \in Requests, Lose(r)
  PROVE  FrontKept
<1> USE DEF RefreshInv
<1>1. calls[r] \in CallType /\ calls[r].state \in {"waiting", "ok", "refused"}
  BY FrontTyped DEF FrontOK, Lose
<1>2. PICK i : i = calls[r].of
  OBVIOUS
<1>3. i \in Jtis /\ Known(i)
  <2>1. Known(i)
    BY <1>1, <1>2 DEF Held
  <2>2. QED
    BY <2>1, KnownPair
<1> DEFINE c == IF calls[r].state = "waiting" THEN [calls[r] EXCEPT !.state = "gone"] ELSE NoCall
<1>4. c \in CallType /\ c.state \in {"gone", "none"} /\ (c.state = "gone" => c.of = i)
  BY <1>1, <1>2, Records DEF CallType
<1>5. /\ UNCHANGED <<cookie, old, tokens>> /\ slipped' = TRUE /\ losses' \in 0 .. MaxLosses
      /\ rotations' = [rotations EXCEPT ![i] = NoEntry]
      /\ pages' = Woken(i, i)
      /\ calls' = [calls EXCEPT ![r] = c]
  BY <1>2, Slipping DEF Lose, backend
<1> HIDE DEF c
<1>6. /\ calls' \in [Requests -> CallType] /\ calls'[r] = c
      /\ \A q \in Requests \ {r} : calls'[q] = calls[q]
  BY <1>4, <1>5, FrontTyped DEF FrontOK
<1>7. /\ rotations' \in [Jtis -> EntryType] /\ rotations'[i].state = "none"
      /\ \A j \in Jtis \ {i} : rotations'[j] = rotations[j]
  BY <1>3, <1>5, Records, EntrySet
<1>8. /\ pages' \in [Pages -> PageType]
      /\ \A p \in Pages : Waits(p, i) => pages'[p].at = "reply" /\ pages'[p].tok \in {i, "expired"}
      /\ \A p \in Pages : ~Waits(p, i) => pages'[p] = pages[p]
  BY <1>3, <1>5, WokenPages DEF Pair
<1>9. FrontOK'
  BY <1>5, <1>6, <1>7, <1>8, FrontTyped DEF FrontOK
<1>10. Held'
  <2>1. \A p \in Pages :
          /\ Carries(p)' => Known(pages'[p].tok)
          /\ pages'[p].at = "reply" => pages'[p].tok = "expired" \/ Known(pages'[p].tok)
    BY <1>3, <1>8 DEF Held, Carries
  <2>2. \A q \in Requests :
          /\ calls'[q].state # "none" => Known(calls'[q].of)
          /\ calls'[q].state = "ok" => calls'[q].to \in Jtis
    BY <1>3, <1>4, <1>6 DEF Held
  <2>3. \A j \in Jtis : rotations'[j].state = "ok" => rotations'[j].to \in Jtis
    BY <1>7 DEF Held
  <2>4. cookie' = "expired" \/ Known(cookie')
    BY <1>5 DEF Held
  <2>5. QED
    BY <1>5, <2>1, <2>2, <2>3, <2>4 DEF Held, Carries, Known
<1>11. Order'
  <2>1. \A j, k \in Jtis : Became(j, k)' => Became(j, k)
    BY <1>4, <1>6, <1>7 DEF Became
  <2>2. QED
    BY <1>5, <2>1, OrderSame
<1>12. QED
  BY <1>5, <1>9, <1>10, <1>11 DEF FrontKept, Cause, Smooth

LEMMA AgeStep ==
  ASSUME RefreshInv, NEW j \in Jtis, Age(j)
  PROVE  FrontKept
<1> USE DEF RefreshInv
<1>1. /\ UNCHANGED <<cookie, pages, rotations, calls, losses, slipped, tokens, sessions, reported>>
      /\ old' \subseteq {t.jti : t \in tokens}
  BY FrontTyped DEF Age, backend, FrontOK
<1>2. FrontOK'
  BY <1>1, FrontTyped DEF FrontOK
<1>3. Held' /\ Cause'
  BY <1>1 DEF Held, Carries, Known, Cause, Over
<1>4. Order'
  BY <1>1, OrderSame DEF Became
<1>5. Smooth'
  <2>1. \A i \in Jtis : (InUse(i)' => InUse(i)) /\ (Done(i) => Done(i)')
    BY <1>1 DEF InUse, Done, Carries
  <2>2. (Flight => Flight') /\ (Owed => Owed')
    BY <1>1 DEF Flight, Owed
  <2>3. QED
    BY <1>1, <2>1, <2>2, SmoothSame DEF Smooth
<1>6. QED
  BY <1>2, <1>3, <1>4, <1>5 DEF FrontKept

LEMMA ForgetStep ==
  ASSUME RefreshInv, NEW j \in Jtis, Forget(j)
  PROVE  FrontKept
<1> USE DEF RefreshInv
<1>1. /\ UNCHANGED <<cookie, pages, old, calls, losses, slipped, tokens, sessions, reported>>
      /\ rotations[j].state \in {"ok", "refused"}
      /\ rotations' = [rotations EXCEPT ![j] = NoEntry]
      /\ \A p \in Pages : pages[p].tok # j /\ pages[p].tok # rotations[j].to
  BY DEF Forget, backend
<1>2. /\ rotations' \in [Jtis -> EntryType] /\ rotations'[j].state = "none"
      /\ \A i \in Jtis \ {j} : rotations'[i] = rotations[i]
  BY <1>1, Records, EntrySet
<1>3. FrontOK'
  BY <1>1, <1>2, FrontTyped DEF FrontOK
<1>4. Held' /\ Cause'
  BY <1>1, <1>2 DEF Held, Carries, Known, Cause, Over
<1>5. Order'
  <2>1. \A i, k \in Jtis : Became(i, k)' => Became(i, k)
    BY <1>1, <1>2 DEF Became
  <2>2. QED
    BY <1>1, <2>1, OrderSame
<1>6. Smooth'
  <2> SUFFICES ASSUME ~slipped PROVE Smooth'
    BY <1>1 DEF Smooth
  <2>1. Flight /\ Owed
    BY DEF Smooth
  <2>2. Flight'
    <3>1. \A q \in Requests : calls[q].state # "none" => calls[q].of # j /\ calls[q].of \in Jtis
      <4>1. \A q \in Requests : calls[q].state # "none" => calls[q].of \in Jtis
        BY DEF Held, Known, TypeOK, B!TypeOK, B!Token
      <4>2. QED
        BY <1>1, <2>1, <4>1 DEF Flight
    <3>2. \A q \in Pages : pages[q].at = "waiting" => pages[q].tok # j /\ pages[q].tok \in Jtis
      <4>1. \A q \in Pages : pages[q].at = "waiting" => pages[q].tok \in Jtis
        BY DEF Held, Carries, Known, TypeOK, B!TypeOK, B!Token
      <4>2. QED
        BY <1>1, <4>1
    <3>3. QED
      BY <1>1, <1>2, <2>1, <3>1, <3>2 DEF Flight
  <2>3. Owed'
    BY <1>1, <1>2, <2>1 DEF Owed
  <2>4. \A i \in Jtis : InUse(i)' => InUse(i)
    BY <1>1 DEF InUse, Carries
  <2>5. \A i \in Jtis : Done(i) /\ InUse(i)' => Done(i)'
    <3>1. InUse(j) => cookie = j
      BY <1>1 DEF InUse
    <3>2. ~(rotations[j].state = "ok" /\ cookie = j)
      BY <1>1, <2>1 DEF Owed
    <3>3. QED
      BY <1>1, <1>2, <2>4, <3>1, <3>2 DEF Done
  <2>6. QED
    BY <1>1, <2>2, <2>3, <2>4, <2>5, SmoothSame
<1>7. QED
  BY <1>3, <1>4, <1>5, <1>6 DEF FrontKept

LEMMA TimeStep ==
  ASSUME RefreshInv, Expire \/ Revoke
  PROVE  FrontKept
<1> USE DEF RefreshInv
<1>1. /\ UNCHANGED <<cookie, pages, old, rotations, calls, losses, slipped>>
      /\ tokens' = tokens /\ (Over => Over') /\ reported' = reported
  BY TimeBack DEF Expire, Revoke, front, BackKept, B!Expire, B!Logout
<1>2. FrontOK'
  BY <1>1, FrontTyped DEF FrontOK
<1>3. Held' /\ Cause'
  BY <1>1 DEF Held, Carries, Known, Cause
<1>4. Order'
  BY <1>1, OrderSame DEF Became
<1>5. Smooth'
  <2>1. \A i \in Jtis : (InUse(i)' => InUse(i)) /\ (Done(i) => Done(i)')
    BY <1>1 DEF InUse, Done, Carries
  <2>2. (Flight => Flight') /\ (Owed => Owed')
    BY <1>1 DEF Flight, Owed
  <2>3. QED
    BY <1>1, <2>1, <2>2, SmoothSame DEF Smooth
<1>6. QED
  BY <1>2, <1>3, <1>4, <1>5 DEF FrontKept

-----------------------------------------------------------------------------
(* The invariant *)

LEMMA RefreshInit == Init => RefreshInv
<1> SUFFICES ASSUME Init PROVE RefreshInv
  OBVIOUS
<1>1. PICK s \in Sids, j \in Jtis :
        /\ sessions = [z \in Sids |-> IF z = s THEN [B!NewSession(user) EXCEPT !.jti = j]
                                               ELSE B!NoSession]
        /\ tokens = {[sid |-> s, gen |-> 0, jti |-> j]}
        /\ cookie = j
  BY DEF Init
<1>2. /\ user = [version |-> 1, status |-> "active", verified |-> TRUE]
      /\ signup = FALSE /\ resets = {} /\ reported = {} /\ torn = FALSE
      /\ req = [r \in Requests |-> B!NoRequest]
      /\ pages = [p \in Pages |-> NoPage] /\ old = {}
      /\ rotations = [i \in Jtis |-> NoEntry] /\ calls = [r \in Requests |-> NoCall]
      /\ losses = 0 /\ slipped = FALSE
  BY DEF Init
<1> DEFINE row == [B!NewSession(user) EXCEPT !.jti = j]
<1>3. /\ row \in B!Session /\ row.made /\ row.gen = 0 /\ row.jti = j /\ row.version = 1
      /\ ~row.revoked /\ ~row.expired
  <2> DEFINE new == B!NewSession(user)
  <2>1. /\ new \in B!Session /\ new.made /\ new.gen = 0 /\ new.version = 1
        /\ ~new.revoked /\ ~new.expired
    <3>1. user.version = 1
      BY <1>2
    <3>2. PICK scope \in B!Scope :
            scope = IF user.status = "active" /\ user.verified THEN "full" ELSE "phone_onboarding"
      BY DEF B!Scope
    <3> DEFINE x == [B!NoSession EXCEPT !.made = TRUE, !.version = 1, !.scope = scope]
    <3>3. /\ B!NoSession.gen = 0 /\ ~B!NoSession.revoked /\ ~B!NoSession.expired
          /\ B!NoSession \in B!Session
      BY BackTypes DEF B!NoSession
    <3>4. /\ x \in B!Session /\ x.made /\ x.gen = 0 /\ x.version = 1
          /\ ~x.revoked /\ ~x.expired
      <4>1. 1 \in 1 .. MaxVersion
        BY RefreshAssumption
      <4>2. x.made = TRUE /\ x.version = 1 /\ x.gen = 0
        BY <3>3 DEF B!Session
      <4>3. x.revoked = B!NoSession.revoked /\ x.expired = B!NoSession.expired
        BY <3>3 DEF B!Session
      <4>4. x \in B!Session
        BY <3>3, <4>1 DEF B!Session
      <4>5. QED
        BY <3>3, <4>2, <4>3, <4>4
    <3>5. new = x
      BY <3>1, <3>2 DEF B!NewSession
    <3> HIDE DEF x
    <3>6. QED
      BY <3>4, <3>5, Zenon
  <2> HIDE DEF new
  <2>2. LET x == [new EXCEPT !.jti = j]
        IN  /\ x \in B!Session /\ x.made /\ x.gen = 0 /\ x.jti = j /\ x.version = 1
            /\ ~x.revoked /\ ~x.expired
    BY <2>1 DEF B!Session
  <2>3. QED
    BY <2>2 DEF new
<1>4. B!NoSession.version = 1
  BY DEF B!NoSession
<1> HIDE DEF row
<1>5. /\ sessions \in [Sids -> B!Session] /\ sessions[s] = row
      /\ \A z \in Sids : sessions[z].version = 1
  BY <1>1, <1>3, <1>4, BackTypes DEF row
<1>6. PICK t : t = [sid |-> s, gen |-> 0, jti |-> j]
  OBVIOUS
<1>7. tokens = {t} /\ t.sid = s /\ t.gen = 0 /\ t.jti = j /\ t \in B!Token
  BY <1>1, <1>6 DEF B!Token
<1>8. B!TypeOK
  BY <1>2, <1>3, <1>5, <1>7, BackTypes DEF B!TypeOK, B!Made
<1>9. Backend
  <2>1. [sid |-> s, gen |-> sessions[s].gen, jti |-> sessions[s].jti] = t
    BY <1>3, <1>5, <1>6
  <2>2. QED
    BY <1>2, <1>3, <1>5, <1>7, <2>1 DEF Backend
<1>10. \A r \in Requests : req[r].at = "idle" /\ calls[r].state = "none"
  BY <1>2, Records DEF B!NoRequest
<1>11. \A p \in Pages : pages[p].at = "idle"
  BY <1>2, Records
<1>12. \A i \in Jtis : rotations[i].state = "none"
  BY <1>2, Records
<1>13. FrontOK
  <2>1. pages \in [Pages -> PageType] /\ rotations \in [Jtis -> EntryType]
    BY <1>2, Records
  <2>2. calls \in [Requests -> CallType]
    BY <1>2, Records
  <2>3. losses \in 0 .. MaxLosses
    BY <1>2, RefreshAssumption
  <2>4. QED
    BY <1>1, <1>2, <2>1, <2>2, <2>3 DEF FrontOK
<1>14. Lock /\ Held /\ Order
  BY <1>1, <1>7, <1>10, <1>11, <1>12 DEF Lock, Held, Order, Carries, Known, Became
<1>15. Cause
  BY <1>1, <1>10, <1>11, <1>12, RefreshAssumption DEF Cause
<1>16. TypeOK
  BY <1>8, <1>13, FrontTyped
<1>17. Smooth
  <2>1. Gen(j) = 0
    BY <1>7, <1>9, TokenOfIs DEF Gen
  <2>2. \A i \in Jtis : InUse(i) => i = j
    BY <1>1, <1>11 DEF InUse, Carries
  <2>3. Fresh /\ Reach
    BY <1>1, <1>7, <2>1, <2>2 DEF Fresh, Reach, Newest
  <2>4. Flight /\ Owed
    BY <1>10, <1>11, <1>12 DEF Flight, Owed
  <2>5. QED
    BY <1>2, <2>3, <2>4 DEF Smooth
<1>18. QED
  BY <1>9, <1>14, <1>15, <1>16, <1>17 DEF RefreshInv

LEMMA RefreshNext == RefreshInv /\ [Next]_vars => RefreshInv'
<1> SUFFICES ASSUME RefreshInv, [Next]_vars PROVE RefreshInv'
  OBVIOUS
<1>1. TypeOK /\ Backend /\ Lock /\ Held /\ Smooth
  BY DEF RefreshInv
<1>2. ASSUME BackKept, FrontKept PROVE RefreshInv'
  <2>1. TypeOK' <=> B!TypeOK' /\ FrontOK'
    BY DEF TypeOK, FrontOK, PageType, EntryType, CallType
  <2>2. QED
    BY <1>2, <2>1 DEF BackKept, FrontKept, RefreshInv
<1>3. ASSUME UNCHANGED backend, UNCHANGED calls PROVE BackKept
  <2>1. CallsKept
    BY <1>3 DEF CallsKept
  <2>2. QED
    BY <1>1, <1>3, <2>1, BackendSame DEF BackKept
<1>4. ASSUME NEW p \in Pages, NEW must \in BOOLEAN, Send(p, must) PROVE RefreshInv'
  BY <1>2, <1>3, <1>4, SendStep DEF Send
<1>5. ASSUME NEW p \in Pages, Deliver(p) PROVE RefreshInv'
  BY <1>2, <1>3, <1>5, DeliverStep DEF Deliver
<1>6. ASSUME NEW p \in Pages, Drop(p) PROVE RefreshInv'
  BY <1>2, <1>3, <1>6, DropStep DEF Drop
<1>7. ASSUME NEW p \in Pages, Keep(p) PROVE RefreshInv'
  BY <1>2, <1>3, <1>7, KeepStep DEF Keep
<1>8. ASSUME NEW p \in Pages, Join(p) PROVE RefreshInv'
  BY <1>2, <1>3, <1>8, JoinStep DEF Join
<1>9. ASSUME NEW p \in Pages, CallExpired(p) PROVE RefreshInv'
  BY <1>2, <1>3, <1>9, CallExpiredStep DEF CallExpired
<1>10. ASSUME NEW p \in Pages, NEW r \in Requests, Call(p, r) PROVE RefreshInv'
  BY <1>1, <1>2, <1>10, CallBack, CallStep
<1>11. ASSUME NEW r \in Requests, Rotate(r) PROVE RefreshInv'
  BY <1>1, <1>2, <1>11, RotateBack, RotateStep
<1>12. ASSUME NEW r \in Requests, Refuse(r) PROVE RefreshInv'
  BY <1>1, <1>2, <1>12, RefuseBack, RefuseStep
<1>13. ASSUME NEW r \in Requests, Break(r) PROVE RefreshInv'
  BY <1>1, <1>2, <1>13, BreakBack, BreakStep
<1>14. ASSUME NEW r \in Requests, Receive(r) PROVE RefreshInv'
  <2>1. CallsKept
    <3>1. calls'[r].state = "none"
      BY <1>1, <1>14, Records, FrontTyped DEF Receive, FrontOK
    <3>2. \A q \in Requests \ {r} : calls'[q] = calls[q]
      BY <1>1, <1>14, FrontTyped DEF Receive, FrontOK
    <3>3. QED
      BY <1>14, <3>1, <3>2 DEF CallsKept, Receive
  <2>2. BackKept
    BY <1>1, <1>14, <2>1, BackendSame DEF BackKept, Receive
  <2>3. QED
    BY <1>2, <1>14, <2>2, ReceiveStep
<1>15. ASSUME NEW r \in Requests, Lose(r) PROVE RefreshInv'
  <2>1. CallsKept
    <3> DEFINE c == IF calls[r].state = "waiting" THEN [calls[r] EXCEPT !.state = "gone"]
                                                  ELSE NoCall
    <3>1. /\ calls[r].state = "waiting" => c.state = "gone" /\ c.of = calls[r].of
          /\ calls[r].state # "waiting" => c.state = "none"
      <4>1. calls[r] \in CallType
        BY <1>1, FrontTyped DEF FrontOK
      <4>2. QED
        BY <4>1, Records DEF CallType
    <3>2. calls' = [calls EXCEPT ![r] = c]
      BY <1>15 DEF Lose
    <3> HIDE DEF c
    <3>3. calls'[r] = c /\ \A q \in Requests \ {r} : calls'[q] = calls[q]
      BY <1>1, <3>2, FrontTyped DEF FrontOK
    <3>4. QED
      BY <1>15, <3>1, <3>3 DEF CallsKept, Lose
  <2>2. BackKept
    BY <1>1, <1>15, <2>1, BackendSame DEF BackKept, Lose
  <2>3. QED
    BY <1>2, <1>15, <2>2, LoseStep
<1>16. ASSUME NEW j \in Jtis, Age(j) PROVE RefreshInv'
  BY <1>2, <1>3, <1>16, AgeStep DEF Age
<1>17. ASSUME NEW j \in Jtis, Forget(j) PROVE RefreshInv'
  BY <1>2, <1>3, <1>17, ForgetStep DEF Forget
<1>18. ASSUME Expire \/ Revoke PROVE RefreshInv'
  BY <1>1, <1>2, <1>18, TimeBack, TimeStep
<1>19. CASE UNCHANGED vars
  <2>1. UNCHANGED backend /\ UNCHANGED front
    BY <1>19 DEF vars
  <2>2. BackKept
    BY <1>3, <2>1 DEF front
  <2>3. /\ UNCHANGED <<cookie, pages, old, rotations, calls, losses, slipped>>
        /\ UNCHANGED <<tokens, sessions, reported>>
    BY <2>1 DEF backend, front
  <2>4. FrontOK' /\ Held' /\ Cause'
    BY <1>1, <2>3, FrontTyped DEF RefreshInv, FrontOK, Held, Carries, Known, Cause, Over
  <2>5. Order'
    BY <2>3, OrderSame DEF RefreshInv, Became
  <2>6. Smooth'
    <3>1. \A j \in Jtis : (InUse(j)' => InUse(j)) /\ (Done(j) => Done(j)')
      BY <2>3 DEF InUse, Done, Carries
    <3>2. (Flight => Flight') /\ (Owed => Owed')
      BY <2>3 DEF Flight, Owed
    <3>3. QED
      BY <1>1, <2>3, <3>1, <3>2, SmoothSame DEF Smooth
  <2>7. QED
    BY <1>2, <2>2, <2>4, <2>5, <2>6 DEF FrontKept
<1>20. QED
  BY <1>4, <1>5, <1>6, <1>7, <1>8, <1>9, <1>10, <1>11, <1>12, <1>13, <1>14, <1>15, <1>16, <1>17,
     <1>18, <1>19 DEF Next

-----------------------------------------------------------------------------
(* Theorems *)

LEMMA RefreshInvariant == Spec => []RefreshInv
BY RefreshInit, RefreshNext, PTL DEF Spec

\* The type invariant, of the frontend and of AuthSession under it.
THEOREM RefreshTypeCorrect == Spec => []TypeOK
<1>1. RefreshInv => TypeOK
  BY DEF RefreshInv
<1>2. QED
  BY <1>1, RefreshInvariant, PTL

\* "Concurrent requests that hold the same refresh token must therefore share one
\* rotation" (token-refresh.ts): while nothing has slipped the backend is never
\* presented a refresh token that has been used.
THEOREM PresentedOnce == Spec => []ReusedOnlyAfterSlip
<1>1. RefreshInv => ReusedOnlyAfterSlip
  BY DEF RefreshInv, Smooth, ReusedOnlyAfterSlip
<1>2. QED
  BY <1>1, RefreshInvariant, PTL

\* The jwt callback clears the session only for a session that has ended, unless
\* something has slipped.
THEOREM LogoutHasCause == Spec => []LoggedOutForCause
<1>1. RefreshInv => LoggedOutForCause
  BY DEF RefreshInv, Cause, Over, LoggedOutForCause
<1>2. QED
  BY <1>1, RefreshInvariant, PTL

\* When every getSession() has been answered, the cookie has the newest pair.
THEOREM RestsWithNewest == Spec => []CookieIsCurrent
<1>1. RefreshInv => CookieIsCurrent
  <2> SUFFICES ASSUME RefreshInv, \A p \in Pages : pages[p].at = "idle", cookie \in Jtis, ~slipped,
                      NEW t \in tokens, Newer(t.jti, cookie)
               PROVE  FALSE
    BY DEF CookieIsCurrent
  <2>1. TypeOK /\ Backend /\ Held /\ Flight /\ Fresh /\ Owed
    BY DEF RefreshInv, Smooth
  <2>2. PICK c \in Jtis : c = cookie
    OBVIOUS
  <2>3. Known(c) /\ c # "expired"
    BY <2>1, <2>2, RefreshAssumption DEF Held
  <2>4. TokenOf(t.jti).gen = t.gen /\ TokenOf(c).gen = Gen(c) /\ Gen(c) \in Nat /\ t.gen \in Nat
    BY <2>1, <2>3, TokenOfIs, KnownPair DEF TypeOK, B!TypeOK, B!Token
  <2>5. ~Newest(c)
    BY <2>2, <2>4 DEF Newer, Newest
  <2>6. Done(c)
    BY <2>1, <2>2, <2>5 DEF Fresh, InUse
  <2>7. CASE rotations[c].state = "ok"
    BY <2>1, <2>2, <2>7 DEF Owed
  <2>8. CASE \E r \in Requests : calls[r].state = "ok" /\ calls[r].of = c
    BY <2>1, <2>8 DEF Flight
  <2>9. QED
    BY <2>6, <2>7, <2>8 DEF Done
<1>2. QED
  BY <1>1, RefreshInvariant, PTL
=============================================================================
