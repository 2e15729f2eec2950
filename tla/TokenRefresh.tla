--------------------------- MODULE TokenRefresh ----------------------------
(***************************************************************************)
(* One browser and the frontend's server between it and AuthSession: the   *)
(* session cookie, the jwt callback that every getSession() runs           *)
(* (lib/auth.ts), and the rotations it shares (lib/token-refresh.ts).      *)
(*                                                                         *)
(* The user has logged in once. A pair of tokens is its jti, which is the  *)
(* order of nothing: which pair is newer is what the backend knows. Time   *)
(* appears as three steps, each as late as the code allows: an access      *)
(* token comes near its expiry (14 minutes after it was issued), a cached  *)
(* rotation is 60 s old, a call has taken 10 s. A request of the browser   *)
(* is over sooner than 60 s after the rotation it needed began.            *)
(***************************************************************************)
EXTENDS Integers, FiniteSets

CONSTANTS
  Requests,   \* rotations the backend serves at a time
  Sids,       \* the session
  Jtis,       \* bound: pairs of tokens that are ever issued
  MaxVersion, \* of AuthSession; no account write happens here
  Pages,      \* requests of the browser that run at a time
  MaxLosses   \* bound: calls and replies that are lost, or answered by an error

\* What is not a pair is told from one.
ASSUME RefreshAssumption ==
  /\ MaxVersion \in Nat \ {0} /\ MaxLosses \in Nat
  /\ "none" \notin Jtis /\ "expired" \notin Jtis

VARIABLES
  user, sessions, tokens, signup, resets, req, reported, torn,  \* AuthSession
  cookie,     \* the pair in the browser's cookie, or "expired"
  pages,      \* the requests of the browser
  old,        \* pairs whose access token is about to expire
  rotations,  \* the Map of token-refresh.ts
  calls,      \* calls of authApi.refresh
  losses,     \* how many times something was lost
  slipped     \* an older pair came back to the cookie, or an answer was lost or an error

backend == <<user, sessions, tokens, signup, resets, req, reported, torn>>
front == <<cookie, pages, old, rotations, calls, losses, slipped>>
vars == <<backend, front>>

B == INSTANCE AuthSession

None == "none"
NoPage == [at |-> "idle", tok |-> None, must |-> FALSE]
NoEntry == [state |-> "none", to |-> None]
NoCall == [state |-> "none", of |-> None, to |-> None]

\* The browser has just logged in: the backend has opened a session for it.
Init ==
  /\ user = [version |-> 1, status |-> "active", verified |-> TRUE]
  /\ \E s \in Sids, j \in Jtis :
       /\ sessions = [z \in Sids |-> IF z = s THEN [B!NewSession(user) EXCEPT !.jti = j]
                                              ELSE B!NoSession]
       /\ tokens = {[sid |-> s, gen |-> 0, jti |-> j]}
       /\ cookie = j
  /\ signup = FALSE /\ resets = {} /\ reported = {} /\ torn = FALSE
  /\ req = [r \in Requests |-> B!NoRequest]
  /\ pages = [p \in Pages |-> NoPage]
  /\ old = {}
  /\ rotations = [j \in Jtis |-> NoEntry]
  /\ calls = [r \in Requests |-> NoCall]
  /\ losses = 0 /\ slipped = FALSE

TokenOf(j) == CHOOSE t \in tokens : t.jti = j
Newer(j, k) == TokenOf(j).gen > TokenOf(k).gen

\* A page gets its reply: the pair j, or "expired".
Replied(page, j) == [page EXCEPT !.at = "reply", !.tok = j]

Slip == losses' = losses + 1 /\ losses < MaxLosses /\ slipped' = TRUE
----------------------------------------------------------------------------
(* The browser *)

\* getSession(): the request carries the cookie. must: it is an update after a
\* 401, for an access token that the backend no longer accepts.
Send(p, must) ==
  /\ pages[p].at = "idle" /\ cookie \in Jtis
  /\ must => cookie \in old \/ \E s \in Sids : sessions[s].revoked \/ sessions[s].expired
  /\ pages' = [pages EXCEPT ![p] = [at |-> "sent", tok |-> cookie, must |-> must]]
  /\ UNCHANGED <<backend, cookie, old, rotations, calls, losses, slipped>>

\* The reply sets the cookie, even back to an earlier pair.
Deliver(p) ==
  /\ pages[p].at = "reply"
  /\ cookie' = pages[p].tok
  /\ slipped' = (slipped \/ (cookie' \in Jtis /\ cookie \in Jtis /\ Newer(cookie, cookie'))
                         \/ (cookie' \in Jtis /\ cookie \notin Jtis))
  /\ pages' = [pages EXCEPT ![p] = NoPage]
  /\ UNCHANGED <<backend, old, rotations, calls, losses>>

\* The page is closed, or the connection ends, before the reply.
Drop(p) ==
  /\ pages[p].at = "reply"
  /\ Slip
  /\ pages' = [pages EXCEPT ![p] = NoPage]
  /\ UNCHANGED <<backend, cookie, old, rotations, calls>>
----------------------------------------------------------------------------
(* The jwt callback *)

\* needsRefresh is false: the reply is the pair that came.
Keep(p) ==
  /\ pages[p].at = "sent" /\ ~pages[p].must
  /\ pages[p].tok \notin old
  /\ pages' = [pages EXCEPT ![p] = Replied(@, @.tok)]
  /\ UNCHANGED <<backend, cookie, old, rotations, calls, losses, slipped>>

Refreshes(p) == pages[p].at = "sent" /\ (pages[p].must \/ pages[p].tok \in old)

\* rotate: there is a rotation of this refresh token already.
Join(p) == LET e == rotations[pages[p].tok] IN
  /\ Refreshes(p)
  /\ e.state # "none"
  /\ pages' = [pages EXCEPT ![p] =
       CASE e.state = "pending" -> [@ EXCEPT !.at = "waiting"]
         [] e.state = "ok"      -> Replied(@, e.to)
         [] e.state = "refused" -> Replied(@, "expired")]
  /\ UNCHANGED <<backend, cookie, old, rotations, calls, losses, slipped>>

\* Mutant of Call: the Map is not asked for a rotation of the same token.
Call_Unshared(p, r) == LET j == pages[p].tok IN
  /\ Refreshes(p)
  /\ calls[r] = NoCall
  /\ B!Rotate(r, TokenOf(j))
  /\ calls' = [calls EXCEPT ![r] = [state |-> "waiting", of |-> j, to |-> None]]
  /\ rotations' = [rotations EXCEPT ![j] = [state |-> "pending", to |-> None]]
  /\ pages' = [pages EXCEPT ![p].at = "waiting"]
  /\ UNCHANGED <<cookie, old, losses, slipped>>

\* rotate: there is none; the call arrives at the backend, which locks the session.
Call(p, r) == LET j == pages[p].tok IN
  /\ Refreshes(p)
  /\ rotations[j].state = "none"
  /\ calls[r] = NoCall
  /\ B!Rotate(r, TokenOf(j))
  /\ calls' = [calls EXCEPT ![r] = [state |-> "waiting", of |-> j, to |-> None]]
  /\ rotations' = [rotations EXCEPT ![j] = [state |-> "pending", to |-> None]]
  /\ pages' = [pages EXCEPT ![p].at = "waiting"]
  /\ UNCHANGED <<cookie, old, losses, slipped>>

\* The same, with a refresh token that has expired: the backend looks no further.
CallExpired(p) == LET j == pages[p].tok IN
  /\ Refreshes(p)
  /\ rotations[j].state = "none"
  /\ sessions[TokenOf(j).sid].expired
  /\ rotations' = [rotations EXCEPT ![j] = [state |-> "refused", to |-> None]]
  /\ pages' = [pages EXCEPT ![p] = Replied(@, "expired")]
  /\ UNCHANGED <<backend, cookie, old, calls, losses, slipped>>

\* The backend's answer to a call; nobody waits for that of a call given up.
Answered(r, state, j) ==
  calls' = [calls EXCEPT ![r] = IF @.state = "waiting"
                                THEN [@ EXCEPT !.state = state, !.to = j] ELSE NoCall]

Rotate(r) ==
  /\ B!Rotated(r)
  /\ \E t \in tokens' \ tokens : Answered(r, "ok", t.jti)
  /\ UNCHANGED <<cookie, pages, old, rotations, losses, slipped>>

Refuse(r) ==
  /\ B!Reused(r) \/ B!Rejected(r)
  /\ Answered(r, "refused", None)
  /\ UNCHANGED <<cookie, pages, old, rotations, losses, slipped>>

\* The backend, or the proxy before it, answers with an error of its own: the
\* transaction is rolled back. Of a call given up, it may be that it never arrived.
Break(r) ==
  /\ req[r].at = "rotate"
  /\ B!Ends(r)
  /\ Answered(r, "refused", None)
  /\ IF calls[r].state = "gone" THEN UNCHANGED <<losses, slipped>> ELSE Slip
  /\ UNCHANGED <<user, sessions, tokens, signup, resets, reported, torn>>
  /\ UNCHANGED <<cookie, pages, old, rotations>>

\* Mutants of Woken: an update ends the session although it got a new pair; the
\* pages do not take the new pair over.
Woken_Ends(j, to) == [p \in Pages |->
  IF pages[p].at = "waiting" /\ pages[p].tok = j
  THEN Replied(pages[p], IF pages[p].must THEN "expired" ELSE to)
  ELSE pages[p]]
Woken_Same(j, to) == [p \in Pages |->
  IF pages[p].at = "waiting" /\ pages[p].tok = j THEN Replied(pages[p], j) ELSE pages[p]]

\* The pages that wait for the rotation of pair j go on with what became of it. An
\* update that comes back without a new pair ends the session.
Woken(j, to) == [p \in Pages |->
  IF pages[p].at = "waiting" /\ pages[p].tok = j
  THEN Replied(pages[p], IF to = j /\ pages[p].must THEN "expired" ELSE to)
  ELSE pages[p]]

\* Mutant of Receive: the rejection of a shared rotation is taken for a pair.
Receive_Uncaught(r) == LET c == calls[r] IN
  /\ c.state \in {"ok", "refused"}
  /\ rotations' = [rotations EXCEPT ![c.of] = [state |-> c.state, to |-> c.to]]
  /\ pages' = Woken(c.of, c.to)
  /\ calls' = [calls EXCEPT ![r] = NoCall]
  /\ UNCHANGED <<backend, cookie, old, losses, slipped>>

\* The call returns: its result is kept for late arrivals, a refusal too.
Receive(r) == LET c == calls[r] IN
  /\ c.state \in {"ok", "refused"}
  /\ rotations' = [rotations EXCEPT ![c.of] = [state |-> c.state, to |-> c.to]]
  /\ pages' = Woken(c.of, IF c.state = "ok" THEN c.to ELSE "expired")
  /\ calls' = [calls EXCEPT ![r] = NoCall]
  /\ UNCHANGED <<backend, cookie, old, losses, slipped>>

\* The call times out or its connection breaks, whether or not the backend has
\* rotated: the entry is removed, and the pages keep the pair they have.
Lose(r) == LET c == calls[r] IN
  /\ c.state \in {"waiting", "ok", "refused"}
  /\ Slip
  /\ rotations' = [rotations EXCEPT ![c.of] = NoEntry]
  /\ pages' = Woken(c.of, c.of)
  /\ calls' = [calls EXCEPT ![r] = IF @.state = "waiting" THEN [@ EXCEPT !.state = "gone"]
                                                          ELSE NoCall]
  /\ UNCHANGED <<backend, cookie, old>>
----------------------------------------------------------------------------
(* Time *)

\* EXPIRY_SKEW_MS before the access token of pair j expires.
Age(j) ==
  /\ \E t \in tokens : t.jti = j
  /\ j \notin old
  /\ old' = old \union {j}
  /\ UNCHANGED <<backend, cookie, pages, rotations, calls, losses, slipped>>

\* RESULT_TTL_MS after the rotation of pair j began. No request of the browser
\* that came with the pair, or got the next one for it, is still under way.
Forget(j) ==
  /\ rotations[j].state \in {"ok", "refused"}
  /\ \A p \in Pages : pages[p].tok \notin {j, rotations[j].to, "expired"}
  /\ rotations' = [rotations EXCEPT ![j] = NoEntry]
  /\ UNCHANGED <<backend, cookie, pages, old, calls, losses, slipped>>

\* The refresh tokens expire, seven days after the login.
Expire ==
  /\ \E s \in Sids : B!Expire(s)
  /\ UNCHANGED front

\* The account ends the session by other means than this browser, whose signOut
\* only clears the cookie; a version that is raised ends it in the same way.
Revoke ==
  /\ \E t \in tokens : B!Logout(t)
  /\ UNCHANGED front
----------------------------------------------------------------------------
Next ==
  \/ \E p \in Pages : \/ \E must \in BOOLEAN : Send(p, must)
                      \/ Deliver(p) \/ Drop(p) \/ Keep(p) \/ Join(p) \/ CallExpired(p)
                      \/ \E r \in Requests : Call(p, r)
  \/ \E r \in Requests : Rotate(r) \/ Refuse(r) \/ Break(r) \/ Receive(r) \/ Lose(r)
  \/ \E j \in Jtis : Age(j) \/ Forget(j)
  \/ Expire \/ Revoke

Spec == Init /\ [][Next]_vars
----------------------------------------------------------------------------
(* Properties *)

Pair == Jtis \union {None}

\* Every variable has its type, and what the frontend holds are pairs of the backend.
TypeOK ==
  /\ B!TypeOK
  /\ cookie \in Jtis \union {"expired"}
  /\ pages \in [Pages -> [at : {"idle", "sent", "waiting", "reply"},
                          tok : Pair \union {"expired"}, must : BOOLEAN]]
  /\ rotations \in [Jtis -> [state : {"none", "pending", "ok", "refused"}, to : Pair]]
  /\ calls \in [Requests -> [state : {"none", "waiting", "ok", "refused", "gone"},
                             of : Pair, to : Pair]]
  /\ losses \in 0 .. MaxLosses /\ slipped \in BOOLEAN
  /\ old \subseteq {t.jti : t \in tokens}

\* The frontend presents a refresh token once: "Concurrent requests that hold the
\* same refresh token must therefore share one rotation, and late arrivals reuse
\* its result" (token-refresh.ts). So it is as long as no answer was lost and no
\* reply has put an older pair back into the cookie.
ReusedOnlyAfterSlip == reported # {} => slipped

\* The user is logged out only when the session has ended, or after such a slip.
LoggedOutForCause ==
  cookie = "expired" => slipped \/ \E s \in Sids : sessions[s].revoked \/ sessions[s].expired

\* A browser at rest has the newest pair of its session: when every request has
\* been answered, no rotation has left it with a pair that is used up.
CookieIsCurrent ==
  (\A p \in Pages : pages[p].at = "idle") /\ cookie \in Jtis /\ ~slipped
    => \A t \in tokens : ~Newer(t.jti, cookie)
=============================================================================
