------------------------------- MODULE Signup -------------------------------
(***************************************************************************)
(* A person registers: the form (SignupForm.tsx), the API and the row of   *)
(* the SIGNUP challenge (services/signup.py, services/verification.py,     *)
(* views/verification.py), and the task that sends its codes               *)
(* (messaging/tasks/verification.py).                                      *)
(*                                                                         *)
(* A request reads the row, then saves the fields it changed; requests     *)
(* overlap, nothing is locked. Codes are numbered in the order of saving.  *)
(***************************************************************************)
EXTENDS Naturals, FiniteSets

CONSTANTS
  Requests,     \* requests that are under way at a time
  MaxAttempts,  \* wrong codes per code: 5
  MaxResends,   \* codes after the first: 5
  MaxFaults     \* bound: slips of the person, replies and messages lost, crashes, expiries

ASSUME LimitAssumption == MaxAttempts \in Nat \ {0} /\ MaxResends \in Nat /\ MaxFaults \in Nat

VARIABLES
  account,    \* the User row
  challenge,  \* the VerificationChallenge row
  minted,     \* codes saved
  guesses,    \* codes that were compared with the one saved last
  outbox,     \* codes of the messages that are queued
  inbox,      \* the code the person received last
  form,
  req,
  faults

vars == <<account, challenge, minted, guesses, outbox, inbox, form, req, faults>>

NoChallenge == [code |-> 0, attempts |-> 0, resends |-> 0, expired |-> FALSE,
                cooling |-> FALSE, consumed |-> FALSE]
NewChallenge == [NoChallenge EXCEPT !.code = 1, !.cooling = TRUE]
NoRequest == [at |-> "idle", op |-> "none", code |-> 0, row |-> NoChallenge,
              awaited |-> FALSE, reply |-> "none"]

Init ==
  /\ account = "none" /\ challenge = NoChallenge /\ minted = 0 /\ guesses = 0
  /\ outbox = {} /\ inbox = 0
  /\ form = [stage |-> "details", loading |-> FALSE, refused |-> 0]
  /\ req = [r \in Requests |-> NoRequest] /\ faults = 0

Fault == faults < MaxFaults /\ faults' = faults + 1
At(r, op, place) == req[r].op = op /\ req[r].at = place
Goes(r, place) == req' = [req EXCEPT ![r].at = place]

\* The request ends; the form may have given up on it.
Replies(r, reply) ==
  req' = [req EXCEPT ![r] =
            IF @.awaited THEN [NoRequest EXCEPT !.at = "reply", !.op = req[r].op, !.reply = reply,
                                                !.code = req[r].code, !.awaited = TRUE]
                         ELSE NoRequest]
-----------------------------------------------------------------------------
(* The form and the person *)

Sends(r, op, code) ==
  /\ req[r] = NoRequest
  /\ req' = [req EXCEPT ![r] = [NoRequest EXCEPT !.at = "sent", !.op = op, !.code = code,
                                                 !.awaited = TRUE]]
  /\ form' = [form EXCEPT !.loading = @ \/ op # "resend"]
  /\ UNCHANGED <<account, challenge, minted, guesses, outbox, inbox>>

Submit(r) ==
  /\ form.stage = "details" /\ ~form.loading
  /\ Sends(r, "signup", 0)
  /\ UNCHANGED faults

\* The person types the code that came last, if it has not been refused.
Confirm(r) ==
  /\ form.stage = "code" /\ ~form.loading /\ inbox \notin {0, form.refused}
  /\ Sends(r, "confirm", inbox)
  /\ UNCHANGED faults

Mistype(r) ==
  /\ form.stage = "code" /\ ~form.loading /\ Fault
  /\ Sends(r, "confirm", 0)

\* The button is there while other requests are under way as well. A patient person uses
\* it when no code is left to try, and none is on its way.
Stuck == /\ inbox \in {0, form.refused} /\ outbox = {} /\ ~form.loading
         /\ \A r \in Requests : req[r].op # "resend"

Resend(r) ==
  /\ form.stage = "code"
  /\ (Stuck /\ UNCHANGED faults) \/ (~Stuck /\ Fault)
  /\ Sends(r, "resend", 0)

\* After a confirmation the form signs in.
Shown(r) == LET q == req[r] IN
  CASE q.op = "resend" -> {form}
    [] q.op # "resend" /\ q.reply # "ok" ->
         {[form EXCEPT !.loading = FALSE,
                       !.refused = IF q.reply = "refused" THEN q.code ELSE @]}
    [] q.op = "signup" /\ q.reply = "ok" -> {[form EXCEPT !.loading = FALSE, !.stage = "code"]}
    [] OTHER -> {[form EXCEPT !.stage = stage] : stage \in {"dashboard", "login"}}

Deliver(r) ==
  /\ req[r].at = "reply"
  /\ form' \in Shown(r)
  /\ req' = [req EXCEPT ![r] = NoRequest]
  /\ UNCHANGED <<account, challenge, minted, guesses, outbox, inbox, faults>>

\* The timeout of 10 s: the form goes on, and so does the server.
GiveUp(r) ==
  /\ req[r].awaited /\ Fault
  /\ form' = [form EXCEPT !.loading = @ /\ req[r].op = "resend"]
  /\ req' = [req EXCEPT ![r] = IF @.at = "reply" THEN NoRequest ELSE [@ EXCEPT !.awaited = FALSE]]
  /\ UNCHANGED <<account, challenge, minted, guesses, outbox, inbox>>
-----------------------------------------------------------------------------
(* The API *)

same == <<inbox, form, faults>>

\* signup_user: the address is taken, or the account, its challenge and, when they are
\* committed, its message are made.
SignUp(r) ==
  /\ At(r, "signup", "sent")
  /\ \/ /\ account # "none"
        /\ Replies(r, "refused")
        /\ UNCHANGED <<account, challenge, minted, guesses>>
     \/ /\ account = "none"
        /\ account' = "pending" /\ challenge' = NewChallenge /\ minted' = 1 /\ guesses' = 0
        /\ Goes(r, "queue")
  /\ UNCHANGED <<outbox, same>>

Verifiable_OneMore(row) == ~row.consumed /\ ~row.expired /\ row.attempts <= MaxAttempts
Verifiable(row) == ~row.consumed /\ ~row.expired /\ row.attempts < MaxAttempts
Resendable(row) == ~row.consumed /\ row.resends < MaxResends /\ ~row.cooling

Reads(r, op, allowed) ==
  /\ At(r, op, "sent")
  /\ IF allowed THEN req' = [req EXCEPT ![r].at = "read", ![r].row = challenge]
                ELSE Replies(r, "refused")
  /\ UNCHANGED <<account, challenge, minted, guesses, outbox, same>>

ReadConfirm(r) == Reads(r, "confirm", Verifiable(challenge))
ReadResend(r) == Reads(r, "resend", Resendable(challenge))

\* The three saves name their fields: what else the row holds by then stays. What they
\* write comes from the row as it was read: of two increments one is lost.
Guessed(row) == guesses' = IF row.code = challenge.code THEN guesses + 1 ELSE guesses

Wrong_SavesRow(r) == LET row == req[r].row IN
  /\ At(r, "confirm", "read") /\ req[r].code # row.code
  /\ challenge' = [row EXCEPT !.attempts = row.attempts + 1]
  /\ Guessed(row)
  /\ Replies(r, "refused")
  /\ UNCHANGED <<account, minted, outbox, same>>

Wrong(r) == LET row == req[r].row IN
  /\ At(r, "confirm", "read") /\ req[r].code # row.code
  /\ challenge' = [challenge EXCEPT !.attempts = row.attempts + 1]
  /\ Guessed(row)
  /\ Replies(r, "refused")
  /\ UNCHANGED <<account, minted, outbox, same>>

Right(r) == LET row == req[r].row IN
  /\ At(r, "confirm", "read") /\ req[r].code = row.code
  /\ challenge' = [challenge EXCEPT !.attempts = row.attempts + 1, !.consumed = TRUE]
  /\ Guessed(row)
  /\ Goes(r, "activate")
  /\ UNCHANGED <<account, minted, outbox, same>>

Activate(r) ==
  /\ At(r, "confirm", "activate")
  /\ account' = "active"
  /\ Replies(r, "ok")
  /\ UNCHANGED <<challenge, minted, guesses, outbox, same>>

Mint_StaysExpired(r) ==
  /\ At(r, "resend", "read")
  /\ minted' = minted + 1 /\ guesses' = 0
  /\ challenge' = [challenge EXCEPT !.code = minted', !.attempts = 0, !.cooling = TRUE,
                                    !.resends = req[r].row.resends + 1]
  /\ req' = [req EXCEPT ![r].at = "queue", ![r].code = minted']
  /\ UNCHANGED <<account, outbox, same>>

Mint(r) ==
  /\ At(r, "resend", "read")
  /\ minted' = minted + 1 /\ guesses' = 0
  /\ challenge' = [challenge EXCEPT !.code = minted', !.attempts = 0, !.cooling = TRUE,
                                    !.resends = req[r].row.resends + 1, !.expired = FALSE]
  /\ req' = [req EXCEPT ![r].at = "queue", ![r].code = minted']
  /\ UNCHANGED <<account, outbox, same>>

\* transaction.on_commit.
Queue(r) ==
  /\ req[r].at = "queue"
  /\ outbox' = outbox \union {IF req[r].op = "signup" THEN 1 ELSE req[r].code}
  /\ Replies(r, "ok")
  /\ UNCHANGED <<account, challenge, minted, guesses, same>>

\* The server stops in the middle of a request.
Crash(r) ==
  /\ req[r].at \in {"sent", "read", "activate", "queue"} /\ Fault
  /\ Replies(r, "failed")
  /\ UNCHANGED <<account, challenge, minted, guesses, outbox, inbox, form>>

Serve(r) == \/ SignUp(r) \/ ReadConfirm(r) \/ ReadResend(r) \/ Wrong(r) \/ Right(r)
            \/ Activate(r) \/ Mint(r) \/ Queue(r)
-----------------------------------------------------------------------------
(* Messages and time *)

\* The task looks at the challenge, not at whether its code is still the one.
Send(c) ==
  /\ c \in outbox
  /\ outbox' = outbox \ {c}
  /\ inbox' = IF challenge.expired \/ challenge.consumed THEN inbox ELSE c
  /\ UNCHANGED <<account, challenge, minted, guesses, form, req, faults>>

Lose(c) ==
  /\ c \in outbox /\ Fault
  /\ outbox' = outbox \ {c}
  /\ UNCHANGED <<account, challenge, minted, guesses, inbox, form, req>>

Expire ==
  /\ account # "none" /\ ~challenge.expired /\ Fault
  /\ challenge' = [challenge EXCEPT !.expired = TRUE]
  /\ UNCHANGED <<account, minted, guesses, outbox, inbox, form, req>>

Cool ==
  /\ challenge.cooling
  /\ challenge' = [challenge EXCEPT !.cooling = FALSE]
  /\ UNCHANGED <<account, minted, guesses, outbox, inbox, form, req, faults>>
-----------------------------------------------------------------------------
Next ==
  \/ \E r \in Requests : \/ Submit(r) \/ Confirm(r) \/ Mistype(r) \/ Resend(r) \/ Deliver(r)
                         \/ GiveUp(r) \/ Serve(r) \/ Crash(r)
  \/ \E c \in outbox : Send(c) \/ Lose(c)
  \/ Expire \/ Cool

Spec == Init /\ [][Next]_vars

\* The server serves, the tasks run, time passes, and the person goes on: types a code
\* that came, asks for another when stuck.
FairSpec ==
  /\ Spec
  /\ \A r \in Requests : WF_vars(Serve(r)) /\ WF_vars(Deliver(r))
  /\ WF_vars(\E c \in outbox : Send(c)) /\ WF_vars(Cool)
  /\ WF_vars(\E r \in Requests : Confirm(r)) /\ WF_vars(Stuck /\ \E r \in Requests : Resend(r))
-----------------------------------------------------------------------------
(* Properties *)

\* The types of the variables. The counters of the row are within their limits; what
\* they count is not (AttemptsLimited).
TypeOK ==
  LET Code == 0..minted
      Row == [code: Code, attempts: 0..MaxAttempts, resends: 0..MaxResends,
              expired: BOOLEAN, cooling: BOOLEAN, consumed: BOOLEAN]
  IN /\ account \in {"none", "pending", "active"} /\ challenge \in Row
     /\ minted \in Nat /\ guesses \in Nat
     /\ outbox \subseteq Code /\ inbox \in Code /\ faults \in 0..MaxFaults
     /\ form \in [stage: {"details", "code", "dashboard", "login"}, loading: BOOLEAN,
                  refused: Code]
     /\ req \in [Requests -> [at: {"idle", "sent", "read", "activate", "queue", "reply"},
                              op: {"none", "signup", "confirm", "resend"}, code: Code,
                              row: Row, awaited: BOOLEAN,
                              reply: {"none", "ok", "refused", "failed"}]]

\* A used challenge stays used, and a code that was replaced does not come back, although
\* requests save what they computed from a row they read before.
NothingUndone ==
  [][/\ challenge.consumed => challenge'.consumed
     /\ challenge'.code >= challenge.code]_vars

\* "Enforces ... max attempts" (services/verification.py:77): no more codes are compared
\* with a saved one than it allows.
AttemptsLimited == guesses <= MaxAttempts

\* A person who holds the challenge and goes on gets an account that works, if there are
\* two codes more for every misfortune; unless the server stopped between using up the
\* challenge and activating the account, which nothing repairs.
CutShort == /\ challenge.consumed /\ account = "pending"
            /\ \A r \in Requests : req[r].at # "activate"
GetsIn == form.stage = "code" ~> account = "active" \/ CutShort
=============================================================================
