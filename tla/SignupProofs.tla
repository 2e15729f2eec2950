---------------------------- MODULE SignupProofs ----------------------------
(***************************************************************************)
(* Proofs about Signup, for any number of requests that overlap, any       *)
(* limits, and any number of misfortunes: every request saves what it      *)
(* computed from a row it read before, and yet a used challenge stays used *)
(* and a replaced code does not come back. The row's counters stay within  *)
(* their limits; the guesses that they should count do not.                *)
(***************************************************************************)
EXTENDS Signup, TLAPS

Accounts == {"none", "pending", "active"}
Places == {"idle", "sent", "read", "activate", "queue", "reply"}
Ops == {"none", "signup", "confirm", "resend"}
Answers == {"none", "ok", "refused", "failed"}

\* The types of the records when n codes have been saved.
RowOf(n) == [code: 0..n, attempts: 0..MaxAttempts, resends: 0..MaxResends,
             expired: BOOLEAN, cooling: BOOLEAN, consumed: BOOLEAN]
FormOf(n) == [stage: {"details", "code", "dashboard", "login"}, loading: BOOLEAN,
              refused: 0..n]
RequestOf(n) == [at: Places, op: Ops, code: 0..n, row: RowOf(n), awaited: BOOLEAN,
                 reply: Answers]

TypeInv ==
  /\ account \in Accounts /\ challenge \in RowOf(minted) /\ minted \in Nat
  /\ outbox \subseteq 0..minted /\ inbox \in 0..minted /\ faults \in 0..MaxFaults
  /\ form \in FormOf(minted) /\ req \in [Requests -> RequestOf(minted)]

\* Nobody gets past the details before the account is there, and with it the row. A signup
\* that finds it is the only one to make it.
AccountInv ==
  /\ account = "none" =>
       /\ challenge = NoChallenge /\ minted = 0 /\ form.stage = "details"
       /\ \A r \in Requests : /\ req[r].op \in {"none", "signup"}
                              /\ req[r].at \in {"idle", "sent", "reply"}
                              /\ req[r].reply # "ok"
  /\ account # "none" => minted > 0

\* What a request has read allowed what it is about to do.
ReadInv ==
  \A r \in Requests :
    /\ At(r, "confirm", "read") => req[r].row.attempts < MaxAttempts
    /\ At(r, "resend", "read") => req[r].row.resends < MaxResends

SignupInv == TypeInv /\ AccountInv /\ ReadInv

-----------------------------------------------------------------------------
(* Records. *)

LEMMA Blank ==
  ASSUME NEW n \in Nat
  PROVE  NoChallenge \in RowOf(n) /\ NoRequest \in RequestOf(n)
<1>1. NoChallenge \in RowOf(n)
  BY LimitAssumption DEF NoChallenge, RowOf
<1>2. QED
  BY <1>1 DEF NoRequest, RequestOf, Places, Ops, Answers

\* A request whose row, code, place and the rest are of their types.
LEMMA RequestWith ==
  ASSUME NEW n \in Nat, NEW q \in RequestOf(n),
         NEW at \in Places, NEW op \in Ops, NEW code \in 0..n, NEW row \in RowOf(n),
         NEW awaited \in BOOLEAN, NEW reply \in Answers
  PROVE  /\ [q EXCEPT !.at = at] \in RequestOf(n)
         /\ [q EXCEPT !.at = at, !.row = row] \in RequestOf(n)
         /\ [q EXCEPT !.at = at, !.code = code] \in RequestOf(n)
         /\ [q EXCEPT !.awaited = awaited] \in RequestOf(n)
         /\ [q EXCEPT !.at = at, !.op = op, !.code = code, !.awaited = awaited] \in RequestOf(n)
         /\ [q EXCEPT !.at = at, !.op = op, !.reply = reply, !.code = code,
                      !.awaited = awaited] \in RequestOf(n)
BY DEF RequestOf

LEMMA FormWith ==
  ASSUME NEW n \in Nat, NEW f \in FormOf(n), NEW loading \in BOOLEAN,
         NEW stage \in {"code", "dashboard", "login"}, NEW refused \in 0..n
  PROVE  /\ [f EXCEPT !.loading = loading] \in FormOf(n)
         /\ [f EXCEPT !.loading = loading, !.stage = stage] \in FormOf(n)
         /\ [f EXCEPT !.loading = loading, !.refused = refused] \in FormOf(n)
         /\ [f EXCEPT !.stage = stage] \in FormOf(n)
BY DEF FormOf

\* When more codes are saved, what was of its type still is.
LEMMA More ==
  ASSUME NEW n \in Nat, NEW m \in Nat, n <= m
  PROVE  0..n \subseteq 0..m /\ RowOf(n) \subseteq RowOf(m) /\ FormOf(n) \subseteq FormOf(m)
         /\ RequestOf(n) \subseteq RequestOf(m)
<1>1. 0..n \subseteq 0..m
  OBVIOUS
<1>2. RowOf(n) \subseteq RowOf(m)
  BY <1>1 DEF RowOf
<1>3. FormOf(n) \subseteq FormOf(m)
  BY <1>1 DEF FormOf
<1>4. RequestOf(n) \subseteq RequestOf(m)
  BY <1>1, <1>2 DEF RequestOf
<1>5. QED
  BY <1>1, <1>2, <1>3, <1>4

LEMMA Replied ==
  ASSUME NEW n \in Nat, req \in [Requests -> RequestOf(n)], NEW r \in Requests,
         NEW reply \in Answers, Replies(r, reply)
  PROVE  /\ req' \in [Requests -> RequestOf(n)]
         /\ \A s \in Requests : s # r => req'[s] = req[s]
         /\ req'[r].at \in {"idle", "reply"} /\ req'[r].op \in {"none", req[r].op}
         /\ req'[r].reply \in {"none", reply}
<1> DEFINE answer == [NoRequest EXCEPT !.at = "reply", !.op = req[r].op, !.reply = reply,
                                       !.code = req[r].code, !.awaited = TRUE]
<1>1. req[r] \in RequestOf(n)
  OBVIOUS
<1>2. req[r].op \in Ops /\ req[r].code \in 0..n
  BY <1>1 DEF RequestOf
<1>3. "reply" \in Places
  BY DEF Places
<1>4. answer \in RequestOf(n) /\ NoRequest \in RequestOf(n)
  BY <1>2, <1>3, Blank, RequestWith
<1>5. /\ answer.at = "reply" /\ answer.op = req[r].op /\ answer.reply = reply
      /\ NoRequest.at = "idle" /\ NoRequest.op = "none" /\ NoRequest.reply = "none"
  BY DEF NoRequest
<1>6. req' = [req EXCEPT ![r] = IF req[r].awaited THEN answer ELSE NoRequest]
  BY DEF Replies
<1> HIDE DEF answer
<1>7. QED
  BY <1>4, <1>5, <1>6

-----------------------------------------------------------------------------
(* The form and the person. *)

LEMMA SendsKeeps ==
  ASSUME SignupInv, NEW r \in Requests, NEW op \in Ops \ {"none"}, NEW code \in 0..minted,
         Sends(r, op, code), faults' \in 0..MaxFaults, account = "none" => op = "signup"
  PROVE  SignupInv'
<1> DEFINE new == [NoRequest EXCEPT !.at = "sent", !.op = op, !.code = code, !.awaited = TRUE]
<1>1. UNCHANGED <<account, challenge, minted, outbox, inbox>>
  BY DEF Sends
<1>2. new \in RequestOf(minted) /\ new.at = "sent" /\ new.op = op /\ new.reply = "none"
  <2>1. NoRequest \in RequestOf(minted) /\ "sent" \in Places
    BY Blank DEF SignupInv, TypeInv, Places
  <2>2. new \in RequestOf(minted)
    BY <2>1 DEF RequestOf, Ops
  <2>3. QED
    BY <2>2 DEF NoRequest
<1>3. req' = [req EXCEPT ![r] = new]
  BY DEF Sends
<1> HIDE DEF new
<1>4. form' = [form EXCEPT !.loading = form.loading \/ op # "resend"]
  BY DEF Sends
<1>5. form' \in FormOf(minted) /\ form'.stage = form.stage
  <2>1. form \in FormOf(minted) /\ minted \in Nat /\ form.loading \in BOOLEAN
    BY DEF SignupInv, TypeInv, FormOf
  <2>2. QED
    BY <1>4, <2>1 DEF FormOf
<1>6. TypeInv'
  BY <1>1, <1>2, <1>3, <1>5 DEF SignupInv, TypeInv
<1>7. AccountInv'
  BY <1>1, <1>2, <1>3, <1>5 DEF SignupInv, TypeInv, AccountInv
<1>8. ReadInv'
  BY <1>2, <1>3 DEF SignupInv, TypeInv, ReadInv, At
<1>9. QED
  BY <1>6, <1>7, <1>8 DEF SignupInv

LEMMA FormKeeps ==
  ASSUME SignupInv, NEW r \in Requests,
         Submit(r) \/ Confirm(r) \/ Mistype(r) \/ Resend(r)
  PROVE  SignupInv'
<1>1. minted \in Nat /\ inbox \in 0..minted /\ 0 \in 0..minted /\ faults \in 0..MaxFaults
  BY DEF SignupInv, TypeInv
<1>2. form.stage = "code" => account # "none"
  BY DEF SignupInv, AccountInv
<1>3. faults' \in 0..MaxFaults
  BY <1>1, LimitAssumption DEF Submit, Confirm, Mistype, Resend, Fault
<1>4. {"signup", "confirm", "resend"} = Ops \ {"none"}
  BY DEF Ops
<1>5. QED
  BY <1>1, <1>2, <1>3, <1>4, SendsKeeps DEF Submit, Confirm, Mistype, Resend

LEMMA DeliverKeeps ==
  ASSUME SignupInv, NEW r \in Requests, Deliver(r)
  PROVE  SignupInv'
<1>1. /\ req[r] \in RequestOf(minted) /\ form \in FormOf(minted) /\ minted \in Nat
      /\ form.refused \in 0..minted /\ req[r].code \in 0..minted /\ FALSE \in BOOLEAN
  BY DEF SignupInv, TypeInv, RequestOf, FormOf
<1>2. form' \in Shown(r) /\ req' = [req EXCEPT ![r] = NoRequest]
      /\ UNCHANGED <<account, challenge, minted, outbox, inbox, faults>>
  BY DEF Deliver
<1>3. /\ form' \in FormOf(minted)
      /\ form'.stage = form.stage \/ (req[r].reply = "ok" /\ req[r].op # "resend")
  <2>1. CASE req[r].op = "resend"
    <3>1. form' = form
      BY <1>2, <2>1 DEF Shown
    <3>2. QED
      BY <1>1, <3>1
  <2>2. CASE req[r].op # "resend" /\ req[r].reply # "ok"
    <3> DEFINE refused == IF req[r].reply = "refused" THEN req[r].code ELSE form.refused
    <3>1. form' = [form EXCEPT !.loading = FALSE, !.refused = refused]
      BY <1>2, <2>2 DEF Shown
    <3>2. refused \in 0..minted
      BY <1>1
    <3> HIDE DEF refused
    <3>3. QED
      BY <1>1, <3>1, <3>2 DEF FormOf
  <2>3. CASE req[r].op = "signup" /\ req[r].reply = "ok"
    <3>1. form' = [form EXCEPT !.loading = FALSE, !.stage = "code"]
      BY <1>2, <2>3 DEF Shown
    <3>2. QED
      BY <1>1, <2>3, <3>1 DEF FormOf
  <2>4. CASE req[r].op \notin {"resend", "signup"} /\ req[r].reply = "ok"
    <3>1. PICK stage \in {"dashboard", "login"} : form' = [form EXCEPT !.stage = stage]
      BY <1>2, <2>4 DEF Shown
    <3>2. QED
      BY <1>1, <2>4, <3>1 DEF FormOf
  <2>5. QED
    BY <2>1, <2>2, <2>3, <2>4
<1>4. NoRequest \in RequestOf(minted) /\ NoRequest.op = "none" /\ NoRequest.at = "idle"
      /\ NoRequest.reply = "none"
  BY <1>1, Blank DEF NoRequest
<1>5. TypeInv'
  BY <1>2, <1>3, <1>4 DEF SignupInv, TypeInv
<1>6. AccountInv'
  BY <1>2, <1>3, <1>4 DEF SignupInv, TypeInv, AccountInv
<1>7. ReadInv'
  BY <1>2, <1>4 DEF SignupInv, TypeInv, ReadInv, At
<1>8. QED
  BY <1>5, <1>6, <1>7 DEF SignupInv

LEMMA GiveUpKeeps ==
  ASSUME SignupInv, NEW r \in Requests, GiveUp(r)
  PROVE  SignupInv'
<1>1. /\ req[r] \in RequestOf(minted) /\ form \in FormOf(minted) /\ minted \in Nat
      /\ form.loading \in BOOLEAN /\ FALSE \in BOOLEAN /\ faults \in 0..MaxFaults
  BY DEF SignupInv, TypeInv, FormOf
<1>2. UNCHANGED <<account, challenge, minted, outbox, inbox>> /\ faults' \in 0..MaxFaults
  BY <1>1, LimitAssumption DEF GiveUp, Fault
<1>3. form' \in FormOf(minted) /\ form'.stage = form.stage
  <2>1. form' = [form EXCEPT !.loading = form.loading /\ req[r].op = "resend"]
    BY DEF GiveUp
  <2>2. QED
    BY <1>1, <2>1 DEF FormOf
<1>4. PICK q \in RequestOf(minted) : /\ req' = [req EXCEPT ![r] = q]
                                     /\ q.at \in {"idle", req[r].at}
                                     /\ q.op \in {"none", req[r].op}
                                     /\ q.reply \in {"none", req[r].reply}
                                     /\ q.row = req[r].row \/ q.at = "idle"
  <2>1. CASE req[r].at = "reply"
    <3>1. req' = [req EXCEPT ![r] = NoRequest]
      BY <2>1 DEF GiveUp
    <3>2. NoRequest \in RequestOf(minted) /\ NoRequest.op = "none" /\ NoRequest.at = "idle"
          /\ NoRequest.reply = "none"
      BY <1>1, Blank DEF NoRequest
    <3>3. QED
      BY <3>1, <3>2
  <2>2. CASE req[r].at # "reply"
    <3>1. req' = [req EXCEPT ![r] = [req[r] EXCEPT !.awaited = FALSE]]
      BY <2>2 DEF GiveUp
    <3>2. [req[r] EXCEPT !.awaited = FALSE] \in RequestOf(minted)
      BY <1>1 DEF RequestOf
    <3>3. QED
      BY <1>1, <3>1, <3>2 DEF RequestOf
  <2>3. QED
    BY <2>1, <2>2
<1>5. TypeInv'
  BY <1>2, <1>3, <1>4 DEF SignupInv, TypeInv
<1>6. AccountInv'
  BY <1>2, <1>3, <1>4 DEF SignupInv, TypeInv, AccountInv
<1>7. ReadInv'
  BY <1>4 DEF SignupInv, TypeInv, ReadInv, At
<1>8. QED
  BY <1>5, <1>6, <1>7 DEF SignupInv

-----------------------------------------------------------------------------
(* The API. *)

\* What is left to show of a request's step when the account is there.
LEMMA ServedKeeps ==
  ASSUME SignupInv, NEW r \in Requests, account # "none", account' \in Accounts \ {"none"},
         minted' \in Nat, minted <= minted', challenge' \in RowOf(minted'),
         outbox' \subseteq 0..minted', faults' \in 0..MaxFaults, UNCHANGED <<inbox, form>>,
         req' \in [Requests -> RequestOf(minted')],
         \A s \in Requests : s # r => req'[s] = req[s],
         req'[r].at = "read" /\ req'[r].op = "confirm" => req'[r].row.attempts < MaxAttempts,
         req'[r].at = "read" /\ req'[r].op = "resend" => req'[r].row.resends < MaxResends
  PROVE  SignupInv'
<1>1. 0..minted \subseteq 0..minted' /\ FormOf(minted) \subseteq FormOf(minted')
  BY More DEF SignupInv, TypeInv
<1>2. TypeInv'
  BY <1>1 DEF SignupInv, TypeInv
<1>3. AccountInv'
  <2>1. minted' > 0
    BY DEF SignupInv, TypeInv, AccountInv
  <2>2. QED
    BY <2>1 DEF AccountInv
<1>4. ReadInv'
  BY DEF SignupInv, ReadInv, At
<1>5. QED
  BY <1>2, <1>3, <1>4 DEF SignupInv

LEMMA SignUpKeeps ==
  ASSUME SignupInv, NEW r \in Requests, SignUp(r)
  PROVE  SignupInv'
<1>1. minted \in Nat /\ req \in [Requests -> RequestOf(minted)] /\ "refused" \in Answers
  BY DEF SignupInv, TypeInv, Answers
<1>2. UNCHANGED <<outbox, inbox, form, faults>>
  BY DEF SignUp, same
<1>3. CASE account # "none"
  <2>1. Replies(r, "refused") /\ UNCHANGED <<account, challenge, minted>>
    BY <1>3 DEF SignUp
  <2>2. /\ req' \in [Requests -> RequestOf(minted)] /\ req'[r].at # "read"
        /\ \A s \in Requests : s # r => req'[s] = req[s]
    BY <1>1, <2>1, Replied
  <2>3. minted <= minted'
    BY <1>1, <2>1
  <2>4. QED
    BY <1>2, <1>3, <2>1, <2>2, <2>3, ServedKeeps DEF SignupInv, TypeInv
<1>4. CASE account = "none"
  <2>1. /\ account' = "pending" /\ challenge' = NewChallenge /\ minted' = 1
        /\ req' = [req EXCEPT ![r] = [req[r] EXCEPT !.at = "queue"]]
    BY <1>4 DEF SignUp, Goes
  <2>2. minted = 0 /\ \A s \in Requests : req[s].at # "read"
    BY <1>4 DEF SignupInv, AccountInv
  <2>3. NewChallenge \in RowOf(1)
    <3>1. NoChallenge \in RowOf(1) /\ 1 \in 0..1
      BY Blank
    <3>2. QED
      BY <3>1 DEF NewChallenge, RowOf
  <2>4. /\ 0..0 \subseteq 0..1 /\ FormOf(0) \subseteq FormOf(1)
        /\ RequestOf(0) \subseteq RequestOf(1)
    <3>1. 0 \in Nat /\ 1 \in Nat /\ 0 <= 1
      OBVIOUS
    <3>2. QED
      BY <3>1, More
  <2>5. [req[r] EXCEPT !.at = "queue"] \in RequestOf(1)
    BY <1>1, <2>2, <2>4 DEF RequestOf, Places
  <2>6. /\ req' \in [Requests -> RequestOf(1)] /\ req'[r].at = "queue"
        /\ \A s \in Requests : s # r => req'[s] = req[s]
    BY <1>1, <2>1, <2>2, <2>4, <2>5 DEF RequestOf
  <2>7. TypeInv'
    <3>1. outbox' \subseteq 0..1 /\ inbox' \in 0..1 /\ form' \in FormOf(1) /\ faults' \in 0..MaxFaults
      BY <1>2, <2>2, <2>4 DEF SignupInv, TypeInv
    <3>2. QED
      BY <2>1, <2>3, <2>6, <3>1 DEF TypeInv, Accounts
  <2>8. AccountInv' /\ ReadInv'
    BY <2>1, <2>2, <2>6 DEF AccountInv, ReadInv, At
  <2>9. QED
    BY <2>7, <2>8 DEF SignupInv
<1>5. QED
  BY <1>3, <1>4

\* A request that is past "sent" has found the account.
LEMMA FoundAccount ==
  ASSUME SignupInv, NEW r \in Requests,
         req[r].op \in {"confirm", "resend"} \/ req[r].at \in {"read", "activate", "queue"}
  PROVE  account # "none"
BY DEF SignupInv, AccountInv

LEMMA ReadsKeeps ==
  ASSUME SignupInv, NEW r \in Requests, ReadConfirm(r) \/ ReadResend(r)
  PROVE  SignupInv'
<1>1. /\ minted \in Nat /\ req \in [Requests -> RequestOf(minted)] /\ "refused" \in Answers
      /\ challenge \in RowOf(minted) /\ minted <= minted
  BY DEF SignupInv, TypeInv, Answers
<1>2. UNCHANGED <<account, challenge, minted, outbox, inbox, form, faults>>
  BY DEF ReadConfirm, ReadResend, Reads, same
<1>3. account # "none"
  BY FoundAccount DEF ReadConfirm, ReadResend, Reads, At
<1>4. CASE Replies(r, "refused")
  <2>1. /\ req' \in [Requests -> RequestOf(minted)] /\ req'[r].at # "read"
        /\ \A s \in Requests : s # r => req'[s] = req[s]
    BY <1>1, <1>4, Replied
  <2>2. QED
    BY <1>1, <1>2, <1>3, <2>1, ServedKeeps DEF SignupInv, TypeInv
<1>5. CASE ~Replies(r, "refused")
  <2> DEFINE q == [req[r] EXCEPT !.at = "read", !.row = challenge]
  <2>1. req' = [req EXCEPT ![r] = q]
    BY <1>5 DEF ReadConfirm, ReadResend, Reads
  <2>2. q \in RequestOf(minted) /\ q.op = req[r].op /\ q.row = challenge
    BY <1>1 DEF RequestOf, Places
  <2> HIDE DEF q
  <2>3. /\ req[r].op = "confirm" => challenge.attempts < MaxAttempts
        /\ req[r].op = "resend" => challenge.resends < MaxResends
    BY <1>5 DEF ReadConfirm, ReadResend, Reads, At, Verifiable, Resendable
  <2>4. /\ req' \in [Requests -> RequestOf(minted)] /\ req'[r] = q
        /\ \A s \in Requests : s # r => req'[s] = req[s]
    BY <1>1, <2>1, <2>2
  <2>5. QED
    BY <1>1, <1>2, <1>3, <2>2, <2>3, <2>4, ServedKeeps DEF SignupInv, TypeInv
<1>6. QED
  BY <1>4, <1>5

LEMMA ConfirmsKeeps ==
  ASSUME SignupInv, NEW r \in Requests, Wrong(r) \/ Right(r)
  PROVE  SignupInv'
<1>1. /\ minted \in Nat /\ req \in [Requests -> RequestOf(minted)] /\ "refused" \in Answers
      /\ challenge \in RowOf(minted) /\ minted <= minted /\ req[r].row \in RowOf(minted)
  BY DEF SignupInv, TypeInv, Answers, RequestOf
<1>2. UNCHANGED <<account, minted, outbox, inbox, form, faults>>
  BY DEF Wrong, Right, same
<1>3. account # "none" /\ req[r].row.attempts < MaxAttempts
  BY FoundAccount DEF Wrong, Right, At, SignupInv, ReadInv
<1>4. req[r].row.attempts + 1 \in 0..MaxAttempts
  BY <1>1, <1>3, LimitAssumption DEF RowOf
<1>5. challenge' \in RowOf(minted)
  BY <1>1, <1>4 DEF Wrong, Right, RowOf
<1>6. CASE Wrong(r)
  <2>1. Replies(r, "refused")
    BY <1>6 DEF Wrong
  <2>2. /\ req' \in [Requests -> RequestOf(minted)] /\ req'[r].at # "read"
        /\ \A s \in Requests : s # r => req'[s] = req[s]
    BY <1>1, <2>1, Replied
  <2>3. QED
    BY <1>1, <1>2, <1>3, <1>5, <2>2, ServedKeeps DEF SignupInv, TypeInv
<1>7. CASE Right(r)
  <2> DEFINE q == [req[r] EXCEPT !.at = "activate"]
  <2>1. req' = [req EXCEPT ![r] = q]
    BY <1>7 DEF Right, Goes
  <2>2. q \in RequestOf(minted) /\ q.at = "activate"
    BY <1>1 DEF RequestOf, Places
  <2> HIDE DEF q
  <2>3. /\ req' \in [Requests -> RequestOf(minted)] /\ req'[r] = q
        /\ \A s \in Requests : s # r => req'[s] = req[s]
    BY <1>1, <2>1, <2>2
  <2>4. QED
    BY <1>1, <1>2, <1>3, <1>5, <2>2, <2>3, ServedKeeps DEF SignupInv, TypeInv
<1>8. QED
  BY <1>6, <1>7

LEMMA MintKeeps ==
  ASSUME SignupInv, NEW r \in Requests, Mint(r)
  PROVE  SignupInv'
<1>1. /\ minted \in Nat /\ req \in [Requests -> RequestOf(minted)]
      /\ challenge \in RowOf(minted) /\ req[r].row \in RowOf(minted)
  BY DEF SignupInv, TypeInv, RequestOf
<1>2. /\ minted' = minted + 1 /\ UNCHANGED <<account, outbox, inbox, form, faults>>
      /\ challenge' = [challenge EXCEPT !.code = minted', !.attempts = 0, !.cooling = TRUE,
                                        !.resends = req[r].row.resends + 1, !.expired = FALSE]
      /\ req' = [req EXCEPT ![r] = [req[r] EXCEPT !.at = "queue", !.code = minted']]
  BY DEF Mint, same
<1>3. minted' \in Nat /\ minted <= minted' /\ minted' \in 0..minted'
  BY <1>1, <1>2
<1>4. account # "none" /\ req[r].row.resends < MaxResends
  BY FoundAccount DEF Mint, At, SignupInv, ReadInv
<1>5. req[r].row.resends + 1 \in 0..MaxResends /\ 0 \in 0..MaxAttempts
  BY <1>1, <1>4, LimitAssumption DEF RowOf
<1>6. PICK m \in Nat : m = minted'
  BY <1>3
<1>7. /\ 0..minted \subseteq 0..m /\ RowOf(minted) \subseteq RowOf(m)
      /\ RequestOf(minted) \subseteq RequestOf(m)
  BY <1>1, <1>3, <1>6, More
<1>8. challenge' \in RowOf(m)
  <2>1. challenge \in RowOf(m) /\ m \in 0..m
    BY <1>1, <1>7
  <2>2. QED
    BY <1>2, <1>5, <1>6, <2>1 DEF RowOf
<1>9. [req[r] EXCEPT !.at = "queue", !.code = m] \in RequestOf(m)
      /\ [req[r] EXCEPT !.at = "queue", !.code = m].at = "queue"
  <2>1. req[r] \in RequestOf(m) /\ m \in 0..m
    BY <1>1, <1>7
  <2>2. QED
    BY <2>1 DEF RequestOf, Places
<1>10. /\ req' \in [Requests -> RequestOf(m)] /\ req'[r].at = "queue"
       /\ \A s \in Requests : s # r => req'[s] = req[s]
  BY <1>1, <1>2, <1>6, <1>7, <1>9
<1>11. outbox' \subseteq 0..minted' /\ faults' \in 0..MaxFaults /\ account' \in Accounts \ {"none"}
  BY <1>2, <1>4, <1>6, <1>7 DEF SignupInv, TypeInv
<1>12. challenge' \in RowOf(minted') /\ req' \in [Requests -> RequestOf(minted')]
  BY <1>6, <1>8, <1>10
<1>13. QED
  BY <1>2, <1>3, <1>4, <1>10, <1>11, <1>12, ServedKeeps

LEMMA EndsKeeps ==
  ASSUME SignupInv, NEW r \in Requests, Activate(r) \/ Queue(r)
  PROVE  SignupInv'
<1>1. /\ minted \in Nat /\ req \in [Requests -> RequestOf(minted)] /\ "ok" \in Answers
      /\ req[r].code \in 0..minted /\ minted <= minted
  BY DEF SignupInv, TypeInv, Answers, RequestOf
<1>2. account # "none"
  BY FoundAccount DEF Activate, Queue, At
<1>3. Replies(r, "ok") /\ UNCHANGED <<challenge, minted, inbox, form, faults>>
  BY DEF Activate, Queue, same
<1>4. account' \in Accounts \ {"none"}
  BY <1>2 DEF Activate, Queue, Accounts, SignupInv, TypeInv
<1>5. outbox' \subseteq 0..minted
  <2>1. 1 \in 0..minted
    BY <1>1, <1>2 DEF SignupInv, AccountInv
  <2>2. QED
    BY <1>1, <2>1 DEF Activate, Queue, SignupInv, TypeInv
<1>6. /\ req' \in [Requests -> RequestOf(minted)] /\ req'[r].at # "read"
      /\ \A s \in Requests : s # r => req'[s] = req[s]
  BY <1>1, <1>3, Replied
<1>7. QED
  BY <1>1, <1>2, <1>3, <1>4, <1>5, <1>6, ServedKeeps DEF SignupInv, TypeInv

LEMMA CrashKeeps ==
  ASSUME SignupInv, NEW r \in Requests, Crash(r)
  PROVE  SignupInv'
<1>1. minted \in Nat /\ req \in [Requests -> RequestOf(minted)] /\ "failed" \in Answers
  BY DEF SignupInv, TypeInv, Answers
<1>2. Replies(r, "failed") /\ UNCHANGED <<account, challenge, minted, outbox, inbox, form>>
  BY DEF Crash
<1>3. faults' \in 0..MaxFaults
  BY LimitAssumption DEF Crash, Fault, SignupInv, TypeInv
<1>4. /\ req' \in [Requests -> RequestOf(minted)] /\ req'[r].at \in {"idle", "reply"}
      /\ req'[r].op \in {"none", req[r].op} /\ req'[r].reply # "ok"
      /\ \A s \in Requests : s # r => req'[s] = req[s]
  BY <1>1, <1>2, Replied
<1>5. TypeInv'
  BY <1>2, <1>3, <1>4 DEF SignupInv, TypeInv
<1>6. AccountInv' /\ ReadInv'
  BY <1>2, <1>4 DEF SignupInv, AccountInv, ReadInv, At
<1>7. QED
  BY <1>5, <1>6 DEF SignupInv

-----------------------------------------------------------------------------
(* Messages and time. *)

LEMMA WorldKeeps ==
  ASSUME SignupInv, (\E c \in outbox : Send(c) \/ Lose(c)) \/ Expire \/ Cool
  PROVE  SignupInv'
<1>1. UNCHANGED <<account, minted, form, req>>
  BY DEF Send, Lose, Expire, Cool
<1>2. outbox' \subseteq 0..minted /\ inbox' \in 0..minted /\ faults' \in 0..MaxFaults
  BY LimitAssumption DEF Send, Lose, Expire, Cool, Fault, SignupInv, TypeInv
<1>3. challenge' \in RowOf(minted)
  BY DEF Send, Lose, Expire, Cool, SignupInv, TypeInv, RowOf
<1>4. account = "none" => challenge' = challenge
  BY DEF Send, Lose, Expire, Cool, SignupInv, AccountInv, NoChallenge
<1>5. TypeInv'
  BY <1>1, <1>2, <1>3 DEF SignupInv, TypeInv
<1>6. AccountInv' /\ ReadInv'
  BY <1>1, <1>4 DEF SignupInv, AccountInv, ReadInv, At
<1>7. QED
  BY <1>5, <1>6 DEF SignupInv

LEMMA SignupStep == SignupInv /\ [Next]_vars => SignupInv'
<1> SUFFICES ASSUME SignupInv, [Next]_vars PROVE SignupInv'
  OBVIOUS
<1>1. ASSUME NEW r \in Requests,
             Submit(r) \/ Confirm(r) \/ Mistype(r) \/ Resend(r) \/ Deliver(r) \/ GiveUp(r)
      PROVE  SignupInv'
  BY <1>1, FormKeeps, DeliverKeeps, GiveUpKeeps
<1>2. ASSUME NEW r \in Requests, Serve(r) \/ Crash(r) PROVE SignupInv'
  BY <1>2, SignUpKeeps, ReadsKeeps, ConfirmsKeeps, MintKeeps, EndsKeeps, CrashKeeps DEF Serve
<1>3. CASE (\E c \in outbox : Send(c) \/ Lose(c)) \/ Expire \/ Cool
  BY <1>3, WorldKeeps
<1>4. CASE UNCHANGED vars
  BY <1>4 DEF vars, SignupInv, TypeInv, AccountInv, ReadInv, At
<1>5. QED
  BY <1>1, <1>2, <1>3, <1>4 DEF Next

LEMMA SignupInvariant == Spec => []SignupInv
<1>1. Init => SignupInv
  <2> SUFFICES ASSUME Init PROVE SignupInv
    OBVIOUS
  <2>1. NoChallenge \in RowOf(0) /\ NoRequest \in RequestOf(0)
    BY Blank
  <2>2. NoRequest.at = "idle" /\ NoRequest.op = "none" /\ NoRequest.reply = "none"
    BY DEF NoRequest
  <2>3. form \in FormOf(0)
    BY DEF Init, FormOf
  <2>4. TypeInv
    BY <2>1, <2>3, LimitAssumption DEF Init, TypeInv, Accounts
  <2>5. AccountInv /\ ReadInv
    BY <2>2 DEF Init, AccountInv, ReadInv, At
  <2>6. QED
    BY <2>4, <2>5 DEF SignupInv
<1>2. QED
  BY <1>1, SignupStep, PTL DEF Spec

GuessInv == guesses \in Nat

LEMMA GuessesStep == GuessInv /\ [Next]_vars => GuessInv'
<1> SUFFICES ASSUME GuessInv, [Next]_vars PROVE GuessInv'
  OBVIOUS
<1> USE DEF GuessInv
<1>1. ASSUME NEW r \in Requests, Serve(r) PROVE GuessInv'
  BY <1>1 DEF Serve, SignUp, ReadConfirm, ReadResend, Reads, Wrong, Right, Guessed, Activate,
              Mint, Queue
<1>2. ASSUME NEW r \in Requests,
             \/ Submit(r) \/ Confirm(r) \/ Mistype(r) \/ Resend(r) \/ Deliver(r) \/ GiveUp(r)
             \/ Crash(r)
      PROVE  GuessInv'
  BY <1>2 DEF Submit, Confirm, Mistype, Resend, Sends, Deliver, GiveUp, Crash
<1>3. CASE (\E c \in outbox : Send(c) \/ Lose(c)) \/ Expire \/ Cool \/ UNCHANGED vars
  BY <1>3 DEF Send, Lose, Expire, Cool, vars
<1>4. QED
  BY <1>1, <1>2, <1>3 DEF Next

\* Every variable keeps its type. What this says of the limits is about the fields of the
\* row only: attempts and resends never pass their maximum, also when a request counts on
\* from what it read before others saved. It does not bound the codes that are compared.
THEOREM SignupTypeCorrect == Spec => []TypeOK
<1>1. Init => GuessInv
  BY DEF Init, GuessInv
<1>2. SignupInv /\ GuessInv => TypeOK
  BY DEF SignupInv, GuessInv, TypeInv, TypeOK, Accounts, Places, Ops, Answers, RowOf, FormOf,
         RequestOf
<1>3. QED
  BY SignupInvariant, GuessesStep, <1>1, <1>2, PTL DEF Spec

\* A used challenge stays used and a replaced code does not come back, for any number of
\* requests that read the row before and save after each other: each save names the
\* fields it writes, none writes the row back.
THEOREM NothingComesUndone == Spec => NothingUndone
<1>1. SignupInv /\ [Next]_vars => [/\ challenge.consumed => challenge'.consumed
                                   /\ challenge'.code >= challenge.code]_vars
  <2> SUFFICES ASSUME SignupInv, [Next]_vars
               PROVE  (challenge.consumed => challenge'.consumed) /\ challenge'.code >= challenge.code
    OBVIOUS
  <2>1. challenge \in RowOf(minted) /\ minted \in Nat /\ challenge.code \in 0..minted
    BY DEF SignupInv, TypeInv, RowOf
  <2>2. challenge.code >= challenge.code
    BY <2>1
  <2>3. CASE UNCHANGED challenge
    BY <2>2, <2>3
  <2>4. ASSUME NEW r \in Requests, SignUp(r), challenge' # challenge
        PROVE  ~challenge.consumed /\ challenge'.code >= challenge.code
    <3>1. account = "none" /\ challenge' = NewChallenge
      BY <2>4 DEF SignUp
    <3>2. challenge = NoChallenge
      BY <3>1 DEF SignupInv, AccountInv
    <3>3. QED
      BY <3>1, <3>2 DEF NewChallenge, NoChallenge
  <2>5. ASSUME NEW r \in Requests, Wrong(r) \/ Right(r)
        PROVE  (challenge.consumed => challenge'.consumed) /\ challenge'.code = challenge.code
    BY <2>1, <2>5 DEF Wrong, Right, RowOf
  <2>6. ASSUME NEW r \in Requests, Mint(r)
        PROVE  challenge'.consumed = challenge.consumed /\ challenge'.code >= challenge.code
    <3>1. challenge'.consumed = challenge.consumed /\ challenge'.code = minted + 1
      BY <2>1, <2>6 DEF Mint, RowOf
    <3>2. QED
      BY <2>1, <3>1
  <2>7. CASE Expire \/ Cool
    BY <2>1, <2>7 DEF Expire, Cool, RowOf
  <2>8. QED
    BY <2>2, <2>3, <2>4, <2>5, <2>6, <2>7
       DEF Next, Submit, Confirm, Mistype, Resend, Sends, Deliver, GiveUp, Serve, ReadConfirm,
           ReadResend, Reads, Activate, Queue, Crash, Send, Lose, vars, same
<1>2. QED
  BY SignupInvariant, <1>1, PTL DEF Spec, NothingUndone

=============================================================================
