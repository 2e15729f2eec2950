--------------------------- MODULE RunViewProofs ---------------------------
(***************************************************************************)
(* Proofs about RunView, for any number of posts, events, questions and    *)
(* faults and any size of a reply: the page shows every event once and in  *)
(* order, misses nothing when it stops polling, and an answer reaches the  *)
(* question it was given to.                                               *)
(***************************************************************************)
EXTENDS RunView, FiniteSetTheorems, TLAPS

Fields == {"on", "run", "events", "file", "missing", "next", "tick", "got", "upTo", "full",
           "sending"}

\* The fields the events of a page depend on; the others may hold anything.
PageTypes ==
  /\ recorded \in Nat
  /\ DOMAIN page = Fields
  /\ page.events \in Seq(Nat) /\ page.next \in Nat /\ page.upTo \in Nat

\* The page has the events before its next number; a tick that is about to show some
\* got them from there on.
EventInv ==
  /\ PageTypes
  /\ Len(page.events) + 1 = page.next
  /\ NoGapNoRepeat
  /\ page.next <= recorded + 1
  /\ page.tick = "files" => page.next <= page.upTo + 1 /\ page.upTo <= recorded

\* A page that was just opened has no events, and one that is not open neither.
LEMMA NewPages ==
  ASSUME NEW new, new = NewPage \/ new = NoPage
  PROVE  /\ DOMAIN new = Fields
         /\ new.events = <<>> /\ new.next = 1 /\ new.upTo = 0 /\ new.tick \in {"run", "over"}
<1>1. /\ DOMAIN NewPage = Fields
      /\ NewPage.events = <<>> /\ NewPage.next = 1 /\ NewPage.upTo = 0 /\ NewPage.tick = "run"
  BY DEF NewPage, Fields
<1>2. /\ DOMAIN NoPage = DOMAIN NewPage
      /\ NoPage.events = <<>> /\ NoPage.next = 1 /\ NoPage.upTo = 0 /\ NoPage.tick = "over"
  BY <1>1 DEF NoPage, Fields
<1>3. CASE new = NewPage
  BY <1>1, <1>3
<1>4. CASE new = NoPage
  BY <1>1, <1>2, <1>4
<1> QED
  BY <1>3, <1>4

LEMMA InitEvents == Init => EventInv
<1> SUFFICES ASSUME Init PROVE EventInv
  OBVIOUS
<1>1. page = NoPage /\ recorded = 0
  BY DEF Init
<1>2. /\ DOMAIN page = Fields
      /\ page.events = <<>> /\ page.next = 1 /\ page.upTo = 0 /\ page.tick \in {"run", "over"}
  BY <1>1, NewPages, Zenon
<1>3. PageTypes /\ page.events = <<>> /\ page.next = 1 /\ page.tick # "files"
  BY <1>2, <1>1 DEF PageTypes
<1> QED
  BY <1>1, <1>3 DEF EventInv, NoGapNoRepeat

\* The run, the user and the posts leave the events alone, and events are not unrecorded.
LEMMA EventsKept ==
  ASSUME EventInv, recorded' \in Nat, recorded <= recorded', PageTypes',
         page'.events = page.events, page'.next = page.next,
         \/ page'.tick = page.tick /\ page'.upTo = page.upTo
         \/ page'.tick # "files"
  PROVE  EventInv'
<1>1. Len(page'.events) + 1 = page'.next /\ NoGapNoRepeat'
  BY DEF EventInv, NoGapNoRepeat
<1>2. page'.next <= recorded' + 1
  BY DEF EventInv, PageTypes
<1>3. page'.tick = "files" => page'.next <= page'.upTo + 1 /\ page'.upTo <= recorded'
  BY DEF EventInv, PageTypes
<1> QED
  BY <1>1, <1>2, <1>3 DEF EventInv

\* Appending the numbers from the next one on leaves no gap.
LEMMA Appending ==
  ASSUME NEW s \in Seq(Nat), NEW upTo \in Nat, Len(s) <= upTo,
         \A i \in DOMAIN s : s[i] = i
  PROVE  LET t == s \o [i \in 1..(upTo + 1 - (Len(s) + 1)) |-> Len(s) + 1 + i - 1]
         IN t \in Seq(Nat) /\ Len(t) = upTo /\ \A i \in DOMAIN t : t[i] = i
<1> DEFINE n == upTo - Len(s)
           fresh == [i \in 1..n |-> Len(s) + i]
           t == s \o fresh
<1>1. Len(s) \in Nat /\ n \in Nat /\ DOMAIN s = 1..Len(s)
  OBVIOUS
<1>2. fresh \in Seq(Nat) /\ Len(fresh) = n
  BY <1>1
<1>3. t \in Seq(Nat) /\ Len(t) = upTo
  BY <1>1, <1>2
<1>4. ASSUME NEW i \in 1..upTo PROVE t[i] = i
  <2>1. CASE i <= Len(s)
    BY <1>1, <1>2, <2>1
  <2>2. CASE i > Len(s)
    <3>1. i - Len(s) \in 1..n
      BY <1>1, <2>2
    <3>2. t[i] = fresh[i - Len(s)]
      BY <1>1, <1>2, <2>2
    <3> QED
      BY <1>1, <3>1, <3>2
  <2> QED
    BY <1>1, <2>1, <2>2
<1>5. [i \in 1..(upTo + 1 - (Len(s) + 1)) |-> Len(s) + 1 + i - 1] = fresh
  <2>1. upTo + 1 - (Len(s) + 1) = n
    BY <1>1
  <2>2. \A i \in 1..n : Len(s) + 1 + i - 1 = Len(s) + i
    BY <1>1
  <2> QED
    BY <2>1, <2>2
<1>6. DOMAIN t = 1..upTo
  BY <1>3
<1> HIDE DEF fresh, n
<1> QED
  BY <1>3, <1>4, <1>5, <1>6

\* One setState appends the events that the tick got.
LEMMA ShowKeeps ==
  ASSUME EventInv, recorded' = recorded, NEW upTo \in Nat, NEW listed,
         page.next <= upTo + 1, upTo <= recorded, Show(upTo, listed)
  PROVE  EventInv'
<1> DEFINE fresh == [i \in 1..(upTo + 1 - page.next) |-> page.next + i - 1]
<1>1. /\ page.events \in Seq(Nat) /\ Len(page.events) + 1 = page.next
      /\ \A i \in DOMAIN page.events : page.events[i] = i
  BY DEF EventInv, PageTypes, NoGapNoRepeat
<1>2. Len(page.events) <= upTo
  BY <1>1
<1>3. LET t == page.events \o fresh
      IN t \in Seq(Nat) /\ Len(t) = upTo /\ \A i \in DOMAIN t : t[i] = i
  BY <1>1, <1>2, Appending
<1> HIDE DEF fresh
<1>4. /\ page'.events = page.events \o fresh
      /\ page'.next = upTo + 1 /\ page'.upTo = 0
      /\ page'.tick \in {"over", "run"}
      /\ DOMAIN page' = DOMAIN page
  BY DEF Show, Showing, EventInv, PageTypes, Fields, fresh
<1>5. PageTypes'
  BY <1>3, <1>4 DEF EventInv, PageTypes
<1>6. Len(page'.events) + 1 = page'.next /\ NoGapNoRepeat' /\ page'.next <= recorded' + 1
  BY <1>3, <1>4 DEF NoGapNoRepeat, EventInv, PageTypes
<1> QED
  BY <1>4, <1>5, <1>6 DEF EventInv

\* The run itself: only Record touches the events, and not those of the page.
LEMMA RunStep ==
  ASSUME EventInv,
         Move \/ Record \/ WriteFile \/ Ask \/ End \/ GiveUpRun \/ Recover \/ Leave
  PROVE  EventInv'
<1>1. page' = page /\ (recorded' = recorded \/ recorded' = recorded + 1)
  BY DEF Move, Record, WriteFile, Ask, End, GiveUpRun, Recover, Leave
<1>2. recorded' \in Nat /\ recorded <= recorded' /\ PageTypes'
  BY <1>1 DEF EventInv, PageTypes
<1> QED
  BY <1>1, <1>2, EventsKept

LEMMA TickStep ==
  ASSUME EventInv, Open \/ Close \/ Tick \/ Fail
  PROVE  EventInv'
<1>0. recorded' = recorded /\ recorded \in Nat
  BY DEF Open, Close, Tick, GetRun, GetEvents, GetFiles, Miss, Fail, server, EventInv, PageTypes
<1>1. CASE Open \/ Close
  <2>1. page' = NewPage \/ page' = NoPage
    BY <1>1 DEF Open, Close
  <2>2. /\ DOMAIN page' = Fields
        /\ page'.events = <<>> /\ page'.next = 1
        /\ page'.upTo = 0 /\ page'.tick \in {"run", "over"}
    BY <2>1, NewPages, Zenon
  <2>3. PageTypes' /\ page'.events = <<>> /\ page'.next = 1 /\ page'.tick # "files"
    BY <1>0, <2>2 DEF PageTypes
  <2> QED
    BY <1>0, <2>3 DEF EventInv, NoGapNoRepeat
<1>2. CASE GetRun \/ Miss \/ Fail
  <2>1. /\ DOMAIN page' = DOMAIN page
        /\ page'.events = page.events /\ page'.next = page.next
        /\ page'.tick # "files" /\ page'.upTo \in Nat
    <3>1. CASE GetRun
      BY <3>1 DEF GetRun, EventInv, PageTypes, Fields
    <3>2. CASE Miss
      BY <3>2 DEF Miss, EventInv, PageTypes, Fields
    <3>3. CASE Fail
      BY <3>3 DEF Fail, EventInv, PageTypes, Fields
    <3> QED
      BY <1>2, <3>1, <3>2, <3>3
  <2>2. PageTypes'
    BY <1>0, <2>1 DEF EventInv, PageTypes
  <2> QED
    BY <1>0, <2>1, <2>2, EventsKept
<1>3. CASE GetEvents
  <2> DEFINE upTo == Lower(recorded, page.next + PageSize - 1)
  <2>1. page.next \in Nat /\ page.next >= 1 /\ PageSize \in Nat \ {0}
    BY PageAssumption DEF EventInv, PageTypes
  <2>2. upTo \in Nat /\ upTo <= recorded /\ page.next <= upTo + 1
    BY <1>0, <2>1 DEF Lower, EventInv
  <2> HIDE DEF upTo
  <2>3. CASE page' = [page EXCEPT !.tick = "files", !.upTo = upTo]
    <3>1. /\ DOMAIN page' = DOMAIN page
          /\ page'.events = page.events /\ page'.next = page.next
          /\ page'.tick = "files" /\ page'.upTo = upTo
      BY <2>3 DEF EventInv, PageTypes, Fields
    <3>2. PageTypes'
      BY <1>0, <2>2, <3>1 DEF EventInv, PageTypes
    <3>3. NoGapNoRepeat'
      BY <3>1 DEF EventInv, NoGapNoRepeat
    <3> QED
      BY <1>0, <2>2, <3>1, <3>2, <3>3 DEF EventInv
  <2>4. CASE Show(upTo, page.file)
    BY <1>0, <2>2, <2>4, ShowKeeps
  <2> QED
    BY <1>3, <2>3, <2>4 DEF GetEvents, upTo
<1>4. CASE GetFiles
  <2>1. page.upTo \in Nat /\ page.next <= page.upTo + 1 /\ page.upTo <= recorded
    BY <1>4 DEF GetFiles, EventInv, PageTypes
  <2>2. Show(page.upTo, file' = "listed")
    BY <1>4 DEF GetFiles
  <2> QED
    BY <1>0, <2>1, <2>2, ShowKeeps
<1> QED
  BY <1>1, <1>2, <1>3, <1>4 DEF Tick

\* What a reply to a post shows is the row of the run, never its events.
LEMMA PostStep ==
  ASSUME EventInv, NEW p \in Posts,
         \/ ClickCancel(p) \/ ClickAnswer(p) \/ Deliver(p) \/ GiveUp(p)
         \/ Flag(p) \/ EndWait(p) \/ Answer(p) \/ Refuse(p) \/ Read(p)
  PROVE  EventInv'
<1>0. recorded' = recorded /\ recorded \in Nat
  BY DEF ClickCancel, ClickAnswer, Answering, Deliver, GiveUp, Flag, EndWait, Answer, Refuse,
         Read, same, server, EventInv, PageTypes
<1>1. /\ DOMAIN page' = DOMAIN page
      /\ page'.events = page.events /\ page'.next = page.next
      /\ page'.tick = page.tick /\ page'.upTo = page.upTo
  <2>1. CASE \/ ClickCancel(p) \/ Flag(p) \/ EndWait(p) \/ Answer(p) \/ Refuse(p) \/ Read(p)
    BY <2>1 DEF ClickCancel, Flag, EndWait, Answer, Refuse, Read, same
  <2>2. CASE ClickAnswer(p) \/ GiveUp(p)
    BY <2>2 DEF ClickAnswer, Answering, GiveUp, EventInv, PageTypes, Fields
  <2>3. CASE Deliver(p)
    <3> DEFINE card == [page EXCEPT !.sending = @ /\ post[p].op # "answer"]
    <3>1. /\ DOMAIN card = DOMAIN page
          /\ card.events = page.events /\ card.next = page.next
          /\ card.tick = page.tick /\ card.upTo = page.upTo
      BY DEF EventInv, PageTypes, Fields
    <3>2. page' = card \/ page' = Showing(card, post[p].reply)
      BY <2>3 DEF Deliver
    <3> HIDE DEF card
    <3>3. "run" \in DOMAIN card /\ "sending" \in DOMAIN card
      BY <3>1 DEF EventInv, PageTypes, Fields
    <3> QED
      BY <3>1, <3>2, <3>3 DEF Showing, EventInv, PageTypes, Fields
  <2> QED
    BY <2>1, <2>2, <2>3
<1>2. PageTypes'
  BY <1>0, <1>1 DEF EventInv, PageTypes
<1> QED
  BY <1>0, <1>1, <1>2, EventsKept

LEMMA EventStep == EventInv /\ [Next]_vars => EventInv'
<1> SUFFICES ASSUME EventInv, [Next]_vars PROVE EventInv'
  OBVIOUS
<1>1. CASE UNCHANGED vars
  <2>1. page' = page /\ recorded' = recorded
    BY <1>1 DEF vars, server
  <2> QED
    BY <2>1 DEF EventInv, PageTypes, NoGapNoRepeat
<1>2. CASE Next
  BY <1>2, RunStep, TickStep, PostStep DEF Next
<1> QED
  BY <1>1, <1>2

\* The timeline of the page shows every event of the run once and in order, over failed
\* ticks, replies of only a part of them, cancels and answers, and pages opened anew.
THEOREM EventsInOrder == Spec => []NoGapNoRepeat
<1>1. EventInv => NoGapNoRepeat
  BY DEF EventInv
<1> QED
  BY <1>1, InitEvents, EventStep, PTL DEF Spec

-----------------------------------------------------------------------------
(* Types. *)

Rows == [status: {"unknown"} \union L!Active \union L!Terminal, flag: BOOLEAN,
         question: 0..MaxQuestions]
Pages == [on: BOOLEAN, run: Rows, events: Seq(1..MaxEvents), file: BOOLEAN, missing: BOOLEAN,
          next: 1..(MaxEvents + 1), tick: {"run", "events", "files", "over"},
          got: Rows, upTo: 0..MaxEvents, full: BOOLEAN, sending: BOOLEAN]
PostRecords == [op: {"none", "cancel", "answer"},
                at: {"idle", "sent", "flagged", "read", "reply"},
                question: 0..MaxQuestions, awaited: BOOLEAN, reply: Rows]
Statuses == {"absent"} \union L!Active \union L!Terminal

LEMMA Typed ==
  TypeOK <=>
    /\ status \in [Runs -> Statuses] /\ flag \in BOOLEAN /\ readable \in BOOLEAN
    /\ answers \in 0..(MaxQuestions + 1) /\ asked \in 0..MaxQuestions
    /\ recorded \in 0..MaxEvents /\ file \in {"none", "disk", "listed"}
    /\ faults \in 0..MaxFaults /\ page \in Pages /\ post \in [Posts -> PostRecords]
  BY Zenon DEF TypeOK, Rows, Pages, PostRecords, Statuses

LEMMA TypedNext ==
  TypeOK' <=>
    /\ status' \in [Runs -> Statuses] /\ flag' \in BOOLEAN /\ readable' \in BOOLEAN
    /\ answers' \in 0..(MaxQuestions + 1) /\ asked' \in 0..MaxQuestions
    /\ recorded' \in 0..MaxEvents /\ file' \in {"none", "disk", "listed"}
    /\ faults' \in 0..MaxFaults /\ page' \in Pages /\ post' \in [Posts -> PostRecords]
  BY Zenon DEF TypeOK, Rows, Pages, PostRecords, Statuses

LEMMA RowTyped == TypeOK /\ status[Run] # "absent" => Row \in Rows
  BY Typed DEF Row, Rows, Runs, Statuses

LEMMA BlankRecords ==
  Unknown \in Rows /\ NewPage \in Pages /\ NoPage \in Pages /\ NoPost \in PostRecords
<1>1. Unknown \in Rows
  BY BoundsAssumption DEF Unknown, Rows
<1>2. <<>> \in Seq(1..MaxEvents)
  OBVIOUS
<1>3. NewPage \in Pages
  BY <1>1, <1>2, BoundsAssumption DEF NewPage, Pages
<1>4. NoPage \in Pages
  BY <1>3 DEF NoPage, Pages
<1>5. NoPost \in PostRecords
  BY <1>1, BoundsAssumption DEF NoPost, PostRecords
<1> QED
  BY <1>1, <1>3, <1>4, <1>5

\* A status only moves as RunLifecycle says.
LEMMA MovesTyped ==
  ASSUME TypeOK, NEW from, NEW to \in Statuses, L!Moves(Run, from, to)
  PROVE  status' \in [Runs -> Statuses] /\ status[Run] = from /\ status'[Run] = to
  BY Typed DEF L!Moves, Runs

LEMMA StatusMoves ==
  ASSUME TypeOK,
         \/ L!Create(Run) \/ L!Claim(Run) \/ L!Refuse(Run) \/ L!Ask(Run) \/ L!Answer(Run)
         \/ L!EndWait(Run) \/ L!Recover(Run) \/ L!End(Run)
  PROVE  /\ status' \in [Runs -> Statuses] /\ status[Run] \notin L!Terminal
         /\ status'[Run] # "absent"
<1>1. PICK from \in {"absent", "queued", "running", "waiting"},
           to \in Statuses \ {"absent"} : L!Moves(Run, from, to)
  BY DEF L!Create, L!Claim, L!Refuse, L!Ask, L!Answer, L!EndWait, L!Recover, L!End, Statuses,
         L!Active, L!Terminal
<1>2. status' \in [Runs -> Statuses] /\ status[Run] = from /\ status'[Run] = to
  BY <1>1, MovesTyped
<1> QED
  BY <1>2 DEF L!Terminal

LEMMA FaultTyped == TypeOK /\ Fault => faults' \in 0..MaxFaults
  BY BoundsAssumption DEF TypeOK, Fault

LEMMA RunTyped ==
  ASSUME TypeOK,
         Move \/ Record \/ WriteFile \/ Ask \/ End \/ GiveUpRun \/ Recover \/ Leave
  PROVE  TypeOK'
<1> USE Typed, TypedNext
<1>1. CASE Move
  BY <1>1, StatusMoves DEF Move
<1>2. CASE Record
  <2>1. recorded' \in 0..MaxEvents
    BY <1>2, BoundsAssumption DEF Record
  <2> QED
    BY <1>2, <2>1 DEF Record
<1>3. CASE WriteFile
  BY <1>3 DEF WriteFile
<1>4. CASE Ask
  <2>1. asked' \in 0..MaxQuestions
    BY <1>4, BoundsAssumption DEF Ask
  <2> QED
    BY <1>4, <2>1, StatusMoves DEF Ask, Collected
<1>5. CASE End
  BY <1>5, StatusMoves DEF End, Collected
<1>6. CASE GiveUpRun \/ Recover
  BY <1>6, StatusMoves, FaultTyped DEF GiveUpRun, Recover
<1>7. CASE Leave
  BY <1>7, FaultTyped DEF Leave
<1> QED
  BY <1>1, <1>2, <1>3, <1>4, <1>5, <1>6, <1>7

\* What the page shows stays in bounds, for the events it shows are recorded ones.
LEMMA ShowTyped ==
  ASSUME TypeOK, EventInv, NEW upTo \in Nat, NEW listed \in BOOLEAN,
         page.next <= upTo + 1, upTo <= recorded, Show(upTo, listed)
  PROVE  /\ page' \in Pages
         /\ page'.on = page.on /\ page'.missing = page.missing /\ page'.run = page.got
         /\ page'.got = Unknown /\ page'.file = listed /\ Len(page'.events) = upTo
         /\ page'.full <=> upTo + 1 - page.next = PageSize
         /\ page'.tick = IF Terminal(page.got) THEN "over" ELSE "run"
<1> DEFINE n == upTo + 1 - page.next
           fresh == [i \in 1..n |-> page.next + i - 1]
<1> USE Typed
<1>1. /\ page.next \in Nat /\ page.next >= 1 /\ n \in Nat /\ upTo \in 0..MaxEvents
      /\ upTo + 1 \in 1..(MaxEvents + 1)
  BY BoundsAssumption DEF Pages, EventInv
<1>2. fresh \in Seq(1..MaxEvents) /\ Len(fresh) = n
  <2>1. \A i \in 1..n : page.next + i - 1 \in 1..MaxEvents
    <3>1. ASSUME NEW i \in 1..n PROVE page.next + i - 1 \in 1..MaxEvents
      <4>1. i \in Int /\ 1 <= i /\ i <= n
        BY <1>1
      <4>2. page.next + i - 1 \in Int /\ 1 <= page.next + i - 1 /\ page.next + i - 1 <= upTo
        BY <1>1, <4>1
      <4> QED
        BY <1>1, <4>2, BoundsAssumption
    <3> QED
      BY <3>1
  <2> HIDE DEF n
  <2> QED
    BY <1>1, <2>1
<1>3. page.events \in Seq(1..MaxEvents) /\ Len(page.events) = page.next - 1
  <2>1. page.events \in Seq(1..MaxEvents) /\ Len(page.events) + 1 = page.next
    BY DEF Pages, EventInv
  <2> QED
    BY <2>1
<1>4. page.events \o fresh \in Seq(1..MaxEvents) /\ Len(page.events \o fresh) = upTo
  <2> HIDE DEF fresh
  <2> QED
    BY <1>1, <1>2, <1>3
<1>5. page' = [Showing(page, page.got) EXCEPT
                !.events = @ \o fresh, !.next = upTo + 1,
                !.full = Len(fresh) = PageSize, !.file = listed,
                !.tick = IF Terminal(page.got) THEN "over" ELSE "run",
                !.got = Unknown, !.upTo = 0]
  BY DEF Show
<1> HIDE DEF fresh, n
<1> DEFINE shown == Showing(page, page.got)
<1>6. /\ shown \in Pages /\ shown.on = page.on /\ shown.missing = page.missing
      /\ shown.run = page.got /\ shown.events = page.events
  <2>1. (page.sending /\ page.got.status = "waiting") \in BOOLEAN
    OBVIOUS
  <2> QED
    BY <2>1 DEF Showing, Pages
<1>7. 0 \in 0..MaxEvents /\ (Len(fresh) = PageSize) \in BOOLEAN
      /\ (IF Terminal(page.got) THEN "over" ELSE "run") \in {"run", "over"}
  BY BoundsAssumption
<1> HIDE DEF shown
<1>8. /\ page' \in Pages
      /\ page'.on = page.on /\ page'.missing = page.missing /\ page'.run = page.got
      /\ page'.got = Unknown /\ page'.file = listed /\ page'.events = page.events \o fresh
      /\ page'.full = (Len(fresh) = PageSize)
      /\ page'.tick = IF Terminal(page.got) THEN "over" ELSE "run"
  <2>1. page' = [shown EXCEPT
                !.events = @ \o fresh, !.next = upTo + 1,
                !.full = Len(fresh) = PageSize, !.file = listed,
                !.tick = IF Terminal(page.got) THEN "over" ELSE "run",
                !.got = Unknown, !.upTo = 0]
    BY <1>5 DEF shown
  <2> QED
    <3>1. PICK full \in BOOLEAN : full = (Len(fresh) = PageSize)
      BY <1>7
    <3>2. PICK tick \in {"run", "over"} : tick = IF Terminal(page.got) THEN "over" ELSE "run"
      BY <1>7
    <3>3. PICK events \in Seq(1..MaxEvents) : events = shown.events \o fresh
      BY <1>4, <1>6
    <3>4. page' = [shown EXCEPT !.events = events, !.next = upTo + 1, !.full = full,
                     !.file = listed, !.tick = tick, !.got = Unknown, !.upTo = 0]
      BY <2>1, <3>1, <3>2, <3>3
    <3>5. page' \in Pages
      BY <1>1, <1>6, <1>7, <3>4, BlankRecords DEF Pages
    <3> QED
      BY <1>6, <3>1, <3>2, <3>3, <3>4, <3>5 DEF Pages
<1>9. page'.full <=> n = PageSize
  BY <1>2, <1>8
<1> QED
  BY <1>4, <1>8, <1>9 DEF n

\* Rows are read only of a run that there is.
Born ==
  status[Run] = "absent" =>
    page.tick = "over" /\ \A p \in Posts : post[p].at \notin {"flagged", "read"}

LEMMA UpToBounds ==
  ASSUME EventInv, NEW upTo, upTo = Lower(recorded, page.next + PageSize - 1)
  PROVE  upTo \in Nat /\ upTo <= recorded /\ page.next <= upTo + 1
<1>1. page.next \in Nat /\ page.next >= 1 /\ PageSize \in Nat \ {0} /\ recorded \in Nat
  BY PageAssumption DEF EventInv, PageTypes
<1> QED
  BY <1>1 DEF Lower, EventInv

LEMMA AloneTyped ==
  ASSUME TypeOK, NEW p \in Posts
  PROVE  /\ Alone(p) \in PostRecords
         /\ Alone(p) = NoPost \/ /\ Alone(p).op = post[p].op /\ Alone(p).at = post[p].at
                                 /\ Alone(p).question = post[p].question
                                 /\ Alone(p).reply = post[p].reply
         /\ Alone(p) = NoPost => post[p].at \in {"idle", "reply"}
<1>1. post[p] \in PostRecords
  BY Typed
<1>2. [post[p] EXCEPT !.awaited = FALSE] \in PostRecords
      /\ [post[p] EXCEPT !.awaited = FALSE].at = post[p].at
  BY <1>1 DEF PostRecords
<1>3. NoPost.at = "idle"
  BY DEF NoPost
<1>4. CASE post[p].at = "reply"
  BY <1>4, BlankRecords DEF Alone
<1>5. CASE post[p].at # "reply"
  BY <1>1, <1>2, <1>3, <1>5 DEF Alone, PostRecords
<1> QED
  BY <1>4, <1>5

LEMMA TickTyped ==
  ASSUME TypeOK, Born, EventInv, Open \/ Close \/ Tick \/ Fail
  PROVE  TypeOK' /\ Born'
<1> USE Typed, TypedNext
<1> page \in Pages
  OBVIOUS
<1>1. CASE Open
  <2>1. page' \in Pages /\ UNCHANGED <<server, post, faults, answers>> /\ status[Run] # "absent"
    BY <1>1, BlankRecords DEF Open
  <2> QED
    BY <2>1 DEF Born, server
<1>2. CASE Close
  <2>1. page' \in Pages /\ page'.tick = "over"
    <3>1. NoPage.tick = "over"
      BY BlankRecords DEF NoPage, NewPage
    <3> QED
      BY <1>2, <3>1, BlankRecords DEF Close
  <2>2. faults' \in 0..MaxFaults
    BY <1>2, FaultTyped DEF Close
  <2>3. post' = [p \in Posts |-> Alone(p)] /\ UNCHANGED <<server, answers>>
    BY <1>2 DEF Close
  <2>4. post' \in [Posts -> PostRecords]
    BY <2>3, AloneTyped
  <2>5. \A p \in Posts : post'[p].at \in {post[p].at, "idle"}
    BY <2>3, AloneTyped DEF NoPost
  <2> QED
    BY <2>1, <2>2, <2>3, <2>4, <2>5 DEF Born, server
<1>3. CASE GetRun
  <2>1. status[Run] # "absent" /\ UNCHANGED <<server, post, faults, answers>>
    BY <1>3 DEF GetRun, Born
  <2>2. Row \in Rows
    BY <2>1, RowTyped
  <2>3. page' \in Pages
    BY <1>3, <2>2 DEF GetRun, Pages
  <2> QED
    BY <2>1, <2>3 DEF Born, server
<1>4. CASE Miss \/ Fail
  <2>1. page' \in Pages
    <3>1. 0 \in 0..MaxEvents
      BY BoundsAssumption
    <3> QED
      BY <1>4, <3>1, BlankRecords DEF Miss, Fail, Pages
  <2>2. status[Run] # "absent"
    BY <1>4 DEF Miss, Fail, Born
  <2>3. faults' \in 0..MaxFaults
    BY <1>4, FaultTyped DEF Miss, Fail
  <2>4. UNCHANGED <<server, post, answers>>
    BY <1>4 DEF Miss, Fail
  <2> QED
    BY <2>1, <2>2, <2>3, <2>4 DEF Born, server
<1>5. CASE GetEvents
  <2>1. PICK upTo \in Nat : upTo = Lower(recorded, page.next + PageSize - 1)
    BY UpToBounds
  <2>2. upTo <= recorded /\ page.next <= upTo + 1
    BY <2>1, UpToBounds
  <2>3. status[Run] # "absent" /\ UNCHANGED <<server, post, faults, answers>>
    BY <1>5 DEF GetEvents, Born
  <2>4. CASE page' = [page EXCEPT !.tick = "files", !.upTo = upTo]
    <3>1. upTo \in 0..MaxEvents
      BY <2>2, BoundsAssumption
    <3>2. page' \in Pages
      BY <2>4, <3>1 DEF Pages
    <3> QED
      BY <2>3, <3>2 DEF Born, server
  <2>5. CASE Show(upTo, page.file)
    <3>1. page.file \in BOOLEAN
      BY DEF Pages
    <3>2. page' \in Pages
      BY <2>2, <2>5, <3>1, ShowTyped
    <3> QED
      BY <2>3, <3>2 DEF Born, server
  <2> QED
    BY <1>5, <2>1, <2>4, <2>5 DEF GetEvents
<1>6. CASE GetFiles
  <2>1. /\ page.tick = "files" /\ Show(page.upTo, file' = "listed") /\ file' \in {"none", "disk", "listed"}
        /\ UNCHANGED <<status, flag, asked, recorded, readable, post, faults, answers>>
    BY <1>6 DEF GetFiles, Collected
  <2>2. page.upTo \in Nat /\ page.next <= page.upTo + 1 /\ page.upTo <= recorded
    BY <2>1 DEF EventInv, PageTypes
  <2>3. PICK listed \in BOOLEAN : listed = (file' = "listed")
    OBVIOUS
  <2>4. page' \in Pages
    BY <2>1, <2>2, <2>3, ShowTyped
  <2> QED
    BY <2>1, <2>4 DEF Born
<1> QED
  BY <1>1, <1>2, <1>3, <1>4, <1>5, <1>6 DEF Tick

\* The card's flag is all that a post changes of the page, and the row when its reply is
\* shown.
LEMMA CardTyped ==
  ASSUME TypeOK, NEW over \in BOOLEAN, NEW row \in Rows,
         NEW card, card = [page EXCEPT !.sending = @ /\ over]
  PROVE  /\ card \in Pages /\ Showing(card, row) \in Pages
         /\ \A f \in Fields \ {"sending"} : card[f] = page[f]
         /\ \A f \in Fields \ {"sending", "run"} : Showing(card, row)[f] = page[f]
         /\ Showing(card, row).run = row
<1>1. page \in Pages /\ DOMAIN page = Fields
  BY Typed DEF Pages, Fields
<1>2. PICK b \in BOOLEAN : b = (page.sending /\ over)
  OBVIOUS
<1>3. card = [page EXCEPT !.sending = b]
  BY <1>2
<1>4. card \in Pages /\ DOMAIN card = Fields /\ \A f \in Fields \ {"sending"} : card[f] = page[f]
  BY <1>1, <1>3 DEF Pages, Fields
<1>5. PICK c \in BOOLEAN : c = (card.sending /\ row.status = "waiting")
  OBVIOUS
<1>6. Showing(card, row) = [card EXCEPT !.run = row, !.sending = c]
  BY <1>5 DEF Showing
<1>7. Showing(card, row) \in Pages
  BY <1>4, <1>6 DEF Pages
<1>8. \A f \in Fields \ {"sending", "run"} : Showing(card, row)[f] = card[f]
  BY <1>4, <1>6 DEF Fields
<1>9. Showing(card, row).run = row
  BY <1>4, <1>6 DEF Fields
<1> QED
  BY <1>4, <1>7, <1>8, <1>9

LEMMA SentTyped ==
  ASSUME TypeOK, NEW p \in Posts, NEW op \in {"cancel", "answer"}, Sent(p, op)
  PROVE  /\ post' \in [Posts -> PostRecords]
         /\ post[p] = NoPost
         /\ post'[p].op = op /\ post'[p].at = "sent" /\ post'[p].reply = Unknown
         /\ post'[p].question = IF op = "answer" THEN page.run.question ELSE 0
         /\ \A o \in Posts : o # p => post'[o] = post[o]
<1>1. PICK n \in 0..MaxQuestions : n = IF op = "answer" THEN page.run.question ELSE 0
  BY BoundsAssumption, Typed DEF Pages, Rows
<1>2. PICK new : new = [NoPost EXCEPT !.op = op, !.at = "sent", !.awaited = TRUE, !.question = n]
  OBVIOUS
<1>3. new \in PostRecords
  BY <1>2, BlankRecords DEF PostRecords
<1>4. new.op = op /\ new.at = "sent" /\ new.reply = Unknown /\ new.question = n
  BY <1>2 DEF NoPost
<1>5. post' = [post EXCEPT ![p] = new] /\ post[p] = NoPost
  BY <1>1, <1>2 DEF Sent
<1> QED
  BY <1>1, <1>3, <1>4, <1>5, Typed

LEMMA GoesTyped ==
  ASSUME TypeOK, NEW p \in Posts, NEW at \in {"flagged", "read"}, Goes(p, at)
  PROVE  /\ post' \in [Posts -> PostRecords]
         /\ post'[p].op = post[p].op /\ post'[p].at = at
         /\ post'[p].question = post[p].question /\ post'[p].reply = post[p].reply
         /\ \A o \in Posts : o # p => post'[o] = post[o]
  BY Typed DEF Goes, PostRecords

LEMMA RepliesTyped ==
  ASSUME TypeOK, NEW p \in Posts, NEW row \in Rows, Replies(p, row)
  PROVE  /\ post' \in [Posts -> PostRecords]
         /\ \/ post'[p] = NoPost
            \/ post'[p].at = "reply" /\ post'[p].question = 0 /\ post'[p].reply = row
         /\ \A o \in Posts : o # p => post'[o] = post[o]
<1>1. post[p] \in PostRecords /\ 0 \in 0..MaxQuestions
  BY Typed, BoundsAssumption
<1>2. PICK new : new = [post[p] EXCEPT !.at = "reply", !.reply = row, !.question = 0]
  OBVIOUS
<1>3. new \in PostRecords /\ new.at = "reply" /\ new.question = 0 /\ new.reply = row
  BY <1>1, <1>2 DEF PostRecords
<1>4. post' = [post EXCEPT ![p] = IF post[p].awaited THEN new ELSE NoPost]
  BY <1>2, Typed DEF Replies
<1> QED
  BY <1>3, <1>4, BlankRecords, Typed

\* Nothing but the cards and their replies: what each step of a post changes.
LEMMA UserTyped ==
  ASSUME TypeOK, Born, NEW p \in Posts,
         ClickCancel(p) \/ ClickAnswer(p) \/ Deliver(p) \/ GiveUp(p)
  PROVE  TypeOK' /\ Born'
<1> USE Typed, TypedNext
<1>1. CASE ClickCancel(p)
  <2>1. Sent(p, "cancel") /\ UNCHANGED <<server, page, faults, answers>>
    BY <1>1 DEF ClickCancel
  <2> QED
    BY <2>1, SentTyped DEF Born, server
<1>2. CASE ClickAnswer(p)
  <2>1. /\ Sent(p, "answer") /\ page' = [page EXCEPT !.sending = TRUE]
        /\ answers' = Lower(answers + 1, MaxQuestions + 1) /\ UNCHANGED <<server, faults>>
    BY <1>2 DEF ClickAnswer, Answering
  <2>2. page' \in Pages /\ page'.tick = page.tick
    BY <2>1 DEF Pages
  <2>3. answers' \in 0..(MaxQuestions + 1)
    BY <2>1, BoundsAssumption DEF Lower
  <2> QED
    BY <2>1, <2>2, <2>3, SentTyped DEF Born, server
<1>3. CASE Deliver(p)
  <2>1. PICK card : card = [page EXCEPT !.sending = @ /\ post[p].op # "answer"]
    OBVIOUS
  <2> DEFINE over == post[p].op # "answer"
  <2>2. over \in BOOLEAN /\ post[p].reply \in Rows /\ card = [page EXCEPT !.sending = @ /\ over]
    BY <2>1 DEF PostRecords
  <2>3. page' = card \/ page' = Showing(card, post[p].reply)
    BY <1>3, <2>1 DEF Deliver
  <2>4. page' \in Pages /\ page'.tick = page.tick
    <3> HIDE DEF over
    <3>1. "tick" \in Fields \ {"sending", "run"}
      BY DEF Fields
    <3> QED
      BY <2>2, <2>3, <3>1, CardTyped
  <2>5. post' \in [Posts -> PostRecords] /\ \A o \in Posts : post'[o].at \in {post[o].at, "idle"}
    BY <1>3, BlankRecords DEF Deliver, NoPost
  <2> QED
    BY <1>3, <2>4, <2>5 DEF Deliver, Born, server
<1>4. CASE GiveUp(p)
  <2>1. PICK card : card = [page EXCEPT !.sending = @ /\ post[p].op # "answer"]
    OBVIOUS
  <2> DEFINE over == post[p].op # "answer"
  <2>2. over \in BOOLEAN /\ post[p].reply \in Rows /\ card = [page EXCEPT !.sending = @ /\ over]
    BY <2>1 DEF PostRecords
  <2>3. page' = card
    BY <1>4, <2>1 DEF GiveUp
  <2>4. page' \in Pages /\ page'.tick = page.tick
    <3> HIDE DEF over
    <3>1. "tick" \in Fields \ {"sending", "run"}
      BY DEF Fields
    <3> QED
      BY <2>2, <2>3, <3>1, CardTyped
  <2>5. post' \in [Posts -> PostRecords] /\ \A o \in Posts : post'[o].at \in {post[o].at, "idle"}
    BY <1>4, AloneTyped DEF GiveUp, NoPost
  <2>6. faults' \in 0..MaxFaults
    BY <1>4, FaultTyped DEF GiveUp
  <2> QED
    BY <1>4, <2>4, <2>5, <2>6 DEF GiveUp, Born, server
<1> QED
  BY <1>1, <1>2, <1>3, <1>4

LEMMA ApiTyped ==
  ASSUME TypeOK, Born, NEW p \in Posts,
         Flag(p) \/ EndWait(p) \/ Answer(p) \/ Refuse(p) \/ Read(p)
  PROVE  TypeOK' /\ Born'
<1> USE Typed, TypedNext
<1>1. CASE Flag(p)
  <2>1. flag' = TRUE /\ Goes(p, "flagged") /\ UNCHANGED <<status, same>>
        /\ status[Run] # "absent"
    BY <1>1 DEF Flag, L!Active
  <2> QED
    BY <2>1, GoesTyped DEF Born, same
<1>2. CASE EndWait(p)
  <2>1. Goes(p, "read") /\ UNCHANGED <<flag, same>> /\ status[Run] # "absent"
    BY <1>2 DEF EndWait, Born
  <2>2. status' \in [Runs -> Statuses] /\ status'[Run] # "absent"
    BY <1>2, <2>1, StatusMoves DEF EndWait
  <2> QED
    BY <2>1, <2>2, GoesTyped DEF Born, same
<1>3. CASE Answer(p)
  <2>1. Goes(p, "read") /\ UNCHANGED <<flag, same>> /\ L!Answer(Run)
    BY <1>3 DEF Answer
  <2>2. status' \in [Runs -> Statuses] /\ status'[Run] # "absent"
    BY <2>1, StatusMoves
  <2> QED
    BY <2>1, <2>2, GoesTyped DEF Born, same
<1>4. CASE Refuse(p)
  <2>1. Replies(p, Unknown) /\ UNCHANGED <<status, flag, same>>
    BY <1>4 DEF Refuse
  <2>2. post' \in [Posts -> PostRecords]
        /\ \A o \in Posts : post'[o].at \in {post[o].at, "idle", "reply"}
    BY <2>1, RepliesTyped, BlankRecords DEF NoPost
  <2> QED
    BY <2>1, <2>2 DEF Born, same
<1>5. CASE Read(p)
  <2>1. Replies(p, Row) /\ UNCHANGED <<status, flag, same>> /\ status[Run] # "absent"
    BY <1>5 DEF Read, Born
  <2>2. Row \in Rows
    BY <2>1, RowTyped
  <2>3. post' \in [Posts -> PostRecords]
    BY <2>1, <2>2, RepliesTyped
  <2> QED
    BY <2>1, <2>3 DEF Born, same
<1> QED
  BY <1>1, <1>2, <1>3, <1>4, <1>5

LEMMA RunBorn ==
  ASSUME TypeOK, Born,
         Move \/ Record \/ WriteFile \/ Ask \/ End \/ GiveUpRun \/ Recover \/ Leave
  PROVE  TypeOK' /\ Born'
<1>1. TypeOK'
  BY RunTyped
<1>2. UNCHANGED <<page, post>> /\ (status' = status \/ status'[Run] # "absent")
  BY StatusMoves DEF Move, Record, WriteFile, Ask, End, GiveUpRun, Recover, Leave
<1> QED
  BY <1>1, <1>2 DEF Born

LEMMA TypesStep == TypeOK /\ Born /\ EventInv /\ [Next]_vars => TypeOK' /\ Born'
<1> SUFFICES ASSUME TypeOK, Born, EventInv, [Next]_vars PROVE TypeOK' /\ Born'
  OBVIOUS
<1>1. CASE UNCHANGED vars
  BY <1>1, Typed, TypedNext DEF vars, server, Born
<1>2. CASE Next
  BY <1>2, RunBorn, TickTyped, UserTyped, ApiTyped DEF Next
<1> QED
  BY <1>1, <1>2

LEMMA TypesInit == Init => TypeOK /\ Born
<1> SUFFICES ASSUME Init PROVE TypeOK /\ Born
  OBVIOUS
<1>1. status \in [Runs -> Statuses] /\ page = NoPage /\ post = [p \in Posts |-> NoPost]
  BY DEF Init, L!Init, Statuses
<1>2. page \in Pages /\ post \in [Posts -> PostRecords]
  BY <1>1, BlankRecords
<1>3. 0 \in 0..MaxQuestions /\ 0 \in 0..(MaxQuestions + 1) /\ 0 \in 0..MaxEvents
      /\ 0 \in 0..MaxFaults
  BY BoundsAssumption
<1>4. TypeOK
  BY <1>1, <1>2, <1>3, Typed DEF Init
<1>5. page.tick = "over" /\ \A p \in Posts : post[p].at = "idle"
  BY <1>1, BlankRecords DEF NoPage, NewPage, NoPost
<1> QED
  BY <1>4, <1>5 DEF Born

\* The types: the page never counts beyond the events that are recorded, however it was
\* closed, opened and fell behind.
THEOREM ViewTypeCorrect == Spec => []TypeOK
  BY TypesInit, TypesStep, InitEvents, EventStep, PTL DEF Spec

-----------------------------------------------------------------------------
(* A page that polls no more has seen the run end before it got the rest. *)

Settled ==
  /\ Polled => /\ status[Run] \in L!Terminal
               /\ page.full \/ Len(page.events) = recorded
               /\ file = "listed" => page.file
  /\ Terminal(page.got) => status[Run] = page.got.status
  /\ page.tick = "files" /\ Terminal(page.got)
       => page.upTo = Lower(recorded, page.next + PageSize - 1)
  /\ status[Run] = "succeeded" => file # "disk"

LEMMA UnknownGoesOn == ~Terminal(Unknown)
  BY DEF Terminal, Unknown, L!Terminal

\* The run moves, and its worker works, while no page has seen its end.
LEMMA SettledRun ==
  ASSUME TypeOK, Settled,
         \/ Move \/ Record \/ WriteFile \/ Ask \/ End \/ GiveUpRun \/ Recover \/ Leave
         \/ \E p \in Posts : EndWait(p) \/ Answer(p)
  PROVE  Settled'
<1>1. page' = page
  BY DEF Move, Record, WriteFile, Ask, End, GiveUpRun, Recover, Leave, EndWait, Answer, same
<1>2. CASE UNCHANGED <<status, file, recorded>>
  BY <1>1, <1>2 DEF Settled, Polled
<1>3. ASSUME status[Run] \notin L!Terminal, status'[Run] = "succeeded" => file' # "disk"
      PROVE  Settled'
  <2>1. ~Polled /\ ~Terminal(page.got)
    BY <1>3 DEF Settled, Terminal
  <2> QED
    BY <1>1, <1>3, <2>1 DEF Settled, Polled
<1>4. CASE Record \/ WriteFile
  <2>1. status[Run] = "running" /\ status' = status
    BY <1>4 DEF Record, WriteFile
  <2> QED
    BY <1>3, <2>1 DEF L!Terminal
<1>5. CASE End
  BY <1>3, <1>5, StatusMoves DEF End, Collected
<1>6. CASE GiveUpRun
  BY <1>3, <1>6, StatusMoves DEF GiveUpRun
<1>7. ASSUME \/ L!Create(Run) \/ L!Claim(Run) \/ L!Refuse(Run) \/ L!Ask(Run) \/ L!Recover(Run)
             \/ L!EndWait(Run) \/ L!Answer(Run)
      PROVE  status[Run] \notin L!Terminal /\ status'[Run] # "succeeded"
  <2>1. PICK from \in Statuses, to \in Statuses \ {"succeeded"} : L!Moves(Run, from, to)
    BY <1>7 DEF L!Create, L!Claim, L!Refuse, L!Ask, L!Recover, L!EndWait, L!Answer, Statuses,
                L!Active, L!Terminal
  <2>2. status'[Run] = to
    BY <2>1, MovesTyped
  <2> QED
    BY <1>7, <2>2, StatusMoves
<1>8. CASE Move \/ Ask \/ Recover
  BY <1>3, <1>7, <1>8 DEF Move, Ask, Recover
<1>9. CASE Leave
  BY <1>2, <1>9 DEF Leave
<1>10. ASSUME NEW p \in Posts, EndWait(p) \/ Answer(p) PROVE Settled'
  <2>1. UNCHANGED <<file, recorded>>
    BY <1>10 DEF EndWait, Answer, same
  <2> QED
    BY <1>2, <1>3, <1>7, <1>10, <2>1 DEF EndWait, Answer
<1> QED
  BY <1>4, <1>5, <1>6, <1>8, <1>9, <1>10

LEMMA SettledTick ==
  ASSUME TypeOK, Born, EventInv, Settled, Open \/ Close \/ Tick \/ Fail
  PROVE  Settled'
<1> page \in Pages
  BY Typed
<1>1. ASSUME UNCHANGED server, ~Polled', ~Terminal(page'.got) PROVE Settled'
  BY <1>1 DEF Settled, server
<1>2. CASE Open
  <2>1. page'.tick = "run" /\ page'.got = Unknown /\ UNCHANGED server
    BY <1>2 DEF Open, NewPage
  <2> QED
    BY <1>1, <2>1, UnknownGoesOn DEF Polled
<1>3. CASE Close
  <2>1. ~NoPage.on /\ NoPage.got = Unknown
    BY BlankRecords DEF NoPage, NewPage
  <2> QED
    BY <1>1, <1>3, <2>1, UnknownGoesOn DEF Polled, Close
<1>4. CASE GetRun
  <2>1. page'.tick = "events" /\ page'.got = Row /\ UNCHANGED server
    BY <1>4 DEF GetRun, Pages
  <2>2. page'.got.status = status'[Run]
    BY <2>1 DEF Row, server
  <2> QED
    BY <2>1, <2>2 DEF Settled, Polled, server
<1>5. CASE Fail
  <2>1. page'.tick = "run" /\ page'.got = Unknown /\ UNCHANGED server
    BY <1>5 DEF Fail, Pages
  <2> QED
    BY <1>1, <2>1, UnknownGoesOn DEF Polled
<1>6. CASE Miss
  <2>1. page'.missing /\ page'.got = Unknown /\ UNCHANGED server
    BY <1>6 DEF Miss, Pages
  <2> QED
    BY <1>1, <2>1, UnknownGoesOn DEF Polled
<1>7. CASE GetEvents
  <2>1. PICK upTo \in Nat : upTo = Lower(recorded, page.next + PageSize - 1)
    BY UpToBounds
  <2>2. upTo <= recorded /\ page.next <= upTo + 1 /\ UNCHANGED server
    BY <1>7, <2>1, UpToBounds DEF GetEvents
  <2>3. CASE page' = [page EXCEPT !.tick = "files", !.upTo = upTo]
    <3>1. page'.tick = "files" /\ page'.upTo = upTo /\ page'.next = page.next /\ page'.got = page.got
      BY <2>3 DEF Pages
    <3> QED
      BY <2>1, <2>2, <3>1 DEF Settled, Polled, server
  <2>4. CASE ~Terminal(page.got) /\ Show(upTo, page.file)
    <3>1. page.file \in BOOLEAN
      BY DEF Pages
    <3>2. page'.tick = "run" /\ page'.got = Unknown
      BY <2>2, <2>4, <3>1, ShowTyped
    <3> QED
      BY <1>1, <2>2, <3>2, UnknownGoesOn DEF Polled
  <2> QED
    BY <1>7, <2>1, <2>3, <2>4 DEF GetEvents
<1>8. CASE GetFiles
  <2>1. /\ page.tick = "files" /\ Show(page.upTo, file' = "listed")
        /\ file' = IF status[Run] = "running" THEN Collected ELSE file
        /\ UNCHANGED <<status, recorded>>
    BY <1>8 DEF GetFiles
  <2>2. page.upTo \in Nat /\ page.next <= page.upTo + 1 /\ page.upTo <= recorded
    BY <2>1 DEF EventInv, PageTypes
  <2>3. PICK listed \in BOOLEAN : listed = (file' = "listed")
    OBVIOUS
  <2>4. Show(page.upTo, listed)
    BY <2>1, <2>3
  <2>5. /\ page'.got = Unknown /\ Len(page'.events) = page.upTo /\ page'.file = listed
        /\ page'.full <=> page.upTo + 1 - page.next = PageSize
        /\ page'.tick = IF Terminal(page.got) THEN "over" ELSE "run"
    BY <2>2, <2>4, ShowTyped
  <2>6. status'[Run] = "succeeded" => file' # "disk"
    BY <2>1 DEF Settled
  <2>7. ~Terminal(page.got) => ~Polled'
    BY <2>5 DEF Polled
  <2>8. ASSUME Terminal(page.got)
        PROVE  /\ status'[Run] \in L!Terminal
               /\ page'.full \/ Len(page'.events) = recorded'
               /\ file' = "listed" => page'.file
    <3>1. status'[Run] \in L!Terminal /\ page.upTo = Lower(recorded, page.next + PageSize - 1)
      BY <2>1, <2>8 DEF Settled, Terminal
    <3>2. page.next \in Nat /\ recorded \in Nat /\ PageSize \in Nat
      BY PageAssumption DEF EventInv, PageTypes
    <3>3. page.upTo = recorded \/ page.upTo + 1 - page.next = PageSize
      BY <2>2, <3>1, <3>2 DEF Lower
    <3> QED
      BY <2>1, <2>3, <2>5, <3>1, <3>3
  <2> QED
    BY <2>5, <2>6, <2>7, <2>8, UnknownGoesOn DEF Settled
<1> QED
  BY <1>2, <1>3, <1>4, <1>5, <1>6, <1>7, <1>8 DEF Tick

\* Replies to posts change the row and the card only.
LEMMA CardSteps ==
  ASSUME TypeOK, NEW p \in Posts,
         ClickCancel(p) \/ ClickAnswer(p) \/ Deliver(p) \/ GiveUp(p)
  PROVE  /\ \A f \in Fields \ {"sending", "run"} : page'[f] = page[f]
         /\ page'.run = page.run \/ (post[p].at = "reply" /\ page'.run = post[p].reply)
         /\ UNCHANGED server
<1> page \in Pages /\ post \in [Posts -> PostRecords]
  BY Typed
<1>1. CASE ClickCancel(p)
  BY <1>1 DEF ClickCancel
<1>2. CASE ClickAnswer(p)
  BY <1>2 DEF ClickAnswer, Answering, Pages, Fields, server
<1>3. CASE Deliver(p) \/ GiveUp(p)
  <2>1. PICK card : card = [page EXCEPT !.sending = @ /\ post[p].op # "answer"]
    OBVIOUS
  <2> DEFINE over == post[p].op # "answer"
  <2>2. over \in BOOLEAN /\ post[p].reply \in Rows /\ card = [page EXCEPT !.sending = @ /\ over]
    BY <2>1 DEF PostRecords
  <2>3. page' = card \/ (post[p].at = "reply" /\ page' = Showing(card, post[p].reply))
    BY <1>3, <2>1 DEF Deliver, GiveUp
  <2>4. UNCHANGED server
    BY <1>3 DEF Deliver, GiveUp
  <2> HIDE DEF over
  <2>5. "run" \in Fields \ {"sending"}
    BY DEF Fields
  <2> QED
    BY <2>2, <2>3, <2>4, <2>5, CardTyped
<1> QED
  BY <1>1, <1>2, <1>3

LEMMA SettledPost ==
  ASSUME TypeOK, Settled, NEW p \in Posts,
         \/ ClickCancel(p) \/ ClickAnswer(p) \/ Deliver(p) \/ GiveUp(p)
         \/ Flag(p) \/ Refuse(p) \/ Read(p)
  PROVE  Settled'
<1>1. UNCHANGED <<status, file, recorded>>
  BY CardSteps DEF Flag, Refuse, Read, same, server
<1>2. /\ page'.on = page.on /\ page'.missing = page.missing /\ page'.tick = page.tick
      /\ page'.full = page.full /\ page'.events = page.events /\ page'.file = page.file
      /\ page'.got = page.got /\ page'.upTo = page.upTo /\ page'.next = page.next
  <2>1. CASE ClickCancel(p) \/ ClickAnswer(p) \/ Deliver(p) \/ GiveUp(p)
    BY <2>1, CardSteps DEF Fields
  <2>2. CASE Flag(p) \/ Refuse(p) \/ Read(p)
    BY <2>2 DEF Flag, Refuse, Read, same
  <2> QED
    BY <2>1, <2>2
<1> QED
  BY <1>1, <1>2 DEF Settled, Polled

ViewInv == TypeOK /\ Born /\ EventInv /\ Settled

LEMMA ViewStep == ViewInv /\ [Next]_vars => ViewInv'
<1> SUFFICES ASSUME ViewInv, [Next]_vars PROVE ViewInv'
  OBVIOUS
<1>1. TypeOK' /\ Born' /\ EventInv'
  BY TypesStep, EventStep DEF ViewInv
<1>2. CASE UNCHANGED vars
  BY <1>1, <1>2 DEF ViewInv, vars, server, Settled, Polled
<1>3. CASE Next
  BY <1>1, <1>3, SettledRun, SettledTick, SettledPost DEF Next, ViewInv
<1> QED
  BY <1>2, <1>3

LEMMA ViewInit == Init => ViewInv
<1> SUFFICES ASSUME Init PROVE ViewInv
  OBVIOUS
<1>1. page = NoPage /\ file = "none"
  BY DEF Init
<1>2. ~NoPage.on /\ NoPage.got = Unknown
  BY BlankRecords DEF NoPage, NewPage
<1>3. Settled
  <2>1. ~page.on /\ page.got = Unknown
    BY <1>1, <1>2
  <2>2. page.tick # "files"
    BY <1>1 DEF NoPage, NewPage
  <2> QED
    BY <1>1, <2>1, <2>2, UnknownGoesOn DEF Settled, Polled
<1> QED
  BY <1>3, TypesInit, InitEvents DEF ViewInv

\* A page that stopped polling because the run had ended missed no event that would have
\* fitted into its last reply, and no file: for any number of events, failed ticks,
\* recovered runs and pages.
THEOREM NothingLeftOut == Spec => []NothingMissed
<1>1. ViewInv => NothingMissed
  BY DEF ViewInv, Settled, NothingMissed
<1> QED
  BY <1>1, ViewInit, ViewStep, PTL DEF Spec

-----------------------------------------------------------------------------
(* Which question an answer reaches. *)

\* The answers that the server has not dealt with.
Pending == {p \in Posts : post[p].op = "answer" /\ post[p].at = "sent"}

\* The questions that were asked and are answered, and the answers on their way, come from
\* as many answers of the user, as far as these are counted.
Counted(n) == answers > MaxQuestions \/ answers + n >= asked + Cardinality(Pending)
Answers ==
  /\ IsFiniteSet(Pending)
  /\ status[Run] = "waiting" => Counted(1)
  /\ status[Run] \in {"absent", "queued", "running"} => Counted(0)

\* No row that was read is of a later question.
Seen ==
  /\ page.run.question <= asked /\ page.got.question <= asked
  /\ \A p \in Posts : post[p].question <= asked /\ post[p].reply.question <= asked

LEMMA SeenKept ==
  ASSUME TypeOK, TypeOK', Seen, asked <= asked',
         \/ page'.run \in {page.run, page.got, Unknown}
         \/ \E p \in Posts : page'.run = post[p].reply,
         page'.got \in {page.got, Unknown, Row},
         \A p \in Posts :
           /\ post'[p].question \in {post[p].question, page.run.question, 0}
           /\ post'[p].reply \in {post[p].reply, Unknown, Row}
  PROVE  Seen'
<1>1. asked \in Nat /\ asked' \in Nat
  BY Typed, TypedNext, BoundsAssumption
<1>2. Unknown.question = 0 /\ Row.question = asked
  BY DEF Unknown, Row
<1>3. \A n \in Nat : n <= asked => n <= asked'
  BY <1>1
<1>4. /\ page.run.question \in Nat /\ page.got.question \in Nat
      /\ \A p \in Posts : post[p].question \in Nat /\ post[p].reply.question \in Nat
  BY Typed, BoundsAssumption DEF Pages, Rows, PostRecords
<1>5. page'.run.question <= asked' /\ page'.got.question <= asked'
  BY <1>1, <1>2, <1>3, <1>4 DEF Seen
<1>6. ASSUME NEW p \in Posts
      PROVE  post'[p].question <= asked' /\ post'[p].reply.question <= asked'
  BY <1>1, <1>2, <1>3, <1>4 DEF Seen
<1> QED
  BY <1>5, <1>6 DEF Seen

LEMMA SeenRun ==
  ASSUME TypeOK, TypeOK', Seen,
         Move \/ Record \/ WriteFile \/ Ask \/ End \/ GiveUpRun \/ Recover \/ Leave
  PROVE  Seen'
<1>1. asked' \in {asked, asked + 1} /\ UNCHANGED <<page, post>>
  BY DEF Move, Record, WriteFile, Ask, End, GiveUpRun, Recover, Leave
<1>2. asked <= asked'
  BY <1>1, Typed
<1> QED
  BY <1>1, <1>2, SeenKept

LEMMA SeenTick ==
  ASSUME TypeOK, TypeOK', EventInv, Seen, Open \/ Close \/ Tick \/ Fail
  PROVE  Seen'
<1> page \in Pages
  BY Typed
<1>0. asked' = asked /\ asked <= asked'
  BY Typed DEF Open, Close, Tick, GetRun, GetEvents, GetFiles, Miss, Fail, server
<1>1. \A p \in Posts :
        /\ post'[p].question \in {post[p].question, page.run.question, 0}
        /\ post'[p].reply \in {post[p].reply, Unknown, Row}
  <2>1. CASE Close
    <3>1. \A p \in Posts : post'[p] = Alone(p)
      BY <2>1 DEF Close
    <3>2. NoPost.question = 0 /\ NoPost.reply = Unknown
      BY DEF NoPost
    <3> QED
      BY <3>1, <3>2, AloneTyped
  <2>2. CASE Open \/ Tick \/ Fail
    <3>1. post' = post
      BY <2>2 DEF Open, Tick, GetRun, GetEvents, GetFiles, Miss, Fail
    <3> QED
      BY <3>1
  <2> QED
    BY <2>1, <2>2
<1>2. page'.run \in {page.run, page.got, Unknown} /\ page'.got \in {page.got, Unknown, Row}
  <2>1. CASE Open \/ Close
    <3>1. NewPage.run = Unknown /\ NewPage.got = Unknown
      BY DEF NewPage
    <3>2. NoPage.run = Unknown /\ NoPage.got = Unknown
      BY DEF NoPage, NewPage
    <3> QED
      BY <2>1, <3>1, <3>2 DEF Open, Close
  <2>2. CASE GetRun
    BY <2>2 DEF GetRun, Pages
  <2>3. CASE Miss \/ Fail
    BY <2>3 DEF Miss, Fail, Pages
  <2>4. CASE GetEvents
    <3>1. PICK upTo \in Nat : upTo = Lower(recorded, page.next + PageSize - 1)
      BY UpToBounds
    <3>2. upTo <= recorded /\ page.next <= upTo + 1
      BY <3>1, UpToBounds
    <3>3. CASE page' = [page EXCEPT !.tick = "files", !.upTo = upTo]
      BY <3>3 DEF Pages
    <3>4. CASE Show(upTo, page.file)
      <4>1. page.file \in BOOLEAN
        BY DEF Pages
      <4> QED
        BY <3>2, <3>4, <4>1, ShowTyped
    <3> QED
      BY <2>4, <3>1, <3>3, <3>4 DEF GetEvents
  <2>5. CASE GetFiles
    <3>1. page.tick = "files" /\ Show(page.upTo, file' = "listed")
      BY <2>5 DEF GetFiles
    <3>2. page.upTo \in Nat /\ page.next <= page.upTo + 1 /\ page.upTo <= recorded
      BY <3>1 DEF EventInv, PageTypes
    <3>3. PICK listed \in BOOLEAN : listed = (file' = "listed")
      OBVIOUS
    <3> QED
      BY <3>1, <3>2, <3>3, ShowTyped
  <2> QED
    BY <2>1, <2>2, <2>3, <2>4, <2>5 DEF Tick
<1> QED
  BY <1>0, <1>1, <1>2, SeenKept

LEMMA SeenPost ==
  ASSUME TypeOK, TypeOK', Born, Seen, NEW p \in Posts,
         \/ ClickCancel(p) \/ ClickAnswer(p) \/ Deliver(p) \/ GiveUp(p)
         \/ Flag(p) \/ EndWait(p) \/ Answer(p) \/ Refuse(p) \/ Read(p)
  PROVE  Seen'
<1> page \in Pages /\ post \in [Posts -> PostRecords]
  BY Typed
<1>0. asked' = asked /\ asked <= asked'
  BY Typed, CardSteps DEF server, Flag, EndWait, Answer, Refuse, Read, same
<1>1. page'.got = page.got /\ (page'.run = page.run \/ \E o \in Posts : page'.run = post[o].reply)
  <2>1. CASE ClickCancel(p) \/ ClickAnswer(p) \/ Deliver(p) \/ GiveUp(p)
    <3>1. "got" \in Fields \ {"sending", "run"}
      BY DEF Fields
    <3> QED
      BY <2>1, <3>1, CardSteps
  <2>2. CASE Flag(p) \/ EndWait(p) \/ Answer(p) \/ Refuse(p) \/ Read(p)
    BY <2>2 DEF Flag, EndWait, Answer, Refuse, Read, same
  <2> QED
    BY <2>1, <2>2
<1>2. NoPost.question = 0 /\ NoPost.reply = Unknown
  BY DEF NoPost
<1>3. ASSUME NEW o \in Posts
      PROVE  /\ post'[o].question \in {post[o].question, page.run.question, 0}
             /\ post'[o].reply \in {post[o].reply, Unknown, Row}
  <2>1. CASE ClickCancel(p)
    BY <2>1, SentTyped DEF ClickCancel
  <2>2. CASE ClickAnswer(p)
    BY <2>2, SentTyped DEF ClickAnswer, Answering
  <2>3. CASE Deliver(p)
    BY <1>2, <2>3 DEF Deliver
  <2>4. CASE GiveUp(p)
    BY <1>2, <2>4, AloneTyped DEF GiveUp
  <2>5. CASE Flag(p) \/ EndWait(p) \/ Answer(p)
    BY <2>5, GoesTyped DEF Flag, EndWait, Answer
  <2>6. CASE Refuse(p)
    BY <1>2, <2>6, RepliesTyped, BlankRecords DEF Refuse
  <2>7. CASE Read(p)
    <3>1. Row \in Rows
      BY <2>7, RowTyped DEF Read, Born
    <3> QED
      BY <1>2, <2>7, <3>1, RepliesTyped DEF Read
  <2> QED
    BY <2>1, <2>2, <2>3, <2>4, <2>5, <2>6, <2>7
<1> QED
  BY <1>0, <1>1, <1>3, SeenKept

LEMMA PendingShrinks ==
  ASSUME IsFiniteSet(Pending), Pending' \subseteq Pending
  PROVE  /\ IsFiniteSet(Pending)' /\ Cardinality(Pending)' \in Nat
         /\ Cardinality(Pending)' <= Cardinality(Pending) /\ Cardinality(Pending) \in Nat
<1>1. PICK S : S = Pending
  OBVIOUS
<1>2. PICK T : T = Pending'
  OBVIOUS
<1>3. IsFiniteSet(S) /\ T \in SUBSET S
  BY <1>1, <1>2
<1>4. IsFiniteSet(T) /\ Cardinality(T) <= Cardinality(S)
  BY <1>3, FS_Subset
<1>5. Cardinality(T) \in Nat /\ Cardinality(S) \in Nat
  BY <1>3, <1>4, FS_CardinalityType
<1> QED
  BY <1>1, <1>2, <1>4, <1>5

\* Where no question is asked or answered and no answer sent, nothing is owed that was not.
LEMMA AnswersKept ==
  ASSUME TypeOK, Answers, UNCHANGED <<asked, answers>>, Pending' \subseteq Pending,
         \/ UNCHANGED status
         \/ status'[Run] \in L!Terminal
         \/ /\ status[Run] \in {"absent", "queued", "running"}
            /\ status'[Run] \in {"queued", "running"}
  PROVE  Answers'
<1>1. /\ IsFiniteSet(Pending)' /\ Cardinality(Pending)' \in Nat /\ Cardinality(Pending) \in Nat
      /\ Cardinality(Pending)' <= Cardinality(Pending) /\ asked \in Nat /\ answers \in Nat
  BY PendingShrinks, Typed DEF Answers
<1>2. (Counted(0) => Counted(0)') /\ (Counted(1) => Counted(1)')
  BY <1>1 DEF Counted
<1> QED
  BY <1>1, <1>2 DEF Answers, L!Terminal

LEMMA AnswersRun ==
  ASSUME TypeOK, TypeOK', Answers,
         Move \/ Record \/ WriteFile \/ Ask \/ End \/ GiveUpRun \/ Recover \/ Leave
  PROVE  Answers'
<1>1. post' = post /\ answers' = answers
  BY DEF Move, Record, WriteFile, Ask, End, GiveUpRun, Recover, Leave
<1>2. Pending' = Pending
  BY <1>1 DEF Pending
<1>3. CASE Record \/ WriteFile \/ Leave
  BY <1>1, <1>2, <1>3, AnswersKept DEF Record, WriteFile, Leave
<1>4. ASSUME L!Create(Run) \/ L!Claim(Run) \/ L!Recover(Run)
      PROVE  /\ status[Run] \in {"absent", "queued", "running"}
             /\ status'[Run] \in {"queued", "running"}
  <2>1. PICK from \in {"absent", "queued", "running"}, to \in {"queued", "running"} :
          L!Moves(Run, from, to)
    BY <1>4 DEF L!Create, L!Claim, L!Recover
  <2> QED
    BY <2>1, MovesTyped DEF Statuses, L!Active
<1>5. ASSUME L!Refuse(Run) \/ L!End(Run)
      PROVE  status'[Run] \in L!Terminal
  <2>1. PICK from \in Statuses, to \in L!Terminal : L!Moves(Run, from, to)
    BY <1>5 DEF L!Refuse, L!End, Statuses, L!Active, L!Terminal
  <2> QED
    BY <2>1, MovesTyped DEF Statuses
<1>6. CASE Move \/ Recover \/ End \/ GiveUpRun
  BY <1>1, <1>2, <1>4, <1>5, <1>6, AnswersKept DEF Move, Recover, End, GiveUpRun
<1>7. CASE Ask
  <2>1. status[Run] = "running" /\ status'[Run] = "waiting"
    BY <1>7, MovesTyped DEF Ask, L!Ask, Statuses, L!Active
  <2>2. asked' = asked + 1 /\ asked \in Nat /\ answers \in Nat
    BY <1>7, Typed DEF Ask
  <2>3. Cardinality(Pending) \in Nat
    BY PendingShrinks, <1>2 DEF Answers
  <2>4. Counted(1)'
    BY <1>1, <1>2, <2>1, <2>2, <2>3 DEF Answers, Counted
  <2> QED
    BY <1>2, <2>1, <2>4 DEF Answers
<1> QED
  BY <1>3, <1>6, <1>7

\* Each answer that reaches a question is one the server has dealt with.
LEMMA AnswersPost ==
  ASSUME TypeOK, TypeOK', Born, Answers, NEW p \in Posts,
         \/ ClickCancel(p) \/ ClickAnswer(p) \/ Deliver(p) \/ GiveUp(p)
         \/ Flag(p) \/ EndWait(p) \/ Answer(p) \/ Refuse(p) \/ Read(p)
  PROVE  Answers'
<1> post \in [Posts -> PostRecords]
  BY Typed
<1>1. NoPost.at = "idle"
  BY DEF NoPost
<1>2. /\ IsFiniteSet(Pending) /\ Cardinality(Pending) \in Nat
      /\ asked \in Nat /\ answers \in Nat /\ MaxQuestions \in Nat
  BY PendingShrinks, Typed, BoundsAssumption, FS_CardinalityType DEF Answers
<1>3. CASE ClickCancel(p)
  <2>1. Pending' \subseteq Pending
    BY <1>3, SentTyped DEF ClickCancel, Pending
  <2> QED
    BY <1>3, <2>1, AnswersKept DEF ClickCancel, server
<1>4. CASE Deliver(p)
  <2>1. Pending' \subseteq Pending
    BY <1>1, <1>4 DEF Deliver, Pending
  <2> QED
    BY <1>4, <2>1, AnswersKept DEF Deliver, server
<1>5. CASE GiveUp(p)
  <2>1. Pending' \subseteq Pending
    BY <1>1, <1>5, AloneTyped DEF GiveUp, Pending
  <2> QED
    BY <1>5, <2>1, AnswersKept DEF GiveUp, server
<1>6. CASE Flag(p)
  <2>1. Pending' \subseteq Pending
    BY <1>6, GoesTyped DEF Flag, Pending
  <2> QED
    BY <1>6, <2>1, AnswersKept DEF Flag, same
<1>7. CASE EndWait(p)
  <2>1. Pending' \subseteq Pending
    BY <1>7, GoesTyped DEF EndWait, Pending
  <2>2. UNCHANGED status \/ status'[Run] \in L!Terminal
    BY <1>7, MovesTyped DEF EndWait, L!EndWait, L!Terminal, Statuses
  <2> QED
    BY <1>7, <2>1, <2>2, AnswersKept DEF EndWait, same
<1>8. CASE Refuse(p)
  <2>1. Pending' \subseteq Pending
    BY <1>1, <1>8, RepliesTyped, BlankRecords DEF Refuse, Pending
  <2> QED
    BY <1>8, <2>1, AnswersKept DEF Refuse, same
<1>9. CASE Read(p)
  <2>1. Row \in Rows
    BY <1>9, RowTyped DEF Read, Born
  <2>2. Pending' \subseteq Pending
    BY <1>1, <1>9, <2>1, RepliesTyped DEF Read, Pending
  <2> QED
    BY <1>9, <2>2, AnswersKept DEF Read, same
<1>10. CASE ClickAnswer(p)
  <2>1. /\ Sent(p, "answer") /\ UNCHANGED <<status, asked>>
        /\ answers' = Lower(answers + 1, MaxQuestions + 1)
    BY <1>10 DEF ClickAnswer, Answering, server
  <2>2. Pending' \subseteq Pending \union {p}
    BY <2>1, SentTyped DEF Pending
  <2>3. PICK S : S = Pending
    OBVIOUS
  <2>4. PICK T : T = Pending'
    OBVIOUS
  <2>5. IsFiniteSet(S \union {p}) /\ Cardinality(S \union {p}) <= Cardinality(S) + 1
    <3>1. /\ IsFiniteSet(S \union {p})
          /\ Cardinality(S \union {p}) = IF p \in S THEN Cardinality(S) ELSE Cardinality(S) + 1
      BY <1>2, <2>3, FS_AddElement
    <3> QED
      BY <1>2, <2>3, <3>1
  <2>6. IsFiniteSet(T) /\ Cardinality(T) <= Cardinality(S \union {p})
    <3>1. T \in SUBSET (S \union {p})
      BY <2>2, <2>3, <2>4
    <3> QED
      BY <2>5, <3>1, FS_Subset
  <2>7. Cardinality(T) \in Nat /\ Cardinality(S \union {p}) \in Nat
    BY <2>5, <2>6, FS_CardinalityType
  <2>8. Cardinality(T) <= Cardinality(S) + 1
    BY <1>2, <2>3, <2>5, <2>6, <2>7
  <2>9. \A n \in {0, 1} : Counted(n) => Counted(n)'
    BY <1>2, <2>1, <2>3, <2>4, <2>7, <2>8 DEF Counted, Lower
  <2> QED
    BY <2>1, <2>4, <2>6, <2>9 DEF Answers
<1>11. CASE Answer(p)
  <2>1. /\ status[Run] = "waiting" /\ status'[Run] = "queued" /\ p \in Pending
        /\ UNCHANGED <<asked, answers>>
    BY <1>11, MovesTyped DEF Answer, Serves, L!Answer, Statuses, L!Active, same, Pending
  <2>2. Pending' = Pending \ {p}
    BY <1>11, GoesTyped DEF Answer, Pending
  <2>3. PICK S : S = Pending
    OBVIOUS
  <2>4. IsFiniteSet(S \ {p}) /\ Cardinality(S \ {p}) = Cardinality(S) - 1
    <3>1. /\ IsFiniteSet(S \ {p})
          /\ Cardinality(S \ {p}) = IF p \in S THEN Cardinality(S) - 1 ELSE Cardinality(S)
      BY <1>2, <2>3, FS_RemoveElement
    <3> QED
      BY <2>1, <2>3, <3>1
  <2>5. Counted(1) => Counted(0)'
    BY <1>2, <2>1, <2>2, <2>3, <2>4 DEF Counted
  <2> QED
    BY <2>1, <2>2, <2>3, <2>4, <2>5 DEF Answers
<1> QED
  BY <1>3, <1>4, <1>5, <1>6, <1>7, <1>8, <1>9, <1>10, <1>11

LEMMA AnswersTick ==
  ASSUME TypeOK, Answers, Open \/ Close \/ Tick \/ Fail
  PROVE  Answers'
<1>1. UNCHANGED <<status, asked, answers>>
  BY DEF Open, Close, Tick, GetRun, GetEvents, GetFiles, Miss, Fail, server
<1>2. Pending' \subseteq Pending
  <2>1. CASE Close
    BY <2>1, AloneTyped DEF Close, Pending, NoPost
  <2>2. CASE Open \/ Tick \/ Fail
    BY <2>2 DEF Open, Tick, GetRun, GetEvents, GetFiles, Miss, Fail, Pending
  <2> QED
    BY <2>1, <2>2
<1> QED
  BY <1>1, <1>2, AnswersKept

AskedInv == ViewInv /\ Seen /\ Answers

LEMMA AskedStep == AskedInv /\ [Next]_vars => AskedInv'
<1> SUFFICES ASSUME AskedInv, [Next]_vars PROVE AskedInv'
  OBVIOUS
<1>1. ViewInv'
  BY ViewStep DEF AskedInv
<1>2. CASE UNCHANGED vars
  <2>1. Pending' = Pending
    BY <1>2 DEF vars, Pending
  <2> QED
    BY <1>1, <1>2, <2>1 DEF AskedInv, vars, server, Seen, Answers, Counted
<1>3. CASE Next
  BY <1>1, <1>3, SeenRun, SeenTick, SeenPost, AnswersRun, AnswersTick, AnswersPost
     DEF Next, AskedInv, ViewInv
<1> QED
  BY <1>2, <1>3

LEMMA AskedInit == Init => AskedInv
<1> SUFFICES ASSUME Init PROVE AskedInv
  OBVIOUS
<1>1. page = NoPage /\ post = [p \in Posts |-> NoPost] /\ asked = 0 /\ answers = 0
  BY DEF Init
<1>2. page.run = Unknown /\ page.got = Unknown /\ Unknown.question = 0
  BY <1>1 DEF NoPage, NewPage, Unknown
<1>3. \A p \in Posts : post[p].question = 0 /\ post[p].reply = Unknown /\ post[p].at = "idle"
  BY <1>1 DEF NoPost
<1>4. Seen
  BY <1>1, <1>2, <1>3 DEF Seen
<1>5. Pending = {}
  BY <1>3 DEF Pending
<1>6. IsFiniteSet(Pending) /\ Cardinality(Pending) = 0
  BY <1>5, FS_EmptySet
<1>7. Answers
  BY <1>1, <1>6 DEF Answers, Counted
<1> QED
  BY <1>4, <1>7, ViewInit DEF AskedInv

\* An answer reaches the question that was on the page, unless the user has answered one
\* of the run's questions twice.
THEOREM AnswersReachTheirQuestion == Spec => AnswersWhatWasShown
<1>1. AskedInv => [\A p \in Posts : Answer(p) => post[p].question = asked
                                                \/ answers > post[p].question]_vars
  <2> SUFFICES ASSUME AskedInv, NEW p \in Posts, Answer(p), post[p].question # asked
               PROVE  answers > post[p].question
    OBVIOUS
  <2>1. /\ p \in Pending /\ status[Run] = "waiting"
    BY DEF Answer, Serves, L!Answer, L!Moves, Pending
  <2>2. PICK S : S = Pending
    OBVIOUS
  <2>3. IsFiniteSet(S) /\ p \in S /\ Counted(1)
    BY <2>1, <2>2 DEF AskedInv, Answers
  <2>4. Cardinality(S) \in Nat /\ Cardinality(S) # 0
    BY <2>3, FS_CardinalityType, FS_EmptySet
  <2>5. /\ post[p].question \in Nat /\ asked \in Nat /\ answers \in Nat /\ MaxQuestions \in Nat
        /\ asked <= MaxQuestions /\ post[p].question <= asked
    BY Typed, BoundsAssumption DEF AskedInv, ViewInv, Seen, PostRecords
  <2> QED
    BY <2>2, <2>3, <2>4, <2>5 DEF Counted
<1> QED
  BY <1>1, AskedInit, AskedStep, PTL DEF Spec, AnswersWhatWasShown
=============================================================================
