------------------------------ MODULE RunView ------------------------------
(***************************************************************************)
(* The page that follows one agent run (useRun.ts, ConversationView.tsx),  *)
(* between the API (views.py) and its user. The run moves as RunLifecycle  *)
(* says, which AgentRun implements.                                        *)
(*                                                                         *)
(* Every request is two steps at least: what the server does or reads, and *)
(* what the page makes of the reply. Questions and events are numbered.    *)
(***************************************************************************)
EXTENDS Naturals, Sequences

CONSTANTS
  Run,
  Posts,         \* cancel and answer requests that are under way at a time
  PageSize,      \* events per reply: 500
  MaxEvents,     \* bound: events of the run
  MaxQuestions,  \* bound: questions the agent asks
  MaxFaults      \* bound: requests that fail or take 10 s, dead workers, visits after the
                 \* first, memberships that end

ASSUME PageAssumption == PageSize \in Nat \ {0}
ASSUME BoundsAssumption ==
  /\ MaxEvents \in Nat /\ MaxQuestions \in Nat /\ MaxFaults \in Nat

VARIABLES
  \* the server
  status,
  flag,       \* cancel_requested
  asked,      \* the question the run asked last
  recorded,   \* events recorded
  file,       \* a file the agent saved: none, on the disk, or listed
  readable,   \* the user is a member of the run's organization
  \* the page
  page, post, faults,
  answers     \* answers the user has sent

server == <<status, flag, asked, recorded, file, readable>>
vars == <<server, page, post, faults, answers>>

Runs == {Run}
L == INSTANCE RunLifecycle

Unknown == [status |-> "unknown", flag |-> FALSE, question |-> 0]
Row == [status |-> status[Run], flag |-> flag, question |-> asked]
Terminal(row) == row.status \in L!Terminal

NewPage == [on |-> TRUE, run |-> Unknown, events |-> <<>>, file |-> FALSE, missing |-> FALSE,
            next |-> 1,        \* nextSeq
            tick |-> "run",    \* what the tick asks for next, or that there is none
            got |-> Unknown, upTo |-> 0,  \* its replies so far
            full |-> FALSE,    \* the events last shown were all that fit into a reply
            sending |-> FALSE] \* of the QuestionCard
NoPage == [NewPage EXCEPT !.on = FALSE, !.tick = "over"]
NoPost == [op |-> "none", at |-> "idle", question |-> 0, awaited |-> FALSE, reply |-> Unknown]

Init ==
  /\ L!Init
  /\ flag = FALSE /\ asked = 0 /\ recorded = 0 /\ file = "none"
  /\ readable = TRUE
  /\ page = NoPage /\ post = [p \in Posts |-> NoPost] /\ faults = 0 /\ answers = 0

Fault == faults < MaxFaults /\ faults' = faults + 1
-----------------------------------------------------------------------------
(* The run *)

\* Events are recorded, and files written, by the worker that executes the run.
Record ==
  /\ status[Run] = "running" /\ recorded < MaxEvents
  /\ recorded' = recorded + 1
  /\ UNCHANGED <<status, flag, asked, file, readable, page, post, faults, answers>>

WriteFile ==
  /\ status[Run] = "running" /\ file = "none"
  /\ file' = "disk"
  /\ UNCHANGED <<status, flag, asked, recorded, readable, page, post, faults, answers>>

\* collect_artifacts.
Collected == IF file = "none" THEN "none" ELSE "listed"

\* The worker parks or ends the run: it lists the files first. One final
\* status stands for those a worker may set.
Ask ==
  /\ L!Ask(Run) /\ asked < MaxQuestions
  /\ asked' = asked + 1 /\ file' = Collected
  /\ UNCHANGED <<flag, recorded, readable, page, post, faults, answers>>

End ==
  /\ L!End(Run) /\ status'[Run] = "succeeded"
  /\ file' = Collected
  /\ UNCHANGED <<flag, asked, recorded, readable, page, post, faults, answers>>

\* The reaper, which does not list them.
GiveUpRun ==
  /\ L!End(Run) /\ status'[Run] = "failed" /\ Fault
  /\ UNCHANGED <<flag, asked, recorded, file, readable, page, post, answers>>

Recover_Parked ==
  /\ status[Run] \in {"running", "waiting"} /\ Fault
  /\ status' = [status EXCEPT ![Run] = "queued"]
  /\ UNCHANGED <<flag, asked, recorded, file, readable, page, post, answers>>

Recover ==
  /\ L!Recover(Run) /\ Fault
  /\ UNCHANGED <<flag, asked, recorded, file, readable, page, post, answers>>

Move ==
  /\ L!Create(Run) \/ L!Claim(Run) \/ L!Refuse(Run)
  /\ UNCHANGED <<flag, asked, recorded, file, readable, page, post, faults, answers>>

\* The user's membership ends: every request of the page is answered not_found.
Leave ==
  /\ readable /\ status[Run] # "absent" /\ Fault
  /\ readable' = FALSE
  /\ UNCHANGED <<status, flag, asked, recorded, file, page, post, answers>>
-----------------------------------------------------------------------------
(* The page: the tick of useRun *)

Open ==
  /\ ~page.on /\ status[Run] # "absent"
  /\ page' = NewPage
  /\ UNCHANGED <<server, post, faults, answers>>

\* The page goes on without the reply; the server goes on as well.
Alone(p) == IF post[p].at = "reply" THEN NoPost ELSE [post[p] EXCEPT !.awaited = FALSE]

\* The effect's clean-up: the replies that are under way are not for this page any more.
Close ==
  /\ page.on /\ Fault
  /\ page' = NoPage
  /\ post' = [p \in Posts |-> Alone(p)]
  /\ UNCHANGED <<server, answers>>

GetRun ==
  /\ page.tick = "run" /\ readable
  /\ page' = [page EXCEPT !.tick = "events", !.got = Row]
  /\ UNCHANGED <<server, post, faults, answers>>

Lower(a, b) == IF a < b THEN a ELSE b

\* The card of a question is there while the run waits, and with it its flag.
Showing(p, row) == [p EXCEPT !.run = row, !.sending = @ /\ row.status = "waiting"]

\* The end of a tick: one setState. The next one is 2 s later, unless the run has ended.
Show_Again(upTo, listed) ==
  LET fresh == [i \in 1..(upTo + 1 - page.next) |-> page.next + i - 1]
  IN page' = [Showing(page, page.got) EXCEPT
                !.events = @ \o fresh, !.next = IF upTo < page.next THEN @ ELSE upTo,
                !.full = Len(fresh) = PageSize, !.file = listed,
                !.tick = IF Terminal(page.got) THEN "over" ELSE "run",
                !.got = Unknown, !.upTo = 0]

Show_Skips(upTo, listed) ==
  LET fresh == [i \in 1..(upTo + 1 - page.next) |-> page.next + i - 1]
  IN page' = [Showing(page, page.got) EXCEPT
                !.events = @ \o fresh, !.next = upTo + 2,
                !.full = Len(fresh) = PageSize, !.file = listed,
                !.tick = IF Terminal(page.got) THEN "over" ELSE "run",
                !.got = Unknown, !.upTo = 0]

Show(upTo, listed) ==
  LET fresh == [i \in 1..(upTo + 1 - page.next) |-> page.next + i - 1]
  IN page' = [Showing(page, page.got) EXCEPT
                !.events = @ \o fresh, !.next = upTo + 1,
                !.full = Len(fresh) = PageSize, !.file = listed,
                !.tick = IF Terminal(page.got) THEN "over" ELSE "run",
                !.got = Unknown, !.upTo = 0]

GetEvents_FilesWithEvents ==
  /\ page.tick = "events" /\ readable
  /\ LET upTo == Lower(recorded, page.next + PageSize - 1)
     IN IF upTo >= page.next
          THEN page' = [page EXCEPT !.tick = "files", !.upTo = upTo]
          ELSE Show(upTo, page.file)
  /\ UNCHANGED <<server, post, faults, answers>>

GetEvents ==
  /\ page.tick = "events" /\ readable
  /\ LET upTo == Lower(recorded, page.next + PageSize - 1)
     IN IF Terminal(page.got) \/ upTo >= page.next
          THEN page' = [page EXCEPT !.tick = "files", !.upTo = upTo]
          ELSE Show(upTo, page.file)
  /\ UNCHANGED <<server, post, faults, answers>>

\* artifacts: those of a running run are looked for on the disk.
GetFiles ==
  /\ page.tick = "files" /\ readable
  /\ file' = IF status[Run] = "running" THEN Collected ELSE file
  /\ Show(page.upTo, file' = "listed")
  /\ UNCHANGED <<status, flag, asked, recorded, readable, post, faults, answers>>

\* A request of the tick fails: another tick, 6 s later.
Fail_ForGood ==
  /\ page.tick \in {"run", "events", "files"} /\ Fault
  /\ page' = [page EXCEPT !.tick = "over", !.got = Unknown, !.upTo = 0]
  /\ UNCHANGED <<server, post, answers>>

Fail ==
  /\ page.tick \in {"run", "events", "files"} /\ Fault
  /\ page' = [page EXCEPT !.tick = "run", !.got = Unknown, !.upTo = 0]
  /\ UNCHANGED <<server, post, answers>>

Miss ==
  /\ page.tick \in {"run", "events", "files"} /\ ~readable
  /\ page' = [page EXCEPT !.tick = "over", !.got = Unknown, !.upTo = 0, !.missing = TRUE]
  /\ UNCHANGED <<server, post, faults, answers>>

Tick == GetRun \/ GetEvents \/ GetFiles \/ Miss
-----------------------------------------------------------------------------
(* The page: cancel and answer *)

Sent(p, op) ==
  /\ page.on /\ ~page.missing /\ post[p] = NoPost
  /\ post' = [post EXCEPT ![p] = [NoPost EXCEPT !.op = op, !.at = "sent", !.awaited = TRUE,
                                                !.question = IF op = "answer" THEN page.run.question
                                                              ELSE 0]]

ClickCancel(p) ==
  /\ page.run.status \in L!Active /\ ~page.run.flag
  /\ Sent(p, "cancel")
  /\ UNCHANGED <<server, page, faults, answers>>

Answering(p) ==
  /\ Sent(p, "answer")
  /\ page' = [page EXCEPT !.sending = TRUE]
  /\ answers' = Lower(answers + 1, MaxQuestions + 1)
  /\ UNCHANGED <<server, faults>>

ClickAnswer(p) == page.run.status = "waiting" /\ ~page.sending /\ Answering(p)

\* The reply is the row as it is by then, or an error.
Deliver(p) ==
  /\ post[p].at = "reply"
  /\ post' = [post EXCEPT ![p] = NoPost]
  /\ LET card == [page EXCEPT !.sending = @ /\ post[p].op # "answer"]
     IN page' = IF post[p].reply = Unknown THEN card ELSE Showing(card, post[p].reply)
  /\ UNCHANGED <<server, faults, answers>>

\* The timeout of 10 s.
GiveUp(p) ==
  /\ post[p].awaited /\ Fault
  /\ post' = [post EXCEPT ![p] = Alone(p)]
  /\ page' = [page EXCEPT !.sending = @ /\ post[p].op # "answer"]
  /\ UNCHANGED <<server, answers>>
-----------------------------------------------------------------------------
(* The API: cancel and answer *)

Goes(p, at) == post' = [post EXCEPT ![p].at = at]
Replies(p, row) ==
  post' = [post EXCEPT ![p] = IF @.awaited THEN [@ EXCEPT !.at = "reply", !.reply = row,
                                                          !.question = 0]
                                           ELSE NoPost]
Serves(p, op) == readable /\ post[p].op = op /\ post[p].at = "sent"
same == <<asked, recorded, file, readable, page, faults, answers>>

Flag(p) ==
  /\ Serves(p, "cancel") /\ status[Run] \in L!Active
  /\ flag' = TRUE
  /\ Goes(p, "flagged")
  /\ UNCHANGED <<status, same>>

\* cancel_waiting_run.
EndWait(p) ==
  /\ post[p].at = "flagged"
  /\ L!EndWait(Run) \/ (status[Run] # "waiting" /\ UNCHANGED status)
  /\ Goes(p, "read")
  /\ UNCHANGED <<flag, same>>

Answer(p) ==
  /\ Serves(p, "answer") /\ L!Answer(Run) /\ ~flag
  /\ Goes(p, "read")
  /\ UNCHANGED <<flag, same>>

\* The run is not in the status for it, or the user may not see it any more.
Refuse(p) ==
  /\ post[p].at = "sent"
  /\ \/ ~readable
     \/ post[p].op = "cancel" /\ status[Run] \notin L!Active
     \/ post[p].op = "answer" /\ (status[Run] # "waiting" \/ flag)
  /\ Replies(p, Unknown)
  /\ UNCHANGED <<status, flag, same>>

\* refresh_from_db.
Read(p) ==
  /\ post[p].at = "read"
  /\ Replies(p, Row)
  /\ UNCHANGED <<status, flag, same>>

-----------------------------------------------------------------------------
Next ==
  \/ Move \/ Record \/ WriteFile \/ Ask \/ End \/ GiveUpRun \/ Recover \/ Leave
  \/ Open \/ Close \/ Tick \/ Fail
  \/ \E p \in Posts : \/ ClickCancel(p) \/ ClickAnswer(p) \/ Deliver(p) \/ GiveUp(p)
                      \/ Flag(p) \/ EndWait(p) \/ Answer(p) \/ Refuse(p) \/ Read(p)

Spec == Init /\ [][Next]_vars

\* The timers of an open page fire, and the requests of its ticks are answered. What
\* the run, its user and the replies to posts do is left to them.
FairSpec == Spec /\ WF_vars(Tick)

-----------------------------------------------------------------------------
(* Properties *)

\* The types of the variables.
TypeOK ==
  LET row == [status: {"unknown"} \union L!Active \union L!Terminal, flag: BOOLEAN,
              question: 0..MaxQuestions]
  IN /\ status \in [Runs -> {"absent"} \union L!Active \union L!Terminal]
     /\ flag \in BOOLEAN /\ readable \in BOOLEAN
     /\ answers \in 0..(MaxQuestions + 1)
     /\ asked \in 0..MaxQuestions /\ recorded \in 0..MaxEvents
     /\ file \in {"none", "disk", "listed"} /\ faults \in 0..MaxFaults
     /\ page \in [on: BOOLEAN, run: row, events: Seq(1..MaxEvents), file: BOOLEAN,
                  missing: BOOLEAN, next: 1..(MaxEvents + 1),
                  tick: {"run", "events", "files", "over"},
                  got: row, upTo: 0..MaxEvents, full: BOOLEAN, sending: BOOLEAN]
     /\ post \in [Posts -> [op: {"none", "cancel", "answer"},
                            at: {"idle", "sent", "flagged", "read", "reply"},
                            question: 0..MaxQuestions, awaited: BOOLEAN, reply: row]]

\* Every event once and in order, over failed ticks and replies of part of them.
NoGapNoRepeat == \A i \in DOMAIN page.events : page.events[i] = i

\* A page that polls no more has all events, if they were no more than fit into its
\* last reply, and the file the worker left: the status is read before the rest.
Polled == page.on /\ ~page.missing /\ page.tick = "over"
NothingMissed ==
  Polled => /\ page.full \/ Len(page.events) = recorded
            /\ file = "listed" \/ (status[Run] = "succeeded" /\ file = "disk") => page.file

\* An answer goes to the question that was on the page when it was sent, unless the user
\* has answered one twice: no request names the question it answers.
AnswersWhatWasShown ==
  [][\A p \in Posts :
       Answer(p) => post[p].question = asked \/ answers > post[p].question]_vars

\* A page that polls shows the end of the run at last, unless it is closed or finds nothing.
ShowsTheEnd ==
  Terminal(Row) /\ page.on /\ page.tick # "over"
    ~> ~page.on \/ page.missing \/ Terminal(page.run)

\* "... until it reaches a final state" (useRun.ts:17): then that is what the page shows.
StopsAtTheEnd == Polled => Terminal(page.run)
=============================================================================
