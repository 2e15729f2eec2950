------------------------------ MODULE AgentRun ------------------------------
(***************************************************************************)
(* The execution of agent runs (backend/product/browser_agent): the rows   *)
(* of AgentRun and BrowserProfile, the run_agent deliveries of the broker, *)
(* the browser workers that execute them, the reaper that resumes runs     *)
(* whose worker died, and the API calls of the users.                      *)
(*                                                                         *)
(* Django runs here in autocommit: every statement is a transaction of its *)
(* own, so a function that reads a row and later saves it is two actions.  *)
(* A question is known by its number in the run, an answer by the number   *)
(* of the question the user was looking at when answering; 0 is none.      *)
(***************************************************************************)
EXTENDS Naturals, FiniteSets

CONSTANTS
  Runs, Workers, Profiles,
  NoRun, NoProfile,
  MaxActive,      \* AGENT_MAX_ACTIVE_RUNS_PER_ORG
  MaxInFlight,    \* requests the API serves at once (gunicorn --threads)
  MaxRecoveries,  \* AGENT_MAX_RECOVERIES
  MaxQuestions,   \* bound: questions the agent asks in one run
  MaxFaults,      \* bound: workers and reapers that die or raise, deliveries not sent
  Timely          \* a live worker's heartbeats are never late by AGENT_STALE_AFTER_S

ASSUME NamesAssumption == NoRun \notin Runs /\ NoProfile \notin Profiles
ASSUME BoundsAssumption ==
  /\ MaxActive \in Nat \ {0}
  /\ MaxInFlight \in Nat \ {0}
  /\ MaxRecoveries \in Nat
  /\ MaxQuestions \in Nat
  /\ MaxFaults \in Nat
ASSUME RegimeAssumption == Timely \in BOOLEAN

VARIABLES
  row,        \* the AgentRun rows
  inUse,      \* BrowserProfile.in_use
  queued,     \* deliveries of run_agent waiting in the broker, per run
  thread,     \* the LangGraph thread of each run: its stage and questions asked
  worker,     \* the browser workers
  reaping,    \* runs the reaper selected and has not come to yet
  scanned,    \* their recoveries, as the reaper read them
  freeing,    \* the run whose profile the reaper is about to free, or NoRun
  profileOf,  \* the profile each create request names; NoProfile for a throwaway one
  admitted,   \* create requests that passed the limit and have not saved yet
  cancelling, \* cancel requests that set the flag and have not ended the wait yet
  twice,      \* runs a worker claimed while another was claiming them
  stranded,   \* runs that lost a delivery: it was not sent, or its claim raised
  misfit,     \* runs that were given an answer to another question than the open one
  faults

vars == <<row, inUse, queued, thread, worker, reaping, scanned, freeing,
          profileOf, admitted, cancelling, twice, stranded, misfit, faults>>
api == <<profileOf, admitted, cancelling>>
reaper == <<reaping, scanned, freeing>>
past == <<twice, stranded, misfit, faults>>

Terminal == {"succeeded", "failed", "cancelled", "timeout"}
Active == {"queued", "running", "waiting"}

Row == [status: {"absent"} \union Active \union Terminal, cancel: BOOLEAN,
        question: Nat, answer: Nat, beat: {"none", "fresh", "silent"},
        recoveries: Nat]

Blank == [status |-> "absent", cancel |-> FALSE, question |-> 0, answer |-> 0,
          beat |-> "none", recoveries |-> 0]

\* Where a worker is. The browser is open from `start` until `stop` is over.
Open == {"start", "run", "consume", "ask", "stop"}
Executing == Open \union {"reread", "write"}
Holding == {"save"} \union Executing \union {"release"}
Claiming == {"profile", "refuse", "save"}
Places == {"idle", "profile", "refuse"} \union Holding

Stages == {"new", "mid", "asked", "done"}

Worker == [pc: Places, run: Runs \union {NoRun}, snap: Row,
           verdict: {"none", "waiting"} \union Terminal,
           inOrder: BOOLEAN,  \* its next event number is still the run's next one
           taken: Nat,        \* the answer it resumes the agent with
           asked: Nat]        \* the question it parks the run with

Idle == [pc |-> "idle", run |-> NoRun, snap |-> Blank, verdict |-> "none",
         inOrder |-> TRUE, taken |-> 0, asked |-> 0]

Init ==
  /\ row = [r \in Runs |-> Blank]
  /\ inUse = [p \in Profiles |-> FALSE]
  /\ queued = [r \in Runs |-> 0]
  /\ thread = [r \in Runs |-> [stage |-> "new", questions |-> 0]]
  /\ worker = [w \in Workers |-> Idle]
  /\ reaping = {} /\ scanned = [r \in Runs |-> 0] /\ freeing = NoRun
  /\ profileOf \in [Runs -> Profiles \union {NoProfile}]
  /\ admitted = {} /\ cancelling = {}
  /\ twice = {} /\ stranded = {} /\ misfit = {} /\ faults = 0

WithStatus(S) == {r \in Runs : row[r].status \in S}
At(w, place) == worker[w].pc = place
HasProfile(r) == profileOf[r] # NoProfile


\* One of the faults that MaxFaults bounds.
Fault == faults < MaxFaults /\ faults' = faults + 1

\* delay_on_commit: the broker has the delivery; or the call raises, or never comes,
\* and nobody makes up for it.
Sends(r) == queued' = [queued EXCEPT ![r] = @ + 1] /\ UNCHANGED <<stranded, faults>>
SendFails(r) == Fault /\ stranded' = stranded \union {r} /\ UNCHANGED queued

-----------------------------------------------------------------------------
(* The API: AgentRunViewSet. *)

\* perform_create up to the limit; a request over the limit changes nothing.
Admit(r) ==
  /\ row[r].status = "absent" /\ r \notin admitted
  /\ Cardinality(admitted) < MaxInFlight
  /\ Cardinality(WithStatus(Active)) < MaxActive
  /\ admitted' = admitted \union {r}
  /\ UNCHANGED <<row, inUse, queued, thread, worker, reaper, profileOf, cancelling, past>>

\* serializer.save and the delivery sent on commit.
Insert(r) ==
  /\ r \in admitted
  /\ row' = [row EXCEPT ![r].status = "queued"]
  /\ Sends(r) \/ SendFails(r)
  /\ admitted' = admitted \ {r}
  /\ UNCHANGED <<inUse, thread, worker, reaper, profileOf, cancelling, twice, misfit>>

\* cancel: the flag is saved whatever the active status is ...
Cancel(r) ==
  /\ row[r].status \in Active
  /\ row' = [row EXCEPT ![r].cancel = TRUE]
  /\ cancelling' = cancelling \union {r}
  /\ UNCHANGED <<inUse, queued, thread, worker, reaper, profileOf, admitted, past>>

\* ... then cancel_waiting_run, one conditional update.
EndWait_AnyStatus(r) ==
  /\ r \in cancelling
  /\ row' = [row EXCEPT ![r].status = "cancelled", ![r].question = 0, ![r].answer = 0]
  /\ cancelling' = cancelling \ {r}
  /\ UNCHANGED <<inUse, queued, thread, worker, reaper, profileOf, admitted, past>>

EndWait(r) ==
  /\ r \in cancelling
  /\ row' = IF row[r].status = "waiting"
              THEN [row EXCEPT ![r].status = "cancelled", ![r].question = 0,
                               ![r].answer = 0]
              ELSE row
  /\ cancelling' = cancelling \ {r}
  /\ UNCHANGED <<inUse, queued, thread, worker, reaper, profileOf, admitted, past>>

\* answer: one conditional update and the delivery sent on commit. The text is the
\* answer to whatever question the person was looking at when it was sent; the request
\* does not say which, and it may be late.
Accept(r, q) ==
  /\ row[r].status = "waiting" /\ ~row[r].cancel
  /\ row' = [row EXCEPT ![r].status = "queued", ![r].answer = q]
  /\ misfit' = IF q = row[r].question THEN misfit ELSE misfit \union {r}
  /\ UNCHANGED <<inUse, thread, worker, reaper, api, twice>>

Answer_Unsent(r, q) == Accept(r, q) /\ UNCHANGED <<queued, stranded, faults>>

Answer(r, q) == Accept(r, q) /\ (Sends(r) \/ SendFails(r))

-----------------------------------------------------------------------------
(* A browser worker: run_agent, execute_run. *)

\* The delivery is taken and the row read (line 67); a run that is not queued
\* needs nothing. The write of a cancelled or refused run comes later, from this
\* reading.
Claimable_AnyActive(c) == c.status \in {"queued", "running"}
Claimable(c) == c.status = "queued"

Receive(w, r) ==
  /\ At(w, "idle") /\ queued[r] > 0
  /\ queued' = [queued EXCEPT ![r] = @ - 1]
  /\ LET claim(place, verdict) ==
           worker' = [worker EXCEPT ![w] = [Idle EXCEPT !.pc = place, !.run = r,
                                              !.snap = row[r], !.verdict = verdict]]
     IN \/ /\ ~Claimable(row[r])
           /\ UNCHANGED <<worker, twice>>
        \/ /\ Claimable(row[r])
           /\ IF row[r].cancel THEN claim("refuse", "cancelled")
              ELSE claim(IF HasProfile(r) THEN "profile" ELSE "save", "none")
           /\ twice' = IF \E v \in Workers : worker[v].run = r /\ worker[v].pc \in Claiming
                        THEN twice \union {r} ELSE twice
  /\ UNCHANGED <<row, inUse, thread, reaper, api, stranded, misfit, faults>>

\* The profile is taken only if nobody has it: one conditional update.
TakeProfile_Unchecked(w) ==
  /\ At(w, "profile")
  /\ inUse' = [inUse EXCEPT ![profileOf[worker[w].run]] = TRUE]
  /\ worker' = [worker EXCEPT ![w].pc = "save"]
  /\ UNCHANGED <<row, queued, thread, reaper, api, past>>

TakeProfile(w) ==
  /\ At(w, "profile")
  /\ LET p == profileOf[worker[w].run]
     IN IF inUse[p]
          THEN /\ worker' = [worker EXCEPT ![w].pc = "refuse", ![w].verdict = "failed"]
               /\ UNCHANGED inUse
          ELSE /\ inUse' = [inUse EXCEPT ![p] = TRUE]
               /\ worker' = [worker EXCEPT ![w].pc = "save"]
  /\ UNCHANGED <<row, queued, thread, reaper, api, past>>

\* _finish on the row as it was read: every field is written back.
Refuse(w) ==
  /\ At(w, "refuse")
  /\ row' = [row EXCEPT ![worker[w].run] =
                          [worker[w].snap EXCEPT !.status = worker[w].verdict]]
  /\ worker' = [worker EXCEPT ![w] = Idle]
  /\ UNCHANGED <<inUse, queued, thread, reaper, api, past>>

\* status, started_at and heartbeat_at are written whatever the row says by now.
Save(w) ==
  /\ At(w, "save")
  /\ row' = [row EXCEPT ![worker[w].run].status = "running",
                        ![worker[w].run].beat = "fresh"]
  /\ worker' = [worker EXCEPT ![w].pc = "start"]
  /\ stranded' = stranded \ {worker[w].run}
  /\ UNCHANGED <<inUse, queued, thread, reaper, api, twice, misfit, faults>>

\* Numbering the run's events from here on, out of order for whoever else does.
Numbering(w) ==
  [v \in Workers |-> IF v # w /\ worker[v].run = worker[w].run
                       THEN [worker[v] EXCEPT !.inOrder = FALSE] ELSE worker[v]]

\* The row's answer is spent when the run resumes with it: _take_answer.
AnswerTaken_KeepsAnswer(c) == [c EXCEPT !.question = 0]
AnswerTaken(c) == [c EXCEPT !.question = 0, !.answer = 0]

\* The browser is up and the thread's state is read: begin, carry on, resume with
\* the answer, or park again a question nobody has answered.
Start(w) ==
  /\ At(w, "start")
  /\ LET r == worker[w].run
         asked == thread[r].stage = "asked"
         answered == worker[w].snap.answer # 0
     IN \/ /\ asked /\ answered
           /\ row' = [row EXCEPT ![r] = AnswerTaken(@)]
           /\ worker' = [Numbering(w) EXCEPT ![w].pc = "run", ![w].snap = Blank,
                                             ![w].taken = row[r].answer]
        \/ /\ asked /\ ~answered
           /\ worker' = [worker EXCEPT ![w].pc = "ask", ![w].snap = Blank]
           /\ UNCHANGED row
        \/ /\ ~asked
           /\ worker' = [worker EXCEPT ![w].pc = "run", ![w].snap = Blank]
           /\ UNCHANGED row
  /\ UNCHANGED <<inUse, queued, thread, reaper, api, past>>

\* The graph finishes a step and checkpoints it; a finished graph has no step left.
Superstep(w) ==
  /\ At(w, "run")
  /\ LET r == worker[w].run
     IN \/ /\ thread[r].stage # "done"
           /\ \/ thread' = [thread EXCEPT ![r].stage = "mid"]
              \/ thread' = [thread EXCEPT ![r].stage = "done"]
              \/ /\ thread[r].questions < MaxQuestions
                 /\ thread' = [thread EXCEPT ![r].stage = "asked", ![r].questions = @ + 1]
        \/ /\ thread[r].stage = "done"
           /\ UNCHANGED thread
  /\ worker' = [worker EXCEPT ![w].pc = "consume", ![w].taken = 0]
  /\ UNCHANGED <<row, inUse, queued, reaper, api, past>>

\* The step's events are recorded, which fails for a worker that numbers them out of
\* order, and then the cancel flag is read.
Consume(w) ==
  /\ At(w, "consume")
  /\ LET r == worker[w].run
         to(place, verdict) ==
           worker' = [Numbering(w) EXCEPT ![w].pc = place, ![w].verdict = verdict]
     IN \/ /\ ~worker[w].inOrder
           /\ worker' = [worker EXCEPT ![w].pc = "stop", ![w].verdict = "failed"]
        \/ /\ worker[w].inOrder /\ row[r].cancel
           /\ to("stop", "cancelled")
        \/ /\ worker[w].inOrder /\ ~row[r].cancel
           /\ \/ thread[r].stage \in {"new", "mid"} /\ to("run", "none")
              \/ thread[r].stage = "asked" /\ to("ask", "none")
              \/ thread[r].stage = "done" /\ to("stop", "succeeded")
  /\ UNCHANGED <<row, inUse, queued, thread, reaper, api, past>>

\* The question is recorded as an event; the run will be parked with it.
Ask(w) ==
  /\ At(w, "ask")
  /\ worker' = IF worker[w].inOrder
                 THEN [Numbering(w) EXCEPT ![w].pc = "stop", ![w].verdict = "waiting",
                                           ![w].asked = thread[worker[w].run].questions]
                 ELSE [worker EXCEPT ![w].pc = "stop", ![w].verdict = "failed"]
  /\ UNCHANGED <<row, inUse, queued, thread, reaper, api, past>>

\* The browser, the model or a tool fails: any exception under the try.
Fail_NoVerdict(w) ==
  /\ worker[w].pc \in {"start", "run", "consume", "ask"}
  /\ worker' = [worker EXCEPT ![w].pc = "stop"]
  /\ UNCHANGED <<row, inUse, queued, thread, reaper, api, past>>

Fail(w) ==
  /\ worker[w].pc \in {"start", "run", "consume", "ask"}
  /\ worker' = [worker EXCEPT ![w].pc = "stop", ![w].verdict = "failed"]
  /\ UNCHANGED <<row, inUse, queued, thread, reaper, api, past>>

\* asyncio.wait_for(consume(), AGENT_RUN_TIMEOUT).
Timeout(w) ==
  /\ worker[w].pc \in {"run", "consume"}
  /\ worker' = [worker EXCEPT ![w].pc = "stop", ![w].verdict = "timeout"]
  /\ UNCHANGED <<row, inUse, queued, thread, reaper, api, past>>

\* _beat, while _keep_beating runs: from the claim to the finally clause.
Beat(w) ==
  /\ worker[w].pc \in Open \ {"stop"}
  /\ row[worker[w].run].status = "running"
  /\ row' = [row EXCEPT ![worker[w].run].beat = "fresh"]
  /\ UNCHANGED <<inUse, queued, thread, worker, reaper, api, past>>

\* The finally clause: the heartbeat is over, the live view and the browser close.
CloseBrowser(w) ==
  /\ At(w, "stop")
  /\ worker' = [worker EXCEPT ![w].pc = "reread"]
  /\ UNCHANGED <<row, inUse, queued, thread, reaper, api, past>>

\* _pause and _complete read the row again ...
Reread(w) ==
  /\ At(w, "reread")
  /\ worker' = [worker EXCEPT ![w].pc = "write", ![w].snap = row[worker[w].run]]
  /\ UNCHANGED <<row, inUse, queued, thread, reaper, api, past>>

\* ... and write back every field of what they read ...
Parked(c, question) ==
  [c EXCEPT !.status = "waiting", !.question = question, !.answer = 0, !.beat = "none"]

Write(w) ==
  /\ At(w, "write")
  /\ LET r == worker[w].run
         s == worker[w].snap
     IN /\ row' = [row EXCEPT ![r] = IF worker[w].verdict = "waiting"
                                       THEN Parked(s, worker[w].asked)
                                       ELSE [s EXCEPT !.status = worker[w].verdict]]
        /\ worker' = [worker EXCEPT ![w] =
                        IF HasProfile(r) THEN [Idle EXCEPT !.pc = "release", !.run = r]
                        ELSE Idle]
  /\ UNCHANGED <<inUse, queued, thread, reaper, api, past>>

\* ... and free the profile, whoever has it by now.
Release(w) ==
  /\ At(w, "release")
  /\ inUse' = [inUse EXCEPT ![profileOf[worker[w].run]] = FALSE]
  /\ worker' = [worker EXCEPT ![w] = Idle]
  /\ UNCHANGED <<row, queued, thread, reaper, api, past>>

\* The worker dies. Its delivery was not acknowledged and is queued again: at once
\* when a child process is lost, after the visibility timeout when the host is; other
\* deliveries of the run may be there by then. Or the task itself ended, in the claim or
\* out of execute_run, or at the hard time limit: there is no retry.
Crash(w) ==
  /\ ~At(w, "idle") /\ Fault
  /\ worker' = [worker EXCEPT ![w] = Idle]
  /\ LET r == worker[w].run
     IN \/ queued' = [queued EXCEPT ![r] = @ + 1] /\ UNCHANGED stranded
        \/ /\ stranded' = IF worker[w].pc \in Claiming THEN stranded \union {r} ELSE stranded
           /\ UNCHANGED queued
  /\ UNCHANGED <<row, inUse, thread, reaper, api, twice, misfit>>

WorkerStep(w) ==
  \/ \E r \in Runs : Receive(w, r)
  \/ TakeProfile(w) \/ Refuse(w) \/ Save(w) \/ Start(w) \/ Superstep(w) \/ Consume(w)
  \/ Ask(w) \/ CloseBrowser(w) \/ Reread(w) \/ Write(w) \/ Release(w)

-----------------------------------------------------------------------------
(* reap_stale_runs; one at a time. *)

\* AGENT_STALE_AFTER_S passed since the last heartbeat. When workers are timely,
\* this is so only if no worker executes the run.
GoSilent(r) ==
  /\ row[r].status = "running" /\ row[r].beat = "fresh"
  /\ Timely => \A w \in Workers : worker[w].run = r => worker[w].pc \notin Executing
  /\ row' = [row EXCEPT ![r].beat = "silent"]
  /\ UNCHANGED <<inUse, queued, thread, worker, reaper, api, past>>

Stale_Recoverable ==
  {r \in Runs : row[r].status = "running" /\ row[r].beat = "silent"
               /\ row[r].recoveries < MaxRecoveries}
Stale == {r \in Runs : row[r].status = "running" /\ row[r].beat = "silent"}

Scan ==
  /\ reaping = {} /\ freeing = NoRun /\ Stale # {}
  /\ reaping' = Stale
  /\ scanned' = [r \in Runs |-> IF r \in Stale THEN row[r].recoveries ELSE 0]
  /\ UNCHANGED <<row, inUse, queued, thread, worker, freeing, api, past>>

\* One run of the scan, if it is still running: queued again and delivered, or
\* failed; its profile is freed next. A delivery that cannot be sent ends the task.
Requeued(c) == [c EXCEPT !.status = "queued", !.recoveries = @ + 1, !.beat = "none"]
Abandon == reaping' = {} /\ scanned' = [r \in Runs |-> 0] /\ freeing' = NoRun
Goes(r) == reaping' = reaping \ {r} /\ scanned' = [scanned EXCEPT ![r] = 0]
Frees(r) == freeing' = IF HasProfile(r) THEN r ELSE NoRun

Reap(r) ==
  /\ r \in reaping /\ freeing = NoRun
  /\ \/ /\ row[r].status = "running" /\ scanned[r] < MaxRecoveries
        /\ row' = [row EXCEPT ![r] = Requeued(@)]
        /\ \/ Sends(r) /\ Goes(r) /\ Frees(r)
           \/ SendFails(r) /\ Abandon
     \/ /\ row[r].status = "running" /\ scanned[r] >= MaxRecoveries
        /\ row' = [row EXCEPT ![r].status = "failed"]
        /\ Goes(r) /\ Frees(r)
        /\ UNCHANGED <<queued, stranded, faults>>
     \/ /\ row[r].status # "running"
        /\ Goes(r)
        /\ UNCHANGED <<row, queued, freeing, stranded, faults>>
  /\ UNCHANGED <<inUse, thread, worker, api, twice, misfit>>

Free ==
  /\ freeing # NoRun
  /\ inUse' = [inUse EXCEPT ![profileOf[freeing]] = FALSE]
  /\ freeing' = NoRun
  /\ UNCHANGED <<row, queued, thread, worker, reaping, scanned, api, past>>

\* The reaper dies, or a statement of its raises; the next one scans again.
ReaperStops ==
  /\ reaping # {} \/ freeing # NoRun
  /\ Fault /\ Abandon
  /\ UNCHANGED <<row, inUse, queued, thread, worker, api, twice, stranded, misfit>>

-----------------------------------------------------------------------------
Next ==
  \/ \E r \in Runs : \/ Admit(r) \/ Insert(r) \/ Cancel(r) \/ EndWait(r)
                     \/ \E q \in 1 .. thread[r].questions : Answer(r, q)
                     \/ GoSilent(r) \/ Reap(r)
  \/ \E w \in Workers : \/ WorkerStep(w) \/ Fail(w) \/ Timeout(w) \/ Beat(w) \/ Crash(w)
  \/ Scan \/ Free \/ ReaperStops

Spec == Init /\ [][Next]_vars

\* What the deployment keeps running: the workers and their run timeout, the beat
\* that starts the reaper, the requests already accepted. Users and failures owe nothing.
Fairness ==
  /\ \A w \in Workers : WF_vars(WorkerStep(w)) /\ WF_vars(Timeout(w))
  /\ \A r \in Runs : WF_vars(Insert(r)) /\ WF_vars(EndWait(r)) /\ WF_vars(GoSilent(r))
                     /\ WF_vars(Reap(r))
  /\ WF_vars(Scan) /\ WF_vars(Free)

FairSpec == Spec /\ Fairness

-----------------------------------------------------------------------------
(* Properties. *)

\* The types of the variables.
TypeOK ==
  /\ row \in [Runs -> Row]
  /\ inUse \in [Profiles -> BOOLEAN]
  /\ queued \in [Runs -> Nat]
  /\ thread \in [Runs -> [stage: Stages, questions: Nat]]
  /\ worker \in [Workers -> Worker]
  /\ reaping \subseteq Runs
  /\ scanned \in [Runs -> Nat]
  /\ freeing \in Runs \union {NoRun}
  /\ profileOf \in [Runs -> Profiles \union {NoProfile}]
  /\ admitted \subseteq Runs /\ cancelling \subseteq Runs
  /\ twice \subseteq Runs /\ stranded \subseteq Runs /\ misfit \subseteq Runs
  /\ faults \in Nat

\* A persistent Chromium profile is open in one browser at a time (models.py:9),
\* whatever dies, is delivered twice, or is reaped.
ProfileExclusive ==
  \A v, w \in Workers :
    /\ v # w
    /\ worker[v].pc \in Open /\ worker[w].pc \in Open
    /\ HasProfile(worker[v].run)
    => profileOf[worker[v].run] # profileOf[worker[w].run]

\* _claim is to return a run to one worker, and "None if it was cancelled or already
\* picked up" (services.py:66) to the others. It reads the status in one statement and
\* writes it in another, so two claims of a run that overlap give it two workers, and
\* nothing else does: no crash, late delivery, reaping, answer or whole-row save.
SharedOnlyIfClaimedTwice ==
  \A v, w \in Workers :
    /\ v # w
    /\ worker[v].pc \in Executing /\ worker[w].pc \in Executing
    /\ worker[v].run = worker[w].run
    => worker[v].run \in twice

\* Nothing but a delivery moves a queued run. It has one, in the broker or in the hands
\* of a worker that read the row as queued, unless one could not be sent or its claim
\* raised since the run was claimed last.
QueuedHasDelivery ==
  \A r \in WithStatus({"queued"}) \ stranded :
    \/ queued[r] > 0
    \/ \E w \in Workers : worker[w].run = r /\ worker[w].pc \in Claiming

\* The agent gets the answer to the question it is stopped at, over crashes before and
\* after _take_answer, parking and recovery: unless the answer that was accepted had been
\* given to another question, or two workers have claimed the run.
AnswerFitsQuestion ==
  \A w \in Workers :
    LET r == worker[w].run
    IN At(w, "run") /\ r \notin twice \union misfit /\ thread[r].stage = "asked"
       => worker[w].taken = thread[r].questions

\* What the API shows of a run's status moves as a RunLifecycle says: a finished run
\* stays as it finished, and no late write of a worker, of the reaper or of a request
\* moves a run in any other way, unless two workers have claimed it.
Status == [r \in Runs |-> row[r].status]
Lifecycle == INSTANCE RunLifecycle WITH status <- Status
FollowsLifecycle ==
  [][ \/ Lifecycle!Next \/ UNCHANGED Status
      \/ \E r \in twice : row'[r].status # row[r].status ]_vars

\* Every run comes to rest: whatever dies, it ends, waits for the user, or is left
\* without a delivery.
RunsEnd ==
  \A r \in Runs : row[r].status \in {"queued", "running"}
                    ~> row[r].status \in Terminal \union {"waiting"} \/ r \in stranded

\* "End a run that is waiting for the user; no worker holds it to notice a cancel
\* request" (services.py:143): a waiting run that was told to cancel is being ended.
NoDeafWaiting ==
  \A r \in WithStatus({"waiting"}) : row[r].cancel => r \in cancelling
=============================================================================
