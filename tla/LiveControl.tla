---------------------------- MODULE LiveControl ----------------------------
(***************************************************************************)
(* Taking the browser of a run over from the agent: the viewer's page      *)
(* (LiveBrowser.tsx), the API calls live, control and input (views.py),    *)
(* the keys they share with the worker in the cache, and the worker's      *)
(* screencast loop (live.py) beside the agent's tools.                     *)
(*                                                                         *)
(* A call of the cache is a step, for the API as for the worker (the add   *)
(* and the incr of a number are one). The worker is one event loop: its    *)
(* loop, its lock task and the agent change places at awaits only, and its *)
(* cache calls run in the order in which they were issued (sync_to_async   *)
(* has one thread). Frames and the reasons for help are left out.          *)
(***************************************************************************)
EXTENDS Naturals, FiniteSets

CONSTANTS
  Requests,    \* requests of the page that are under way at a time
  MaxClicks,   \* bound: takes, releases and heartbeats the page sends
  MaxInputs,   \* bound: clicks and keys of the viewer
  MaxFaults    \* bound: requests the page stops waiting for (10 s), calls of the cache
               \* that raise, keys that expire (STATE_TTL_S, INPUT_TTL_S), executions of
               \* the run that end

ASSUME BoundsAssumption ==
  MaxClicks \in Nat /\ MaxInputs \in Nat /\ MaxFaults \in Nat

VARIABLES
  \* the page
  shown,     \* who drives, as it was told last
  made,      \* inputs made so far; they are numbered
  queue,     \* those not sent yet
  sending,   \* useInputQueue's flag
  given,     \* inputs of batches it does not wait for any more
  clicks,
  req,       \* its requests
  \* the cache
  claim,     \* agent_control: none, or with a heartbeat that is fresh or 120 s old
  state,     \* agent_state
  head,      \* agent_input_head; 0 if there is none
  batch,     \* agent_input:n
  \* the worker
  running,   \* the row says running
  live,      \* LiveScreencast
  lock,      \* session.lock: free, or who has it
  agent,     \* between tools, waiting for the lock, in a tool, waiting for the viewer,
             \* or gone
  \* what happened
  last,      \* the input the browser got last
  early,     \* inputs that had a number when control was granted last
  blind,     \* the head could not be read then
  lost,      \* since a viewer was last told to drive, control was released, has been
             \* quiet, or the execution has ended
  expired,   \* the state or the head has expired
  faults

page == <<shown, made, queue, sending, given, clicks>>
cache == <<claim, state, head, batch>>
worker == <<running, live, lock, agent>>
past == <<last, early, blind, lost, expired, faults>>
vars == <<page, req, cache, worker, past>>

Drivers == {"agent", "waiting", "user"}
Inputs == 1..MaxInputs
NoRequest == [op |-> "none", at |-> "idle", inputs |-> {}, n |-> 0]

\* control: granted is user before the head has been read.
NewLive == [at |-> "look", control |-> "agent", next |-> 1, told |-> "nothing"]
Reported(control) == IF control = "granted" THEN "user" ELSE control

Init ==
  /\ shown = "agent" /\ made = 0 /\ queue = {} /\ sending = FALSE /\ given = {}
  /\ req = [q \in Requests |-> NoRequest]
  /\ clicks = 0 /\ faults = 0
  /\ claim = "none" /\ state = "none" /\ head = 0 /\ batch = [n \in Inputs |-> {}]
  /\ running = TRUE /\ live = NewLive /\ lock = "free" /\ agent = "idle"
  /\ last = 0 /\ early = {} /\ blind = FALSE /\ lost = FALSE /\ expired = FALSE

\* get_state.
Driver == IF state = "none" THEN "agent" ELSE state

\* One of the faults that MaxFaults bounds.
Fault == faults < MaxFaults /\ faults' = faults + 1

\* Inputs that are in the cache, or about to be, under a number.
Numbered == (UNION {batch[n] : n \in Inputs})
            \union (UNION {req[q].inputs : q \in {p \in Requests : req[p].n # 0}})
-----------------------------------------------------------------------------
(* The page. Closing it is doing nothing any more. *)

Sent(q, op, at, inputs) ==
  /\ req[q] = NoRequest
  /\ req' = [req EXCEPT ![q] = [op |-> op, at |-> at, inputs |-> inputs, n |-> 0]]

\* useLive, and the answers to takes and releases: get_state.
Poll ==
  /\ shown' = Driver
  /\ UNCHANGED <<made, queue, sending, given, clicks, req, cache, worker, past>>

\* The buttons, and the heartbeat while the page shows that the viewer drives.
Click(q) ==
  /\ clicks < MaxClicks /\ clicks' = clicks + 1
  /\ \/ shown \in {"agent", "user"} /\ Sent(q, "take", "check", {})
     \/ shown \in {"waiting", "user"} /\ Sent(q, "release", "apply", {})
  /\ UNCHANGED <<shown, made, queue, sending, given, cache, worker, past>>

\* push, of one click or key.
Make ==
  /\ shown = "user" /\ made < MaxInputs
  /\ made' = made + 1
  /\ queue' = queue \union {made'}
  /\ UNCHANGED <<shown, sending, given, clicks, req, cache, worker, past>>

\* flush: the next batch, unless one is under way.
Flush_Eager(q) ==
  /\ queue # {}
  /\ Sent(q, "input", "check", queue)
  /\ queue' = {} /\ sending' = TRUE
  /\ UNCHANGED <<shown, made, given, clicks, cache, worker, past>>

Flush(q) ==
  /\ queue # {} /\ ~sending
  /\ Sent(q, "input", "check", queue)
  /\ queue' = {} /\ sending' = TRUE
  /\ UNCHANGED <<shown, made, given, clicks, cache, worker, past>>

Awaited(q) == req[q].inputs \intersect given = {}

\* createApiClient's timeout: the page goes on, and so does the server.
GiveUp(q) ==
  /\ req[q].op = "input" /\ Awaited(q) /\ Fault
  /\ given' = given \union req[q].inputs
  /\ sending' = FALSE
  /\ UNCHANGED <<shown, made, queue, clicks, req, cache, worker, last, early, blind, lost, expired>>
-----------------------------------------------------------------------------
(* The API *)

Goes(q, at) == req' = [req EXCEPT ![q].at = at] /\ UNCHANGED sending
Ends(q) ==
  /\ req' = [req EXCEPT ![q] = NoRequest]
  /\ sending' = (sending /\ ~(req[q].op = "input" /\ Awaited(q)))

typed == <<shown, made, queue, given, clicks>>

\* control, take: the row is running ...
CheckRunning(q) ==
  /\ req[q].op = "take" /\ req[q].at = "check"
  /\ IF running THEN Goes(q, "apply") ELSE Ends(q)
  /\ UNCHANGED <<typed, cache, worker, past>>

\* ... request_control, also the last call of push_input ...
RequestControl(q) ==
  /\ req[q].op \in {"take", "input"} /\ req[q].at = "apply"
  /\ claim' = "fresh"
  /\ Ends(q)
  /\ UNCHANGED <<typed, state, head, batch, worker, past>>

\* ... or release_control.
ReleaseControl(q) ==
  /\ req[q].op = "release" /\ req[q].at = "apply"
  /\ claim' = "none"
  /\ lost' = TRUE
  /\ Ends(q)
  /\ UNCHANGED <<typed, state, head, batch, worker, last, early, blind, expired, faults>>

\* input: the viewer drives ...
Accept(q) ==
  /\ req[q].op = "input" /\ req[q].at = "check" /\ Driver = "user"
  /\ Goes(q, "number")
  /\ UNCHANGED <<typed, cache, worker, past>>

Refuse(q) ==
  /\ req[q].op = "input" /\ req[q].at = "check" /\ Driver # "user"
  /\ Ends(q)
  /\ UNCHANGED <<typed, cache, worker, past>>

\* ... push_input: the batch gets a number, is stored, and the claim, if there is
\* one, is renewed.
Number(q) ==
  /\ req[q].at = "number"
  /\ head' = head + 1
  /\ req' = [req EXCEPT ![q].at = "store", ![q].n = head']
  /\ UNCHANGED <<page, claim, state, batch, worker, past>>

Store(q) ==
  /\ req[q].at = "store"
  /\ batch' = [batch EXCEPT ![req[q].n] = req[q].inputs]
  /\ req' = [req EXCEPT ![q].at = "peek", ![q].n = 0]
  /\ UNCHANGED <<page, claim, state, head, worker, past>>

Peek(q) ==
  /\ req[q].at = "peek"
  /\ IF claim = "none" THEN Ends(q) ELSE Goes(q, "apply")
  /\ UNCHANGED <<typed, cache, worker, past>>

\* A call of the cache raises: the request fails where it is.
Break(q) ==
  /\ req[q].op # "none" /\ Fault
  /\ Ends(q)
  /\ UNCHANGED <<typed, cache, worker, last, early, blind, lost, expired>>

Serve(q) ==
  \/ CheckRunning(q) \/ RequestControl(q) \/ ReleaseControl(q)
  \/ Accept(q) \/ Refuse(q) \/ Number(q) \/ Store(q) \/ Peek(q)
-----------------------------------------------------------------------------
(* Time *)

\* CONTROL_IDLE_TIMEOUT_S since the heartbeat.
Quiet ==
  /\ claim = "fresh"
  /\ claim' = "old"
  /\ lost' = TRUE
  /\ UNCHANGED <<page, req, state, head, batch, worker, last, early, blind, expired, faults>>

\* STATE_TTL_S since the state was written: it is written when it changes.
ExpireState ==
  /\ state # "none" /\ Fault
  /\ state' = "none"
  /\ expired' = TRUE
  /\ UNCHANGED <<page, req, claim, head, batch, worker, last, early, blind, lost>>

\* STATE_TTL_S since the first input: incr does not prolong it.
ExpireHead ==
  /\ head > 0 /\ Fault
  /\ head' = 0
  /\ expired' = TRUE
  /\ UNCHANGED <<page, req, claim, state, batch, worker, last, early, blind, lost>>

\* INPUT_TTL_S since the batch was stored.
ExpireBatch(n) ==
  /\ batch[n] # {} /\ Fault
  /\ batch' = [batch EXCEPT ![n] = {}]
  /\ UNCHANGED <<page, req, claim, state, head, worker, last, early, blind, lost, expired>>
-----------------------------------------------------------------------------
(* The worker: LiveScreencast *)

\* _give_back_lock: an agent that waits for the lock has it; one that waits for the
\* viewer goes on.
GiveBack_Anyway ==
  /\ lock' = IF agent = "wants" THEN "agent" ELSE "free"
  /\ agent' = IF agent = "wants" THEN "tool"
              ELSE IF agent = "handoff" /\ Reported(live.control) = "user" THEN "idle"
              ELSE agent

GiveBack ==
  LET user == Reported(live.control) = "user"
      free == user \/ lock = "free"
  IN /\ lock' = IF free THEN IF agent = "wants" THEN "agent" ELSE "free" ELSE lock
     /\ agent' = IF free /\ agent = "wants" THEN "tool"
                 ELSE IF user /\ agent = "handoff" THEN "idle" ELSE agent

\* _sync_control: the claim is read and compared with who drives.
Wanted_HoweverOld == claim # "none"
Wanted == claim = "fresh"

Starts_Again == Wanted /\ live.control \in {"agent", "user"}
Starts == Wanted /\ live.control = "agent"

Sync ==
  /\ live.at = "look"
  /\ \/ /\ Starts
        /\ live' = [live EXCEPT !.at = "drain", !.control = "waiting"]
        /\ UNCHANGED <<lock, agent>>
     \/ /\ ~Wanted /\ live.control # "agent"
        /\ live' = [live EXCEPT !.at = IF claim = "none" THEN "drain" ELSE "forget",
                                !.control = "agent"]
        /\ GiveBack
     \/ /\ ~Starts
        /\ Wanted \/ live.control = "agent"
        /\ live' = [live EXCEPT !.at = "drain"]
        /\ UNCHANGED <<lock, agent>>
  /\ UNCHANGED <<page, req, cache, running, past>>

\* A claim that timed out is deleted, also if it has been renewed since.
Forget ==
  /\ live.at = "forget"
  /\ claim' = "none"
  /\ live' = [live EXCEPT !.at = "drain"]
  /\ UNCHANGED <<page, req, state, head, batch, running, lock, agent, past>>

\* _take_lock: the lock, which goes to who waited longest, and then the head. If it
\* cannot be read the task ends, but control is the viewer's already: the loop goes on
\* from the number it had.
Grant ==
  /\ live.control = "waiting" /\ lock = "free"
  /\ lock' = "live"
  /\ live' = [live EXCEPT !.control = "granted"]
  /\ early' = Numbered
  /\ UNCHANGED <<page, req, cache, running, agent, last, blind, lost, expired, faults>>

CannotRead ==
  /\ Fault /\ blind' = TRUE
  /\ live' = [live EXCEPT !.control = "user"]

ReadHead_OffByOne ==
  /\ live.control = "granted"
  /\ \/ live' = [live EXCEPT !.control = "user", !.next = head + 2]
        /\ blind' = FALSE /\ UNCHANGED faults
     \/ CannotRead
  /\ UNCHANGED <<page, req, cache, running, lock, agent, last, early, lost, expired>>

ReadHead_Keeps ==
  /\ live.control = "granted"
  /\ \/ live' = [live EXCEPT !.control = "user"]
        /\ blind' = FALSE /\ UNCHANGED faults
     \/ CannotRead
  /\ UNCHANGED <<page, req, cache, running, lock, agent, last, early, lost, expired>>

ReadHead ==
  /\ live.control = "granted"
  /\ \/ live' = [live EXCEPT !.control = "user", !.next = head + 1]
        /\ blind' = FALSE /\ UNCHANGED faults
     \/ CannotRead
  /\ UNCHANGED <<page, req, cache, running, lock, agent, last, early, lost, expired>>

\* _drain_input, for a viewer who drives: the batches up to the head, one by one.
Draining == live.at = "drain" /\ live.control = "user" /\ live.next <= head

Replay ==
  /\ Draining /\ batch[live.next] # {}
  /\ last' = CHOOSE i \in batch[live.next] : \A k \in batch[live.next] : k <= i
  /\ batch' = [batch EXCEPT ![live.next] = {}]
  /\ live' = [live EXCEPT !.next = @ + 1]
  /\ UNCHANGED <<page, req, claim, state, head, running, lock, agent, early, blind, lost, expired,
                 faults>>

\* A batch that is not there for MISSING_INPUT_GRACE_S is skipped.
Skip ==
  /\ Draining /\ batch[live.next] = {}
  /\ live' = [live EXCEPT !.next = @ + 1]
  /\ UNCHANGED <<page, req, cache, running, lock, agent, past>>

\* _publish_state, if it changed. Its write comes after the head has been read.
Publish ==
  /\ live.at = "drain" /\ live.control # "granted"
  /\ Draining => batch[live.next] = {}
  /\ live' = [live EXCEPT !.at = "look", !.told = live.control]
  /\ IF live.told = live.control
       THEN UNCHANGED <<state, lost>>
       ELSE /\ state' = live.control
            /\ lost' = IF live.control = "user" THEN claim # "fresh" ELSE lost
  /\ UNCHANGED <<page, req, claim, head, batch, running, lock, agent, last, early, blind,
                 expired, faults>>

\* A call of the cache raises in the tick, which ends there: a timed-out claim stays, a
\* batch is read next time. What was being published counts as published.
BreakTick ==
  /\ live.at \in {"forget", "drain"} /\ Fault
  /\ \E told \in {live.told} \union ({live.control} \ {"granted"}) :
       live' = [live EXCEPT !.at = "look", !.told = told]
  /\ UNCHANGED <<page, req, cache, running, lock, agent, last, early, blind, lost, expired>>

Loop == Sync \/ Forget \/ ReadHead \/ Replay \/ Skip \/ Publish
-----------------------------------------------------------------------------
(* The worker: the agent and the run *)

\* A tool takes the lock, behind a viewer who waits for it.
StartTool ==
  /\ agent = "idle"
  /\ IF lock = "free" /\ live.control # "waiting"
       THEN lock' = "agent" /\ agent' = "tool"
       ELSE agent' = "wants" /\ UNCHANGED lock
  /\ UNCHANGED <<page, req, cache, running, live, past>>

EndTool ==
  /\ agent = "tool"
  /\ agent' = "idle"
  /\ lock' = IF lock = "agent" THEN "free" ELSE lock
  /\ UNCHANGED <<page, req, cache, running, live, past>>

\* hand_over_to_user: wait_for_user does not hold the lock; GiveBack or 10 minutes
\* end it.
AskForUser ==
  /\ agent = "idle"
  /\ agent' = "handoff"
  /\ UNCHANGED <<page, req, cache, running, live, lock, past>>

NobodyCame ==
  /\ agent = "handoff"
  /\ agent' = "idle"
  /\ UNCHANGED <<page, req, cache, running, live, lock, past>>

Off == [NewLive EXCEPT !.at = "off"]

\* The run ends, or is parked with a question: stop() gives the lock back ...
Stop ==
  /\ agent # "gone" /\ Fault
  /\ agent' = "gone" /\ lock' = "free"
  /\ live' = [NewLive EXCEPT !.at = "bye"]
  /\ lost' = TRUE
  /\ UNCHANGED <<page, req, cache, running, last, early, blind, expired>>

\* ... reports it ...
StopTold ==
  /\ live.at = "bye"
  /\ state' = "agent"
  /\ live' = [live EXCEPT !.at = "clear"]
  /\ UNCHANGED <<page, req, claim, head, batch, running, lock, agent, past>>

\* ... and deletes the claim.
StopCleared ==
  /\ live.at = "clear"
  /\ claim' = "none"
  /\ live' = Off
  /\ UNCHANGED <<page, req, state, head, batch, running, lock, agent, past>>

\* The worker dies and leaves all keys as they are.
Crash ==
  /\ live.at # "off" /\ Fault
  /\ agent' = "gone" /\ lock' = "free" /\ live' = Off
  /\ lost' = TRUE
  /\ UNCHANGED <<page, req, cache, running, last, early, blind, expired>>

\* The row stops being running: written by the worker, or by the reaper ...
Park ==
  /\ live.at = "off" /\ running
  /\ running' = FALSE
  /\ UNCHANGED <<page, req, cache, live, lock, agent, past>>

\* ... and a worker, with a screencast of its own, goes on with the run.
Resume ==
  /\ ~running
  /\ running' = TRUE /\ live' = NewLive /\ agent' = "idle"
  /\ UNCHANGED <<page, req, cache, lock, past>>

-----------------------------------------------------------------------------
Next ==
  \/ \E q \in Requests : \/ Click(q) \/ Flush(q) \/ GiveUp(q) \/ Serve(q) \/ Break(q)
  \/ Poll \/ Make
  \/ Quiet \/ ExpireState \/ ExpireHead \/ \E n \in Inputs : ExpireBatch(n)
  \/ Loop \/ BreakTick \/ Grant
  \/ StartTool \/ EndTool \/ AskForUser \/ NobodyCame
  \/ Stop \/ StopTold \/ StopCleared \/ Crash \/ Park \/ Resume

Spec == Init /\ [][Next]_vars

\* The worker's coroutines go on, and time passes. Viewers and the agent owe nothing
\* but the end of a tool.
Fairness == WF_vars(Loop) /\ WF_vars(Grant) /\ WF_vars(EndTool) /\ WF_vars(Quiet)

FairSpec == Spec /\ Fairness

-----------------------------------------------------------------------------
(* Properties *)

\* The types of the variables.
TypeOK ==
  /\ shown \in Drivers /\ made \in 0..MaxInputs
  /\ queue \subseteq Inputs /\ given \subseteq Inputs /\ sending \in BOOLEAN
  /\ clicks \in 0..MaxClicks /\ faults \in 0..MaxFaults
  /\ req \in [Requests -> [op: {"none", "take", "release", "input"},
                           at: {"idle", "check", "apply", "number", "store", "peek"},
                           inputs: SUBSET Inputs, n: 0..MaxInputs]]
  /\ claim \in {"none", "fresh", "old"} /\ state \in Drivers \union {"none"}
  /\ head \in 0..MaxInputs /\ batch \in [Inputs -> SUBSET Inputs]
  /\ running \in BOOLEAN
  /\ live \in [at: {"look", "forget", "drain", "bye", "clear", "off"},
               control: Drivers \union {"granted"}, next: 1..(MaxInputs + 1),
               told: Drivers \union {"nothing"}]
  /\ lock \in {"free", "agent", "live"}
  /\ agent \in {"idle", "wants", "tool", "handoff", "gone"}
  /\ last \in 0..MaxInputs /\ early \subseteq Inputs
  /\ blind \in BOOLEAN /\ lost \in BOOLEAN /\ expired \in BOOLEAN

\* "While a person drives, the worker holds session.lock" (live.py:11): the agent is
\* in no tool then, whatever happened to the wait for the lock before.
OneDriver ==
  Reported(live.control) = "user" => lock = "live" /\ agent # "tool"

\* "Sends input in order" (LiveBrowser.tsx:72): the browser gets a viewer's inputs in
\* the order they were made, except those of a batch the page stopped waiting for, and
\* unless the head could not be read at the grant, so that a new worker begins with the
\* first batch, or the keys have begun to expire: then one is found under its old number.
InOrder == [][last' < last => last' \in given \/ blind \/ expired]_vars

\* "Ignore input sent before control was granted" (live.py:192), unless the head could
\* not be read at the grant or the keys of this run have begun to expire.
SinceGrant == [][last' # last => last' \notin early \/ blind \/ expired]_vars

\* A viewer who was told to drive is refused an input only after control was released,
\* had been quiet, ended with the execution, or after the state expired.
RefusedForCause == [][\A q \in Requests : Refuse(q) => lost \/ expired]_vars

\* The agent gets the browser back from any viewer who has gone.
HandsBack == agent = "wants" ~> agent # "wants"
=============================================================================
