------------------------- MODULE LiveControlProofs -------------------------
(***************************************************************************)
(* Proofs about LiveControl, for any number of requests, clicks, inputs    *)
(* and faults: the agent and a viewer never drive the browser at once; a   *)
(* viewer's inputs reach it in order, and none from before control was     *)
(* granted; and a viewer who was told to drive is refused for a cause.     *)
(***************************************************************************)
EXTENDS LiveControl, FiniteSetTheorems, TLAPS

\* The part of the worker the lock depends on keeps its types.
WorkerTypes ==
  /\ live \in [at: {"look", "forget", "drain", "bye", "clear", "off"},
               control: Drivers \union {"granted"}, next: Nat,
               told: Drivers \union {"nothing"}]
  /\ lock \in {"free", "agent", "live"}
  /\ agent \in {"idle", "wants", "tool", "handoff", "gone"}
  /\ head \in Nat

\* The lock is with the viewer just while they drive, and with the agent just while it
\* is in a tool; an execution that has ended drives nothing, and no other one starts
\* before it has.
LockInv ==
  /\ lock = "live" <=> live.control \in {"granted", "user"}
  /\ lock = "agent" <=> agent = "tool"
  /\ live.at \in {"bye", "clear", "off"} => live.control = "agent" /\ agent = "gone"
  /\ ~running => live.at = "off"

DriverInv == WorkerTypes /\ LockInv

LEMMA InitDriver == Init => DriverInv
  BY DEF Init, DriverInv, WorkerTypes, LockInv, NewLive, Drivers

\* The page, the API and the clock leave the worker alone.
LEMMA OthersKeepDriver ==
  ASSUME DriverInv, UNCHANGED worker, head' \in Nat
  PROVE  DriverInv'
  BY DEF DriverInv, WorkerTypes, LockInv, worker

LEMMA PageStep ==
  ASSUME DriverInv,
         Poll \/ Make \/ (\E q \in Requests : Click(q) \/ Flush(q) \/ GiveUp(q))
  PROVE  DriverInv'
<1>1. UNCHANGED worker /\ UNCHANGED cache
  BY DEF Poll, Make, Click, Flush, GiveUp
<1> QED
  BY <1>1, OthersKeepDriver DEF DriverInv, WorkerTypes, cache

LEMMA ApiStep ==
  ASSUME DriverInv, NEW q \in Requests, Serve(q) \/ Break(q)
  PROVE  DriverInv'
<1>1. UNCHANGED worker
  BY DEF Serve, CheckRunning, RequestControl, ReleaseControl, Accept, Refuse, Number, Store,
         Peek, Break
<1>2. head' \in Nat
  BY DEF Serve, CheckRunning, RequestControl, ReleaseControl, Accept, Refuse, Number, Store,
         Peek, Break, cache, DriverInv, WorkerTypes
<1> QED
  BY <1>1, <1>2, OthersKeepDriver

LEMMA ClockStep ==
  ASSUME DriverInv, Quiet \/ ExpireState \/ ExpireHead \/ (\E n \in Inputs : ExpireBatch(n))
  PROVE  DriverInv'
<1>1. UNCHANGED worker /\ head' \in Nat
  BY DEF Quiet, ExpireState, ExpireHead, ExpireBatch, DriverInv, WorkerTypes
<1> QED
  BY <1>1, OthersKeepDriver

\* The worker's loop changes the lock in one place: where the claim is no longer wanted.
LEMMA SyncStep ==
  ASSUME DriverInv, Sync
  PROVE  DriverInv'
<1> USE DEF DriverInv, WorkerTypes, Drivers
<1>1. head' = head /\ running' = running /\ live.at = "look"
  BY DEF Sync, cache
<1>2. CASE /\ Starts
           /\ live' = [live EXCEPT !.at = "drain", !.control = "waiting"]
           /\ UNCHANGED <<lock, agent>>
  <2>1. /\ live' \in [at: {"look", "forget", "drain", "bye", "clear", "off"},
                      control: Drivers \union {"granted"}, next: Nat,
                      told: Drivers \union {"nothing"}]
        /\ live'.control = "waiting" /\ live'.at = "drain"
    BY <1>2
  <2>2. live.control = "agent" /\ UNCHANGED <<lock, agent>>
    BY <1>2 DEF Starts
  <2> QED
    BY <1>1, <2>1, <2>2 DEF LockInv
<1>3. CASE /\ ~Wanted /\ live.control # "agent"
           /\ live' = [live EXCEPT !.at = IF claim = "none" THEN "drain" ELSE "forget",
                                   !.control = "agent"]
           /\ GiveBack
  <2>1. /\ live' \in [at: {"look", "forget", "drain", "bye", "clear", "off"},
                      control: Drivers \union {"granted"}, next: Nat,
                      told: Drivers \union {"nothing"}]
        /\ live'.control = "agent" /\ live'.at \in {"drain", "forget"}
    BY <1>3
  <2>2. agent # "tool" \/ lock = "agent"
    BY DEF LockInv
  <2>3. Reported(live.control) = "user" <=> lock = "live"
    BY DEF LockInv, Reported
  <2>4. lock' \in {"free", "agent"} /\ (lock' = "agent" <=> agent' = "tool")
    BY <1>3, <2>2, <2>3 DEF GiveBack, LockInv
  <2>5. agent' \in {"idle", "wants", "tool", "handoff", "gone"}
    BY <1>3 DEF GiveBack
  <2> QED
    BY <1>1, <2>1, <2>4, <2>5 DEF LockInv
<1>4. CASE /\ ~Starts
           /\ Wanted \/ live.control = "agent"
           /\ live' = [live EXCEPT !.at = "drain"]
           /\ UNCHANGED <<lock, agent>>
  BY <1>1, <1>4 DEF Sync, LockInv
<1> QED
  BY <1>2, <1>3, <1>4 DEF Sync

LEMMA LoopStep ==
  ASSUME DriverInv, Loop \/ BreakTick \/ Grant
  PROVE  DriverInv'
<1> USE DEF DriverInv, WorkerTypes, Drivers
<1>1. CASE Sync
  BY <1>1, SyncStep
<1>2. CASE Forget
  BY <1>2 DEF Forget, LockInv
<1>3. CASE ReadHead
  <2>1. head + 1 \in Nat
    OBVIOUS
  <2>2. /\ live' \in [at: {"look", "forget", "drain", "bye", "clear", "off"},
                      control: Drivers \union {"granted"}, next: Nat,
                      told: Drivers \union {"nothing"}]
        /\ live'.control = "user" /\ live'.at = live.at
    BY <1>3, <2>1 DEF ReadHead, CannotRead
  <2>3. live.control = "granted" /\ UNCHANGED <<head, lock, agent, running>>
    BY <1>3 DEF ReadHead, cache
  <2> QED
    BY <2>2, <2>3 DEF LockInv
<1>4. CASE Replay
  BY <1>4 DEF Replay, Draining, LockInv
<1>5. CASE Skip
  BY <1>5 DEF Skip, Draining, LockInv, cache
<1>6. CASE Publish
  BY <1>6 DEF Publish, LockInv
<1>7. CASE Grant
  BY <1>7 DEF Grant, LockInv, cache
<1>8. CASE BreakTick
  <2>1. PICK told \in Drivers \union {"nothing"} : live' = [live EXCEPT !.at = "look", !.told = told]
    BY <1>8 DEF BreakTick
  <2>2. live.at \in {"forget", "drain"} /\ UNCHANGED <<head, lock, agent, running>>
    BY <1>8 DEF BreakTick, cache
  <2> QED
    BY <2>1, <2>2 DEF LockInv
<1> QED
  BY <1>1, <1>2, <1>3, <1>4, <1>5, <1>6, <1>7, <1>8 DEF Loop

LEMMA AgentStep ==
  ASSUME DriverInv,
         \/ StartTool \/ EndTool \/ AskForUser \/ NobodyCame
         \/ Stop \/ StopTold \/ StopCleared \/ Crash \/ Park \/ Resume
  PROVE  DriverInv'
<1> USE DEF DriverInv, WorkerTypes, Drivers
<1>1. CASE StartTool
  BY <1>1 DEF StartTool, LockInv, cache
<1>2. CASE EndTool
  BY <1>2 DEF EndTool, LockInv, cache
<1>3. CASE AskForUser \/ NobodyCame
  BY <1>3 DEF AskForUser, NobodyCame, LockInv, cache
<1>4. CASE Stop
  BY <1>4 DEF Stop, NewLive, LockInv, cache
<1>5. CASE StopTold
  BY <1>5 DEF StopTold, LockInv
<1>6. CASE StopCleared
  BY <1>6 DEF StopCleared, Off, NewLive, LockInv
<1>7. CASE Crash
  BY <1>7 DEF Crash, Off, NewLive, LockInv, cache
<1>8. CASE Park
  BY <1>8 DEF Park, LockInv, cache
<1>9. CASE Resume
  BY <1>9 DEF Resume, NewLive, LockInv, cache
<1> QED
  BY <1>1, <1>2, <1>3, <1>4, <1>5, <1>6, <1>7, <1>8, <1>9

LEMMA DriverStep == DriverInv /\ [Next]_vars => DriverInv'
<1> SUFFICES ASSUME DriverInv, [Next]_vars PROVE DriverInv'
  OBVIOUS
<1>1. CASE UNCHANGED vars
  BY <1>1, OthersKeepDriver DEF vars, cache, DriverInv, WorkerTypes
<1>2. CASE Next
  BY <1>2, PageStep, ApiStep, ClockStep, LoopStep, AgentStep DEF Next
<1> QED
  BY <1>1, <1>2

\* "While a person drives, the worker holds session.lock", and the agent is in no tool:
\* for any number of requests, takes, releases, inputs, expiries and deaths.
THEOREM NeverBothDrive == Spec => []OneDriver
<1>1. DriverInv => OneDriver
  BY DEF DriverInv, WorkerTypes, LockInv, OneDriver, Reported, Drivers
<1> QED
  BY <1>1, InitDriver, DriverStep, PTL DEF Spec

-----------------------------------------------------------------------------
(***************************************************************************)
(* The viewer's inputs, from the page to the browser. They are made in     *)
(* order and leave the queue in batches; a batch gets its number, is       *)
(* stored, and is given to the browser. Batches can overtake each other    *)
(* only when the page does not wait for the one before, or when the keys   *)
(* have begun to expire and numbers start again.                           *)
(***************************************************************************)

\* An input that has left the queue: it was given to the browser last, is in the cache, or
\* is in a request; one that has no number yet; and one that has number n.
Flushed(i) ==
  \/ i = last \/ \E n \in Inputs : i \in batch[n]
  \/ \E q \in Requests : i \in req[q].inputs
Unnumbered(q) == req[q].op = "input" /\ req[q].at \in {"check", "number"}
NotYet ==
  {i \in Inputs : i \in queue \/ \E q \in Requests : Unnumbered(q) /\ i \in req[q].inputs}
Has(n, i) ==
  i \in batch[n] \/ \E q \in Requests : req[q].n = n /\ i \in req[q].inputs

\* A request's inputs are its own, and given up all or none.
Shaped(q) ==
  /\ req[q].op = "none" => req[q] = NoRequest
  /\ req[q].op \in {"take", "release"}
       => req[q].inputs = {} /\ req[q].at \in {"check", "apply"}
  /\ req[q].op = "input" => req[q].inputs # {}
  /\ req[q].at = "idle" => req[q].op = "none"
  /\ req[q].at = "store" <=> req[q].n # 0
  /\ req[q].at \in {"number", "store", "peek"} => req[q].op = "input"
  /\ Awaited(q) \/ req[q].inputs \subseteq given
Shape == \A q \in Requests : Shaped(q)
RequestsApart ==
  \A p, q \in Requests : p # q => req[p].inputs \intersect req[q].inputs = {}
NotStored ==
  \A q \in Requests, i \in Inputs :
    (Unnumbered(q) \/ req[q].at = "store") /\ i \in req[q].inputs
      => i # last /\ \A n \in Inputs : i \notin batch[n]

\* The page waits for one request at a time, the one with the latest inputs; those in the
\* queue are later still.
OneAwaited ==
  \A q \in Requests : req[q].op = "input" /\ Awaited(q) =>
    /\ sending
    /\ \A p \in Requests : req[p].op = "input" /\ Awaited(p) => p = q
AwaitedIsLatest ==
  \A q \in Requests, i, j \in Inputs :
    /\ req[q].op = "input" /\ Awaited(q)
    /\ i \in req[q].inputs /\ j \notin req[q].inputs /\ Flushed(j)
    => j < i
QueueIsLatest ==
  \A i \in queue, j \in Inputs : Flushed(j) \/ j \in given => j < i
Made ==
  /\ queue \subseteq 1..made /\ given \subseteq 1..made /\ early \subseteq 1..made
  /\ \A i \in Inputs : Flushed(i) => i <= made
  /\ last \in 0..made

\* Every number stands for an input that was made.
Numbers ==
  /\ head + Cardinality(NotYet) <= made
  /\ expired \/ /\ \A n \in Inputs : batch[n] # {} => n <= head
                /\ \A q \in Requests : req[q].n <= head

\* For a viewer who drives, if the head was read at the grant, what comes from the next
\* number on was not numbered when control was granted, and comes in order.
Coming ==
  ~expired /\ ~blind /\ live.control = "user" =>
    \A n \in Inputs, i \in Inputs : n >= live.next /\ Has(n, i) =>
      /\ i \notin early
      /\ i \in given \/ last < i
      /\ \A m \in Inputs, j \in Inputs : n < m /\ Has(m, j) => j \in given \/ i < j
NotYetEarly == live.control \in {"granted", "user"} => NotYet \intersect early = {}

InputInv ==
  /\ Shape /\ RequestsApart /\ NotStored /\ OneAwaited /\ AwaitedIsLatest
  /\ QueueIsLatest /\ Made /\ Numbers /\ Coming /\ NotYetEarly

\* Whoever holds inputs was told to drive, and the state says so until there is a cause.
Holding ==
  shown = "user" \/ queue # {} \/ \E q \in Requests : req[q].op = "input"
Told ==
  /\ Holding => state = "user" \/ lost \/ expired
  /\ state = "user" /\ ~lost
       => claim = "fresh" /\ live.control = "user" /\ live.at \in {"look", "drain"}
  /\ live.at = "forget" => live.control = "agent"

-----------------------------------------------------------------------------
(* Types. *)

LEMMA NumberedAre ==
  \A i : i \in Numbered <=> \/ \E n \in Inputs : i \in batch[n]
                          \/ \E q \in Requests : req[q].n # 0 /\ i \in req[q].inputs
<1> DEFINE B == UNION {batch[n] : n \in Inputs}
           R == UNION {req[q].inputs : q \in {p \in Requests : req[p].n # 0}}
<1>1. \A i : i \in B <=> \E n \in Inputs : i \in batch[n]
  BY Zenon
<1>2. \A i : i \in R <=> \E q \in Requests : req[q].n # 0 /\ i \in req[q].inputs
  BY Zenon
<1>3. Numbered = B \union R
  BY DEF Numbered
<1> HIDE DEF B, R
<1>4. QED
  BY <1>1, <1>2, <1>3

\* The greatest element, which Replay chooses.
LEMMA MaxExists ==
  ASSUME NEW m \in Nat, NEW S \in SUBSET (1..m), S # {}
  PROVE  \E x \in S : \A y \in S : y <= x
<1> DEFINE T == {m - x : x \in S}
           R == OpToRel(<, Nat)
<1>1. T \subseteq Nat /\ T # {}
  <2>1. \A x \in S : m - x \in Nat
    OBVIOUS
  <2>2. PICK x \in S : TRUE
    OBVIOUS
  <2>3. m - x \in T
    OBVIOUS
  <2>4. QED
    BY <2>1, <2>3
<1>2. IsWellFoundedOn(R, Nat)
  BY NatLessThanWellFounded
<1>3. PICK t \in T : \A u \in T : ~(<<u, t>> \in R)
  <2> HIDE DEF R, T
  <2> QED
    BY <1>1, <1>2, WFMin, Zenon
<1>4. \A u \in T : ~(u < t)
  BY <1>1, <1>3 DEF OpToRel
<1>5. PICK x \in S : t = m - x
  OBVIOUS
<1>6. ASSUME NEW y \in S PROVE y <= x
  <2>1. m - y \in T /\ x \in Int /\ y \in Int
    OBVIOUS
  <2>2. ~(m - y < m - x)
    BY <1>4, <1>5, <2>1
  <2>3. QED
    BY <2>1, <2>2
<1>7. QED
  BY <1>6

LEMMA Replayed ==
  ASSUME TypeOK, Replay
  PROVE  /\ live.next \in Inputs /\ last' \in batch[live.next]
         /\ \A k \in batch[live.next] : k <= last'
<1>1. live.next \in Inputs
  BY BoundsAssumption DEF Replay, Draining, TypeOK, Inputs
<1>2. batch[live.next] \subseteq 1..MaxInputs /\ batch[live.next] # {}
  BY <1>1 DEF Replay, TypeOK, Inputs
<1>3. \E i \in batch[live.next] : \A k \in batch[live.next] : k <= i
  BY <1>2, MaxExists, BoundsAssumption
<1>4. last' = CHOOSE i \in batch[live.next] : \A k \in batch[live.next] : k <= i
  BY DEF Replay
<1>5. QED
  BY <1>1, <1>3, <1>4

\* The number of the next batch is in bounds: a batch without a number has an input that
\* no number stands for.
LEMMA NotYetFinite ==
  ASSUME TypeOK
  PROVE  IsFiniteSet(NotYet) /\ Cardinality(NotYet) \in Nat
<1>1. IsFiniteSet(Inputs)
  BY BoundsAssumption, FS_Interval DEF Inputs
<1>2. NotYet \subseteq Inputs
  BY DEF NotYet
<1>3. IsFiniteSet(NotYet)
  BY <1>1, <1>2, FS_Subset
<1>4. QED
  BY <1>3, FS_CardinalityType

LEMMA NumberInBounds ==
  ASSUME TypeOK, InputInv, NEW q \in Requests, Number(q)
  PROVE  head + 1 \in Inputs
<1>1. req[q].op = "input" /\ req[q].inputs # {} /\ req[q].inputs \subseteq Inputs
  BY DEF InputInv, Shape, Shaped, Number, TypeOK
<1>2. NotYet # {}
  BY <1>1 DEF NotYet, Unnumbered, Number
<1>3. Cardinality(NotYet) # 0
  BY <1>2, NotYetFinite, FS_EmptySet
<1>4. Cardinality(NotYet) \in Nat /\ head + Cardinality(NotYet) <= made
  BY NotYetFinite DEF InputInv, Numbers
<1>5. head \in Nat /\ made \in Nat /\ made <= MaxInputs
  BY BoundsAssumption DEF TypeOK
<1>6. QED
  BY <1>3, <1>4, <1>5, BoundsAssumption DEF Inputs

Request == [op: {"none", "take", "release", "input"},
            at: {"idle", "check", "apply", "number", "store", "peek"},
            inputs: SUBSET Inputs, n: 0..MaxInputs]
Screencast == [at: {"look", "forget", "drain", "bye", "clear", "off"},
               control: Drivers \union {"granted"}, next: 1..(MaxInputs + 1),
               told: Drivers \union {"nothing"}]

LEMMA BlankRequest == NoRequest \in Request
  BY BoundsAssumption DEF NoRequest, Request

LEMMA FaultTyped ==
  ASSUME TypeOK, Fault
  PROVE  faults' \in 0..MaxFaults
BY BoundsAssumption DEF TypeOK, Fault

LEMMA BlankScreencast == NewLive \in Screencast /\ Off \in Screencast
<1>1. NewLive \in Screencast
  BY BoundsAssumption DEF NewLive, Screencast, Drivers
<1>2. QED
  BY <1>1 DEF Off, Screencast

\* The page.
LEMMA PageTyped ==
  ASSUME TypeOK, Poll \/ Make \/ (\E q \in Requests : Click(q) \/ Flush(q) \/ GiveUp(q))
  PROVE  TypeOK'
<1> USE DEF TypeOK
<1>1. CASE Poll
  <2>1. Driver \in Drivers
    BY DEF Driver, Drivers
  <2>2. QED
    BY <1>1, <2>1 DEF Poll, cache, worker, past
<1>2. CASE Make
  <2>1. made' \in 0..MaxInputs /\ queue' \subseteq Inputs
    BY <1>2, BoundsAssumption DEF Make, Inputs
  <2>2. QED
    BY <1>2, <2>1 DEF Make, cache, worker, past
<1>3. ASSUME NEW q \in Requests, NEW op \in {"take", "release", "input"},
             NEW at \in {"check", "apply"}, NEW inputs \in SUBSET Inputs, Sent(q, op, at, inputs)
      PROVE  req' \in [Requests -> Request]
  <2>1. [op |-> op, at |-> at, inputs |-> inputs, n |-> 0] \in Request
    BY BoundsAssumption DEF Request
  <2>2. QED
    BY <1>3, <2>1 DEF Sent, Request
<1>4. ASSUME NEW q \in Requests, Click(q) PROVE TypeOK'
  <2>1. req' \in [Requests -> Request]
    BY <1>3, <1>4 DEF Click
  <2>2. clicks' \in 0..MaxClicks
    BY <1>4, BoundsAssumption DEF Click
  <2>3. QED
    BY <1>4, <2>1, <2>2 DEF Click, cache, worker, past, Request
<1>5. ASSUME NEW q \in Requests, Flush(q) PROVE TypeOK'
  <2>1. req' \in [Requests -> Request]
    BY <1>3, <1>5 DEF Flush
  <2>2. queue' \subseteq Inputs /\ sending' \in BOOLEAN
    BY <1>5 DEF Flush
  <2>3. QED
    BY <1>5, <2>1, <2>2 DEF Flush, cache, worker, past, Request
<1>6. ASSUME NEW q \in Requests, GiveUp(q) PROVE TypeOK'
  <2>1. given' \subseteq Inputs /\ sending' \in BOOLEAN
    BY <1>6 DEF GiveUp
  <2>2. faults' \in 0..MaxFaults
    BY <1>6, BoundsAssumption DEF GiveUp, Fault
  <2>3. QED
    BY <1>6, <2>1, <2>2 DEF GiveUp, cache, worker
<1>7. QED
  BY <1>1, <1>2, <1>4, <1>5, <1>6

\* The API.
LEMMA ApiTyped ==
  ASSUME TypeOK, InputInv, NEW q \in Requests, Serve(q) \/ Break(q)
  PROVE  TypeOK'
<1> USE DEF TypeOK
<1>1. req[q] \in Request /\ req \in [Requests -> Request]
  BY DEF Request
<1>2. ASSUME Ends(q) PROVE req' \in [Requests -> Request] /\ sending' \in BOOLEAN
  <2>1. req' \in [Requests -> Request]
    BY <1>1, <1>2, BlankRequest DEF Ends
  <2>2. sending' \in BOOLEAN
    BY <1>2, Zenon DEF Ends
  <2>3. QED
    BY <2>1, <2>2
<1>3. ASSUME NEW at \in {"apply", "number"}, Goes(q, at)
      PROVE  req' \in [Requests -> Request] /\ sending' \in BOOLEAN
  BY <1>1, <1>3 DEF Goes, Request
<1>4. CASE CheckRunning(q)
  <2>1. req' \in [Requests -> Request] /\ sending' \in BOOLEAN
    BY <1>2, <1>3, <1>4 DEF CheckRunning
  <2>2. QED
    BY <1>4, <2>1 DEF CheckRunning, typed, cache, worker, past, Request
<1>5. CASE RequestControl(q)
  <2>1. req' \in [Requests -> Request] /\ sending' \in BOOLEAN
    BY <1>2, <1>5 DEF RequestControl
  <2>2. QED
    BY <1>5, <2>1 DEF RequestControl, typed, worker, past, Request
<1>6. CASE ReleaseControl(q)
  <2>1. req' \in [Requests -> Request] /\ sending' \in BOOLEAN
    BY <1>2, <1>6 DEF ReleaseControl
  <2>2. QED
    BY <1>6, <2>1 DEF ReleaseControl, typed, worker, past, Request
<1>7. CASE Accept(q) \/ Refuse(q) \/ Peek(q)
  <2>1. req' \in [Requests -> Request] /\ sending' \in BOOLEAN
    BY <1>2, <1>3, <1>7 DEF Accept, Refuse, Peek
  <2>2. QED
    BY <1>7, <2>1 DEF Accept, Refuse, Peek, typed, cache, worker, past, Request
<1>8. CASE Number(q)
  <2>1. head + 1 \in 0..MaxInputs
    BY <1>8, NumberInBounds DEF Inputs
  <2>2. head' \in 0..MaxInputs /\ req' \in [Requests -> Request]
    BY <1>1, <1>8, <2>1 DEF Number, Request
  <2>3. QED
    BY <1>8, <2>2 DEF Number, page, worker, past, Request
<1>9. CASE Store(q)
  <2>1. [req[q] EXCEPT !.at = "peek", !.n = 0] \in Request
    <3>1. 0 \in 0..MaxInputs
      BY BoundsAssumption
    <3>2. QED
      BY <1>1, <3>1 DEF Request
  <2>2. batch' \in [Inputs -> SUBSET Inputs]
    BY <1>1, <1>9 DEF Store, Request
  <2>3. req' \in [Requests -> Request]
    BY <1>1, <1>9, <2>1 DEF Store
  <2>4. QED
    BY <1>9, <2>2, <2>3 DEF Store, page, worker, past, Request
<1>10. CASE Break(q)
  <2>1. req' \in [Requests -> Request] /\ sending' \in BOOLEAN
    BY <1>2, <1>10 DEF Break
  <2>2. faults' \in 0..MaxFaults
    BY <1>10, BoundsAssumption DEF Break, Fault
  <2>3. QED
    BY <1>10, <2>1, <2>2 DEF Break, typed, cache, worker, Request
<1>11. QED
  BY <1>4, <1>5, <1>6, <1>7, <1>8, <1>9, <1>10 DEF Serve

\* Time and the worker.
LEMMA ClockTyped ==
  ASSUME TypeOK, Quiet \/ ExpireState \/ ExpireHead \/ \E n \in Inputs : ExpireBatch(n)
  PROVE  TypeOK'
<1>1. faults' \in 0..MaxFaults
  BY BoundsAssumption DEF TypeOK, Quiet, ExpireState, ExpireHead, ExpireBatch, Fault
<1>2. batch' \in [Inputs -> SUBSET Inputs] /\ head' \in 0..MaxInputs
  BY BoundsAssumption DEF TypeOK, Quiet, ExpireState, ExpireHead, ExpireBatch
<1>3. lost' \in BOOLEAN /\ expired' \in BOOLEAN
  BY DEF TypeOK, Quiet, ExpireState, ExpireHead, ExpireBatch
<1>4. QED
  BY <1>1, <1>2, <1>3 DEF TypeOK, Quiet, ExpireState, ExpireHead, ExpireBatch, page, worker

LEMMA LoopTyped ==
  ASSUME TypeOK, Loop \/ BreakTick \/ Grant
  PROVE  TypeOK'
<1> USE DEF TypeOK
<1>1. live \in Screencast
  BY DEF Screencast
<1>2. CASE Sync
  <2>1. live' \in Screencast
    BY <1>1, <1>2 DEF Sync, Screencast, Drivers
  <2>2. lock' \in {"free", "agent", "live"} /\ agent' \in {"idle", "wants", "tool", "handoff", "gone"}
    BY <1>2 DEF Sync, GiveBack
  <2>3. QED
    BY <1>2, <2>1, <2>2 DEF Sync, page, cache, past, Screencast
<1>3. CASE Forget
  <2>1. live' \in Screencast
    BY <1>1, <1>3 DEF Forget, Screencast
  <2>2. QED
    BY <1>3, <2>1 DEF Forget, page, past, Screencast
<1>4. CASE ReadHead
  <2>1. head + 1 \in 1..(MaxInputs + 1)
    BY BoundsAssumption
  <2>2. live' \in Screencast
    BY <1>1, <1>4, <2>1 DEF ReadHead, CannotRead, Screencast, Drivers
  <2>3. blind' \in BOOLEAN /\ faults' \in 0..MaxFaults
    <3>1. CASE CannotRead
      BY <3>1, FaultTyped DEF CannotRead
    <3>2. CASE blind' = FALSE /\ UNCHANGED faults
      BY <3>2
    <3>3. QED
      BY <1>4, <3>1, <3>2 DEF ReadHead
  <2>4. QED
    BY <1>4, <2>2, <2>3 DEF ReadHead, page, cache, Screencast
<1>5. CASE Replay \/ Skip
  <2>1. live.next + 1 \in 1..(MaxInputs + 1)
    BY <1>5, BoundsAssumption DEF Replay, Skip, Draining
  <2>2. live' \in Screencast
    BY <1>1, <1>5, <2>1 DEF Replay, Skip, Screencast
  <2>3. last' \in 0..MaxInputs /\ batch' \in [Inputs -> SUBSET Inputs]
    <3>1. CASE Replay
      BY <3>1, Replayed DEF Replay, Inputs
    <3>2. CASE Skip
      BY <3>2 DEF Skip, cache, past
    <3>3. QED
      BY <1>5, <3>1, <3>2
  <2>4. QED
    BY <1>5, <2>2, <2>3 DEF Replay, Skip, page, cache, past, Screencast
<1>6. CASE Publish
  <2>1. live' \in Screencast /\ state' \in Drivers \union {"none"}
    BY <1>1, <1>6 DEF Publish, Screencast
  <2>2. lost' \in BOOLEAN
    BY <1>6 DEF Publish
  <2>3. QED
    BY <1>6, <2>1, <2>2 DEF Publish, page, Screencast
<1>7. CASE Grant
  <2>1. live' \in Screencast
    BY <1>1, <1>7 DEF Grant, Screencast
  <2>2. early' \subseteq Inputs
    <3>1. \A q \in Requests : req[q].inputs \subseteq Inputs
      OBVIOUS
    <3>2. ASSUME NEW i \in Numbered PROVE i \in Inputs
      <4>1. (\E n \in Inputs : i \in batch[n]) \/ (\E q \in Requests : i \in req[q].inputs)
        BY <3>2, NumberedAre
      <4>2. QED
        BY <3>1, <4>1
    <3>3. early' = Numbered
      BY <1>7 DEF Grant
    <3>4. QED
      BY <3>2, <3>3
  <2>3. QED
    BY <1>7, <2>1, <2>2 DEF Grant, page, cache, Screencast
<1>8. CASE BreakTick
  <2>1. live' \in Screencast
    <3>1. PICK told \in Drivers \union {"nothing"} : live' = [live EXCEPT !.at = "look", !.told = told]
      BY <1>8 DEF BreakTick
    <3>2. QED
      BY <1>1, <3>1 DEF Screencast
  <2>2. faults' \in 0..MaxFaults
    BY <1>8, FaultTyped DEF BreakTick
  <2>3. QED
    BY <1>8, <2>1, <2>2 DEF BreakTick, page, cache, Screencast
<1>9. QED
  BY <1>2, <1>3, <1>4, <1>5, <1>6, <1>7, <1>8 DEF Loop

LEMMA AgentTyped ==
  ASSUME TypeOK,
         \/ StartTool \/ EndTool \/ AskForUser \/ NobodyCame
         \/ Stop \/ StopTold \/ StopCleared \/ Crash \/ Park \/ Resume
  PROVE  TypeOK'
<1> USE DEF TypeOK
<1>1. live \in Screencast
  BY DEF Screencast
<1>2. CASE StartTool \/ EndTool
  BY <1>2 DEF StartTool, EndTool, page, cache, past
<1>3. CASE AskForUser \/ NobodyCame
  BY <1>3 DEF AskForUser, NobodyCame, page, cache, past
<1>4. CASE Stop \/ Crash
  <2>1. live' \in Screencast
    BY <1>4, BlankScreencast DEF Stop, Crash, Screencast
  <2>2. faults' \in 0..MaxFaults
    BY <1>4, BoundsAssumption DEF Stop, Crash, Fault
  <2>3. QED
    BY <1>4, <2>1, <2>2 DEF Stop, Crash, page, cache, Screencast
<1>5. CASE StopTold \/ StopCleared
  <2>1. live' \in Screencast
    BY <1>1, <1>5, BlankScreencast DEF StopTold, StopCleared, Screencast
  <2>2. QED
    BY <1>5, <2>1 DEF StopTold, StopCleared, page, past, Screencast, Drivers
<1>6. CASE Park \/ Resume
  <2>1. live' \in Screencast
    BY <1>1, <1>6, BlankScreencast DEF Park, Resume
  <2>2. QED
    BY <1>6, <2>1 DEF Park, Resume, page, cache, past, Screencast
<1>7. QED
  BY <1>2, <1>3, <1>4, <1>5, <1>6

LEMMA LiveTyped == TypeOK /\ InputInv /\ [Next]_vars => TypeOK'
<1> SUFFICES ASSUME TypeOK, InputInv, [Next]_vars PROVE TypeOK'
  OBVIOUS
<1>1. CASE UNCHANGED vars
  BY <1>1 DEF TypeOK, vars, page, cache, worker, past
<1>2. CASE Next
  BY <1>2, PageTyped, ApiTyped, ClockTyped, LoopTyped, AgentTyped DEF Next
<1>3. QED
  BY <1>1, <1>2

-----------------------------------------------------------------------------
(* Every step keeps InputInv. *)

\* The request is over, or has no inputs, or goes on with what it has.
GoesOnOrEnds(q) ==
  \/ req'[q].inputs = {} /\ req'[q].n = 0 /\ req'[q].op # "input"
  \/ /\ req'[q].inputs = req[q].inputs /\ req'[q].n = req[q].n /\ req'[q].op = req[q].op
     /\ Unnumbered(q)' <=> Unnumbered(q)

\* Nothing new is made, flushed, numbered, given up or replayed.
NothingNew ==
  /\ Shape'
  /\ UNCHANGED <<made, queue, given, last, early, blind>>
  /\ expired => expired'
  /\ head' = head \/ (expired' /\ head' = 0)
  /\ \A n \in Inputs : batch'[n] \subseteq batch[n]
  /\ \A q \in Requests : GoesOnOrEnds(q)
  /\ sending' = sending \/ \A q \in Requests : ~(req'[q].op = "input" /\ Awaited(q)')
  /\ \/ live'.control \notin {"granted", "user"}
     \/ live'.control = live.control /\ live'.next >= live.next

LEMMA NotYetShrinks ==
  ASSUME TypeOK, NotYet' \subseteq NotYet
  PROVE  Cardinality(NotYet)' \in Nat /\ Cardinality(NotYet)' <= Cardinality(NotYet)
<1>1. IsFiniteSet(NotYet) /\ Cardinality(NotYet) \in Nat
  BY NotYetFinite
<1>2. PICK S : S = NotYet
  OBVIOUS
<1>3. PICK T : T = NotYet'
  OBVIOUS
<1>4. IsFiniteSet(S) /\ T \in SUBSET S
  BY <1>1, <1>2, <1>3
<1>5. IsFiniteSet(T) /\ Cardinality(T) <= Cardinality(S)
  BY <1>4, FS_Subset
<1>6. Cardinality(T) \in Nat
  BY <1>5, FS_CardinalityType
<1>7. QED
  BY <1>2, <1>3, <1>5, <1>6

LEMMA NothingNewKeeps ==
  ASSUME TypeOK, TypeOK', InputInv, NothingNew
  PROVE  InputInv'
<1>1. ASSUME NEW i \in Inputs, Flushed(i)' PROVE Flushed(i)
  BY <1>1 DEF NothingNew, Flushed, GoesOnOrEnds
<1>2. ASSUME NEW n \in Inputs, NEW i \in Inputs, Has(n, i)' PROVE Has(n, i)
  <2>1. n # 0
    BY DEF Inputs
  <2>2. QED
    BY <1>2, <2>1 DEF NothingNew, Has, GoesOnOrEnds
<1>3. ASSUME NEW i \in NotYet' PROVE i \in NotYet
  <2>1. i \in Inputs /\ (i \in queue' \/ \E q \in Requests : Unnumbered(q)' /\ i \in req'[q].inputs)
    BY <1>3 DEF NotYet
  <2>2. i \in queue \/ \E q \in Requests : Unnumbered(q) /\ i \in req[q].inputs
    BY <2>1 DEF NothingNew, GoesOnOrEnds
  <2>3. QED
    BY <2>1, <2>2 DEF NotYet
<1>4. Shape' /\ RequestsApart'
  BY DEF NothingNew, GoesOnOrEnds, InputInv, RequestsApart
<1>5. NotStored'
  <2> SUFFICES ASSUME NEW q \in Requests, NEW i \in Inputs, i \in req'[q].inputs,
                      Unnumbered(q)' \/ req'[q].at = "store"
               PROVE  i # last' /\ \A n \in Inputs : i \notin batch'[n]
    BY DEF NotStored
  <2>1. i \in req[q].inputs /\ req'[q].n = req[q].n /\ (Unnumbered(q)' <=> Unnumbered(q))
    BY DEF NothingNew, GoesOnOrEnds
  <2>2. Unnumbered(q) \/ req[q].at = "store"
    BY <2>1 DEF NothingNew, InputInv, Shape, Shaped
  <2>3. i # last /\ \A n \in Inputs : i \notin batch[n]
    BY <2>1, <2>2 DEF InputInv, NotStored
  <2>4. QED
    BY <2>3 DEF NothingNew
<1>6. ASSUME NEW q \in Requests, req'[q].op = "input", Awaited(q)'
      PROVE  /\ req[q].op = "input" /\ Awaited(q) /\ sending' = sending
             /\ req'[q].inputs = req[q].inputs
  BY <1>6 DEF NothingNew, GoesOnOrEnds, Awaited
<1>7. OneAwaited'
  BY <1>6 DEF OneAwaited, InputInv
<1>8. AwaitedIsLatest'
  BY <1>1, <1>6 DEF AwaitedIsLatest, InputInv
<1>9. QueueIsLatest' /\ Made'
  BY <1>1 DEF NothingNew, QueueIsLatest, Made, InputInv
<1>10. Numbers'
  <2>1. Cardinality(NotYet)' \in Nat /\ Cardinality(NotYet)' <= Cardinality(NotYet)
        /\ Cardinality(NotYet) \in Nat
    BY <1>3, NotYetShrinks, NotYetFinite
  <2>2. head \in Nat /\ head' \in Nat /\ head' <= head /\ made' = made /\ made \in Nat
    BY BoundsAssumption DEF NothingNew, TypeOK
  <2>3. head' + Cardinality(NotYet)' <= made'
    BY <2>1, <2>2 DEF InputInv, Numbers
  <2>4. \/ expired' \/ /\ \A n \in Inputs : batch'[n] # {} => n <= head'
                       /\ \A q \in Requests : req'[q].n <= head'
    BY <2>2 DEF NothingNew, GoesOnOrEnds, InputInv, Numbers
  <2>5. QED
    BY <2>3, <2>4 DEF Numbers
<1>11. Coming'
  <2> SUFFICES ASSUME ~expired', ~blind', live'.control = "user", NEW n \in Inputs, NEW i \in Inputs,
                      n >= live'.next, Has(n, i)'
               PROVE  /\ i \notin early' /\ (i \in given' \/ last' < i)
                      /\ \A m \in Inputs, j \in Inputs : n < m /\ Has(m, j)' => j \in given' \/ i < j
    BY DEF Coming
  <2>1. ~expired /\ ~blind /\ live.control = "user" /\ n >= live.next /\ Has(n, i)
    <3>1. ~expired /\ ~blind /\ live.control = "user" /\ live'.next >= live.next
      BY DEF NothingNew
    <3>2. n \in Int /\ live.next \in Int /\ live'.next \in Int
      BY DEF TypeOK, Inputs
    <3>3. QED
      BY <1>2, <3>1, <3>2
  <2>2. /\ i \notin early /\ (i \in given \/ last < i)
        /\ \A m \in Inputs, j \in Inputs : n < m /\ Has(m, j) => j \in given \/ i < j
    BY <2>1 DEF InputInv, Coming
  <2>3. QED
    BY <1>2, <2>2 DEF NothingNew
<1>12. NotYetEarly'
  <2>1. live'.control \in {"granted", "user"} => live'.control = live.control
    BY DEF NothingNew
  <2>2. QED
    BY <1>3, <2>1 DEF NothingNew, NotYetEarly, InputInv
<1>13. QED
  BY <1>4, <1>5, <1>7, <1>8, <1>9, <1>10, <1>11, <1>12 DEF InputInv

LEMMA SameRequests ==
  ASSUME TypeOK, InputInv, UNCHANGED <<req, given, sending>>
  PROVE  /\ Shape' /\ \A q \in Requests : GoesOnOrEnds(q)
         /\ sending' = sending
  BY DEF InputInv, Shape, Shaped, Awaited, GoesOnOrEnds, Unnumbered

\* The page's steps that bring no input further, and the passing of time.
LEMMA PageBringsNothing ==
  ASSUME TypeOK, InputInv, Poll \/ \E q \in Requests : Click(q)
  PROVE  NothingNew
<1>1. CASE Poll
  BY <1>1, SameRequests DEF Poll, cache, worker, past, NothingNew, TypeOK
<1>2. ASSUME NEW q \in Requests, Click(q) PROVE NothingNew
  <2>1. PICK op \in {"take", "release"}, at \in {"check", "apply"} : Sent(q, op, at, {})
    BY <1>2 DEF Click
  <2>2. /\ req'[q].op = op /\ req'[q].at = at /\ req'[q].inputs = {} /\ req'[q].n = 0
        /\ \A p \in Requests : p # q => req'[p] = req[p]
    BY <2>1 DEF Sent, TypeOK
  <2>3. UNCHANGED <<made, queue, given, last, early, blind, expired, head, batch, live, sending>>
    BY <1>2 DEF Click, cache, worker, past
  <2>4. \A p \in Requests : GoesOnOrEnds(p)
    BY <2>1, <2>2 DEF GoesOnOrEnds, Unnumbered
  <2>5. Shape'
    BY <2>1, <2>2, <2>3 DEF Shape, Shaped, InputInv, Awaited, NoRequest
  <2>6. QED
    BY <2>3, <2>4, <2>5 DEF NothingNew, TypeOK
<1>3. QED
  BY <1>1, <1>2

LEMMA TimeBringsNothing ==
  ASSUME TypeOK, InputInv, Quiet \/ ExpireState \/ ExpireHead \/ \E n \in Inputs : ExpireBatch(n)
  PROVE  NothingNew
<1>1. CASE Quiet
  BY <1>1, SameRequests DEF Quiet, page, worker, NothingNew, TypeOK
<1>2. CASE ExpireState
  BY <1>2, SameRequests DEF ExpireState, page, worker, NothingNew, TypeOK
<1>3. CASE ExpireHead
  BY <1>3, SameRequests DEF ExpireHead, page, worker, NothingNew, TypeOK
<1>4. ASSUME NEW n \in Inputs, ExpireBatch(n) PROVE NothingNew
  <2>1. \A m \in Inputs : batch'[m] \subseteq batch[m]
    BY <1>4 DEF ExpireBatch, TypeOK
  <2>2. QED
    BY <1>4, <2>1, SameRequests DEF ExpireBatch, page, worker, NothingNew, TypeOK
<1>5. QED
  BY <1>1, <1>2, <1>3, <1>4

\* The API's, save for Number and Store.
LEMMA ApiBringsNothing ==
  ASSUME TypeOK, InputInv, NEW q \in Requests,
         \/ CheckRunning(q) \/ RequestControl(q) \/ ReleaseControl(q)
         \/ Accept(q) \/ Refuse(q) \/ Peek(q) \/ Break(q)
  PROVE  NothingNew
<1>1. UNCHANGED <<made, queue, given, last, early, blind, expired, head, batch, live>>
  BY DEF CheckRunning, RequestControl, ReleaseControl, Accept, Refuse, Peek, Break, typed,
         cache, worker, past
<1>2. CASE Ends(q)
  <2>1. /\ req'[q] = NoRequest
        /\ \A p \in Requests : p # q => req'[p] = req[p]
    BY <1>2 DEF Ends, TypeOK
  <2>2. /\ req'[q].op = "none" /\ req'[q].at = "idle" /\ req'[q].inputs = {} /\ req'[q].n = 0
    BY <2>1 DEF NoRequest
  <2>3. \A p \in Requests : GoesOnOrEnds(p)
    BY <2>1, <2>2 DEF GoesOnOrEnds, Unnumbered
  <2>4. Shape'
    BY <1>1, <2>1, <2>2 DEF Shape, Shaped, InputInv, Awaited
  <2>5. sending' = sending \/ \A p \in Requests : ~(req'[p].op = "input" /\ Awaited(p)')
    <3>1. CASE req[q].op = "input" /\ Awaited(q)
      <4>1. \A p \in Requests : p # q => ~(req[p].op = "input" /\ Awaited(p))
        BY <3>1 DEF InputInv, OneAwaited
      <4>2. QED
        BY <1>1, <2>1, <2>2, <4>1 DEF Awaited
    <3>2. CASE ~(req[q].op = "input" /\ Awaited(q))
      <4>1. sending' = sending
        BY <1>2, <3>2, Zenon DEF Ends, TypeOK
      <4>2. QED
        BY <4>1
    <3>3. QED
      BY <3>1, <3>2
  <2>6. QED
    BY <1>1, <2>3, <2>4, <2>5 DEF NothingNew, TypeOK
<1>3. ASSUME NEW at \in {"apply", "number"}, Goes(q, at),
             \/ req[q].op = "take" /\ req[q].at = "check" /\ at = "apply"
             \/ req[q].op = "input" /\ req[q].at = "check" /\ at = "number"
             \/ req[q].at = "peek" /\ at = "apply"
      PROVE  NothingNew
  <2>1. /\ req'[q].op = req[q].op /\ req'[q].at = at /\ req'[q].inputs = req[q].inputs
        /\ req'[q].n = req[q].n
        /\ \A p \in Requests : p # q => req'[p] = req[p]
    BY <1>3 DEF Goes, TypeOK
  <2>2. req[q].at = "peek" => req[q].op = "input"
    BY DEF InputInv, Shape, Shaped
  <2>3. \A p \in Requests : GoesOnOrEnds(p)
    BY <1>3, <2>1, <2>2 DEF GoesOnOrEnds, Unnumbered
  <2>4. Shape'
    <3> SUFFICES ASSUME NEW p \in Requests PROVE Shaped(p)'
      BY DEF Shape
    <3>1. CASE p # q
      BY <1>1, <2>1, <3>1 DEF InputInv, Shape, Shaped, Awaited
    <3>2. CASE p = q
      BY <1>1, <1>3, <2>1, <2>2, <3>2 DEF InputInv, Shape, Shaped, Awaited
    <3>3. QED
      BY <3>1, <3>2
  <2>5. QED
    BY <1>1, <1>3, <2>3, <2>4 DEF NothingNew, TypeOK, Goes
<1>4. CASE CheckRunning(q)
  BY <1>2, <1>3, <1>4 DEF CheckRunning
<1>5. CASE RequestControl(q) \/ ReleaseControl(q) \/ Refuse(q) \/ Break(q)
  BY <1>2, <1>5 DEF RequestControl, ReleaseControl, Refuse, Break
<1>6. CASE Accept(q)
  BY <1>3, <1>6 DEF Accept
<1>7. CASE Peek(q)
  BY <1>2, <1>3, <1>7 DEF Peek
<1>8. QED
  BY <1>4, <1>5, <1>6, <1>7

\* The worker's, save for ReadHead, Replay and Grant.
LEMMA WorkerBringsNothing ==
  ASSUME TypeOK, InputInv,
         \/ Sync \/ Forget \/ Skip \/ Publish \/ BreakTick
         \/ StartTool \/ EndTool \/ AskForUser \/ NobodyCame
         \/ Stop \/ StopTold \/ StopCleared \/ Crash \/ Park \/ Resume
  PROVE  NothingNew
<1>1. UNCHANGED <<made, queue, given, last, early, blind, expired, head, batch, req, sending>>
  BY DEF Sync, Forget, Skip, Publish, BreakTick, StartTool, EndTool, AskForUser, NobodyCame, Stop,
         StopTold, StopCleared, Crash, Park, Resume, page, cache, past
<1>2. \/ live'.control \notin {"granted", "user"}
      \/ live'.control = live.control /\ live'.next >= live.next
  <2> live \in Screencast /\ live.next \in Int
    BY DEF TypeOK, Screencast
  <2>1. CASE Sync
    <3>1. live'.next = live.next /\ (live'.control = live.control \/ live'.control \in {"agent", "waiting"})
      BY <2>1 DEF Sync, Screencast
    <3>2. QED
      BY <3>1
  <2>2. CASE Forget \/ Skip \/ Publish \/ BreakTick
    <3>1. live'.control = live.control /\ live'.next \in {live.next, live.next + 1}
      BY <2>2 DEF Forget, Skip, Publish, BreakTick, Screencast
    <3>2. QED
      BY <3>1
  <2>3. CASE StartTool \/ EndTool \/ AskForUser \/ NobodyCame \/ Park
    BY <2>3 DEF StartTool, EndTool, AskForUser, NobodyCame, Park, TypeOK
  <2>4. CASE Stop \/ StopTold \/ StopCleared \/ Crash \/ Resume
    BY <2>4 DEF Stop, StopTold, StopCleared, Crash, Resume, NewLive, Off, TypeOK
  <2>5. QED
    BY <2>1, <2>2, <2>3, <2>4
<1>3. QED
  BY <1>1, <1>2, SameRequests DEF NothingNew

\* What only depends on the requests and what is given up.
LEMMA SameRequestsKeep ==
  ASSUME InputInv, UNCHANGED <<req, given, sending>>
  PROVE  Shape' /\ RequestsApart' /\ OneAwaited'
  BY DEF InputInv, Shape, Shaped, RequestsApart, OneAwaited, Awaited

LEMMA MakeKeeps ==
  ASSUME TypeOK, TypeOK', InputInv, Make
  PROVE  InputInv'
<1>1. UNCHANGED <<req, given, sending, batch, last, early, blind, head, live, expired>>
  BY DEF Make, cache, worker, past
<1>2. made' = made + 1 /\ queue' = queue \union {made'} /\ made \in Nat /\ made' \in Inputs
  BY BoundsAssumption DEF Make, TypeOK, Inputs
<1>3. ASSUME NEW i \in Inputs, Flushed(i)' PROVE Flushed(i)
  BY <1>1, <1>3 DEF Flushed
<1>4. Shape' /\ RequestsApart' /\ OneAwaited'
  BY <1>1, SameRequestsKeep
<1>5. NotStored' /\ AwaitedIsLatest' /\ Coming'
  BY <1>1 DEF NotStored, AwaitedIsLatest, Coming, Has, Flushed, Unnumbered, Awaited, InputInv
<1>6. Made'
  <2>1. \A i \in Inputs : Flushed(i)' => i <= made'
    BY <1>2, <1>3 DEF InputInv, Made, Inputs
  <2>2. /\ queue' \subseteq 1..made' /\ given' \subseteq 1..made' /\ early' \subseteq 1..made'
        /\ last' \in 0..made'
    BY <1>1, <1>2 DEF InputInv, Made
  <2>3. QED
    BY <2>1, <2>2 DEF Made
<1>7. QueueIsLatest'
  <2> SUFFICES ASSUME NEW i \in queue', NEW j \in Inputs, Flushed(j)' \/ j \in given'
               PROVE  j < i
    BY DEF QueueIsLatest
  <2>1. Flushed(j) \/ j \in given
    BY <1>1, <1>3
  <2>2. CASE i \in queue
    BY <2>1, <2>2 DEF InputInv, QueueIsLatest
  <2>3. CASE i = made'
    <3>1. j <= made /\ j \in Int
      BY <2>1 DEF InputInv, Made, Inputs
    <3>2. QED
      BY <1>2, <2>3, <3>1
  <2>4. QED
    BY <1>2, <2>2, <2>3
<1>8. NotYet' = NotYet \union {made'}
  BY <1>1, <1>2 DEF NotYet, Unnumbered
<1>9. Numbers'
  <2>1. PICK S : S = NotYet
    OBVIOUS
  <2>2. PICK x : x = made'
    OBVIOUS
  <2>3. IsFiniteSet(S) /\ Cardinality(S) \in Nat
    BY <2>1, NotYetFinite
  <2>4. Cardinality(S \union {x}) <= Cardinality(S) + 1
    <3>1. Cardinality(S \union {x}) = IF x \in S THEN Cardinality(S) ELSE Cardinality(S) + 1
      BY <2>3, FS_AddElement
    <3>2. QED
      BY <2>3, <3>1
  <2>5. Cardinality(NotYet)' <= Cardinality(NotYet) + 1
    BY <1>8, <2>1, <2>2, <2>4
  <2>6. Cardinality(NotYet)' \in Nat
    <3>1. IsFiniteSet(S \union {x})
      BY <2>3, FS_AddElement
    <3>2. Cardinality(S \union {x}) \in Nat
      BY <3>1, FS_CardinalityType
    <3>3. QED
      BY <1>8, <2>1, <2>2, <3>2
  <2>7. head + Cardinality(NotYet) <= made /\ head \in Nat /\ Cardinality(NotYet) \in Nat
    BY <2>1, <2>3 DEF InputInv, Numbers, TypeOK
  <2>8. head' + Cardinality(NotYet)' <= made'
    BY <1>1, <1>2, <2>5, <2>6, <2>7
  <2>9. QED
    BY <1>1, <2>8 DEF InputInv, Numbers
<1>10. NotYetEarly'
  <2>1. made' \notin early
    BY <1>2 DEF InputInv, Made
  <2>2. QED
    BY <1>1, <1>8, <2>1 DEF InputInv, NotYetEarly
<1>11. QED
  BY <1>4, <1>5, <1>6, <1>7, <1>9, <1>10 DEF InputInv

\* A new batch is apart from all others, and later.
LEMMA FlushKeeps ==
  ASSUME TypeOK, TypeOK', InputInv, NEW q \in Requests, Flush(q)
  PROVE  InputInv'
<1>1. UNCHANGED <<made, given, batch, last, early, blind, head, live, expired>>
  BY DEF Flush, cache, worker, past
<1>2. ~sending /\ sending' /\ queue' = {} /\ queue # {} /\ queue \subseteq Inputs
  BY DEF Flush, TypeOK
<1>3. /\ req[q] = NoRequest
      /\ req'[q].op = "input" /\ req'[q].at = "check" /\ req'[q].inputs = queue /\ req'[q].n = 0
      /\ \A p \in Requests : p # q => req'[p] = req[p]
  BY DEF Flush, Sent, TypeOK
<1>4. ASSUME NEW i \in queue PROVE ~Flushed(i) /\ i \notin given /\ i \in Inputs
  <2>1. i \in Inputs /\ ~(i < i)
    BY <1>2 DEF Inputs
  <2>2. QED
    BY <2>1 DEF InputInv, QueueIsLatest
<1>5. ASSUME NEW i \in Inputs, Flushed(i)' PROVE Flushed(i) \/ i \in queue
  BY <1>1, <1>3, <1>5 DEF Flushed
<1>6. \A p \in Requests : req[p].op = "input" => ~Awaited(p)
  BY <1>2 DEF InputInv, OneAwaited
<1>7. Awaited(q)'
  BY <1>1, <1>3, <1>4 DEF Awaited
<1>8. ASSUME NEW p \in Requests, p # q PROVE Awaited(p)' <=> Awaited(p)
  BY <1>1, <1>3, <1>8 DEF Awaited
<1>9. Shape'
  <2> SUFFICES ASSUME NEW p \in Requests PROVE Shaped(p)'
    BY DEF Shape
  <2>1. CASE p = q
    BY <1>2, <1>3, <1>7, <2>1 DEF Shaped
  <2>2. CASE p # q
    BY <1>1, <1>3, <1>8, <2>2 DEF InputInv, Shape, Shaped
  <2>3. QED
    BY <2>1, <2>2
<1>10. RequestsApart'
  BY <1>3, <1>4 DEF InputInv, RequestsApart, Flushed
<1>11. NotStored'
  BY <1>1, <1>3, <1>4 DEF InputInv, NotStored, Flushed, Unnumbered
<1>12. OneAwaited'
  BY <1>2, <1>3, <1>6, <1>8 DEF OneAwaited
<1>13. AwaitedIsLatest'
  <2> SUFFICES ASSUME NEW p \in Requests, NEW i \in Inputs, NEW j \in Inputs,
                      req'[p].op = "input", Awaited(p)',
                      i \in req'[p].inputs, j \notin req'[p].inputs, Flushed(j)'
               PROVE  j < i
    BY DEF AwaitedIsLatest
  <2>1. p = q
    BY <1>3, <1>6, <1>8
  <2>2. i \in queue /\ Flushed(j)
    BY <1>3, <1>5, <2>1
  <2>3. QED
    BY <2>2 DEF InputInv, QueueIsLatest
<1>14. QueueIsLatest'
  BY <1>2 DEF QueueIsLatest
<1>15. Made'
  <2>1. \A i \in queue : i <= made
    BY DEF InputInv, Made
  <2>2. \A i \in Inputs : Flushed(i)' => i <= made
    BY <1>5, <2>1 DEF InputInv, Made
  <2>3. QED
    BY <1>1, <1>2, <2>2 DEF InputInv, Made
<1>16. NotYet' \subseteq NotYet
  BY <1>2, <1>3 DEF NotYet, Unnumbered
<1>17. Numbers'
  <2>1. Cardinality(NotYet)' \in Nat /\ Cardinality(NotYet)' <= Cardinality(NotYet)
        /\ Cardinality(NotYet) \in Nat
    BY <1>16, NotYetShrinks, NotYetFinite
  <2>2. head' + Cardinality(NotYet)' <= made'
    BY <1>1, <2>1 DEF InputInv, Numbers, TypeOK
  <2>3. \/ expired' \/ /\ \A n \in Inputs : batch'[n] # {} => n <= head'
                       /\ \A p \in Requests : req'[p].n <= head'
    BY <1>1, <1>3 DEF InputInv, Numbers, TypeOK
  <2>4. QED
    BY <2>2, <2>3 DEF Numbers
<1>18. \A n \in Inputs, i \in Inputs : Has(n, i)' => Has(n, i)
  BY <1>1, <1>3 DEF Has, Inputs
<1>19. Coming'
  BY <1>1, <1>18 DEF InputInv, Coming
<1>20. NotYetEarly'
  BY <1>1, <1>16 DEF InputInv, NotYetEarly
<1>21. QED
  BY <1>9, <1>10, <1>11, <1>12, <1>13, <1>14, <1>15, <1>17, <1>19, <1>20 DEF InputInv

\* After the page has stopped waiting for a batch it waits for none.
LEMMA GiveUpKeeps ==
  ASSUME TypeOK, TypeOK', InputInv, NEW q \in Requests, GiveUp(q)
  PROVE  InputInv'
<1>1. UNCHANGED <<req, made, queue, batch, last, early, blind, head, live, expired>>
  BY DEF GiveUp, cache, worker
<1>2. req[q].op = "input" /\ Awaited(q) /\ given' = given \union req[q].inputs /\ ~sending'
  BY DEF GiveUp
<1>3. ASSUME NEW p \in Requests, p # q PROVE Awaited(p)' <=> Awaited(p)
  BY <1>1, <1>2, <1>3 DEF Awaited, InputInv, RequestsApart
<1>4. ASSUME NEW p \in Requests, req'[p].op = "input" PROVE ~Awaited(p)'
  <2>1. CASE p = q
    BY <1>1, <1>2, <2>1 DEF Awaited, InputInv, Shape, Shaped
  <2>2. CASE p # q
    BY <1>1, <1>2, <1>3, <1>4, <2>2 DEF InputInv, OneAwaited
  <2>3. QED
    BY <2>1, <2>2
<1>5. \A i \in req[q].inputs : i \in Inputs /\ Flushed(i)
  BY DEF Flushed, TypeOK
<1>6. Shape'
  BY <1>1, <1>2, <1>3 DEF InputInv, Shape, Shaped
<1>7. RequestsApart' /\ NotStored' /\ NotYetEarly'
  BY <1>1 DEF InputInv, RequestsApart, NotStored, NotYetEarly, NotYet, Unnumbered
<1>8. OneAwaited' /\ AwaitedIsLatest'
  BY <1>4 DEF OneAwaited, AwaitedIsLatest
<1>9. QueueIsLatest'
  BY <1>1, <1>2, <1>5 DEF InputInv, QueueIsLatest, Flushed
<1>10. Made'
  <2>1. \A i \in req[q].inputs : i \in 1..made
    <3>1. \A i \in req[q].inputs : i \in Inputs /\ i <= made
      BY <1>5 DEF InputInv, Made
    <3>2. QED
      BY <3>1 DEF Inputs, TypeOK
  <2>2. given' \subseteq 1..made
    BY <1>2, <2>1 DEF InputInv, Made
  <2>3. QED
    BY <1>1, <2>2 DEF InputInv, Made, Flushed
<1>11. Numbers'
  <2>1. NotYet' = NotYet
    BY <1>1 DEF NotYet, Unnumbered
  <2>2. QED
    BY <1>1, <2>1 DEF InputInv, Numbers
<1>12. Coming'
  BY <1>1, <1>2 DEF InputInv, Coming, Has
<1>13. QED
  BY <1>6, <1>7, <1>8, <1>9, <1>10, <1>11, <1>12 DEF InputInv

\* A number later than all others, for a batch later than all others that are waited for.
LEMMA NumberKeeps ==
  ASSUME TypeOK, TypeOK', InputInv, NEW q \in Requests, Number(q)
  PROVE  InputInv'
<1>1. UNCHANGED <<made, queue, given, sending, batch, last, early, blind, live, expired>>
  BY DEF Number, page, worker, past
<1>2. /\ req[q].op = "input" /\ req[q].at = "number" /\ req[q].n = 0 /\ req[q].inputs # {}
      /\ req[q].inputs \subseteq Inputs /\ Unnumbered(q)
  BY DEF Number, InputInv, Shape, Shaped, TypeOK, Unnumbered
<1>3. head' = head + 1 /\ head \in Nat /\ head' \in Inputs
  <2>1. head + 1 \in Inputs
    BY NumberInBounds
  <2>2. QED
    BY <2>1 DEF Number, TypeOK
<1>4. /\ req'[q].op = "input" /\ req'[q].at = "store" /\ req'[q].n = head'
      /\ req'[q].inputs = req[q].inputs
      /\ \A p \in Requests : p # q => req'[p] = req[p]
  BY <1>2 DEF Number, TypeOK
<1>5. ASSUME NEW p \in Requests
      PROVE  /\ req'[p].op = req[p].op /\ req'[p].inputs = req[p].inputs
             /\ Awaited(p)' <=> Awaited(p)
  BY <1>1, <1>2, <1>4 DEF Awaited
<1>6. ASSUME NEW i \in Inputs PROVE Flushed(i)' <=> Flushed(i)
  BY <1>1, <1>5 DEF Flushed
<1>7. Shape'
  <2> SUFFICES ASSUME NEW p \in Requests PROVE Shaped(p)'
    BY DEF Shape
  <2>1. Awaited(p)' \/ req'[p].inputs \subseteq given'
    BY <1>1, <1>5 DEF InputInv, Shape, Shaped
  <2>2. CASE p = q
    BY <1>2, <1>3, <1>4, <2>1, <2>2 DEF Inputs, Shaped
  <2>3. CASE p # q
    BY <1>4, <2>1, <2>3 DEF InputInv, Shape, Shaped
  <2>4. QED
    BY <2>2, <2>3
<1>8. RequestsApart' /\ OneAwaited' /\ AwaitedIsLatest' /\ QueueIsLatest' /\ Made'
  <2>1. RequestsApart' /\ OneAwaited'
    BY <1>1, <1>5 DEF InputInv, RequestsApart, OneAwaited
  <2>2. AwaitedIsLatest'
    BY <1>5, <1>6 DEF InputInv, AwaitedIsLatest
  <2>3. QueueIsLatest' /\ Made'
    BY <1>1, <1>6 DEF InputInv, QueueIsLatest, Made
  <2>4. QED
    BY <2>1, <2>2, <2>3
<1>9. NotStored'
  <2>1. ASSUME NEW p \in Requests, Unnumbered(p)' \/ req'[p].at = "store"
        PROVE  Unnumbered(p) \/ req[p].at = "store"
    BY <1>2, <1>4, <2>1 DEF Unnumbered
  <2>2. QED
    BY <1>1, <1>5, <2>1 DEF InputInv, NotStored
<1>10. \A i \in req[q].inputs : i \in NotYet /\ i \notin NotYet'
  <2> SUFFICES ASSUME NEW i \in req[q].inputs PROVE i \in NotYet /\ i \notin NotYet'
    OBVIOUS
  <2>1. i \in Inputs /\ Flushed(i) /\ ~(i < i)
    BY <1>2 DEF Flushed, Inputs
  <2>2. i \notin queue
    BY <2>1 DEF InputInv, QueueIsLatest
  <2>3. \A p \in Requests : Unnumbered(p)' => i \notin req'[p].inputs
    BY <1>4 DEF InputInv, RequestsApart, Unnumbered
  <2>4. QED
    BY <1>1, <1>2, <2>1, <2>2, <2>3 DEF NotYet
<1>11. NotYet' \subseteq NotYet
  <2>1. \A p \in Requests : Unnumbered(p)' => Unnumbered(p) /\ req'[p].inputs = req[p].inputs
    BY <1>4 DEF Unnumbered
  <2>2. QED
    BY <1>1, <2>1 DEF NotYet
<1>12. head' + Cardinality(NotYet)' <= made'
  <2>1. PICK S : S = NotYet
    OBVIOUS
  <2>2. PICK T : T = NotYet'
    OBVIOUS
  <2>3. PICK i \in req[q].inputs : TRUE
    BY <1>2
  <2>4. IsFiniteSet(S) /\ Cardinality(S) \in Nat
    BY <2>1, NotYetFinite
  <2>5. T \in SUBSET S /\ T # S
    BY <1>10, <1>11, <2>1, <2>2
  <2>6. IsFiniteSet(T) /\ Cardinality(T) <= Cardinality(S) /\ (Cardinality(S) = Cardinality(T) => S = T)
    BY <2>4, <2>5, FS_Subset
  <2>7. Cardinality(T) \in Nat
    BY <2>6, FS_CardinalityType
  <2>8. Cardinality(T) + 1 <= Cardinality(S)
    BY <2>4, <2>5, <2>6, <2>7
  <2>9. head + Cardinality(S) <= made /\ made \in Nat
    BY <2>1 DEF InputInv, Numbers, TypeOK
  <2>10. head' + Cardinality(T) <= made
    BY <1>3, <2>4, <2>7, <2>8, <2>9
  <2>11. QED
    BY <1>1, <2>2, <2>10
<1>13. ASSUME ~expired
       PROVE  /\ \A n \in Inputs : batch[n] # {} => n <= head
              /\ \A p \in Requests : req[p].n <= head
  BY <1>13 DEF InputInv, Numbers
<1>14. Numbers'
  <2>1. ASSUME ~expired'
        PROVE  /\ \A n \in Inputs : batch'[n] # {} => n <= head'
               /\ \A p \in Requests : req'[p].n <= head'
    <3>1. \A n \in Inputs : batch'[n] # {} => n <= head'
      BY <1>1, <1>3, <1>13, <2>1 DEF Inputs
    <3>2. \A p \in Requests : req[p].n \in Int
      BY DEF TypeOK
    <3>3. ASSUME NEW p \in Requests PROVE req'[p].n <= head'
      <4>1. CASE p = q
        BY <1>3, <1>4, <4>1
      <4>2. CASE p # q
        BY <1>1, <1>3, <1>4, <1>13, <2>1, <3>2, <4>2
      <4>3. QED
        BY <4>1, <4>2
    <3>4. QED
      BY <3>1, <3>3
  <2>2. QED
    BY <1>12, <2>1 DEF Numbers
<1>15. ASSUME NEW n \in Inputs, NEW i \in Inputs, Has(n, i)'
       PROVE  Has(n, i) \/ (n = head' /\ i \in req[q].inputs)
  BY <1>1, <1>4, <1>15 DEF Has
<1>16. ASSUME ~expired, NEW n \in Inputs, NEW i \in Inputs, Has(n, i)
       PROVE  n <= head
  BY <1>13, <1>16 DEF Has
<1>17. ASSUME NEW n \in Inputs, NEW i \in Inputs, Has(n, i), NEW j \in req[q].inputs
       PROVE  j \in given \/ i < j
  <2>1. i \notin req[q].inputs
    <3>1. CASE i \in batch[n]
      BY <1>2, <3>1 DEF InputInv, NotStored
    <3>2. CASE \E p \in Requests : req[p].n = n /\ i \in req[p].inputs
      BY <1>2, <3>2 DEF InputInv, RequestsApart, Inputs
    <3>3. QED
      BY <1>17, <3>1, <3>2 DEF Has
  <2>2. Flushed(i) /\ j \in Inputs
    BY <1>2, <1>17 DEF Has, Flushed
  <2>3. CASE Awaited(q)
    BY <1>2, <2>1, <2>2, <2>3 DEF InputInv, AwaitedIsLatest
  <2>4. CASE ~Awaited(q)
    BY <2>4 DEF InputInv, Shape, Shaped
  <2>5. QED
    BY <2>3, <2>4
<1>18. Coming'
  <2> SUFFICES ASSUME ~expired', ~blind', live'.control = "user", NEW n \in Inputs, NEW i \in Inputs,
                      n >= live'.next, Has(n, i)'
               PROVE  /\ i \notin early' /\ (i \in given' \/ last' < i)
                      /\ \A m \in Inputs, j \in Inputs : n < m /\ Has(m, j)' => j \in given' \/ i < j
    BY DEF Coming
  <2>1. ~expired /\ ~blind /\ live.control = "user" /\ n >= live.next
    BY <1>1
  <2>2. CASE Has(n, i)
    <3>1. /\ i \notin early /\ (i \in given \/ last < i)
          /\ \A m \in Inputs, j \in Inputs : n < m /\ Has(m, j) => j \in given \/ i < j
      BY <2>1, <2>2 DEF InputInv, Coming
    <3>2. ASSUME NEW m \in Inputs, NEW j \in Inputs, n < m, Has(m, j)' PROVE j \in given \/ i < j
      BY <1>15, <1>17, <2>2, <3>1, <3>2
    <3>3. QED
      BY <1>1, <3>1, <3>2
  <2>3. CASE n = head' /\ i \in req[q].inputs
    <3>1. i \notin early
      BY <1>10, <2>1, <2>3 DEF InputInv, NotYetEarly
    <3>2. i \in given \/ last < i
      <4>1. last # i
        BY <1>2, <2>3 DEF InputInv, NotStored
      <4>2. last \notin req[q].inputs
        BY <1>2 DEF InputInv, NotStored
      <4>3. CASE Awaited(q) /\ last \in Inputs
        BY <1>2, <2>3, <4>2, <4>3 DEF InputInv, AwaitedIsLatest, Flushed
      <4>4. CASE last \notin Inputs
        BY <4>4 DEF TypeOK, Inputs
      <4>5. CASE ~Awaited(q)
        BY <2>3, <4>5 DEF InputInv, Shape, Shaped
      <4>6. QED
        BY <4>3, <4>4, <4>5
    <3>3. \A m \in Inputs, j \in Inputs : ~(n < m /\ Has(m, j)')
      <4>1. ASSUME NEW m \in Inputs, NEW j \in Inputs, Has(m, j)' PROVE m <= head'
        <5>1. m <= head \/ m = head'
          BY <1>15, <1>16, <2>1, <4>1
        <5>2. QED
          BY <1>3, <5>1 DEF Inputs
      <4>2. QED
        BY <1>3, <2>3, <4>1 DEF Inputs
    <3>4. QED
      BY <1>1, <3>1, <3>2, <3>3
  <2>4. QED
    BY <1>15, <2>2, <2>3
<1>19. NotYetEarly'
  BY <1>1, <1>11 DEF InputInv, NotYetEarly
<1>20. QED
  BY <1>7, <1>8, <1>9, <1>14, <1>18, <1>19 DEF InputInv

\* A batch is stored under the number it has.
LEMMA StoreKeeps ==
  ASSUME TypeOK, TypeOK', InputInv, NEW q \in Requests, Store(q)
  PROVE  InputInv'
<1>1. UNCHANGED <<made, queue, given, sending, head, last, early, blind, live, expired>>
  BY DEF Store, page, worker, past
<1>2. PICK k \in Nat : k = req[q].n
  BY DEF TypeOK
<1>3. req[q].op = "input" /\ req[q].at = "store" /\ k \in Inputs /\ req[q].inputs # {}
  BY <1>2 DEF Store, InputInv, Shape, Shaped, TypeOK, Inputs
<1>4. /\ req'[q].op = "input" /\ req'[q].at = "peek" /\ req'[q].n = 0
      /\ req'[q].inputs = req[q].inputs
      /\ \A p \in Requests : p # q => req'[p] = req[p]
  BY <1>3 DEF Store, TypeOK
<1>5. batch'[k] = req[q].inputs /\ \A n \in Inputs : n # k => batch'[n] = batch[n]
  BY <1>2, <1>3 DEF Store, TypeOK
<1>6. ASSUME NEW p \in Requests
      PROVE  /\ req'[p].op = req[p].op /\ req'[p].inputs = req[p].inputs
             /\ Awaited(p)' <=> Awaited(p)
             /\ Unnumbered(p)' <=> Unnumbered(p)
  BY <1>1, <1>3, <1>4 DEF Awaited, Unnumbered
<1>7. ASSUME NEW i \in Inputs, Flushed(i)' PROVE Flushed(i)
  BY <1>1, <1>5, <1>6, <1>7 DEF Flushed
<1>8. ASSUME NEW n \in Inputs, NEW i \in Inputs, Has(n, i)' PROVE Has(n, i)
  BY <1>2, <1>3, <1>4, <1>5, <1>8 DEF Has, Inputs
<1>9. Shape'
  <2> SUFFICES ASSUME NEW p \in Requests PROVE Shaped(p)'
    BY DEF Shape
  <2>1. Awaited(p)' \/ req'[p].inputs \subseteq given'
    BY <1>1, <1>6 DEF InputInv, Shape, Shaped
  <2>2. CASE p = q
    BY <1>3, <1>4, <2>1, <2>2 DEF Shaped
  <2>3. CASE p # q
    BY <1>4, <2>1, <2>3 DEF InputInv, Shape, Shaped
  <2>4. QED
    BY <2>2, <2>3
<1>10. RequestsApart' /\ OneAwaited'
  BY <1>1, <1>6 DEF InputInv, RequestsApart, OneAwaited
<1>11. AwaitedIsLatest'
  BY <1>6, <1>7 DEF InputInv, AwaitedIsLatest
<1>12. QueueIsLatest' /\ Made'
  BY <1>1, <1>7 DEF InputInv, QueueIsLatest, Made
<1>13. NotStored'
  <2> SUFFICES ASSUME NEW p \in Requests, NEW i \in Inputs, i \in req'[p].inputs,
                      Unnumbered(p)' \/ req'[p].at = "store"
               PROVE  i # last' /\ \A n \in Inputs : i \notin batch'[n]
    BY DEF NotStored
  <2>1. p # q /\ i \in req[p].inputs /\ (Unnumbered(p) \/ req[p].at = "store")
    BY <1>4, <1>6 DEF Unnumbered
  <2>2. i # last /\ i \notin req[q].inputs /\ \A n \in Inputs : i \notin batch[n]
    BY <2>1 DEF InputInv, NotStored, RequestsApart
  <2>3. QED
    BY <1>1, <1>5, <2>2
<1>14. NotYet' = NotYet
  BY <1>1, <1>6 DEF NotYet
<1>15. Numbers'
  <2>1. ASSUME ~expired'
        PROVE  /\ \A n \in Inputs : batch'[n] # {} => n <= head'
               /\ \A p \in Requests : req'[p].n <= head'
    <3>1. /\ \A n \in Inputs : batch[n] # {} => n <= head
          /\ \A p \in Requests : req[p].n <= head
      BY <1>1, <2>1 DEF InputInv, Numbers
    <3>2. \A n \in Inputs : batch'[n] # {} => n <= head'
      BY <1>1, <1>2, <1>5, <3>1
    <3>3. 0 <= head
      BY DEF TypeOK
    <3>4. QED
      BY <1>1, <1>4, <3>1, <3>2, <3>3
  <2>2. QED
    BY <1>1, <1>14, <2>1 DEF InputInv, Numbers
<1>16. Coming' /\ NotYetEarly'
  BY <1>1, <1>8, <1>14 DEF InputInv, Coming, NotYetEarly
<1>17. QED
  BY <1>9, <1>10, <1>11, <1>12, <1>13, <1>15, <1>16 DEF InputInv

\* What is given to the browser comes before all that comes after.
LEMMA ReplayKeeps ==
  ASSUME TypeOK, TypeOK', InputInv, Replay
  PROVE  InputInv'
<1>1. UNCHANGED <<req, made, queue, given, sending, head, early, blind, expired>>
  BY DEF Replay, page
<1>2. PICK k \in Inputs : k = live.next
  BY Replayed
<1>3. last' \in batch[k] /\ last' \in Inputs /\ \A i \in batch[k] : i <= last'
  BY <1>2, Replayed DEF TypeOK
<1>4. batch'[k] = {} /\ \A n \in Inputs : n # k => batch'[n] = batch[n]
  BY <1>2 DEF Replay, TypeOK
<1>5. live'.control = "user" /\ live.control = "user" /\ live'.next = k + 1
  BY <1>2 DEF Replay, Draining, TypeOK
<1>6. ASSUME NEW i \in Inputs, Flushed(i)' PROVE Flushed(i)
  BY <1>1, <1>3, <1>4, <1>6 DEF Flushed
<1>7. ASSUME NEW n \in Inputs, NEW i \in Inputs, Has(n, i)' PROVE Has(n, i)
  BY <1>1, <1>4, <1>7 DEF Has
<1>8. Shape' /\ RequestsApart' /\ OneAwaited'
  BY <1>1, SameRequestsKeep
<1>9. NotStored'
  <2> SUFFICES ASSUME NEW q \in Requests, NEW i \in Inputs, i \in req[q].inputs,
                      Unnumbered(q) \/ req[q].at = "store"
               PROVE  i # last' /\ \A n \in Inputs : i \notin batch'[n]
    BY <1>1 DEF NotStored, Unnumbered
  <2>1. \A n \in Inputs : i \notin batch[n]
    BY DEF InputInv, NotStored
  <2>2. QED
    BY <1>3, <1>4, <2>1
<1>10. AwaitedIsLatest'
  BY <1>1, <1>6 DEF InputInv, AwaitedIsLatest, Awaited
<1>11. QueueIsLatest'
  BY <1>1, <1>6 DEF InputInv, QueueIsLatest
<1>12. Made'
  <2>1. Flushed(last')
    BY <1>3 DEF Flushed
  <2>2. last' \in 0..made
    BY <1>3, <2>1 DEF InputInv, Made, TypeOK, Inputs
  <2>3. QED
    BY <1>1, <1>6, <2>2 DEF InputInv, Made
<1>13. NotYet' = NotYet
  BY <1>1 DEF NotYet, Unnumbered
<1>14. Numbers'
  BY <1>1, <1>4, <1>13 DEF InputInv, Numbers
<1>15. Coming'
  <2> SUFFICES ASSUME ~expired', ~blind', NEW n \in Inputs, NEW i \in Inputs,
                      n >= live'.next, Has(n, i)'
               PROVE  /\ i \notin early' /\ (i \in given' \/ last' < i)
                      /\ \A m \in Inputs, j \in Inputs : n < m /\ Has(m, j)' => j \in given' \/ i < j
    BY DEF Coming
  <2>1. ~expired /\ ~blind /\ k < n /\ k >= live.next /\ n >= live.next /\ Has(n, i)
    BY <1>1, <1>2, <1>5, <1>7 DEF Inputs
  <2>2. /\ i \notin early
        /\ \A m \in Inputs, j \in Inputs : n < m /\ Has(m, j) => j \in given \/ i < j
    BY <1>5, <2>1 DEF InputInv, Coming
  <2>3. Has(k, last')
    BY <1>3 DEF Has
  <2>4. i \in given \/ last' < i
    BY <1>3, <1>5, <2>1, <2>3 DEF InputInv, Coming
  <2>5. QED
    BY <1>1, <1>7, <2>2, <2>4
<1>16. NotYetEarly'
  BY <1>1, <1>5, <1>13 DEF InputInv, NotYetEarly
<1>17. QED
  BY <1>8, <1>9, <1>10, <1>11, <1>12, <1>14, <1>15, <1>16 DEF InputInv

\* The viewer's turn begins after all numbers there are ...
LEMMA ReadHeadKeeps ==
  ASSUME TypeOK, TypeOK', InputInv, ReadHead
  PROVE  InputInv'
<1>1. UNCHANGED <<req, made, queue, given, sending, head, batch, last, early, expired>>
  BY DEF ReadHead, page, cache, past
<1>2. /\ live.control = "granted" /\ live'.control = "user"
      /\ live'.next = head + 1 \/ blind'
  BY DEF ReadHead, CannotRead, TypeOK
<1>3. Shape' /\ RequestsApart' /\ OneAwaited'
  BY <1>1, SameRequestsKeep
<1>4. NotStored' /\ AwaitedIsLatest' /\ QueueIsLatest' /\ Made'
  BY <1>1 DEF InputInv, NotStored, AwaitedIsLatest, QueueIsLatest, Made, Flushed, Unnumbered,
              Awaited
<1>5. NotYet' = NotYet
  BY <1>1 DEF NotYet, Unnumbered
<1>6. Numbers' /\ NotYetEarly'
  BY <1>1, <1>2, <1>5 DEF InputInv, Numbers, NotYetEarly
<1>7. Coming'
  <2> SUFFICES ASSUME ~expired', ~blind', NEW n \in Inputs, NEW i \in Inputs, n >= head + 1,
                      Has(n, i)'
               PROVE  FALSE
    BY <1>2 DEF Coming
  <2>1. Has(n, i) /\ ~expired
    BY <1>1 DEF Has
  <2>2. n <= head
    BY <2>1 DEF InputInv, Numbers, Has
  <2>3. QED
    BY <2>2 DEF TypeOK, Inputs
<1>8. QED
  BY <1>3, <1>4, <1>6, <1>7 DEF InputInv

\* ... and an input without a number is not one of those that had one when control was
\* granted.
LEMMA GrantKeeps ==
  ASSUME TypeOK, TypeOK', InputInv, Grant
  PROVE  InputInv'
<1>1. UNCHANGED <<req, made, queue, given, sending, head, batch, last, expired>>
  BY DEF Grant, page, cache
<1>2. live'.control = "granted" /\ early' = Numbered
  BY DEF Grant, TypeOK
<1>3. Shape' /\ RequestsApart' /\ OneAwaited'
  BY <1>1, SameRequestsKeep
<1>4. NotStored' /\ AwaitedIsLatest' /\ QueueIsLatest'
  BY <1>1 DEF InputInv, NotStored, AwaitedIsLatest, QueueIsLatest, Flushed, Unnumbered, Awaited
<1>5. ASSUME NEW i \in Numbered
      PROVE  /\ i \in Inputs /\ Flushed(i)
             /\ \A q \in Requests : Unnumbered(q) => i \notin req[q].inputs
  <2>1. CASE \E n \in Inputs : i \in batch[n]
    <3>1. i \in Inputs /\ Flushed(i)
      BY <2>1 DEF TypeOK, Flushed
    <3>2. QED
      BY <2>1, <3>1 DEF InputInv, NotStored
  <2>2. CASE \E q \in Requests : req[q].n # 0 /\ i \in req[q].inputs
    <3>1. PICK p \in Requests : req[p].n # 0 /\ i \in req[p].inputs
      BY <2>2
    <3>2. i \in Inputs /\ Flushed(i) /\ ~Unnumbered(p)
      BY <3>1 DEF TypeOK, Flushed, InputInv, Shape, Shaped, Unnumbered
    <3>3. QED
      BY <3>1, <3>2 DEF InputInv, RequestsApart
  <2>3. QED
    BY <1>5, <2>1, <2>2, NumberedAre
<1>6. Made'
  <2>1. ASSUME NEW i \in early' PROVE i \in 1..made
    <3>1. i \in Inputs /\ i <= made
      BY <1>2, <1>5, <2>1 DEF InputInv, Made
    <3>2. QED
      BY <3>1 DEF Inputs, TypeOK
  <2>2. QED
    BY <1>1, <2>1 DEF InputInv, Made, Flushed
<1>7. NotYet' = NotYet
  BY <1>1 DEF NotYet, Unnumbered
<1>8. Numbers'
  BY <1>1, <1>7 DEF InputInv, Numbers
<1>9. Coming'
  BY <1>2 DEF Coming
<1>10. NotYetEarly'
  <2> SUFFICES ASSUME NEW i \in Numbered, i \in NotYet PROVE FALSE
    BY <1>2, <1>7 DEF NotYetEarly
  <2>1. i \in queue
    BY <1>5 DEF NotYet
  <2>2. Flushed(i) /\ i \in Inputs /\ ~(i < i)
    BY <1>5 DEF Inputs
  <2>3. QED
    BY <2>1, <2>2 DEF InputInv, QueueIsLatest
<1>11. QED
  BY <1>3, <1>4, <1>6, <1>8, <1>9, <1>10 DEF InputInv

LEMMA InputStep == TypeOK /\ InputInv /\ [Next]_vars => TypeOK' /\ InputInv'
<1> SUFFICES ASSUME TypeOK, InputInv, [Next]_vars PROVE TypeOK' /\ InputInv'
  OBVIOUS
<1>1. TypeOK'
  BY LiveTyped
<1>2. CASE UNCHANGED vars
  BY <1>1, <1>2, SameRequests, NothingNewKeeps
     DEF vars, page, cache, worker, past, NothingNew, TypeOK
<1>3. CASE Poll \/ (\E q \in Requests : Click(q))
  BY <1>1, <1>3, PageBringsNothing, NothingNewKeeps
<1>4. CASE Make \/ (\E q \in Requests : Flush(q) \/ GiveUp(q))
  BY <1>1, <1>4, MakeKeeps, FlushKeeps, GiveUpKeeps
<1>5. ASSUME NEW q \in Requests, Serve(q) \/ Break(q) PROVE InputInv'
  BY <1>1, <1>5, ApiBringsNothing, NothingNewKeeps, NumberKeeps, StoreKeeps DEF Serve
<1>6. CASE Quiet \/ ExpireState \/ ExpireHead \/ (\E n \in Inputs : ExpireBatch(n))
  BY <1>1, <1>6, TimeBringsNothing, NothingNewKeeps
<1>7. CASE Loop \/ BreakTick \/ Grant
  BY <1>1, <1>7, WorkerBringsNothing, NothingNewKeeps, ReadHeadKeeps, ReplayKeeps, GrantKeeps
     DEF Loop
<1>8. CASE \/ StartTool \/ EndTool \/ AskForUser \/ NobodyCame
           \/ Stop \/ StopTold \/ StopCleared \/ Crash \/ Park \/ Resume
  BY <1>1, <1>8, WorkerBringsNothing, NothingNewKeeps
<1>9. QED
  BY <1>1, <1>2, <1>3, <1>4, <1>5, <1>6, <1>7, <1>8 DEF Next

LEMMA InputInit == Init => TypeOK /\ InputInv
<1> SUFFICES ASSUME Init PROVE TypeOK /\ InputInv
  OBVIOUS
<1>1. TypeOK
  <2>1. req \in [Requests -> Request] /\ live \in Screencast /\ batch \in [Inputs -> SUBSET Inputs]
    BY BlankRequest, BlankScreencast DEF Init
  <2>2. 0 \in 0..MaxInputs /\ 0 \in 0..MaxClicks /\ 0 \in 0..MaxFaults
    BY BoundsAssumption
  <2>3. QED
    BY <2>1, <2>2 DEF Init, TypeOK, Request, Screencast, Drivers
<1>2. \A q \in Requests : /\ req[q].op = "none" /\ req[q].at = "idle" /\ req[q].inputs = {}
                          /\ req[q].n = 0 /\ req[q] = NoRequest
  BY DEF Init, NoRequest
<1>3. \A n \in Inputs : batch[n] = {}
  BY DEF Init
<1>4. Shape /\ RequestsApart /\ NotStored /\ OneAwaited /\ AwaitedIsLatest /\ QueueIsLatest
  BY <1>2 DEF Init, Shape, Shaped, RequestsApart, NotStored, OneAwaited, AwaitedIsLatest, QueueIsLatest,
              Awaited, Unnumbered
<1>5. Made
  BY <1>2, <1>3 DEF Init, Made, Flushed, Inputs
<1>6. Numbers
  <2>1. NotYet = {}
    BY <1>2 DEF Init, NotYet
  <2>2. Cardinality(NotYet) = 0
    BY <2>1, FS_EmptySet
  <2>3. QED
    BY <1>2, <1>3, <2>2 DEF Init, Numbers
<1>7. Coming /\ NotYetEarly
  BY DEF Init, Coming, NotYetEarly, NewLive
<1>8. QED
  BY <1>1, <1>4, <1>5, <1>6, <1>7 DEF InputInv

\* Only Replay gives the browser an input.
LEMMA OnlyReplay ==
  ASSUME Next, last' # last
  PROVE  Replay
<1>1. ~(Poll \/ Make \/ \E q \in Requests : Click(q) \/ Flush(q) \/ GiveUp(q))
  BY DEF Poll, Make, Click, Flush, GiveUp, past
<1>2. \A q \in Requests : ~Serve(q) /\ ~Break(q)
  BY DEF Serve, CheckRunning, RequestControl, ReleaseControl, Accept, Refuse, Number, Store,
         Peek, Break, past
<1>3. ~(Quiet \/ ExpireState \/ ExpireHead \/ \E n \in Inputs : ExpireBatch(n))
  BY DEF Quiet, ExpireState, ExpireHead, ExpireBatch
<1>4. ~(Sync \/ Forget \/ ReadHead \/ Skip \/ Publish \/ BreakTick \/ Grant)
  BY DEF Sync, Forget, ReadHead, Skip, Publish, BreakTick, Grant, past
<1>5. ~(StartTool \/ EndTool \/ AskForUser \/ NobodyCame)
  BY DEF StartTool, EndTool, AskForUser, NobodyCame, past
<1>6. ~(Stop \/ StopTold \/ StopCleared \/ Crash \/ Park \/ Resume)
  BY DEF Stop, StopTold, StopCleared, Crash, Park, Resume, past
<1>7. QED
  BY <1>1, <1>2, <1>3, <1>4, <1>5, <1>6 DEF Next, Loop

\* The types: for any bounds, and above all no number is given to a batch that is beyond
\* them, although a head that has expired starts again and the batches do not.
THEOREM LiveTypeCorrect == Spec => []TypeOK
  BY InputInit, InputStep, PTL DEF Spec

\* "Sends input in order" (LiveBrowser.tsx:72), for any number of requests and inputs:
\* requests under way at once, given up, and slower than later ones included; unless the
\* head could not be read at the grant, or keys have expired.
THEOREM ViewersInputsInOrder == Spec => InOrder
<1>1. TypeOK /\ InputInv /\ [Next]_vars => [last' < last => last' \in given \/ blind \/ expired]_vars
  <2> SUFFICES ASSUME TypeOK, InputInv, Next, last' < last
               PROVE  last' \in given \/ blind \/ expired
    BY DEF vars
  <2>1. last' # last
    BY DEF TypeOK
  <2>2. Replay
    BY <2>1, OnlyReplay
  <2>3. Draining /\ Has(live.next, last') /\ live.next \in Inputs /\ last' \in Inputs
    BY <2>2, Replayed DEF Replay, Has, TypeOK
  <2>4. CASE ~expired /\ ~blind
    <3>1. last' \in given \/ last < last'
      BY <2>3, <2>4 DEF InputInv, Coming, Draining, Inputs
    <3>2. last \in Int /\ last' \in Int
      BY <2>3 DEF TypeOK, Inputs
    <3>3. QED
      BY <3>1, <3>2
  <2>5. QED
    BY <2>4
<1>2. QED
  BY <1>1, InputInit, InputStep, PTL DEF Spec, InOrder

\* "Ignore input sent before control was granted" (live.py:192): nothing that had a number
\* then reaches the browser, provided that the head could be read at the grant. If the cache
\* fails there, control is the viewer's all the same, and old inputs are dispatched.
THEOREM NothingFromBeforeTheGrant == Spec => SinceGrant
<1>1. TypeOK /\ InputInv /\ [Next]_vars => [last' # last => last' \notin early \/ blind \/ expired]_vars
  <2> SUFFICES ASSUME TypeOK, InputInv, Next, last' # last
               PROVE  last' \notin early \/ blind \/ expired
    BY DEF vars
  <2>1. Replay
    BY OnlyReplay
  <2>2. Draining /\ Has(live.next, last') /\ live.next \in Inputs /\ last' \in Inputs
    BY <2>1, Replayed DEF Replay, Has, TypeOK
  <2>3. QED
    BY <2>2 DEF InputInv, Coming, Draining, Inputs
<1>2. QED
  BY <1>1, InputInit, InputStep, PTL DEF Spec, SinceGrant

-----------------------------------------------------------------------------
(* Told, for RefusedForCause. *)

\* The page takes up inputs only when it was told that the viewer drives.
LEMMA PageTold ==
  ASSUME TypeOK, Told, Poll \/ Make \/ \E q \in Requests : Click(q) \/ Flush(q) \/ GiveUp(q)
  PROVE  Told'
<1>1. UNCHANGED <<claim, state, live, lost, expired>>
  BY DEF Poll, Make, Click, Flush, GiveUp, cache, worker, past
<1>2. Holding' => Holding \/ state = "user"
  <2>1. CASE Poll
    BY <2>1 DEF Poll, Holding, Driver
  <2>2. CASE Make
    BY <2>2 DEF Make, Holding
  <2>3. ASSUME NEW q \in Requests, Click(q) PROVE Holding' => Holding
    <3>1. req'[q].op \in {"take", "release"} /\ \A p \in Requests : p # q => req'[p] = req[p]
      BY <2>3 DEF Click, Sent, TypeOK
    <3>2. QED
      BY <2>3, <3>1 DEF Click, Holding
  <2>4. ASSUME NEW q \in Requests, Flush(q) \/ GiveUp(q) PROVE Holding' => Holding
    BY <2>4 DEF Flush, GiveUp, Holding
  <2>5. QED
    BY <2>1, <2>2, <2>3, <2>4
<1>3. QED
  BY <1>1, <1>2 DEF Told, Holding

LEMMA ApiTold ==
  ASSUME TypeOK, InputInv, Told, NEW q \in Requests, Serve(q) \/ Break(q)
  PROVE  Told'
<1>1. UNCHANGED <<shown, queue, state, live, expired>>
  BY DEF Serve, CheckRunning, RequestControl, ReleaseControl, Accept, Refuse, Number, Store,
         Peek, Break, typed, page, cache, worker, past
<1>2. lost => lost'
  BY DEF Serve, CheckRunning, RequestControl, ReleaseControl, Accept, Refuse, Number, Store,
         Peek, Break, typed, page, cache, worker, past
<1>3. claim' = claim \/ claim' = "fresh" \/ lost'
  BY DEF Serve, CheckRunning, RequestControl, ReleaseControl, Accept, Refuse, Number, Store,
         Peek, Break, typed, page, cache, worker, past
<1>4. ASSUME NEW p \in Requests PROVE req'[p].op = "input" => req[p].op = "input"
  <2>1. CASE Ends(q) \/ \E at \in {"apply", "number"} : Goes(q, at)
    BY <2>1 DEF Ends, Goes, NoRequest, TypeOK
  <2>2. CASE Number(q) \/ Store(q)
    BY <2>2 DEF Number, Store, TypeOK
  <2>3. QED
    BY <2>1, <2>2
       DEF Serve, CheckRunning, RequestControl, ReleaseControl, Accept, Refuse, Peek, Break
<1>5. QED
  BY <1>1, <1>2, <1>3, <1>4 DEF Told, Holding

LEMMA ClockTold ==
  ASSUME Told, Quiet \/ ExpireState \/ ExpireHead \/ \E n \in Inputs : ExpireBatch(n)
  PROVE  Told'
<1>1. CASE Quiet
  BY <1>1 DEF Quiet, Told, Holding, page, worker
<1>2. CASE ExpireState
  BY <1>2 DEF ExpireState, Told, Holding, page, worker
<1>3. CASE ExpireHead \/ \E n \in Inputs : ExpireBatch(n)
  BY <1>3 DEF ExpireHead, ExpireBatch, Told, Holding, page, worker
<1>4. QED
  BY <1>1, <1>2, <1>3

\* The state says user until control is lost: only then does the worker say otherwise.
LEMMA LoopTold ==
  ASSUME TypeOK, Told, Loop \/ BreakTick \/ Grant
  PROVE  Told'
<1> live \in Screencast
  BY DEF TypeOK, Screencast
<1>1. UNCHANGED <<shown, queue, req, expired>>
  BY DEF Loop, Sync, Forget, ReadHead, Replay, Skip, Publish, BreakTick, Grant, page, cache, past
<1>2. CASE Sync
  <2>1. UNCHANGED <<claim, state, lost>>
    BY <1>2 DEF Sync, cache, past
  <2>2. state = "user" /\ ~lost => live'.control = "user" /\ live'.at = "drain"
    BY <1>2 DEF Sync, Starts, Wanted, Told, Holding, Screencast
  <2>3. live'.at = "forget" => live'.control = "agent"
    BY <1>2 DEF Sync, Screencast
  <2>4. QED
    BY <1>1, <2>1, <2>2, <2>3 DEF Told, Holding
<1>3. CASE Forget
  BY <1>1, <1>3 DEF Forget, Told, Holding, past, Screencast
<1>4. CASE ReadHead \/ Grant
  <2>1. UNCHANGED <<claim, state, lost>> /\ live'.at = live.at /\ live.control \in {"granted", "waiting"}
    BY <1>4 DEF ReadHead, CannotRead, Grant, cache, past, Screencast
  <2>2. QED
    BY <1>1, <2>1 DEF Told, Holding
<1>5. CASE Replay \/ Skip
  <2>1. UNCHANGED <<claim, state, lost>> /\ live'.at = live.at /\ live'.control = live.control
    BY <1>5 DEF Replay, Skip, cache, past, Screencast
  <2>2. QED
    BY <1>1, <2>1 DEF Told, Holding
<1>6. CASE Publish
  <2>1. claim' = claim /\ live'.at = "look" /\ live'.control = live.control
    BY <1>6 DEF Publish, Screencast
  <2>2. CASE live.told = live.control
    BY <1>1, <1>6, <2>1, <2>2 DEF Publish, Told, Holding
  <2>3. CASE live.told # live.control
    <3>1. state' = live.control
      BY <1>6, <2>3 DEF Publish
    <3>2. CASE live.control = "user"
      <4>1. lost' = (claim # "fresh")
        BY <1>6, <2>3, <3>2, Zenon DEF Publish
      <4>2. ~lost' => claim = "fresh"
        BY <4>1, Zenon
      <4>3. QED
        BY <1>1, <2>1, <3>1, <3>2, <4>2 DEF Told, Holding
    <3>3. CASE live.control # "user"
      <4>1. lost' = lost
        BY <1>6, <2>3, <3>3, Zenon DEF Publish
      <4>2. QED
        BY <1>1, <2>1, <3>1, <3>3, <4>1 DEF Told, Holding
    <3>4. QED
      BY <3>2, <3>3
  <2>4. QED
    BY <2>2, <2>3
<1>7. CASE BreakTick
  <2>1. /\ UNCHANGED <<claim, state, lost>> /\ live.at \in {"forget", "drain"}
        /\ live'.at = "look" /\ live'.control = live.control
    BY <1>7 DEF BreakTick, cache, Screencast
  <2>2. QED
    BY <1>1, <2>1 DEF Told, Holding
<1>8. QED
  BY <1>2, <1>3, <1>4, <1>5, <1>6, <1>7 DEF Loop

LEMMA AgentTold ==
  ASSUME TypeOK, Told, DriverInv,
         \/ StartTool \/ EndTool \/ AskForUser \/ NobodyCame
         \/ Stop \/ StopTold \/ StopCleared \/ Crash \/ Park \/ Resume
  PROVE  Told'
<1> live \in Screencast
  BY DEF TypeOK, Screencast
<1>1. UNCHANGED <<shown, queue, req, expired>>
  BY DEF StartTool, EndTool, AskForUser, NobodyCame, Stop, StopTold, StopCleared, Crash, Park,
         Resume, page, past
<1>2. CASE StartTool \/ EndTool \/ AskForUser \/ NobodyCame \/ Park
  BY <1>1, <1>2 DEF StartTool, EndTool, AskForUser, NobodyCame, Park, cache, past, Told, Holding
<1>3. CASE Stop \/ Crash
  BY <1>1, <1>3 DEF Stop, Crash, Off, NewLive, cache, Told, Holding
<1>4. CASE StopTold \/ StopCleared
  <2>1. live.at \notin {"look", "drain", "forget"} /\ live'.at # "forget" /\ lost' = lost
        /\ state' \in {state, "agent"}
    BY <1>4 DEF StopTold, StopCleared, Off, NewLive, past, Screencast
  <2>2. QED
    BY <1>1, <2>1 DEF Told, Holding
<1>5. CASE Resume
  <2>1. live.at = "off"
    BY <1>5 DEF Resume, DriverInv, LockInv
  <2>2. UNCHANGED <<claim, state, lost>> /\ live'.at = "look"
    BY <1>5 DEF Resume, cache, past, NewLive
  <2>3. QED
    BY <1>1, <2>1, <2>2 DEF Told, Holding
<1>6. QED
  BY <1>2, <1>3, <1>4, <1>5

LEMMA ToldStep == TypeOK /\ InputInv /\ DriverInv /\ Told /\ [Next]_vars => Told'
<1> SUFFICES ASSUME TypeOK, InputInv, DriverInv, Told, [Next]_vars PROVE Told'
  OBVIOUS
<1>1. CASE UNCHANGED vars
  BY <1>1 DEF vars, page, cache, worker, past, Told, Holding
<1>2. CASE Next
  BY <1>2, PageTold, ApiTold, ClockTold, LoopTold, AgentTold DEF Next
<1>3. QED
  BY <1>1, <1>2

\* A viewer who was told to drive is refused an input only for a cause: control was
\* released, quiet, lost with the execution, or the state has expired.
THEOREM ViewerRefusedForCause == Spec => RefusedForCause
<1>1. Init => Told
  BY DEF Init, Told, Holding, NoRequest, NewLive
<1>2. Told => [\A q \in Requests : Refuse(q) => lost \/ expired]_vars
  <2> SUFFICES ASSUME Told, NEW q \in Requests, Refuse(q) PROVE lost \/ expired
    OBVIOUS
  <2>1. req[q].op = "input" /\ state # "user"
    BY DEF Refuse, Driver
  <2>2. QED
    BY <2>1 DEF Told, Holding
<1>3. QED
  BY <1>1, <1>2, InputInit, InputStep, InitDriver, DriverStep, ToldStep, PTL
     DEF Spec, RefusedForCause
=============================================================================
