--------------------------- MODULE AgentRunProofs ---------------------------
(***************************************************************************)
(* Proofs about AgentRun, for any number of runs, workers, profiles,       *)
(* deliveries, faults and recoveries. Its variables keep their types, and  *)
(* a queued run has a delivery unless it was stranded. While a live        *)
(* worker's heartbeats are in time (Timely), a browser profile is never    *)
(* open twice; and a run that no two workers claim at once has one worker  *)
(* at most, gets an answer to its own question only, and moves as          *)
(* RunLifecycle says.                                                      *)
(***************************************************************************)
EXTENDS AgentRun, TLAPS

\* A worker that is not idle works on a run, and has its verdict when it gets to
\* writing one.
WorkerShape ==
  \A w \in Workers :
    /\ worker[w].pc # "idle" => worker[w].run \in Runs
    /\ worker[w].pc \in {"refuse", "stop", "reread", "write"} => worker[w].verdict # "none"

\* The types of the variables the actions read.
Types ==
  /\ row \in [Runs -> Row]
  /\ inUse \in [Profiles -> BOOLEAN]
  /\ queued \in [Runs -> Nat]
  /\ thread \in [Runs -> [stage: Stages, questions: Nat]]
  /\ worker \in [Workers -> Worker]
  /\ reaping \subseteq Runs
  /\ scanned \in [Runs -> Nat]
  /\ freeing \in Runs \union {NoRun}
  /\ profileOf \in [Runs -> Profiles \union {NoProfile}]
  /\ admitted \subseteq Runs /\ cancelling \subseteq Runs

TypeInv == Types /\ WorkerShape

\* And of those that only record what happened.
PastTypes ==
  /\ twice \subseteq Runs /\ stranded \subseteq Runs /\ misfit \subseteq Runs
  /\ faults \in Nat

(* What keeps a profile from being given away: a worker that took it and has not    *)
(* given it back, or a run that the rows or the reaper still hold it for.           *)
Holder(w) == worker[w].pc \in Holding /\ HasProfile(worker[w].run)
RowClaim(r) == HasProfile(r) /\ (r \in reaping \/ freeing = r \/ row[r].status = "running")

HoldersApart ==
  \A v, w \in Workers :
    v # w /\ Holder(v) /\ Holder(w) => profileOf[worker[v].run] # profileOf[worker[w].run]
HolderAndClaimsApart ==
  \A w \in Workers, r \in Runs :
    Holder(w) /\ RowClaim(r) /\ r # worker[w].run => profileOf[r] # profileOf[worker[w].run]
HolderNotReaped ==
  \A w \in Workers : Holder(w) => worker[w].run \notin reaping /\ freeing # worker[w].run
ClaimsApart ==
  \A r, s \in Runs : r # s /\ RowClaim(r) /\ RowClaim(s) => profileOf[r] # profileOf[s]
HeldIsInUse ==
  /\ \A w \in Workers : Holder(w) => inUse[profileOf[worker[w].run]]
  /\ \A r \in Runs : RowClaim(r) => inUse[profileOf[r]]
FreedNotRunning ==
  freeing # NoRun => /\ freeing \notin reaping /\ HasProfile(freeing)
                     /\ row[freeing].status # "running"
BetweenNotRunning ==
  \A w \in Workers :
    Holder(w) /\ worker[w].pc \in {"save", "release"} => row[worker[w].run].status # "running"
SilentIsOrphan ==
  \A w \in Workers : Holder(w) => worker[w].run \notin Stale

HoldInv ==
  /\ HoldersApart /\ HolderAndClaimsApart /\ HolderNotReaped /\ ClaimsApart
  /\ HeldIsInUse /\ FreedNotRunning /\ BetweenNotRunning /\ SilentIsOrphan

-----------------------------------------------------------------------------
(* Types. *)

LEMMA InitTypes == Init => TypeInv
<1> SUFFICES ASSUME Init PROVE TypeInv
  OBVIOUS
<1>1. Blank \in Row
  BY DEF Blank, Row
<1>2. Idle \in Worker /\ Idle.pc = "idle"
  BY <1>1 DEF Idle, Worker, Places
<1>3. Types
  BY <1>1, <1>2 DEF Init, Types, Stages
<1>4. WorkerShape
  BY <1>2 DEF Init, WorkerShape
<1> QED
  BY <1>3, <1>4 DEF TypeInv

LEMMA ConstantRecords ==
  /\ Blank \in Row
  /\ Idle \in Worker /\ Idle.pc = "idle"
  BY DEF Blank, Row, Idle, Worker, Places

\* A row stays a row when a field gets a value of the field's type.
LEMMA RowFields ==
  ASSUME NEW c \in Row
  PROVE  /\ \A s \in {"absent"} \union Active \union Terminal : [c EXCEPT !.status = s] \in Row
         /\ \A b \in {"none", "fresh", "silent"} : [c EXCEPT !.beat = b] \in Row
         /\ \A n \in Nat : /\ [c EXCEPT !.question = n] \in Row
                           /\ [c EXCEPT !.answer = n] \in Row
                           /\ [c EXCEPT !.recoveries = n] \in Row
         /\ [c EXCEPT !.cancel = TRUE] \in Row
         /\ c.question \in Nat /\ c.answer \in Nat /\ c.recoveries \in Nat
  BY DEF Row

\* So does a worker, and its other fields keep their values.
LEMMA WorkerFields ==
  ASSUME NEW k \in Worker
  PROVE  /\ \A x \in Places : [k EXCEPT !.pc = x] \in Worker
         /\ \A r \in Runs : [k EXCEPT !.run = r] \in Worker
         /\ \A c \in Row : [k EXCEPT !.snap = c] \in Worker
         /\ \A x \in {"none", "waiting"} \union Terminal : [k EXCEPT !.verdict = x] \in Worker
         /\ \A n \in Nat : [k EXCEPT !.taken = n] \in Worker /\ [k EXCEPT !.asked = n] \in Worker
         /\ [k EXCEPT !.inOrder = FALSE] \in Worker
         /\ k.snap \in Row /\ k.verdict \in {"none", "waiting"} \union Terminal
         /\ k.asked \in Nat /\ k.taken \in Nat
  BY DEF Worker

\* Every action that changes the workers sets one of them to a well-formed worker.
LEMMA NumberingTyped ==
  ASSUME TypeInv, NEW w \in Workers
  PROVE  /\ Numbering(w) \in [Workers -> Worker]
         /\ Numbering(w)[w] = worker[w]
         /\ \A v \in Workers : /\ Numbering(w)[v].pc = worker[v].pc
                               /\ Numbering(w)[v].run = worker[v].run
                               /\ Numbering(w)[v].verdict = worker[v].verdict
  BY DEF TypeInv, Types, Numbering, Worker

\* A worker that goes on with its run keeps the workers in shape.
LEMMA ShapeKept ==
  ASSUME TypeInv, NEW w \in Workers,
         worker[w].pc # "idle", worker'[w].run = worker[w].run,
         worker'[w].pc \in {"refuse", "stop", "reread", "write"} => worker'[w].verdict # "none",
         \A v \in Workers \ {w} : /\ worker'[v].pc = worker[v].pc
                                  /\ worker'[v].run = worker[v].run
                                  /\ worker'[v].verdict = worker[v].verdict
  PROVE  WorkerShape'
  BY DEF TypeInv, WorkerShape

\* The requests and the reaper leave the workers alone.
LEMMA ApiTypes ==
  ASSUME TypeInv, NEW r \in Runs,
         Admit(r) \/ Insert(r) \/ Cancel(r) \/ EndWait(r) \/ GoSilent(r)
         \/ \E q \in 1 .. thread[r].questions : Answer(r, q)
  PROVE  TypeInv'
<1> USE DEF TypeInv, Types, WorkerShape
<1>1. CASE Admit(r)
  BY <1>1 DEF Admit, reaper
<1>2. CASE Insert(r)
  <2>1. [row[r] EXCEPT !.status = "queued"] \in Row
    BY RowFields DEF Active
  <2> QED
    BY <1>2, <2>1 DEF Insert, Sends, SendFails, reaper
<1>3. CASE Cancel(r)
  <2>1. [row[r] EXCEPT !.cancel = TRUE] \in Row
    BY RowFields
  <2> QED
    BY <1>3, <2>1 DEF Cancel, reaper
<1>4. CASE EndWait(r)
  <2>1. [row[r] EXCEPT !.status = "cancelled", !.question = 0, !.answer = 0] \in Row
    BY RowFields DEF Terminal
  <2> QED
    BY <1>4, <2>1 DEF EndWait, reaper
<1>5. ASSUME NEW q \in 1 .. thread[r].questions, Answer(r, q)
      PROVE  TypeInv'
  <2>1. q \in Nat
    BY DEF Types
  <2>2. [row[r] EXCEPT !.status = "queued", !.answer = q] \in Row
    BY <2>1, RowFields DEF Active
  <2>3. row' \in [Runs -> Row]
    BY <1>5, <2>2 DEF Answer, Accept
  <2>4. queued' \in [Runs -> Nat]
    BY <1>5 DEF Answer, Sends, SendFails
  <2> QED
    BY <1>5, <2>3, <2>4 DEF Answer, Accept, reaper, api
<1>6. CASE GoSilent(r)
  <2>1. [row[r] EXCEPT !.beat = "silent"] \in Row
    BY RowFields
  <2> QED
    BY <1>6, <2>1 DEF GoSilent, reaper, api
<1> QED
  BY <1>1, <1>2, <1>3, <1>4, <1>5, <1>6

LEMMA ReaperTypes ==
  ASSUME TypeInv, Scan \/ Free \/ ReaperStops \/ \E r \in Runs : Reap(r)
  PROVE  TypeInv'
<1> USE DEF TypeInv, Types, WorkerShape
<1>1. CASE Scan
  BY <1>1, RowFields DEF Scan, Stale, api
<1>2. CASE Free
  BY <1>2 DEF Free, api
<1>3. ASSUME NEW r \in Runs, Reap(r)
      PROVE  TypeInv'
  <2>1. Requeued(row[r]) \in Row
    <3>1. row[r] \in Row /\ row[r].recoveries \in Nat
      BY RowFields
    <3>2. row[r].recoveries + 1 \in Nat
      BY <3>1
    <3> QED
      BY <3>1, <3>2, RowFields DEF Requeued, Active
  <2>2. [row[r] EXCEPT !.status = "failed"] \in Row
    BY RowFields DEF Terminal
  <2>3. row' \in [Runs -> Row]
    BY <1>3, <2>1, <2>2 DEF Reap
  <2>4. queued' \in [Runs -> Nat]
    BY <1>3 DEF Reap, Sends, SendFails
  <2>5. /\ reaping' \subseteq Runs /\ scanned' \in [Runs -> Nat]
        /\ freeing' \in Runs \union {NoRun}
    BY <1>3 DEF Reap, Goes, Frees, Abandon
  <2> QED
    BY <1>3, <2>3, <2>4, <2>5 DEF Reap, api
<1>4. CASE ReaperStops
  BY <1>4 DEF ReaperStops, Abandon, api
<1> QED
  BY <1>1, <1>2, <1>3, <1>4

\* The claim: the worker is idle, or has just taken a delivery.
LEMMA ClaimTypes ==
  ASSUME TypeInv, NEW w \in Workers,
         (\E r \in Runs : Receive(w, r)) \/ TakeProfile(w) \/ Refuse(w) \/ Save(w)
  PROVE  TypeInv'
<1> USE DEF TypeInv, Types, WorkerShape, At
<1>1. ASSUME NEW r \in Runs, Receive(w, r)
      PROVE  TypeInv'
  <2>1. queued' \in [Runs -> Nat]
    <3>1. queued[r] > 0 /\ queued' = [queued EXCEPT ![r] = @ - 1]
      BY <1>1 DEF Receive
    <3> QED
      BY <3>1
  <2>2. ASSUME NEW place \in {"refuse", "profile", "save"}, NEW verdict \in {"none", "cancelled"},
               place = "refuse" => verdict = "cancelled",
               worker' = [worker EXCEPT ![w] = [Idle EXCEPT !.pc = place, !.run = r,
                                                  !.snap = row[r], !.verdict = verdict]]
        PROVE  worker' \in [Workers -> Worker] /\ WorkerShape'
    <3> DEFINE claimer == [Idle EXCEPT !.pc = place, !.run = r, !.snap = row[r],
                                       !.verdict = verdict]
    <3>1. claimer \in Worker
      BY ConstantRecords, WorkerFields DEF Places, Holding, Terminal
    <3>2. claimer.pc = place /\ claimer.run = r /\ claimer.verdict = verdict
      BY DEF Idle
    <3> QED
      BY <2>2, <3>1, <3>2
  <2>3. worker' \in [Workers -> Worker] /\ WorkerShape'
    <3>1. CASE UNCHANGED worker
      BY <3>1
    <3>2. CASE Claimable(row[r]) /\ row[r].cancel /\ ~UNCHANGED worker
      BY <1>1, <2>2, <3>2 DEF Receive
    <3>3. CASE Claimable(row[r]) /\ ~row[r].cancel /\ ~UNCHANGED worker
      <4>1. \E place \in {"profile", "save"} :
              worker' = [worker EXCEPT ![w] = [Idle EXCEPT !.pc = place, !.run = r,
                                                 !.snap = row[r], !.verdict = "none"]]
        BY <1>1, <3>3 DEF Receive
      <4> QED
        BY <2>2, <4>1
    <3> QED
      BY <1>1, <3>1, <3>2, <3>3 DEF Receive
  <2> QED
    BY <1>1, <2>1, <2>3 DEF Receive, reaper, api
<1>2. CASE TakeProfile(w)
  <2>1. /\ [worker[w] EXCEPT !.pc = "refuse", !.verdict = "failed"] \in Worker
        /\ [worker[w] EXCEPT !.pc = "save"] \in Worker
    BY WorkerFields DEF Places, Holding, Terminal
  <2>2. worker' \in [Workers -> Worker]
    BY <1>2, <2>1 DEF TakeProfile
  <2>3. inUse' \in [Profiles -> BOOLEAN]
    BY <1>2 DEF TakeProfile
  <2>4. WorkerShape'
    <3>1. /\ worker[w].pc = "profile" /\ worker'[w].run = worker[w].run
          /\ \/ worker'[w].pc = "refuse" /\ worker'[w].verdict = "failed"
             \/ worker'[w].pc = "save"
          /\ \A v \in Workers : v # w => worker'[v] = worker[v]
      BY <1>2 DEF TakeProfile, Worker
    <3> QED
      BY <3>1
  <2> QED
    BY <1>2, <2>2, <2>3, <2>4 DEF TakeProfile, reaper, api
<1>3. CASE Refuse(w)
  <2>1. [worker[w].snap EXCEPT !.status = worker[w].verdict] \in Row
    BY <1>3, RowFields, WorkerFields DEF Refuse, Active, Terminal
  <2> QED
    BY <1>3, <2>1, ConstantRecords DEF Refuse, reaper, api
<1>4. CASE Save(w)
  <2>1. [row[worker[w].run] EXCEPT !.status = "running", !.beat = "fresh"] \in Row
    BY <1>4, RowFields DEF Save, Active
  <2>2. row' \in [Runs -> Row]
    BY <1>4, <2>1 DEF Save
  <2>3. [worker[w] EXCEPT !.pc = "start"] \in Worker
    BY WorkerFields DEF Places, Holding, Executing, Open
  <2>4. worker' \in [Workers -> Worker] /\ WorkerShape'
    BY <1>4, <2>3 DEF Save, Worker
  <2> QED
    BY <1>4, <2>2, <2>4 DEF Save, reaper, api
<1> QED
  BY <1>1, <1>2, <1>3, <1>4

\* The agent at work: only the thread's questions and the worker's fields change.
LEMMA AgentTypes ==
  ASSUME TypeInv, NEW w \in Workers,
         Start(w) \/ Superstep(w) \/ Consume(w) \/ Ask(w) \/ Fail(w) \/ Timeout(w) \/ Beat(w)
  PROVE  TypeInv'
<1> USE DEF TypeInv, Types, WorkerShape, At
<1>0. /\ worker[w] \in Worker /\ Numbering(w) \in [Workers -> Worker]
      /\ worker[w].pc # "idle" => row[worker[w].run] \in Row
  BY NumberingTyped
<1>1. CASE Start(w)
  <2>1. AnswerTaken(row[worker[w].run]) \in Row /\ row[worker[w].run].answer \in Nat
    BY <1>0, <1>1, RowFields DEF Start, AnswerTaken
  <2>2. row' \in [Runs -> Row]
    BY <1>1, <2>1 DEF Start
  <2>3. /\ [worker[w] EXCEPT !.pc = "ask", !.snap = Blank] \in Worker
        /\ [worker[w] EXCEPT !.pc = "run", !.snap = Blank] \in Worker
        /\ [worker[w] EXCEPT !.pc = "run", !.snap = Blank,
                             !.taken = row[worker[w].run].answer] \in Worker
    BY <1>0, <2>1, WorkerFields, ConstantRecords DEF Places, Holding, Executing, Open
  <2>4. \/ worker' = [worker EXCEPT ![w].pc = "ask", ![w].snap = Blank]
        \/ worker' = [worker EXCEPT ![w].pc = "run", ![w].snap = Blank]
        \/ worker' = [Numbering(w) EXCEPT ![w].pc = "run", ![w].snap = Blank,
                                          ![w].taken = row[worker[w].run].answer]
    BY <1>1 DEF Start
  <2>5. worker' \in [Workers -> Worker] /\ WorkerShape'
    <3>1. CASE worker' = [worker EXCEPT ![w].pc = "ask", ![w].snap = Blank]
      BY <1>1, <2>3, <3>1, ShapeKept DEF Start, Worker
    <3>2. CASE worker' = [worker EXCEPT ![w].pc = "run", ![w].snap = Blank]
      BY <1>1, <2>3, <3>2, ShapeKept DEF Start, Worker
    <3>3. CASE worker' = [Numbering(w) EXCEPT ![w].pc = "run", ![w].snap = Blank,
                                              ![w].taken = row[worker[w].run].answer]
      <4>1. worker' = [Numbering(w) EXCEPT ![w] =
                         [worker[w] EXCEPT !.pc = "run", !.snap = Blank,
                                           !.taken = row[worker[w].run].answer]]
        BY <1>0, <3>3, NumberingTyped
      <4> QED
        BY <1>0, <1>1, <2>3, <4>1, NumberingTyped DEF Start, Worker
    <3> QED
      BY <2>4, <3>1, <3>2, <3>3
  <2> QED
    BY <1>1, <2>2, <2>5 DEF Start, reaper, api
<1>2. CASE Superstep(w)
  <2>1. [worker[w] EXCEPT !.pc = "consume", !.taken = 0] \in Worker
    BY <1>0, WorkerFields DEF Places, Holding, Executing, Open
  <2>2. worker' \in [Workers -> Worker] /\ WorkerShape'
    BY <1>2, <2>1 DEF Superstep, Worker
  <2>3. thread' \in [Runs -> [stage: Stages, questions: Nat]]
    <3> DEFINE Threads == [stage: Stages, questions: Nat]
               r == worker[w].run
    <3>1. r \in Runs /\ thread[r] \in Threads
      BY <1>2 DEF Superstep
    <3>2. /\ [thread[r] EXCEPT !.stage = "mid"] \in Threads
          /\ [thread[r] EXCEPT !.stage = "done"] \in Threads
      BY <3>1 DEF Stages
    <3>3. thread[r].questions + 1 \in Nat
      BY <3>1
    <3>4. [thread[r] EXCEPT !.stage = "asked", !.questions = thread[r].questions + 1] \in Threads
      BY <3>1, <3>3 DEF Stages
    <3> QED
      BY <1>2, <3>1, <3>2, <3>4 DEF Superstep
  <2> QED
    BY <1>2, <2>2, <2>3 DEF Superstep, reaper, api
<1>3. CASE Consume(w)
  <2>1. /\ [worker[w] EXCEPT !.pc = "stop", !.verdict = "failed"] \in Worker
        /\ [worker[w] EXCEPT !.pc = "stop", !.verdict = "cancelled"] \in Worker
        /\ [worker[w] EXCEPT !.pc = "stop", !.verdict = "succeeded"] \in Worker
        /\ [worker[w] EXCEPT !.pc = "run", !.verdict = "none"] \in Worker
        /\ [worker[w] EXCEPT !.pc = "ask", !.verdict = "none"] \in Worker
    BY <1>0, WorkerFields DEF Places, Holding, Executing, Open, Terminal
  <2>2. \/ worker' = [worker EXCEPT ![w].pc = "stop", ![w].verdict = "failed"]
        \/ worker' = [Numbering(w) EXCEPT ![w].pc = "stop", ![w].verdict = "cancelled"]
        \/ worker' = [Numbering(w) EXCEPT ![w].pc = "run", ![w].verdict = "none"]
        \/ worker' = [Numbering(w) EXCEPT ![w].pc = "ask", ![w].verdict = "none"]
        \/ worker' = [Numbering(w) EXCEPT ![w].pc = "stop", ![w].verdict = "succeeded"]
    BY <1>3 DEF Consume
  <2>3. worker' \in [Workers -> Worker] /\ WorkerShape'
    <3>1. CASE worker' = [worker EXCEPT ![w].pc = "stop", ![w].verdict = "failed"]
      BY <1>3, <2>1, <3>1, ShapeKept DEF Consume, Worker
    <3>2. ASSUME NEW place \in {"stop", "run", "ask"},
                 NEW verdict \in {"cancelled", "none", "succeeded"},
                 place = "stop" => verdict # "none",
                 [worker[w] EXCEPT !.pc = place, !.verdict = verdict] \in Worker,
                 worker' = [Numbering(w) EXCEPT ![w].pc = place, ![w].verdict = verdict]
          PROVE  worker' \in [Workers -> Worker] /\ WorkerShape'
      <4>1. worker' = [Numbering(w) EXCEPT ![w] =
                         [worker[w] EXCEPT !.pc = place, !.verdict = verdict]]
        BY <1>0, <3>2, NumberingTyped
      <4>2. /\ worker'[w].pc = place /\ worker'[w].verdict = verdict
            /\ worker'[w].run = worker[w].run
        BY <1>0, <4>1 DEF Worker
      <4>3. worker' \in [Workers -> Worker]
        BY <1>0, <3>2, <4>1
      <4>4. worker[w].pc = "consume"
        BY <1>3 DEF Consume
      <4>5. \A v \in Workers \ {w} : /\ worker'[v].pc = worker[v].pc
                                     /\ worker'[v].run = worker[v].run
                                     /\ worker'[v].verdict = worker[v].verdict
        BY <1>0, <4>1, NumberingTyped
      <4>6. place \in {"refuse", "stop", "reread", "write"} => verdict # "none"
        BY <3>2
      <4>7. WorkerShape'
        <5> HIDE DEF WorkerShape
        <5> QED
          BY <4>2, <4>4, <4>5, <4>6, ShapeKept
      <4> QED
        BY <4>3, <4>7
    <3> QED
      BY <2>1, <2>2, <3>1, <3>2
  <2> QED
    BY <1>3, <2>3 DEF Consume, reaper, api
<1>4. CASE Ask(w)
  <2>1. thread[worker[w].run].questions \in Nat
    BY <1>4 DEF Ask
  <2>2. /\ [worker[w] EXCEPT !.pc = "stop", !.verdict = "waiting",
                             !.asked = thread[worker[w].run].questions] \in Worker
        /\ [worker[w] EXCEPT !.pc = "stop", !.verdict = "failed"] \in Worker
    BY <1>0, <2>1, WorkerFields DEF Places, Holding, Executing, Open, Terminal
  <2>3. worker' \in [Workers -> Worker]
    BY <1>0, <1>4, <2>2, NumberingTyped DEF Ask
  <2>4. WorkerShape'
    BY <1>0, <1>4, NumberingTyped DEF Ask, Worker
  <2> QED
    BY <1>4, <2>3, <2>4 DEF Ask, reaper, api
<1>5. CASE Fail(w) \/ Timeout(w)
  <2>1. /\ [worker[w] EXCEPT !.pc = "stop", !.verdict = "failed"] \in Worker
        /\ [worker[w] EXCEPT !.pc = "stop", !.verdict = "timeout"] \in Worker
    BY <1>0, WorkerFields DEF Places, Holding, Executing, Open, Terminal
  <2>2. worker' \in [Workers -> Worker]
    BY <1>5, <2>1 DEF Fail, Timeout
  <2>3. WorkerShape'
    <3>1. CASE Fail(w)
      BY <3>1 DEF Fail, Worker
    <3>2. CASE Timeout(w)
      BY <3>2 DEF Timeout, Worker
    <3> QED
      BY <1>5, <3>1, <3>2
  <2> QED
    BY <1>5, <2>2, <2>3 DEF Fail, Timeout, reaper, api
<1>6. CASE Beat(w)
  <2>1. [row[worker[w].run] EXCEPT !.beat = "fresh"] \in Row
    BY <1>0, <1>6, RowFields DEF Beat, Open
  <2> QED
    BY <1>6, <2>1 DEF Beat, reaper, api
<1> QED
  BY <1>1, <1>2, <1>3, <1>4, <1>5, <1>6

\* The end of an execution, and the worker's death.
LEMMA EndTypes ==
  ASSUME TypeInv, NEW w \in Workers,
         CloseBrowser(w) \/ Reread(w) \/ Write(w) \/ Release(w) \/ Crash(w)
  PROVE  TypeInv'
<1> USE DEF TypeInv, Types, WorkerShape, At
<1>0. /\ worker[w] \in Worker
      /\ worker[w].pc # "idle" => row[worker[w].run] \in Row
  OBVIOUS
<1>1. CASE CloseBrowser(w) \/ Reread(w)
  <2>1. /\ [worker[w] EXCEPT !.pc = "reread"] \in Worker
        /\ worker[w].pc # "idle"
             => [worker[w] EXCEPT !.pc = "write", !.snap = row[worker[w].run]] \in Worker
    BY <1>0, WorkerFields DEF Places, Holding, Executing, Open
  <2>2. worker' \in [Workers -> Worker]
    BY <1>1, <2>1 DEF CloseBrowser, Reread
  <2>3. WorkerShape'
    <3>1. CASE CloseBrowser(w)
      BY <3>1 DEF CloseBrowser, Worker
    <3>2. CASE Reread(w)
      BY <3>2 DEF Reread, Worker
    <3> QED
      BY <1>1, <3>1, <3>2
  <2> QED
    BY <1>1, <2>2, <2>3 DEF CloseBrowser, Reread, reaper, api
<1>2. CASE Write(w)
  <2> DEFINE s == worker[w].snap
  <2>1. s \in Row /\ worker[w].asked \in Nat
    BY <1>0, WorkerFields
  <2>2. Parked(s, worker[w].asked) \in Row
    BY <2>1, RowFields DEF Parked, Active
  <2>3. worker[w].verdict # "waiting" => [s EXCEPT !.status = worker[w].verdict] \in Row
    BY <1>0, <1>2, <2>1, RowFields, WorkerFields DEF Write
  <2>4. row' \in [Runs -> Row]
    BY <1>2, <2>2, <2>3 DEF Write
  <2>5. [Idle EXCEPT !.pc = "release", !.run = worker[w].run] \in Worker
    BY <1>2, ConstantRecords, WorkerFields DEF Write, Places, Holding
  <2>6. worker' \in [Workers -> Worker]
    BY <1>2, <2>5, ConstantRecords DEF Write
  <2>7. WorkerShape'
    BY <1>2, ConstantRecords DEF Write, Idle
  <2> QED
    BY <1>2, <2>4, <2>6, <2>7 DEF Write, reaper, api
<1>3. CASE Release(w)
  BY <1>3, ConstantRecords DEF Release, reaper, api
<1>4. CASE Crash(w)
  <2>1. queued' \in [Runs -> Nat]
    BY <1>4 DEF Crash
  <2> QED
    BY <1>4, <2>1, ConstantRecords DEF Crash, reaper, api
<1> QED
  BY <1>1, <1>2, <1>3, <1>4

LEMMA TypeStep == TypeInv /\ [Next]_vars => TypeInv'
<1>1. CASE UNCHANGED vars
  BY <1>1 DEF TypeInv, Types, WorkerShape, vars
<1> QED
  BY <1>1, ApiTypes, ReaperTypes, ClaimTypes, AgentTypes, EndTypes DEF Next, WorkerStep

\* A fault is counted; a run is remembered.
LEMMA PastStep == TypeInv /\ PastTypes /\ [Next]_vars => PastTypes'
<1> SUFFICES ASSUME TypeInv, PastTypes, [Next]_vars PROVE PastTypes'
  OBVIOUS
<1> DEFINE Kept == UNCHANGED faults
           Counted == faults' = faults + 1
<1>1. Kept \/ Counted => faults' \in Nat
  BY DEF PastTypes
<1>2. CASE UNCHANGED vars
  BY <1>2 DEF PastTypes, vars
<1>3. ASSUME NEW r \in Runs,
             Admit(r) \/ Insert(r) \/ Cancel(r) \/ EndWait(r) \/ GoSilent(r) \/ Reap(r)
             \/ \E q \in 1 .. thread[r].questions : Answer(r, q)
      PROVE  PastTypes'
  <2>1. Kept \/ Counted
    BY <1>3 DEF Admit, Insert, Cancel, EndWait, GoSilent, Reap, Answer, Accept, Sends,
                SendFails, Fault, past
  <2>2. twice' \subseteq Runs /\ stranded' \subseteq Runs /\ misfit' \subseteq Runs
    BY <1>3 DEF PastTypes, Admit, Insert, Cancel, EndWait, GoSilent, Reap, Answer, Accept,
                Sends, SendFails, past
  <2> HIDE DEF Kept, Counted
  <2> QED
    BY <1>1, <2>1, <2>2 DEF PastTypes
<1>4. ASSUME NEW w \in Workers,
             WorkerStep(w) \/ Fail(w) \/ Timeout(w) \/ Beat(w) \/ Crash(w)
      PROVE  PastTypes'
  <2>1. CASE \E r \in Runs : Receive(w, r)
    BY <2>1 DEF PastTypes, Receive
  <2>2. CASE Crash(w)
    <3>1. Counted
      BY <2>2 DEF Crash, Fault
    <3>2. worker[w].run \in Runs
      BY <2>2 DEF Crash, At, TypeInv, WorkerShape
    <3>3. twice' \subseteq Runs /\ stranded' \subseteq Runs /\ misfit' \subseteq Runs
      BY <2>2, <3>2 DEF Crash, PastTypes
    <3> HIDE DEF Kept, Counted
    <3> QED
      BY <1>1, <3>1, <3>3 DEF PastTypes
  <2>3. CASE Save(w)
    BY <2>3 DEF PastTypes, Save
  <2>4. ASSUME ~Crash(w), ~Save(w), ~\E r \in Runs : Receive(w, r)
        PROVE  UNCHANGED past
    BY <1>4, <2>4 DEF WorkerStep, TakeProfile, Refuse, Start, Superstep, Consume, Ask,
      CloseBrowser, Reread, Write, Release, Fail, Timeout, Beat
  <2>5. UNCHANGED past => PastTypes'
    BY DEF PastTypes, past
  <2> QED
    BY <2>1, <2>2, <2>3, <2>4, <2>5
<1>5. CASE Scan \/ Free \/ ReaperStops
  <2>1. Kept \/ Counted
    BY <1>5 DEF Scan, Free, ReaperStops, Fault, past
  <2>2. UNCHANGED <<twice, stranded, misfit>>
    BY <1>5 DEF Scan, Free, ReaperStops, past
  <2> HIDE DEF Kept, Counted
  <2> QED
    BY <1>1, <2>1, <2>2 DEF PastTypes
<1> QED
  BY <1>2, <1>3, <1>4, <1>5 DEF Next

\* The variables keep their types, whatever the instance.
THEOREM TypeCorrect == Spec => []TypeOK
<1>1. Spec => []TypeInv
  BY InitTypes, TypeStep, PTL DEF Spec
<1>2. Init => PastTypes
  BY DEF Init, PastTypes
<1>3. Spec => [](TypeInv /\ PastTypes)
  BY <1>1, <1>2, PastStep, PTL DEF Spec
<1>4. TypeInv /\ PastTypes => TypeOK
  BY DEF TypeInv, Types, PastTypes, TypeOK
<1> QED
  BY <1>3, <1>4, PTL

-----------------------------------------------------------------------------
(* The profile. *)

LEMMA InitHold == Init => HoldInv
<1> SUFFICES ASSUME Init PROVE HoldInv
  OBVIOUS
<1>1. \A w \in Workers : ~Holder(w)
  BY DEF Init, Holder, Idle, Holding, Executing, Open
<1>2. \A r \in Runs : ~RowClaim(r)
  BY NamesAssumption DEF Init, RowClaim, Blank
<1>3. freeing = NoRun
  BY DEF Init
<1> QED
  BY <1>1, <1>2, <1>3
     DEF HoldInv, HoldersApart, HolderAndClaimsApart, HolderNotReaped, ClaimsApart, HeldIsInUse,
         FreedNotRunning, BetweenNotRunning, SilentIsOrphan

\* What the writes of a worker do to the status of a row.
LEMMA RowEffects ==
  ASSUME NEW c \in Row
  PROVE  /\ \A x : [c EXCEPT !.status = x].status = x
         /\ AnswerTaken(c).status = c.status /\ AnswerTaken(c).beat = c.beat
         /\ \A n : Parked(c, n).status = "waiting"
  BY DEF Row, AnswerTaken, Parked

\* What most steps do to the profiles: nobody new holds one or has a claim to one.
Quiet ==
  /\ UNCHANGED <<inUse, profileOf, reaping, freeing>>
  /\ \A w \in Workers :
       Holder(w)' => /\ Holder(w) /\ worker'[w].run = worker[w].run
                     /\ worker'[w].pc \in {"save", "release"}
                          => \/ worker'[w].pc = worker[w].pc
                             \/ row'[worker[w].run].status # "running"
  /\ \A r \in Runs :
       HasProfile(r) /\ row'[r].status = "running"
         => /\ row[r].status = "running"
            /\ row'[r].beat = "silent" => row[r].beat = "silent"

LEMMA QuietKeepsHold ==
  ASSUME TypeInv, HoldInv, Quiet
  PROVE  HoldInv'
<1> USE DEF HoldInv
<1>1. \A r \in Runs : RowClaim(r)' => RowClaim(r)
  BY DEF Quiet, RowClaim, HasProfile
<1>2. \A w \in Workers :
        Holder(w)' => Holder(w) /\ worker'[w].run = worker[w].run /\ worker[w].run \in Runs
  BY DEF Quiet, Holder, Holding, Executing, Open, TypeInv, WorkerShape
<1>3. profileOf' = profileOf /\ inUse' = inUse /\ reaping' = reaping /\ freeing' = freeing
  BY DEF Quiet
<1>4. HoldersApart'
  BY <1>2, <1>3 DEF HoldersApart
<1>5. HolderAndClaimsApart'
  BY <1>1, <1>2, <1>3 DEF HolderAndClaimsApart
<1>6. HolderNotReaped'
  BY <1>2, <1>3 DEF HolderNotReaped
<1>7. ClaimsApart'
  BY <1>1, <1>3 DEF ClaimsApart
<1>8. HeldIsInUse'
  BY <1>1, <1>2, <1>3 DEF HeldIsInUse
<1>9. FreedNotRunning'
  BY <1>3 DEF FreedNotRunning, Quiet, HasProfile, TypeInv, Types
<1>10. BetweenNotRunning'
  <2> SUFFICES ASSUME NEW w \in Workers, Holder(w)', worker'[w].pc \in {"save", "release"}
               PROVE  row'[worker'[w].run].status # "running"
    BY DEF BetweenNotRunning
  <2>1. Holder(w) /\ worker'[w].run = worker[w].run /\ worker[w].run \in Runs
    BY <1>2
  <2>2. HasProfile(worker[w].run)
    BY <2>1 DEF Holder
  <2>3. CASE row'[worker[w].run].status # "running"
    BY <2>1, <2>3
  <2>4. CASE worker'[w].pc = worker[w].pc
    <3>1. row[worker[w].run].status # "running"
      BY <2>1, <2>4 DEF BetweenNotRunning
    <3> QED
      BY <2>1, <2>2, <3>1 DEF Quiet
  <2> QED
    BY <2>3, <2>4 DEF Quiet
<1>11. SilentIsOrphan'
  <2> SUFFICES ASSUME NEW w \in Workers, Holder(w)'
               PROVE  (worker[w].run \notin Stale)'
    BY DEF SilentIsOrphan
  <2>1. Holder(w) /\ worker'[w].run = worker[w].run /\ worker[w].run \in Runs
    BY <1>2
  <2>2. HasProfile(worker[w].run) /\ worker[w].run \notin Stale
    BY <2>1 DEF Holder, SilentIsOrphan
  <2> QED
    BY <2>1, <2>2 DEF Quiet, Stale
<1> QED
  BY <1>4, <1>5, <1>6, <1>7, <1>8, <1>9, <1>10, <1>11

\* The requests are quiet: they make no run running, and touch no worker.
LEMMA ApiIsQuiet ==
  ASSUME TypeInv, NEW r \in Runs,
         Admit(r) \/ Insert(r) \/ Cancel(r) \/ EndWait(r)
         \/ \E q \in 1 .. thread[r].questions : Answer(r, q)
  PROVE  Quiet
<1>1. UNCHANGED <<inUse, profileOf, reaping, freeing, worker>>
  BY DEF Admit, Insert, Cancel, EndWait, Answer, Accept, reaper, api
<1>2. \A q \in Runs : row'[q].status = "running" => row[q].status = "running" /\ row'[q].beat = row[q].beat
  <2> USE DEF TypeInv, Types, Row
  <2>1. CASE Admit(r)
    BY <2>1 DEF Admit
  <2>2. CASE Insert(r)
    BY <2>2 DEF Insert
  <2>3. CASE Cancel(r)
    BY <2>3 DEF Cancel
  <2>4. CASE EndWait(r)
    BY <2>4 DEF EndWait
  <2>5. CASE \E q \in 1 .. thread[r].questions : Answer(r, q)
    BY <2>5 DEF Answer, Accept
  <2> QED
    BY <2>1, <2>2, <2>3, <2>4, <2>5
<1> QED
  BY <1>1, <1>2 DEF Quiet, Holder, HasProfile

\* A delivery makes nobody a holder: a run with a profile has to take it first.
LEMMA ReceiveIsQuiet ==
  ASSUME TypeInv, NEW w \in Workers, NEW r \in Runs, Receive(w, r)
  PROVE  Quiet
<1>1. UNCHANGED <<row, inUse, profileOf, reaping, freeing>>
  BY DEF Receive, reaper, api
<1>2. \A v \in Workers : v # w => worker'[v] = worker[v]
  BY DEF Receive, TypeInv, Types
<1>3. \/ worker'[w] = worker[w]
      \/ worker'[w].pc \in {"refuse", "profile"}
      \/ ~HasProfile(worker'[w].run)
  <2>1. \/ UNCHANGED worker
        \/ worker' = [worker EXCEPT ![w] = [Idle EXCEPT !.pc = "refuse", !.run = r,
                                              !.snap = row[r], !.verdict = "cancelled"]]
        \/ worker' = [worker EXCEPT ![w] = [Idle EXCEPT !.pc = IF HasProfile(r) THEN "profile" ELSE "save",
                                              !.run = r, !.snap = row[r], !.verdict = "none"]]
    BY DEF Receive
  <2> QED
    BY <2>1 DEF TypeInv, Types, Idle
<1> QED
  BY <1>1, <1>2, <1>3 DEF Quiet, Holder, HasProfile, Holding, Executing, Open

\* An execution keeps what it holds, a worker that writes the row or dies gives it up.
LEMMA WorkIsQuiet ==
  ASSUME TypeInv, NEW w \in Workers,
         \/ Start(w) \/ Superstep(w) \/ Consume(w) \/ Ask(w) \/ Fail(w) \/ Timeout(w)
         \/ Beat(w) \/ CloseBrowser(w) \/ Reread(w)
  PROVE  Quiet
<1> USE DEF TypeInv, Types
<1>1. UNCHANGED <<inUse, profileOf, reaping, freeing>>
  BY DEF Start, Superstep, Consume, Ask, Fail, Timeout, Beat, CloseBrowser, Reread, reaper, api
<1>2. \A q \in Runs : /\ row'[q].status = row[q].status
                      /\ row'[q].beat = "silent" => row[q].beat = "silent"
  <2> USE DEF Row
  <2>1. CASE Start(w)
    <3>1. \/ row' = [row EXCEPT ![worker[w].run] = AnswerTaken(row[worker[w].run])]
          \/ row' = row
      BY <2>1 DEF Start
    <3>2. \A q \in Runs : row'[q] = row[q] \/ row'[q] = AnswerTaken(row[q])
      BY <3>1
    <3>3. \A q \in Runs : row[q] \in Row
      OBVIOUS
    <3> HIDE DEF TypeInv, Types, Row
    <3> QED
      BY <3>2, <3>3, RowEffects
  <2>2. CASE Beat(w)
    BY <2>2 DEF Beat
  <2> QED
    BY <2>1, <2>2 DEF Superstep, Consume, Ask, Fail, Timeout, CloseBrowser, Reread
<1>3. \A v \in Workers :
        /\ worker'[v].run = worker[v].run
        /\ worker'[v].pc \in Holding => worker[v].pc \in Holding
        /\ worker'[v].pc \in {"save", "release"} => worker'[v].pc = worker[v].pc
  <2> USE DEF Worker, At, Holding, Executing, Open
  <2>1. CASE Start(w)
    <3>1. worker[w].pc = "start"
      BY <2>1 DEF Start
    <3>2. \/ worker' = [worker EXCEPT ![w].pc = "ask", ![w].snap = Blank]
          \/ worker' = [worker EXCEPT ![w].pc = "run", ![w].snap = Blank]
          \/ worker' = [Numbering(w) EXCEPT ![w].pc = "run", ![w].snap = Blank,
                                            ![w].taken = row[worker[w].run].answer]
      BY <2>1 DEF Start
    <3>3. CASE worker' = [Numbering(w) EXCEPT ![w].pc = "run", ![w].snap = Blank,
                                              ![w].taken = row[worker[w].run].answer]
      BY <3>1, <3>3, NumberingTyped
    <3> QED
      BY <3>1, <3>2, <3>3
  <2>2. CASE Superstep(w)
    BY <2>2 DEF Superstep
  <2>3. CASE Consume(w)
    <3>1. worker[w].pc = "consume"
      BY <2>3 DEF Consume
    <3>2. \/ worker' = [worker EXCEPT ![w].pc = "stop", ![w].verdict = "failed"]
          \/ \E place \in {"stop", "run", "ask"}, verdict \in {"cancelled", "none", "succeeded"} :
               worker' = [Numbering(w) EXCEPT ![w].pc = place, ![w].verdict = verdict]
      BY <2>3 DEF Consume
    <3>3. CASE worker' = [worker EXCEPT ![w].pc = "stop", ![w].verdict = "failed"]
      BY <3>1, <3>3
    <3>4. ASSUME NEW place \in {"stop", "run", "ask"}, NEW verdict \in {"cancelled", "none", "succeeded"},
                 worker' = [Numbering(w) EXCEPT ![w].pc = place, ![w].verdict = verdict]
          PROVE  \A v \in Workers :
                   /\ worker'[v].run = worker[v].run
                   /\ worker'[v].pc \in Holding => worker[v].pc \in Holding
                   /\ worker'[v].pc \in {"save", "release"} => worker'[v].pc = worker[v].pc
      BY <3>1, <3>4, NumberingTyped
    <3> QED
      BY <3>2, <3>3, <3>4
  <2>4. CASE Ask(w)
    BY <2>4, NumberingTyped DEF Ask
  <2>5. CASE Fail(w)
    BY <2>5 DEF Fail
  <2>6. CASE Timeout(w)
    BY <2>6 DEF Timeout
  <2>7. CASE Beat(w)
    BY <2>7 DEF Beat
  <2>8. CASE CloseBrowser(w)
    BY <2>8 DEF CloseBrowser
  <2>9. CASE Reread(w)
    BY <2>9 DEF Reread
  <2> QED
    BY <2>1, <2>2, <2>3, <2>4, <2>5, <2>6, <2>7, <2>8, <2>9
<1>4. \A v \in Workers : Holder(v)' => Holder(v)
  BY <1>1, <1>3 DEF Holder, HasProfile
<1>5. \A v \in Workers :
        Holder(v)' => /\ Holder(v) /\ worker'[v].run = worker[v].run
                      /\ worker'[v].pc \in {"save", "release"}
                           => \/ worker'[v].pc = worker[v].pc
                              \/ row'[worker[v].run].status # "running"
  BY <1>3, <1>4
<1>6. \A q \in Runs :
        HasProfile(q) /\ row'[q].status = "running"
          => row[q].status = "running" /\ (row'[q].beat = "silent" => row[q].beat = "silent")
  BY <1>2
<1> QED
  BY <1>1, <1>5, <1>6 DEF Quiet

LEMMA EndIsQuiet ==
  ASSUME TypeInv, NEW w \in Workers, Refuse(w) \/ Write(w) \/ Crash(w)
  PROVE  Quiet
<1> USE DEF TypeInv, Types, At
<1>1. CASE Crash(w)
  <2>1. worker' = [worker EXCEPT ![w] = Idle] /\ UNCHANGED <<row, inUse, profileOf, reaping, freeing>>
    BY <1>1 DEF Crash, reaper, api
  <2> QED
    BY <2>1, ConstantRecords DEF Quiet, Holder, HasProfile, Holding, Executing, Open
<1>2. CASE Refuse(w)
  <2>1. /\ worker' = [worker EXCEPT ![w] = Idle]
        /\ UNCHANGED <<inUse, profileOf, reaping, freeing>>
    BY <1>2 DEF Refuse, reaper, api
  <2>2. \A q \in Runs : row'[q].status = "running" => row'[q] = row[q]
    <3> DEFINE r == worker[w].run
    <3>1. /\ worker[w].snap \in Row /\ r \in Runs
          /\ worker[w].verdict \in {"waiting"} \union Terminal
      BY <1>2, WorkerFields DEF Refuse, WorkerShape
    <3>2. row' = [row EXCEPT ![r] = [worker[w].snap EXCEPT !.status = worker[w].verdict]]
      BY <1>2 DEF Refuse
    <3>3. row'[r].status # "running"
      BY <3>1, <3>2, RowEffects DEF Terminal
    <3> QED
      BY <3>2, <3>3
  <2> QED
    BY <2>1, <2>2, ConstantRecords DEF Quiet, Holder, HasProfile, Holding, Executing, Open
<1>3. CASE Write(w)
  <2> DEFINE r == worker[w].run
  <2>1. r \in Runs /\ worker[w].verdict \in {"waiting"} \union Terminal
    BY <1>3, WorkerFields DEF Write, WorkerShape
  <2>2. row'[r].status # "running"
    <3>1. worker[w].snap \in Row
      BY WorkerFields
    <3>2. row'[r] = IF worker[w].verdict = "waiting"
                      THEN Parked(worker[w].snap, worker[w].asked)
                      ELSE [worker[w].snap EXCEPT !.status = worker[w].verdict]
      BY <1>3, <2>1 DEF Write
    <3> QED
      BY <2>1, <3>1, <3>2, RowEffects DEF Terminal
  <2>3. \A q \in Runs : q # r => row'[q] = row[q]
    BY <1>3 DEF Write
  <2>4. /\ worker'[w].pc \in Holding => worker'[w].pc = "release" /\ worker'[w].run = r
        /\ \A v \in Workers : v # w => worker'[v] = worker[v]
    BY <1>3, <2>1, ConstantRecords DEF Write, Idle, Holding, Executing, Open
  <2>5. UNCHANGED <<inUse, profileOf, reaping, freeing>>
    BY <1>3 DEF Write, reaper, api
  <2>6. worker[w].pc \in Holding
    BY <1>3 DEF Write, Holding, Executing
  <2> QED
    BY <2>2, <2>3, <2>4, <2>5, <2>6 DEF Quiet, Holder, HasProfile
<1> QED
  BY <1>1, <1>2, <1>3

\* The profile is taken only while inUse is false, that is, while nobody holds or
\* claims it.
LEMMA TakeProfileKeepsHold ==
  ASSUME TypeInv, HoldInv, NEW w \in Workers, TakeProfile(w)
  PROVE  HoldInv'
<1> DEFINE run == worker[w].run
           p == profileOf[run]
<1>1. UNCHANGED <<row, reaping, freeing, profileOf>> /\ run \in Runs
  BY DEF TakeProfile, At, reaper, api, TypeInv, WorkerShape
<1>2. CASE inUse[p]
  <2>1. inUse' = inUse /\ worker' = [worker EXCEPT ![w].pc = "refuse", ![w].verdict = "failed"]
    BY <1>2 DEF TakeProfile
  <2>2. \A v \in Workers : Holder(v)' => v # w /\ worker'[v] = worker[v]
    BY <2>1 DEF Holder, Holding, Executing, Open, TypeInv, Types, Worker
  <2>3. Quiet
    BY <1>1, <2>1, <2>2 DEF Quiet, Holder, HasProfile
  <2> QED
    BY <2>3, QuietKeepsHold
<1>3. CASE ~inUse[p]
  <2>1. /\ inUse' = [inUse EXCEPT ![p] = TRUE]
        /\ worker' = [worker EXCEPT ![w].pc = "save"]
    BY <1>3 DEF TakeProfile
  <2>2. /\ worker'[w].pc = "save" /\ worker'[w].run = run
        /\ \A v \in Workers : v # w => worker'[v] = worker[v]
    BY <2>1 DEF TypeInv, Types, Worker
  <2>3. /\ \A v \in Workers : Holder(v) => profileOf[worker[v].run] # p
        /\ \A r \in Runs : RowClaim(r) => profileOf[r] # p
    BY <1>3 DEF HoldInv, HeldIsInUse
  <2>4. /\ \A v \in Workers : v # w => (Holder(v)' <=> Holder(v)) /\ worker'[v].run = worker[v].run
        /\ \A r \in Runs : RowClaim(r)' <=> RowClaim(r)
    BY <1>1, <2>2 DEF Holder, RowClaim, HasProfile
  <2>5. ~RowClaim(run) \/ ~HasProfile(run)
    BY <1>1, <2>3
  <2>6. HoldersApart'
    BY <1>1, <2>2, <2>3, <2>4 DEF HoldInv, HoldersApart
  <2>7. HolderAndClaimsApart'
    BY <1>1, <2>2, <2>3, <2>4 DEF HoldInv, HolderAndClaimsApart
  <2>8. HolderNotReaped'
    BY <1>1, <2>2, <2>4, <2>5 DEF HoldInv, HolderNotReaped, Holder, RowClaim, HasProfile
  <2>9. ClaimsApart' /\ FreedNotRunning'
    BY <1>1, <2>4 DEF HoldInv, ClaimsApart, FreedNotRunning, HasProfile
  <2>10. HeldIsInUse'
    <3>1. \A q \in Profiles : inUse[q] => inUse'[q]
      BY <2>1 DEF TypeInv, Types
    <3>2. /\ \A r \in Runs : HasProfile(r) => profileOf[r] \in Profiles
          /\ HasProfile(run) => inUse'[p]
      BY <1>1, <2>1 DEF TypeInv, Types, HasProfile
    <3>3. \A r \in Runs : RowClaim(r)' => inUse'[profileOf'[r]]
      BY <1>1, <2>4, <3>1, <3>2 DEF HoldInv, HeldIsInUse, RowClaim
    <3>4. \A v \in Workers : Holder(v)' => inUse'[profileOf'[worker'[v].run]]
      <4>1. \A v \in Workers : Holder(v) => worker[v].run \in Runs /\ HasProfile(worker[v].run)
        BY DEF Holder, Holding, Executing, Open, TypeInv, WorkerShape
      <4>2. Holder(w)' => HasProfile(run)
        BY <1>1, <2>2 DEF Holder, HasProfile
      <4> QED
        BY <1>1, <2>2, <2>4, <3>1, <3>2, <4>1, <4>2 DEF HoldInv, HeldIsInUse
    <3> QED
      BY <3>3, <3>4 DEF HeldIsInUse
  <2>11. BetweenNotRunning'
    <3>1. Holder(w)' => row[run].status # "running"
      BY <1>1, <2>2, <2>5 DEF Holder, RowClaim, HasProfile
    <3> QED
      BY <1>1, <2>2, <2>4, <3>1 DEF HoldInv, BetweenNotRunning
  <2>12. SilentIsOrphan'
    <3>1. Holder(w)' => run \notin Stale
      BY <1>1, <2>2, <2>5 DEF Holder, RowClaim, HasProfile, Stale
    <3>2. Stale' = Stale
      BY <1>1 DEF Stale
    <3> QED
      BY <2>2, <2>4, <3>1, <3>2 DEF HoldInv, SilentIsOrphan
  <2> QED
    BY <2>6, <2>7, <2>8, <2>9, <2>10, <2>11, <2>12 DEF HoldInv
<1> QED
  BY <1>2, <1>3

\* The row starts to say what the worker holds; no other row and no reaper does.
LEMMA SaveKeepsHold ==
  ASSUME TypeInv, HoldInv, NEW w \in Workers, Save(w)
  PROVE  HoldInv'
<1> DEFINE run == worker[w].run
<1>1. UNCHANGED <<inUse, reaping, freeing, profileOf>> /\ run \in Runs /\ worker[w].pc = "save"
  BY DEF Save, At, reaper, api, TypeInv, WorkerShape
<1>2. /\ row'[run].status = "running" /\ row'[run].beat = "fresh"
      /\ \A r \in Runs : r # run => row'[r] = row[r]
  BY <1>1 DEF Save, TypeInv, Types, Row
<1>3. /\ worker'[w].pc = "start" /\ worker'[w].run = run
      /\ \A v \in Workers : v # w => worker'[v] = worker[v]
  BY DEF Save, TypeInv, Types, Worker
<1>4. \A v \in Workers : (Holder(v)' <=> Holder(v)) /\ worker'[v].run = worker[v].run
  BY <1>1, <1>3 DEF Holder, HasProfile, Holding, Executing, Open
<1>5. Holder(w) <=> HasProfile(run)
  BY <1>1 DEF Holder, Holding
<1>6. \A r \in Runs : r # run => (RowClaim(r)' <=> RowClaim(r))
  BY <1>1, <1>2 DEF RowClaim, HasProfile
<1>7. RowClaim(run)' => Holder(w)
  BY <1>1, <1>3, <1>5 DEF RowClaim, HasProfile
<1>8. HoldersApart'
  BY <1>1, <1>4 DEF HoldInv, HoldersApart
<1>9. HolderAndClaimsApart'
  BY <1>1, <1>4, <1>6, <1>7 DEF HoldInv, HolderAndClaimsApart, HoldersApart
<1>10. HolderNotReaped'
  BY <1>1, <1>4 DEF HoldInv, HolderNotReaped
<1>11. ClaimsApart'
  BY <1>1, <1>3, <1>6, <1>7 DEF HoldInv, ClaimsApart, HolderAndClaimsApart
<1>12. HeldIsInUse'
  BY <1>1, <1>4, <1>6, <1>7 DEF HoldInv, HeldIsInUse
<1>13. FreedNotRunning'
  <2>1. freeing # NoRun => freeing \in Runs /\ HasProfile(freeing)
    BY DEF HoldInv, FreedNotRunning, TypeInv, Types
  <2>2. freeing # run \/ ~HasProfile(run)
    BY <1>5 DEF HoldInv, HolderNotReaped
  <2> QED
    BY <1>1, <1>2, <2>1, <2>2 DEF HoldInv, FreedNotRunning, HasProfile
<1>14. BetweenNotRunning'
  <2> SUFFICES ASSUME NEW v \in Workers, Holder(v)', worker'[v].pc \in {"save", "release"}
               PROVE  row'[worker'[v].run].status # "running"
    BY DEF BetweenNotRunning
  <2>1. v # w /\ worker'[v] = worker[v] /\ Holder(v) /\ worker[v].run \in Runs
    BY <1>3, <1>4 DEF Holder, Holding, Executing, Open, TypeInv, WorkerShape
  <2>2. row[worker[v].run].status # "running"
    BY <2>1 DEF HoldInv, BetweenNotRunning
  <2>3. worker[v].run # run
    BY <1>5, <2>1 DEF HoldInv, HoldersApart, Holder
  <2> QED
    BY <1>2, <2>1, <2>2, <2>3
<1>15. SilentIsOrphan'
  <2>1. \A r \in Runs : (r \in Stale)' => r \in Stale
    BY <1>2 DEF Stale
  <2>2. \A v \in Workers : Holder(v) => worker[v].run \in Runs
    BY DEF Holder, Holding, Executing, Open, TypeInv, WorkerShape
  <2> QED
    BY <1>4, <2>1, <2>2 DEF HoldInv, SilentIsOrphan
<1> QED
  BY <1>8, <1>9, <1>10, <1>11, <1>12, <1>13, <1>14, <1>15 DEF HoldInv

\* A worker that has written the row frees the profile nobody else can have by now.
LEMMA ReleaseKeepsHold ==
  ASSUME TypeInv, HoldInv, NEW w \in Workers, Release(w)
  PROVE  HoldInv'
<1> DEFINE run == worker[w].run
           p == profileOf[run]
<1>1. /\ UNCHANGED <<row, reaping, freeing, profileOf>>
      /\ run \in Runs /\ worker[w].pc = "release"
  BY DEF Release, At, reaper, api, TypeInv, WorkerShape
<1>2. /\ inUse' = [inUse EXCEPT ![p] = FALSE]
      /\ worker'[w] = Idle
      /\ \A v \in Workers : v # w => worker'[v] = worker[v]
  BY DEF Release, TypeInv, Types
<1>3. \A v \in Workers : Holder(v)' => Holder(v) /\ v # w /\ worker'[v] = worker[v]
  BY <1>1, <1>2, ConstantRecords DEF Holder, HasProfile, Holding, Executing, Open
<1>4. \A r \in Runs : RowClaim(r)' <=> RowClaim(r)
  BY <1>1 DEF RowClaim, HasProfile
<1>5. Holder(w) <=> HasProfile(run)
  BY <1>1 DEF Holder, Holding
<1>6. /\ \A v \in Workers : Holder(v)' => profileOf[worker[v].run] # p
      /\ \A r \in Runs : RowClaim(r) => profileOf[r] # p
  <2>1. CASE HasProfile(run)
    <3>1. ~RowClaim(run)
      BY <1>1, <1>5, <2>1 DEF RowClaim, HoldInv, HolderNotReaped, BetweenNotRunning
    <3> QED
      BY <1>1, <1>3, <1>5, <2>1, <3>1 DEF HoldInv, HoldersApart, HolderAndClaimsApart
  <2>2. CASE ~HasProfile(run)
    BY <1>3, <2>2 DEF Holder, RowClaim, HasProfile
  <2> QED
    BY <2>1, <2>2
<1>7. HoldersApart' /\ HolderAndClaimsApart' /\ HolderNotReaped' /\ ClaimsApart'
  BY <1>1, <1>3, <1>4
     DEF HoldInv, HoldersApart, HolderAndClaimsApart, HolderNotReaped, ClaimsApart
<1>8. HeldIsInUse'
  <2>1. \A q : q # p /\ inUse[q] => inUse'[q]
    BY <1>2 DEF TypeInv, Types
  <2> QED
    BY <1>1, <1>3, <1>4, <1>6, <2>1 DEF HoldInv, HeldIsInUse
<1>9. FreedNotRunning' /\ BetweenNotRunning' /\ SilentIsOrphan'
  BY <1>1, <1>3
     DEF HoldInv, FreedNotRunning, BetweenNotRunning, SilentIsOrphan, Stale, HasProfile
<1> QED
  BY <1>7, <1>8, <1>9 DEF HoldInv

\* A run falls silent only when no worker executes it: this is where Timely is used.
LEMMA GoSilentKeepsHold ==
  ASSUME Timely, TypeInv, HoldInv, NEW r \in Runs, GoSilent(r)
  PROVE  HoldInv'
<1>1. UNCHANGED <<inUse, worker, reaping, freeing, profileOf>>
  BY DEF GoSilent, reaper, api
<1>2. /\ row[r].status = "running" /\ row'[r].status = "running"
      /\ \A q \in Runs : q # r => row'[q] = row[q]
  BY DEF GoSilent, TypeInv, Types, Row
<1>3. /\ \A w \in Workers : Holder(w)' <=> Holder(w)
      /\ \A w \in Workers : Holder(w) => worker[w].run \in Runs
      /\ \A q \in Runs : row'[q].status = row[q].status
  BY <1>1, <1>2 DEF Holder, HasProfile, Holding, Executing, Open, TypeInv, WorkerShape
<1>4. \A q \in Runs : RowClaim(q)' <=> RowClaim(q)
  BY <1>1, <1>3 DEF RowClaim, HasProfile
<1>5. \A w \in Workers : Holder(w) => worker[w].run # r
  <2> SUFFICES ASSUME NEW w \in Workers, Holder(w), worker[w].run = r
               PROVE  FALSE
    OBVIOUS
  <2>1. worker[w].pc \notin Executing
    BY DEF GoSilent
  <2>2. worker[w].pc \in {"save", "release"}
    BY <2>1 DEF Holder, Holding
  <2> QED
    BY <1>2, <2>2 DEF HoldInv, BetweenNotRunning
<1>6. /\ HoldersApart' /\ HolderAndClaimsApart' /\ HolderNotReaped' /\ ClaimsApart'
      /\ HeldIsInUse'
  BY <1>1, <1>3, <1>4
     DEF HoldInv, HoldersApart, HolderAndClaimsApart, HolderNotReaped, ClaimsApart, HeldIsInUse
<1>7. FreedNotRunning' /\ BetweenNotRunning'
  BY <1>1, <1>3
     DEF HoldInv, FreedNotRunning, BetweenNotRunning, HasProfile, TypeInv, Types
<1>8. SilentIsOrphan'
  <2>1. \A q \in Runs : q # r => ((q \in Stale)' <=> q \in Stale)
    BY <1>2 DEF Stale
  <2> QED
    BY <1>1, <1>3, <1>5, <2>1 DEF HoldInv, SilentIsOrphan
<1> QED
  BY <1>6, <1>7, <1>8 DEF HoldInv

\* The reaper selects runs that are claimed already, and that no worker holds.
LEMMA ScanKeepsHold ==
  ASSUME TypeInv, HoldInv, Scan
  PROVE  HoldInv'
<1>1. /\ UNCHANGED <<row, inUse, worker, freeing, profileOf>>
      /\ reaping = {} /\ freeing = NoRun /\ reaping' = Stale
  BY DEF Scan, api
<1>2. \A w \in Workers : (Holder(w)' <=> Holder(w)) /\ (Holder(w) => worker[w].run \in Runs)
  BY <1>1 DEF Holder, HasProfile, Holding, Executing, Open, TypeInv, WorkerShape
<1>3. \A r \in Runs : RowClaim(r)' => RowClaim(r)
  BY <1>1 DEF RowClaim, HasProfile, Stale
<1>4. /\ HoldersApart' /\ HolderAndClaimsApart' /\ ClaimsApart' /\ HeldIsInUse'
      /\ FreedNotRunning' /\ BetweenNotRunning' /\ SilentIsOrphan'
  BY <1>1, <1>2, <1>3
     DEF HoldInv, HoldersApart, HolderAndClaimsApart, ClaimsApart, HeldIsInUse, FreedNotRunning,
         BetweenNotRunning, SilentIsOrphan, Stale
<1>5. HolderNotReaped'
  BY <1>1, <1>2, NamesAssumption DEF HoldInv, HolderNotReaped, SilentIsOrphan
<1> QED
  BY <1>4, <1>5 DEF HoldInv

\* The reaper takes a run off its list: what it claimed stays claimed while it is freed.
LEMMA ReapKeepsHold ==
  ASSUME TypeInv, HoldInv, NEW r \in Runs, Reap(r)
  PROVE  HoldInv'
<1>1. /\ UNCHANGED <<inUse, worker, profileOf>>
      /\ r \in reaping /\ freeing = NoRun /\ reaping' \subseteq reaping \ {r}
  BY DEF Reap, Goes, Abandon, api
<1>2. CASE row[r].status # "running"
  <2>1. row' = row /\ freeing' = freeing
    BY <1>2 DEF Reap
  <2>2. \A w \in Workers : (Holder(w)' <=> Holder(w)) /\ (Holder(w) => worker[w].run \in Runs)
    BY <1>1 DEF Holder, HasProfile, Holding, Executing, Open, TypeInv, WorkerShape
  <2>3. \A q \in Runs : RowClaim(q)' => RowClaim(q)
    BY <1>1, <2>1 DEF RowClaim, HasProfile
  <2>4. /\ HoldersApart' /\ HolderAndClaimsApart' /\ HolderNotReaped' /\ ClaimsApart'
        /\ HeldIsInUse' /\ FreedNotRunning' /\ BetweenNotRunning' /\ SilentIsOrphan'
    BY <1>1, <2>1, <2>2, <2>3
       DEF HoldInv, HoldersApart, HolderAndClaimsApart, HolderNotReaped, ClaimsApart, HeldIsInUse,
           FreedNotRunning, BetweenNotRunning, SilentIsOrphan, Stale
  <2> QED
    BY <2>4 DEF HoldInv
<1>3. CASE row[r].status = "running"
  <2>1. row'[r].status # "running" /\ \A q \in Runs : q # r => row'[q] = row[q]
    <3>1. \/ row' = [row EXCEPT ![r] = Requeued(row[r])]
          \/ row' = [row EXCEPT ![r].status = "failed"]
      BY <1>3 DEF Reap
    <3>2. Requeued(row[r]).status = "queued"
      BY DEF Requeued, TypeInv, Types, Row
    <3> QED
      BY <3>1, <3>2 DEF TypeInv, Types, Row
  <2>2. freeing' = NoRun \/ (HasProfile(r) /\ freeing' = r)
    <3>1. freeing' = NoRun \/ Frees(r)
      BY <1>1, <1>3 DEF Reap, Abandon
    <3>2. CASE HasProfile(r)
      BY <3>1, <3>2 DEF Frees
    <3>3. CASE ~HasProfile(r)
      BY <3>1, <3>3 DEF Frees
    <3> QED
      BY <3>2, <3>3
  <2>3. \A w \in Workers : (Holder(w)' <=> Holder(w)) /\ (Holder(w) => worker[w].run \in Runs)
    BY <1>1 DEF Holder, HasProfile, Holding, Executing, Open, TypeInv, WorkerShape
  <2>4. \A q \in Runs : RowClaim(q)' => RowClaim(q)
    BY <1>1, <2>1, <2>2, NamesAssumption DEF RowClaim, HasProfile
  <2>5. HoldersApart' /\ HolderAndClaimsApart' /\ ClaimsApart' /\ HeldIsInUse'
    BY <1>1, <2>3, <2>4
       DEF HoldInv, HoldersApart, HolderAndClaimsApart, ClaimsApart, HeldIsInUse
  <2>6. HolderNotReaped'
    BY <1>1, <2>2, <2>3, NamesAssumption DEF HoldInv, HolderNotReaped
  <2>7. FreedNotRunning'
    BY <1>1, <2>1, <2>2 DEF FreedNotRunning, HasProfile
  <2>8. BetweenNotRunning'
    BY <1>1, <2>1, <2>3 DEF HoldInv, BetweenNotRunning
  <2>9. SilentIsOrphan'
    BY <1>1, <2>1, <2>3 DEF HoldInv, SilentIsOrphan, Stale
  <2> QED
    BY <2>5, <2>6, <2>7, <2>8, <2>9 DEF HoldInv
<1> QED
  BY <1>2, <1>3

LEMMA FreeKeepsHold ==
  ASSUME TypeInv, HoldInv, Free
  PROVE  HoldInv'
<1> DEFINE p == profileOf[freeing]
<1>1. /\ UNCHANGED <<row, worker, reaping, profileOf>>
      /\ freeing # NoRun /\ freeing \in Runs /\ freeing' = NoRun
      /\ inUse' = [inUse EXCEPT ![p] = FALSE]
  BY DEF Free, api, TypeInv, Types
<1>2. RowClaim(freeing)
  BY <1>1 DEF RowClaim, HoldInv, FreedNotRunning
<1>3. \A w \in Workers : (Holder(w)' <=> Holder(w)) /\ (Holder(w) => worker[w].run \in Runs)
  BY <1>1 DEF Holder, HasProfile, Holding, Executing, Open, TypeInv, WorkerShape
<1>4. \A q \in Runs : RowClaim(q)' => RowClaim(q) /\ q # freeing
  BY <1>1, NamesAssumption DEF RowClaim, HasProfile, HoldInv, FreedNotRunning
<1>5. /\ \A w \in Workers : Holder(w) => profileOf[worker[w].run] # p
      /\ \A q \in Runs : RowClaim(q)' => profileOf[q] # p
  BY <1>1, <1>2, <1>3, <1>4 DEF HoldInv, HolderAndClaimsApart, HolderNotReaped, ClaimsApart
<1>6. HeldIsInUse'
  <2>1. \A q : q # p /\ inUse[q] => inUse'[q]
    BY <1>1 DEF TypeInv, Types
  <2> QED
    BY <1>1, <1>3, <1>4, <1>5, <2>1 DEF HoldInv, HeldIsInUse
<1>7. HoldersApart' /\ HolderAndClaimsApart' /\ ClaimsApart'
  BY <1>1, <1>3, <1>4 DEF HoldInv, HoldersApart, HolderAndClaimsApart, ClaimsApart
<1>8. HolderNotReaped'
  BY <1>1, <1>3, NamesAssumption DEF HoldInv, HolderNotReaped
<1>9. FreedNotRunning' /\ BetweenNotRunning' /\ SilentIsOrphan'
  BY <1>1, <1>3 DEF HoldInv, FreedNotRunning, BetweenNotRunning, SilentIsOrphan, Stale
<1> QED
  BY <1>6, <1>7, <1>8, <1>9 DEF HoldInv

\* A reaper that stops claims nothing any more.
LEMMA ReaperStopsKeepsHold ==
  ASSUME TypeInv, HoldInv, ReaperStops
  PROVE  HoldInv'
<1>1. /\ UNCHANGED <<row, inUse, worker, profileOf>>
      /\ reaping' = {} /\ freeing' = NoRun
  BY DEF ReaperStops, Abandon, api
<1>2. \A w \in Workers : (Holder(w)' <=> Holder(w)) /\ (Holder(w) => worker[w].run \in Runs)
  BY <1>1 DEF Holder, HasProfile, Holding, Executing, Open, TypeInv, WorkerShape
<1>3. \A q \in Runs : RowClaim(q)' => RowClaim(q)
  BY <1>1, NamesAssumption DEF RowClaim, HasProfile
<1>4. HoldersApart' /\ HolderAndClaimsApart' /\ ClaimsApart' /\ HeldIsInUse'
  BY <1>1, <1>2, <1>3
     DEF HoldInv, HoldersApart, HolderAndClaimsApart, ClaimsApart, HeldIsInUse
<1>5. HolderNotReaped'
  BY <1>1, <1>2, NamesAssumption DEF HolderNotReaped
<1>6. FreedNotRunning' /\ BetweenNotRunning' /\ SilentIsOrphan'
  BY <1>1, <1>2 DEF HoldInv, FreedNotRunning, BetweenNotRunning, SilentIsOrphan, Stale
<1> QED
  BY <1>4, <1>5, <1>6 DEF HoldInv

LEMMA HoldStep ==
  ASSUME Timely, TypeInv, HoldInv, [Next]_vars
  PROVE  HoldInv'
<1>1. CASE UNCHANGED vars
  <2>1. Quiet
    BY <1>1 DEF vars, Quiet, Holder, HasProfile
  <2> QED
    BY <2>1, QuietKeepsHold
<1>2. ASSUME NEW r \in Runs,
             \/ Admit(r) \/ Insert(r) \/ Cancel(r) \/ EndWait(r) \/ GoSilent(r) \/ Reap(r)
             \/ \E q \in 1 .. thread[r].questions : Answer(r, q)
      PROVE  HoldInv'
  BY <1>2, ApiIsQuiet, QuietKeepsHold, GoSilentKeepsHold, ReapKeepsHold
<1>3. ASSUME NEW w \in Workers, WorkerStep(w) \/ Fail(w) \/ Timeout(w) \/ Beat(w) \/ Crash(w)
      PROVE  HoldInv'
  <2>1. ASSUME NEW r \in Runs, Receive(w, r)
        PROVE  HoldInv'
    BY <2>1, ReceiveIsQuiet, QuietKeepsHold
  <2>2. CASE \/ Start(w) \/ Superstep(w) \/ Consume(w) \/ Ask(w) \/ Fail(w) \/ Timeout(w)
             \/ Beat(w) \/ CloseBrowser(w) \/ Reread(w)
    BY <2>2, WorkIsQuiet, QuietKeepsHold
  <2>3. CASE Refuse(w) \/ Write(w) \/ Crash(w)
    BY <2>3, EndIsQuiet, QuietKeepsHold
  <2>4. CASE TakeProfile(w) \/ Save(w) \/ Release(w)
    BY <2>4, TakeProfileKeepsHold, SaveKeepsHold, ReleaseKeepsHold
  <2> QED
    BY <1>3, <2>1, <2>2, <2>3, <2>4 DEF WorkerStep
<1>4. CASE Scan \/ Free \/ ReaperStops
  BY <1>4, ScanKeepsHold, FreeKeepsHold, ReaperStopsKeepsHold
<1> QED
  BY <1>1, <1>2, <1>3, <1>4 DEF Next

\* While the heartbeats of live workers are in time, no two browsers ever have the
\* same profile open: not through deliveries handled twice, crashes, the reaper
\* giving a dead worker's profile away, or a release that frees whoever has it.
THEOREM ProfileIsExclusive ==
  ASSUME Timely
  PROVE  Spec => []ProfileExclusive
<1>1. TypeInv /\ HoldInv /\ [Next]_vars => (TypeInv /\ HoldInv)'
  BY TypeStep, HoldStep
<1>2. Spec => [](TypeInv /\ HoldInv)
  BY InitTypes, InitHold, <1>1, PTL DEF Spec
<1>3. TypeInv /\ HoldInv => ProfileExclusive
  <2> SUFFICES ASSUME TypeInv, HoldInv, NEW v \in Workers, NEW w \in Workers, v # w,
                      worker[v].pc \in Open, worker[w].pc \in Open, HasProfile(worker[v].run)
               PROVE  profileOf[worker[v].run] # profileOf[worker[w].run]
    BY DEF ProfileExclusive
  <2>1. Holder(v) /\ worker[w].pc \in Holding
    BY DEF Holder, Holding, Executing
  <2> QED
    BY <2>1 DEF HoldInv, HoldersApart, Holder, HasProfile
<1> QED
  BY <1>2, <1>3, PTL

-----------------------------------------------------------------------------
(***************************************************************************)
(* Custody. A run that is not over has at most one token: a delivery in    *)

-----------------------------------------------------------------------------
(***************************************************************************)
(* Delivery. Whatever makes a run queued sends a delivery or is stranded,  *)
(* and a delivery leaves the broker into the hands of a worker that claims *)
(* the run. No regime is needed: this holds with late heartbeats and with  *)
(* runs that are claimed twice.                                            *)
(***************************************************************************)

\* What the requests and the reaper do: a run that becomes queued is delivered, or
\* recorded as stranded.
LEMMA RequestDelivers ==
  ASSUME TypeInv, QueuedHasDelivery, NEW r \in Runs,
         \/ Admit(r) \/ Insert(r) \/ Cancel(r) \/ EndWait(r) \/ GoSilent(r) \/ Reap(r)
         \/ \E q \in 1 .. thread[r].questions : Answer(r, q)
  PROVE  QueuedHasDelivery'
<1>0. /\ worker' = worker /\ row \in [Runs -> Row] /\ queued \in [Runs -> Nat]
      /\ stranded \subseteq stranded'
  BY DEF Admit, Insert, Cancel, EndWait, GoSilent, Reap, Answer, Accept, Sends, SendFails, past,
         TypeInv, Types
<1>1. \A s \in Runs \ {r} : row'[s] = row[s] /\ queued'[s] = queued[s]
  BY <1>0 DEF Admit, Insert, Cancel, EndWait, GoSilent, Reap, Answer, Accept, Sends, SendFails
<1>2. CASE Admit(r) \/ Cancel(r) \/ EndWait(r) \/ GoSilent(r)
  <2>1. queued' = queued
    BY <1>2 DEF Admit, Cancel, EndWait, GoSilent
  <2>2. row'[r].status = "queued" => row[r].status = "queued"
    BY <1>0, <1>2 DEF Row, Admit, Cancel, EndWait, GoSilent
  <2> QED
    BY <1>0, <1>1, <2>1, <2>2 DEF QueuedHasDelivery, WithStatus
<1>3. CASE Sends(r)
  <2>1. queued'[r] = queued[r] + 1
    BY <1>0, <1>3 DEF Sends
  <2>2. queued'[r] > 0
    BY <1>0, <2>1
  <2> QED
    BY <1>0, <1>1, <2>2 DEF QueuedHasDelivery, WithStatus
<1>4. CASE SendFails(r)
  <2>1. r \in stranded'
    BY <1>4 DEF SendFails
  <2> QED
    BY <1>0, <1>1, <2>1 DEF QueuedHasDelivery, WithStatus
<1>5. CASE Reap(r) /\ ~Sends(r) /\ ~SendFails(r)
  <2>1. queued' = queued
    BY <1>5 DEF Reap
  <2>2. row'[r].status = "queued" => row[r].status = "queued"
    BY <1>0, <1>5 DEF Row, Reap
  <2> QED
    BY <1>0, <1>1, <2>1, <2>2 DEF QueuedHasDelivery, WithStatus
<1> QED
  BY <1>2, <1>3, <1>4, <1>5 DEF Insert, Answer

\* A worker takes a delivery of a queued run into its claim; it leaves the claim with the
\* row moved on, with the delivery returned, or by stranding the run.
LEMMA WorkerDelivers ==
  ASSUME TypeInv, QueuedHasDelivery, NEW w \in Workers,
         WorkerStep(w) \/ Fail(w) \/ Timeout(w) \/ Beat(w) \/ Crash(w)
  PROVE  QueuedHasDelivery'
<1> DEFINE run == worker[w].run
           Claimed(r, v) == worker[v].run = r /\ worker[v].pc \in Claiming
<1>0. /\ row \in [Runs -> Row] /\ queued \in [Runs -> Nat] /\ worker \in [Workers -> Worker]
      /\ worker[w] \in Worker /\ worker[w].pc # "idle" => run \in Runs
  BY DEF TypeInv, Types, WorkerShape
<1>1. ASSUME UNCHANGED <<queued, stranded>>,
             \A q \in Runs : \A v \in Workers : Claimed(q, v) => Claimed(q, v)',
             \A r \in Runs : row'[r].status = "queued" => row[r].status = "queued"
      PROVE  QueuedHasDelivery'
  <2> SUFFICES ASSUME NEW r \in Runs, row'[r].status = "queued", r \notin stranded',
                      ~(queued'[r] > 0)
               PROVE  \E v \in Workers : Claimed(r, v)'
    BY DEF QueuedHasDelivery, WithStatus
  <2>1. PICK v \in Workers : Claimed(r, v)
    BY <1>1 DEF QueuedHasDelivery, WithStatus
  <2> QED
    BY <1>1, <2>1
<1>2. ASSUME NEW r \in Runs, Receive(w, r)
      PROVE  QueuedHasDelivery'
  <2>1. /\ UNCHANGED <<row, stranded>> /\ worker[w].pc = "idle"
        /\ queued' = [queued EXCEPT ![r] = @ - 1]
        /\ \A v \in Workers \ {w} : worker'[v] = worker[v]
    BY <1>0, <1>2 DEF Receive, At
  <2>2. \A q : \A v \in Workers : Claimed(q, v) => Claimed(q, v)'
    BY <2>1 DEF Claiming
  <2>3. row[r].status = "queued" => Claimed(r, w)'
    <3>1. row[r].status = "queued" =>
            \E place \in Claiming, verdict \in {"cancelled", "none"} :
              worker' = [worker EXCEPT ![w] = [Idle EXCEPT !.pc = place, !.run = r,
                                                 !.snap = row[r], !.verdict = verdict]]
      BY <1>2 DEF Receive, Claimable, Claiming
    <3> QED
      BY <1>0, <3>1 DEF Idle
  <2>4. \A q \in Runs \ {r} : queued'[q] = queued[q]
    BY <1>0, <2>1
  <2> HIDE DEF Claimed
  <2>5. \A q \in Runs : \A v \in Workers : Claimed(q, v) => Claimed(q, v)'
    BY <2>2
  <2>6. QueuedHasDelivery =>
          \A q \in Runs : row[q].status = "queued" /\ q \notin stranded
                            => queued[q] > 0 \/ \E v \in Workers : Claimed(q, v)
    BY DEF QueuedHasDelivery, WithStatus, Claimed
  <2>7. (\A q \in Runs : row'[q].status = "queued" /\ q \notin stranded'
                            => queued'[q] > 0 \/ \E v \in Workers : Claimed(q, v)')
          => QueuedHasDelivery'
    BY DEF QueuedHasDelivery, WithStatus, Claimed
  <2> QED
    BY <2>1, <2>3, <2>4, <2>5, <2>6, <2>7
<1>3. CASE TakeProfile(w)
  <2>1. UNCHANGED <<row, queued, stranded>> /\ worker[w].pc = "profile"
    BY <1>3 DEF TakeProfile, At, past
  <2>2. /\ worker'[w].run = run /\ worker'[w].pc \in Claiming
        /\ \A v \in Workers \ {w} : worker'[v] = worker[v]
    BY <1>0, <1>3 DEF TakeProfile, Worker, Claiming
  <2>3. \A q \in Runs : \A v \in Workers : Claimed(q, v) => Claimed(q, v)'
    BY <2>2
  <2> QED
    BY <1>1, <2>1, <2>3
<1>4. CASE Refuse(w) \/ Save(w)
  <2>1. /\ run \in Runs /\ queued' = queued
        /\ \A v \in Workers \ {w} : worker'[v] = worker[v]
        /\ \A r \in Runs \ {run} : row'[r] = row[r]
        /\ stranded \ {run} \subseteq stranded'
    BY <1>0, <1>4 DEF Refuse, Save, At, past
  <2>2. row'[run].status # "queued"
    <3>1. CASE Refuse(w)
      <4>1. worker[w].snap \in Row /\ worker[w].verdict \in {"waiting"} \union Terminal
        BY <1>0, <3>1, WorkerFields DEF Refuse, At, TypeInv, WorkerShape
      <4> QED
        BY <1>0, <2>1, <3>1, <4>1, RowEffects DEF Refuse, Terminal
    <3>2. CASE Save(w)
      BY <1>0, <2>1, <3>2 DEF Save, Row
    <3> QED
      BY <1>4, <3>1, <3>2
  <2> SUFFICES ASSUME NEW r \in Runs \ {run}, row'[r].status = "queued", r \notin stranded',
                      ~(queued'[r] > 0)
               PROVE  \E v \in Workers : Claimed(r, v)'
    BY <2>2 DEF QueuedHasDelivery, WithStatus
  <2>3. PICK v \in Workers : Claimed(r, v)
    BY <2>1 DEF QueuedHasDelivery, WithStatus
  <2> QED
    BY <2>1, <2>3
<1>5. CASE Crash(w)
  <2>1. /\ run \in Runs /\ UNCHANGED row /\ stranded \subseteq stranded'
        /\ \A v \in Workers \ {w} : worker'[v] = worker[v]
        /\ \A r \in Runs \ {run} : queued'[r] = queued[r]
    BY <1>0, <1>5 DEF Crash, At
  <2>2. \/ queued'[run] = queued[run] + 1
        \/ queued' = queued /\ (worker[w].pc \in Claiming => run \in stranded')
    BY <1>0, <1>5, <2>1 DEF Crash
  <2> SUFFICES ASSUME NEW r \in Runs, row'[r].status = "queued", r \notin stranded',
                      ~(queued'[r] > 0)
               PROVE  \E v \in Workers : Claimed(r, v)'
    BY DEF QueuedHasDelivery, WithStatus
  <2>3. queued[run] + 1 > 0
    BY <1>0, <2>1
  <2>4. queued'[r] = queued[r] /\ (r = run => worker[w].pc \notin Claiming)
    BY <2>1, <2>2, <2>3
  <2>5. PICK v \in Workers : Claimed(r, v)
    BY <2>1, <2>4 DEF QueuedHasDelivery, WithStatus
  <2> QED
    BY <2>1, <2>4, <2>5
<1>6. CASE \/ Start(w) \/ Superstep(w) \/ Consume(w) \/ Ask(w) \/ Fail(w) \/ Timeout(w)
           \/ Beat(w) \/ CloseBrowser(w) \/ Reread(w) \/ Write(w) \/ Release(w)
  <2>1. /\ UNCHANGED <<queued, stranded>> /\ worker[w].pc \in Executing \union {"release"}
        /\ run \in Runs
    BY <1>0, <1>6 DEF Start, Superstep, Consume, Ask, Fail, Timeout, Beat, CloseBrowser, Reread,
                      Write, Release, At, past, Executing, Open
  <2>2. \A v \in Workers \ {w} : worker'[v].pc = worker[v].pc /\ worker'[v].run = worker[v].run
    <3>1. /\ Numbering(w) \in [Workers -> Worker]
          /\ \A v \in Workers : /\ Numbering(w)[v].pc = worker[v].pc
                                /\ Numbering(w)[v].run = worker[v].run
      BY NumberingTyped
    <3> HIDE DEF run
    <3> QED
      BY <1>0, <1>6, <3>1 DEF Start, Superstep, Consume, Ask, Fail, Timeout, Beat, CloseBrowser,
                              Reread, Write, Release
  <2>3. \A q \in Runs : \A v \in Workers : Claimed(q, v) => Claimed(q, v)'
    BY <2>1, <2>2 DEF Claiming, Executing, Open
  <2>4. \A r \in Runs : row'[r].status = "queued" => row[r].status = "queued"
    <3>1. CASE Start(w) \/ Beat(w)
      <4>1. \/ row' = row
            \/ row' = [row EXCEPT ![run] = AnswerTaken(row[run])]
            \/ row' = [row EXCEPT ![run].beat = "fresh"]
        BY <3>1 DEF Start, Beat
      <4>2. AnswerTaken(row[run]).status = row[run].status
        BY <1>0, <2>1, RowEffects
      <4> QED
        BY <1>0, <2>1, <4>1, <4>2 DEF Row
    <3>2. CASE Write(w)
      <4>1. /\ worker[w].snap \in Row /\ worker[w].verdict \in {"waiting"} \union Terminal
        BY <1>0, <3>2, WorkerFields DEF Write, At, TypeInv, WorkerShape
      <4>2. row'[run] = IF worker[w].verdict = "waiting"
                          THEN Parked(worker[w].snap, worker[w].asked)
                          ELSE [worker[w].snap EXCEPT !.status = worker[w].verdict]
        BY <1>0, <2>1, <3>2 DEF Write
      <4>3. row'[run].status # "queued"
        BY <4>1, <4>2, RowEffects DEF Terminal
      <4>4. \A r \in Runs \ {run} : row'[r] = row[r]
        BY <1>0, <3>2 DEF Write
      <4> QED
        BY <4>3, <4>4
    <3>3. CASE ~(Start(w) \/ Beat(w) \/ Write(w))
      BY <1>6, <3>3 DEF Superstep, Consume, Ask, Fail, Timeout, CloseBrowser, Reread, Release
    <3> QED
      BY <3>1, <3>2, <3>3
  <2> HIDE DEF Claimed
  <2> QED
    BY <1>1, <2>1, <2>3, <2>4
<1> QED
  BY <1>2, <1>3, <1>4, <1>5, <1>6 DEF WorkerStep

\* A queued run is not forgotten: its delivery is in the broker, or with a worker that is
\* about to claim or to refuse it. What loses one is recorded, and nothing else does: no
\* redelivery, reaping, late heartbeat or second claim.
THEOREM NeverForgotten == Spec => []QueuedHasDelivery
<1>1. Init => QueuedHasDelivery
  BY DEF Init, QueuedHasDelivery, WithStatus, Blank
<1>2. TypeInv /\ QueuedHasDelivery /\ [Next]_vars => QueuedHasDelivery'
  <2> SUFFICES ASSUME TypeInv, QueuedHasDelivery, [Next]_vars PROVE QueuedHasDelivery'
    OBVIOUS
  <2>1. CASE UNCHANGED vars
    BY <2>1 DEF vars, QueuedHasDelivery, WithStatus
  <2>2. CASE Scan \/ Free \/ ReaperStops
    <3>1. UNCHANGED <<row, queued, worker, stranded>>
      BY <2>2 DEF Scan, Free, ReaperStops, past
    <3> QED
      BY <3>1 DEF QueuedHasDelivery, WithStatus
  <2> QED
    BY <2>1, <2>2, RequestDelivers, WorkerDelivers DEF Next
<1>3. Spec => []TypeInv
  BY InitTypes, TypeStep, PTL DEF Spec
<1> QED
  BY <1>1, <1>2, <1>3, PTL DEF Spec

-----------------------------------------------------------------------------
(***************************************************************************)
(* Custody. As long as no two claims of a run overlap, one worker at most  *)
(* is at work on it, and the row, the checkpoint and the worker agree.     *)
(* Deliveries are free to come twice or late: the status, which leaves     *)
(* queued when the claim ends, turns them away. It needs Timely: a run     *)
(* falls silent only when its worker is gone. A run in `twice` owes        *)
(* nothing, and one in `misfit` nothing about its answers.                 *)
(***************************************************************************)

\* Between the reading of the row by the claim and the last write of the row.
Engaged == Claiming \union Executing

\* Where a worker is tells what the row says, and what it holds of the row and of the
\* checkpoint.
WorkerFits(w) ==
  LET k == worker[w]
      c == row[k.run]
      t == thread[k.run]
  IN k.pc \in Engaged /\ k.run \notin twice =>
     /\ k.pc \in Claiming => c.status = "queued"
     /\ k.pc \in Executing => c.status = "running" /\ c.beat # "silent"
     /\ k.pc \in Claiming \union {"start", "write"} => k.snap.answer = c.answer
     /\ k.pc \in {"run", "consume", "ask"} => c.answer = 0
     /\ k.pc = "refuse" => k.verdict \in {"cancelled", "failed"}
     /\ k.pc = "ask" => t.stage = "asked"
     /\ k.pc = "run" /\ t.stage = "asked" /\ k.run \notin misfit => k.taken = t.questions
     /\ k.pc \in {"stop", "reread", "write"} /\ k.verdict = "waiting"
          => t.stage = "asked" /\ k.asked = t.questions

\* A run the reaper selected has no worker. An answer belongs to the question the graph
\* is stopped at, and so does the question of a run that waits.
RunFits(r) ==
  LET c == row[r]
      t == thread[r]
  IN r \notin twice =>
     /\ r \in admitted => c.status = "absent"
     /\ r \in reaping => c.status = "running" /\ c.beat = "silent"
     /\ c.answer # 0 => t.stage = "asked" /\ (r \notin misfit => c.answer = t.questions)
     /\ c.status = "waiting" => c.answer = 0 /\ t.stage = "asked" /\ c.question = t.questions

\* No two workers are at work on the same run.
Apart ==
  \A v, w \in Workers :
    /\ v # w
    /\ worker[v].pc \in Engaged /\ worker[w].pc \in Engaged
    /\ worker[v].run = worker[w].run
    => worker[v].run \in twice

Custody == Apart /\ (\A w \in Workers : WorkerFits(w)) /\ (\A r \in Runs : RunFits(r))

-----------------------------------------------------------------------------
LEMMA InitCustody == Init => Custody
<1> SUFFICES ASSUME Init PROVE Custody
  OBVIOUS
<1>1. \A w \in Workers : worker[w].pc = "idle" /\ "idle" \notin Engaged
  BY DEF Init, Idle, Engaged, Claiming, Executing, Open
<1>2. Apart /\ \A w \in Workers : WorkerFits(w)
  BY <1>1 DEF Apart, WorkerFits
<1>3. ASSUME NEW r \in Runs PROVE RunFits(r)
  BY DEF Init, RunFits, Blank
<1> QED
  BY <1>2, <1>3 DEF Custody

\* A run with a worker at work on it is queued or running, is not silent, and is not
\* with the reaper.
LEMMA EngagedTells ==
  ASSUME TypeInv, Custody, NEW w \in Workers, NEW r \in Runs, worker[w].run = r,
         worker[w].pc \in Engaged, r \notin twice
  PROVE  /\ row[r].status = "queued" <=> worker[w].pc \in Claiming
         /\ row[r].status = "running" <=> worker[w].pc \in Executing
         /\ row[r].status \in {"queued", "running"}
         /\ row[r].status = "running" => row[r].beat # "silent"
         /\ r \notin reaping /\ r \notin admitted
         /\ \A v \in Workers \ {w} : worker[v].run = r => worker[v].pc \notin Engaged
<1>1. WorkerFits(w) /\ RunFits(r)
  BY DEF Custody
<1>2. /\ worker[w].pc \in Claiming => row[r].status = "queued"
      /\ worker[w].pc \in Executing => row[r].status = "running" /\ row[r].beat # "silent"
  BY <1>1 DEF WorkerFits
<1>3. worker[w].pc \in Claiming \/ worker[w].pc \in Executing
  BY DEF Engaged
<1>4. r \notin reaping /\ r \notin admitted
  BY <1>1, <1>2, <1>3 DEF RunFits
<1>5. \A v \in Workers \ {w} : worker[v].run = r => worker[v].pc \notin Engaged
  BY DEF Custody, Apart
<1> QED
  BY <1>2, <1>3, <1>4, <1>5

\* What another worker's step leaves of a worker: all but the numbering of its events.
Unmoved(v) ==
  /\ worker'[v].pc = worker[v].pc /\ worker'[v].run = worker[v].run
  /\ worker'[v].snap = worker[v].snap /\ worker'[v].verdict = worker[v].verdict
  /\ worker'[v].taken = worker[v].taken /\ worker'[v].asked = worker[v].asked

\* What a step on the run r leaves of the other runs.
Elsewhere(r) ==
  /\ \A q \in Runs \ {r} : /\ row'[q] = row[q] /\ thread'[q] = thread[q]
                           /\ (q \in reaping' => q \in reaping)
                           /\ (q \in admitted' => q \in admitted)
  /\ twice \subseteq twice' /\ misfit \subseteq misfit'

LEMMA OtherRun ==
  ASSUME Custody, NEW r \in Runs, Elsewhere(r), NEW q \in Runs \ {r}
  PROVE  RunFits(q)'
<1>1. RunFits(q)
  BY DEF Custody
<1> QED
  BY <1>1 DEF RunFits, Elsewhere

\* A worker is not disturbed by what happens to another run.
LEMMA OtherWorker ==
  ASSUME TypeInv, Custody, NEW r \in Runs, Elsewhere(r),
         NEW v \in Workers, Unmoved(v), worker[v].run # r
  PROVE  WorkerFits(v)'
<1>1. WorkerFits(v)
  BY DEF Custody
<1>2. CASE worker[v].pc \notin Engaged
  BY <1>2 DEF WorkerFits, Unmoved
<1>3. CASE worker[v].pc \in Engaged
  <2>1. PICK q \in Runs \ {r} : worker[v].run = q
    BY <1>3 DEF Engaged, Claiming, Executing, Open, TypeInv, WorkerShape
  <2> QED
    BY <1>1, <2>1 DEF WorkerFits, Elsewhere, Unmoved
<1> QED
  BY <1>2, <1>3

\* The step of a worker on its run, or on the one it takes: everything is as before for
\* the other runs, and nobody else is at work on this one, or it is in twice.
LEMMA WorkerKeepsCustody ==
  ASSUME TypeInv, Custody, NEW r \in Runs, NEW w \in Workers, Elsewhere(r),
         \A v \in Workers \ {w} : Unmoved(v),
         worker'[w].pc \in Engaged => worker'[w].run = r,
         r \notin twice' => /\ WorkerFits(w)' /\ RunFits(r)'
                            /\ \A v \in Workers \ {w} :
                                 worker[v].run = r => worker[v].pc \notin Engaged
  PROVE  Custody'
<1>1. ASSUME NEW v \in Workers \ {w} PROVE WorkerFits(v)'
  <2>1. CASE worker[v].run # r
    BY <1>1, <2>1, OtherWorker
  <2>2. CASE worker[v].run = r
    <3>1. worker'[v].run \in twice' \/ worker'[v].pc \notin Engaged
      BY <1>1, <2>2 DEF Unmoved
    <3> QED
      BY <3>1 DEF WorkerFits
  <2> QED
    BY <2>1, <2>2
<1>2. WorkerFits(w)'
  <2>1. CASE r \in twice'
    BY <2>1 DEF WorkerFits
  <2> QED
    BY <2>1
<1>3. \A q \in Runs : RunFits(q)'
  <2>1. RunFits(r)'
    <3>1. CASE r \in twice'
      BY <3>1 DEF RunFits
    <3> QED
      BY <3>1
  <2> QED
    BY <2>1, OtherRun
<1>4. Apart'
  <2> SUFFICES ASSUME NEW u \in Workers, NEW v \in Workers, u # v,
                      worker'[u].pc \in Engaged, worker'[v].pc \in Engaged,
                      worker'[u].run = worker'[v].run
               PROVE  worker'[u].run \in twice'
    BY DEF Apart
  <2>1. CASE u # w /\ v # w
    BY <2>1 DEF Custody, Apart, Unmoved, Elsewhere
  <2>2. ASSUME NEW x \in Workers \ {w}, worker'[x].pc \in Engaged, worker'[x].run = r
        PROVE  r \in twice'
    BY <2>2 DEF Unmoved
  <2> QED
    BY <2>1, <2>2
<1> QED
  BY <1>1, <1>2, <1>3, <1>4 DEF Custody

\* A request or the reaper changes a run, under the hands of its worker if it has one.
LEMMA OthersKeepCustody ==
  ASSUME TypeInv, Custody, NEW r \in Runs, worker' = worker, Elsewhere(r), twice' = twice,
         r \notin twice =>
           /\ RunFits(r)'
           /\ \A w \in Workers : worker[w].run = r /\ worker[w].pc \in Engaged => WorkerFits(w)'
  PROVE  Custody'
<1>1. Apart'
  BY DEF Custody, Apart
<1>2. ASSUME NEW v \in Workers PROVE WorkerFits(v)'
  <2>1. CASE worker[v].run # r
    BY <2>1, OtherWorker DEF Unmoved
  <2>2. CASE worker[v].run = r /\ (r \in twice \/ worker[v].pc \notin Engaged)
    BY <2>2 DEF WorkerFits
  <2> QED
    BY <2>1, <2>2
<1>3. \A q \in Runs : RunFits(q)'
  <2>1. RunFits(r)'
    <3>1. CASE r \in twice
      BY <3>1 DEF RunFits
    <3> QED
      BY <3>1
  <2> QED
    BY <2>1, OtherRun
<1> QED
  BY <1>1, <1>2, <1>3 DEF Custody

-----------------------------------------------------------------------------
(* The requests and the reaper. *)

LEMMA RequestKeepsCustody ==
  ASSUME TypeInv, Custody, NEW r \in Runs,
         Admit(r) \/ Insert(r) \/ Cancel(r) \/ EndWait(r)
  PROVE  Custody'
<1>0. /\ row \in [Runs -> Row] /\ RunFits(r) /\ \A w \in Workers : WorkerFits(w)
      /\ UNCHANGED <<thread, worker, reaping, twice, misfit>>
  BY DEF Custody, TypeInv, Types, Admit, Insert, Cancel, EndWait, reaper, past
<1>1. CASE Admit(r)
  <2>1. row' = row /\ row[r].status = "absent" /\ admitted' = admitted \union {r}
    BY <1>1 DEF Admit
  <2>2. Elsewhere(r)
    BY <1>0, <2>1 DEF Elsewhere
  <2>3. RunFits(r)' /\ \A w \in Workers : WorkerFits(w)'
    BY <1>0, <2>1 DEF RunFits, WorkerFits
  <2> QED
    BY <1>0, <2>2, <2>3, OthersKeepCustody
<1>2. CASE Insert(r)
  <2>1. /\ r \in admitted /\ admitted' = admitted \ {r}
        /\ row' = [row EXCEPT ![r].status = "queued"]
    BY <1>2 DEF Insert
  <2>2. /\ row'[r].status = "queued" /\ row'[r].answer = row[r].answer
        /\ \A q \in Runs \ {r} : row'[q] = row[q]
    BY <1>0, <2>1 DEF Row
  <2>3. Elsewhere(r)
    BY <1>0, <2>1, <2>2 DEF Elsewhere
  <2>4. RunFits(r)'
    BY <1>0, <2>1, <2>2 DEF RunFits
  <2>5. r \notin twice => \A w \in Workers : ~(worker[w].run = r /\ worker[w].pc \in Engaged)
    BY <2>1, EngagedTells
  <2> QED
    BY <1>0, <2>3, <2>4, <2>5, OthersKeepCustody
<1>3. CASE Cancel(r)
  <2>1. admitted' = admitted /\ row' = [row EXCEPT ![r].cancel = TRUE]
    BY <1>3 DEF Cancel
  <2>2. /\ row'[r].status = row[r].status /\ row'[r].answer = row[r].answer
        /\ row'[r].beat = row[r].beat /\ row'[r].question = row[r].question
        /\ \A q \in Runs \ {r} : row'[q] = row[q]
    BY <1>0, <2>1 DEF Row
  <2>3. Elsewhere(r)
    BY <1>0, <2>1, <2>2 DEF Elsewhere
  <2>4. RunFits(r)'
    BY <1>0, <2>1, <2>2 DEF RunFits
  <2>5. \A w \in Workers : worker[w].run = r => WorkerFits(w)'
    BY <1>0, <2>2 DEF WorkerFits
  <2> QED
    BY <1>0, <2>3, <2>4, <2>5, OthersKeepCustody
<1>4. CASE EndWait(r) /\ row[r].status = "waiting"
  <2>1. /\ admitted' = admitted
        /\ row' = [row EXCEPT ![r].status = "cancelled", ![r].question = 0, ![r].answer = 0]
    BY <1>4 DEF EndWait
  <2>2. /\ row'[r].status = "cancelled" /\ row'[r].answer = 0
        /\ \A q \in Runs \ {r} : row'[q] = row[q]
    BY <1>0, <2>1 DEF Row
  <2>3. Elsewhere(r)
    BY <1>0, <2>1, <2>2 DEF Elsewhere
  <2>4. RunFits(r)'
    BY <1>0, <1>4, <2>1, <2>2 DEF RunFits
  <2>5. r \notin twice => \A w \in Workers : ~(worker[w].run = r /\ worker[w].pc \in Engaged)
    BY <1>4, EngagedTells
  <2> QED
    BY <1>0, <2>3, <2>4, <2>5, OthersKeepCustody
<1>5. CASE EndWait(r) /\ row[r].status # "waiting"
  <2>1. row' = row /\ admitted' = admitted
    BY <1>5 DEF EndWait
  <2>2. Elsewhere(r)
    BY <1>0, <2>1 DEF Elsewhere
  <2>3. RunFits(r)' /\ \A w \in Workers : WorkerFits(w)'
    BY <1>0, <2>1 DEF RunFits, WorkerFits
  <2> QED
    BY <1>0, <2>2, <2>3, OthersKeepCustody
<1> QED
  BY <1>1, <1>2, <1>3, <1>4, <1>5

\* The answer that is accepted is one to the open question, or the run is a misfit.
LEMMA AnswerKeepsCustody ==
  ASSUME TypeInv, Custody, NEW r \in Runs, NEW q \in 1 .. thread[r].questions, Answer(r, q)
  PROVE  Custody'
<1>0. /\ row \in [Runs -> Row] /\ RunFits(r) /\ thread[r].questions \in Nat /\ q # 0 /\ q \in Nat
      /\ UNCHANGED <<thread, worker, reaping, admitted, twice>>
      /\ row[r].status = "waiting"
      /\ row' = [row EXCEPT ![r].status = "queued", ![r].answer = q]
      /\ misfit' = IF q = row[r].question THEN misfit ELSE misfit \union {r}
  BY DEF Custody, TypeInv, Types, Answer, Accept, reaper, api
<1>1. /\ row'[r].status = "queued" /\ row'[r].answer = q
      /\ \A s \in Runs \ {r} : row'[s] = row[s]
  BY <1>0 DEF Row
<1>2. misfit \subseteq misfit' /\ (r \notin misfit' => q = row[r].question)
  BY <1>0
<1>3. Elsewhere(r)
  BY <1>0, <1>1, <1>2 DEF Elsewhere
<1>4. RunFits(r)'
  BY <1>0, <1>1, <1>2 DEF RunFits
<1>5. r \notin twice => \A w \in Workers : ~(worker[w].run = r /\ worker[w].pc \in Engaged)
  BY <1>0, EngagedTells
<1> QED
  BY <1>0, <1>3, <1>4, <1>5, OthersKeepCustody

\* A run falls silent only when no worker executes it: this is where Timely is used.
LEMMA GoSilentKeepsCustody ==
  ASSUME TypeInv, Custody, Timely, NEW r \in Runs, GoSilent(r)
  PROVE  Custody'
<1>0. /\ row \in [Runs -> Row] /\ RunFits(r)
      /\ UNCHANGED <<thread, worker, reaping, admitted, twice, misfit>>
      /\ row[r].status = "running" /\ row[r].beat = "fresh"
      /\ row' = [row EXCEPT ![r].beat = "silent"]
      /\ \A w \in Workers : worker[w].run = r => worker[w].pc \notin Executing
  BY DEF Custody, TypeInv, Types, GoSilent, reaper, api, past
<1>1. /\ row'[r].status = "running" /\ row'[r].answer = row[r].answer /\ row'[r].beat = "silent"
      /\ \A q \in Runs \ {r} : row'[q] = row[q]
  BY <1>0 DEF Row
<1>2. Elsewhere(r)
  BY <1>0, <1>1 DEF Elsewhere
<1>3. RunFits(r)'
  BY <1>0, <1>1 DEF RunFits
<1>4. r \notin twice => \A w \in Workers : ~(worker[w].run = r /\ worker[w].pc \in Engaged)
  BY <1>0, EngagedTells
<1> QED
  BY <1>0, <1>2, <1>3, <1>4, OthersKeepCustody

LEMMA ScanKeepsCustody ==
  ASSUME TypeInv, Custody, Scan
  PROVE  Custody'
<1>1. UNCHANGED <<row, thread, worker, admitted, twice, misfit>> /\ reaping' = Stale
  BY DEF Scan, api, past
<1>2. \A w \in Workers : WorkerFits(w)'
  BY <1>1 DEF Custody, WorkerFits
<1>3. \A r \in Runs : RunFits(r)'
  BY <1>1 DEF Custody, RunFits, Stale
<1> QED
  BY <1>1, <1>2, <1>3 DEF Custody, Apart

\* The end of a reaping, for a run or for all of them.
LEMMA LessReapingKeepsCustody ==
  ASSUME TypeInv, Custody,
         UNCHANGED <<row, thread, worker, admitted, twice, misfit>>, reaping' \subseteq reaping
  PROVE  Custody'
<1>1. \A w \in Workers : WorkerFits(w)'
  BY DEF Custody, WorkerFits
<1>2. \A r \in Runs : RunFits(r)'
  BY DEF Custody, RunFits
<1> QED
  BY <1>1, <1>2 DEF Custody, Apart

\* The run the reaper comes to has no worker: nobody can claim it while it says running.
LEMMA ReapKeepsCustody ==
  ASSUME TypeInv, Custody, NEW r \in Runs, Reap(r)
  PROVE  Custody'
<1>0. /\ row \in [Runs -> Row] /\ RunFits(r) /\ r \in reaping
      /\ UNCHANGED <<thread, worker, admitted, twice, misfit>>
      /\ reaping' \subseteq reaping \ {r}
  BY DEF Custody, TypeInv, Types, Reap, Goes, Abandon, api
<1>1. r \notin twice => \A w \in Workers : ~(worker[w].run = r /\ worker[w].pc \in Engaged)
  BY <1>0, EngagedTells
<1>2. CASE row' = row
  BY <1>0, <1>2, LessReapingKeepsCustody
<1>3. ASSUME NEW to \in {"queued", "failed"},
             row'[r].status = to, row'[r].answer = row[r].answer,
             \A q \in Runs \ {r} : row'[q] = row[q]
      PROVE  Custody'
  <2>1. Elsewhere(r)
    BY <1>0, <1>3 DEF Elsewhere
  <2>2. RunFits(r)'
    BY <1>0, <1>3 DEF RunFits
  <2> QED
    BY <1>0, <1>1, <2>1, <2>2, OthersKeepCustody
<1>4. CASE row' = [row EXCEPT ![r] = Requeued(row[r])]
  <2>1. /\ row'[r].status = "queued" /\ row'[r].answer = row[r].answer
        /\ \A q \in Runs \ {r} : row'[q] = row[q]
    BY <1>0, <1>4 DEF Row, Requeued
  <2> QED
    BY <1>3, <2>1
<1>5. CASE row' = [row EXCEPT ![r].status = "failed"]
  <2>1. /\ row'[r].status = "failed" /\ row'[r].answer = row[r].answer
        /\ \A q \in Runs \ {r} : row'[q] = row[q]
    BY <1>0, <1>5 DEF Row
  <2> QED
    BY <1>3, <2>1
<1> QED
  BY <1>2, <1>4, <1>5 DEF Reap

LEMMA FreeKeepsCustody ==
  ASSUME TypeInv, Custody, Free \/ ReaperStops
  PROVE  Custody'
<1>1. /\ UNCHANGED <<row, thread, worker, admitted, twice, misfit>>
      /\ reaping' \subseteq reaping
  BY DEF Free, ReaperStops, Abandon, api, past
<1> QED
  BY <1>1, LessReapingKeepsCustody

-----------------------------------------------------------------------------
(* The workers. *)

\* A delivery of a queued run begins a claim; of one that is being claimed, it makes the
\* run one of twice. A delivery of any other run changes nothing.
LEMMA ReceiveKeepsCustody ==
  ASSUME TypeInv, Custody, NEW w \in Workers, NEW r \in Runs, Receive(w, r)
  PROVE  Custody'
<1>0. /\ UNCHANGED <<row, thread, reaping, admitted, misfit>> /\ worker[w].pc = "idle"
      /\ worker \in [Workers -> Worker] /\ row \in [Runs -> Row] /\ RunFits(r)
  BY DEF Receive, At, reaper, api, Custody, TypeInv, Types
<1>1. CASE row[r].status # "queued"
  <2>1. worker' = worker /\ twice' = twice
    BY <1>1 DEF Receive, Claimable
  <2> QED
    BY <1>0, <2>1, LessReapingKeepsCustody
<1>2. CASE row[r].status = "queued"
  <2>1. PICK place \in Claiming, verdict \in {"cancelled", "none"} :
          /\ place = "refuse" => verdict = "cancelled"
          /\ worker' = [worker EXCEPT ![w] = [Idle EXCEPT !.pc = place, !.run = r,
                                                !.snap = row[r], !.verdict = verdict]]
    BY <1>2 DEF Receive, Claimable, Claiming
  <2>2. /\ worker'[w].pc = place /\ worker'[w].run = r /\ worker'[w].snap = row[r]
        /\ worker'[w].verdict = verdict
        /\ \A v \in Workers \ {w} : worker'[v] = worker[v]
    BY <1>0, <2>1 DEF Idle
  <2>3. /\ twice \subseteq twice'
        /\ (\E v \in Workers : worker[v].run = r /\ worker[v].pc \in Claiming) => r \in twice'
        /\ r \notin twice' => r \notin twice
    BY <1>2 DEF Receive, Claimable
  <2>4. Elsewhere(r) /\ \A v \in Workers \ {w} : Unmoved(v)
    BY <1>0, <2>2, <2>3 DEF Elsewhere, Unmoved
  <2>5. ASSUME r \notin twice', NEW v \in Workers, worker[v].run = r
        PROVE  worker[v].pc \notin Engaged
    <3>1. worker[v].pc \notin Claiming /\ r \notin twice
      BY <2>3, <2>5
    <3> QED
      BY <1>2, <2>5, <3>1, EngagedTells
  <2>6. WorkerFits(w)'
    BY <1>0, <1>2, <2>1, <2>2 DEF WorkerFits, Claiming, Executing, Open
  <2>7. RunFits(r)'
    BY <1>0, <2>3 DEF RunFits
  <2> QED
    BY <2>2, <2>4, <2>5, <2>6, <2>7, WorkerKeepsCustody
<1> QED
  BY <1>1, <1>2

\* The worker that is at work on a run goes on with it.
LEMMA GoesOn ==
  ASSUME TypeInv, Custody, NEW w \in Workers, NEW run \in Runs,
         worker[w].run = run, worker[w].pc \in Engaged,
         worker'[w].pc \in Engaged => worker'[w].run = run,
         \A v \in Workers \ {w} : Unmoved(v),
         \A q \in Runs \ {run} : row'[q] = row[q] /\ thread'[q] = thread[q],
         UNCHANGED <<reaping, admitted, twice, misfit>>,
         run \notin twice => WorkerFits(w)' /\ RunFits(run)'
  PROVE  Custody'
<1>1. Elsewhere(run)
  BY DEF Elsewhere
<1>2. run \notin twice =>
        \A v \in Workers \ {w} : worker[v].run = run => worker[v].pc \notin Engaged
  BY EngagedTells
<1> QED
  BY <1>1, <1>2, WorkerKeepsCustody

\* Steps that leave row and thread alone.
LEMMA RunUndisturbed ==
  ASSUME TypeInv, Custody, NEW w \in Workers, NEW run \in Runs,
         worker[w].run = run, worker[w].pc \in Engaged,
         worker'[w].pc \in Engaged => worker'[w].run = run,
         \A v \in Workers \ {w} : Unmoved(v),
         UNCHANGED <<row, thread, reaping, admitted, twice, misfit>>,
         run \notin twice => WorkerFits(w)'
  PROVE  Custody'
<1>1. RunFits(run)'
  BY DEF Custody, RunFits
<1> QED
  BY <1>1, GoesOn

\* Numbering events is all a worker does to another.
LEMMA NumberingUnmoved ==
  ASSUME TypeInv, NEW w \in Workers
  PROVE  /\ Numbering(w) \in [Workers -> Worker] /\ Numbering(w)[w] = worker[w]
         /\ \A v \in Workers :
              /\ Numbering(w)[v].pc = worker[v].pc /\ Numbering(w)[v].run = worker[v].run
              /\ Numbering(w)[v].snap = worker[v].snap
              /\ Numbering(w)[v].verdict = worker[v].verdict
              /\ Numbering(w)[v].taken = worker[v].taken
              /\ Numbering(w)[v].asked = worker[v].asked
  BY DEF TypeInv, Types, Numbering, Worker

LEMMA QuietWorkKeepsCustody ==
  ASSUME TypeInv, Custody, NEW w \in Workers, NEW run \in Runs, worker[w].run = run,
         TakeProfile(w) \/ Consume(w) \/ Ask(w) \/ Fail(w) \/ Timeout(w) \/ CloseBrowser(w) \/ Reread(w)
  PROVE  Custody'
<1>0. /\ worker[w].pc \in Engaged /\ worker[w] \in Worker /\ WorkerFits(w)
      /\ worker \in [Workers -> Worker]
      /\ UNCHANGED <<row, thread, reaping, admitted, twice, misfit>>
  BY DEF TakeProfile, Consume, Ask, Fail, Timeout, CloseBrowser, Reread, At, reaper, api, past,
         TypeInv, Types, Custody, Engaged, Claiming, Executing, Open
<1>1. /\ Numbering(w) \in [Workers -> Worker] /\ Numbering(w)[w] = worker[w]
      /\ \A v \in Workers :
           /\ Numbering(w)[v].pc = worker[v].pc /\ Numbering(w)[v].run = worker[v].run
           /\ Numbering(w)[v].snap = worker[v].snap
           /\ Numbering(w)[v].verdict = worker[v].verdict
           /\ Numbering(w)[v].taken = worker[v].taken
           /\ Numbering(w)[v].asked = worker[v].asked
  BY NumberingUnmoved
<1>2. CASE TakeProfile(w)
  <2>1. /\ worker[w].pc = "profile"
        /\ \/ worker' = [worker EXCEPT ![w].pc = "refuse", ![w].verdict = "failed"]
           \/ worker' = [worker EXCEPT ![w].pc = "save"]
    BY <1>2 DEF TakeProfile, At
  <2>2. /\ \/ worker'[w].pc = "refuse" /\ worker'[w].verdict = "failed"
           \/ worker'[w].pc = "save"
        /\ worker'[w].run = run /\ worker'[w].snap = worker[w].snap
        /\ \A v \in Workers \ {w} : Unmoved(v)
    BY <1>0, <2>1 DEF Worker, Unmoved
  <2>3. WorkerFits(w)'
    BY <1>0, <2>1, <2>2 DEF WorkerFits, Engaged, Claiming, Executing, Open
  <2> QED
    BY <1>0, <2>2, <2>3, RunUndisturbed
<1>3. CASE Consume(w)
  <2>1. /\ worker[w].pc = "consume"
        /\ \E place \in {"stop", "run", "ask"}, verdict \in {"failed", "cancelled", "none", "succeeded"} :
              /\ \/ worker' = [worker EXCEPT ![w].pc = place, ![w].verdict = verdict]
                 \/ worker' = [Numbering(w) EXCEPT ![w].pc = place, ![w].verdict = verdict]
              /\ place = "ask" => thread[run].stage = "asked"
              /\ place = "run" => thread[run].stage \in {"new", "mid"}
    BY <1>3, Zenon DEF Consume, At
  <2>2. /\ worker'[w].pc \in {"stop", "run", "ask"} /\ worker'[w].verdict # "waiting"
        /\ worker'[w].pc = "ask" => thread[run].stage = "asked"
        /\ worker'[w].pc = "run" => thread[run].stage # "asked"
        /\ worker'[w].run = run
        /\ \A v \in Workers \ {w} : Unmoved(v)
    BY <1>0, <1>1, <2>1 DEF Worker, Unmoved
  <2>3. WorkerFits(w)'
    BY <1>0, <2>1, <2>2 DEF WorkerFits, Engaged, Claiming, Executing, Open
  <2> QED
    BY <1>0, <2>2, <2>3, RunUndisturbed
<1>4. CASE Ask(w)
  <2>1. /\ worker[w].pc = "ask"
        /\ \/ worker' = [Numbering(w) EXCEPT ![w].pc = "stop", ![w].verdict = "waiting",
                                       ![w].asked = thread[run].questions]
           \/ worker' = [worker EXCEPT ![w].pc = "stop", ![w].verdict = "failed"]
    BY <1>4 DEF Ask, At
  <2>2. /\ worker'[w].pc = "stop" /\ worker'[w].run = run
        /\ worker'[w].verdict = "waiting" => worker'[w].asked = thread[run].questions
        /\ \A v \in Workers \ {w} : Unmoved(v)
    BY <1>0, <1>1, <2>1 DEF Worker, Unmoved
  <2>3. WorkerFits(w)'
    BY <1>0, <2>1, <2>2 DEF WorkerFits, Engaged, Claiming, Executing, Open
  <2> QED
    BY <1>0, <2>2, <2>3, RunUndisturbed
<1>5. CASE Fail(w) \/ Timeout(w)
  <2>1. /\ worker[w].pc \in {"start", "run", "consume", "ask"}
        /\ \/ worker' = [worker EXCEPT ![w].pc = "stop", ![w].verdict = "failed"]
           \/ worker' = [worker EXCEPT ![w].pc = "stop", ![w].verdict = "timeout"]
    BY <1>5 DEF Fail, Timeout
  <2>2. /\ worker'[w].pc = "stop" /\ worker'[w].run = run /\ worker'[w].verdict # "waiting"
        /\ \A v \in Workers \ {w} : Unmoved(v)
    BY <1>0, <2>1 DEF Worker, Unmoved
  <2>3. WorkerFits(w)'
    BY <1>0, <2>1, <2>2 DEF WorkerFits, Engaged, Claiming, Executing, Open
  <2> QED
    BY <1>0, <2>2, <2>3, RunUndisturbed
<1>6. CASE CloseBrowser(w) \/ Reread(w)
  <2>1. /\ worker[w].pc \in {"stop", "reread"}
        /\ \/ worker' = [worker EXCEPT ![w].pc = "reread"]
           \/ worker' = [worker EXCEPT ![w].pc = "write", ![w].snap = row[run]]
    BY <1>6 DEF CloseBrowser, Reread, At
  <2>2. /\ worker'[w].pc = "reread" \/ (worker'[w].pc = "write" /\ worker'[w].snap = row[run])
        /\ worker'[w].run = run /\ worker'[w].verdict = worker[w].verdict
        /\ worker'[w].asked = worker[w].asked
        /\ \A v \in Workers \ {w} : Unmoved(v)
    BY <1>0, <2>1 DEF Worker, Unmoved
  <2>3. WorkerFits(w)'
    BY <1>0, <2>1, <2>2 DEF WorkerFits, Engaged, Claiming, Executing, Open
  <2> QED
    BY <1>0, <2>2, <2>3, RunUndisturbed
<1> QED
  BY <1>2, <1>3, <1>4, <1>5, <1>6

\* The claim, the resume, the agent's step, the end and the death of an execution.
LEMMA ClaimKeepsCustody ==
  ASSUME TypeInv, Custody, NEW w \in Workers, NEW run \in Runs, worker[w].run = run,
         Save(w) \/ Refuse(w)
  PROVE  Custody'
<1>0. /\ worker[w].pc \in Engaged /\ worker[w].pc \in Claiming /\ worker[w] \in Worker
      /\ WorkerFits(w) /\ worker \in [Workers -> Worker] /\ row \in [Runs -> Row]
      /\ UNCHANGED <<thread, reaping, admitted, twice, misfit>> /\ worker[w].snap \in Row
      /\ RunFits(run)
  BY DEF Save, Refuse, At, reaper, api, past, TypeInv, Types, Custody, Engaged, Claiming, Worker
<1>1. run \notin twice => /\ row[run].status = "queued" /\ worker[w].snap.answer = row[run].answer
                          /\ run \notin reaping /\ run \notin admitted
  BY <1>0, EngagedTells DEF WorkerFits
<1>2. CASE Save(w)
  <2>1. /\ row' = [row EXCEPT ![run].status = "running", ![run].beat = "fresh"]
        /\ worker' = [worker EXCEPT ![w].pc = "start"] /\ worker[w].pc = "save"
    BY <1>2 DEF Save, At
  <2>2. /\ row'[run].status = "running" /\ row'[run].beat = "fresh"
        /\ row'[run].answer = row[run].answer
        /\ \A q \in Runs \ {run} : row'[q] = row[q]
    BY <1>0, <2>1 DEF Row
  <2>3. /\ worker'[w].pc = "start" /\ worker'[w].run = run /\ worker'[w].snap = worker[w].snap
        /\ \A v \in Workers \ {w} : Unmoved(v)
    BY <1>0, <2>1 DEF Worker, Unmoved
  <2>4. run \notin twice => WorkerFits(w)'
    BY <1>0, <1>1, <2>2, <2>3 DEF WorkerFits, Engaged, Claiming, Executing, Open
  <2>5. run \notin twice => RunFits(run)'
    BY <1>0, <1>1, <2>2 DEF RunFits
  <2> QED
    BY <1>0, <2>2, <2>3, <2>4, <2>5, GoesOn
<1>3. CASE Refuse(w)
  <2>1. /\ row' = [row EXCEPT ![run] = [worker[w].snap EXCEPT !.status = worker[w].verdict]]
        /\ worker' = [worker EXCEPT ![w] = Idle] /\ worker[w].pc = "refuse"
    BY <1>3 DEF Refuse, At
  <2>2. run \notin twice => worker[w].verdict \in {"cancelled", "failed"}
    BY <1>0, <2>1 DEF WorkerFits
  <2>3. /\ row'[run].status = worker[w].verdict /\ row'[run].answer = worker[w].snap.answer
        /\ \A q \in Runs \ {run} : row'[q] = row[q]
    BY <1>0, <2>1 DEF Row
  <2>4. /\ worker'[w].pc \notin Engaged /\ \A v \in Workers \ {w} : Unmoved(v)
    BY <1>0, <2>1 DEF Idle, Engaged, Claiming, Executing, Open, Unmoved
  <2>5. WorkerFits(w)'
    BY <2>4 DEF WorkerFits
  <2>6. run \notin twice => RunFits(run)'
    BY <1>0, <1>1, <2>2, <2>3 DEF RunFits
  <2> QED
    BY <1>0, <2>3, <2>4, <2>5, <2>6, GoesOn
<1> QED
  BY <1>2, <1>3

\* The answer is spent with the step of the row that takes it, and only on its question.
LEMMA StartKeepsCustody ==
  ASSUME TypeInv, Custody, NEW w \in Workers, NEW run \in Runs, worker[w].run = run,
         Start(w)
  PROVE  Custody'
<1>0. /\ worker[w].pc = "start" /\ worker[w].pc \in Engaged /\ worker[w] \in Worker
      /\ WorkerFits(w) /\ RunFits(run)
      /\ worker \in [Workers -> Worker] /\ row \in [Runs -> Row]
      /\ UNCHANGED <<thread, reaping, admitted, twice, misfit>>
  BY DEF Start, At, reaper, api, past, TypeInv, Types, Custody, Engaged, Executing, Open
<1>1. run \notin twice => /\ row[run].status = "running" /\ row[run].beat # "silent"
                          /\ worker[w].snap.answer = row[run].answer
                          /\ run \notin reaping /\ run \notin admitted
  BY <1>0, EngagedTells DEF WorkerFits, Executing, Open
<1>2. CASE /\ thread[run].stage = "asked" /\ worker[w].snap.answer # 0
           /\ row' = [row EXCEPT ![run] = AnswerTaken(row[run])]
           /\ worker' = [Numbering(w) EXCEPT ![w].pc = "run", ![w].snap = Blank,
                                             ![w].taken = row[run].answer]
  <2>1. /\ row'[run].status = row[run].status /\ row'[run].answer = 0
        /\ row'[run].beat = row[run].beat
        /\ \A q \in Runs \ {run} : row'[q] = row[q]
    BY <1>0, <1>2 DEF Row, AnswerTaken
  <2>2. /\ worker'[w].pc = "run" /\ worker'[w].run = run /\ worker'[w].taken = row[run].answer
        /\ \A v \in Workers \ {w} : Unmoved(v)
    BY <1>0, <1>2, NumberingUnmoved DEF Worker, Unmoved
  <2>3. run \notin twice /\ run \notin misfit => row[run].answer = thread[run].questions
    BY <1>0, <1>1, <1>2 DEF RunFits
  <2>4. run \notin twice => WorkerFits(w)'
    BY <1>0, <1>1, <2>1, <2>2, <2>3 DEF WorkerFits, Engaged, Claiming, Executing, Open
  <2>5. run \notin twice => RunFits(run)'
    BY <1>0, <1>1, <2>1 DEF RunFits
  <2> QED
    BY <1>0, <2>1, <2>2, <2>4, <2>5, GoesOn
<1>3. CASE /\ row' = row
           /\ \/ /\ thread[run].stage = "asked" /\ worker[w].snap.answer = 0
                 /\ worker' = [worker EXCEPT ![w].pc = "ask", ![w].snap = Blank]
              \/ /\ thread[run].stage # "asked"
                 /\ worker' = [worker EXCEPT ![w].pc = "run", ![w].snap = Blank]
  <2>1. run \notin twice => row[run].answer = 0
    BY <1>0, <1>1, <1>3 DEF RunFits
  <2>2. /\ \/ worker'[w].pc = "ask" /\ thread[run].stage = "asked"
           \/ worker'[w].pc = "run" /\ thread[run].stage # "asked"
        /\ worker'[w].run = run
        /\ \A v \in Workers \ {w} : Unmoved(v)
    BY <1>0, <1>3 DEF Worker, Unmoved
  <2>3. run \notin twice => WorkerFits(w)'
    BY <1>0, <1>1, <1>3, <2>1, <2>2 DEF WorkerFits, Engaged, Claiming, Executing, Open
  <2> QED
    BY <1>0, <1>3, <2>2, <2>3, RunUndisturbed
<1> QED
  BY <1>2, <1>3 DEF Start

LEMMA SuperstepKeepsCustody ==
  ASSUME TypeInv, Custody, NEW w \in Workers, NEW run \in Runs, worker[w].run = run,
         Superstep(w)
  PROVE  Custody'
<1>0. /\ worker[w].pc = "run" /\ worker[w].pc \in Engaged /\ worker[w] \in Worker
      /\ WorkerFits(w) /\ RunFits(run)
      /\ UNCHANGED <<row, reaping, admitted, twice, misfit>>
      /\ worker' = [worker EXCEPT ![w].pc = "consume", ![w].taken = 0]
  BY DEF Superstep, At, reaper, api, past, TypeInv, Types, Custody, Engaged, Executing, Open
<1>1. run \notin twice => /\ row[run].status = "running" /\ row[run].beat # "silent"
                          /\ row[run].answer = 0
                          /\ run \notin reaping /\ run \notin admitted
  BY <1>0, EngagedTells DEF WorkerFits, Executing, Open
<1>2. /\ worker'[w].pc = "consume" /\ worker'[w].run = run
      /\ \A v \in Workers \ {w} : Unmoved(v)
  BY <1>0 DEF Worker, TypeInv, Types, Unmoved
<1>3. \A q \in Runs \ {run} : thread'[q] = thread[q]
  BY DEF Superstep, TypeInv, Types
<1>4. run \notin twice => WorkerFits(w)'
  BY <1>0, <1>1, <1>2 DEF WorkerFits, Engaged, Claiming, Executing, Open
<1>5. run \notin twice => RunFits(run)'
  BY <1>0, <1>1 DEF RunFits
<1> QED
  BY <1>0, <1>2, <1>3, <1>4, <1>5, GoesOn

LEMMA BeatKeepsCustody ==
  ASSUME TypeInv, Custody, NEW w \in Workers, NEW run \in Runs, worker[w].run = run,
         Beat(w)
  PROVE  Custody'
<1>0. /\ worker[w].pc \in Engaged /\ WorkerFits(w) /\ RunFits(run) /\ row \in [Runs -> Row]
      /\ UNCHANGED <<worker, thread, reaping, admitted, twice, misfit>>
      /\ row' = [row EXCEPT ![run].beat = "fresh"]
  BY DEF Beat, Open, Engaged, Executing, reaper, api, past, Custody, TypeInv, Types
<1>1. /\ row'[run].status = row[run].status /\ row'[run].answer = row[run].answer
      /\ row'[run].beat = "fresh" /\ row'[run].question = row[run].question
      /\ \A q \in Runs \ {run} : row'[q] = row[q]
  BY <1>0 DEF Row
<1>2. WorkerFits(w)'
  BY <1>0, <1>1 DEF WorkerFits
<1>3. run \notin twice => run \notin reaping
  BY <1>0, EngagedTells
<1>4. run \notin twice => RunFits(run)'
  BY <1>0, <1>1, <1>3 DEF RunFits
<1>5. \A v \in Workers \ {w} : Unmoved(v)
  BY <1>0 DEF Unmoved
<1> QED
  BY <1>0, <1>1, <1>2, <1>4, <1>5, GoesOn

\* The end: what the worker writes is what it read, but for the status, so the answer
\* stays with its question; a run that waits shows the question its thread is stopped at.
LEMMA WriteKeepsCustody ==
  ASSUME TypeInv, Custody, NEW w \in Workers, NEW run \in Runs, worker[w].run = run,
         Write(w)
  PROVE  Custody'
<1> DEFINE k == worker[w]
<1>0. /\ k.pc = "write" /\ k.pc \in Engaged /\ k \in Worker /\ WorkerFits(w) /\ RunFits(run)
      /\ row \in [Runs -> Row]
      /\ UNCHANGED <<thread, reaping, admitted, twice, misfit>>
      /\ row' = [row EXCEPT ![run] = IF k.verdict = "waiting" THEN Parked(k.snap, k.asked)
                                     ELSE [k.snap EXCEPT !.status = k.verdict]]
      /\ worker' = [worker EXCEPT ![w] = IF HasProfile(run)
                                           THEN [Idle EXCEPT !.pc = "release", !.run = run]
                                           ELSE Idle]
  BY DEF Write, At, reaper, api, past, TypeInv, Types, Custody, Engaged, Executing
<1>1. /\ k.snap \in Row /\ k.verdict \in {"waiting"} \union Terminal
      /\ run \notin twice => /\ k.snap.answer = row[run].answer
                             /\ run \notin reaping /\ run \notin admitted
  BY <1>0, EngagedTells DEF WorkerFits, Worker, TypeInv, WorkerShape
<1>2. /\ row'[run].status = k.verdict
      /\ row'[run].status = "waiting" => row'[run].answer = 0 /\ row'[run].question = k.asked
      /\ row'[run].status # "waiting" => row'[run].answer = k.snap.answer
      /\ \A q \in Runs \ {run} : row'[q] = row[q]
  <2>1. CASE k.verdict = "waiting"
    BY <1>0, <1>1, <2>1 DEF Row, Parked
  <2>2. CASE k.verdict # "waiting"
    BY <1>0, <1>1, <2>2 DEF Row
  <2> QED
    BY <2>1, <2>2
<1>3. /\ worker'[w].pc \notin Engaged
      /\ \A v \in Workers \ {w} : Unmoved(v)
  BY <1>0 DEF Idle, TypeInv, Types, Engaged, Claiming, Executing, Open, Unmoved
<1>4. WorkerFits(w)'
  BY <1>3 DEF WorkerFits
<1>5. run \notin twice /\ k.verdict = "waiting"
        => thread[run].stage = "asked" /\ k.asked = thread[run].questions
  BY <1>0 DEF WorkerFits
<1>6. run \notin twice => RunFits(run)'
  BY <1>0, <1>1, <1>2, <1>5 DEF RunFits, Terminal
<1> QED
  BY <1>0, <1>2, <1>3, <1>4, <1>6, GoesOn

\* A worker lets go of its run: it gave the profile back, or died.
LEMMA LettingGoKeepsCustody ==
  ASSUME TypeInv, Custody, NEW w \in Workers, NEW run \in Runs, worker[w].run = run,
         Release(w) \/ Crash(w)
  PROVE  Custody'
<1>0. /\ UNCHANGED <<row, thread, reaping, admitted, twice, misfit>>
      /\ worker' = [worker EXCEPT ![w] = Idle]
  BY DEF Release, Crash, reaper, api, past
<1>1. /\ worker'[w].pc \notin Engaged /\ \A v \in Workers \ {w} : worker'[v] = worker[v]
  BY <1>0 DEF Idle, TypeInv, Types, Engaged, Claiming, Executing, Open
<1>2. \A v \in Workers : WorkerFits(v)'
  BY <1>0, <1>1 DEF Custody, WorkerFits
<1>3. \A r \in Runs : RunFits(r)'
  BY <1>0 DEF Custody, RunFits
<1>4. Apart'
  BY <1>0, <1>1 DEF Custody, Apart
<1> QED
  BY <1>2, <1>3, <1>4 DEF Custody

LEMMA CustodyStep ==
  ASSUME Timely, TypeInv, Custody, [Next]_vars
  PROVE  Custody'
<1>1. CASE UNCHANGED vars
  BY <1>1, LessReapingKeepsCustody DEF vars
<1>2. ASSUME NEW r \in Runs,
             \/ Admit(r) \/ Insert(r) \/ Cancel(r) \/ EndWait(r) \/ GoSilent(r) \/ Reap(r)
             \/ \E q \in 1 .. thread[r].questions : Answer(r, q)
      PROVE  Custody'
  BY <1>2, RequestKeepsCustody, AnswerKeepsCustody, GoSilentKeepsCustody, ReapKeepsCustody
<1>3. ASSUME NEW w \in Workers, WorkerStep(w) \/ Fail(w) \/ Timeout(w) \/ Beat(w) \/ Crash(w)
      PROVE  Custody'
  <2>1. ASSUME NEW r \in Runs, Receive(w, r)
        PROVE  Custody'
    BY <2>1, ReceiveKeepsCustody
  <2>2. CASE ~\E r \in Runs : Receive(w, r)
    <3>1. worker[w].pc # "idle"
      BY <1>3, <2>2 DEF WorkerStep, TakeProfile, Refuse, Save, Start, Superstep, Consume, Ask,
                        CloseBrowser, Reread, Write, Release, Fail, Timeout, Beat, Crash, At, Open
    <3>2. PICK run \in Runs : worker[w].run = run
      BY <3>1 DEF TypeInv, WorkerShape
    <3>3. CASE TakeProfile(w) \/ Consume(w) \/ Ask(w) \/ Fail(w) \/ Timeout(w)
               \/ CloseBrowser(w) \/ Reread(w)
      BY <3>2, <3>3, QuietWorkKeepsCustody
    <3>4. CASE Save(w) \/ Refuse(w) \/ Start(w) \/ Superstep(w) \/ Beat(w)
      BY <3>2, <3>4, ClaimKeepsCustody, StartKeepsCustody, SuperstepKeepsCustody,
         BeatKeepsCustody
    <3>5. CASE Write(w) \/ Release(w) \/ Crash(w)
      BY <3>2, <3>5, WriteKeepsCustody, LettingGoKeepsCustody
    <3> QED
      BY <1>3, <2>2, <3>3, <3>4, <3>5 DEF WorkerStep
  <2> QED
    BY <2>1, <2>2
<1>4. CASE Scan \/ Free \/ ReaperStops
  BY <1>4, ScanKeepsCustody, FreeKeepsCustody
<1> QED
  BY <1>1, <1>2, <1>3, <1>4 DEF Next

LEMMA CustodyHolds ==
  ASSUME Timely
  PROVE  Spec => [](TypeInv /\ Custody)
<1>1. TypeInv /\ Custody /\ [Next]_vars => (TypeInv /\ Custody)'
  BY TypeStep, CustodyStep
<1> QED
  BY InitTypes, InitCustody, <1>1, PTL DEF Spec

\* Two claims of a run that overlap are the only way to two workers that execute it:
\* while heartbeats are in time, deliveries that come twice or late, deaths, the reaper
\* and whole-row saves lead to none.
THEOREM OneWorkerUnlessClaimedTwice ==
  ASSUME Timely
  PROVE  Spec => []SharedOnlyIfClaimedTwice
<1>1. Custody => SharedOnlyIfClaimedTwice
  BY DEF Custody, Apart, SharedOnlyIfClaimedTwice, Engaged
<1> QED
  BY <1>1, CustodyHolds, PTL

\* The agent gets an answer to the question it is stopped at and to no other, whatever
\* dies between the question, the answer and the resume; but for an answer that was
\* given to another question and accepted for this one, and for a run claimed twice.
THEOREM AnswersFit ==
  ASSUME Timely
  PROVE  Spec => []AnswerFitsQuestion
<1>1. Custody => AnswerFitsQuestion
  BY DEF Custody, WorkerFits, AnswerFitsQuestion, At, Engaged, Executing, Open
<1> QED
  BY <1>1, CustodyHolds, PTL

-----------------------------------------------------------------------------
(* What the statuses of the rows do is a RunLifecycle, as long as no run is claimed twice. *)

\* A step of a run that was claimed twice.
TwiceMoves == \E r \in twice : row'[r].status # row[r].status

\* A row that changes alone moves its run in the lifecycle.
LEMMA OneMoves ==
  ASSUME TypeInv, NEW r \in Runs, NEW to, row' \in [Runs -> Row], row'[r].status = to,
         \A q \in Runs \ {r} : row'[q].status = row[q].status
  PROVE  Lifecycle!Moves(r, row[r].status, to)
<1>1. Status' = [Status EXCEPT ![r] = to]
  BY DEF Status
<1> QED
  BY <1>1 DEF Status, Lifecycle!Moves

LEMMA SameStatus ==
  ASSUME \A q \in Runs : row'[q].status = row[q].status
  PROVE  Status' = Status
  BY DEF Status

\* The requests: Create, EndWait and Answer; the rest of them is not seen.
LEMMA RequestMoves ==
  ASSUME TypeInv, TypeInv', Custody, NEW r \in Runs,
         \/ Admit(r) \/ Insert(r) \/ Cancel(r) \/ EndWait(r) \/ GoSilent(r)
         \/ \E q \in 1 .. thread[r].questions : Answer(r, q)
  PROVE  Lifecycle!Next \/ Status' = Status \/ TwiceMoves
<1>0. row \in [Runs -> Row] /\ row' \in [Runs -> Row] /\ RunFits(r)
  BY DEF TypeInv, Types, Custody
<1>1. CASE Insert(r) /\ r \in twice
  <2>1. row' = [row EXCEPT ![r].status = "queued"]
    BY <1>1 DEF Insert
  <2>2. \A q \in Runs \ {r} : row'[q].status = row[q].status
    BY <1>0, <2>1
  <2>3. CASE row'[r].status # row[r].status
    BY <1>1, <2>3 DEF TwiceMoves
  <2>4. CASE row'[r].status = row[r].status
    BY <2>2, <2>4, SameStatus
  <2> QED
    BY <2>3, <2>4
<1>5. CASE Insert(r) /\ r \notin twice
  <2>1. row[r].status = "absent" /\ row' = [row EXCEPT ![r].status = "queued"]
    BY <1>0, <1>5 DEF Insert, RunFits
  <2>2. row'[r].status = "queued" /\ \A q \in Runs \ {r} : row'[q].status = row[q].status
    BY <1>0, <2>1 DEF Row
  <2>3. Lifecycle!Moves(r, "absent", "queued")
    BY <1>0, <2>1, <2>2, OneMoves
  <2> QED
    BY <2>3 DEF Lifecycle!Next, Lifecycle!Create
<1>2. CASE EndWait(r) /\ row[r].status = "waiting"
  <2>1. row' = [row EXCEPT ![r].status = "cancelled", ![r].question = 0, ![r].answer = 0]
    BY <1>2 DEF EndWait
  <2>2. row'[r].status = "cancelled" /\ \A q \in Runs \ {r} : row'[q].status = row[q].status
    BY <1>0, <2>1 DEF Row
  <2>3. Lifecycle!Moves(r, "waiting", "cancelled")
    BY <1>0, <1>2, <2>2, OneMoves
  <2> QED
    BY <2>3 DEF Lifecycle!Next, Lifecycle!EndWait
<1>3. ASSUME NEW n \in 1 .. thread[r].questions, Answer(r, n)
      PROVE  Lifecycle!Next
  <2>1. /\ row[r].status = "waiting"
        /\ row' = [row EXCEPT ![r].status = "queued", ![r].answer = n]
    BY <1>3 DEF Answer, Accept
  <2>2. row'[r].status = "queued" /\ \A q \in Runs \ {r} : row'[q].status = row[q].status
    BY <1>0, <2>1 DEF Row
  <2>3. Lifecycle!Moves(r, "waiting", "queued")
    BY <1>0, <2>1, <2>2, OneMoves
  <2> QED
    BY <2>3 DEF Lifecycle!Next, Lifecycle!Answer
<1>4. CASE Admit(r) \/ Cancel(r) \/ GoSilent(r) \/ (EndWait(r) /\ row[r].status # "waiting")
  <2>1. \/ row' = row
        \/ row' = [row EXCEPT ![r].cancel = TRUE]
        \/ row' = [row EXCEPT ![r].beat = "silent"]
    BY <1>4 DEF Admit, Cancel, GoSilent, EndWait
  <2>2. \A q \in Runs : row'[q].status = row[q].status
    BY <1>0, <2>1 DEF Row
  <2> QED
    BY <2>2, SameStatus
<1> QED
  BY <1>1, <1>2, <1>3, <1>4, <1>5

\* The reaper: Recover and End, of a run that is running still when it comes to it.
LEMMA ReaperMoves ==
  ASSUME TypeInv, TypeInv', Custody, Scan \/ Free \/ ReaperStops \/ \E r \in Runs : Reap(r)
  PROVE  Lifecycle!Next \/ Status' = Status \/ TwiceMoves
<1>0. row \in [Runs -> Row] /\ row' \in [Runs -> Row]
  BY DEF TypeInv, Types
<1>1. CASE Scan \/ Free \/ ReaperStops
  BY <1>1, SameStatus DEF Scan, Free, ReaperStops
<1>2. ASSUME NEW r \in Runs, Reap(r), row[r].status = "running"
      PROVE  Lifecycle!Next
  <2>1. \/ row' = [row EXCEPT ![r] = Requeued(row[r])]
        \/ row' = [row EXCEPT ![r].status = "failed"]
    BY <1>2 DEF Reap
  <2>2. Requeued(row[r]).status = "queued"
    BY <1>0 DEF Row, Requeued
  <2>3. /\ row'[r].status \in {"queued", "failed"}
        /\ \A q \in Runs \ {r} : row'[q].status = row[q].status
    BY <1>0, <2>1, <2>2 DEF Row
  <2>4. PICK to \in {"queued", "failed"} : row'[r].status = to
    BY <2>3
  <2>5. Lifecycle!Moves(r, "running", to)
    BY <1>0, <1>2, <2>3, <2>4, OneMoves
  <2> QED
    BY <2>4, <2>5 DEF Lifecycle!Next, Lifecycle!Recover, Lifecycle!End, Lifecycle!Terminal
<1>3. ASSUME NEW r \in Runs, Reap(r), row[r].status # "running"
      PROVE  Status' = Status
  BY <1>3, SameStatus DEF Reap
<1> QED
  BY <1>1, <1>2, <1>3

\* The worker that has the run: Claim, Refuse, Ask and End; its other steps are not seen.
LEMMA WorkerMoves ==
  ASSUME TypeInv, TypeInv', Custody, NEW w \in Workers,
         WorkerStep(w) \/ Fail(w) \/ Timeout(w) \/ Beat(w) \/ Crash(w)
  PROVE  Lifecycle!Next \/ Status' = Status \/ TwiceMoves
<1>0. row \in [Runs -> Row] /\ row' \in [Runs -> Row] /\ WorkerFits(w)
  BY DEF TypeInv, Types, Custody
<1>1. CASE Save(w) \/ Refuse(w) \/ Write(w)
  <2>1. PICK r \in Runs : r = worker[w].run
    BY <1>1 DEF Save, Refuse, Write, At, TypeInv, WorkerShape
  <2>5. CASE r \in twice
    <3>1. \A q \in Runs \ {r} : row'[q].status = row[q].status
      BY <1>0, <1>1, <2>1 DEF Save, Refuse, Write
    <3>2. CASE row'[r].status # row[r].status
      BY <2>5, <3>2 DEF TwiceMoves
    <3>3. CASE row'[r].status = row[r].status
      BY <3>1, <3>3, SameStatus
    <3> QED
      BY <3>2, <3>3
  <2>2. CASE Save(w) /\ r \notin twice
    <3>1. /\ row[r].status = "queued"
          /\ row' = [row EXCEPT ![r].status = "running", ![r].beat = "fresh"]
      BY <1>0, <2>1, <2>2 DEF Save, At, WorkerFits, Engaged, Claiming
    <3>2. row'[r].status = "running" /\ \A q \in Runs \ {r} : row'[q].status = row[q].status
      BY <1>0, <3>1 DEF Row
    <3>3. Lifecycle!Moves(r, "queued", "running")
      BY <1>0, <3>1, <3>2, OneMoves
    <3> QED
      BY <3>3 DEF Lifecycle!Next, Lifecycle!Claim
  <2>3. CASE Refuse(w) /\ r \notin twice
    <3>1. /\ row[r].status = "queued" /\ worker[w].verdict \in {"cancelled", "failed"}
          /\ row' = [row EXCEPT ![r] = [worker[w].snap EXCEPT !.status = worker[w].verdict]]
          /\ worker[w].snap \in Row
      BY <1>0, <2>1, <2>3 DEF Refuse, At, WorkerFits, Engaged, Claiming, TypeInv, Types, Worker
    <3>2. /\ row'[r].status = worker[w].verdict
          /\ \A q \in Runs \ {r} : row'[q].status = row[q].status
      BY <1>0, <3>1 DEF Row
    <3>3. PICK end \in {"cancelled", "failed"} : worker[w].verdict = end
      BY <3>1
    <3>4. Lifecycle!Moves(r, "queued", end)
      BY <1>0, <3>1, <3>2, <3>3, OneMoves
    <3> QED
      BY <3>3, <3>4 DEF Lifecycle!Next, Lifecycle!Refuse
  <2>4. CASE Write(w) /\ r \notin twice
    <3>1. /\ row[r].status = "running" /\ worker[w].verdict \in {"waiting"} \union Terminal
          /\ row' = [row EXCEPT ![r] = IF worker[w].verdict = "waiting"
                                         THEN Parked(worker[w].snap, worker[w].asked)
                                         ELSE [worker[w].snap EXCEPT !.status = worker[w].verdict]]
          /\ worker[w].snap \in Row
      BY <1>0, <2>1, <2>4
         DEF Write, At, WorkerFits, Engaged, TypeInv, Types, WorkerShape, Worker, Executing
    <3>2. /\ row'[r].status = worker[w].verdict
          /\ \A q \in Runs \ {r} : row'[q].status = row[q].status
      <4>1. CASE worker[w].verdict = "waiting"
        BY <1>0, <3>1, <4>1 DEF Row, Parked
      <4>2. CASE worker[w].verdict # "waiting"
        BY <1>0, <3>1, <4>2 DEF Row
      <4> QED
        BY <4>1, <4>2
    <3>3. PICK to \in {"waiting"} \union Terminal : worker[w].verdict = to
      BY <3>1
    <3>4. Lifecycle!Moves(r, "running", to)
      BY <1>0, <3>1, <3>2, <3>3, OneMoves
    <3>5. CASE to = "waiting"
      BY <3>4, <3>5 DEF Lifecycle!Next, Lifecycle!Ask
    <3>6. CASE to \in Terminal
      BY <3>4, <3>6 DEF Lifecycle!Next, Lifecycle!End, Lifecycle!Terminal, Terminal
    <3> QED
      BY <3>3, <3>5, <3>6
  <2> QED
    BY <1>1, <2>2, <2>3, <2>4, <2>5
<1>2. CASE Start(w) \/ Beat(w)
  <2>1. PICK r \in Runs : r = worker[w].run
    BY <1>2 DEF Start, Beat, At, Open, TypeInv, WorkerShape
  <2>2. \/ row' = row
        \/ row' = [row EXCEPT ![r] = AnswerTaken(row[r])]
        \/ row' = [row EXCEPT ![r].beat = "fresh"]
    BY <1>2, <2>1 DEF Start, Beat
  <2>3. AnswerTaken(row[r]).status = row[r].status
    BY <1>0 DEF Row, AnswerTaken
  <2>4. \A q \in Runs : row'[q].status = row[q].status
    BY <1>0, <2>2, <2>3 DEF Row
  <2> QED
    BY <2>4, SameStatus
<1>3. CASE ~(Save(w) \/ Refuse(w) \/ Write(w) \/ Start(w) \/ Beat(w))
  <2>1. row' = row
    BY <1>3 DEF WorkerStep, Receive, TakeProfile, Superstep, Consume, Ask, CloseBrowser, Reread,
                Release, Fail, Timeout, Crash
  <2> QED
    BY <2>1, SameStatus
<1> QED
  BY <1>1, <1>2, <1>3

\* Every run moves as RunLifecycle says, but for a run that was claimed twice: the page of
\* a run, and whatever else reads its status, may rely on that.
THEOREM LifecycleFollowed ==
  ASSUME Timely
  PROVE  Spec => FollowsLifecycle
<1>1. TypeInv /\ Custody /\ TypeInv' /\ [Next]_vars
        => [Lifecycle!Next \/ UNCHANGED Status \/ \E r \in twice : row'[r].status # row[r].status]_vars
  <2> SUFFICES ASSUME TypeInv, Custody, TypeInv', Next
               PROVE  Lifecycle!Next \/ Status' = Status \/ TwiceMoves
    BY DEF TwiceMoves
  <2> QED
    BY RequestMoves, ReaperMoves, WorkerMoves DEF Next
<1> QED
  BY <1>1, CustodyHolds, PTL DEF Spec, FollowsLifecycle
=============================================================================
