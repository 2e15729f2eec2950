---------------------------- MODULE GuardedSend ----------------------------
(***************************************************************************)
(* One verification message on its way to the provider: the Celery task    *)
(* send_verification_message under the task framework's retry policy       *)
(* (common/tasks/base.py), the idempotency guard around it                 *)
(* (common/tasks/idempotency.py: a lock in the cache and a TaskExecution   *)
(* row) and the message log (messaging/services.py) under the same key.    *)
(*                                                                         *)
(* The key is a challenge and a code, so one message is the whole system.  *)
(* A failed statement or cache call raises an error that is not retried; a *)
(* transport error of the provider, or a lock that is taken, is.           *)
(***************************************************************************)
EXTENDS Integers, FiniteSets

CONSTANTS
  Workers,      \* Celery worker processes
  Free, Left,   \* states of the lock: nobody's, a worker's that is gone
  MaxRetries,   \* TASK_MAX_RETRIES
  MaxDeaths     \* bound: worker deaths

ASSUME SendAssumption ==
  /\ MaxRetries \in Nat /\ MaxDeaths \in Nat
  /\ Free \notin Workers /\ Left \notin Workers /\ Free # Left

VARIABLES
  open,      \* the challenge is neither consumed nor expired nor deleted
  queue,     \* deliveries the broker has, as a count for each number of retries
  lock,      \* the guard's lock in the cache
  row,       \* status of the TaskExecution row
  log,       \* status of the OutboundMessage row
  pc,        \* where each worker is
  tries,     \* retries of the delivery it has received
  raised,    \* the exception that is on its way
  dead,      \* the task was dead-lettered
  dropped,   \* a retry could not be sent, or a dead letter not be written
  sent,      \* messages the provider has sent
  forgotten, \* of these, the ones nobody could write down
  faults,    \* the provider, the database or the cache failed a worker
  deaths     \* workers that died

vars == <<open, queue, lock, row, log, pc, tries, raised, dead, dropped, sent, forgotten, faults, deaths>>
stored == <<lock, row, log>>
ends == <<dead, dropped>>
ghosts == <<sent, forgotten, faults, deaths>>

RowStatus == {"none", "running", "succeeded", "failed"}
LogStatus == {"none", "queued", "sent", "failed"}
Guarded == {"row", "log", "send", "mark", "unmark", "exit", "release"}
Places == {"idle", "enter", "raise", "ack"} \union Guarded

Init ==
  /\ open = TRUE
  /\ queue = [n \in 0 .. MaxRetries |-> IF n = 0 THEN 1 ELSE 0]
  /\ lock = Free /\ row = "none" /\ log = "none"
  /\ pc = [w \in Workers |-> "idle"]
  /\ tries = [w \in Workers |-> 0]
  /\ raised = [w \in Workers |-> "none"]
  /\ dead = FALSE /\ dropped = FALSE
  /\ sent = 0 /\ forgotten = 0 /\ faults = FALSE /\ deaths = 0

Goes(w, place) == pc' = [pc EXCEPT ![w] = place]
Throws(w, e) == raised' = [raised EXCEPT ![w] = e]

-----------------------------------------------------------------------------
(* The task. *)

Receive(w, n) ==
  /\ pc[w] = "idle" /\ queue[n] > 0
  /\ queue' = [queue EXCEPT ![n] = @ - 1]
  /\ tries' = [tries EXCEPT ![w] = n]
  /\ Throws(w, "none")
  /\ Goes(w, IF open THEN "enter" ELSE "ack")
  /\ UNCHANGED <<open, stored, ends, ghosts>>

\* __enter__: the lock ...
Enter_Waits(w) ==
  /\ pc[w] = "enter"
  /\ lock' = w /\ Goes(w, "row") /\ UNCHANGED <<raised, faults>>
  /\ UNCHANGED <<open, queue, row, log, tries, ends, sent, forgotten, deaths>>

Enter(w) ==
  /\ pc[w] = "enter"
  /\ \/ lock = Free /\ lock' = w /\ Goes(w, "row") /\ UNCHANGED <<raised, faults>>
     \/ lock # Free /\ Throws(w, "retry") /\ Goes(w, "raise") /\ UNCHANGED <<lock, faults>>
     \/ /\ Throws(w, "error") /\ Goes(w, "raise") /\ faults' = TRUE
        /\ lock' = lock \/ (lock = Free /\ lock' = Left)
  /\ UNCHANGED <<open, queue, row, log, tries, ends, sent, forgotten, deaths>>

\* ... and the row. A duplicate leaves at once.
Row(w) ==
  /\ pc[w] = "row"
  /\ \/ row = "succeeded" /\ Goes(w, "release") /\ UNCHANGED <<row, raised, faults>>
     \/ row # "succeeded" /\ row' = "running" /\ Goes(w, "log") /\ UNCHANGED <<raised, faults>>
     \/ Throws(w, "error") /\ Goes(w, "release") /\ faults' = TRUE /\ UNCHANGED row
  /\ UNCHANGED <<open, queue, lock, log, tries, ends, sent, forgotten, deaths>>

\* send_whatsapp_verification: the log row, ...
Log(w) ==
  /\ pc[w] = "log"
  /\ \/ log = "sent" /\ Goes(w, "exit") /\ UNCHANGED <<log, raised, faults>>
     \/ /\ log # "sent" /\ log' = (IF log = "none" THEN "queued" ELSE log)
        /\ Goes(w, "send") /\ UNCHANGED <<raised, faults>>
     \/ Throws(w, "error") /\ Goes(w, "exit") /\ faults' = TRUE /\ UNCHANGED log
  /\ UNCHANGED <<open, queue, lock, row, tries, ends, sent, forgotten, deaths>>

\* ... the provider: it answers, is lost on the way there or back, refuses, or answers
\* what cannot be read, ...
Send(w) ==
  /\ pc[w] = "send"
  /\ \/ sent' = sent + 1 /\ Goes(w, "mark") /\ UNCHANGED <<raised, forgotten, faults>>
     \/ /\ sent' \in {sent, sent + 1} /\ forgotten' = forgotten + (sent' - sent)
        /\ \E e \in {"retry", "error"} : Throws(w, e)
        /\ Goes(w, "unmark") /\ faults' = TRUE
  /\ UNCHANGED <<open, queue, stored, tries, ends, deaths>>

\* ... and what is written down of it. The except clause catches a failure to write, too.
Mark(w) ==
  /\ pc[w] = "mark"
  /\ \/ log' = "sent" /\ Goes(w, "exit") /\ UNCHANGED <<raised, forgotten, faults>>
     \/ /\ Throws(w, "error") /\ Goes(w, "unmark")
        /\ forgotten' = forgotten + 1 /\ faults' = TRUE /\ UNCHANGED log
  /\ UNCHANGED <<open, queue, lock, row, tries, ends, sent, deaths>>

Unmark(w) ==
  /\ pc[w] = "unmark"
  /\ \/ log' = "failed" /\ UNCHANGED <<raised, faults>>
     \/ Throws(w, "error") /\ faults' = TRUE /\ UNCHANGED log
  /\ Goes(w, "exit")
  /\ UNCHANGED <<open, queue, lock, row, tries, ends, sent, forgotten, deaths>>

\* __exit__: the outcome ...
Exit_LogStatus(w) ==
  /\ pc[w] = "exit"
  /\ row' = (IF raised[w] = "none" THEN "sent" ELSE "failed") /\ Goes(w, "release")
  /\ UNCHANGED <<open, queue, lock, log, tries, raised, ends, ghosts>>

Exit(w) ==
  /\ pc[w] = "exit"
  /\ \/ row' = (IF raised[w] = "none" THEN "succeeded" ELSE "failed") /\ UNCHANGED <<raised, faults>>
     \/ Throws(w, "error") /\ faults' = TRUE /\ UNCHANGED row
  /\ Goes(w, "release")
  /\ UNCHANGED <<open, queue, lock, log, tries, ends, sent, forgotten, deaths>>

\* ... and the lock is deleted, whoever's it is.
Release(w) ==
  /\ pc[w] = "release"
  /\ \/ lock' = Free /\ UNCHANGED <<raised, faults>>
     \/ lock' = Left /\ Throws(w, "error") /\ faults' = TRUE
  /\ Goes(w, IF raised'[w] = "none" THEN "ack" ELSE "raise")
  /\ UNCHANGED <<open, queue, row, log, tries, ends, sent, forgotten, deaths>>

-----------------------------------------------------------------------------
(* What Celery makes of it. *)

Retriable(w) == raised[w] = "retry" /\ tries[w] < MaxRetries

\* task.retry: a broker that does not take the message drops it.
Retry_Unsent(w) ==
  /\ pc[w] = "raise" /\ Retriable(w)
  /\ Goes(w, "ack")
  /\ UNCHANGED <<open, queue, stored, tries, raised, ends, ghosts>>

Drops == dropped' = TRUE /\ faults' = TRUE

Retry_SameCount(w) ==
  /\ pc[w] = "raise" /\ Retriable(w)
  /\ \/ queue' = [queue EXCEPT ![tries[w]] = @ + 1] /\ UNCHANGED <<dropped, faults>>
     \/ Drops /\ UNCHANGED queue
  /\ Goes(w, "ack")
  /\ UNCHANGED <<open, stored, tries, raised, dead, sent, forgotten, deaths>>

Retry(w) ==
  /\ pc[w] = "raise" /\ Retriable(w)
  /\ \/ queue' = [queue EXCEPT ![tries[w] + 1] = @ + 1] /\ UNCHANGED <<dropped, faults>>
     \/ Drops /\ UNCHANGED queue
  /\ Goes(w, "ack")
  /\ UNCHANGED <<open, stored, tries, raised, dead, sent, forgotten, deaths>>

\* on_failure: the row of the dead letter, or, if it cannot be written, a line in the log.
DeadLetter(w) ==
  /\ pc[w] = "raise" /\ ~Retriable(w)
  /\ \/ dead' = TRUE /\ UNCHANGED <<dropped, faults>>
     \/ Drops /\ UNCHANGED dead
  /\ Goes(w, "ack")
  /\ UNCHANGED <<open, queue, stored, tries, raised, sent, forgotten, deaths>>

Ack(w) ==
  /\ pc[w] = "ack"
  /\ Goes(w, "idle")
  /\ UNCHANGED <<open, queue, stored, tries, raised, ends, ghosts>>

Task(w) ==
  \/ \E n \in 0 .. MaxRetries : Receive(w, n)
  \/ Enter(w) \/ Row(w) \/ Log(w) \/ Send(w) \/ Mark(w) \/ Unmark(w) \/ Exit(w) \/ Release(w)
  \/ Retry(w) \/ DeadLetter(w) \/ Ack(w)

-----------------------------------------------------------------------------
(* Deaths, time and the user. *)

\* acks_late: the broker delivers again what a dead worker had received.
Crash(w) ==
  /\ pc[w] # "idle" /\ deaths < MaxDeaths
  /\ deaths' = deaths + 1
  /\ Goes(w, "idle")
  /\ queue' = [queue EXCEPT ![tries[w]] = @ + 1]
  /\ lock' = (IF pc[w] \in Guarded THEN Left ELSE lock)
  /\ forgotten' = (IF pc[w] = "mark" THEN forgotten + 1 ELSE forgotten)
  /\ UNCHANGED <<open, row, log, tries, raised, ends, sent, faults>>

\* TASK_LOCK_TIMEOUT outlives the hard time limit: a worker that has the lock is gone
\* when it expires.
ExpireLock_Early ==
  /\ lock # Free
  /\ lock' = Free
  /\ UNCHANGED <<open, queue, row, log, pc, tries, raised, ends, ghosts>>

ExpireLock ==
  /\ lock = Left
  /\ lock' = Free
  /\ UNCHANGED <<open, queue, row, log, pc, tries, raised, ends, ghosts>>

Close ==
  /\ open
  /\ open' = FALSE
  /\ UNCHANGED <<queue, stored, pc, tries, raised, ends, ghosts>>

Next ==
  \/ \E w \in Workers : Task(w) \/ Crash(w)
  \/ ExpireLock \/ Close

Spec == Init /\ [][Next]_vars

\* Workers work.
FairSpec == Spec /\ \A w \in Workers : WF_vars(Task(w))

-----------------------------------------------------------------------------
(* Properties. *)

\* The types of the variables.
TypeOK ==
  /\ open \in BOOLEAN /\ dead \in BOOLEAN /\ dropped \in BOOLEAN /\ faults \in BOOLEAN
  /\ queue \in [0 .. MaxRetries -> Nat]
  /\ lock \in Workers \union {Free, Left}
  /\ row \in RowStatus /\ log \in LogStatus
  /\ pc \in [Workers -> Places]
  /\ tries \in [Workers -> 0 .. MaxRetries]
  /\ raised \in [Workers -> {"none", "retry", "error"}]
  /\ sent \in Nat /\ forgotten \in Nat /\ deaths \in 0 .. MaxDeaths

\* The lock "stops two workers running the same key concurrently" (idempotency.py:10),
\* although it is deleted without a look at whose it is.
OneInGuard == \A v, w \in Workers : pc[v] \in Guarded /\ pc[w] \in Guarded => v = w

\* A key whose deliveries are suppressed has reached the provider.
SuppressedOnlyIfSent == row = "succeeded" \/ log = "sent" => sent > forgotten

\* A message goes out a second time only when the first could not be written down: the
\* provider's answer was lost, or the log row could not be saved, or the worker died first.
OncePlusForgotten == sent <= forgotten + 1

\* Once the log says that the message is sent it stays so, and nothing is sent any more.
SentIsFinal == [][log = "sent" => log' = "sent" /\ sent' = sent]_vars

\* While the code can be used, the message is sent, or a delivery of it is out; or the
\* task ended for a cause, something failed it or a worker died (core/settings/base.py:225),
\* and then it is dead-lettered, unless the last thing to be done about it, the retry's
\* message or the dead letter's row, was what failed.
NeverLost ==
  open => \/ log = "sent"
          \/ (dead /\ (faults \/ deaths > 0)) \/ dropped
          \/ \E n \in 0 .. MaxRetries : queue[n] > 0
          \/ \E w \in Workers : pc[w] # "idle"

\* The deliveries end, and with them the task.
Ends == <>[](\A w \in Workers : pc[w] = "idle" /\ \A n \in 0 .. MaxRetries : queue[n] = 0)
=============================================================================
