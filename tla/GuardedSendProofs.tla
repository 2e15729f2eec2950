------------------------- MODULE GuardedSendProofs -------------------------
(***************************************************************************)
(* Proofs about GuardedSend, for any number of workers, retries and        *)
(* deaths: one worker at a time is in the guard, and what the provider has *)
(* sent is what the two tables know of, plus what could not be written.    *)
(***************************************************************************)
EXTENDS GuardedSend, TLAPS

\* The lock is its holder's while it is in the guard.
LockInv == \A w \in Workers : pc[w] \in Guarded => lock = w

\* What a worker in the guard knows of the log.
LogInv ==
  /\ row = "succeeded" => log = "sent"
  /\ \A w \in Workers :
       /\ pc[w] \in {"send", "mark", "unmark"} => log # "sent"
       /\ pc[w] \in {"enter", "row", "log", "send", "mark"} => raised[w] = "none"
       /\ pc[w] \in {"raise", "unmark"} => raised[w] # "none"
       /\ pc[w] = "exit" /\ raised[w] = "none" => log = "sent"

\* Every message sent is in the log, or about to be, or was forgotten.
CountInv ==
  /\ log = "sent" => sent = forgotten + 1
  /\ \A w \in Workers : pc[w] = "mark" => sent = forgotten + 1
  /\ log # "sent" /\ (\A w \in Workers : pc[w] # "mark") => sent = forgotten

SendInv == TypeOK /\ LockInv /\ LogInv /\ CountInv

-----------------------------------------------------------------------------
(* Types. *)

Exceptions == {"none", "retry", "error"}

LEMMA Typed ==
  ASSUME TypeOK, NEW w \in Workers
  PROVE  /\ (\E p \in Places : Goes(w, p)) => pc' \in [Workers -> Places]
         /\ (UNCHANGED raised \/ \E e \in Exceptions : Throws(w, e))
              => raised' \in [Workers -> Exceptions]
BY DEF TypeOK, Goes, Throws, Exceptions

\* The steps of the task, which leave the broker alone.
LEMMA TaskTyped ==
  ASSUME TypeOK, NEW w \in Workers,
         Enter(w) \/ Row(w) \/ Log(w) \/ Send(w) \/ Mark(w) \/ Unmark(w) \/ Exit(w) \/ Release(w)
  PROVE  TypeOK'
<1>1. \E p \in Places : Goes(w, p)
  BY DEF Enter, Row, Log, Send, Mark, Unmark, Exit, Release, Places, Guarded
<1>2. UNCHANGED raised \/ \E e \in Exceptions : Throws(w, e)
  BY DEF Enter, Row, Log, Send, Mark, Unmark, Exit, Release, Exceptions
<1>3. lock' \in Workers \union {Free, Left} /\ row' \in RowStatus /\ log' \in LogStatus
  BY DEF TypeOK, Enter, Row, Log, Send, Mark, Unmark, Exit, Release, RowStatus, LogStatus, stored
<1>4. sent' \in Nat /\ forgotten' \in Nat
  BY DEF TypeOK, Enter, Row, Log, Send, Mark, Unmark, Exit, Release
<1>5. faults' \in BOOLEAN
  BY Zenon DEF TypeOK, Enter, Row, Log, Send, Mark, Unmark, Exit, Release
<1>6. UNCHANGED <<open, queue, tries, dead, dropped, deaths>>
  BY DEF Enter, Row, Log, Send, Mark, Unmark, Exit, Release, stored, ends
<1>7. QED
  BY <1>1, <1>2, <1>3, <1>4, <1>5, <1>6, Typed DEF TypeOK, Exceptions

\* The steps that receive, publish or give up a delivery.
LEMMA CeleryTyped ==
  ASSUME TypeOK, NEW w \in Workers,
         (\E n \in 0 .. MaxRetries : Receive(w, n)) \/ Retry(w) \/ DeadLetter(w) \/ Ack(w)
           \/ Crash(w)
  PROVE  TypeOK'
<1>1. CASE \E n \in 0 .. MaxRetries : Receive(w, n)
  <2>1. PICK n \in 0 .. MaxRetries : Receive(w, n)
    BY <1>1
  <2>2. queue' \in [0 .. MaxRetries -> Nat] /\ tries' \in [Workers -> 0 .. MaxRetries]
    <3>1. queue \in [0 .. MaxRetries -> Nat] /\ tries \in [Workers -> 0 .. MaxRetries]
      BY DEF TypeOK
    <3>2. /\ queue' = [queue EXCEPT ![n] = @ - 1] /\ queue[n] > 0
          /\ tries' = [tries EXCEPT ![w] = n]
      BY <2>1 DEF Receive
    <3>3. queue[n] \in Nat /\ queue[n] - 1 \in Nat
      BY <3>1, <3>2
    <3>4. QED
      BY <3>1, <3>2, <3>3
  <2>3. pc' \in [Workers -> Places] /\ raised' \in [Workers -> Exceptions]
    BY <2>1, Typed DEF Receive, Places, Exceptions
  <2>4. QED
    BY <2>1, <2>2, <2>3 DEF TypeOK, Receive, stored, ends, ghosts, Exceptions
<1>2. CASE Retry(w)
  <2>1. tries[w] + 1 \in 0 .. MaxRetries
    BY <1>2, SendAssumption DEF Retry, Retriable, TypeOK
  <2>2. queue' \in [0 .. MaxRetries -> Nat]
    BY <1>2, <2>1 DEF Retry, TypeOK
  <2>3. pc' \in [Workers -> Places]
    BY <1>2, Typed DEF Retry, Places
  <2>4. dropped' \in BOOLEAN /\ faults' \in BOOLEAN
    BY <1>2 DEF Retry, Drops, TypeOK
  <2>5. QED
    BY <1>2, <2>2, <2>3, <2>4 DEF TypeOK, Retry, stored
<1>3. CASE DeadLetter(w)
  <2>1. pc' \in [Workers -> Places]
    BY <1>3, Typed DEF DeadLetter, Places
  <2>2. dead' \in BOOLEAN /\ dropped' \in BOOLEAN /\ faults' \in BOOLEAN
    BY <1>3 DEF DeadLetter, Drops, TypeOK
  <2>3. QED
    BY <1>3, <2>1, <2>2 DEF TypeOK, DeadLetter, stored
<1>4. CASE Ack(w)
  <2>1. pc' \in [Workers -> Places]
    BY <1>4, Typed DEF Ack, Places
  <2>2. QED
    BY <1>4, <2>1 DEF TypeOK, Ack, stored, ends, ghosts
<1>5. CASE Crash(w)
  <2>1. pc' \in [Workers -> Places]
    BY <1>5, Typed DEF Crash, Places
  <2>2. queue' \in [0 .. MaxRetries -> Nat]
    BY <1>5 DEF Crash, TypeOK
  <2>3. deaths' \in 0 .. MaxDeaths /\ forgotten' \in Nat
    BY <1>5, SendAssumption DEF Crash, TypeOK
  <2>4. lock' \in Workers \union {Free, Left}
    BY <1>5 DEF Crash, TypeOK
  <2>5. QED
    BY <1>5, <2>1, <2>2, <2>3, <2>4 DEF TypeOK, Crash, ends
<1>6. QED
  BY <1>1, <1>2, <1>3, <1>4, <1>5

LEMMA StepTyped == TypeOK /\ [Next]_vars => TypeOK'
<1> SUFFICES ASSUME TypeOK, [Next]_vars PROVE TypeOK'
  OBVIOUS
<1>1. ASSUME NEW w \in Workers, Task(w) \/ Crash(w) PROVE TypeOK'
  BY <1>1, TaskTyped, CeleryTyped DEF Task
<1>2. CASE ExpireLock
  BY <1>2 DEF TypeOK, ExpireLock, ends, ghosts
<1>3. CASE Close
  <2>1. open' \in BOOLEAN
    BY <1>3 DEF Close
  <2>2. QED
    BY <1>3, <2>1 DEF TypeOK, Close, stored, ends, ghosts
<1>4. CASE UNCHANGED vars
  BY <1>4 DEF TypeOK, vars
<1>5. QED
  BY <1>1, <1>2, <1>3, <1>4 DEF Next

LEMMA InitTyped == Init => TypeOK
<1> SUFFICES ASSUME Init PROVE TypeOK
  OBVIOUS
<1>1. queue \in [0 .. MaxRetries -> Nat]
  BY DEF Init
<1>2. tries \in [Workers -> 0 .. MaxRetries] /\ sent \in Nat /\ forgotten \in Nat
      /\ deaths \in 0 .. MaxDeaths
  BY SendAssumption DEF Init
<1>3. pc \in [Workers -> Places] /\ raised \in [Workers -> Exceptions]
  BY DEF Init, Places, Exceptions
<1>4. open \in BOOLEAN /\ dead \in BOOLEAN /\ dropped \in BOOLEAN /\ faults \in BOOLEAN
  BY DEF Init
<1>5. QED
  BY <1>1, <1>2, <1>3, <1>4 DEF Init, TypeOK, RowStatus, LogStatus, Exceptions

\* Every variable keeps its type; in particular no delivery has more retries than allowed.
THEOREM SendTypeCorrect == Spec => []TypeOK
<1>1. Init => TypeOK
  BY InitTyped
<1>2. QED
  BY <1>1, StepTyped, PTL DEF Spec

-----------------------------------------------------------------------------
(* One worker in the guard. *)

LEMMA StepLocks ==
  ASSUME TypeOK, LockInv, [Next]_vars
  PROVE  LockInv'
<1> USE DEF TypeOK, LockInv, Goes, Guarded
<1>1. ASSUME NEW w \in Workers, NEW n \in 0 .. MaxRetries, Receive(w, n) PROVE LockInv'
  BY <1>1 DEF Receive, stored, ghosts
<1>2. ASSUME NEW w \in Workers, Enter(w) PROVE LockInv'
  BY <1>2, SendAssumption DEF Enter
<1>3. ASSUME NEW w \in Workers, Row(w) PROVE LockInv'
  BY <1>3 DEF Row
<1>4. ASSUME NEW w \in Workers, Log(w) PROVE LockInv'
  BY <1>4 DEF Log
<1>5. ASSUME NEW w \in Workers, Send(w) PROVE LockInv'
  BY <1>5 DEF Send, stored
<1>6. ASSUME NEW w \in Workers, Mark(w) PROVE LockInv'
  BY <1>6 DEF Mark
<1>7. ASSUME NEW w \in Workers, Unmark(w) PROVE LockInv'
  BY <1>7 DEF Unmark
<1>8. ASSUME NEW w \in Workers, Exit(w) PROVE LockInv'
  BY <1>8 DEF Exit
<1>9. ASSUME NEW w \in Workers, Release(w) PROVE LockInv'
  BY <1>9 DEF Release
<1>10. ASSUME NEW w \in Workers, Retry(w) PROVE LockInv'
  BY <1>10 DEF Retry, stored, ghosts
<1>11. ASSUME NEW w \in Workers, DeadLetter(w) PROVE LockInv'
  BY <1>11 DEF DeadLetter, stored, ghosts
<1>12. ASSUME NEW w \in Workers, Ack(w) PROVE LockInv'
  BY <1>12 DEF Ack, stored, ghosts
<1>13. ASSUME NEW w \in Workers, Crash(w) PROVE LockInv'
  BY <1>13, SendAssumption DEF Crash
<1>14. CASE ExpireLock
  BY <1>14, SendAssumption DEF ExpireLock, stored, ghosts
<1>15. CASE Close
  BY <1>15 DEF Close, stored, ghosts
<1>16. CASE UNCHANGED vars
  BY <1>16 DEF vars
<1>17. QED
  BY <1>1, <1>2, <1>3, <1>4, <1>5, <1>6, <1>7, <1>8,
     <1>9, <1>10, <1>11, <1>12, <1>13, <1>14, <1>15, <1>16
     DEF Next, Task

\* At most one worker is between __enter__ and __exit__ of the guard, although the lock is
\* deleted without a look at whose it is: only its holder gets there, and it expires only
\* when its holder is gone.
THEOREM GuardIsExclusive == Spec => []OneInGuard
<1>1. Init => LockInv
  BY DEF Init, LockInv, Guarded
<1>2. TypeOK /\ LockInv /\ [Next]_vars => LockInv'
  BY StepLocks
<1>3. LockInv => OneInGuard
  BY DEF LockInv, OneInGuard
<1>4. QED
  BY SendTypeCorrect, <1>1, <1>2, <1>3, PTL DEF Spec

-----------------------------------------------------------------------------
(* What was sent. *)

LEMMA StepLogs ==
  ASSUME TypeOK, LockInv, LogInv, [Next]_vars
  PROVE  LogInv'
<1> USE DEF TypeOK, LockInv, LogInv, Goes, Throws, Guarded
<1>1. ASSUME NEW w \in Workers, NEW n \in 0 .. MaxRetries, Receive(w, n) PROVE LogInv'
  BY <1>1 DEF Receive, stored, ghosts
<1>2. ASSUME NEW w \in Workers, Enter(w) PROVE LogInv'
  <2>1. UNCHANGED <<row, log>> /\ pc[w] = "enter"
    BY <1>2 DEF Enter
  <2>2. CASE Goes(w, "row") /\ UNCHANGED raised
    BY <2>1, <2>2
  <2>3. CASE Goes(w, "raise") /\ \E e \in {"retry", "error"} : Throws(w, e)
    BY <2>1, <2>3
  <2>4. QED
    BY <1>2, <2>2, <2>3 DEF Enter
<1>3. ASSUME NEW w \in Workers, Row(w) PROVE LogInv'
  BY <1>3 DEF Row
<1>4. ASSUME NEW w \in Workers, Log(w) PROVE LogInv'
  BY <1>4 DEF Log
<1>5. ASSUME NEW w \in Workers, Send(w) PROVE LogInv'
  BY <1>5 DEF Send, stored
<1>6. ASSUME NEW w \in Workers, Mark(w) PROVE LogInv'
  BY <1>6 DEF Mark
<1>7. ASSUME NEW w \in Workers, Unmark(w) PROVE LogInv'
  BY <1>7 DEF Unmark
<1>8. ASSUME NEW w \in Workers, Exit(w) PROVE LogInv'
  BY <1>8 DEF Exit
<1>9. ASSUME NEW w \in Workers, Release(w) PROVE LogInv'
  BY <1>9 DEF Release
<1>10. ASSUME NEW w \in Workers, Retry(w) PROVE LogInv'
  BY <1>10 DEF Retry, stored, ghosts
<1>11. ASSUME NEW w \in Workers, DeadLetter(w) PROVE LogInv'
  BY <1>11 DEF DeadLetter, stored, ghosts
<1>12. ASSUME NEW w \in Workers, Ack(w) PROVE LogInv'
  BY <1>12 DEF Ack, stored, ghosts
<1>13. ASSUME NEW w \in Workers, Crash(w) PROVE LogInv'
  BY <1>13 DEF Crash
<1>14. CASE ExpireLock
  BY <1>14 DEF ExpireLock, stored, ghosts
<1>15. CASE Close
  BY <1>15 DEF Close, stored, ghosts
<1>16. CASE UNCHANGED vars
  BY <1>16 DEF vars
<1>17. QED
  BY <1>1, <1>2, <1>3, <1>4, <1>5, <1>6, <1>7, <1>8,
     <1>9, <1>10, <1>11, <1>12, <1>13, <1>14, <1>15, <1>16
     DEF Next, Task

LEMMA StepCounts ==
  ASSUME TypeOK, LockInv, LogInv, CountInv, [Next]_vars
  PROVE  CountInv'
<1> USE DEF TypeOK, LockInv, LogInv, CountInv, Goes, Guarded
<1>1. ASSUME NEW w \in Workers, NEW n \in 0 .. MaxRetries, Receive(w, n) PROVE CountInv'
  BY <1>1 DEF Receive, stored, ghosts
<1>2. ASSUME NEW w \in Workers, Enter(w) PROVE CountInv'
  BY <1>2 DEF Enter
<1>3. ASSUME NEW w \in Workers, Row(w) PROVE CountInv'
  BY <1>3 DEF Row
<1>4. ASSUME NEW w \in Workers, Log(w) PROVE CountInv'
  BY <1>4 DEF Log
<1>5. ASSUME NEW w \in Workers, Send(w) PROVE CountInv'
  BY <1>5 DEF Send, stored
<1>6. ASSUME NEW w \in Workers, Mark(w) PROVE CountInv'
  BY <1>6 DEF Mark
<1>7. ASSUME NEW w \in Workers, Unmark(w) PROVE CountInv'
  BY <1>7 DEF Unmark
<1>8. ASSUME NEW w \in Workers, Exit(w) PROVE CountInv'
  BY <1>8 DEF Exit
<1>9. ASSUME NEW w \in Workers, Release(w) PROVE CountInv'
  BY <1>9 DEF Release
<1>10. ASSUME NEW w \in Workers, Retry(w) PROVE CountInv'
  BY <1>10 DEF Retry, stored, ghosts
<1>11. ASSUME NEW w \in Workers, DeadLetter(w) PROVE CountInv'
  BY <1>11 DEF DeadLetter, stored, ghosts
<1>12. ASSUME NEW w \in Workers, Ack(w) PROVE CountInv'
  BY <1>12 DEF Ack, stored, ghosts
<1>13. ASSUME NEW w \in Workers, Crash(w) PROVE CountInv'
  BY <1>13 DEF Crash
<1>14. CASE ExpireLock
  BY <1>14 DEF ExpireLock, stored, ghosts
<1>15. CASE Close
  BY <1>15 DEF Close, stored, ghosts
<1>16. CASE UNCHANGED vars
  BY <1>16 DEF vars
<1>17. QED
  BY <1>1, <1>2, <1>3, <1>4, <1>5, <1>6, <1>7, <1>8,
     <1>9, <1>10, <1>11, <1>12, <1>13, <1>14, <1>15, <1>16
     DEF Next, Task

LEMMA SendInvariant == Spec => []SendInv
<1>1. Init => SendInv
  BY InitTyped DEF Init, SendInv, LockInv, LogInv, CountInv, Guarded
<1>2. SendInv /\ [Next]_vars => SendInv'
  BY StepTyped, StepLocks, StepLogs, StepCounts DEF SendInv
<1>3. QED
  BY <1>1, <1>2, PTL DEF Spec

\* What suppresses later deliveries is a message that the provider has sent.
THEOREM SuppressedIsSent == Spec => []SuppressedOnlyIfSent
<1>1. SendInv => SuppressedOnlyIfSent
  BY DEF SendInv, TypeOK, LogInv, CountInv, SuppressedOnlyIfSent
<1>2. QED
  BY SendInvariant, <1>1, PTL

\* A second message is sent only after one that could not be written down, for any number
\* of workers, deaths, retries and redeliveries.
THEOREM OnceUnlessForgotten == Spec => []OncePlusForgotten
<1>1. SendInv => OncePlusForgotten
  BY DEF SendInv, TypeOK, CountInv, OncePlusForgotten
<1>2. QED
  BY SendInvariant, <1>1, PTL

\* Nothing is sent once the log says that the message is, and the log does not unsay it.
THEOREM SentStays == Spec => SentIsFinal
<1>1. SendInv /\ [Next]_vars => [log = "sent" => log' = "sent" /\ sent' = sent]_vars
  <2> SUFFICES ASSUME SendInv, [Next]_vars, log = "sent"
               PROVE  log' = "sent" /\ sent' = sent
    OBVIOUS
  <2>1. ASSUME NEW w \in Workers, Task(w) \/ Crash(w) PROVE log' = "sent" /\ sent' = sent
    <3>1. pc[w] \notin {"send", "mark", "unmark"}
      BY DEF SendInv, LogInv
    <3>2. QED
      BY <2>1, <3>1
         DEF Task, Receive, Enter, Row, Log, Send, Mark, Unmark, Exit, Release, Retry,
             DeadLetter, Ack, Crash, stored, ghosts
  <2>2. QED
    BY <2>1 DEF Next, ExpireLock, Close, stored, ghosts, vars
<1>2. QED
  BY SendInvariant, <1>1, PTL DEF Spec, SentIsFinal

-----------------------------------------------------------------------------
(***************************************************************************)
(* No message is forgotten. Until something fails there is one token: the  *)
(* delivery, or the worker that received it, so that the lock is free for  *)
(* it and nothing raises. A worker that acknowledges has sent the message, *)
(* published a retry or dead-lettered it before, or could do neither and   *)
(* dropped it: it is not counted on.                                       *)
(***************************************************************************)

Trouble == faults \/ deaths > 0

OneToken ==
  /\ \A v, w \in Workers : pc[v] # "idle" /\ pc[w] # "idle" => v = w
  /\ \A w \in Workers : pc[w] # "idle" => \A n \in 0 .. MaxRetries : queue[n] = 0
  /\ \A n \in 0 .. MaxRetries : queue[n] <= 1
  /\ \A m, n \in 0 .. MaxRetries : queue[m] > 0 /\ queue[n] > 0 => m = n

Smooth ==
  /\ OneToken
  /\ lock # Free => lock \in Workers /\ pc[lock] \in Guarded
  /\ \A w \in Workers : raised[w] = "none"

TakenCareOf ==
  \/ log = "sent" \/ (dead /\ Trouble) \/ dropped
  \/ \E n \in 0 .. MaxRetries : queue[n] > 0
  \/ \E w \in Workers : pc[w] \notin {"idle", "ack"}

CareInv ==
  /\ Trouble \/ Smooth
  /\ open => TakenCareOf
  /\ \A w \in Workers : pc[w] = "release" /\ raised[w] = "none" => log = "sent"

LEMMA TroubleStays ==
  ASSUME TypeOK, [Next]_vars, Trouble
  PROVE  Trouble'
<1>1. ASSUME NEW w \in Workers, Task(w) \/ Crash(w) PROVE Trouble'
  <2>1. faults => faults'
    BY <1>1 DEF Task, Receive, Enter, Row, Log, Send, Mark, Unmark, Exit, Release, Retry,
                DeadLetter, Ack, Crash, Drops, ghosts
  <2>2. deaths > 0 => deaths' > 0
    BY <1>1 DEF TypeOK, Task, Receive, Enter, Row, Log, Send, Mark, Unmark, Exit, Release,
                Retry, DeadLetter, Ack, Crash, ghosts
  <2>3. QED
    BY <2>1, <2>2 DEF Trouble
<1>2. QED
  BY <1>1 DEF Next, ExpireLock, Close, ghosts, vars, Trouble

\* Until something fails, every step leaves one token.
LEMMA StepSmooth ==
  ASSUME TypeOK, LockInv, LogInv, [Next]_vars, Smooth
  PROVE  Trouble' \/ Smooth'
<1> SUFFICES ASSUME ~Trouble' PROVE Smooth'
  OBVIOUS
<1> USE DEF TypeOK, Goes, Throws
<1>1. ASSUME NEW w \in Workers, NEW n \in 0 .. MaxRetries, Receive(w, n) PROVE Smooth'
  <2>1. \A v \in Workers : pc[v] = "idle"
    BY <1>1 DEF Receive, Smooth, OneToken
  <2>2. lock = Free
    BY <2>1 DEF Smooth, Guarded
  <2>3. ASSUME NEW m \in 0 .. MaxRetries PROVE queue'[m] = 0
    <3>1. queue[m] \in Nat /\ queue[n] \in Nat /\ queue[n] > 0
      BY <1>1 DEF Receive
    <3>2. queue[n] = 1 /\ (queue[m] > 0 => m = n)
      BY <3>1 DEF Smooth, OneToken
    <3>3. queue'[m] = IF m = n THEN queue[m] - 1 ELSE queue[m]
      BY <1>1 DEF Receive
    <3>4. QED
      BY <3>1, <3>2, <3>3
  <2>4. \A v \in Workers : v # w => pc'[v] = "idle"
    BY <1>1, <2>1 DEF Receive
  <2>5. QED
    BY <1>1, <2>2, <2>3, <2>4 DEF Receive, Smooth, OneToken, stored
<1>2. ASSUME NEW w \in Workers,
             Enter(w) \/ Row(w) \/ Log(w) \/ Send(w) \/ Mark(w) \/ Unmark(w) \/ Exit(w)
               \/ Release(w)
      PROVE  Smooth'
  <2>1. pc[w] # "idle" /\ UNCHANGED queue
    BY <1>2 DEF Enter, Row, Log, Send, Mark, Unmark, Exit, Release
  <2>2. \A v \in Workers : v # w => pc[v] = "idle" /\ pc'[v] = "idle"
    BY <1>2, <2>1 DEF Smooth, OneToken, Enter, Row, Log, Send, Mark, Unmark, Exit, Release
  <2>3. OneToken'
    BY <2>1, <2>2 DEF Smooth, OneToken
  <2>4. ~faults'
    BY DEF Trouble
  <2>5. UNCHANGED raised /\ (lock' # Free => lock' = w /\ pc'[w] \in Guarded)
    <3>1. lock \in {Free, w}
      BY <2>2 DEF Smooth, Guarded
    <3>2. CASE Enter(w)
      BY <3>1, <3>2, <2>4, SendAssumption DEF Enter, Guarded, Smooth
    <3>3. CASE Release(w)
      BY <3>3, <2>4 DEF Release
    <3>4. CASE Row(w) \/ Log(w) \/ Send(w) \/ Mark(w) \/ Unmark(w) \/ Exit(w)
      <4>1. UNCHANGED <<raised, lock>> /\ pc'[w] \in Guarded
        BY <3>4, <2>4 DEF Row, Log, Send, Mark, Unmark, Exit, Guarded, stored
      <4>2. QED
        BY <4>1, <3>1
    <3>5. QED
      BY <1>2, <3>2, <3>3, <3>4
  <2>6. QED
    BY <2>3, <2>5 DEF Smooth
<1>3. ASSUME NEW w \in Workers PROVE ~Retry(w) /\ ~DeadLetter(w)
  BY DEF Smooth, LogInv, Retry, DeadLetter
<1>4. ASSUME NEW w \in Workers, Ack(w) PROVE Smooth'
  BY <1>4 DEF Ack, Smooth, OneToken, Guarded, stored
<1>5. ASSUME NEW w \in Workers PROVE ~Crash(w)
  BY DEF Crash, Trouble
<1>6. ASSUME ExpireLock PROVE Smooth'
  BY <1>6 DEF ExpireLock, Smooth, OneToken
<1>7. CASE Close \/ UNCHANGED vars
  BY <1>7 DEF Close, Smooth, OneToken, stored, vars
<1>8. QED
  BY <1>1, <1>2, <1>3, <1>4, <1>5, <1>6, <1>7 DEF Next, Task

\* The log says sent on the way out of the guard when nothing was raised.
LEMMA StepLeaves ==
  ASSUME TypeOK, LockInv, LogInv, CareInv, [Next]_vars, NEW v \in Workers,
         pc'[v] = "release", raised'[v] = "none"
  PROVE  log' = "sent"
<1> USE DEF TypeOK, Goes, Throws
<1>1. log = "sent" => log' = "sent"
  <2>1. ASSUME NEW w \in Workers, Task(w) \/ Crash(w), log = "sent" PROVE log' = "sent"
    <3>1. pc[w] \notin {"mark", "unmark"}
      BY <2>1 DEF LogInv
    <3>2. QED
      BY <2>1, <3>1 DEF Task, Receive, Enter, Row, Log, Send, Mark, Unmark, Exit, Release,
                        Retry, DeadLetter, Ack, Crash, stored
  <2>2. QED
    BY <2>1 DEF Next, ExpireLock, Close, stored, vars
<1>2. ASSUME NEW w \in Workers, Task(w) \/ Crash(w), w # v PROVE log = "sent"
  <2>1. UNCHANGED <<pc[v], raised[v]>>
    BY <1>2 DEF Task, Receive, Enter, Row, Log, Send, Mark, Unmark, Exit, Release, Retry,
                DeadLetter, Ack, Crash
  <2>2. QED
    BY <2>1 DEF CareInv
<1>3. CASE Task(v) \/ Crash(v)
  <2>1. Row(v) \/ Exit(v)
    BY <1>3 DEF Task, Receive, Enter, Row, Log, Send, Mark, Unmark, Exit, Release, Retry,
                DeadLetter, Ack, Crash
  <2>2. Row(v) => log = "sent"
    BY DEF Row, LogInv
  <2>3. Exit(v) => log = "sent"
    BY DEF Exit, LogInv
  <2>4. QED
    BY <1>1, <2>1, <2>2, <2>3
<1>4. CASE ExpireLock \/ Close \/ UNCHANGED vars
  <2>1. UNCHANGED <<pc, raised>>
    BY <1>4 DEF ExpireLock, Close, vars
  <2>2. QED
    BY <1>1, <2>1 DEF CareInv
<1>5. QED
  BY <1>1, <1>2, <1>3, <1>4 DEF Next

\* Whoever lets a delivery go has sent the message, published a retry, dead-lettered it, or
\* failed to do the one that was left to do.
LEMMA StepCared ==
  ASSUME TypeOK, LockInv, LogInv, CareInv, [Next]_vars, open'
  PROVE  TakenCareOf'
<1> USE DEF TypeOK, Goes, Throws
<1>1. open /\ TakenCareOf
  BY DEF CareInv, Next, Task, Receive, Enter, Row, Log, Send, Mark, Unmark, Exit, Release, Retry,
         DeadLetter, Ack, Crash, ExpireLock, Close, vars
<1>2. ASSUME NEW w \in Workers, Task(w) \/ Crash(w) PROVE TakenCareOf'
  <2>1. CASE \E n \in 0 .. MaxRetries : Receive(w, n)
    BY <1>1, <2>1 DEF Receive, TakenCareOf
  <2>2. CASE Enter(w) \/ Row(w) \/ Log(w) \/ Send(w) \/ Mark(w) \/ Unmark(w) \/ Exit(w)
    <3>1. pc'[w] \notin {"idle", "ack"}
      BY <2>2 DEF Enter, Row, Log, Send, Mark, Unmark, Exit
    <3>2. QED
      BY <3>1 DEF TakenCareOf
  <2>3. CASE Release(w)
    BY <2>3 DEF Release, CareInv, TakenCareOf
  <2>4. CASE Retry(w)
    <3>1. tries[w] + 1 \in 0 .. MaxRetries
      BY <2>4, SendAssumption DEF Retry, Retriable
    <3>2. queue'[tries[w] + 1] > 0 \/ dropped'
      <4>1. CASE queue' = [queue EXCEPT ![tries[w] + 1] = @ + 1]
        <5>1. queue[tries[w] + 1] \in Nat
          BY <3>1
        <5>2. queue'[tries[w] + 1] = queue[tries[w] + 1] + 1
          BY <3>1, <4>1
        <5>3. QED
          BY <5>1, <5>2
      <4>2. CASE Drops
        BY <4>2 DEF Drops
      <4>3. QED
        BY <2>4, <4>1, <4>2 DEF Retry
    <3>3. QED
      BY <3>1, <3>2 DEF TakenCareOf
  <2>5. CASE DeadLetter(w)
    <3>1. Trouble
      BY <2>5 DEF DeadLetter, LogInv, CareInv, Smooth
    <3>2. Trouble'
      BY <3>1, TroubleStays
    <3>3. QED
      BY <2>5, <3>2 DEF DeadLetter, Drops, TakenCareOf
  <2>6. CASE Ack(w)
    <3>1. UNCHANGED <<log, queue, dead, dropped, Trouble>>
      BY <2>6 DEF Ack, stored, ends, ghosts, Trouble
    <3>2. \A v \in Workers : pc[v] \notin {"idle", "ack"} => pc'[v] = pc[v]
      BY <2>6 DEF Ack
    <3>3. QED
      BY <1>1, <3>1, <3>2 DEF TakenCareOf
  <2>7. CASE Crash(w)
    <3>1. queue'[tries[w]] > 0
      BY <2>7 DEF Crash
    <3>2. QED
      BY <3>1 DEF TakenCareOf
  <2>8. QED
    BY <1>2, <2>1, <2>2, <2>3, <2>4, <2>5, <2>6, <2>7 DEF Task
<1>3. CASE ExpireLock \/ Close \/ UNCHANGED vars
  BY <1>1, <1>3 DEF ExpireLock, Close, stored, ends, ghosts, vars, TakenCareOf, Trouble
<1>4. QED
  BY <1>2, <1>3 DEF Next

LEMMA CareInvariant == Spec => []CareInv
<1>1. Init => CareInv
  <2> SUFFICES ASSUME Init PROVE CareInv
    OBVIOUS
  <2>1. queue[0] = 1 /\ \A n \in 0 .. MaxRetries : n # 0 => queue[n] = 0
    BY SendAssumption DEF Init
  <2>2. OneToken
    BY <2>1 DEF Init, OneToken
  <2>3. QED
    BY <2>1, <2>2, SendAssumption DEF Init, CareInv, Smooth, TakenCareOf
<1>2. SendInv /\ CareInv /\ [Next]_vars => CareInv'
  <2> SUFFICES ASSUME SendInv, CareInv, [Next]_vars PROVE CareInv'
    OBVIOUS
  <2>1. TypeOK /\ LockInv /\ LogInv
    BY DEF SendInv
  <2>2. Trouble' \/ Smooth'
    BY <2>1, TroubleStays, StepSmooth DEF CareInv
  <2>3. open' => TakenCareOf'
    BY <2>1, StepCared
  <2>4. \A v \in Workers : pc'[v] = "release" /\ raised'[v] = "none" => log' = "sent"
    BY <2>1, StepLeaves
  <2>5. QED
    BY <2>2, <2>3, <2>4 DEF CareInv
<1>3. QED
  BY SendInvariant, <1>1, <1>2, PTL DEF Spec

\* While the code can be used its message is sent, or on its way, or dead-lettered after a
\* failure or a death, for any number of workers, retries and deaths; or the retry's message
\* or the dead letter's row was itself what failed. Nothing else loses a message.
THEOREM NothingLost == Spec => []NeverLost
<1>1. CareInv => NeverLost
  BY DEF CareInv, TakenCareOf, Trouble, NeverLost
<1>2. QED
  BY CareInvariant, <1>1, PTL

=============================================================================
