----------------------- MODULE DeployControllerProofs -----------------------
(***************************************************************************)
(* Proofs about DeployController, for any number of releases and any       *)
(* sequence of commands, failures, interruptions and crashes: no process   *)
(* works alongside what an earlier one left behind, a release that is      *)
(* selected was ready once, and the state file never says that all is well *)
(* when the containers run something else.                                 *)
(***************************************************************************)
EXTENDS DeployController, TLAPS

\* What deploy's handlers, and only they, can see.
DeployPlaces == {"pull", "prepare", "migrate", "migrating", "cleanup"} \union Handlers
RolloutPlaces == {"apps", "starting", "health"}

CmdInv ==
  /\ pc \in DeployPlaces => cmd = "deploy" /\ target \in Releases
  /\ pc \in RolloutPlaces => cmd # "resolve" /\ (cmd = "deploy" => target \in Releases)
  /\ pc = "check" => cmd # "recover" /\ (cmd = "deploy" => target \in Releases)
  /\ pc = "load" => cmd # "recover" /\ (cmd = "deploy" => target \in Releases)

\* The operation in hand is the one of the place.
OpInv ==
  /\ pc = "migrating" => op = [kind |-> "migrate", release |-> target]
  /\ pc = "starting" => op = [kind |-> "apps", release |-> Starting]
  /\ pc \notin {"migrating", "starting"} => op = NoOp

\* What the process knows of the state file.
MemInv ==
  /\ pc = "check" => mem = disk /\ (disk.stage \in Uncertain => disk.stage = "quarantined")
  /\ pc = "pull" => mem.stage = "accepted"
  /\ pc = "prepare" => mem.stage = "pulled"
  /\ pc \in {"migrate", "migrating", "cleanup"}
       => mem.stage = "migration_started" /\ disk.stage = "migration_started"
  /\ pc \in RolloutPlaces => disk.stage \in Uncertain
  /\ pc = "error" /\ mem.stage = "migration_completed" => disk.stage \in Uncertain
  /\ pc \in RolloutPlaces /\ cmd = "deploy" => mem.stage = "migration_completed"
  /\ pc \in RolloutPlaces /\ cmd = "recover" => mem.current # 0
  /\ pc \in RolloutPlaces /\ cmd = "rollback" => mem.previous # 0

\* Where a process can be while something is left of an earlier operation, what the
\* state file says then, and what an administrator who resolves it finds.
OrphanInv ==
  /\ orphans # {} =>
       /\ disk.stage \in Uncertain
       /\ pc \in {"off", "load", "check", "cleanup", "recovery_failed", "rollback_failed"}
                 \union Handlers
       /\ pc = "error" => mem.stage = "migration_started"
  /\ pc \in {"load", "check"} /\ cmd = "resolve" => \A o \in orphans : o.kind = "migrate"

\* Ready releases were migrated, and only they are selected; what runs, or is being
\* started, was migrated.
ReleaseInv ==
  /\ ready \subseteq migrated
  /\ {disk.current, disk.previous, mem.current, mem.previous} \subseteq ready \union {0}
  /\ pc \in RolloutPlaces => Starting \in migrated
  /\ running \in Releases => running \in migrated
  /\ \A o \in orphans : o.kind = "apps" => o.release \in migrated
  /\ \A o \in orphans : o.kind # "none" /\ o.release \in Releases

RunningInv ==
  /\ pc = "health" => running = Starting
  /\ disk.stage \in {"healthy", "failed_recovered"} => running = disk.current

DeployInv == TypeOK /\ CmdInv /\ OpInv /\ MemInv /\ OrphanInv /\ ReleaseInv /\ RunningInv

-----------------------------------------------------------------------------
(* Every step keeps DeployInv. *)

LEMMA AtStageFields ==
  ASSUME mem \in State, NEW v \in Stages
  PROVE  /\ AtStage(v) \in State
         /\ AtStage(v).stage = v
         /\ AtStage(v).current = mem.current
         /\ AtStage(v).previous = mem.previous
         /\ AtStage(v).accepted = mem.accepted
BY DEF AtStage, State

LEMMA InitDeployInv == Init => DeployInv
BY ReleaseAssumption
   DEF Init, DeployInv, TypeOK, CmdInv, OpInv, MemInv, OrphanInv, ReleaseInv, RunningInv,
       DeployPlaces, RolloutPlaces, Handlers, Places, Uncertain, State, Stages, Op, NoOp,
       Releases, Releases0, Starting

\* A release that is accepted: only the stage, the candidate and the highest order change.
LEMMA AcceptKeeps == ASSUME DeployInv, Accept PROVE DeployInv'
<1> DEFINE new == [mem EXCEPT !.stage = "accepted", !.accepted = target, !.candidate = target]
<1>1. /\ new \in State
      /\ new.stage = "accepted" /\ new.current = mem.current /\ new.previous = mem.previous
  <2>1. ASSUME NEW s \in State, NEW t \in Releases0
        PROVE  LET n == [s EXCEPT !.stage = "accepted", !.accepted = t, !.candidate = t]
               IN  n \in State /\ n.stage = "accepted" /\ n.current = s.current
                   /\ n.previous = s.previous
    BY DEF State, Stages
  <2>2. QED
    BY <2>1 DEF DeployInv, TypeOK
<1> HIDE DEF new
<1>2. /\ pc = "check" /\ cmd = "deploy" /\ mem.stage # "quarantined"
      /\ mem' = new /\ disk' \in {disk, new}
      /\ \/ pc' = "pull" /\ disk' = new
         \/ pc' = "off"
      /\ UNCHANGED <<cmd, target, docker>>
  BY DEF Accept, Stage, new
<1>3. QED
  BY <1>1, <1>2, ReleaseAssumption
     DEF DeployInv, TypeOK, CmdInv, OpInv, MemInv, OrphanInv, ReleaseInv, RunningInv,
         DeployPlaces, RolloutPlaces, Handlers, Places, Uncertain, docker, Starting

\* A release that passed the readiness check becomes, or stays, the current one.
LEMMA ReadyKeeps == ASSUME DeployInv, Ready PROVE DeployInv'
<1>1. /\ Chosen \in State
      /\ Chosen.stage \notin Uncertain
      /\ Chosen.current = Starting
      /\ Chosen.previous \in {mem.current, mem.previous}
      /\ Chosen.stage # "migration_completed"
  <2> DEFINE New(c, p) == [mem EXCEPT !.stage = "healthy", !.previous = p, !.current = c,
                                      !.candidate = 0]
  <2>1. mem \in State /\ target \in Releases0 /\ mem.current \in Releases0
        /\ mem.previous \in Releases0
    BY DEF DeployInv, TypeOK, State
  <2>2. ASSUME NEW c \in Releases0, NEW p \in Releases0
        PROVE  /\ New(c, p) \in State
               /\ New(c, p).stage = "healthy" /\ New(c, p).current = c
               /\ New(c, p).previous = p
    <3>1. 0 \in Releases0 /\ "healthy" \in Stages
      BY ReleaseAssumption DEF Releases0, Stages
    <3>2. QED
      BY <2>1, <3>1 DEF State
  <2>3. AtStage("failed_recovered") \in State
        /\ AtStage("failed_recovered").stage = "failed_recovered"
        /\ AtStage("failed_recovered").current = mem.current
        /\ AtStage("failed_recovered").previous = mem.previous
    BY <2>1, AtStageFields DEF Stages
  <2>4. cmd \in {"deploy", "recover", "rollback"}
    BY DEF DeployInv, TypeOK, CmdInv, RolloutPlaces, Ready
  <2>5. CASE cmd = "deploy"
    <3>1. Chosen = New(target, mem.current)
      BY <2>5 DEF Chosen
    <3> HIDE DEF New
    <3>2. QED
      BY <2>1, <2>2, <2>5, <3>1 DEF Starting, Uncertain
  <2>6. CASE cmd = "recover"
    BY <2>3, <2>6 DEF Chosen, Starting, Uncertain
  <2>7. CASE cmd = "rollback"
    <3>1. Chosen = New(mem.previous, mem.current)
      BY <2>7 DEF Chosen
    <3> HIDE DEF New
    <3>2. QED
      BY <2>1, <2>2, <2>7, <3>1 DEF Starting, Uncertain
  <2>8. QED
    BY <2>4, <2>5, <2>6, <2>7
<1>2. Starting \in Releases0 /\ Starting \in migrated
  BY DEF DeployInv, TypeOK, State, Starting, ReleaseInv, RolloutPlaces, Ready
<1>3. /\ pc = "health" /\ ready' = ready \union {Starting}
      /\ mem' = Chosen /\ disk' \in {disk, Chosen}
      /\ pc' \in {"off"} \union Handlers \union {"recovery_failed"}
      /\ pc' \in Handlers => cmd = "deploy"
      /\ UNCHANGED <<cmd, target, op, orphans, running, migrated>>
  BY DEF Ready, Stage, Raised, Handlers, DeployInv, CmdInv, RolloutPlaces
<1>4. orphans = {} /\ op = NoOp /\ running = Starting
  BY <1>3 DEF DeployInv, OrphanInv, OpInv, RunningInv, Handlers
<1> HIDE DEF Chosen
<1>5. TypeOK'
  BY <1>1, <1>2, <1>3, ReleaseAssumption DEF DeployInv, TypeOK, Handlers, Places
<1>6. CmdInv' /\ OpInv' /\ OrphanInv'
  BY <1>3, <1>4 DEF DeployInv, CmdInv, OpInv, OrphanInv, Handlers, DeployPlaces, RolloutPlaces
<1>7. MemInv'
  BY <1>1, <1>3 DEF MemInv, Handlers, RolloutPlaces
<1>8. ReleaseInv'
  BY <1>1, <1>2, <1>3, <1>4 DEF DeployInv, ReleaseInv, Handlers, RolloutPlaces
<1>9. RunningInv'
  BY <1>1, <1>3, <1>4 DEF DeployInv, RunningInv, Handlers
<1>10. QED
  BY <1>5, <1>6, <1>7, <1>8, <1>9 DEF DeployInv

LEMMA StepKeepsDeployInv ==
  ASSUME DeployInv, [Next]_vars
  PROVE  DeployInv'
<1> USE DEF DeployInv, TypeOK, CmdInv, OpInv, MemInv, OrphanInv, ReleaseInv,
           RunningInv
<1>1. CASE Load
  BY <1>1 DEF Load, Stage, Handlers, Places, DeployPlaces, RolloutPlaces, Uncertain,
     Stages, State, docker
<1>2. CASE Refuse
  BY <1>2 DEF Refuse, Handlers, Places, DeployPlaces, RolloutPlaces, docker
<1>3. CASE Accept
  BY <1>3, AcceptKeeps
<1>4. CASE Pull
  BY <1>4, AtStageFields DEF Pull, Stage, Handlers, Places, DeployPlaces, RolloutPlaces,
     Stages, docker
<1>5. CASE Prepare
  BY <1>5, AtStageFields DEF Prepare, Stage, Handlers, Places, DeployPlaces,
     RolloutPlaces, Stages, docker
<1>6. CASE Migrate
  BY <1>6 DEF Migrate, Handlers, Places, DeployPlaces, RolloutPlaces, Op
<1>7. CASE Migrated
  BY <1>7, ReleaseAssumption, AtStageFields DEF Migrated, Stage, Starting, Handlers,
     Places, DeployPlaces, Uncertain, Stages, NoOp, Op, Releases0, Left
<1>8. CASE MigrateRaises
  BY <1>8, ReleaseAssumption DEF MigrateRaises, Stage, Places, DeployPlaces,
     RolloutPlaces, Uncertain, NoOp, Op, Releases0, Left
<1>9. CASE Cleanup
  BY <1>9 DEF Cleanup, Handlers, Places, DeployPlaces, RolloutPlaces
<1>10. CASE Up
  BY <1>10, ReleaseAssumption DEF Up, Starting, Handlers, Places, DeployPlaces,
     RolloutPlaces, Uncertain, Op, Releases, Releases0
<1>11. CASE UpDone
  BY <1>11, ReleaseAssumption DEF UpDone, Stage, Starting, Handlers, Places,
     DeployPlaces, RolloutPlaces, Uncertain, NoOp, Op, Releases0, Left
<1>12. CASE UpRaises
  BY <1>12, ReleaseAssumption DEF UpRaises, Stage, Raised, Handlers, Places,
     DeployPlaces, RolloutPlaces, NoOp, Op, Releases0, Left
<1>13. CASE Ready
  BY <1>13, ReadyKeeps
<1>14. CASE NotReady
  BY <1>14 DEF NotReady, Raised, Handlers, Places, DeployPlaces, RolloutPlaces, docker
<1>15. CASE Interrupted
  BY <1>15, AtStageFields DEF Interrupted, Stage, Places, DeployPlaces, RolloutPlaces,
     Uncertain, Stages, docker
<1>16. CASE Failed
  BY <1>16, AtStageFields DEF Failed, Stage, Places, DeployPlaces, RolloutPlaces,
     Uncertain, Stages, docker
<1>17. CASE Recover
  BY <1>17 DEF Recover, Starting, Handlers, Places, DeployPlaces, docker
<1>18. CASE RecoveryFailed
  BY <1>18, AtStageFields DEF RecoveryFailed, Stage, Handlers, Places, DeployPlaces,
     RolloutPlaces, Uncertain, Stages, docker
<1>19. CASE Rollback
  BY <1>19, AtStageFields DEF Rollback, Stage, Starting, Handlers, Places, DeployPlaces,
     RolloutPlaces, Uncertain, Stages, docker
<1>20. CASE RollbackFailed
  BY <1>20, AtStageFields DEF RollbackFailed, Stage, Handlers, Places, DeployPlaces,
     RolloutPlaces, Uncertain, Stages, docker
<1>21. CASE ResolveQuarantine
  BY <1>21, AtStageFields DEF ResolveQuarantine, Stage, Handlers, Places, DeployPlaces,
     RolloutPlaces, Stages, Left
<1>22. CASE Crash
  BY <1>22, ReleaseAssumption DEF Crash, Stage, Handlers, Places, DeployPlaces,
     RolloutPlaces, Uncertain, NoOp, Op, Releases0, Left
<1>23. ASSUME NEW c \in {"deploy", "rollback", "resolve"}, NEW r \in Releases0,
             c = "deploy" => r \in Releases, Begin(c, r)
      PROVE  DeployInv'
  BY <1>23 DEF Begin, Handlers, Places, DeployPlaces, RolloutPlaces, Op, Left, docker
<1>24. CASE \E o \in orphans : OrphanEnds(o)
  BY <1>24 DEF OrphanEnds, Starting, Handlers, Uncertain, Releases, Releases0
<1>25. CASE UNCHANGED vars
  BY <1>25 DEF vars, Starting, Handlers, RolloutPlaces, DeployPlaces
<1>26. CASE (\E r \in Releases : Begin("deploy", r)) \/ Begin("rollback", 0) \/ Begin("resolve", 0)
  <2>1. 0 \in Releases0 /\ Releases \subseteq Releases0
    BY ReleaseAssumption DEF Releases, Releases0
  <2>2. QED
    BY <1>23, <2>1, <1>26
<1>27. QED
  BY <1>1, <1>2, <1>3, <1>4, <1>5, <1>6, <1>7, <1>8, <1>9, <1>10, <1>11, <1>12, <1>13,
     <1>14, <1>15, <1>16, <1>17, <1>18, <1>19, <1>20, <1>21, <1>22, <1>26, <1>24, <1>25
     DEF Next

\* The inductive invariant holds in every reachable state.
THEOREM DeployInvariant == Spec => []DeployInv
<1>1. DeployInv /\ [Next]_vars => DeployInv'
  BY StepKeepsDeployInv
<1>2. QED
  BY InitDeployInv, <1>1, PTL DEF Spec

\* Every variable keeps its type: the stages and commands of the controller, releases CI
\* has built, and the Docker operations it starts.
THEOREM DeployTypeCorrect == Spec => []TypeOK
<1>1. DeployInv => TypeOK
  BY DEF DeployInv
<1>2. QED
  BY DeployInvariant, <1>1, PTL

\* No process works on containers or schema beside what an earlier one left behind: a
\* dead process's stage is uncertain, __init__ quarantines it, and a quarantined
\* controller gets no further than its checks.
THEOREM NeverOverlaps == Spec => []NoOverlap
<1>1. DeployInv => NoOverlap
  BY DEF DeployInv, OrphanInv, OpInv, NoOverlap, Handlers
<1>2. QED
  BY DeployInvariant, <1>1, PTL

\* The releases of the state file were ready once: they are written only after health
\* returned, and a failed write leaves the old ones.
THEOREM SelectedIsReady == Spec => []SelectedWereReady
<1>1. DeployInv => SelectedWereReady
  BY DEF DeployInv, ReleaseInv, SelectedWereReady
<1>2. QED
  BY DeployInvariant, <1>1, PTL

\* A state file that says healthy or failed_recovered tells the truth about the containers.
THEOREM HealthyIsRunning == Spec => []HealthyMeansRunning
<1>1. DeployInv => HealthyMeansRunning
  BY DEF DeployInv, OrphanInv, RunningInv, HealthyMeansRunning, Uncertain
<1>2. QED
  BY DeployInvariant, <1>1, PTL

\* The release the containers run was migrated to before it was started.
THEOREM RunningIsMigrated == Spec => []MigratedBeforeUp
<1>1. DeployInv => MigratedBeforeUp
  BY DEF DeployInv, ReleaseInv, MigratedBeforeUp
<1>2. QED
  BY DeployInvariant, <1>1, PTL

-----------------------------------------------------------------------------
(* What a deploy command may start. *)

\* A process past its checks works for the highest release accepted, and knows the
\* current one, until readiness makes it change both.
ReplayInv ==
  /\ pc \notin {"off", "load"} => mem.accepted = disk.accepted
  /\ pc \in DeployPlaces => target = disk.accepted
  /\ pc \in RolloutPlaces /\ cmd = "deploy" => target = disk.accepted
  /\ pc \in {"pull", "prepare", "migrate", "migrating", "cleanup"} \union RolloutPlaces
       => mem.current = disk.current
  /\ pc = "error" /\ mem.stage = "migration_completed" => mem.current = disk.current

NoReplayStep ==
  /\ disk'.accepted >= disk.accepted
  /\ op'.kind = "apps" /\ op' # op /\ cmd' # "rollback"
       => op'.release = disk.accepted \/ op'.release = disk.current

\* Accepting a release raises the highest order.
LEMMA AcceptRaises ==
  ASSUME DeployInv, ReplayInv, Accept
  PROVE  ReplayInv' /\ NoReplayStep
<1> DEFINE new == [mem EXCEPT !.stage = "accepted", !.accepted = target, !.candidate = target]
<1>1. /\ new.accepted = target /\ new.current = mem.current
      /\ target \in Releases0 /\ mem.accepted \in Releases0
  BY DEF DeployInv, TypeOK, State
<1> HIDE DEF new
<1>2. /\ pc = "check" /\ cmd = "deploy" /\ target > mem.accepted
      /\ mem' = new /\ disk' \in {disk, new}
      /\ \/ pc' = "pull" /\ disk' = new
         \/ pc' = "off"
      /\ UNCHANGED <<cmd, target, docker>>
  BY DEF Accept, Stage, new
<1>3. mem = disk
  BY <1>2 DEF DeployInv, MemInv
<1>4. ReplayInv'
  BY <1>1, <1>2, <1>3 DEF ReplayInv, DeployPlaces, RolloutPlaces, Handlers
<1>5. NoReplayStep
  BY <1>1, <1>2, <1>3, ReleaseAssumption DEF NoReplayStep, Releases0, docker
<1>6. QED
  BY <1>4, <1>5

\* Readiness leaves the highest order alone and starts nothing.
LEMMA ReadyStarts ==
  ASSUME DeployInv, ReplayInv, Ready
  PROVE  ReplayInv' /\ NoReplayStep
<1>1. /\ Chosen.accepted = mem.accepted
      /\ Chosen.stage # "migration_completed"
  <2>1. mem \in State
    BY DEF DeployInv, TypeOK
  <2>2. QED
    BY <2>1 DEF Chosen, AtStage, State
<1>2. /\ pc = "health"
      /\ mem' = Chosen /\ disk' \in {disk, Chosen}
      /\ pc' \in {"off"} \union Handlers \union {"recovery_failed"}
      /\ pc' \in Handlers => cmd = "deploy"
      /\ UNCHANGED <<cmd, target, op, orphans, running, migrated>>
  BY DEF Ready, Stage, Raised, Handlers, DeployInv, CmdInv, RolloutPlaces
<1>3. mem.accepted = disk.accepted /\ disk.accepted \in Nat
  BY <1>2, ReleaseAssumption DEF ReplayInv, DeployInv, TypeOK, State, Releases0
<1>4. ReplayInv'
  BY <1>1, <1>2, <1>3 DEF ReplayInv, DeployPlaces, RolloutPlaces, Handlers
<1>5. NoReplayStep
  BY <1>1, <1>2, <1>3 DEF NoReplayStep
<1>6. QED
  BY <1>4, <1>5

LEMMA StepKeepsReplayInv ==
  ASSUME DeployInv, DeployInv', ReplayInv, [Next]_vars
  PROVE  ReplayInv'
<1> USE DEF DeployInv, OpInv, MemInv, CmdInv, ReplayInv
<1>1. CASE Load
  BY <1>1 DEF Load, Stage, Handlers, DeployPlaces, RolloutPlaces
<1>2. CASE Refuse
  BY <1>2 DEF Refuse, Handlers, DeployPlaces, RolloutPlaces
<1>3. CASE Accept
  BY <1>3, AcceptRaises
<1>4. CASE Pull
  BY <1>4, AtStageFields DEF Pull, Stage, TypeOK, DeployPlaces, Stages
<1>5. CASE Prepare
  BY <1>5, AtStageFields DEF Prepare, Stage, TypeOK, DeployPlaces, Stages
<1>6. CASE Migrate
  BY <1>6 DEF Migrate, DeployPlaces
<1>7. CASE Migrated
  BY <1>7, AtStageFields DEF Migrated, Stage, TypeOK, DeployPlaces, Stages
<1>8. CASE MigrateRaises
  BY <1>8 DEF MigrateRaises, DeployPlaces
<1>9. CASE Cleanup
  BY <1>9 DEF Cleanup, DeployPlaces
<1>10. CASE Up
  BY <1>10 DEF Up, Handlers, DeployPlaces, RolloutPlaces
<1>11. CASE UpDone
  BY <1>11 DEF UpDone, Handlers, DeployPlaces, RolloutPlaces
<1>12. CASE UpRaises
  BY <1>12 DEF UpRaises, Raised, Handlers, DeployPlaces, RolloutPlaces
<1>13. CASE Ready
  BY <1>13, ReadyStarts
<1>14. CASE NotReady
  BY <1>14 DEF NotReady, Raised, Handlers, DeployPlaces, RolloutPlaces
<1>15. CASE Interrupted
  BY <1>15 DEF Interrupted, Stage, Handlers, DeployPlaces, RolloutPlaces
<1>16. CASE Failed
  BY <1>16 DEF Failed, Stage, Handlers, DeployPlaces, RolloutPlaces
<1>17. CASE Recover
  BY <1>17 DEF Recover, Handlers, DeployPlaces
<1>18. CASE RecoveryFailed
  BY <1>18 DEF RecoveryFailed, Stage, Handlers, DeployPlaces, RolloutPlaces
<1>19. CASE Rollback
  BY <1>19 DEF Rollback, Stage, Handlers, DeployPlaces, RolloutPlaces
<1>20. CASE RollbackFailed
  BY <1>20 DEF RollbackFailed, Stage, Handlers, DeployPlaces, RolloutPlaces
<1>21. CASE ResolveQuarantine
  BY <1>21 DEF ResolveQuarantine, Stage, Handlers, DeployPlaces, RolloutPlaces
<1>22. CASE Crash
  BY <1>22 DEF Crash, Handlers, DeployPlaces, RolloutPlaces
<1>23. ASSUME NEW c \in {"deploy", "rollback", "resolve"}, NEW r \in Releases0,
             c = "deploy" => r \in Releases, Begin(c, r)
      PROVE  ReplayInv'
  BY <1>23 DEF Begin, Handlers, DeployPlaces, RolloutPlaces
<1>24. CASE \E o \in orphans : OrphanEnds(o)
  BY <1>24 DEF OrphanEnds
<1>25. CASE UNCHANGED vars
  BY <1>25 DEF vars, Handlers, RolloutPlaces, DeployPlaces
<1>26. CASE (\E r \in Releases : Begin("deploy", r)) \/ Begin("rollback", 0) \/ Begin("resolve", 0)
  <2>1. 0 \in Releases0 /\ Releases \subseteq Releases0
    BY ReleaseAssumption DEF Releases, Releases0
  <2>2. QED
    BY <1>23, <2>1, <1>26
<1>27. QED
  BY <1>1, <1>2, <1>3, <1>4, <1>5, <1>6, <1>7, <1>8, <1>9, <1>10, <1>11, <1>12, <1>13,
     <1>14, <1>15, <1>16, <1>17, <1>18, <1>19, <1>20, <1>21, <1>22, <1>26, <1>24, <1>25
     DEF Next

LEMMA StepReplaysNothing ==
  ASSUME DeployInv, ReplayInv, [Next]_vars
  PROVE  NoReplayStep
<1> USE DEF DeployInv, OpInv, ReplayInv, NoReplayStep
<1>1. CASE Load
  BY <1>1 DEF Load, Stage, TypeOK, State, Releases0, docker
<1>2. CASE Refuse
  BY <1>2 DEF Refuse, TypeOK, State, Releases0, docker
<1>3. CASE Accept
  BY <1>3, AcceptRaises
<1>4. CASE Pull
  BY <1>4, AtStageFields DEF Pull, Stage, TypeOK, DeployPlaces, Stages, Releases0,
     docker
<1>5. CASE Prepare
  BY <1>5, AtStageFields DEF Prepare, Stage, TypeOK, DeployPlaces, Stages, Releases0,
     docker
<1>6. CASE Migrate
  BY <1>6 DEF Migrate, CmdInv, DeployPlaces, Releases
<1>7. CASE Migrated
  BY <1>7, AtStageFields DEF Migrated, Stage, TypeOK, DeployPlaces, Stages, NoOp,
     Releases0
<1>8. CASE MigrateRaises
  BY <1>8 DEF MigrateRaises, CmdInv, DeployPlaces, NoOp, Releases
<1>9. CASE Cleanup
  BY <1>9 DEF Cleanup, CmdInv, DeployPlaces, Releases
<1>10. CASE Up
  BY <1>10 DEF Up, TypeOK, CmdInv, Starting, RolloutPlaces, State, Releases0
<1>11. CASE UpDone
  BY <1>11 DEF UpDone, TypeOK, State, NoOp, Releases0
<1>12. CASE UpRaises
  BY <1>12 DEF UpRaises, TypeOK, State, NoOp, Releases0
<1>13. CASE Ready
  BY <1>13, ReadyStarts
<1>14. CASE NotReady
  BY <1>14 DEF NotReady, TypeOK, State, Releases0, docker
<1>15. CASE Interrupted
  BY <1>15, AtStageFields DEF Interrupted, Stage, TypeOK, Handlers, DeployPlaces,
     Stages, Releases0, docker
<1>16. CASE Failed
  BY <1>16, AtStageFields DEF Failed, Stage, TypeOK, Handlers, DeployPlaces, Stages,
     Releases0, docker
<1>17. CASE Recover
  BY <1>17 DEF Recover, CmdInv, Handlers, DeployPlaces, Releases, docker
<1>18. CASE RecoveryFailed
  BY <1>18, AtStageFields DEF RecoveryFailed, Stage, TypeOK, Stages, State, Releases0,
     docker
<1>19. CASE Rollback
  BY <1>19, AtStageFields DEF Rollback, Stage, TypeOK, Stages, State, Releases0
<1>20. CASE RollbackFailed
  BY <1>20, AtStageFields DEF RollbackFailed, Stage, TypeOK, Stages, State, Releases0,
     docker
<1>21. CASE ResolveQuarantine
  BY <1>21, AtStageFields DEF ResolveQuarantine, Stage, TypeOK, Stages, State, Releases0
<1>22. CASE Crash
  BY <1>22 DEF Crash, TypeOK, State, NoOp, Releases0
<1>23. ASSUME NEW c \in {"deploy", "rollback", "resolve"}, NEW r \in Releases0,
             c = "deploy" => r \in Releases, Begin(c, r)
      PROVE  NoReplayStep
  BY <1>23 DEF Begin, TypeOK, State, Releases0, docker
<1>24. CASE \E o \in orphans : OrphanEnds(o)
  BY <1>24 DEF OrphanEnds, TypeOK, State, Releases0
<1>25. CASE UNCHANGED vars
  BY <1>25, ReleaseAssumption DEF vars, TypeOK, State, Releases0
<1>26. CASE (\E r \in Releases : Begin("deploy", r)) \/ Begin("rollback", 0) \/ Begin("resolve", 0)
  <2>1. 0 \in Releases0 /\ Releases \subseteq Releases0
    BY ReleaseAssumption DEF Releases, Releases0
  <2>2. QED
    BY <1>23, <2>1, <1>26
<1>27. QED
  BY <1>1, <1>2, <1>3, <1>4, <1>5, <1>6, <1>7, <1>8, <1>9, <1>10, <1>11, <1>12, <1>13,
     <1>14, <1>15, <1>16, <1>17, <1>18, <1>19, <1>20, <1>21, <1>22, <1>26, <1>24, <1>25
     DEF Next

\* Deploy starts a release newer than all accepted before, or the current one again: no
\* artifact of an older release gets past the comparison with highest_accepted, also
\* after a rollback.
THEOREM ReplayRejected == Spec => NoReplay
<1>1. Init => ReplayInv
  BY DEF Init, ReplayInv, DeployPlaces, RolloutPlaces, Handlers
<1>2. DeployInv /\ DeployInv' /\ ReplayInv /\ [Next]_vars => ReplayInv'
  BY StepKeepsReplayInv
<1>3. DeployInv /\ ReplayInv /\ [Next]_vars => [NoReplayStep]_vars
  BY StepReplaysNothing
<1>4. Spec => [][NoReplayStep]_vars
  BY DeployInvariant, <1>1, <1>2, <1>3, PTL DEF Spec
<1>5. QED
  BY <1>4, PTL DEF NoReplay, NoReplayStep

=============================================================================
