-------------------------- MODULE DeployController --------------------------
(***************************************************************************)
(* The deployment controller of the server (deploy/controller.py): one     *)
(* process at a time under deploy.lock, its state file, the Docker         *)
(* operations it starts, and what is left of them when it dies.            *)
(*                                                                         *)
(* A release is its order, [run_number, attempt], as one number; 0 is none.*)
(* Signals (SIGTERM, SIGALRM after 900 s, ...) and command timeouts are    *)
(* "interruptions": the Docker client is killed, what it asked of the      *)
(* daemon may go on. Other failures are "errors": the operation is over.   *)
(***************************************************************************)
EXTENDS Naturals

CONSTANTS
  MaxRelease,  \* bound: releases CI has built
  Mixed        \* the application containers are of different releases, or being changed

ASSUME ReleaseAssumption == MaxRelease \in Nat /\ Mixed \notin 0 .. MaxRelease

VARIABLES
  disk,      \* state.json
  mem,       \* self.state of the controller process
  pc,        \* where the process is; "off" when deploy.lock is free
  cmd,       \* its command; "recover" when deploy starts the old release again
  target,    \* the release it was told to deploy
  op,        \* the Docker operation it waits for
  orphans,   \* operations whose client is gone
  running,   \* the release the application containers run
  migrated,  \* releases whose migrations were applied
  ready      \* releases that have passed the public readiness check

vars == <<disk, mem, pc, cmd, target, op, orphans, running, migrated, ready>>
docker == <<op, orphans, running, migrated, ready>>

Releases == 1 .. MaxRelease
Releases0 == 0 .. MaxRelease

Stages == {"idle", "accepted", "pulled", "migration_started", "migration_completed", "healthy",
           "quarantined", "failed", "failed_recovered", "failed_no_previous",
           "recovery_failed", "rollback_started", "rollback_failed", "quarantine_resolved"}

\* What a dead process may have left in the middle of changing containers or schema.
Uncertain_NoRollback ==
  {"migration_started", "migration_completed", "recovery_failed", "rollback_failed",
   "quarantined"}
Uncertain == {"migration_started", "migration_completed", "rollback_started",
              "recovery_failed", "rollback_failed", "quarantined"}

State == [stage: Stages, current: Releases0, previous: Releases0, candidate: Releases0,
          accepted: Releases0]

NoOp == [kind |-> "none", release |-> 0]
Op == [kind: {"none", "migrate", "apps"}, release: Releases0]

Handlers == {"error", "interrupted"}
Places == {"off", "load", "check", "pull", "prepare", "migrate", "migrating", "cleanup",
           "apps", "starting", "health", "recovery_failed", "rollback_failed"} \union Handlers

Init ==
  /\ disk = [stage |-> "idle", current |-> 0, previous |-> 0, candidate |-> 0, accepted |-> 0]
  /\ mem = disk
  /\ pc = "off" /\ cmd = "deploy" /\ target = 0
  /\ op = NoOp /\ orphans = {}
  /\ running = 0 /\ migrated = {} /\ ready = {}

Left(kind) == {o \in orphans : o.kind = kind}

-----------------------------------------------------------------------------
(* Steps of the process. *)

\* self.stage: the state is changed in memory and then written, which may raise before
\* or after the new file is in place.
Stage(state, next, raised) ==
  /\ mem' = state
  /\ \/ disk' = state /\ pc' = next
     \/ disk' \in {disk, state} /\ pc' \in raised

AtStage(value) == [mem EXCEPT !.stage = value]

\* An exception from here goes to whoever catches it.
Raised == CASE cmd = "deploy"   -> Handlers
            [] cmd = "recover"  -> {"recovery_failed"}
            [] cmd = "rollback" -> {"rollback_failed"}
            [] OTHER            -> {"off"}

\* The lock is taken. An administrator who resolves a quarantine has seen to it that
\* no container rollout is under way (docs/deployment.md:143-145).
Begin(c, r) ==
  /\ pc = "off"
  /\ c = "resolve" => Left("apps") = {}
  /\ pc' = "load" /\ cmd' = c /\ target' = r
  /\ UNCHANGED <<disk, mem, docker>>

Load ==
  /\ pc = "load"
  /\ IF disk.stage \in Uncertain
       THEN Stage([disk EXCEPT !.stage = "quarantined"], "check", {"off"})
       ELSE mem' = disk /\ pc' = "check" /\ UNCHANGED disk
  /\ UNCHANGED <<cmd, target, docker>>

\* Anything the command requires is missing, or the release is current already.
Refuse ==
  /\ pc = "check"
  /\ pc' = "off"
  /\ UNCHANGED <<disk, mem, cmd, target, docker>>

Accept ==
  /\ pc = "check" /\ cmd = "deploy"
  /\ mem.stage # "quarantined"
  /\ target # mem.current /\ target > mem.accepted
  /\ Stage([mem EXCEPT !.stage = "accepted", !.accepted = target, !.candidate = target],
           "pull", {"off"})
  /\ UNCHANGED <<cmd, target, docker>>

Pull ==
  /\ pc = "pull"
  /\ \/ Stage(AtStage("pulled"), "prepare", Handlers)
     \/ pc' \in Handlers /\ UNCHANGED <<disk, mem>>
  /\ UNCHANGED <<cmd, target, docker>>

\* The database is up and backed up.
Prepare ==
  /\ pc = "prepare"
  /\ \/ Stage(AtStage("migration_started"), "migrate", Handlers)
     \/ pc' \in Handlers /\ UNCHANGED <<disk, mem>>
  /\ UNCHANGED <<cmd, target, docker>>

Migrate ==
  /\ pc = "migrate"
  /\ op' = [kind |-> "migrate", release |-> target] /\ pc' = "migrating"
  /\ UNCHANGED <<disk, mem, cmd, target, orphans, running, migrated, ready>>

Migrated ==
  /\ pc = "migrating"
  /\ op' = NoOp /\ migrated' = migrated \union {target}
  /\ Stage(AtStage("migration_completed"), "apps", Handlers)
  /\ UNCHANGED <<cmd, target, orphans, running, ready>>

\* An error, or an interruption that leaves the container behind.
MigrateRaises ==
  /\ pc = "migrating"
  /\ op' = NoOp /\ orphans' \in {orphans, orphans \union {op}} /\ pc' = "cleanup"
  /\ UNCHANGED <<disk, mem, cmd, target, running, migrated, ready>>

\* cleanup_migration, which may fail itself.
Cleanup_Swallows ==
  /\ pc = "cleanup"
  /\ orphans' \in {orphans, orphans \ Left("migrate")}
  /\ Stage(AtStage("migration_completed"), "apps", Handlers)
  /\ UNCHANGED <<cmd, target, op, running, migrated, ready>>

Cleanup ==
  /\ pc = "cleanup"
  /\ orphans' \in {orphans, orphans \ Left("migrate")}
  /\ pc' \in Handlers
  /\ UNCHANGED <<disk, mem, cmd, target, op, running, migrated, ready>>

\* start_apps: the release, and compose up ...
Starting == CASE cmd = "deploy"  -> target
              [] cmd = "recover" -> mem.current
              [] OTHER           -> mem.previous

Up ==
  /\ pc = "apps"
  /\ op' = [kind |-> "apps", release |-> Starting]
  /\ running' = Mixed /\ pc' = "starting"
  /\ UNCHANGED <<disk, mem, cmd, target, orphans, migrated, ready>>

UpDone ==
  /\ pc = "starting"
  /\ op' = NoOp /\ running' = op.release /\ pc' = "health"
  /\ UNCHANGED <<disk, mem, cmd, target, orphans, migrated, ready>>

\* ... which raises an error, or is interrupted and may go on.
UpRaises ==
  /\ pc = "starting"
  /\ op' = NoOp
  /\ \/ pc' \in Raised \ {"interrupted"} /\ UNCHANGED orphans
     \/ pc' \in Raised \ {"error"} /\ orphans' = orphans \union {op}
  /\ UNCHANGED <<disk, mem, cmd, target, running, migrated, ready>>

\* health, and what is recorded when it succeeds.
Chosen_NoSwap == CASE cmd = "deploy" ->
                        [mem EXCEPT !.stage = "healthy", !.previous = mem.current,
                                    !.current = target, !.candidate = 0]
                   [] cmd = "recover" -> AtStage("failed_recovered")
                   [] OTHER -> [mem EXCEPT !.stage = "healthy", !.candidate = 0]

Chosen == CASE cmd = "deploy" ->
                 [mem EXCEPT !.stage = "healthy", !.previous = mem.current, !.current = target,
                             !.candidate = 0]
            [] cmd = "recover" -> AtStage("failed_recovered")
            [] OTHER ->
                 [mem EXCEPT !.stage = "healthy", !.previous = mem.current,
                             !.current = mem.previous, !.candidate = 0]

Ready ==
  /\ pc = "health"
  /\ ready' = ready \union {Starting}
  /\ Stage(Chosen, "off", IF cmd = "rollback" THEN {"off"} ELSE Raised)
  /\ UNCHANGED <<cmd, target, op, orphans, running, migrated>>

NotReady_Ignored ==
  /\ pc = "health"
  /\ Stage(Chosen, "off", Raised)
  /\ UNCHANGED <<cmd, target, docker>>

NotReady ==
  /\ pc = "health"
  /\ pc' \in Raised
  /\ UNCHANGED <<disk, mem, cmd, target, docker>>

-----------------------------------------------------------------------------
(* Exception handlers, rollback and the administrator. *)

\* Docker may still be changing containers: an operator has to look.
Interrupted ==
  /\ pc = "interrupted"
  /\ Stage(AtStage("quarantined"), "off", {"off"})
  /\ UNCHANGED <<cmd, target, docker>>

Failed ==
  /\ pc = "error"
  /\ mem.stage # "migration_completed" \/ mem.current = 0
  /\ Stage(AtStage(CASE mem.stage = "migration_started"   -> "quarantined"
                     [] mem.stage = "migration_completed" -> "failed_no_previous"
                     [] OTHER                             -> "failed"), "off", {"off"})
  /\ UNCHANGED <<cmd, target, docker>>

Recover ==
  /\ pc = "error"
  /\ mem.stage = "migration_completed" /\ mem.current # 0
  /\ pc' = "apps" /\ cmd' = "recover"
  /\ UNCHANGED <<disk, mem, target, docker>>

RecoveryFailed ==
  /\ pc = "recovery_failed"
  /\ Stage(AtStage("recovery_failed"), "off", {"off"})
  /\ UNCHANGED <<cmd, target, docker>>

Rollback_Unchecked ==
  /\ pc = "check" /\ cmd = "rollback"
  /\ mem.stage # "quarantined"
  /\ Stage(AtStage("rollback_started"), "apps", {"off"})
  /\ UNCHANGED <<cmd, target, docker>>

Rollback ==
  /\ pc = "check" /\ cmd = "rollback"
  /\ mem.stage # "quarantined" /\ mem.previous # 0
  /\ Stage(AtStage("rollback_started"), "apps", {"off"})
  /\ UNCHANGED <<cmd, target, docker>>

RollbackFailed ==
  /\ pc = "rollback_failed"
  /\ Stage(AtStage("rollback_failed"), "off", {"off"})
  /\ UNCHANGED <<cmd, target, docker>>

\* cleanup_migration failed and nothing is resolved, or it did its work.
ResolveQuarantine ==
  /\ pc = "check" /\ cmd = "resolve"
  /\ mem.stage = "quarantined"
  /\ orphans' = orphans \ Left("migrate")
  /\ Stage(AtStage("quarantine_resolved"), "off", {"off"})
  /\ UNCHANGED <<cmd, target, op, running, migrated, ready>>

-----------------------------------------------------------------------------
(* The process is killed or the host goes down; Docker ends what was asked of it. *)

Crash ==
  /\ pc # "off"
  /\ pc' = "off" /\ op' = NoOp
  /\ orphans' = IF op = NoOp THEN orphans ELSE orphans \union {op}
  /\ UNCHANGED <<disk, mem, cmd, target, running, migrated, ready>>

OrphanEnds(o) ==
  /\ orphans' = orphans \ {o}
  /\ \/ o.kind = "apps" /\ running' = o.release /\ UNCHANGED migrated
     \/ o.kind = "migrate" /\ migrated' = migrated \union {o.release} /\ UNCHANGED running
     \/ UNCHANGED <<running, migrated>>
  /\ UNCHANGED <<disk, mem, pc, cmd, target, op, ready>>

-----------------------------------------------------------------------------
Next ==
  \/ \E r \in Releases : Begin("deploy", r)
  \/ Begin("rollback", 0) \/ Begin("resolve", 0)
  \/ Load \/ Refuse \/ Accept \/ Pull \/ Prepare \/ Migrate \/ Migrated \/ MigrateRaises
  \/ Cleanup \/ Up \/ UpDone \/ UpRaises \/ Ready \/ NotReady
  \/ Interrupted \/ Failed \/ Recover \/ RecoveryFailed \/ Rollback \/ RollbackFailed
  \/ ResolveQuarantine \/ Crash
  \/ \E o \in orphans : OrphanEnds(o)

Spec == Init /\ [][Next]_vars

-----------------------------------------------------------------------------
(* Properties. *)

\* The types of the variables.
TypeOK ==
  /\ disk \in State /\ mem \in State
  /\ pc \in Places /\ cmd \in {"deploy", "recover", "rollback", "resolve"}
  /\ target \in Releases0
  /\ op \in Op /\ orphans \subseteq Op
  /\ running \in Releases0 \union {Mixed}
  /\ migrated \subseteq Releases /\ ready \subseteq Releases

\* "If migration or container rollout completion is uncertain, the controller
\* quarantines deployment" (docs/deployment.md:142): no process starts a migration or a
\* rollout while one that an earlier process left behind may still be going on.
NoOverlap == op # NoOp => orphans = {}

\* The releases that deploy recovers to, and rollback returns to, have passed the
\* readiness check once, whatever was interrupted since.
SelectedWereReady == {disk.current, disk.previous} \ {0} \subseteq ready

\* When the state file says that all is well, the containers run the current release
\* and nothing is left that could still change them.
HealthyMeansRunning ==
  disk.stage \in {"healthy", "failed_recovered"} => running = disk.current /\ orphans = {}

\* No application container is started before the migrations of its release are applied.
MigratedBeforeUp == running \in Releases => running \in migrated

\* CI cannot bring back an older release (docs/deployment.md:166): a deploy command only
\* starts a release newer than all accepted before, or goes back to the current one.
NoReplay ==
  [][/\ disk'.accepted >= disk.accepted
     /\ op'.kind = "apps" /\ op' # op /\ cmd' # "rollback"
          => op'.release = disk.accepted \/ op'.release = disk.current]_vars
=============================================================================
