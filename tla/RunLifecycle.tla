---------------------------- MODULE RunLifecycle ----------------------------
(***************************************************************************)
(* What the rest of the system may rely on about the status of an agent    *)
(* run: AgentRun follows it as long as no two workers claim a run at once, *)
(* and the page that follows a run (RunView) is modelled over it.          *)
(***************************************************************************)
CONSTANT Runs

VARIABLE status

Terminal == {"succeeded", "failed", "cancelled", "timeout"}
Active == {"queued", "running", "waiting"}

Init == status = [r \in Runs |-> "absent"]

Moves(r, from, to) ==
  /\ status[r] = from
  /\ status' = [status EXCEPT ![r] = to]

Create(r) == Moves(r, "absent", "queued")
Claim(r) == Moves(r, "queued", "running")

\* A queued run was told to cancel, or its profile is in use.
Refuse(r) == \E end \in {"cancelled", "failed"} : Moves(r, "queued", end)

Ask(r) == Moves(r, "running", "waiting")
Answer(r) == Moves(r, "waiting", "queued")
EndWait(r) == Moves(r, "waiting", "cancelled")

\* The reaper queues the run of a dead worker again.
Recover(r) == Moves(r, "running", "queued")

End(r) == \E end \in Terminal : Moves(r, "running", end)

Next == \E r \in Runs : \/ Create(r) \/ Claim(r) \/ Refuse(r) \/ Ask(r) \/ Answer(r)
                        \/ EndWait(r) \/ Recover(r) \/ End(r)

Spec == Init /\ [][Next]_status
=============================================================================
