----------------------------- MODULE MCAgentRun -----------------------------
(* Small instances of AgentRun. Runs and workers are interchangeable. *)
EXTENDS AgentRun, TLC

MCSymmetry == Permutations(Workers) \union Permutations(Runs)

\* All runs want the one profile.
SharedInit == Init /\ \A r \in Runs : HasProfile(r)
SharedProfile == SharedInit /\ [][Next]_vars
=============================================================================
