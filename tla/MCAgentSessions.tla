-------------------------- MODULE MCAgentSessions --------------------------
(* Instance of AgentSessions: runs are interchangeable. *)
EXTENDS AgentSessions, TLC

Alike == Permutations(Runs)
=============================================================================
