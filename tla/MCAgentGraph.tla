----------------------------- MODULE MCAgentGraph -----------------------------
(***************************************************************************)
(* Small instances of AgentGraph.  Run ids are interchangeable.            *)
(***************************************************************************)
EXTENDS AgentGraph, TLC

RunSymmetry == Permutations(Turns) \cup Permutations(Resumes)
=============================================================================
