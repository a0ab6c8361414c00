---------------------------- MODULE MCKnowledgeBase ----------------------------
(***************************************************************************)
(* Small instances of KnowledgeBase.  Ids are interchangeable.             *)
(***************************************************************************)
EXTENDS KnowledgeBase, TLC

IdSymmetry == Permutations(ChunkIds) \cup Permutations(Ingests)
=============================================================================
