---------------------------- MODULE MCSemanticCache ----------------------------
(***************************************************************************)
(* Small instances of SemanticCache.                                       *)
(***************************************************************************)
EXTENDS SemanticCache

MCQueries == 1..3
=============================================================================
