----------------------------- MODULE MCOrderTools -----------------------------
(***************************************************************************)
(* Small instances of OrderTools.  Jobs and orders are interchangeable.    *)
(***************************************************************************)
EXTENDS OrderTools, TLC

JobSymmetry == Permutations(Jobs) \cup Permutations(Orders)
=============================================================================
