----------------------------- MODULE MCSupportApi -----------------------------
(***************************************************************************)
(* Small instances of SupportApi.                                          *)
(***************************************************************************)
EXTENDS SupportApi, TLC

\* Request ids and approval ids are interchangeable.
RequestSymmetry ==
    Permutations(Turns) \cup Permutations(Resumes) \cup Permutations(Approvals)
=============================================================================
