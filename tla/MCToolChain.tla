------------------------------ MODULE MCToolChain ------------------------------
(***************************************************************************)
(* Small instances of ToolChain.                                           *)
(***************************************************************************)
EXTENDS ToolChain

MCJobs == Calls \X (1 .. MaxSends)
=============================================================================
