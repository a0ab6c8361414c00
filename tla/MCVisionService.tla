---------------------------- MODULE MCVisionService ----------------------------
(***************************************************************************)
(* Small instances of VisionService.                                       *)
(***************************************************************************)
EXTENDS VisionService
=============================================================================
