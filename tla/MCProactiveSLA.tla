---------------------------- MODULE MCProactiveSLA ----------------------------
(***************************************************************************)
(* Small instances of ProactiveSLA.  No symmetry: its properties are       *)
(* temporal, and symmetry reduction is not sound for them.                 *)
(***************************************************************************)
EXTENDS ProactiveSLA
=============================================================================
