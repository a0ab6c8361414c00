------------------------------ MODULE MCMcpClient ------------------------------
(***************************************************************************)
(* Small instances of McpClient.  No symmetry: a temporal property is      *)
(* checked.                                                                *)
(***************************************************************************)
EXTENDS McpClient
=============================================================================
