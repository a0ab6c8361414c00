---------------------------- MODULE MCPiiSanitizer ----------------------------
(***************************************************************************)
(* Small instances of PiiSanitizer.                                        *)
(***************************************************************************)
EXTENDS PiiSanitizer

MCLetters == {"a", "b"}
MCCardLengths == {12, 13, 14}
=============================================================================
