--------------------------- MODULE MCChangeSession ---------------------------
(* Small instances of ChangeSession.                                       *)
EXTENDS ChangeSession

CONSTANTS a, b

MCTexts == {<<a, b>>}
MCStrings == {<<a>>}
=============================================================================
