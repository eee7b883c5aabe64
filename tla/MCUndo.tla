------------------------------- MODULE MCUndo -------------------------------
(* Small instances of Undo.                                                *)
EXTENDS Undo

CONSTANTS a, b

MCStrings == {<<a>>, <<a, b>>}
=============================================================================
