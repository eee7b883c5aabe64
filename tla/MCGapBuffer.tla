---------------------------- MODULE MCGapBuffer ----------------------------
(* Small instances of GapBuffer.                                           *)
EXTENDS GapBuffer

CONSTANTS a, b

MCStrings == {<< >>, <<a>>, <<a, b>>}
MCTwoStrings == {<<a>>, <<b, a>>}
=============================================================================
