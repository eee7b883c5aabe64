------------------------- MODULE MCLineNumberCache -------------------------
(* Small instances of LineNumberCache.                                     *)
EXTENDS LineNumberCache

CONSTANT x

MCStrings == {<<Newline>>, <<x>>, <<x, x>>}
=============================================================================
