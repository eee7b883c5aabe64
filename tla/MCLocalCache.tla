---------------------------- MODULE MCLocalCache ----------------------------
(* Small instances of LocalCache.                                          *)
EXTENDS LocalCache, TLC

\* No action tells one buffer from another.
Symmetry == Permutations(Bufs)
=============================================================================
