----------------------------- MODULE MCFileLock -----------------------------
(* Small instances of FileLock: the processes in Remote run on a machine   *)
(* of their own, the others share one.                                     *)
EXTENDS FileLock, Naturals, FiniteSets, TLC

CONSTANT Remote

MCHost == [p \in Procs |-> IF p \in Remote THEN "there" ELSE "here"]

\* Processes of one host differ in nothing the protocol looks at.
Symmetry == Permutations(Procs \ Remote)

\* Bound: at most one process at a time lives on after a call that went wrong.
OneWentWrong ==
  Cardinality({p \in Procs : ours[p] \in {"silent", "hookError", "quit", "stuck"}}) <= 1
=============================================================================
