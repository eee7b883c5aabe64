------------------------------ MODULE TextOps ------------------------------
(***************************************************************************)
(* What an insertion and a deletion do to a text, a sequence of            *)
(* characters, and to a position in it.  Position p is in front of         *)
(* character p; the position behind the last one is Len(t) + 1.            *)
(***************************************************************************)
LOCAL INSTANCE Integers
LOCAL INSTANCE Sequences

\* S is inserted before character P of T.
Inserted(t, p, s) ==
  [i \in 1 .. Len(t) + Len(s) |->
     IF i < p THEN t[i]
     ELSE IF i < p + Len(s) THEN s[i - p + 1]
     ELSE t[i - Len(s)]]

\* The characters of T from P up to but not including Q go.
Deleted(t, p, q) ==
  [i \in 1 .. Len(t) - (q - p) |-> IF i < p THEN t[i] ELSE t[i + (q - p)]]

\* Where position X is after N characters are inserted at P; at P itself it
\* stays before them unless it is AHEAD.
AfterInsert(x, p, n, ahead) == IF x > p \/ (x = p /\ ahead) THEN x + n ELSE x

\* Where position X is after the characters from P to Q are gone.
AfterDelete(x, p, q) == IF x > q THEN x - (q - p) ELSE IF x > p THEN p ELSE x
=============================================================================
