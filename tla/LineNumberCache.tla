--------------------------- MODULE LineNumberCache ---------------------------
(***************************************************************************)
(* The line number cache of src/line-number.c: a small ring of markers     *)
(* whose line numbers are known, from which redisplay counts the newlines  *)
(* to point instead of counting them from the beginning of the buffer.     *)
(*                                                                         *)
(* The ring follows the text in two ways that have to agree.  Its markers  *)
(* are ordinary ones and move as BufferText says; and an insertion or a    *)
(* deletion first throws out the markers whose line number it makes wrong. *)
(* An empty ring that was never allocated has the BEGV line NoCache.       *)
(***************************************************************************)
EXTENDS Integers, Sequences, FiniteSets, TextOps

CONSTANTS
  Chars,          \* the characters
  Newline,        \* the one that ends a line
  Strings,        \* the strings that are inserted
  Starts,         \* where the accessible part may begin
  SwapsNewlines,  \* subst-char-in-region replaces newlines, or by newlines
  RingSize,       \* LINE_NUMBER_RING_SIZE (8)
  Far,            \* LINE_NUMBER_FAR (16384)
  LargeString,    \* LINE_NUMBER_LARGE_STRING (256)
  NoCache,        \* line_number_cache is nil
  NoLine,         \* no line number has been asked for since the last change
  MaxLen          \* bound: the length of the text

ASSUME LineNumberAssumption ==
  /\ Newline \in Chars /\ Strings \subseteq Seq(Chars)
  /\ Starts \subseteq Nat \ {0} /\ SwapsNewlines \in BOOLEAN
  /\ RingSize \in Nat \ {0} /\ Far \in Nat /\ LargeString \in Nat /\ MaxLen \in Nat
  /\ NoCache \notin Int

VARIABLES
  text,      \* the characters of the buffer
  begv, zv,  \* the accessible part
  ring,      \* the known positions, latest first: [at, line] records
  begvLine,  \* LINE_NUMBER_BEGV: -1 is dirty
  shown      \* the last answer of buffer_line_number

vars == <<text, begv, zv, ring, begvLine, shown>>

Z == Len(text) + 1
Abs(n) == IF n < 0 THEN - n ELSE n

Newlines(t, p, q) == Cardinality({i \in p .. q - 1 : t[i] = Newline})

\* Mutant: counting backwards is taken for counting forwards.
CountUnsigned(t, p, q) == IF p > q THEN Newlines(t, q, p) ELSE Newlines(t, p, q)

\* scan_buffer from P to Q, as buffer_line_number uses it: backwards counts as
\* negative.
Count(t, p, q) == IF p > q THEN - Newlines(t, q, p) ELSE Newlines(t, p, q)

Entries == [at : 1 .. MaxLen + 1, line : Int]

Init ==
  /\ text = << >>
  /\ begv = 1 /\ zv = 1
  /\ ring = << >>
  /\ begvLine = NoCache
  /\ shown = NoLine

-----------------------------------------------------------------------------
(* The ring.                                                               *)

\* Mutant: "this check might as well be `>'".
InvalidateBeyond(r, p) == {i \in DOMAIN r : r[i].at <= p}

\* The entries invalidate_line_number_cache keeps.
Invalidate(r, p) == {i \in DOMAIN r : r[i].at < p}

\* The ring after a change of the text that carries position x to TO[x] and
\* keeps the entries in KEPT, shifted up to close the holes.
Carry(kept, to) ==
  \E f \in [1 .. Cardinality(kept) -> kept] :
    /\ \A i, j \in DOMAIN f : i < j => f[i] < f[j]
    /\ ring' = [k \in DOMAIN f |-> [at |-> to[ring[f[k]].at], line |-> ring[f[k]].line]]

\* insert_invalidate_line_number_cache and delete_invalidate_line_number_cache,
\* for the text S that comes or goes at P.
Kept(p, s) ==
  IF Len(s) > LargeString \/ \E i \in DOMAIN s : s[i] = Newline
  THEN Invalidate(ring, p) ELSE DOMAIN ring

\* narrow_line_number_cache.
Narrowed(line, b) == IF line = NoCache THEN NoCache ELSE IF b = 1 THEN 0 ELSE -1

\* get_nearest_line_number: what it may return for POS, BEGV being on LINE: the
\* first ring entry closest to POS, if closer than BEGV.
Nearest(pos, line) ==
  LET howfar(i) == Abs(ring[i].at - pos)
      closer == {i \in DOMAIN ring : howfar(i) < Abs(pos - begv)}
      best == {i \in closer : \A j \in closer : /\ howfar(i) <= howfar(j)
                                                /\ howfar(i) = howfar(j) => i <= j}
  IN IF closer = {} THEN {[at |-> begv, line |-> line]} ELSE {ring[i] : i \in best}

\* Mutant: the oldest entry is not dropped.
AddUnbounded(r, e) == <<e>> \o r

\* add_position_to_cache.
Add(r, e) == [k \in 1 .. (IF Len(r) < RingSize THEN Len(r) + 1 ELSE RingSize) |->
                IF k = 1 THEN e ELSE r[k - 1]]

-----------------------------------------------------------------------------
(* Operations.                                                             *)

\* buffer_insert_string_1.  The markers of the ring stay before text inserted
\* at them, except for insert-before-markers (BEFORE).
Insert(p, s, before) ==
  /\ p \in begv .. zv
  /\ Len(text) + Len(s) <= MaxLen
  /\ text' = Inserted(text, p, s)
  /\ zv' = zv + Len(s)
  /\ Carry(Kept(p, s), [x \in 1 .. Z |-> AfterInsert(x, p, Len(s), before)])
  /\ shown' = NoLine
  /\ UNCHANGED <<begv, begvLine>>

\* buffer_delete_range.
Delete(p, q) ==
  /\ begv <= p /\ p < q /\ q <= zv
  /\ text' = Deleted(text, p, q)
  /\ zv' = zv - (q - p)
  /\ Carry(Kept(p, SubSeq(text, p, q - 1)), [x \in 1 .. Z |-> AfterDelete(x, p, q)])
  /\ shown' = NoLine
  /\ UNCHANGED <<begv, begvLine>>

\* buffer_replace_char, by a character of the same size: the cache is not told.
ReplaceChar(p, c) ==
  /\ begv <= p /\ p < zv
  /\ SwapsNewlines \/ (text[p] = Newline <=> c = Newline)
  /\ text' = [text EXCEPT ![p] = c]
  /\ shown' = NoLine
  /\ UNCHANGED <<begv, zv, ring, begvLine>>

\* narrow-to-region.
Narrow(b, e) ==
  /\ b <= e /\ e <= Z
  /\ begv' = b /\ zv' = e
  /\ begvLine' = Narrowed(begvLine, b)
  /\ shown' = NoLine
  /\ UNCHANGED <<text, ring>>

\* widen.
Widen ==
  /\ begv' = 1 /\ zv' = Z
  /\ begvLine' = IF begv = 1 /\ zv = Z THEN begvLine ELSE Narrowed(begvLine, 1)
  /\ shown' = NoLine
  /\ UNCHANGED <<text, ring>>

\* save-restriction returns: HEAD and TAIL are what was hidden in front and
\* behind when it began, and are dropped if the text has become too short.
RestoreRestriction(head, tail) ==
  LET fits == head + tail <= Len(text)
      b == IF fits THEN 1 + head ELSE 1
  IN /\ begv' = b
     /\ zv' = IF fits THEN Z - tail ELSE Z
     /\ begvLine' = IF begv = b THEN begvLine ELSE Narrowed(begvLine, b)
     /\ shown' = NoLine
     /\ UNCHANGED <<text, ring>>

\* buffer_line_number, close to BEGV or with CACHEP zero.
CountFromBegv(pos) == Count(text, begv, pos)

\* buffer_line_number (b, POS, 1), as redisplay calls it for point or the point
\* of a window, wherever the narrowing is.
LineNumber(pos) ==
  LET cachep == Abs(pos - begv) > Far
      allocated == IF begvLine = NoCache THEN Narrowed(0, begv) ELSE begvLine
      \* The nested call counts from BEGV to BEGV, without the cache.
      known == IF allocated = -1 THEN CountFromBegv(begv) ELSE allocated
  IN /\ \/ /\ ~cachep
           /\ shown' = [at |-> pos, line |-> CountFromBegv(pos)]
           /\ UNCHANGED <<ring, begvLine>>
        \/ /\ cachep
           /\ begvLine' = known
           /\ \E from \in Nearest(pos, known) :
                LET line == Count(text, from.at, pos) + from.line
                IN /\ ring' = IF Abs(pos - from.at) > Far
                              THEN Add(ring, [at |-> pos, line |-> line]) ELSE ring
                   /\ shown' = [at |-> pos, line |-> line - known]
     /\ UNCHANGED <<text, begv, zv>>

Next ==
  \/ \E p \in 1 .. Z, s \in Strings, before \in BOOLEAN : Insert(p, s, before)
  \/ \E p, q \in 1 .. Z : Delete(p, q)
  \/ \E p \in 1 .. Len(text), c \in Chars : ReplaceChar(p, c)
  \/ \E b \in Starts, e \in 1 .. Z : Narrow(b, e)
  \/ Widen
  \/ \E b \in Starts, tail \in 0 .. MaxLen : RestoreRestriction(b - 1, tail)
  \/ \E pos \in 1 .. Z : LineNumber(pos)

Spec == Init /\ [][Next]_vars

-----------------------------------------------------------------------------
(* Type invariant of the cache, its ring and the accessible part.          *)
TypeOK ==
  /\ text \in Seq(Chars) /\ Len(text) <= MaxLen
  /\ begv \in 1 .. Z /\ zv \in begv .. Z
  /\ ring \in Seq(Entries) /\ Len(ring) <= RingSize
  /\ begvLine \in {NoCache, -1, 0}
  /\ shown = NoLine \/ shown \in Entries

(* Every position in the ring is a position of the text, and its line      *)
(* number is the number of newlines in front of it: the edits that have    *)
(* happened since it was entered moved the marker and left its line, or    *)
(* threw it out.                                                           *)
RingCorrect ==
  \A i \in DOMAIN ring : ring[i].at <= Z /\ ring[i].line = Newlines(text, 1, ring[i].at)

(* The comment on buffer_line_number: it is the number of lines "counted   *)
(* from the beginning of the visible portion of the buffer", with the      *)
(* cache or without.                                                       *)
LineNumberCorrect ==
  shown # NoLine =>
    shown.line = Newlines(text, 1, shown.at) - Newlines(text, 1, begv)
=============================================================================
