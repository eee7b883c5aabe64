------------------------------ MODULE GapBuffer ------------------------------
(***************************************************************************)
(* Buffer text as src/insdel.c stores it: one block of memory with a gap   *)
(* in it (and a second, the end gap, behind the text), markers that hold   *)
(* memory indices rather than positions, and for each of the buffers that  *)
(* share the text (a base buffer and its indirect buffers) point and the   *)
(* bounds of narrowing.  BufferText is what this implements.               *)
(*                                                                         *)
(* A character is one byte.  A build with Mule keeps a zero byte at the    *)
(* start of the gap and one after the text (SentinelSize = 1); bytes that  *)
(* hold neither text nor a sentinel are Junk, and reading one would show   *)
(* in the text.  Before a change the change hooks run arbitrary Lisp, so   *)
(* the arguments of an operation are any positions by the time it clamps   *)
(* them.  Moving the gap may be interrupted by a quit, and growing it may  *)
(* fail; then the operation is abandoned half way.                         *)
(***************************************************************************)
EXTENDS Integers, Sequences, FiniteSets

CONSTANTS
  Chars,         \* the characters
  Nul, Junk,     \* a sentinel, and a byte that means nothing
  Strings,       \* the strings that are inserted
  Bufs,          \* the buffers that share the text
  Narrowed,      \* those of them that Lisp narrows
  Markers,       \* markers other than the point markers, which Bufs stand for
  SentinelSize,  \* BUF_END_SENTINEL_SIZE: 1 with Mule, 0 without
  InitialGap,    \* the gap of a new buffer (20)
  GapSlack,      \* what make_gap adds to what is needed (2000)
  Chunk,         \* GAP_MOVE_CHUNK
  MaxInt         \* EMACS_INT_MAX: bound on the size of a buffer

Marks == Markers \cup Bufs

ASSUME GapBufferAssumption ==
  /\ Nul \notin Chars /\ Junk \notin Chars /\ Nul # Junk
  /\ Strings \subseteq Seq(Chars)
  /\ Bufs # {} /\ Narrowed \subseteq Bufs /\ Markers \cap Bufs = {}
  /\ SentinelSize \in {0, 1}
  /\ InitialGap \in Nat /\ InitialGap >= SentinelSize
  /\ GapSlack \in Nat \ {0} /\ Chunk \in Nat \ {0} /\ MaxInt \in Nat

VARIABLES
  bt,        \* struct buffer_text, see TextRecord, and the chain of markers
  pt,        \* pt[b]: point of buffer b
  begv,      \* begv[b], zv[b]: the accessible part of buffer b
  zv,
  advancing  \* the markers whose insertion type is t

vars == <<bt, pt, begv, zv, advancing>>

\* mem: the bytes; gpt, gap: position and size of the gap; endGap: size of the
\* end gap; z: the position after the text (BUF_Z); memind: of every marker.
Allocated(T) == T.z - 1 + T.gap + T.endGap + SentinelSize

TextOK(T) ==
  /\ T = [mem |-> T.mem, gpt |-> T.gpt, gap |-> T.gap, endGap |-> T.endGap,
          z |-> T.z, memind |-> T.memind]
  /\ T.z \in Nat \ {0} /\ T.gap \in Nat /\ T.endGap \in Nat
  /\ T.gpt \in 1 .. T.z
  /\ T.mem \in [1 .. Allocated(T) -> Chars \cup {Nul, Junk}]
  /\ T.memind \in [Marks -> Int]

Init ==
  /\ bt = [mem |-> [i \in 1 .. InitialGap + SentinelSize |->
                      IF SentinelSize = 1 /\ i \in {1, InitialGap + 1} THEN Nul ELSE Junk],
           gpt |-> 1, gap |-> InitialGap, endGap |-> 0, z |-> 1,
           memind |-> [m \in Marks |-> 1]]
  /\ pt = [b \in Bufs |-> 1]
  /\ begv = [b \in Bufs |-> 1]
  /\ zv = [b \in Bufs |-> 1]
  /\ advancing = {}

-----------------------------------------------------------------------------
(* Positions and memory.                                                   *)

valid_memind_p(T, x) ==
  \/ x >= 1 /\ x <= T.gpt
  \/ x > T.gpt + T.gap /\ x <= T.z + T.gap

bytind_to_memind(T, x) == IF x > T.gpt THEN x + T.gap ELSE x

memind_to_bytind(T, x) == IF x > T.gpt THEN x - T.gap ELSE x

\* BI_BUF_BYTE_ADDRESS: where the character at position x is.
ByteAddress(T, x) == IF x >= T.gpt THEN x + T.gap ELSE x

Forget(mem, lo, hi) ==
  [i \in DOMAIN mem |-> IF i \in lo .. hi THEN Junk ELSE mem[i]]

SetSentinel(mem, at) ==
  IF SentinelSize = 1 THEN [mem EXCEPT ![at] = Nul] ELSE mem

\* Mutant: markers beyond the interval are not first moved back to its end.
AdjustmentWithoutNearEnd(mpos, from, to, amount) ==
  IF mpos > from /\ mpos <= to THEN mpos + amount ELSE mpos

do_marker_adjustment(mpos, from, to, amount) ==
  LET near == IF amount > 0
              THEN IF mpos > to /\ mpos < to + amount THEN to + amount ELSE mpos
              ELSE IF mpos > from + amount /\ mpos <= from THEN from + amount ELSE mpos
  IN IF near > from /\ near <= to THEN near + amount ELSE near

adjust_markers(T, from, to, amount) ==
  [m \in Marks |-> do_marker_adjustment(T.memind[m], from, to, amount)]

-----------------------------------------------------------------------------
(* The gap.                                                                *)

\* gap_left: the text between POS and the gap moves up.
GapLeft(T, pos) ==
  [mem |-> SetSentinel([i \in DOMAIN T.mem |->
             IF i \in pos .. pos + T.gap - 1 THEN Junk
             ELSE IF i \in pos + T.gap .. T.gpt + T.gap - 1 THEN T.mem[i - T.gap]
             ELSE T.mem[i]], pos),
   gpt |-> pos, gap |-> T.gap, endGap |-> T.endGap, z |-> T.z,
   memind |-> adjust_markers(T, pos, T.gpt, T.gap)]

\* The text between the gap and POS moves down.
Slide(T, pos) ==
  SetSentinel([i \in DOMAIN T.mem |->
    IF i \in pos .. pos + T.gap - 1 THEN Junk
    ELSE IF i \in T.gpt .. pos - 1 THEN T.mem[i + T.gap]
    ELSE T.mem[i]], pos)

\* Mutant: gap_right adds the end gap to the gap and does not take it away.
GapRightKeepsEndGap(T, pos) ==
  [mem |-> Slide(T, pos), gpt |-> pos, z |-> T.z, endGap |-> T.endGap,
   gap |-> IF pos = T.z THEN T.gap + T.endGap ELSE T.gap,
   memind |-> adjust_markers(T, T.gpt + T.gap, pos + T.gap, - T.gap)]

\* gap_right; at the end of the text the end gap is merged into the gap.
GapRight(T, pos) ==
  LET atEnd == pos = T.z
  IN [mem |-> IF atEnd THEN SetSentinel(Slide(T, pos), T.z + T.gap + T.endGap)
              ELSE Slide(T, pos),
      gpt |-> pos, z |-> T.z,
      gap |-> IF atEnd THEN T.gap + T.endGap ELSE T.gap,
      endGap |-> IF atEnd THEN 0 ELSE T.endGap,
      memind |-> adjust_markers(T, T.gpt + T.gap, pos + T.gap, - T.gap)]

move_gap(T, pos) ==
  IF pos < T.gpt THEN GapLeft(T, pos)
  ELSE IF pos > T.gpt THEN GapRight(T, pos)
  ELSE T

\* The last step of merge_gap_with_end_gap and of make_gap: INC bytes behind
\* the text of MEM are taken for the gap, moved down to the real one and
\* combined with it.
ExtendGap(T, mem, inc) ==
  LET pretended == [mem |-> mem, gpt |-> T.z + T.gap, gap |-> inc, endGap |-> 0,
                    z |-> T.z, memind |-> T.memind]
      L == GapLeft(pretended, T.gpt + T.gap)
      joined == SetSentinel(Forget(L.mem, T.gpt, T.gpt + T.gap + inc - 1), T.gpt)
  IN [mem |-> SetSentinel(joined, T.z + T.gap + inc),
      gpt |-> T.gpt, gap |-> T.gap + inc, endGap |-> 0, z |-> T.z, memind |-> L.memind]

merge_gap_with_end_gap(T) == IF T.endGap > 0 THEN ExtendGap(T, T.mem, T.endGap) ELSE T

\* The increment make_gap asks for, and whether it may have it.
Increment(T, n) == n + GapSlack + ((T.z - 1) \div 8)

GapTooLarge(T, n) ==
  /\ Increment(T, n) > T.endGap
  /\ T.z - 1 + T.gap + Increment(T, n) > MaxInt

make_gap(T, n) ==
  LET inc == Increment(T, n)
      realloc == [i \in 1 .. T.z - 1 + T.gap + inc + SentinelSize |->
                    IF i <= T.z - 1 + T.gap THEN T.mem[i] ELSE Junk]
  IN IF inc > T.endGap THEN ExtendGap(T, realloc, inc) ELSE ExtendGap(T, T.mem, T.endGap)

\* Mutant: the sentinel at the start of the gap is not counted.
CanHoldWithoutSentinel(T, len) == T.gap >= len

GAP_CAN_HOLD_SIZE_P(T, len) == T.gap >= len + SentinelSize

\* Room for LEN bytes at the gap: buffer_insert_string_1.
MakeRoom(T, len) ==
  IF GAP_CAN_HOLD_SIZE_P(T, len) THEN T
  ELSE IF T.endGap >= len THEN merge_gap_with_end_gap(T)
  ELSE make_gap(T, len - T.gap)

\* There is no such room: "Maximum buffer size exceeded".
NoRoom(T, len) ==
  /\ ~GAP_CAN_HOLD_SIZE_P(T, len)
  /\ T.endGap < len
  /\ GapTooLarge(T, len - T.gap)

-----------------------------------------------------------------------------
(* Insertion and deletion.                                                 *)

Clamp(b, p) ==
  LET q == IF p < begv[b] THEN begv[b] ELSE p
  IN IF q > zv[b] THEN zv[b] ELSE q

\* Mutant: set_buffer_point moves point and forgets its marker.
PointMemindForgotten(T, b, old, new) == T.memind[b]

\* set_buffer_point, on text T in which point is at OLD: the new memory index
\* of the point marker.
PointMemind(T, b, old, new) == IF new = old THEN T.memind[b] ELSE bytind_to_memind(T, new)

\* The string goes to the start of the gap; the markers at IND whose insertion
\* type is t follow it.
Fill(T, s) ==
  LET len == Len(s)
      ind == T.gpt
  IN [mem |-> SetSentinel([i \in DOMAIN T.mem |->
                IF i \in ind .. ind + len - 1 THEN s[i - ind + 1] ELSE T.mem[i]], ind + len),
      gpt |-> ind + len, gap |-> T.gap - len, endGap |-> T.endGap, z |-> T.z + len,
      memind |-> [m \in Marks |-> IF m \in advancing /\ T.memind[m] = ind
                                  THEN ind + len ELSE T.memind[m]]]

\* buffer_insert_string_1 in buffer B at P (clamped after the hooks have run).
\* MOVES: point of B goes past the string (POS is -1); BEFORE: the flag
\* INSDEL_BEFORE_MARKERS, only used together with MOVES.
Insert(b, p, s, moves, before) ==
  LET ind == Clamp(b, p)
      len == Len(s)
      room == MakeRoom(move_gap(bt, ind), len)
      filled == Fill(room, s)
      shifted == [c \in Bufs |-> IF pt[c] > ind THEN pt[c] + len ELSE pt[c]]
      pointed == IF moves
                 THEN [filled EXCEPT !.memind[b] = PointMemind(filled, b, shifted[b], ind + len)]
                 ELSE filled
  IN /\ len + bt.z <= MaxInt
     /\ ~NoRoom(move_gap(bt, ind), len)
     /\ bt' = IF before
              THEN [pointed EXCEPT !.memind = adjust_markers(pointed, ind - 1, ind, len)]
              ELSE pointed
     /\ pt' = IF moves THEN [shifted EXCEPT ![b] = ind + len] ELSE shifted
     /\ zv' = [c \in Bufs |-> zv[c] + len]
     /\ UNCHANGED <<begv, advancing>>

\* The insertion is given up after the gap has moved, for want of room.
InsertNoRoom(b, p, s) ==
  LET moved == move_gap(bt, Clamp(b, p))
  IN /\ Len(s) + bt.z <= MaxInt
     /\ NoRoom(moved, Len(s))
     /\ bt' = moved
     /\ UNCHANGED <<pt, begv, zv, advancing>>

\* Deleting at the end of the text, beyond the gap: the end gap grows.
DeleteBottom(T, from, to) ==
  [mem |-> Forget(T.mem, from + T.gap, to + T.gap),
   gpt |-> T.gpt, gap |-> T.gap,
   endGap |-> T.endGap + (to - from), z |-> T.z - (to - from),
   memind |-> adjust_markers(T, to + T.gap, to + T.gap, - (to - from))]

\* Otherwise the gap goes next to the text, or into it, and swallows it.
DeleteAtGap(T, from, to) ==
  [mem |-> SetSentinel(Forget(T.mem, from, to + T.gap - 1), from),
   gpt |-> from, gap |-> T.gap + (to - from),
   endGap |-> T.endGap, z |-> T.z - (to - from),
   memind |-> adjust_markers(T, to + T.gap, to + T.gap, - (to - from) - T.gap)]

\* Mutant: the gap is not brought up to text that lies behind it.
DeleteTextWithoutGapRight(T, from, to) ==
  IF to = T.z /\ from > T.gpt THEN DeleteBottom(T, from, to)
  ELSE IF to < T.gpt THEN DeleteAtGap(GapLeft(T, to), from, to)
  ELSE DeleteAtGap(T, from, to)

DeleteText(T, from, to) ==
  IF to = T.z /\ from > T.gpt THEN DeleteBottom(T, from, to)
  ELSE IF to < T.gpt THEN DeleteAtGap(GapLeft(T, to), from, to)
  ELSE IF from > T.gpt THEN DeleteAtGap(GapRight(T, from), from, to)
  ELSE DeleteAtGap(T, from, to)

\* Mutant: the end of the accessible part stays where it was.
DeleteKeepsZV(b, p, q) ==
  LET from == IF p < begv[b] THEN begv[b] ELSE p
      to == IF q > zv[b] THEN zv[b] ELSE q
      numdel == to - from
  IN /\ numdel > 0
     /\ bt' = DeleteText(bt, from, to)
     /\ pt' = [c \in Bufs |-> IF from < pt[c]
                              THEN IF pt[c] < to THEN from ELSE pt[c] - numdel
                              ELSE pt[c]]
     /\ UNCHANGED <<begv, zv, advancing>>

\* buffer_delete_range in buffer B.
Delete(b, p, q) ==
  LET from == IF p < begv[b] THEN begv[b] ELSE p
      to == IF q > zv[b] THEN zv[b] ELSE q
      numdel == to - from
  IN /\ numdel > 0
     /\ bt' = DeleteText(bt, from, to)
     /\ pt' = [c \in Bufs |-> IF from < pt[c]
                              THEN IF pt[c] < to THEN from ELSE pt[c] - numdel
                              ELSE pt[c]]
     /\ zv' = [c \in Bufs |-> zv[c] - numdel]
     /\ UNCHANGED <<begv, advancing>>

\* buffer_replace_char: a character is one byte, so it is replaced in place.
ReplaceChar(b, p, ch) ==
  LET low == IF p < begv[b] THEN begv[b] ELSE p
      at == IF low >= zv[b] THEN zv[b] - 1 ELSE low
  IN /\ at >= begv[b]
     /\ bt' = [bt EXCEPT !.mem[ByteAddress(bt, at)] = ch]
     /\ UNCHANGED <<pt, begv, zv, advancing>>

\* A quit while the gap is on its way to where B changes its text: gap_left
\* and gap_right look for one after every chunk, finish what they have begun,
\* and the change is abandoned.
QuitMovingGap(b) ==
  /\ \E goal \in begv[b] .. zv[b] :
       \E stop \in (IF goal < bt.gpt THEN goal .. bt.gpt ELSE bt.gpt .. goal) :
         /\ stop = goal \/ (stop - bt.gpt) % Chunk = 0
         /\ bt' = move_gap(bt, stop)
  /\ UNCHANGED <<pt, begv, zv, advancing>>

-----------------------------------------------------------------------------
(* Markers, point and narrowing.                                           *)

\* set_buffer_point (BUF_SET_PT) moves point and its marker to P.
SetPoint(b, p) ==
  /\ pt' = [pt EXCEPT ![b] = p]
  /\ bt' = [bt EXCEPT !.memind[b] = PointMemind(bt, b, pt[b], p)]

\* goto-char clips to the accessible part.
GotoChar(b, p) == SetPoint(b, Clamp(b, p)) /\ UNCHANGED <<begv, zv, advancing>>

\* set_marker_internal clips to the whole buffer, accessible or not.
ClipToBuffer(p) == IF p < 1 THEN 1 ELSE IF p > bt.z THEN bt.z ELSE p

\* set-marker.
SetMarker(m, p) ==
  /\ bt' = [bt EXCEPT !.memind[m] = bytind_to_memind(bt, ClipToBuffer(p))]
  /\ UNCHANGED <<pt, begv, zv, advancing>>

\* set-marker on (point-marker t) moves point, also out of the accessible part
\* (only a build with assertions stops there, in set_buffer_point).
SetPointMarker(b, p) ==
  /\ SetPoint(b, ClipToBuffer(p))
  /\ UNCHANGED <<begv, zv, advancing>>

\* set-marker-insertion-type.
SetInsertionType(m, advance) ==
  /\ advancing' = IF advance THEN advancing \cup {m} ELSE advancing \ {m}
  /\ UNCHANGED <<bt, pt, begv, zv>>

\* Mutant: narrowing leaves point where it is.
NarrowKeepsPoint(b, start, end) ==
  /\ b \in Narrowed
  /\ start >= 1 /\ start <= end /\ end <= bt.z
  /\ begv' = [begv EXCEPT ![b] = start]
  /\ zv' = [zv EXCEPT ![b] = end]
  /\ UNCHANGED <<bt, pt, advancing>>

\* narrow-to-region: any two positions of the buffer.
Narrow(b, start, end) ==
  /\ b \in Narrowed
  /\ start >= 1 /\ start <= end /\ end <= bt.z
  /\ begv' = [begv EXCEPT ![b] = start]
  /\ zv' = [zv EXCEPT ![b] = end]
  /\ IF pt[b] < start THEN SetPoint(b, start)
     ELSE IF pt[b] > end THEN SetPoint(b, end)
     ELSE UNCHANGED <<bt, pt>>
  /\ UNCHANGED advancing

\* widen.
Widen(b) ==
  /\ begv' = [begv EXCEPT ![b] = 1]
  /\ zv' = [zv EXCEPT ![b] = bt.z]
  /\ UNCHANGED <<bt, pt, advancing>>

\* A position is at most MaxInt.
Positions == 0 .. MaxInt + 1

Next ==
  \/ \E b \in Bufs :
       \/ \E p \in Positions, s \in Strings, moves, before \in BOOLEAN :
            (before => moves) /\ Insert(b, p, s, moves, before)
       \/ \E p \in Positions, s \in Strings : InsertNoRoom(b, p, s)
       \/ \E p, q \in Positions : Delete(b, p, q)
       \/ \E p \in Positions, ch \in Chars : ReplaceChar(b, p, ch)
       \/ QuitMovingGap(b)
       \/ \E p \in Positions : GotoChar(b, p) \/ SetPointMarker(b, p)
       \/ \E start, end \in Positions : Narrow(b, start, end)
       \/ Widen(b)
  \/ \E m \in Markers : \/ \E p \in Positions : SetMarker(m, p)
                        \/ \E advance \in BOOLEAN : SetInsertionType(m, advance)

Spec == Init /\ [][Next]_vars

-----------------------------------------------------------------------------
(* The buffer as the rest of XEmacs sees it.                               *)
Text == [i \in 1 .. bt.z - 1 |-> bt.mem[ByteAddress(bt, i)]]
Pos == [m \in Marks |-> memind_to_bytind(bt, bt.memind[m])]

BT == INSTANCE BufferText WITH text <- Text, pos <- Pos

(* insdel.c implements BufferText: whatever the gap does, an operation     *)
(* changes the text and moves the markers as BufferText says, and a quit   *)
(* or a failed allocation changes nothing.                                 *)
Implements == BT!Spec

(* The memory and its gap are well formed: the allocated block is exactly  *)
(* the text, the two gaps and the sentinel of buffer.h and insdel.c.       *)
TypeOK ==
  /\ TextOK(bt)
  /\ pt \in [Bufs -> Int] /\ begv \in [Bufs -> Int] /\ zv \in [Bufs -> Int]
  /\ advancing \subseteq Markers

(* No marker is denormalized, that is inside the gap or behind the text:   *)
(* the assertion of memind_to_bytind, "I don't think this can happen".     *)
MarkersValid == \A m \in Marks : valid_memind_p(bt, bt.memind[m])

(* The accessible part of every buffer is a part of the text, and point is *)
(* a position of the text: the edits of insdel.c keep ZV and the points of *)
(* all buffers in step with a text that any of them changes.               *)
NarrowingValid ==
  \A b \in Bufs : /\ 1 <= begv[b] /\ begv[b] <= zv[b] /\ zv[b] <= bt.z
                  /\ 1 <= pt[b] /\ pt[b] <= bt.z

Visible(b) == begv[b] <= pt[b] /\ pt[b] <= zv[b]

(* Point does not leave the accessible part of its buffer (where the       *)
(* assertion of set_buffer_point wants it) by any change of the text, of   *)
(* the narrowing or of point, but for one: set-marker on the point marker, *)
(* which set_marker_internal clips to the whole buffer.                    *)
PointStaysVisible ==
  [][\A b \in Bufs : Visible(b) => Visible(b)' \/ \E p \in Positions : SetPointMarker(b, p)]_vars

(* Point, kept as a position, and the point marker, kept as a memory       *)
(* index, are the same place.                                              *)
PointInSync == \A b \in Bufs : memind_to_bytind(bt, bt.memind[b]) = pt[b]

(* "Under Mule, we maintain two sentinels": the one at the beginning of    *)
(* the gap.                                                                *)
GapSentinel == SentinelSize = 1 => bt.gap > 0 /\ bt.mem[bt.gpt] = Nul
=============================================================================
