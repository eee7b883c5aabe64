--------------------------- MODULE GapBufferProofs ---------------------------
(***************************************************************************)
(* Proofs about the gap buffer, for any set of markers and strings, any    *)
(* chunk size and any allocation policy: the operators on the memory keep  *)
(* it well formed and mean what BufferText says they mean.                 *)
(***************************************************************************)
EXTENDS GapBuffer, TLAPS

Bytes == Chars \cup {Nul, Junk}

(* What every operator on the memory relies on and keeps: the block is as  *)
(* long as its parts, text bytes are characters, markers are outside the   *)
(* gap, and a Mule build always has room for the sentinel of the gap.      *)
WF(T) ==
  /\ TextOK(T)
  /\ T.gap >= SentinelSize
  /\ \A i \in 1 .. T.z - 1 : T.mem[ByteAddress(T, i)] \in Chars
  /\ \A m \in Marks : valid_memind_p(T, T.memind[m])

\* The text and the positions of the markers that a memory stands for.
Content(T) == [i \in 1 .. T.z - 1 |-> T.mem[ByteAddress(T, i)]]
Places(T) == [m \in Marks |-> memind_to_bytind(T, T.memind[m])]

\* Two memories that stand for the same text and markers.
Same(R, T) == R.z = T.z /\ Content(R) = Content(T) /\ Places(R) = Places(T)

(* What the proofs use of the assumption on the constants.                 *)
LEMMA Constants ==
  /\ SentinelSize \in {0, 1}
  /\ InitialGap \in Nat /\ InitialGap >= SentinelSize
  /\ GapSlack \in Nat /\ GapSlack > 0 /\ MaxInt \in Nat
  /\ Nul \notin Chars /\ Junk \notin Chars
  /\ Strings \subseteq Seq(Chars)
BY GapBufferAssumption DEF GapBufferAssumption

(* The parts of a well formed memory.                                      *)
LEMMA WFParts ==
  ASSUME NEW T, WF(T)
  PROVE  /\ T.z \in Nat /\ T.z > 0 /\ T.gap \in Nat /\ T.endGap \in Nat
         /\ T.gpt \in Nat /\ 1 <= T.gpt /\ T.gpt <= T.z /\ T.gap >= SentinelSize
         /\ SentinelSize \in {0, 1}
         /\ Allocated(T) = T.z - 1 + T.gap + T.endGap + SentinelSize
         /\ Allocated(T) \in Nat
         /\ T.mem \in [1 .. Allocated(T) -> Bytes]
         /\ DOMAIN T.mem = 1 .. Allocated(T)
         /\ T.memind \in [Marks -> Int]
         /\ \A m \in Marks : T.memind[m] \in Int /\ valid_memind_p(T, T.memind[m])
<1>1. /\ T.z \in Nat /\ T.z > 0 /\ T.gap \in Nat /\ T.endGap \in Nat
      /\ T.gpt \in 1 .. T.z /\ T.gap >= SentinelSize
      /\ T.mem \in [1 .. Allocated(T) -> Bytes]
      /\ T.memind \in [Marks -> Int]
      /\ \A m \in Marks : valid_memind_p(T, T.memind[m])
  BY DEF WF, TextOK, Bytes
<1>2. T.gpt \in Nat /\ 1 <= T.gpt /\ T.gpt <= T.z
  BY <1>1
<1>3. SentinelSize \in {0, 1} /\ Allocated(T) \in Nat
  BY <1>1, Constants DEF Allocated
<1> QED BY <1>1, <1>2, <1>3 DEF Allocated

(* R is a memory that stands for the text TXT of N characters and markers  *)
(* at the positions AT, in terms of where each byte and marker is.         *)
Represents(R, n, txt, at) ==
  /\ R = [mem |-> R.mem, gpt |-> R.gpt, gap |-> R.gap, endGap |-> R.endGap,
          z |-> R.z, memind |-> R.memind]
  /\ n \in Nat /\ R.z = n + 1
  /\ R.gap \in Nat /\ R.endGap \in Nat /\ R.gap >= SentinelSize
  /\ R.gpt \in Nat /\ 1 <= R.gpt /\ R.gpt <= R.z
  /\ R.mem \in [1 .. n + R.gap + R.endGap + SentinelSize -> Bytes]
  /\ txt \in [1 .. n -> Chars]
  /\ \A i \in 1 .. n : i < R.gpt => R.mem[i] = txt[i]
  /\ \A i \in 1 .. n : i >= R.gpt => R.mem[i + R.gap] = txt[i]
  /\ R.memind \in [Marks -> Int] /\ at \in [Marks -> Int]
  /\ \A m \in Marks : at[m] \in 1 .. R.z /\ R.memind[m] = bytind_to_memind(R, at[m])

(* Such a memory is well formed and has that text and those positions.     *)
LEMMA WFIntro ==
  ASSUME NEW R, NEW n, NEW txt, NEW at, Represents(R, n, txt, at)
  PROVE  WF(R) /\ R.z = n + 1 /\ Content(R) = txt /\ Places(R) = at
<1> USE DEF Represents
<1>1. Allocated(R) = n + R.gap + R.endGap + SentinelSize
  BY Constants DEF Allocated
<1>2. \A i \in 1 .. R.z - 1 : R.mem[ByteAddress(R, i)] = txt[i]
  BY DEF ByteAddress
<1>3. \A m \in Marks : /\ valid_memind_p(R, R.memind[m])
                       /\ memind_to_bytind(R, R.memind[m]) = at[m]
  BY DEF bytind_to_memind, memind_to_bytind, valid_memind_p
<1>4. R.z - 1 = n /\ R.gpt \in 1 .. R.z /\ R.z \in Nat \ {0}
  OBVIOUS
<1>5. TextOK(R)
  BY <1>1, <1>4 DEF TextOK, Bytes
<1>6. WF(R)
  BY <1>2, <1>3, <1>4, <1>5 DEF WF
<1>7. Content(R) = txt
  BY <1>2, <1>4 DEF Content
<1>8. Places(R) = at
  BY <1>3 DEF Places
<1> QED BY <1>6, <1>7, <1>8

(* And every well formed memory is one.                                    *)
LEMMA WFElim ==
  ASSUME NEW T, WF(T)
  PROVE  Represents(T, T.z - 1, Content(T), Places(T))
<1>0. /\ T.z \in Nat /\ T.z > 0 /\ T.gap \in Nat /\ T.endGap \in Nat
      /\ T.gpt \in Nat /\ 1 <= T.gpt /\ T.gpt <= T.z /\ T.gap >= SentinelSize
      /\ SentinelSize \in {0, 1}
      /\ T.mem \in [1 .. T.z - 1 + T.gap + T.endGap + SentinelSize -> Bytes]
      /\ T.memind \in [Marks -> Int]
      /\ \A m \in Marks : T.memind[m] \in Int /\ valid_memind_p(T, T.memind[m])
  BY WFParts
<1>1. \A i \in 1 .. T.z - 1 : T.mem[ByteAddress(T, i)] \in Chars
  BY DEF WF
<1>2. Content(T) \in [1 .. T.z - 1 -> Chars]
  BY <1>1 DEF Content
<1>3. \A i \in 1 .. T.z - 1 : Content(T)[i] = T.mem[ByteAddress(T, i)]
  BY DEF Content
<1>4. \A i \in 1 .. T.z - 1 : /\ i < T.gpt => ByteAddress(T, i) = i
                              /\ i >= T.gpt => ByteAddress(T, i) = i + T.gap
  BY <1>0 DEF ByteAddress
<1>5. ASSUME NEW m \in Marks
      PROVE  /\ Places(T)[m] \in 1 .. T.z
             /\ T.memind[m] = bytind_to_memind(T, Places(T)[m])
  <2>1. Places(T)[m] = memind_to_bytind(T, T.memind[m])
    BY DEF Places
  <2>2. T.memind[m] \in Int /\ valid_memind_p(T, T.memind[m])
    BY <1>0
  <2> QED BY <2>1, <2>2, <1>0, SMTT(30) DEF memind_to_bytind, bytind_to_memind, valid_memind_p
<1>6. Places(T) \in [Marks -> Int]
  <2>1. Places(T) = [m \in Marks |-> Places(T)[m]]
    BY DEF Places
  <2>2. \A m \in Marks : Places(T)[m] \in Int
    BY <1>5
  <2> QED BY <2>1, <2>2
<1>7. T = [mem |-> T.mem, gpt |-> T.gpt, gap |-> T.gap, endGap |-> T.endGap,
           z |-> T.z, memind |-> T.memind]
  BY DEF WF, TextOK
<1>8. T.z - 1 \in Nat /\ T.z = (T.z - 1) + 1
  BY <1>0
<1> QED BY <1>0, <1>2, <1>3, <1>4, <1>5, <1>6, <1>7, <1>8 DEF Represents

(* A sentinel changes one byte.                                            *)
LEMMA SetSentinelMem ==
  ASSUME NEW D, NEW mem \in [D -> Bytes], NEW at,
         SentinelSize = 1 => at \in D
  PROVE  /\ SetSentinel(mem, at) \in [D -> Bytes]
         /\ \A i \in D : i # at \/ SentinelSize = 0 => SetSentinel(mem, at)[i] = mem[i]
BY Constants DEF SetSentinel, Bytes

(* A memory index is an integer.                                           *)
LEMMA MemindInt ==
  ASSUME NEW R, R.gap \in Nat, NEW x \in Int
  PROVE  bytind_to_memind(R, x) \in Int
BY DEF bytind_to_memind

-----------------------------------------------------------------------------
(* Moving and growing the gap changes neither text nor markers.            *)

(* gap_left.                                                               *)
LEMMA GapLeftSame ==
  ASSUME NEW T, NEW n, NEW txt, NEW at, Represents(T, n, txt, at),
         NEW pos \in Nat, 1 <= pos, pos <= T.gpt
  PROVE  /\ Represents(GapLeft(T, pos), n, txt, at)
         /\ GapLeft(T, pos).gpt = pos
         /\ GapLeft(T, pos).gap = T.gap /\ GapLeft(T, pos).endGap = T.endGap
<1> DEFINE R == GapLeft(T, pos)
           D == 1 .. n + T.gap + T.endGap + SentinelSize
           moved == [i \in D |-> IF i \in pos .. pos + T.gap - 1 THEN Junk
                                 ELSE IF i \in pos + T.gap .. T.gpt + T.gap - 1 THEN T.mem[i - T.gap]
                                 ELSE T.mem[i]]
<1>1. /\ n \in Nat /\ T.z = n + 1 /\ T.gap \in Nat /\ T.endGap \in Nat
      /\ T.gpt \in Nat /\ 1 <= T.gpt /\ T.gpt <= T.z /\ T.gap >= SentinelSize
      /\ SentinelSize \in {0, 1}
  BY Constants DEF Represents
<1>2. /\ \A i \in D : T.mem[i] \in Bytes
      /\ DOMAIN T.mem = D /\ Junk \in Bytes
  BY DEF Represents, Bytes
<1>3. /\ R = [mem |-> R.mem, gpt |-> R.gpt, gap |-> R.gap, endGap |-> R.endGap, z |-> R.z,
              memind |-> R.memind]
      /\ R.gpt = pos /\ R.gap = T.gap /\ R.endGap = T.endGap /\ R.z = T.z
      /\ R.memind = adjust_markers(T, pos, T.gpt, T.gap)
      /\ R.mem = SetSentinel(moved, pos)
  BY <1>2 DEF GapLeft
<1> HIDE DEF R
<1>4. \A i \in D : moved[i] \in Bytes
  <2> TAKE i \in D
  <2>1. i \in pos + T.gap .. T.gpt + T.gap - 1 => i - T.gap \in D
    BY <1>1
  <2> QED BY <1>2, <2>1
<1>5. \A i \in 1 .. n : i < pos => i \in D /\ moved[i] = T.mem[i]
  BY <1>1
<1>6. \A i \in 1 .. n : i >= pos =>
        /\ i + T.gap \in D /\ (i + T.gap # pos \/ SentinelSize = 0)
        /\ moved[i + T.gap] = IF i < T.gpt THEN T.mem[i] ELSE T.mem[i + T.gap]
  <2> SUFFICES ASSUME NEW i \in 1 .. n, i >= pos
               PROVE /\ i + T.gap \in D /\ (i + T.gap # pos \/ SentinelSize = 0)
                     /\ moved[i + T.gap] = IF i < T.gpt THEN T.mem[i] ELSE T.mem[i + T.gap]
    OBVIOUS
  <2>1. /\ i + T.gap \in D /\ (i + T.gap # pos \/ SentinelSize = 0)
        /\ ~(i + T.gap \in pos .. pos + T.gap - 1)
        /\ (i < T.gpt <=> i + T.gap \in pos + T.gap .. T.gpt + T.gap - 1)
        /\ (i + T.gap) - T.gap = i
    BY <1>1
  <2> QED BY <2>1
<1>7. moved \in [D -> Bytes]
  BY <1>4
<1>8. SentinelSize = 1 => pos \in D
  BY <1>1
<1>9. D = 1 .. n + R.gap + R.endGap + SentinelSize
  BY <1>3
<1> HIDE DEF moved, D
<1>10. /\ R.mem \in [D -> Bytes]
       /\ \A i \in D : i # pos \/ SentinelSize = 0 => R.mem[i] = moved[i]
  BY <1>3, <1>7, <1>8, SetSentinelMem
<1>11. \A i \in 1 .. n : i < pos => R.mem[i] = txt[i]
  <2>1. \A i \in 1 .. n : i < pos => i # pos
    OBVIOUS
  <2> QED BY <2>1, <1>1, <1>5, <1>10, SMTT(30) DEF Represents
<1>12. \A i \in 1 .. n : i >= pos => R.mem[i + T.gap] = txt[i]
  BY <1>1, <1>6, <1>10, SMTT(30) DEF Represents
<1>13. \A m \in Marks : at[m] \in 1 .. T.z /\ R.memind[m] = bytind_to_memind(R, at[m])
  <2> TAKE m \in Marks
  <2>1. R.memind[m] = do_marker_adjustment(T.memind[m], pos, T.gpt, T.gap)
    BY <1>3 DEF adjust_markers
  <2>2. at[m] \in 1 .. T.z /\ T.memind[m] = bytind_to_memind(T, at[m])
    BY DEF Represents
  <2> QED BY <2>1, <2>2, <1>1, <1>3 DEF do_marker_adjustment, bytind_to_memind
<1>14. R.memind \in [Marks -> Int]
  <2>1. \A m \in Marks : R.memind[m] \in Int
    BY <1>1, <1>3, <1>13 DEF bytind_to_memind
  <2>2. R.memind = [m \in Marks |-> R.memind[m]]
    BY <1>3 DEF adjust_markers
  <2> QED BY <2>1, <2>2
<1>15. txt \in [1 .. n -> Chars] /\ at \in [Marks -> Int]
  BY DEF Represents
<1>16. Represents(R, n, txt, at)
  BY <1>1, <1>3, <1>9, <1>10, <1>11, <1>12, <1>13, <1>14, <1>15 DEF Represents
<1> QED BY <1>3, <1>16 DEF R

(* gap_right.                                                              *)
LEMMA GapRightSame ==
  ASSUME NEW T, NEW n, NEW txt, NEW at, Represents(T, n, txt, at),
         NEW pos \in Nat, T.gpt <= pos, pos <= T.z
  PROVE  /\ Represents(GapRight(T, pos), n, txt, at)
         /\ GapRight(T, pos).gpt = pos
<1> DEFINE R == GapRight(T, pos)
           D == 1 .. n + T.gap + T.endGap + SentinelSize
           moved == [i \in D |-> IF i \in pos .. pos + T.gap - 1 THEN Junk
                                 ELSE IF i \in T.gpt .. pos - 1 THEN T.mem[i + T.gap]
                                 ELSE T.mem[i]]
           end == T.z + T.gap + T.endGap
<1>1. /\ n \in Nat /\ T.z = n + 1 /\ T.gap \in Nat /\ T.endGap \in Nat
      /\ T.gpt \in Nat /\ 1 <= T.gpt /\ T.gpt <= T.z /\ T.gap >= SentinelSize
      /\ SentinelSize \in {0, 1}
  BY Constants DEF Represents
<1>2. /\ \A i \in D : T.mem[i] \in Bytes
      /\ DOMAIN T.mem = D /\ Junk \in Bytes
  BY DEF Represents, Bytes
<1>3. /\ R = [mem |-> R.mem, gpt |-> R.gpt, gap |-> R.gap, endGap |-> R.endGap, z |-> R.z,
              memind |-> R.memind]
      /\ R.gpt = pos /\ R.z = T.z
      /\ R.gap = IF pos = T.z THEN T.gap + T.endGap ELSE T.gap
      /\ R.endGap = IF pos = T.z THEN 0 ELSE T.endGap
      /\ R.memind = adjust_markers(T, T.gpt + T.gap, pos + T.gap, - T.gap)
      /\ R.mem = IF pos = T.z THEN SetSentinel(SetSentinel(moved, pos), end)
                 ELSE SetSentinel(moved, pos)
  BY <1>2 DEF GapRight, Slide
<1> HIDE DEF R
<1>4. \A i \in D : moved[i] \in Bytes
  <2> TAKE i \in D
  <2>1. i \in T.gpt .. pos - 1 => i + T.gap \in D
    BY <1>1
  <2> QED BY <1>2, <2>1
<1>5. \A i \in 1 .. n : i < pos =>
        /\ i \in D /\ i # pos /\ i # end
        /\ moved[i] = IF i < T.gpt THEN T.mem[i] ELSE T.mem[i + T.gap]
  <2> SUFFICES ASSUME NEW i \in 1 .. n, i < pos
               PROVE /\ i \in D /\ i # pos /\ i # end
                     /\ moved[i] = IF i < T.gpt THEN T.mem[i] ELSE T.mem[i + T.gap]
    OBVIOUS
  <2>1. /\ i \in D /\ i # pos /\ i # end
        /\ ~(i \in pos .. pos + T.gap - 1)
        /\ (i < T.gpt <=> ~(i \in T.gpt .. pos - 1))
    BY <1>1
  <2> QED BY <2>1
<1>6. \A i \in 1 .. n : i >= pos =>
        /\ pos # T.z
        /\ i + T.gap \in D /\ (i + T.gap # pos \/ SentinelSize = 0)
        /\ moved[i + T.gap] = T.mem[i + T.gap]
  <2> SUFFICES ASSUME NEW i \in 1 .. n, i >= pos
               PROVE /\ pos # T.z
                     /\ i + T.gap \in D /\ (i + T.gap # pos \/ SentinelSize = 0)
                     /\ moved[i + T.gap] = T.mem[i + T.gap]
    OBVIOUS
  <2>1. /\ i + T.gap \in D /\ (i + T.gap # pos \/ SentinelSize = 0)
        /\ ~(i + T.gap \in pos .. pos + T.gap - 1)
        /\ ~(i + T.gap \in T.gpt .. pos - 1)
        /\ pos # T.z
    BY <1>1
  <2> QED BY <2>1
<1>7. moved \in [D -> Bytes]
  BY <1>4
<1>8. SentinelSize = 1 => pos \in D /\ end \in D
  BY <1>1
<1>9. /\ n + R.gap + R.endGap + SentinelSize = n + T.gap + T.endGap + SentinelSize
      /\ R.gap \in Nat /\ R.endGap \in Nat /\ R.gap >= SentinelSize
  BY <1>1, <1>3, SMTT(30)
<1>10. D = 1 .. n + R.gap + R.endGap + SentinelSize
  BY <1>9
<1> HIDE DEF moved, D, end
<1>11. /\ R.mem \in [D -> Bytes]
       /\ \A i \in D : (i # pos \/ SentinelSize = 0) /\ (i # end \/ pos # T.z) => R.mem[i] = moved[i]
  <2>1. /\ SetSentinel(moved, pos) \in [D -> Bytes]
        /\ \A i \in D : i # pos \/ SentinelSize = 0 => SetSentinel(moved, pos)[i] = moved[i]
    BY <1>7, <1>8, SetSentinelMem
  <2>2. /\ SetSentinel(SetSentinel(moved, pos), end) \in [D -> Bytes]
        /\ \A i \in D : i # end \/ SentinelSize = 0 =>
             SetSentinel(SetSentinel(moved, pos), end)[i] = SetSentinel(moved, pos)[i]
    BY <2>1, <1>8, SetSentinelMem
  <2> QED BY <1>3, <2>1, <2>2
<1>12. \A i \in 1 .. n : i < pos => R.mem[i] = txt[i]
  <2> SUFFICES ASSUME NEW i \in 1 .. n, i < pos PROVE R.mem[i] = txt[i]
    OBVIOUS
  <2>1. txt[i] = IF i < T.gpt THEN T.mem[i] ELSE T.mem[i + T.gap]
    BY <1>1 DEF Represents
  <2>2. R.mem[i] = moved[i]
    BY <1>5, <1>11
  <2> QED BY <2>1, <2>2, <1>5
<1>13. \A i \in 1 .. n : i >= pos => R.mem[i + R.gap] = txt[i]
  BY <1>1, <1>3, <1>6, <1>11, SMTT(30) DEF Represents
<1>14. \A m \in Marks : at[m] \in 1 .. T.z /\ R.memind[m] = bytind_to_memind(R, at[m])
  <2> TAKE m \in Marks
  <2>1. R.memind[m] = do_marker_adjustment(T.memind[m], T.gpt + T.gap, pos + T.gap, - T.gap)
    BY <1>3 DEF adjust_markers
  <2>2. at[m] \in 1 .. T.z /\ T.memind[m] = bytind_to_memind(T, at[m])
    BY DEF Represents
  <2> QED BY <2>1, <2>2, <1>1, <1>3 DEF do_marker_adjustment, bytind_to_memind
<1>15. R.memind \in [Marks -> Int]
  <2>1. \A m \in Marks : R.memind[m] \in Int
    BY <1>1, <1>3, <1>9, <1>14 DEF bytind_to_memind
  <2>2. R.memind = [m \in Marks |-> R.memind[m]]
    BY <1>3 DEF adjust_markers
  <2> QED BY <2>1, <2>2
<1>16. txt \in [1 .. n -> Chars] /\ at \in [Marks -> Int]
  BY DEF Represents
<1>17. Represents(R, n, txt, at)
  BY <1>1, <1>3, <1>9, <1>10, <1>11, <1>12, <1>13, <1>14, <1>15, <1>16 DEF Represents
<1> QED BY <1>3, <1>17 DEF R

(* move_gap.                                                               *)
LEMMA MoveGapSame ==
  ASSUME NEW T, NEW n, NEW txt, NEW at, Represents(T, n, txt, at),
         NEW pos \in Nat, 1 <= pos, pos <= T.z
  PROVE  Represents(move_gap(T, pos), n, txt, at) /\ move_gap(T, pos).gpt = pos
<1>1. T.gpt \in Nat /\ T.z \in Nat
  BY DEF Represents
<1>2. CASE pos < T.gpt
  BY <1>1, <1>2, GapLeftSame DEF move_gap
<1>3. CASE pos > T.gpt
  BY <1>1, <1>3, GapRightSame DEF move_gap
<1>4. CASE pos = T.gpt
  BY <1>1, <1>4 DEF move_gap
<1> QED BY <1>1, <1>2, <1>3, <1>4

\* MEM holds the bytes of T and INC more.
Extends(mem, T, n, inc) ==
  /\ mem \in [1 .. n + T.gap + inc + SentinelSize -> Bytes]
  /\ \A i \in 1 .. n + T.gap : mem[i] = T.mem[i]

(* The common end of merge_gap_with_end_gap and make_gap.                  *)
LEMMA ExtendGapSame ==
  ASSUME NEW T, NEW n, NEW txt, NEW at, Represents(T, n, txt, at),
         NEW inc \in Nat, inc > 0, NEW mem, Extends(mem, T, n, inc)
  PROVE  /\ Represents(ExtendGap(T, mem, inc), n, txt, at)
         /\ ExtendGap(T, mem, inc).gpt = T.gpt
         /\ ExtendGap(T, mem, inc).gap = T.gap + inc
<1> DEFINE R == ExtendGap(T, mem, inc)
           D == 1 .. n + T.gap + inc + SentinelSize
           lo == T.gpt + T.gap
           moved == [i \in D |-> IF i \in lo .. lo + inc - 1 THEN Junk
                                 ELSE IF i \in lo + inc .. T.z + T.gap + inc - 1 THEN mem[i - inc]
                                 ELSE mem[i]]
           left == SetSentinel(moved, lo)
           joined == [i \in D |-> IF i \in T.gpt .. T.gpt + T.gap + inc - 1 THEN Junk ELSE left[i]]
           end == T.z + T.gap + inc
<1>1. /\ n \in Nat /\ T.z = n + 1 /\ T.gap \in Nat /\ T.endGap \in Nat
      /\ T.gpt \in Nat /\ 1 <= T.gpt /\ T.gpt <= T.z /\ T.gap >= SentinelSize
      /\ SentinelSize \in {0, 1}
  BY Constants DEF Represents
<1>2. /\ \A i \in D : mem[i] \in Bytes
      /\ DOMAIN mem = D /\ Junk \in Bytes
  BY DEF Bytes, Extends
<1>3. \A i \in D : moved[i] \in Bytes
  <2> TAKE i \in D
  <2>1. i \in lo + inc .. T.z + T.gap + inc - 1 => i - inc \in D
    BY <1>1
  <2> QED BY <1>2, <2>1
<1>4. moved \in [D -> Bytes]
  BY <1>3
<1>5. SentinelSize = 1 => lo \in D /\ T.gpt \in D /\ end \in D
  BY <1>1
<1>6. /\ left \in [D -> Bytes]
      /\ \A i \in D : i # lo \/ SentinelSize = 0 => left[i] = moved[i]
  <2> HIDE DEF moved, D, lo
  <2> QED BY <1>4, <1>5, SetSentinelMem
<1>7. /\ R = [mem |-> R.mem, gpt |-> R.gpt, gap |-> R.gap, endGap |-> R.endGap, z |-> R.z,
              memind |-> R.memind]
      /\ R.gpt = T.gpt /\ R.gap = T.gap + inc /\ R.endGap = 0 /\ R.z = T.z
  BY DEF ExtendGap
<1>8. R.mem = SetSentinel(SetSentinel(joined, T.gpt), end)
  <2>1. DOMAIN left = D
    BY <1>6
  <2> QED BY <1>2, <2>1 DEF ExtendGap, GapLeft, Forget
<1>9. \A m \in Marks : R.memind[m] = do_marker_adjustment(T.memind[m], lo, T.z + T.gap, inc)
  BY DEF ExtendGap, GapLeft, adjust_markers
<1>10. R.memind = [m \in Marks |-> R.memind[m]]
  BY DEF ExtendGap, GapLeft, adjust_markers
<1> HIDE DEF R, left
<1>11. joined \in [D -> Bytes]
  BY <1>2, <1>6
<1>12. \A i \in 1 .. n : i < T.gpt =>
        /\ i \in D /\ i # T.gpt /\ i # end /\ joined[i] = T.mem[i]
  <2> SUFFICES ASSUME NEW i \in 1 .. n, i < T.gpt
               PROVE  i \in D /\ i # T.gpt /\ i # end /\ joined[i] = T.mem[i]
    OBVIOUS
  <2>1. /\ i \in D /\ i # T.gpt /\ i # end /\ i # lo /\ i \in 1 .. n + T.gap
        /\ ~(i \in lo .. lo + inc - 1) /\ ~(i \in lo + inc .. T.z + T.gap + inc - 1)
        /\ ~(i \in T.gpt .. T.gpt + T.gap + inc - 1)
    BY <1>1
  <2>2. moved[i] = mem[i] /\ mem[i] = T.mem[i]
    BY <2>1 DEF Extends
  <2>3. joined[i] = left[i]
    BY <2>1
  <2> HIDE DEF moved, joined, D, lo, end
  <2> QED BY <2>1, <2>2, <2>3, <1>6
<1>13. \A i \in 1 .. n : i >= T.gpt =>
        /\ i + T.gap + inc \in D /\ i + T.gap + inc # end
        /\ (i + T.gap + inc # T.gpt \/ SentinelSize = 0)
        /\ joined[i + T.gap + inc] = T.mem[i + T.gap]
  <2> SUFFICES ASSUME NEW i \in 1 .. n, i >= T.gpt
               PROVE  /\ i + T.gap + inc \in D /\ i + T.gap + inc # end
                      /\ (i + T.gap + inc # T.gpt \/ SentinelSize = 0)
                      /\ joined[i + T.gap + inc] = T.mem[i + T.gap]
    OBVIOUS
  <2> DEFINE j == i + T.gap + inc
  <2>1. /\ j \in D /\ j # end /\ (j # T.gpt \/ SentinelSize = 0)
        /\ i + T.gap \in 1 .. n + T.gap
        /\ ~(j \in lo .. lo + inc - 1) /\ j \in lo + inc .. T.z + T.gap + inc - 1
        /\ ~(j \in T.gpt .. T.gpt + T.gap + inc - 1)
        /\ j - inc = i + T.gap
    BY <1>1
  <2>2. j # lo
    BY <1>1
  <2>3. moved[j] = mem[i + T.gap] /\ mem[i + T.gap] = T.mem[i + T.gap]
    BY <2>1 DEF Extends
  <2>4. joined[j] = left[j]
    BY <2>1
  <2>5. left[j] = moved[j]
    BY <2>1, <1>6, <2>2
  <2> QED BY <2>1, <2>3, <2>4, <2>5
<1>14. /\ D = 1 .. n + R.gap + R.endGap + SentinelSize
       /\ R.gap \in Nat /\ R.endGap \in Nat /\ R.gap >= SentinelSize
  BY <1>1, <1>7
<1> HIDE DEF joined, moved, D, end, lo
<1>15. /\ R.mem \in [D -> Bytes]
       /\ \A i \in D : (i # T.gpt \/ SentinelSize = 0) /\ i # end => R.mem[i] = joined[i]
  <2>1. /\ SetSentinel(joined, T.gpt) \in [D -> Bytes]
        /\ \A i \in D : i # T.gpt \/ SentinelSize = 0 => SetSentinel(joined, T.gpt)[i] = joined[i]
    BY <1>5, <1>11, SetSentinelMem
  <2>2. /\ SetSentinel(SetSentinel(joined, T.gpt), end) \in [D -> Bytes]
        /\ \A i \in D : i # end \/ SentinelSize = 0 =>
             SetSentinel(SetSentinel(joined, T.gpt), end)[i] = SetSentinel(joined, T.gpt)[i]
    BY <2>1, <1>5, SetSentinelMem
  <2> QED BY <1>8, <2>1, <2>2
<1>16. \A i \in 1 .. n : i < R.gpt => R.mem[i] = txt[i]
  BY <1>7, <1>12, <1>15 DEF Represents
<1>17. \A i \in 1 .. n : i >= R.gpt => R.mem[i + R.gap] = txt[i]
  <2> SUFFICES ASSUME NEW i \in 1 .. n, i >= R.gpt PROVE R.mem[i + R.gap] = txt[i]
    OBVIOUS
  <2>1. i + R.gap = i + T.gap + inc
    BY <1>1, <1>7
  <2> QED BY <2>1, <1>7, <1>13, <1>15 DEF Represents
<1>18. \A m \in Marks : at[m] \in 1 .. R.z /\ R.memind[m] = bytind_to_memind(R, at[m])
  <2> TAKE m \in Marks
  <2>1. R.memind[m] = do_marker_adjustment(T.memind[m], T.gpt + T.gap, T.z + T.gap, inc)
    BY <1>9 DEF lo
  <2>2. at[m] \in 1 .. T.z /\ T.memind[m] = bytind_to_memind(T, at[m])
    BY DEF Represents
  <2> QED BY <2>1, <2>2, <1>1, <1>7 DEF do_marker_adjustment, bytind_to_memind
<1>19. R.memind \in [Marks -> Int]
  <2>1. \A m \in Marks : R.memind[m] \in Int
    <3> TAKE m \in Marks
    <3>1. at[m] \in Int /\ R.gap \in Nat /\ R.memind[m] = bytind_to_memind(R, at[m])
      BY <1>14, <1>18 DEF Represents
    <3> QED BY <3>1, MemindInt
  <2> QED BY <2>1, <1>10
<1>20. txt \in [1 .. n -> Chars] /\ at \in [Marks -> Int]
  BY DEF Represents
<1>21. Represents(R, n, txt, at)
  BY <1>1, <1>7, <1>14, <1>15, <1>16, <1>17, <1>18, <1>19, <1>20 DEF Represents
<1> QED BY <1>7, <1>21 DEF R

(* Enough room is made for LEN bytes and the sentinel.                     *)
LEMMA MakeRoomSame ==
  ASSUME NEW T, NEW n, NEW txt, NEW at, Represents(T, n, txt, at), NEW len \in Nat
  PROVE  /\ Represents(MakeRoom(T, len), n, txt, at)
         /\ MakeRoom(T, len).gpt = T.gpt
         /\ GAP_CAN_HOLD_SIZE_P(MakeRoom(T, len), len)
<1>1. /\ n \in Nat /\ T.z = n + 1 /\ T.gap \in Nat /\ T.endGap \in Nat
      /\ T.gap >= SentinelSize /\ SentinelSize \in {0, 1} /\ GapSlack \in Nat /\ GapSlack > 0
  BY Constants DEF Represents
<1>2. CASE GAP_CAN_HOLD_SIZE_P(T, len)
  BY <1>2 DEF MakeRoom
<1>3. ASSUME T.endGap > 0
      PROVE  Extends(T.mem, T, n, T.endGap)
  BY <1>1 DEF Extends, Represents
<1>4. CASE ~GAP_CAN_HOLD_SIZE_P(T, len) /\ T.endGap >= len
  <2>1. T.endGap > 0
    BY <1>1, <1>4 DEF GAP_CAN_HOLD_SIZE_P
  <2>2. MakeRoom(T, len) = ExtendGap(T, T.mem, T.endGap)
    BY <1>4, <2>1 DEF MakeRoom, merge_gap_with_end_gap
  <2>3. /\ Represents(MakeRoom(T, len), n, txt, at) /\ MakeRoom(T, len).gpt = T.gpt
        /\ MakeRoom(T, len).gap = T.gap + T.endGap
    BY <1>1, <1>3, <2>1, <2>2, ExtendGapSame
  <2> QED BY <1>1, <1>4, <2>3 DEF GAP_CAN_HOLD_SIZE_P
<1>5. CASE ~GAP_CAN_HOLD_SIZE_P(T, len) /\ T.endGap < len
  <2> DEFINE inc == Increment(T, len - T.gap)
             realloc == [i \in 1 .. T.z - 1 + T.gap + inc + SentinelSize |->
                           IF i <= T.z - 1 + T.gap THEN T.mem[i] ELSE Junk]
  <2>1. n \div 8 \in Nat
    BY <1>1
  <2>2. inc = len - T.gap + GapSlack + (n \div 8)
    BY <1>1 DEF Increment
  <2>3. inc \in Nat /\ inc > 0 /\ T.gap + inc >= len + SentinelSize
    BY <1>1, <1>5, <2>1, <2>2 DEF GAP_CAN_HOLD_SIZE_P
  <2>4. MakeRoom(T, len) = IF inc > T.endGap THEN ExtendGap(T, realloc, inc)
                           ELSE ExtendGap(T, T.mem, T.endGap)
    BY <1>1, <1>5 DEF MakeRoom, make_gap
  <2> HIDE DEF inc
  <2>5. Extends(realloc, T, n, inc)
    <3>1. T.z - 1 = n
      BY <1>1
    <3>2. \A i \in 1 .. n + T.gap : i \in 1 .. n + T.gap + inc + SentinelSize /\ i <= n + T.gap
      BY <1>1, <2>3
    <3>3. /\ \A i \in 1 .. n + T.gap : T.mem[i] \in Bytes
          /\ Junk \in Bytes
      BY <1>1 DEF Represents, Bytes
    <3>4. \A i \in 1 .. n + T.gap + inc + SentinelSize : i <= n + T.gap => i \in 1 .. n + T.gap
      BY <1>1, <2>3
    <3>5. realloc \in [1 .. n + T.gap + inc + SentinelSize -> Bytes]
      BY <3>1, <3>3, <3>4
    <3>6. \A i \in 1 .. n + T.gap : realloc[i] = T.mem[i]
      BY <3>1, <3>2
    <3> QED BY <3>5, <3>6 DEF Extends
  <2> HIDE DEF realloc
  <2>6. CASE inc > T.endGap
    <3>1. /\ Represents(MakeRoom(T, len), n, txt, at) /\ MakeRoom(T, len).gpt = T.gpt
          /\ MakeRoom(T, len).gap = T.gap + inc
      BY <2>3, <2>4, <2>5, <2>6, ExtendGapSame
    <3> QED BY <1>1, <2>3, <3>1 DEF GAP_CAN_HOLD_SIZE_P
  <2>7. CASE ~(inc > T.endGap)
    <3>1. T.endGap > 0 /\ T.gap + T.endGap >= len + SentinelSize
      BY <1>1, <2>3, <2>7
    <3>2. /\ Represents(MakeRoom(T, len), n, txt, at) /\ MakeRoom(T, len).gpt = T.gpt
          /\ MakeRoom(T, len).gap = T.gap + T.endGap
      BY <1>1, <1>3, <2>4, <2>7, <3>1, ExtendGapSame
    <3> QED BY <1>1, <3>1, <3>2 DEF GAP_CAN_HOLD_SIZE_P
  <2> QED BY <2>6, <2>7
<1> QED BY <1>1, <1>2, <1>4, <1>5

-----------------------------------------------------------------------------
(* What an insertion, a deletion, a replacement and a moved marker mean.   *)

\* The text with S inserted before character P, and the markers after that.
Inserted(txt, n, p, s) ==
  [i \in 1 .. n + Len(s) |-> IF i < p THEN txt[i]
                             ELSE IF i < p + Len(s) THEN s[i - p + 1]
                             ELSE txt[i - Len(s)]]
Pushed(at, p, len, ahead) ==
  [m \in Marks |-> IF at[m] > p \/ (at[m] = p /\ m \in ahead) THEN at[m] + len ELSE at[m]]

\* S is a string of characters.
IsString(s) == s \in Seq(Chars)

\* S is a string for which the gap is large enough.
Fits(T, s) == IsString(s) /\ GAP_CAN_HOLD_SIZE_P(T, Len(s))

(* What the proofs use of strings.                                         *)
LEMMA StringParts ==
  ASSUME NEW s, IsString(s)
  PROVE  Len(s) \in Nat /\ \A i \in 1 .. Len(s) : s[i] \in Chars
BY DEF IsString

(* The string goes into the gap and the markers behind it move along.      *)
LEMMA FillInserts ==
  ASSUME NEW T, NEW n, NEW txt, NEW at, Represents(T, n, txt, at),
         NEW s, Fits(T, s)
  PROVE  /\ Represents(Fill(T, s), n + Len(s), Inserted(txt, n, T.gpt, s),
                       Pushed(at, T.gpt, Len(s), advancing))
         /\ Fill(T, s).gpt = T.gpt + Len(s)
<1> DEFINE R == Fill(T, s)
           len == Len(s)
           p == T.gpt
           D == 1 .. n + T.gap + T.endGap + SentinelSize
           filled == [i \in D |-> IF i \in p .. p + len - 1 THEN s[i - p + 1] ELSE T.mem[i]]
           txt2 == Inserted(txt, n, p, s)
           at2 == Pushed(at, p, len, advancing)
<1>1. /\ n \in Nat /\ T.z = n + 1 /\ T.gap \in Nat /\ T.endGap \in Nat
      /\ p \in Nat /\ 1 <= p /\ p <= T.z /\ T.gap >= len + SentinelSize
      /\ SentinelSize \in {0, 1} /\ len \in Nat
  BY Constants, StringParts DEF Represents, GAP_CAN_HOLD_SIZE_P, Fits
<1>2. /\ \A i \in D : T.mem[i] \in Bytes
      /\ DOMAIN T.mem = D
      /\ \A i \in 1 .. len : s[i] \in Chars
  BY StringParts DEF Represents, Fits
<1>3. /\ R = [mem |-> R.mem, gpt |-> R.gpt, gap |-> R.gap, endGap |-> R.endGap, z |-> R.z,
              memind |-> R.memind]
      /\ R.gpt = p + len /\ R.z = T.z + len
      /\ R.gap = T.gap - len /\ R.endGap = T.endGap
  BY DEF Fill
<1>4. /\ R.memind = [m \in Marks |-> IF m \in advancing /\ T.memind[m] = p
                                     THEN p + len ELSE T.memind[m]]
      /\ R.mem = SetSentinel(filled, p + len)
  BY <1>2 DEF Fill
<1> HIDE DEF R, len
<1>5. filled \in [D -> Bytes]
  <2> SUFFICES \A i \in D : filled[i] \in Bytes
    OBVIOUS
  <2> TAKE i \in D
  <2>1. i \in p .. p + len - 1 => i - p + 1 \in 1 .. len
    BY <1>1
  <2> QED BY <1>2, <2>1 DEF Bytes
<1>6. \A i \in 1 .. n + len : i < p + len =>
        /\ i \in D /\ i # p + len
        /\ filled[i] = IF i < p THEN T.mem[i] ELSE s[i - p + 1]
  <2> SUFFICES ASSUME NEW i \in 1 .. n + len, i < p + len
               PROVE  /\ i \in D /\ i # p + len
                      /\ filled[i] = IF i < p THEN T.mem[i] ELSE s[i - p + 1]
    OBVIOUS
  <2>1. i \in D /\ i # p + len /\ (i < p <=> ~(i \in p .. p + len - 1))
    BY <1>1
  <2> QED BY <2>1
<1>7. \A i \in 1 .. n + len : i >= p + len =>
        /\ i + R.gap \in D /\ (i + R.gap # p + len \/ SentinelSize = 0)
        /\ filled[i + R.gap] = T.mem[(i - len) + T.gap]
  <2> SUFFICES ASSUME NEW i \in 1 .. n + len, i >= p + len
               PROVE  /\ i + R.gap \in D /\ (i + R.gap # p + len \/ SentinelSize = 0)
                      /\ filled[i + R.gap] = T.mem[(i - len) + T.gap]
    OBVIOUS
  <2>1. /\ i + R.gap \in D /\ (i + R.gap # p + len \/ SentinelSize = 0)
        /\ ~(i + R.gap \in p .. p + len - 1)
        /\ i + R.gap = (i - len) + T.gap
    BY <1>1, <1>3
  <2> QED BY <2>1
<1>8. SentinelSize = 1 => p + len \in D
  BY <1>1
<1>9. (n + len) + R.gap + R.endGap + SentinelSize = n + T.gap + T.endGap + SentinelSize
  BY <1>1, <1>3
<1>10. D = 1 .. (n + len) + R.gap + R.endGap + SentinelSize
  BY <1>9
<1>11. /\ R.gap \in Nat /\ R.endGap \in Nat /\ R.gap >= SentinelSize
      /\ n + len \in Nat /\ R.z = (n + len) + 1 /\ R.gpt \in Nat /\ 1 <= R.gpt /\ R.gpt <= R.z
  BY <1>1, <1>3
<1> HIDE DEF filled, D
<1>12. /\ R.mem \in [D -> Bytes]
      /\ \A i \in D : i # p + len \/ SentinelSize = 0 => R.mem[i] = filled[i]
  BY <1>4, <1>5, <1>8, SetSentinelMem
<1>13. \A i \in 1 .. n + len : txt2[i] = IF i < p THEN txt[i]
                                         ELSE IF i < p + len THEN s[i - p + 1]
                                         ELSE txt[i - len]
  BY DEF Inserted, len
<1>14. txt2 \in [1 .. n + len -> Chars]
  <2>1. ASSUME NEW i \in 1 .. n + len PROVE txt2[i] \in Chars
    <3>1. /\ i < p => i \in 1 .. n
          /\ ~(i < p) /\ i < p + len => i - p + 1 \in 1 .. len
          /\ ~(i < p + len) => i - len \in 1 .. n
      BY <1>1
    <3>2. \A j \in 1 .. n : txt[j] \in Chars
      BY DEF Represents
    <3> QED BY <1>2, <1>13, <3>1, <3>2
  <2>2. txt2 = [i \in 1 .. n + len |-> txt2[i]]
    BY DEF Inserted, len
  <2> QED BY <2>1, <2>2
<1> HIDE DEF txt2
<1>15. \A i \in 1 .. n + len : i < R.gpt => R.mem[i] = txt2[i]
  <2> SUFFICES ASSUME NEW i \in 1 .. n + len, i < p + len PROVE R.mem[i] = txt2[i]
    BY <1>3
  <2>1. i < p => i \in 1 .. n /\ T.mem[i] = txt[i]
    BY <1>1 DEF Represents
  <2> QED BY <1>6, <1>12, <1>13, <2>1
<1>16. \A i \in 1 .. n + len : i >= R.gpt => R.mem[i + R.gap] = txt2[i]
  <2> SUFFICES ASSUME NEW i \in 1 .. n + len, i >= p + len PROVE R.mem[i + R.gap] = txt2[i]
    BY <1>3
  <2>1. i - len \in 1 .. n /\ i - len >= p /\ ~(i < p) /\ ~(i < p + len)
    BY <1>1
  <2>2. T.mem[(i - len) + T.gap] = txt[i - len]
    BY <2>1 DEF Represents
  <2> QED BY <1>7, <1>12, <1>13, <2>1, <2>2
<1>17. \A m \in Marks : at2[m] \in 1 .. R.z /\ R.memind[m] = bytind_to_memind(R, at2[m])
  <2> TAKE m \in Marks
  <2>1. R.memind[m] = IF m \in advancing /\ T.memind[m] = p THEN p + len ELSE T.memind[m]
    BY <1>4
  <2>2. at[m] \in 1 .. T.z /\ T.memind[m] = bytind_to_memind(T, at[m])
    BY DEF Represents
  <2>3. at2[m] = IF at[m] > p \/ (at[m] = p /\ m \in advancing) THEN at[m] + len ELSE at[m]
    BY DEF Pushed
  <2> HIDE DEF at2
  <2>4. CASE m \in advancing
    <3>1. R.memind[m] = IF T.memind[m] = p THEN p + len ELSE T.memind[m]
      BY <2>1, <2>4
    <3>2. at2[m] = IF at[m] >= p THEN at[m] + len ELSE at[m]
      BY <2>2, <2>3, <2>4, <1>1
    <3>3. T.memind[m] = IF at[m] > p THEN at[m] + T.gap ELSE at[m]
      BY <2>2 DEF bytind_to_memind
    <3>4. at2[m] \in 1 .. R.z
      BY <3>2, <2>2, <1>1, <1>3
    <3>5. bytind_to_memind(R, at2[m]) = IF at2[m] > p + len THEN at2[m] + (T.gap - len) ELSE at2[m]
      BY <1>3 DEF bytind_to_memind
    <3>6. CASE at[m] > p
      BY <3>1, <3>2, <3>3, <3>4, <3>5, <3>6, <2>2, <1>1
    <3>7. CASE at[m] <= p
      BY <3>1, <3>2, <3>3, <3>4, <3>5, <3>7, <2>2, <1>1
    <3> QED BY <3>6, <3>7, <2>2, <1>1
  <2>5. CASE m \notin advancing
    BY <2>1, <2>2, <2>3, <2>5, <1>1, <1>3 DEF bytind_to_memind
  <2> QED BY <2>4, <2>5
<1>18. at2 = [m \in Marks |-> at2[m]] /\ R.memind = [m \in Marks |-> R.memind[m]]
  BY <1>4 DEF Pushed
<1> HIDE DEF at2
<1>19. at2 \in [Marks -> Int] /\ R.memind \in [Marks -> Int]
  <2>1. \A m \in Marks : at2[m] \in Int /\ R.memind[m] \in Int
    BY <1>11, <1>17 DEF bytind_to_memind
  <2> QED BY <2>1, <1>18
<1>20. Represents(R, n + len, txt2, at2)
  BY <1>3, <1>10, <1>11, <1>12, <1>14, <1>15, <1>16, <1>17, <1>19 DEF Represents
<1> QED BY <1>3, <1>20 DEF R, len, txt2, at2

\* The text without the characters from P up to Q, and the markers after that.
Deleted(txt, n, p, q) ==
  [i \in 1 .. n - (q - p) |-> IF i < p THEN txt[i] ELSE txt[i + (q - p)]]
Collapsed(at, p, q) ==
  [m \in Marks |-> IF at[m] > q THEN at[m] - (q - p) ELSE IF at[m] > p THEN p ELSE at[m]]

(* Types of the result of a deletion.                                      *)
LEMMA DeletedType ==
  ASSUME NEW T, NEW n, NEW txt, NEW at, Represents(T, n, txt, at),
         NEW p \in Nat, NEW q \in Nat, 1 <= p, p <= q, q <= T.z
  PROVE  /\ Deleted(txt, n, p, q) \in [1 .. n - (q - p) -> Chars]
         /\ Collapsed(at, p, q) \in [Marks -> Int]
         /\ \A m \in Marks : Collapsed(at, p, q)[m] \in 1 .. T.z - (q - p)
<1>1. n \in Nat /\ T.z = n + 1
  BY DEF Represents
<1>2. ASSUME NEW i \in 1 .. n - (q - p)
      PROVE  (IF i < p THEN txt[i] ELSE txt[i + (q - p)]) \in Chars
  <2>1. (i < p => i \in 1 .. n) /\ i + (q - p) \in 1 .. n
    BY <1>1
  <2>2. \A j \in 1 .. n : txt[j] \in Chars
    BY DEF Represents
  <2> QED BY <2>1, <2>2
<1>3. ASSUME NEW m \in Marks
      PROVE  Collapsed(at, p, q)[m] \in 1 .. T.z - (q - p)
  <2>1. at[m] \in 1 .. T.z
    BY DEF Represents
  <2>2. Collapsed(at, p, q)[m] =
          IF at[m] > q THEN at[m] - (q - p) ELSE IF at[m] > p THEN p ELSE at[m]
    BY DEF Collapsed
  <2> QED BY <1>1, <2>1, <2>2
<1>4. \A m \in Marks : Collapsed(at, p, q)[m] \in Int
  BY <1>3
<1>5. Collapsed(at, p, q) = [m \in Marks |-> Collapsed(at, p, q)[m]]
  BY DEF Collapsed
<1>6. Deleted(txt, n, p, q) \in [1 .. n - (q - p) -> Chars]
  BY <1>2 DEF Deleted
<1> QED BY <1>3, <1>4, <1>5, <1>6

(* Deleting from the bottom without moving the gap.                        *)
LEMMA DeleteBottomDeletes ==
  ASSUME NEW T, NEW n, NEW txt, NEW at, Represents(T, n, txt, at),
         NEW p \in Nat, T.gpt < p, p <= T.z
  PROVE  Represents(DeleteBottom(T, p, T.z), n - (T.z - p), Deleted(txt, n, p, T.z),
                    Collapsed(at, p, T.z))
<1> DEFINE q == T.z
           k == q - p
           R == DeleteBottom(T, p, q)
           D == 1 .. n + T.gap + T.endGap + SentinelSize
           kept == [i \in D |-> IF i \in p + T.gap .. q + T.gap THEN Junk ELSE T.mem[i]]
           txt2 == Deleted(txt, n, p, q)
           at2 == Collapsed(at, p, q)
<1>1. /\ n \in Nat /\ T.z = n + 1 /\ T.gap \in Nat /\ T.endGap \in Nat
      /\ T.gpt \in Nat /\ 1 <= T.gpt /\ T.gpt <= T.z /\ T.gap >= SentinelSize
      /\ SentinelSize \in {0, 1}
  BY Constants DEF Represents
<1>2. /\ \A i \in D : T.mem[i] \in Bytes
      /\ DOMAIN T.mem = D /\ Junk \in Bytes
  BY DEF Represents, Bytes
<1>3. /\ R = [mem |-> R.mem, gpt |-> R.gpt, gap |-> R.gap, endGap |-> R.endGap, z |-> R.z,
              memind |-> R.memind]
      /\ R.gpt = T.gpt /\ R.gap = T.gap
      /\ R.endGap = T.endGap + k /\ R.z = T.z - k
  BY DEF DeleteBottom
<1>4. /\ R.mem = kept
      /\ R.memind = adjust_markers(T, q + T.gap, q + T.gap, - k)
  BY <1>2 DEF DeleteBottom, Forget
<1> HIDE DEF R
<1>5. R.mem \in [D -> Bytes]
  BY <1>2, <1>4
<1>6. (n - k) + R.gap + R.endGap + SentinelSize = n + T.gap + T.endGap + SentinelSize
  BY <1>1, <1>3
<1>7. D = 1 .. (n - k) + R.gap + R.endGap + SentinelSize
  BY <1>6
<1>8. /\ R.gap \in Nat /\ R.endGap \in Nat /\ R.gap >= SentinelSize
      /\ n - k \in Nat /\ R.z = (n - k) + 1 /\ R.gpt \in Nat /\ 1 <= R.gpt /\ R.gpt <= R.z
  BY <1>1, <1>3
<1>9. \A i \in 1 .. n - k : txt2[i] = txt[i] /\ i \in 1 .. n
  <2>1. \A i \in 1 .. n - k : i < p /\ i \in 1 .. n
    BY <1>1
  <2> QED BY <2>1 DEF Deleted
<1>10. \A i \in 1 .. n - k : i < R.gpt => R.mem[i] = txt2[i]
  <2> SUFFICES ASSUME NEW i \in 1 .. n - k, i < T.gpt PROVE R.mem[i] = txt2[i]
    BY <1>3
  <2>1. i \in D /\ ~(i \in p + T.gap .. q + T.gap)
    BY <1>1
  <2>2. R.mem[i] = T.mem[i]
    BY <2>1, <1>4
  <2> QED BY <2>2, <1>9 DEF Represents
<1>11. \A i \in 1 .. n - k : i >= R.gpt => R.mem[i + R.gap] = txt2[i]
  <2> SUFFICES ASSUME NEW i \in 1 .. n - k, i >= T.gpt PROVE R.mem[i + T.gap] = txt2[i]
    BY <1>3
  <2>1. i + T.gap \in D /\ ~(i + T.gap \in p + T.gap .. q + T.gap)
    BY <1>1
  <2>2. R.mem[i + T.gap] = T.mem[i + T.gap]
    BY <2>1, <1>4
  <2> QED BY <2>2, <1>9 DEF Represents
<1>12. /\ txt2 \in [1 .. n - k -> Chars] /\ at2 \in [Marks -> Int]
       /\ \A m \in Marks : at2[m] \in 1 .. R.z
  <2>1. 1 <= p /\ q \in Nat /\ q <= T.z
    BY <1>1
  <2> QED BY <2>1, <1>3, DeletedType
<1>13. \A m \in Marks : R.memind[m] = bytind_to_memind(R, at2[m])
  <2> TAKE m \in Marks
  <2>1. R.memind[m] = do_marker_adjustment(T.memind[m], q + T.gap, q + T.gap, - k)
    BY <1>4 DEF adjust_markers
  <2>2. at[m] \in 1 .. T.z /\ T.memind[m] = bytind_to_memind(T, at[m])
    BY DEF Represents
  <2>3. at2[m] = IF at[m] > p THEN p ELSE at[m]
    BY <1>1, <2>2 DEF Collapsed
  <2> HIDE DEF at2
  <2>4. T.memind[m] = IF at[m] > T.gpt THEN at[m] + T.gap ELSE at[m]
    BY <2>2 DEF bytind_to_memind
  <2>5. bytind_to_memind(R, at2[m]) = IF at2[m] > T.gpt THEN at2[m] + T.gap ELSE at2[m]
    BY <1>3 DEF bytind_to_memind
  <2>6. /\ k \in Nat /\ ~(- k > 0) /\ (q + T.gap) + (- k) = p + T.gap
        /\ T.memind[m] \in Int /\ T.memind[m] <= q + T.gap
    BY <1>1, <2>2, <2>4
  <2>7. R.memind[m] = IF T.memind[m] > p + T.gap THEN p + T.gap ELSE T.memind[m]
    <3> HIDE DEF k, q
    <3>1. q + T.gap \in Int /\ p + T.gap <= q + T.gap
      BY <1>1 DEF q
    <3> QED BY <2>1, <2>6, <3>1, <1>1 DEF do_marker_adjustment
  <2>8. CASE at[m] > p
    BY <2>3, <2>4, <2>5, <2>7, <2>8, <2>2, <1>1
  <2>9. CASE at[m] <= p
    BY <2>3, <2>4, <2>5, <2>7, <2>9, <2>2, <1>1
  <2> QED BY <2>8, <2>9, <2>2
<1>14. R.memind \in [Marks -> Int]
  <2>1. \A m \in Marks : R.memind[m] \in Int
    BY <1>8, <1>12, <1>13, MemindInt
  <2>2. R.memind = [m \in Marks |-> R.memind[m]]
    BY <1>4 DEF adjust_markers
  <2> QED BY <2>1, <2>2
<1> HIDE DEF D, kept, txt2, at2
<1>15. Represents(R, n - k, txt2, at2)
  BY <1>3, <1>5, <1>7, <1>8, <1>10, <1>11, <1>12, <1>13, <1>14 DEF Represents
<1> QED BY <1>15 DEF R, txt2, at2

(* Deleting around the gap.                                                *)
LEMMA DeleteAtGapDeletes ==
  ASSUME NEW T, NEW n, NEW txt, NEW at, Represents(T, n, txt, at),
         NEW p \in Nat, NEW q \in Nat, 1 <= p, p <= T.gpt, T.gpt <= q, q <= T.z
  PROVE  Represents(DeleteAtGap(T, p, q), n - (q - p), Deleted(txt, n, p, q),
                    Collapsed(at, p, q))
<1> DEFINE k == q - p
           R == DeleteAtGap(T, p, q)
           D == 1 .. n + T.gap + T.endGap + SentinelSize
           kept == [i \in D |-> IF i \in p .. q + T.gap - 1 THEN Junk ELSE T.mem[i]]
           txt2 == Deleted(txt, n, p, q)
           at2 == Collapsed(at, p, q)
<1>1. /\ n \in Nat /\ T.z = n + 1 /\ T.gap \in Nat /\ T.endGap \in Nat
      /\ T.gpt \in Nat /\ 1 <= T.gpt /\ T.gpt <= T.z /\ T.gap >= SentinelSize
      /\ SentinelSize \in {0, 1}
  BY Constants DEF Represents
<1>2. /\ \A i \in D : T.mem[i] \in Bytes
      /\ DOMAIN T.mem = D /\ Junk \in Bytes
  BY DEF Represents, Bytes
<1>3. /\ R = [mem |-> R.mem, gpt |-> R.gpt, gap |-> R.gap, endGap |-> R.endGap, z |-> R.z,
              memind |-> R.memind]
      /\ R.gpt = p /\ R.gap = T.gap + k
      /\ R.endGap = T.endGap /\ R.z = T.z - k
  BY DEF DeleteAtGap
<1>4. /\ R.mem = SetSentinel(kept, p)
      /\ R.memind = adjust_markers(T, q + T.gap, q + T.gap, - k - T.gap)
  BY <1>2 DEF DeleteAtGap, Forget
<1> HIDE DEF R
<1>5. kept \in [D -> Bytes]
  BY <1>2
<1>6. (n - k) + R.gap + R.endGap + SentinelSize = n + T.gap + T.endGap + SentinelSize
  BY <1>1, <1>3
<1>7. D = 1 .. (n - k) + R.gap + R.endGap + SentinelSize
  BY <1>6
<1>8. /\ R.gap \in Nat /\ R.endGap \in Nat /\ R.gap >= SentinelSize
      /\ n - k \in Nat /\ R.z = (n - k) + 1 /\ R.gpt \in Nat /\ 1 <= R.gpt /\ R.gpt <= R.z
  BY <1>1, <1>3
<1>9. \A i \in 1 .. n - k : txt2[i] = IF i < p THEN txt[i] ELSE txt[i + k]
  BY DEF Deleted
<1>10. \A i \in 1 .. n - k : i < p => i \in 1 .. n /\ i \in D /\ i # p /\ kept[i] = T.mem[i]
  <2> SUFFICES ASSUME NEW i \in 1 .. n - k, i < p
               PROVE  i \in 1 .. n /\ i \in D /\ i # p /\ kept[i] = T.mem[i]
    OBVIOUS
  <2>1. i \in 1 .. n /\ i \in D /\ i # p /\ ~(i \in p .. q + T.gap - 1)
    BY <1>1
  <2> QED BY <2>1
<1>11. \A i \in 1 .. n - k : i >= p =>
         /\ i + k \in 1 .. n /\ i + k >= T.gpt /\ i + R.gap = (i + k) + T.gap
         /\ i + R.gap \in D /\ (i + R.gap # p \/ SentinelSize = 0)
         /\ kept[i + R.gap] = T.mem[(i + k) + T.gap]
  <2> SUFFICES ASSUME NEW i \in 1 .. n - k, i >= p
               PROVE  /\ i + k \in 1 .. n /\ i + k >= T.gpt /\ i + R.gap = (i + k) + T.gap
                      /\ i + R.gap \in D /\ (i + R.gap # p \/ SentinelSize = 0)
                      /\ kept[i + R.gap] = T.mem[(i + k) + T.gap]
    OBVIOUS
  <2>1. /\ i + k \in 1 .. n /\ i + k >= T.gpt /\ i + R.gap = (i + k) + T.gap
        /\ i + R.gap \in D /\ (i + R.gap # p \/ SentinelSize = 0)
        /\ ~(i + R.gap \in p .. q + T.gap - 1)
    BY <1>1, <1>3
  <2> QED BY <2>1
<1>12. SentinelSize = 1 => p \in D
  BY <1>1
<1>13. /\ txt2 \in [1 .. n - k -> Chars] /\ at2 \in [Marks -> Int]
       /\ \A m \in Marks : at2[m] \in 1 .. R.z
  <2>1. p <= q
    BY <1>1
  <2> QED BY <2>1, <1>3, DeletedType
<1>14. \A m \in Marks : R.memind[m] = bytind_to_memind(R, at2[m])
  <2> TAKE m \in Marks
  <2>1. R.memind[m] = do_marker_adjustment(T.memind[m], q + T.gap, q + T.gap, - k - T.gap)
    BY <1>4 DEF adjust_markers
  <2>2. at[m] \in 1 .. T.z /\ T.memind[m] = bytind_to_memind(T, at[m])
    BY DEF Represents
  <2>3. at2[m] = IF at[m] > q THEN at[m] - k ELSE IF at[m] > p THEN p ELSE at[m]
    BY DEF Collapsed
  <2> HIDE DEF at2
  <2> QED BY <2>1, <2>2, <2>3, <1>1, <1>3 DEF do_marker_adjustment, bytind_to_memind
<1>15. R.memind \in [Marks -> Int]
  <2>1. \A m \in Marks : R.memind[m] \in Int
    BY <1>8, <1>13, <1>14, MemindInt
  <2>2. R.memind = [m \in Marks |-> R.memind[m]]
    BY <1>4 DEF adjust_markers
  <2> QED BY <2>1, <2>2
<1> HIDE DEF D, kept, txt2, at2
<1>16. /\ R.mem \in [D -> Bytes]
       /\ \A i \in D : i # p \/ SentinelSize = 0 => R.mem[i] = kept[i]
  BY <1>4, <1>5, <1>12, SetSentinelMem
<1>17. \A i \in 1 .. n - k : i < R.gpt => R.mem[i] = txt2[i]
  <2> SUFFICES ASSUME NEW i \in 1 .. n - k, i < p PROVE R.mem[i] = txt2[i]
    BY <1>3
  <2>1. i < T.gpt /\ i \in 1 .. n
    BY <1>1, <1>10
  <2>2. T.mem[i] = txt[i]
    BY <2>1 DEF Represents
  <2> QED BY <2>2, <1>9, <1>10, <1>16
<1>18. \A i \in 1 .. n - k : i >= R.gpt => R.mem[i + R.gap] = txt2[i]
  <2> SUFFICES ASSUME NEW i \in 1 .. n - k, i >= p PROVE R.mem[i + R.gap] = txt2[i]
    BY <1>3
  <2>1. T.mem[(i + k) + T.gap] = txt[i + k]
    BY <1>11 DEF Represents
  <2>2. ~(i < p)
    BY <1>1
  <2> QED BY <2>1, <2>2, <1>9, <1>11, <1>16
<1>19. Represents(R, n - k, txt2, at2)
  BY <1>3, <1>7, <1>8, <1>13, <1>14, <1>15, <1>16, <1>17, <1>18 DEF Represents
<1> QED BY <1>19 DEF R, txt2, at2

(* Wherever the gap is.                                                    *)
LEMMA DeleteTextDeletes ==
  ASSUME NEW T, NEW n, NEW txt, NEW at, Represents(T, n, txt, at),
         NEW p \in Nat, NEW q \in Nat, 1 <= p, p <= q, q <= T.z
  PROVE  Represents(DeleteText(T, p, q), n - (q - p), Deleted(txt, n, p, q),
                    Collapsed(at, p, q))
<1>1. T.gpt \in Nat /\ T.z \in Nat /\ 1 <= T.gpt /\ T.gpt <= T.z /\ T.z = n + 1 /\ n \in Nat
  BY DEF Represents
<1>2. CASE q = T.z /\ p > T.gpt
  <2>1. DeleteText(T, p, q) = DeleteBottom(T, p, T.z)
    BY <1>2 DEF DeleteText
  <2> QED BY <1>1, <1>2, <2>1, DeleteBottomDeletes
<1>3. CASE ~(q = T.z /\ p > T.gpt) /\ q < T.gpt
  <2> DEFINE L == GapLeft(T, q)
  <2>1. DeleteText(T, p, q) = DeleteAtGap(L, p, q)
    BY <1>3 DEF DeleteText
  <2>2. Represents(L, n, txt, at) /\ L.gpt = q
    BY <1>1, <1>3, GapLeftSame
  <2>3. L.z = T.z
    BY <1>1, <2>2 DEF Represents
  <2> HIDE DEF L
  <2>4. p <= L.gpt /\ L.gpt <= q /\ q <= L.z
    BY <1>1, <1>3, <2>2, <2>3
  <2> QED BY <2>1, <2>2, <2>4, DeleteAtGapDeletes
<1>4. CASE ~(q = T.z /\ p > T.gpt) /\ ~(q < T.gpt) /\ p > T.gpt
  <2> DEFINE L == GapRight(T, p)
  <2>1. DeleteText(T, p, q) = DeleteAtGap(L, p, q)
    BY <1>4 DEF DeleteText
  <2>2. Represents(L, n, txt, at) /\ L.gpt = p
    BY <1>1, <1>4, GapRightSame
  <2>3. L.z = T.z
    BY <1>1, <2>2 DEF Represents
  <2> HIDE DEF L
  <2>4. p <= L.gpt /\ L.gpt <= q /\ q <= L.z
    BY <1>1, <1>4, <2>2, <2>3
  <2> QED BY <2>1, <2>2, <2>4, DeleteAtGapDeletes
<1>5. CASE ~(q < T.gpt) /\ ~(p > T.gpt)
  <2>1. DeleteText(T, p, q) = DeleteAtGap(T, p, q)
    BY <1>5 DEF DeleteText
  <2> QED BY <1>1, <1>5, <2>1, DeleteAtGapDeletes
<1> QED BY <1>2, <1>3, <1>4, <1>5

(* A memory whose markers are moved, to where MEMIND says.                 *)
LEMMA MarksMoved ==
  ASSUME NEW T, NEW n, NEW txt, NEW at, Represents(T, n, txt, at),
         NEW memind \in [Marks -> Int], NEW at2 \in [Marks -> Int],
         \A m \in Marks : at2[m] \in 1 .. T.z /\ memind[m] = bytind_to_memind(T, at2[m])
  PROVE  Represents([T EXCEPT !.memind = memind], n, txt, at2)
<1> DEFINE R == [T EXCEPT !.memind = memind]
<1>1. T = [mem |-> T.mem, gpt |-> T.gpt, gap |-> T.gap, endGap |-> T.endGap,
          z |-> T.z, memind |-> T.memind]
  BY DEF Represents
<1>2. R = [mem |-> T.mem, gpt |-> T.gpt, gap |-> T.gap, endGap |-> T.endGap,
          z |-> T.z, memind |-> memind]
  BY <1>1
<1>3. /\ R = [mem |-> R.mem, gpt |-> R.gpt, gap |-> R.gap, endGap |-> R.endGap,
              z |-> R.z, memind |-> R.memind]
      /\ R.mem = T.mem /\ R.gpt = T.gpt /\ R.gap = T.gap /\ R.endGap = T.endGap
      /\ R.z = T.z /\ R.memind = memind
  BY <1>2
<1> HIDE DEF R
<1>4. \A m \in Marks : bytind_to_memind(R, at2[m]) = bytind_to_memind(T, at2[m])
  BY <1>3 DEF bytind_to_memind
<1>5. Represents(R, n, txt, at2)
  BY <1>3, <1>4 DEF Represents
<1> QED BY <1>5 DEF R

(* One marker is moved to position P.                                      *)
LEMMA MarkMoved ==
  ASSUME NEW T, NEW n, NEW txt, NEW at, Represents(T, n, txt, at),
         NEW m \in Marks, NEW p \in 1 .. T.z
  PROVE  Represents([T EXCEPT !.memind[m] = bytind_to_memind(T, p)], n, txt,
                    [at EXCEPT ![m] = p])
<1> DEFINE mi == [T.memind EXCEPT ![m] = bytind_to_memind(T, p)]
           at2 == [at EXCEPT ![m] = p]
<1>1. [T EXCEPT !.memind[m] = bytind_to_memind(T, p)] = [T EXCEPT !.memind = mi]
  OBVIOUS
<1>2. bytind_to_memind(T, p) \in Int
  BY DEF Represents, bytind_to_memind
<1>3. mi \in [Marks -> Int] /\ at2 \in [Marks -> Int]
  BY <1>2 DEF Represents
<1>4. \A k \in Marks : at2[k] \in 1 .. T.z /\ mi[k] = bytind_to_memind(T, at2[k])
  BY DEF Represents
<1> HIDE DEF mi, at2
<1>5. Represents([T EXCEPT !.memind = mi], n, txt, at2)
  BY <1>3, <1>4, MarksMoved
<1> QED BY <1>1, <1>5 DEF at2

(* INSDEL_BEFORE_MARKERS: after LEN characters were inserted before P, the *)
(* markers still at P go to the end of them.                               *)
LEMMA BeforeMarkers ==
  ASSUME NEW T, NEW n, NEW txt, NEW at, Represents(T, n, txt, at),
         NEW p \in Nat, NEW len \in Nat, 1 <= p, T.gpt = p + len,
         \A m \in Marks : at[m] <= p \/ at[m] >= p + len
  PROVE  Represents([T EXCEPT !.memind = adjust_markers(T, p - 1, p, len)], n, txt,
                    [m \in Marks |-> IF at[m] = p THEN p + len ELSE at[m]])
<1> DEFINE mi == adjust_markers(T, p - 1, p, len)
           at2 == [m \in Marks |-> IF at[m] = p THEN p + len ELSE at[m]]
<1>1. T.gap \in Nat /\ T.z \in Nat /\ p + len <= T.z
  BY DEF Represents
<1>2. \A m \in Marks : at2[m] \in 1 .. T.z /\ mi[m] = bytind_to_memind(T, at2[m])
  <2> TAKE m \in Marks
  <2>1. mi[m] = do_marker_adjustment(T.memind[m], p - 1, p, len)
    BY DEF adjust_markers
  <2>2. at[m] \in 1 .. T.z /\ T.memind[m] = bytind_to_memind(T, at[m])
    BY DEF Represents
  <2>3. at2[m] = IF at[m] = p THEN p + len ELSE at[m]
    OBVIOUS
  <2>4. at[m] <= p \/ at[m] >= p + len
    OBVIOUS
  <2> HIDE DEF mi, at2
  <2> QED BY <2>1, <2>2, <2>3, <2>4, <1>1 DEF do_marker_adjustment, bytind_to_memind
<1>3. mi = [m \in Marks |-> mi[m]]
  BY DEF adjust_markers
<1>4. at2 = [m \in Marks |-> at2[m]]
  OBVIOUS
<1> HIDE DEF mi, at2
<1>5. \A m \in Marks : mi[m] \in Int /\ at2[m] \in Int
  BY <1>1, <1>2, MemindInt
<1>6. mi \in [Marks -> Int] /\ at2 \in [Marks -> Int]
  BY <1>3, <1>4, <1>5
<1>7. Represents([T EXCEPT !.memind = mi], n, txt, at2)
  BY <1>2, <1>6, MarksMoved
<1> QED BY <1>7 DEF mi, at2

(* A character is replaced in place.                                       *)
LEMMA CharReplaced ==
  ASSUME NEW T, NEW n, NEW txt, NEW at, Represents(T, n, txt, at),
         NEW p \in 1 .. n, NEW ch \in Chars
  PROVE  Represents([T EXCEPT !.mem[ByteAddress(T, p)] = ch], n, [txt EXCEPT ![p] = ch], at)
<1> DEFINE mem == [T.mem EXCEPT ![ByteAddress(T, p)] = ch]
           R == [T EXCEPT !.mem = mem]
           txt2 == [txt EXCEPT ![p] = ch]
           D == 1 .. n + T.gap + T.endGap + SentinelSize
<1>1. T = [mem |-> T.mem, gpt |-> T.gpt, gap |-> T.gap, endGap |-> T.endGap,
          z |-> T.z, memind |-> T.memind]
  BY DEF Represents
<1>2. R = [mem |-> mem, gpt |-> T.gpt, gap |-> T.gap, endGap |-> T.endGap,
          z |-> T.z, memind |-> T.memind]
  BY <1>1
<1>3. /\ R = [mem |-> R.mem, gpt |-> R.gpt, gap |-> R.gap, endGap |-> R.endGap,
              z |-> R.z, memind |-> R.memind]
      /\ R.mem = mem /\ R.gpt = T.gpt /\ R.gap = T.gap /\ R.endGap = T.endGap
      /\ R.z = T.z /\ R.memind = T.memind
  BY <1>2
<1>4. [T EXCEPT !.mem[ByteAddress(T, p)] = ch] = R
  OBVIOUS
<1> HIDE DEF R
<1>5. /\ n \in Nat /\ T.z = n + 1 /\ T.gap \in Nat /\ T.endGap \in Nat /\ T.gpt \in Nat
      /\ SentinelSize \in {0, 1} /\ ch \in Bytes
  BY Constants DEF Represents, Bytes
<1>6. ByteAddress(T, p) = IF p >= T.gpt THEN p + T.gap ELSE p
  BY DEF ByteAddress
<1>7. mem \in [D -> Bytes]
  BY <1>5 DEF Represents
<1>8. txt2 \in [1 .. n -> Chars]
  BY DEF Represents
<1>9. \A i \in 1 .. n : i < T.gpt => mem[i] = txt2[i]
  <2> SUFFICES ASSUME NEW i \in 1 .. n, i < T.gpt PROVE mem[i] = txt2[i]
    OBVIOUS
  <2>1. i \in D /\ (i = ByteAddress(T, p) <=> i = p)
    BY <1>5, <1>6
  <2>2. T.mem[i] = txt[i] /\ txt \in [1 .. n -> Chars] /\ T.mem \in [D -> Bytes]
    BY DEF Represents
  <2> QED BY <2>1, <2>2
<1>10. \A i \in 1 .. n : i >= T.gpt => mem[i + T.gap] = txt2[i]
  <2> SUFFICES ASSUME NEW i \in 1 .. n, i >= T.gpt PROVE mem[i + T.gap] = txt2[i]
    OBVIOUS
  <2>1. i + T.gap \in D /\ (i + T.gap = ByteAddress(T, p) <=> i = p)
    BY <1>5, <1>6
  <2>2. T.mem[i + T.gap] = txt[i] /\ txt \in [1 .. n -> Chars] /\ T.mem \in [D -> Bytes]
    BY DEF Represents
  <2> QED BY <2>1, <2>2
<1> HIDE DEF mem, txt2
<1>11. \A m \in Marks : bytind_to_memind(R, at[m]) = bytind_to_memind(T, at[m])
  BY <1>3 DEF bytind_to_memind
<1>12. Represents(R, n, txt2, at)
  BY <1>3, <1>7, <1>8, <1>9, <1>10, <1>11 DEF Represents
<1> QED BY <1>4, <1>12 DEF txt2

(* All of buffer_insert_string_1 up to the markers that are not ordinary.  *)
LEMMA InsertText ==
  ASSUME NEW T, NEW n, NEW txt, NEW at, Represents(T, n, txt, at),
         NEW p \in Nat, 1 <= p, p <= T.z, NEW s, IsString(s)
  PROVE  /\ Represents(Fill(MakeRoom(move_gap(T, p), Len(s)), s), n + Len(s),
                       Inserted(txt, n, p, s), Pushed(at, p, Len(s), advancing))
         /\ Fill(MakeRoom(move_gap(T, p), Len(s)), s).gpt = p + Len(s)
<1>1. Len(s) \in Nat
  BY StringParts
<1>2. Represents(move_gap(T, p), n, txt, at) /\ move_gap(T, p).gpt = p
  BY MoveGapSame
<1>3. /\ Represents(MakeRoom(move_gap(T, p), Len(s)), n, txt, at)
      /\ MakeRoom(move_gap(T, p), Len(s)).gpt = p
      /\ GAP_CAN_HOLD_SIZE_P(MakeRoom(move_gap(T, p), Len(s)), Len(s))
  BY <1>1, <1>2, MakeRoomSame
<1>4. Fits(MakeRoom(move_gap(T, p), Len(s)), s)
  BY <1>3 DEF Fits
<1> QED BY <1>3, <1>4, FillInserts

-----------------------------------------------------------------------------
(* The inductive invariant.                                                *)

(* The instances in which narrowing stays valid: a buffer by itself,       *)
(* narrowed or not, or any number of indirect buffers none of which is     *)
(* narrowed.  In the others the violation of NarrowingValid shows that it  *)
(* does not, and there the steps are correct as long as it does.           *)
SafeSharing == Narrowed = {} \/ \E b : Bufs = {b}

Inv ==
  /\ WF(bt)
  /\ pt \in [Bufs -> Int] /\ begv \in [Bufs -> Int] /\ zv \in [Bufs -> Int]
  /\ advancing \subseteq Markers
  /\ SafeSharing => /\ NarrowingValid
                    /\ Narrowed = {} => \A b \in Bufs : begv[b] = 1 /\ zv[b] = bt.z

\* The same for a state of given parts, as the actions produce them.
Bounds(p, lo, hi, z) ==
  /\ p \in [Bufs -> Int] /\ lo \in [Bufs -> Int] /\ hi \in [Bufs -> Int]
  /\ SafeSharing =>
       /\ \A b \in Bufs : /\ 1 <= lo[b] /\ lo[b] <= hi[b] /\ hi[b] <= z
                          /\ 1 <= p[b] /\ p[b] <= z
       /\ Narrowed = {} => \A b \in Bufs : lo[b] = 1 /\ hi[b] = z

(* The invariant in those parts.                                           *)
LEMMA InvParts ==
  Inv <=> WF(bt) /\ advancing \subseteq Markers /\ Bounds(pt, begv, zv, bt.z)
BY DEF Inv, Bounds, NarrowingValid

(* What the invariant says of the text and the markers.                    *)
LEMMA InvText ==
  ASSUME Inv
  PROVE  /\ Represents(bt, bt.z - 1, Text, Pos)
         /\ bt.z \in Nat /\ bt.z > 0
         /\ advancing \subseteq Markers
         /\ Bounds(pt, begv, zv, bt.z)
<1>1. WF(bt)
  BY DEF Inv
<1>2. Text = Content(bt) /\ Pos = Places(bt)
  BY DEF Text, Content, Pos, Places
<1>3. Represents(bt, bt.z - 1, Text, Pos)
  BY <1>1, <1>2, WFElim
<1> QED BY <1>1, <1>3, InvParts, WFParts

(* The state after an action that leaves memory T and the bounds given.    *)
LEMMA InvNext ==
  ASSUME NEW n, NEW txt, NEW at, Represents(bt', n, txt, at),
         advancing' \subseteq Markers, Bounds(pt', begv', zv', n + 1)
  PROVE  Inv' /\ Text' = txt /\ Pos' = at /\ bt'.z = n + 1
<1>1. WF(bt') /\ bt'.z = n + 1 /\ Content(bt') = txt /\ Places(bt') = at
  BY WFIntro
<1>2. Text' = txt /\ Pos' = at
  BY <1>1 DEF Text, Content, Pos, Places, ByteAddress, memind_to_bytind
<1>3. Inv'
  BY <1>1 DEF Inv, Bounds, NarrowingValid, WF, TextOK, Allocated, ByteAddress, valid_memind_p
<1> QED BY <1>1, <1>2, <1>3

(* The accessible part and point are in the text.                          *)
LEMMA InvBounds ==
  ASSUME Inv, NarrowingValid
  PROVE  /\ pt \in [Bufs -> Int] /\ begv \in [Bufs -> Int] /\ zv \in [Bufs -> Int]
         /\ \A c \in Bufs : /\ pt[c] \in Int /\ begv[c] \in Int /\ zv[c] \in Int
                            /\ 1 <= begv[c] /\ begv[c] <= zv[c] /\ zv[c] <= bt.z
                            /\ 1 <= pt[c] /\ pt[c] <= bt.z
         /\ SafeSharing /\ Narrowed = {} => \A c \in Bufs : begv[c] = 1 /\ zv[c] = bt.z
BY DEF Inv, NarrowingValid

(* All buffers of a safe instance have the same accessible part.           *)
LEMMA SameBounds ==
  ASSUME Inv, SafeSharing, NEW b \in Bufs, NEW c \in Bufs
  PROVE  begv[b] = begv[c] /\ zv[b] = zv[c]
BY DEF Inv, SafeSharing

(* A clamped position is in the accessible part of its buffer, and in a    *)
(* safe instance of every buffer.                                          *)
LEMMA ClampVisible ==
  ASSUME Inv, NarrowingValid, NEW b \in Bufs, NEW p \in Nat
  PROVE  /\ Clamp(b, p) \in Nat /\ 1 <= Clamp(b, p) /\ Clamp(b, p) <= bt.z
         /\ begv[b] <= Clamp(b, p) /\ Clamp(b, p) <= zv[b]
         /\ SafeSharing => \A c \in Bufs : begv[c] <= Clamp(b, p) /\ Clamp(b, p) <= zv[c]
<1>1. /\ begv[b] \in Int /\ zv[b] \in Int /\ bt.z \in Nat
      /\ 1 <= begv[b] /\ begv[b] <= zv[b] /\ zv[b] <= bt.z
  <2>1. pt[b] \in Int /\ begv[b] \in Int /\ zv[b] \in Int
        /\ 1 <= begv[b] /\ begv[b] <= zv[b] /\ zv[b] <= bt.z
    BY InvBounds
  <2> QED BY <2>1, InvText
<1>2. /\ Clamp(b, p) \in Nat /\ 1 <= Clamp(b, p) /\ Clamp(b, p) <= bt.z
      /\ begv[b] <= Clamp(b, p) /\ Clamp(b, p) <= zv[b]
  BY <1>1 DEF Clamp
<1> QED BY <1>2, SameBounds

(* The length of the text.                                                 *)
LEMMA TextLength ==
  ASSUME Inv
  PROVE  Len(Text) = bt.z - 1 /\ Len(Text) \in Nat /\ Text \in [1 .. Len(Text) -> Chars]
<1>1. bt.z - 1 \in Nat /\ Text \in [1 .. bt.z - 1 -> Chars]
  BY InvText DEF Represents
<1>2. Text \in Seq(Chars)
  BY <1>1
<1> QED BY <1>1, <1>2

(* No point marker is advancing.                                           *)
LEMMA PointNotAdvancing ==
  ASSUME Inv, NEW b \in Bufs
  PROVE  b \in Marks /\ b \notin advancing
BY GapBufferAssumption DEF Inv, GapBufferAssumption, Marks

-----------------------------------------------------------------------------
(* One lemma for each action: it keeps the invariant, and to the rest of   *)
(* XEmacs it is a step of BufferText or nothing.                           *)

AbstractStep == BT!Next \/ UNCHANGED <<Text, Pos, advancing>>

\* Where BufferText says the markers are after an insertion.
Landed(at, p, len, ahead, moved) ==
  [m \in Marks |-> IF m \in moved THEN p + len
                   ELSE IF at[m] > p \/ (at[m] = p /\ m \in ahead) THEN at[m] + len
                   ELSE at[m]]

\* The point markers that an insertion moves by BUF_SET_PT.
Carried(b, p, len, moves) ==
  IF moves /\ (IF pt[b] > p THEN pt[b] + len ELSE pt[b]) # p + len THEN {b} ELSE {}

(* What buffer_insert_string_1 leaves in memory.                           *)
LEMMA InsertMemory ==
  ASSUME Inv, NarrowingValid, NEW b \in Bufs, NEW q \in Nat, NEW s, IsString(s),
         NEW moves \in BOOLEAN, NEW before \in BOOLEAN, before => moves,
         Insert(b, q, s, moves, before)
  PROVE  Represents(bt', (bt.z - 1) + Len(s), Inserted(Text, bt.z - 1, Clamp(b, q), s),
                    Landed(Pos, Clamp(b, q), Len(s), BT!Ahead(before),
                           Carried(b, Clamp(b, q), Len(s), moves)))
<1> DEFINE p == Clamp(b, q)
           len == Len(s)
           n == bt.z - 1
           txt == Inserted(Text, n, p, s)
           filled == Fill(MakeRoom(move_gap(bt, p), len), s)
           old == IF pt[b] > p THEN pt[b] + len ELSE pt[b]
           carried == Carried(b, p, len, moves)
           at1 == Pushed(Pos, p, len, advancing)
           at2 == IF carried = {b} THEN [at1 EXCEPT ![b] = p + len] ELSE at1
           pointed == IF moves
                      THEN [filled EXCEPT !.memind[b] = PointMemind(filled, b, old, p + len)]
                      ELSE filled
           at3 == [m \in Marks |-> IF at2[m] = p THEN p + len ELSE at2[m]]
<1>1. /\ p \in Nat /\ 1 <= p /\ p <= bt.z /\ bt.z \in Nat /\ bt.z > 0 /\ len \in Nat
      /\ Represents(bt, n, Text, Pos)
  BY ClampVisible, InvText, StringParts
<1>2. b \in Marks /\ b \notin advancing
  BY PointNotAdvancing
<1>3. /\ Represents(filled, n + len, txt, at1)
      /\ filled.gpt = p + len
  BY <1>1, InsertText
<1>4. bt' = IF before
            THEN [pointed EXCEPT !.memind = adjust_markers(pointed, p - 1, p, len)]
            ELSE pointed
  BY DEF Insert
<1>5. carried = IF moves /\ old # p + len THEN {b} ELSE {}
  BY DEF Carried
<1>6. \A m \in Marks : Pos[m] \in 1 .. bt.z
  BY <1>1 DEF Represents
<1>7. /\ at1 \in [Marks -> Int]
      /\ \A m \in Marks : at1[m] = IF Pos[m] > p \/ (Pos[m] = p /\ m \in advancing)
                                   THEN Pos[m] + len ELSE Pos[m]
  BY <1>3 DEF Represents, Pushed
<1> HIDE DEF p, len, n, txt, filled, old, carried, at1
<1>8. Represents(pointed, n + len, txt, at2) /\ pointed.gpt = p + len
  <2>1. filled = [mem |-> filled.mem, gpt |-> filled.gpt, gap |-> filled.gap,
                  endGap |-> filled.endGap, z |-> filled.z, memind |-> filled.memind]
        /\ filled.memind \in [Marks -> Int] /\ p + len \in 1 .. filled.z
    BY <1>1, <1>3 DEF Represents
  <2>2. CASE moves /\ old # p + len
    <3>1. pointed = [filled EXCEPT !.memind[b] = bytind_to_memind(filled, p + len)]
      BY <2>2 DEF PointMemind
    <3>2. at2 = [at1 EXCEPT ![b] = p + len]
      BY <2>2, <1>5
    <3>3. pointed.gpt = filled.gpt
      BY <3>1, <2>1
    <3> HIDE DEF pointed, at2
    <3> QED BY <1>2, <1>3, <2>1, <3>1, <3>2, <3>3, MarkMoved
  <2>3. CASE ~(moves /\ old # p + len)
    <3>1. at2 = at1
      BY <2>3, <1>5
    <3>2. pointed = filled
      <4>1. CASE ~moves
        BY <4>1
      <4>2. CASE moves
        <5>1. pointed = [filled EXCEPT !.memind[b] = filled.memind[b]]
          BY <4>2, <2>3 DEF PointMemind
        <5> QED BY <5>1, <2>1, <1>2
      <4> QED BY <4>1, <4>2
    <3> QED BY <1>3, <3>1, <3>2
  <2> QED BY <2>2, <2>3
<1>9. at2 \in [Marks -> Int]
  BY <1>8 DEF Represents
<1>10. \A m \in Marks : /\ at2[m] = IF m \in carried THEN p + len ELSE at1[m]
                        /\ at2[m] <= p \/ at2[m] >= p + len
  <2> TAKE m \in Marks
  <2>1. at2[m] = IF m \in carried THEN p + len ELSE at1[m]
    BY <1>2, <1>5, <1>7
  <2> HIDE DEF at2
  <2> QED BY <1>1, <1>6, <1>7, <2>1
<1> HIDE DEF pointed, at2
<1>11. CASE before
  <2>1. bt' = [pointed EXCEPT !.memind = adjust_markers(pointed, p - 1, p, len)]
    BY <1>4, <1>11
  <2>2. Represents(bt', n + len, txt, at3)
    BY <1>1, <1>8, <1>10, <2>1, BeforeMarkers
  <2>3. BT!Ahead(before) = Marks
    BY <1>11 DEF BT!Ahead
  <2>4. at3 = Landed(Pos, p, len, Marks, carried)
    <3>1. ASSUME NEW m \in Marks
          PROVE  (IF at2[m] = p THEN p + len ELSE at2[m]) =
                 IF m \in carried THEN p + len
                 ELSE IF Pos[m] > p \/ (Pos[m] = p /\ m \in Marks) THEN Pos[m] + len
                 ELSE Pos[m]
      BY <1>1, <1>6, <1>7, <1>10
    <3> QED BY <3>1 DEF Landed
  <2> QED BY <2>2, <2>3, <2>4 DEF p, len, n, txt, carried
<1>12. CASE ~before
  <2>1. bt' = pointed
    BY <1>4, <1>12
  <2>2. BT!Ahead(before) = advancing
    BY <1>12 DEF BT!Ahead
  <2>3. at2 = Landed(Pos, p, len, advancing, carried)
    BY <1>7, <1>9, <1>10 DEF Landed
  <2> QED BY <1>8, <2>1, <2>2, <2>3 DEF p, len, n, txt, carried
<1> QED BY <1>11, <1>12

(* Insertion.                                                              *)
LEMMA InsertStep ==
  ASSUME Inv, NarrowingValid, NEW b \in Bufs, NEW q \in Nat, NEW s \in Strings,
         NEW moves \in BOOLEAN, NEW before \in BOOLEAN, before => moves,
         Insert(b, q, s, moves, before)
  PROVE  /\ Inv' /\ AbstractStep
         /\ Pos[b] = pt[b] => Pos'[b] = pt'[b]
         /\ ~before => \A c \in Bufs : c # b /\ Pos[c] = pt[c] => Pos'[c] = pt'[c]
<1> DEFINE p == Clamp(b, q)
           len == Len(s)
           n == bt.z - 1
           carried == Carried(b, p, len, moves)
<1>1. IsString(s) /\ len \in Nat
  BY Constants, StringParts DEF IsString
<1>2. /\ p \in Nat /\ 1 <= p /\ p <= bt.z /\ bt.z \in Nat /\ bt.z > 0
      /\ SafeSharing => \A c \in Bufs : begv[c] <= p /\ p <= zv[c]
      /\ advancing \subseteq Markers
  BY ClampVisible, InvText
<1>3. Represents(bt', n + len, Inserted(Text, n, p, s),
                 Landed(Pos, p, len, BT!Ahead(before), carried))
  BY <1>1, InsertMemory
<1>4. /\ pt' = [c \in Bufs |-> IF moves /\ c = b THEN p + len
                               ELSE IF pt[c] > p THEN pt[c] + len ELSE pt[c]]
      /\ zv' = [c \in Bufs |-> zv[c] + len]
      /\ begv' = begv /\ advancing' = advancing
  BY DEF Insert
<1> HIDE DEF p, len
<1>5. Bounds(pt', begv', zv', (n + len) + 1)
  <2>1. /\ pt \in [Bufs -> Int] /\ begv \in [Bufs -> Int] /\ zv \in [Bufs -> Int]
        /\ SafeSharing /\ Narrowed = {} => \A c \in Bufs : begv[c] = 1 /\ zv[c] = bt.z
    BY InvBounds
  <2>2. pt' \in [Bufs -> Int] /\ begv' \in [Bufs -> Int] /\ zv' \in [Bufs -> Int]
    BY <1>1, <1>2, <1>4, <2>1
  <2>3. ASSUME NEW c \in Bufs, SafeSharing
        PROVE  /\ 1 <= begv'[c] /\ begv'[c] <= zv'[c] /\ zv'[c] <= (n + len) + 1
               /\ 1 <= pt'[c] /\ pt'[c] <= (n + len) + 1
               /\ (begv[c] = 1 /\ zv[c] = bt.z => begv'[c] = 1 /\ zv'[c] = (n + len) + 1)
    <3>1. pt'[c] = p + len \/ pt'[c] = pt[c] \/ (pt[c] > p /\ pt'[c] = pt[c] + len)
      BY <1>4
    <3>2. zv'[c] = zv[c] + len /\ begv'[c] = begv[c]
      BY <1>4
    <3>3. /\ pt[c] \in Int /\ begv[c] \in Int /\ zv[c] \in Int
          /\ 1 <= begv[c] /\ begv[c] <= zv[c] /\ zv[c] <= bt.z
          /\ 1 <= pt[c] /\ pt[c] <= bt.z
          /\ begv[c] <= p /\ p <= zv[c]
      BY <1>2, <2>3, InvBounds
    <3> QED BY <1>1, <1>2, <3>1, <3>2, <3>3
  <2> QED BY <2>1, <2>2, <2>3 DEF Bounds
<1>6. /\ Inv' /\ Text' = Inserted(Text, n, p, s)
      /\ Pos' = Landed(Pos, p, len, BT!Ahead(before), carried)
  BY <1>2, <1>3, <1>4, <1>5, InvNext
<1>7. BT!Next
  <2>1. Len(Text) = n /\ p \in 1 .. Len(Text) + 1
    BY <1>2, TextLength
  <2>2. carried \in {{}} \cup {{m} : m \in Marks}
    BY PointNotAdvancing DEF Carried
  <2>3. BT!Insert(p, s, BT!Ahead(before), carried)
    BY <1>4, <1>6, <2>1 DEF BT!Insert, BT!Inserted, BT!AfterInsert, Inserted, Landed, len
  <2> QED BY <2>1, <2>2, <2>3 DEF BT!Next
<1>8. ASSUME Pos[b] = pt[b]
      PROVE  Pos'[b] = pt'[b]
  <2>1. b \in Marks /\ b \notin advancing /\ pt[b] \in Int
    BY InvBounds, PointNotAdvancing
  <2>2. Pos'[b] = IF b \in carried THEN p + len
                  ELSE IF pt[b] > p \/ (pt[b] = p /\ b \in BT!Ahead(before)) THEN pt[b] + len
                  ELSE pt[b]
    BY <1>6, <1>8, <2>1 DEF Landed
  <2>3. pt'[b] = IF moves THEN p + len ELSE IF pt[b] > p THEN pt[b] + len ELSE pt[b]
    BY <1>4
  <2>4. CASE moves
    <3>1. CASE b \in carried
      BY <2>2, <2>3, <2>4, <3>1
    <3>2. CASE b \notin carried
      <4>1. (IF pt[b] > p THEN pt[b] + len ELSE pt[b]) = p + len
        BY <2>4, <3>2 DEF Carried
      <4>2. pt[b] = p /\ len = 0
        BY <1>1, <1>2, <2>1, <4>1
      <4> QED BY <1>2, <2>2, <2>3, <3>2, <4>2
    <3> QED BY <3>1, <3>2
  <2>5. CASE ~moves
    <3>1. b \notin carried /\ b \notin BT!Ahead(before)
      BY <2>1, <2>5 DEF Carried, BT!Ahead
    <3> QED BY <2>2, <2>3, <2>5, <3>1
  <2> QED BY <2>4, <2>5
<1>9. ASSUME ~before, NEW c \in Bufs, c # b, Pos[c] = pt[c]
      PROVE  Pos'[c] = pt'[c]
  <2>1. c \in Marks /\ c \notin BT!Ahead(before) /\ c \notin carried
    BY <1>9, PointNotAdvancing DEF BT!Ahead, Carried
  <2>2. Pos'[c] = IF pt[c] > p THEN pt[c] + len ELSE pt[c]
    BY <1>6, <1>9, <2>1 DEF Landed
  <2> QED BY <1>4, <1>9, <2>2
<1> QED BY <1>6, <1>7, <1>8, <1>9 DEF AbstractStep

(* The insertion that finds no room only moves the gap.                    *)
LEMMA GapOnlyStep ==
  ASSUME Inv, NEW p \in Nat, 1 <= p, p <= bt.z, bt' = move_gap(bt, p),
         UNCHANGED <<pt, begv, zv, advancing>>
  PROVE  Inv' /\ Text' = Text /\ Pos' = Pos /\ AbstractStep
<1>1. /\ Represents(bt, bt.z - 1, Text, Pos) /\ bt.z \in Nat
      /\ advancing \subseteq Markers /\ Bounds(pt, begv, zv, bt.z)
  BY InvText
<1>2. Represents(bt', bt.z - 1, Text, Pos)
  BY <1>1, MoveGapSame
<1>3. Bounds(pt', begv', zv', (bt.z - 1) + 1)
  BY <1>1
<1>4. Inv' /\ Text' = Text /\ Pos' = Pos
  BY <1>1, <1>2, <1>3, InvNext
<1> QED BY <1>4 DEF AbstractStep

(* Deletion.                                                               *)
LEMMA DeleteStep ==
  ASSUME Inv, NarrowingValid, NEW b \in Bufs, NEW x \in Nat, NEW y \in Nat, Delete(b, x, y)
  PROVE  /\ Inv' /\ AbstractStep
         /\ (\A c \in Bufs : Pos[c] = pt[c]) => \A c \in Bufs : Pos'[c] = pt'[c]
<1> DEFINE p == IF x < begv[b] THEN begv[b] ELSE x
           q == IF y > zv[b] THEN zv[b] ELSE y
           n == bt.z - 1
           k == q - p
<1>1. /\ Represents(bt, n, Text, Pos) /\ bt.z \in Nat /\ bt.z > 0
      /\ advancing \subseteq Markers
  BY InvText
<1>2. /\ pt \in [Bufs -> Int] /\ begv \in [Bufs -> Int] /\ zv \in [Bufs -> Int]
      /\ \A c \in Bufs : /\ pt[c] \in Int /\ begv[c] \in Int /\ zv[c] \in Int
                         /\ 1 <= begv[c] /\ begv[c] <= zv[c] /\ zv[c] <= bt.z
                         /\ 1 <= pt[c] /\ pt[c] <= bt.z
      /\ SafeSharing /\ Narrowed = {} => \A c \in Bufs : begv[c] = 1 /\ zv[c] = bt.z
  BY InvBounds
<1>3. /\ k > 0 /\ bt' = DeleteText(bt, p, q)
      /\ pt' = [c \in Bufs |-> IF p < pt[c] THEN IF pt[c] < q THEN p ELSE pt[c] - k ELSE pt[c]]
      /\ zv' = [c \in Bufs |-> zv[c] - k]
      /\ begv' = begv /\ advancing' = advancing
  BY DEF Delete
<1>4. /\ p \in Nat /\ q \in Nat /\ 1 <= p /\ p < q /\ q <= bt.z
      /\ begv[b] <= p /\ q <= zv[b]
  <2>1. begv[b] \in Int /\ zv[b] \in Int /\ 1 <= begv[b] /\ begv[b] <= zv[b] /\ zv[b] <= bt.z
    BY <1>1, <1>2
  <2> QED BY <1>1, <1>3, <2>1
<1> HIDE DEF p, q
<1>5. SafeSharing => \A c \in Bufs : begv[c] <= p /\ q <= zv[c]
  BY <1>4, SameBounds
<1>6. Represents(bt', n - k, Deleted(Text, n, p, q), Collapsed(Pos, p, q))
  <2>1. p <= q
    BY <1>4
  <2> QED BY <1>1, <1>3, <1>4, <2>1, DeleteTextDeletes
<1>7. Bounds(pt', begv', zv', (n - k) + 1)
  <2>1. pt' \in [Bufs -> Int] /\ begv' \in [Bufs -> Int] /\ zv' \in [Bufs -> Int]
    BY <1>2, <1>3, <1>4
  <2>2. ASSUME NEW c \in Bufs, SafeSharing
        PROVE  /\ 1 <= begv'[c] /\ begv'[c] <= zv'[c] /\ zv'[c] <= (n - k) + 1
               /\ 1 <= pt'[c] /\ pt'[c] <= (n - k) + 1
               /\ (begv[c] = 1 /\ zv[c] = bt.z => begv'[c] = 1 /\ zv'[c] = (n - k) + 1)
    <3>1. /\ pt'[c] = IF p < pt[c] THEN IF pt[c] < q THEN p ELSE pt[c] - k ELSE pt[c]
          /\ zv'[c] = zv[c] - k /\ begv'[c] = begv[c]
      BY <1>3
    <3>2. /\ pt[c] \in Int /\ begv[c] \in Int /\ zv[c] \in Int
          /\ 1 <= begv[c] /\ begv[c] <= zv[c] /\ zv[c] <= bt.z
          /\ 1 <= pt[c] /\ pt[c] <= bt.z
          /\ begv[c] <= p /\ q <= zv[c]
      BY <1>2, <1>5, <2>2
    <3> QED BY <1>1, <1>4, <3>1, <3>2
  <2> QED BY <1>2, <2>1, <2>2 DEF Bounds
<1>8. Inv' /\ Text' = Deleted(Text, n, p, q) /\ Pos' = Collapsed(Pos, p, q)
  BY <1>1, <1>3, <1>6, <1>7, InvNext
<1>9. BT!Next
  <2>1. Len(Text) = n /\ p \in 1 .. Len(Text) /\ q \in 2 .. Len(Text) + 1
    BY <1>1, <1>4, TextLength
  <2>2. BT!Delete(p, q)
    BY <1>3, <1>8, <2>1 DEF BT!Delete, BT!Deleted, BT!AfterDelete, Deleted, Collapsed
  <2> QED BY <1>4, <2>1, <2>2 DEF BT!Next
<1>10. ASSUME NEW c \in Bufs, Pos[c] = pt[c]
       PROVE  Pos'[c] = pt'[c]
  <2>1. Pos'[c] = IF pt[c] > q THEN pt[c] - k ELSE IF pt[c] > p THEN p ELSE pt[c]
    BY <1>8, <1>10, PointNotAdvancing DEF Collapsed
  <2>2. pt'[c] = IF p < pt[c] THEN IF pt[c] < q THEN p ELSE pt[c] - k ELSE pt[c]
    BY <1>3
  <2>3. pt[c] \in Int
    BY <1>2
  <2> QED BY <1>4, <2>1, <2>2, <2>3
<1> QED BY <1>8, <1>9, <1>10 DEF AbstractStep

(* Replacement of a character.                                             *)
LEMMA ReplaceStep ==
  ASSUME Inv, NarrowingValid, NEW b \in Bufs, NEW x \in Nat, NEW ch \in Chars,
         ReplaceChar(b, x, ch)
  PROVE  Inv' /\ Pos' = Pos /\ pt' = pt /\ AbstractStep
<1> DEFINE low == IF x < begv[b] THEN begv[b] ELSE x
           at == IF low >= zv[b] THEN zv[b] - 1 ELSE low
<1>1. /\ Represents(bt, bt.z - 1, Text, Pos) /\ bt.z \in Nat /\ bt.z > 0
      /\ advancing \subseteq Markers /\ Bounds(pt, begv, zv, bt.z)
  BY InvText
<1>2. /\ at >= begv[b]
      /\ bt' = [bt EXCEPT !.mem[ByteAddress(bt, at)] = ch]
      /\ UNCHANGED <<pt, begv, zv, advancing>>
  BY DEF ReplaceChar
<1>3. at \in 1 .. bt.z - 1
  <2>1. /\ begv[b] \in Int /\ pt[b] \in Int /\ zv[b] \in Int
        /\ 1 <= begv[b] /\ begv[b] <= zv[b] /\ zv[b] <= bt.z
    BY InvBounds
  <2> QED BY <1>1, <1>2, <2>1
<1> HIDE DEF at
<1>4. Represents(bt', bt.z - 1, [Text EXCEPT ![at] = ch], Pos)
  BY <1>1, <1>2, <1>3, CharReplaced
<1>5. Bounds(pt', begv', zv', (bt.z - 1) + 1)
  BY <1>1, <1>2
<1>6. Inv' /\ Text' = [Text EXCEPT ![at] = ch] /\ Pos' = Pos
  BY <1>1, <1>2, <1>4, <1>5, InvNext
<1>7. BT!Next
  <2>1. at \in 1 .. Len(Text)
    BY <1>3, TextLength
  <2>2. BT!ReplaceChar(at, ch)
    BY <1>2, <1>6 DEF BT!ReplaceChar
  <2> QED BY <2>1, <2>2 DEF BT!Next
<1> QED BY <1>2, <1>6, <1>7 DEF AbstractStep

(* A marker is moved, and the bounds of the buffers are as given.          *)
LEMMA MarkStep ==
  ASSUME Inv, NEW m \in Marks, NEW p \in 1 .. bt.z,
         bt' = [bt EXCEPT !.memind[m] = bytind_to_memind(bt, p)],
         advancing' = advancing, Bounds(pt', begv', zv', bt.z)
  PROVE  Inv' /\ Pos' = [Pos EXCEPT ![m] = p] /\ AbstractStep
<1>1. /\ Represents(bt, bt.z - 1, Text, Pos) /\ bt.z \in Nat /\ bt.z > 0
      /\ advancing \subseteq Markers
  BY InvText
<1>2. Represents(bt', bt.z - 1, Text, [Pos EXCEPT ![m] = p])
  BY <1>1, MarkMoved
<1>3. (bt.z - 1) + 1 = bt.z
  BY <1>1
<1>4. Inv' /\ Text' = Text /\ Pos' = [Pos EXCEPT ![m] = p]
  BY <1>1, <1>2, <1>3, InvNext
<1>5. p \in 1 .. Len(Text) + 1
  BY <1>1, TextLength
<1>6. BT!SetMarker(m, p)
  BY <1>4 DEF BT!SetMarker
<1> QED BY <1>4, <1>5, <1>6 DEF AbstractStep, BT!Next

(* Nothing happens to the text and its markers.                            *)
LEMMA BoundsStep ==
  ASSUME Inv, bt' = bt, advancing' = advancing, Bounds(pt', begv', zv', bt.z)
  PROVE  Inv' /\ Pos' = Pos /\ AbstractStep
<1>1. /\ Represents(bt, bt.z - 1, Text, Pos) /\ bt.z \in Nat /\ bt.z > 0
      /\ advancing \subseteq Markers
  BY InvText
<1>2. (bt.z - 1) + 1 = bt.z
  BY <1>1
<1>3. Inv' /\ Text' = Text /\ Pos' = Pos
  BY <1>1, <1>2, InvNext
<1> QED BY <1>3 DEF AbstractStep

(* BUF_SET_PT to a position of the buffer, with the bounds as given.       *)
LEMMA SetPointStep ==
  ASSUME Inv, NEW b \in Bufs, NEW p \in 1 .. bt.z, SetPoint(b, p),
         advancing' = advancing, Bounds(pt', begv', zv', bt.z)
  PROVE  /\ Inv' /\ AbstractStep
         /\ Pos[b] = pt[b] => Pos'[b] = pt'[b]
         /\ \A c \in Bufs : c # b => Pos'[c] = Pos[c] /\ pt'[c] = pt[c]
<1>1. /\ pt' = [pt EXCEPT ![b] = p]
      /\ bt' = [bt EXCEPT !.memind[b] = PointMemind(bt, b, pt[b], p)]
      /\ pt \in [Bufs -> Int]
  BY DEF SetPoint, Inv
<1>2. b \in Marks /\ \A c \in Bufs : c \in Marks
  BY PointNotAdvancing
<1>3. /\ bt = [mem |-> bt.mem, gpt |-> bt.gpt, gap |-> bt.gap, endGap |-> bt.endGap,
               z |-> bt.z, memind |-> bt.memind]
      /\ bt.memind \in [Marks -> Int] /\ Pos \in [Marks -> Int]
  BY InvText DEF Represents
<1>4. CASE p = pt[b]
  <2>1. bt' = [bt EXCEPT !.memind[b] = bt.memind[b]]
    BY <1>1, <1>4 DEF PointMemind
  <2>2. bt' = bt
    BY <1>2, <1>3, <2>1
  <2>3. Inv' /\ Pos' = Pos /\ AbstractStep
    BY <2>2, BoundsStep
  <2> QED BY <1>1, <1>4, <2>3
<1>5. CASE p # pt[b]
  <2>1. bt' = [bt EXCEPT !.memind[b] = bytind_to_memind(bt, p)]
    BY <1>1, <1>5 DEF PointMemind
  <2>2. Inv' /\ Pos' = [Pos EXCEPT ![b] = p] /\ AbstractStep
    BY <1>2, <2>1, MarkStep
  <2> QED BY <1>1, <1>2, <1>3, <2>2
<1> QED BY <1>4, <1>5

(* goto-char, set-marker on the point marker, narrow-to-region and widen.  *)
LEMMA ViewStep ==
  ASSUME Inv, NarrowingValid, NEW b \in Bufs,
         \/ \E x \in Nat : GotoChar(b, x) \/ SetPointMarker(b, x)
         \/ \E x, y \in Nat : Narrow(b, x, y)
         \/ Widen(b)
  PROVE  /\ Inv' /\ AbstractStep
         /\ Pos[b] = pt[b] => Pos'[b] = pt'[b]
         /\ \A c \in Bufs : c # b => Pos'[c] = Pos[c] /\ pt'[c] = pt[c]
<1>1. /\ pt \in [Bufs -> Int] /\ begv \in [Bufs -> Int] /\ zv \in [Bufs -> Int]
      /\ \A c \in Bufs : /\ pt[c] \in Int /\ begv[c] \in Int /\ zv[c] \in Int
                         /\ 1 <= begv[c] /\ begv[c] <= zv[c] /\ zv[c] <= bt.z
                         /\ 1 <= pt[c] /\ pt[c] <= bt.z
      /\ SafeSharing /\ Narrowed = {} => \A c \in Bufs : begv[c] = 1 /\ zv[c] = bt.z
      /\ bt.z \in Nat /\ bt.z > 0
  BY InvBounds, InvText
<1>2. ASSUME NEW x \in Nat, GotoChar(b, x)
      PROVE  /\ Inv' /\ AbstractStep
             /\ Pos[b] = pt[b] => Pos'[b] = pt'[b]
             /\ \A c \in Bufs : c # b => Pos'[c] = Pos[c] /\ pt'[c] = pt[c]
  <2>1. /\ Clamp(b, x) \in 1 .. bt.z /\ begv[b] <= Clamp(b, x) /\ Clamp(b, x) <= zv[b]
    BY <1>1, ClampVisible
  <2>2. SetPoint(b, Clamp(b, x)) /\ UNCHANGED <<begv, zv, advancing>>
    BY <1>2 DEF GotoChar
  <2>3. pt' = [pt EXCEPT ![b] = Clamp(b, x)]
    BY <2>2 DEF SetPoint
  <2>4. Bounds(pt', begv', zv', bt.z)
    BY <1>1, <2>1, <2>2, <2>3 DEF Bounds
  <2> QED BY <2>1, <2>2, <2>4, SetPointStep
<1>5. ASSUME NEW x \in Nat, SetPointMarker(b, x)
      PROVE  /\ Inv' /\ AbstractStep
             /\ Pos[b] = pt[b] => Pos'[b] = pt'[b]
             /\ \A c \in Bufs : c # b => Pos'[c] = Pos[c] /\ pt'[c] = pt[c]
  <2>1. ClipToBuffer(x) \in 1 .. bt.z
    BY <1>1 DEF ClipToBuffer
  <2>2. SetPoint(b, ClipToBuffer(x)) /\ UNCHANGED <<begv, zv, advancing>>
    BY <1>5 DEF SetPointMarker
  <2>3. pt' = [pt EXCEPT ![b] = ClipToBuffer(x)]
    BY <2>2 DEF SetPoint
  <2>4. Bounds(pt', begv', zv', bt.z)
    BY <1>1, <2>1, <2>2, <2>3 DEF Bounds
  <2> QED BY <2>1, <2>2, <2>4, SetPointStep
<1>3. ASSUME NEW x \in Nat, NEW y \in Nat, Narrow(b, x, y)
      PROVE  /\ Inv' /\ AbstractStep
             /\ Pos[b] = pt[b] => Pos'[b] = pt'[b]
             /\ \A c \in Bufs : c # b => Pos'[c] = Pos[c] /\ pt'[c] = pt[c]
  <2>1. /\ b \in Narrowed /\ x >= 1 /\ x <= y /\ y <= bt.z
        /\ begv' = [begv EXCEPT ![b] = x] /\ zv' = [zv EXCEPT ![b] = y]
        /\ advancing' = advancing /\ Narrowed # {}
    BY <1>3 DEF Narrow
  <2>2. CASE pt[b] < x
    <3>1. SetPoint(b, x)
      BY <1>3, <2>2 DEF Narrow
    <3>2. pt' = [pt EXCEPT ![b] = x]
      BY <3>1 DEF SetPoint
    <3>3. Bounds(pt', begv', zv', bt.z) /\ x \in 1 .. bt.z
      BY <1>1, <2>1, <3>2 DEF Bounds
    <3> QED BY <2>1, <3>1, <3>3, SetPointStep
  <2>3. CASE ~(pt[b] < x) /\ pt[b] > y
    <3>1. SetPoint(b, y)
      BY <1>3, <2>3 DEF Narrow
    <3>2. pt' = [pt EXCEPT ![b] = y]
      BY <3>1 DEF SetPoint
    <3>3. Bounds(pt', begv', zv', bt.z) /\ y \in 1 .. bt.z
      BY <1>1, <2>1, <3>2 DEF Bounds
    <3> QED BY <2>1, <3>1, <3>3, SetPointStep
  <2>4. CASE ~(pt[b] < x) /\ ~(pt[b] > y)
    <3>1. bt' = bt /\ pt' = pt
      BY <1>3, <2>4 DEF Narrow
    <3>2. Bounds(pt', begv', zv', bt.z)
      BY <1>1, <2>1, <2>4, <3>1 DEF Bounds
    <3> QED BY <2>1, <3>1, <3>2, BoundsStep
  <2> QED BY <2>2, <2>3, <2>4
<1>4. CASE Widen(b)
  <2>1. /\ begv' = [begv EXCEPT ![b] = 1] /\ zv' = [zv EXCEPT ![b] = bt.z]
        /\ bt' = bt /\ pt' = pt /\ advancing' = advancing
    BY <1>4 DEF Widen
  <2>2. \A c \in Bufs : pt[c] \in Int /\ 1 <= pt[c] /\ pt[c] <= bt.z
    BY <1>1
  <2>3. Bounds(pt', begv', zv', bt.z)
    BY <1>1, <2>1, <2>2 DEF Bounds
  <2> QED BY <2>1, <2>3, BoundsStep
<1> QED BY <1>2, <1>3, <1>4, <1>5

(* set-marker on an ordinary marker, and set-marker-insertion-type.        *)
LEMMA MarkerStep ==
  ASSUME Inv, NEW m \in Markers,
         \/ \E p \in Nat : SetMarker(m, p)
         \/ \E advance \in BOOLEAN : SetInsertionType(m, advance)
  PROVE  Inv' /\ AbstractStep /\ pt' = pt /\ \A c \in Bufs : Pos'[c] = Pos[c]
<1>1. m \in Marks /\ \A c \in Bufs : c \in Marks /\ c # m
  BY GapBufferAssumption DEF GapBufferAssumption, Marks
<1>2. /\ Represents(bt, bt.z - 1, Text, Pos) /\ bt.z \in Nat /\ bt.z > 0
      /\ advancing \subseteq Markers /\ Bounds(pt, begv, zv, bt.z) /\ Pos \in [Marks -> Int]
  BY InvText DEF Represents
<1>3. ASSUME NEW p \in Nat, SetMarker(m, p)
      PROVE  Inv' /\ AbstractStep /\ pt' = pt /\ \A c \in Bufs : Pos'[c] = Pos[c]
  <2>1. /\ bt' = [bt EXCEPT !.memind[m] = bytind_to_memind(bt, ClipToBuffer(p))]
        /\ pt' = pt /\ begv' = begv /\ zv' = zv /\ advancing' = advancing
    BY <1>3 DEF SetMarker
  <2>2. ClipToBuffer(p) \in 1 .. bt.z
    BY <1>2 DEF ClipToBuffer
  <2>3. Inv' /\ Pos' = [Pos EXCEPT ![m] = ClipToBuffer(p)] /\ AbstractStep
    BY <1>1, <1>2, <2>1, <2>2, MarkStep
  <2> QED BY <1>1, <1>2, <2>1, <2>3
<1>4. ASSUME NEW advance \in BOOLEAN, SetInsertionType(m, advance)
      PROVE  Inv' /\ AbstractStep /\ pt' = pt /\ \A c \in Bufs : Pos'[c] = Pos[c]
  <2>1. /\ advancing' = IF advance THEN advancing \cup {m} ELSE advancing \ {m}
        /\ bt' = bt /\ pt' = pt /\ begv' = begv /\ zv' = zv
    BY <1>4 DEF SetInsertionType
  <2>2. advancing' \subseteq Markers
    BY <1>2, <2>1
  <2>3. Bounds(pt', begv', zv', (bt.z - 1) + 1)
    BY <1>2, <2>1
  <2>4. Inv' /\ Text' = Text /\ Pos' = Pos
    BY <1>2, <2>1, <2>2, <2>3, InvNext
  <2>5. BT!SetInsertionType(m, advance)
    BY <2>1, <2>4 DEF BT!SetInsertionType
  <2> QED BY <1>1, <2>1, <2>4, <2>5 DEF AbstractStep, BT!Next
<1> QED BY <1>3, <1>4

(* A quit, or an insertion without room.                                   *)
LEMMA AbandonedStep ==
  ASSUME Inv, NarrowingValid, NEW b \in Bufs,
         \/ QuitMovingGap(b)
         \/ \E x \in Nat, s \in Strings : InsertNoRoom(b, x, s)
  PROVE  Inv' /\ AbstractStep /\ Pos' = Pos /\ pt' = pt
<1>1. /\ begv[b] \in Int /\ zv[b] \in Int /\ 1 <= begv[b] /\ zv[b] <= bt.z /\ bt.z \in Nat
      /\ bt.gpt \in Nat /\ 1 <= bt.gpt /\ bt.gpt <= bt.z
  BY InvBounds, InvText DEF Represents
<1>2. CASE QuitMovingGap(b)
  <2>1. PICK goal \in begv[b] .. zv[b] :
          \E stop \in (IF goal < bt.gpt THEN goal .. bt.gpt ELSE bt.gpt .. goal) :
            bt' = move_gap(bt, stop)
    BY <1>2 DEF QuitMovingGap
  <2>2. PICK stop \in (IF goal < bt.gpt THEN goal .. bt.gpt ELSE bt.gpt .. goal) :
          bt' = move_gap(bt, stop)
    BY <2>1
  <2>3. stop \in Nat /\ 1 <= stop /\ stop <= bt.z
    BY <1>1
  <2>4. UNCHANGED <<pt, begv, zv, advancing>>
    BY <1>2 DEF QuitMovingGap
  <2> QED BY <2>2, <2>3, <2>4, GapOnlyStep
<1>3. ASSUME NEW x \in Nat, NEW s \in Strings, InsertNoRoom(b, x, s)
      PROVE  Inv' /\ AbstractStep /\ Pos' = Pos /\ pt' = pt
  <2>1. Clamp(b, x) \in Nat /\ 1 <= Clamp(b, x) /\ Clamp(b, x) <= bt.z
    BY ClampVisible
  <2>2. bt' = move_gap(bt, Clamp(b, x)) /\ UNCHANGED <<pt, begv, zv, advancing>>
    BY <1>3 DEF InsertNoRoom
  <2> QED BY <2>1, <2>2, GapOnlyStep
<1> QED BY <1>2, <1>3

(* The initial state.                                                      *)
LEMMA InitInv ==
  ASSUME Init
  PROVE  Inv /\ BT!Init /\ PointInSync
<1> DEFINE txt == << >>
           at == [m \in Marks |-> 1]
<1>1. /\ SentinelSize \in {0, 1} /\ InitialGap \in Nat /\ InitialGap >= SentinelSize
      /\ Nul \in Bytes /\ Junk \in Bytes
  BY Constants DEF Bytes
<1>2. /\ bt = [mem |-> bt.mem, gpt |-> bt.gpt, gap |-> bt.gap, endGap |-> bt.endGap,
               z |-> bt.z, memind |-> bt.memind]
      /\ bt.gpt = 1 /\ bt.gap = InitialGap /\ bt.endGap = 0 /\ bt.z = 1
      /\ bt.memind = [m \in Marks |-> 1]
      /\ bt.mem \in [1 .. InitialGap + SentinelSize -> Bytes]
  BY <1>1 DEF Init
<1>3. 0 + bt.gap + bt.endGap + SentinelSize = InitialGap + SentinelSize
  BY <1>1, <1>2
<1>4. txt \in [1 .. 0 -> Chars] /\ \A i \in 1 .. 0 : FALSE
  OBVIOUS
<1>5. \A m \in Marks : at[m] \in 1 .. bt.z /\ bt.memind[m] = bytind_to_memind(bt, at[m])
  BY <1>2 DEF bytind_to_memind
<1>6. at \in [Marks -> Int] /\ bt.memind \in [Marks -> Int]
  BY <1>2
<1>7. Represents(bt, 0, txt, at)
  BY <1>1, <1>2, <1>3, <1>4, <1>5, <1>6 DEF Represents
<1>8. WF(bt) /\ bt.z = 0 + 1 /\ Content(bt) = txt /\ Places(bt) = at
  BY <1>7, WFIntro
<1>9. Bounds(pt, begv, zv, bt.z) /\ advancing \subseteq Markers /\ advancing = {}
  BY <1>2 DEF Init, Bounds
<1>10. Inv
  BY <1>8, <1>9, InvParts
<1>11. Text = txt /\ Pos = at
  BY <1>8 DEF Text, Content, Pos, Places
<1>12. BT!Init
  BY <1>9, <1>11 DEF BT!Init
<1>13. PointInSync
  BY <1>2 DEF Init, PointInSync, memind_to_bytind, Marks
<1> QED BY <1>10, <1>12, <1>13

(* Every step.                                                             *)
LEMMA NextStep ==
  ASSUME Inv, NarrowingValid, [Next]_vars
  PROVE  Inv' /\ AbstractStep
<1>1. Positions \subseteq Nat
  BY Constants DEF Positions
<1>2. CASE UNCHANGED vars
  <2>1. bt' = bt /\ advancing' = advancing /\ pt' = pt /\ begv' = begv /\ zv' = zv
    BY <1>2 DEF vars
  <2> QED BY <2>1, InvText, BoundsStep
<1>3. ASSUME NEW b \in Bufs, NEW p \in Positions, NEW s \in Strings, NEW moves \in BOOLEAN,
             NEW before \in BOOLEAN, before => moves, Insert(b, p, s, moves, before)
      PROVE  Inv' /\ AbstractStep
  BY <1>1, <1>3, InsertStep
<1>4. ASSUME NEW b \in Bufs, NEW p \in Positions, NEW s \in Strings, InsertNoRoom(b, p, s)
      PROVE  Inv' /\ AbstractStep
  BY <1>1, <1>4, AbandonedStep
<1>5. ASSUME NEW b \in Bufs, NEW p \in Positions, NEW q \in Positions, Delete(b, p, q)
      PROVE  Inv' /\ AbstractStep
  BY <1>1, <1>5, DeleteStep
<1>6. ASSUME NEW b \in Bufs, NEW p \in Positions, NEW ch \in Chars, ReplaceChar(b, p, ch)
      PROVE  Inv' /\ AbstractStep
  BY <1>1, <1>6, ReplaceStep
<1>7. ASSUME NEW b \in Bufs, QuitMovingGap(b)
      PROVE  Inv' /\ AbstractStep
  BY <1>7, AbandonedStep
<1>8. ASSUME NEW b \in Bufs, NEW p \in Positions, GotoChar(b, p)
      PROVE  Inv' /\ AbstractStep
  BY <1>1, <1>8, ViewStep
<1>9. ASSUME NEW b \in Bufs, NEW p \in Positions, SetPointMarker(b, p)
      PROVE  Inv' /\ AbstractStep
  BY <1>1, <1>9, ViewStep
<1>10. ASSUME NEW b \in Bufs, NEW p \in Positions, NEW q \in Positions, Narrow(b, p, q)
       PROVE  Inv' /\ AbstractStep
  BY <1>1, <1>10, ViewStep
<1>11. ASSUME NEW b \in Bufs, Widen(b)
       PROVE  Inv' /\ AbstractStep
  BY <1>11, ViewStep
<1>12. ASSUME NEW m \in Markers, NEW p \in Positions, SetMarker(m, p)
       PROVE  Inv' /\ AbstractStep
  BY <1>1, <1>12, MarkerStep
<1>13. ASSUME NEW m \in Markers, NEW advance \in BOOLEAN, SetInsertionType(m, advance)
       PROVE  Inv' /\ AbstractStep
  BY <1>13, MarkerStep
<1> QED BY <1>2, <1>3, <1>4, <1>5, <1>6, <1>7, <1>8, <1>9, <1>10, <1>11, <1>12, <1>13 DEF Next

(* The memory and its gap are always well formed, whatever the markers,    *)
(* strings and sizes.                                                      *)
THEOREM TypeCorrect ==
  ASSUME SafeSharing
  PROVE  Spec => []TypeOK
<1>1. Init => Inv
  BY InitInv
<1>2. Inv /\ [Next]_vars => Inv'
  BY NextStep DEF Inv
<1>3. Inv => TypeOK
  BY DEF Inv, WF, TypeOK
<1> QED BY <1>1, <1>2, <1>3, PTL DEF Spec

(* No marker is ever inside the gap or behind the text.                    *)
THEOREM MarkersAlwaysValid ==
  ASSUME SafeSharing
  PROVE  Spec => []MarkersValid
<1>1. Init => Inv
  BY InitInv
<1>2. Inv /\ [Next]_vars => Inv'
  BY NextStep DEF Inv
<1>3. Inv => MarkersValid
  BY DEF Inv, WF, MarkersValid
<1> QED BY <1>1, <1>2, <1>3, PTL DEF Spec

(* The accessible part of a buffer is always a part of the text, and point *)
(* a position of it.                                                       *)
THEOREM NarrowingAlwaysValid ==
  ASSUME SafeSharing
  PROVE  Spec => []NarrowingValid
<1>1. Init => Inv
  BY InitInv
<1>2. Inv /\ [Next]_vars => Inv'
  BY NextStep DEF Inv
<1>3. Inv => NarrowingValid
  BY DEF Inv
<1> QED BY <1>1, <1>2, <1>3, PTL DEF Spec

(* A step that is not set-marker on the point marker of B keeps the point  *)
(* of B in the accessible part.                                            *)
LEMMA VisibleStep ==
  ASSUME SafeSharing, Inv, NarrowingValid, [Next]_vars, NEW b \in Bufs, Visible(b)
  PROVE  Visible(b)' \/ \E p \in Positions : SetPointMarker(b, p)
<1>1. Positions \subseteq Nat
  BY Constants DEF Positions
<1>2. /\ pt \in [Bufs -> Int] /\ begv \in [Bufs -> Int] /\ zv \in [Bufs -> Int]
      /\ pt[b] \in Int /\ begv[b] \in Int /\ zv[b] \in Int
      /\ 1 <= begv[b] /\ begv[b] <= zv[b] /\ zv[b] <= bt.z
      /\ begv[b] <= pt[b] /\ pt[b] <= zv[b]
  BY InvBounds DEF Visible
<1>3. CASE UNCHANGED <<pt, begv, zv>>
  BY <1>3 DEF Visible
<1>4. ASSUME NEW c \in Bufs, NEW x \in Positions, NEW s \in Strings, NEW moves \in BOOLEAN,
             NEW before \in BOOLEAN, Insert(c, x, s, moves, before)
      PROVE  Visible(b)'
  <2> DEFINE p == Clamp(c, x)
             len == Len(s)
  <2>1. /\ p \in Nat /\ begv[b] <= p /\ p <= zv[b]
    BY <1>1, ClampVisible
  <2>2. len \in Nat
    BY Constants, StringParts DEF IsString
  <2>3. /\ pt' = [d \in Bufs |-> IF moves /\ d = c THEN p + len
                                 ELSE IF pt[d] > p THEN pt[d] + len ELSE pt[d]]
        /\ zv' = [d \in Bufs |-> zv[d] + len] /\ begv' = begv
    BY <1>4 DEF Insert
  <2> HIDE DEF p, len
  <2>4. pt'[b] \in {p + len, pt[b] + len} \/ pt'[b] = pt[b]
    BY <2>3
  <2> QED BY <1>2, <2>1, <2>2, <2>3, <2>4 DEF Visible
<1>5. ASSUME NEW c \in Bufs, NEW x \in Positions, NEW y \in Positions, Delete(c, x, y)
      PROVE  Visible(b)'
  <2> DEFINE p == IF x < begv[c] THEN begv[c] ELSE x
             q == IF y > zv[c] THEN zv[c] ELSE y
  <2>1. begv[c] = begv[b] /\ zv[c] = zv[b]
    BY SameBounds
  <2>2. p \in Int /\ q \in Int /\ begv[b] <= p /\ q <= zv[b] /\ x \in Nat /\ y \in Nat
    BY <1>1, <1>2, <2>1
  <2>3. /\ q - p > 0
        /\ pt' = [d \in Bufs |-> IF p < pt[d]
                                 THEN IF pt[d] < q THEN p ELSE pt[d] - (q - p) ELSE pt[d]]
        /\ zv' = [d \in Bufs |-> zv[d] - (q - p)] /\ begv' = begv
    BY <1>5 DEF Delete
  <2> HIDE DEF p, q
  <2>4. /\ pt'[b] = IF p < pt[b] THEN IF pt[b] < q THEN p ELSE pt[b] - (q - p) ELSE pt[b]
        /\ zv'[b] = zv[b] - (q - p) /\ begv'[b] = begv[b]
    BY <2>3
  <2> QED BY <1>2, <2>2, <2>3, <2>4 DEF Visible
<1>6. ASSUME NEW c \in Bufs, NEW x \in Positions, GotoChar(c, x)
      PROVE  Visible(b)'
  <2>1. begv[b] <= Clamp(c, x) /\ Clamp(c, x) <= zv[b]
    BY <1>1, ClampVisible
  <2>2. pt' = [pt EXCEPT ![c] = Clamp(c, x)] /\ UNCHANGED <<begv, zv>>
    BY <1>6 DEF GotoChar, SetPoint
  <2> QED BY <1>2, <2>1, <2>2 DEF Visible
<1>7. ASSUME NEW c \in Bufs, c # b, NEW x \in Positions, SetPointMarker(c, x)
      PROVE  Visible(b)'
  BY <1>2, <1>7 DEF SetPointMarker, SetPoint, Visible
<1>8. ASSUME NEW c \in Bufs, NEW x \in Positions, NEW y \in Positions, Narrow(c, x, y)
      PROVE  Visible(b)'
  <2>1. /\ x \in Nat /\ y \in Nat /\ x <= y
        /\ begv' = [begv EXCEPT ![c] = x] /\ zv' = [zv EXCEPT ![c] = y]
        /\ pt' = [pt EXCEPT ![c] = IF pt[c] < x THEN x ELSE IF pt[c] > y THEN y ELSE pt[c]]
    BY <1>1, <1>2, <1>8 DEF Narrow, SetPoint
  <2>2. CASE c = b
    BY <1>2, <2>1, <2>2 DEF Visible
  <2>3. CASE c # b
    BY <1>2, <2>1, <2>3 DEF Visible
  <2> QED BY <2>2, <2>3
<1>9. ASSUME NEW c \in Bufs, Widen(c)
      PROVE  Visible(b)'
  <2>1. bt.z \in Nat /\ 1 <= pt[b] /\ pt[b] <= bt.z
    BY <1>2, InvText
  <2> QED BY <1>2, <1>9, <2>1 DEF Widen, Visible
<1> QED
  BY <1>3, <1>4, <1>5, <1>6, <1>7, <1>8, <1>9
     DEF Next, vars, InsertNoRoom, ReplaceChar, QuitMovingGap, SetMarker, SetInsertionType

(* Point never leaves the accessible part of its buffer but by set-marker  *)
(* on the point marker.                                                    *)
THEOREM PointAlwaysStaysVisible ==
  ASSUME SafeSharing
  PROVE  Spec => PointStaysVisible
<1>1. Init => Inv
  BY InitInv
<1>2. Inv /\ [Next]_vars => Inv'
  BY NextStep DEF Inv
<1>3. Inv /\ [Next]_vars =>
        [\A b \in Bufs : Visible(b) => Visible(b)' \/ \E p \in Positions : SetPointMarker(b, p)]_vars
  BY VisibleStep DEF Inv
<1> QED BY <1>1, <1>2, <1>3, PTL DEF Spec, PointStaysVisible

(* The gap buffer implements BufferText.                                   *)
THEOREM GapBufferImplements ==
  ASSUME SafeSharing
  PROVE  Spec => Implements
<1>1. Init => Inv /\ BT!Init
  BY InitInv
<1>2. Inv /\ [Next]_vars => Inv' /\ [BT!Next]_<<Text, Pos, advancing>>
  BY NextStep DEF AbstractStep, Inv
<1> QED BY <1>1, <1>2, PTL DEF Spec, Implements, BT!Spec, BT!textVars

\* A buffer that shares its text with no other.
SingleBuffer == \E b : Bufs = {b}

\* An insertion with the flag INSDEL_BEFORE_MARKERS, that of
\* insert-before-markers.
InsertsBeforeMarkers ==
  \E b \in Bufs, p \in Positions, s \in Strings : Insert(b, p, s, TRUE, TRUE)

(* A step keeps point and its marker together, in every buffer unless it   *)
(* is an insertion before markers into a text that is shared.              *)
LEMMA SyncStep ==
  ASSUME Inv, NarrowingValid, PointInSync, [Next]_vars, SingleBuffer \/ ~InsertsBeforeMarkers
  PROVE  PointInSync'
<1> DEFINE Sync == \A c \in Bufs : Pos[c] = pt[c]
<1>1. (\A b, c \in Bufs : b = c) \/ ~InsertsBeforeMarkers
  BY DEF SingleBuffer
<1>2. Sync
  BY DEF PointInSync, Pos, Marks
<1>3. SUFFICES Sync'
  BY DEF PointInSync, Pos, Marks, memind_to_bytind
<1>4. Positions \subseteq Nat /\ \A c \in Bufs : c \in Marks
  BY Constants DEF Positions, Marks
<1>5. CASE UNCHANGED vars
  <2>1. bt' = bt /\ advancing' = advancing /\ pt' = pt /\ begv' = begv /\ zv' = zv
    BY <1>5 DEF vars
  <2>2. Pos' = Pos
    BY <2>1, InvText, BoundsStep
  <2> QED BY <1>2, <2>1, <2>2
<1>6. ASSUME NEW b \in Bufs, NEW p \in Positions, NEW s \in Strings, NEW moves \in BOOLEAN,
             NEW before \in BOOLEAN, before => moves, Insert(b, p, s, moves, before)
      PROVE  Sync'
  <2>1. /\ Pos'[b] = pt'[b]
        /\ ~before => \A c \in Bufs : c # b => Pos'[c] = pt'[c]
    BY <1>2, <1>4, <1>6, InsertStep
  <2>2. CASE before
    <3>1. InsertsBeforeMarkers
      BY <1>6, <2>2 DEF InsertsBeforeMarkers
    <3> QED BY <1>1, <2>1, <3>1
  <2>3. CASE ~before
    BY <2>1, <2>3
  <2> QED BY <2>2, <2>3
<1>7. ASSUME NEW b \in Bufs, NEW p \in Positions, NEW s \in Strings, InsertNoRoom(b, p, s)
      PROVE  Sync'
  <2>1. Pos' = Pos /\ pt' = pt
    BY <1>4, <1>7, AbandonedStep
  <2> QED BY <1>2, <2>1
<1>8. ASSUME NEW b \in Bufs, NEW p \in Positions, NEW q \in Positions, Delete(b, p, q)
      PROVE  Sync'
  BY <1>2, <1>4, <1>8, DeleteStep
<1>9. ASSUME NEW b \in Bufs, NEW p \in Positions, NEW ch \in Chars, ReplaceChar(b, p, ch)
      PROVE  Sync'
  <2>1. Pos' = Pos /\ pt' = pt
    BY <1>4, <1>9, ReplaceStep
  <2> QED BY <1>2, <2>1
<1>10. ASSUME NEW b \in Bufs, QuitMovingGap(b)
       PROVE  Sync'
  <2>1. Pos' = Pos /\ pt' = pt
    BY <1>10, AbandonedStep
  <2> QED BY <1>2, <2>1
<1>11. ASSUME NEW b \in Bufs,
              \/ \E p \in Positions : GotoChar(b, p) \/ SetPointMarker(b, p)
              \/ \E p, q \in Positions : Narrow(b, p, q)
              \/ Widen(b)
       PROVE  Sync'
  <2>1. Pos'[b] = pt'[b] /\ \A c \in Bufs : c # b => Pos'[c] = Pos[c] /\ pt'[c] = pt[c]
    BY <1>2, <1>4, <1>11, ViewStep
  <2> QED BY <1>2, <2>1
<1>12. ASSUME NEW m \in Markers,
              \/ \E p \in Positions : SetMarker(m, p)
              \/ \E advance \in BOOLEAN : SetInsertionType(m, advance)
       PROVE  Sync'
  <2>1. pt' = pt /\ \A c \in Bufs : Pos'[c] = Pos[c]
    BY <1>4, <1>12, MarkerStep
  <2> QED BY <1>2, <2>1
<1> HIDE DEF Sync
<1> QED BY <1>5, <1>6, <1>7, <1>8, <1>9, <1>10, <1>11, <1>12 DEF Next

(* Point and the point marker of an ordinary buffer are always the same    *)
(* place, although one is kept as a position and the other as a memory     *)
(* index.                                                                  *)
THEOREM PointAlwaysInSync ==
  ASSUME SingleBuffer
  PROVE  Spec => []PointInSync
<1>1. Inv => NarrowingValid
  BY DEF SingleBuffer, SafeSharing, Inv
<1>2. Init => Inv /\ PointInSync
  BY InitInv
<1>3. Inv /\ PointInSync /\ [Next]_vars => Inv' /\ PointInSync'
  BY <1>1, NextStep, SyncStep
<1> QED BY <1>2, <1>3, PTL DEF Spec

(* They are in any buffers that share a text, as long as an edit has broken *)
(* the narrowing of none and nothing is inserted before markers.            *)
THEOREM SharedPointsInSync ==
  Spec /\ []NarrowingValid /\ [][~InsertsBeforeMarkers]_vars => []PointInSync
<1>1. Init => Inv /\ PointInSync
  BY InitInv
<1>2. ASSUME Inv, NarrowingValid, PointInSync, [Next]_vars, [~InsertsBeforeMarkers]_vars
      PROVE  Inv' /\ PointInSync'
  <2>1. Inv'
    BY <1>2, NextStep
  <2>2. CASE ~InsertsBeforeMarkers
    BY <1>2, <2>1, <2>2, SyncStep
  <2>3. CASE UNCHANGED vars
    BY <1>2, <2>1, <2>3 DEF vars, PointInSync, memind_to_bytind
  <2> QED BY <1>2, <2>1, <2>2, <2>3
<1> QED BY <1>1, <1>2, PTL DEF Spec

-----------------------------------------------------------------------------
(* The sentinel at the beginning of the gap.                               *)

Guarded(T) == SentinelSize = 1 => T.mem[T.gpt] = Nul

(* What the proofs use of a memory with sentinels: where its bytes are.    *)
LEMMA GuardParts ==
  ASSUME NEW T, NEW n, NEW txt, NEW at, Represents(T, n, txt, at), SentinelSize = 1
  PROVE  /\ n \in Nat /\ T.z = n + 1 /\ T.gap \in Nat /\ T.endGap \in Nat /\ T.gap >= 1
         /\ T.gpt \in Nat /\ 1 <= T.gpt /\ T.gpt <= T.z
         /\ DOMAIN T.mem = 1 .. n + T.gap + T.endGap + 1
BY DEF Represents

(* A sentinel is there when it has been set, and nothing else has changed. *)
LEMMA SentinelThere ==
  ASSUME SentinelSize = 1, NEW mem, NEW at \in DOMAIN mem
  PROVE  /\ SetSentinel(mem, at)[at] = Nul
         /\ DOMAIN SetSentinel(mem, at) = DOMAIN mem
         /\ \A i \in DOMAIN mem : i # at => SetSentinel(mem, at)[i] = mem[i]
BY DEF SetSentinel

(* gap_left sets it.                                                       *)
LEMMA GapLeftGuarded ==
  ASSUME NEW T, NEW n, NEW txt, NEW at, Represents(T, n, txt, at),
         NEW pos \in Nat, 1 <= pos, pos <= T.gpt
  PROVE  Guarded(GapLeft(T, pos))
<1> SUFFICES ASSUME SentinelSize = 1 PROVE GapLeft(T, pos).mem[GapLeft(T, pos).gpt] = Nul
  BY DEF Guarded
<1> DEFINE moved == [i \in DOMAIN T.mem |->
                       IF i \in pos .. pos + T.gap - 1 THEN Junk
                       ELSE IF i \in pos + T.gap .. T.gpt + T.gap - 1 THEN T.mem[i - T.gap]
                       ELSE T.mem[i]]
<1>1. GapLeft(T, pos).mem = SetSentinel(moved, pos) /\ GapLeft(T, pos).gpt = pos
  BY DEF GapLeft
<1>2. pos \in DOMAIN T.mem
  BY GuardParts
<1>3. DOMAIN moved = DOMAIN T.mem
  OBVIOUS
<1> HIDE DEF moved
<1> QED BY <1>1, <1>2, <1>3, SentinelThere

(* So does gap_right.                                                      *)
LEMMA GapRightGuarded ==
  ASSUME NEW T, NEW n, NEW txt, NEW at, Represents(T, n, txt, at),
         NEW pos \in Nat, T.gpt <= pos, pos <= T.z
  PROVE  Guarded(GapRight(T, pos))
<1> SUFFICES ASSUME SentinelSize = 1 PROVE GapRight(T, pos).mem[GapRight(T, pos).gpt] = Nul
  BY DEF Guarded
<1> DEFINE moved == [i \in DOMAIN T.mem |->
                       IF i \in pos .. pos + T.gap - 1 THEN Junk
                       ELSE IF i \in T.gpt .. pos - 1 THEN T.mem[i + T.gap]
                       ELSE T.mem[i]]
           end == T.z + T.gap + T.endGap
<1>1. /\ GapRight(T, pos).mem = IF pos = T.z THEN SetSentinel(SetSentinel(moved, pos), end)
                                ELSE SetSentinel(moved, pos)
      /\ GapRight(T, pos).gpt = pos
  BY DEF GapRight, Slide
<1>2. pos \in DOMAIN T.mem /\ end \in DOMAIN T.mem /\ pos # end
  BY GuardParts, SMTT(30)
<1>3. DOMAIN moved = DOMAIN T.mem
  OBVIOUS
<1> HIDE DEF moved, end
<1>4. SetSentinel(moved, pos)[pos] = Nul /\ DOMAIN SetSentinel(moved, pos) = DOMAIN T.mem
  BY <1>2, <1>3, SentinelThere
<1>5. SetSentinel(SetSentinel(moved, pos), end)[pos] = Nul
  BY <1>2, <1>4, SentinelThere
<1> QED BY <1>1, <1>4, <1>5

(* And a gap that is where it should be keeps it.                          *)
LEMMA MoveGapGuarded ==
  ASSUME NEW T, NEW n, NEW txt, NEW at, Represents(T, n, txt, at), Guarded(T),
         NEW pos \in Nat, 1 <= pos, pos <= T.z
  PROVE  Guarded(move_gap(T, pos))
<1>1. T.gpt \in Nat /\ T.z \in Nat
  BY DEF Represents
<1>2. CASE pos < T.gpt
  BY <1>1, <1>2, GapLeftGuarded DEF move_gap
<1>3. CASE pos > T.gpt
  BY <1>1, <1>3, GapRightGuarded DEF move_gap
<1>4. CASE pos = T.gpt
  BY <1>1, <1>4 DEF move_gap
<1> QED BY <1>1, <1>2, <1>3, <1>4

(* Growing the gap sets it again.                                          *)
LEMMA ExtendGapGuarded ==
  ASSUME NEW T, NEW n, NEW txt, NEW at, Represents(T, n, txt, at),
         NEW inc \in Nat, NEW mem, DOMAIN mem = 1 .. n + T.gap + inc + SentinelSize
  PROVE  Guarded(ExtendGap(T, mem, inc))
<1> DEFINE R == ExtendGap(T, mem, inc)
<1> SUFFICES ASSUME SentinelSize = 1 PROVE R.mem[R.gpt] = Nul
  BY DEF Guarded
<1> DEFINE lo == T.gpt + T.gap
           pretended == [mem |-> mem, gpt |-> T.z + T.gap, gap |-> inc, endGap |-> 0,
                         z |-> T.z, memind |-> T.memind]
           L == GapLeft(pretended, lo)
           gone == Forget(L.mem, T.gpt, T.gpt + T.gap + inc - 1)
           end == T.z + T.gap + inc
<1>1. R.mem = SetSentinel(SetSentinel(gone, T.gpt), end) /\ R.gpt = T.gpt
  BY DEF ExtendGap
<1>2. T.gpt \in DOMAIN mem /\ lo \in DOMAIN mem /\ end \in DOMAIN mem /\ T.gpt # end
  BY GuardParts, SMTT(30)
<1>3. DOMAIN L.mem = DOMAIN mem
  <2> DEFINE moved == [i \in DOMAIN mem |->
                         IF i \in lo .. lo + inc - 1 THEN Junk
                         ELSE IF i \in lo + inc .. T.z + T.gap + inc - 1 THEN mem[i - inc]
                         ELSE mem[i]]
  <2>1. L.mem = SetSentinel(moved, lo)
    BY DEF GapLeft
  <2>2. DOMAIN moved = DOMAIN mem
    OBVIOUS
  <2> HIDE DEF L, moved
  <2> QED BY <1>2, <2>1, <2>2, SentinelThere, ZenonT(30)
<1> HIDE DEF L
<1>4. DOMAIN gone = DOMAIN mem
  BY <1>3 DEF Forget
<1> HIDE DEF gone, R, end
<1> DEFINE joined == SetSentinel(gone, T.gpt)
<1>5. joined[T.gpt] = Nul /\ DOMAIN joined = DOMAIN mem
  BY <1>2, <1>4, SentinelThere
<1>6. R.mem = SetSentinel(joined, end)
  BY <1>1
<1> HIDE DEF joined
<1>7. end \in DOMAIN joined /\ T.gpt \in DOMAIN joined /\ T.gpt # end
  BY <1>2, <1>5
<1>8. SetSentinel(joined, end)[T.gpt] = joined[T.gpt]
  BY <1>7, SentinelThere
<1> QED BY <1>1, <1>5, <1>6, <1>8

(* Making room keeps it or sets it again.                                  *)
LEMMA MakeRoomGuarded ==
  ASSUME NEW T, NEW n, NEW txt, NEW at, Represents(T, n, txt, at), Guarded(T), NEW len \in Nat
  PROVE  Guarded(MakeRoom(T, len))
<1>1. /\ n \in Nat /\ T.z = n + 1 /\ T.gap \in Nat /\ T.endGap \in Nat
      /\ SentinelSize \in {0, 1} /\ GapSlack \in Nat
      /\ DOMAIN T.mem = 1 .. n + T.gap + T.endGap + SentinelSize
  BY Constants DEF Represents
<1>2. CASE GAP_CAN_HOLD_SIZE_P(T, len)
  BY <1>2 DEF MakeRoom
<1>3. Guarded(ExtendGap(T, T.mem, T.endGap))
  BY <1>1, ExtendGapGuarded
<1>4. CASE ~GAP_CAN_HOLD_SIZE_P(T, len) /\ T.endGap >= len
  BY <1>3, <1>4 DEF MakeRoom, merge_gap_with_end_gap
<1>5. CASE ~GAP_CAN_HOLD_SIZE_P(T, len) /\ T.endGap < len
  <2> DEFINE inc == Increment(T, len - T.gap)
             realloc == [i \in 1 .. T.z - 1 + T.gap + inc + SentinelSize |->
                           IF i <= T.z - 1 + T.gap THEN T.mem[i] ELSE Junk]
  <2>1. n \div 8 \in Nat
    BY <1>1
  <2>2. inc = len - T.gap + GapSlack + (n \div 8)
    BY <1>1 DEF Increment
  <2>3. inc \in Nat
    BY <1>1, <1>5, <2>1, <2>2, SMTT(30) DEF GAP_CAN_HOLD_SIZE_P
  <2>4. MakeRoom(T, len) = IF inc > T.endGap THEN ExtendGap(T, realloc, inc)
                           ELSE ExtendGap(T, T.mem, T.endGap)
    BY <1>1, <1>5 DEF MakeRoom, make_gap
  <2> HIDE DEF inc
  <2>5. T.z - 1 = n
    BY <1>1
  <2>6. DOMAIN realloc = 1 .. n + T.gap + inc + SentinelSize
    BY <2>5
  <2> HIDE DEF realloc
  <2>7. Guarded(ExtendGap(T, realloc, inc))
    BY <2>3, <2>6, ExtendGapGuarded
  <2> QED BY <1>3, <2>4, <2>7
<1> QED BY <1>1, <1>2, <1>4, <1>5

(* An insertion sets it behind the string.                                 *)
LEMMA FillGuarded ==
  ASSUME NEW T, NEW n, NEW txt, NEW at, Represents(T, n, txt, at), NEW s, Fits(T, s)
  PROVE  Guarded(Fill(T, s))
<1> SUFFICES ASSUME SentinelSize = 1 PROVE Fill(T, s).mem[Fill(T, s).gpt] = Nul
  BY DEF Guarded
<1> DEFINE ind == T.gpt
           len == Len(s)
           filled == [i \in DOMAIN T.mem |->
                        IF i \in ind .. ind + len - 1 THEN s[i - ind + 1] ELSE T.mem[i]]
<1>1. Fill(T, s).mem = SetSentinel(filled, ind + len) /\ Fill(T, s).gpt = ind + len
  BY DEF Fill
<1>2. len \in Nat /\ T.gap >= len + 1
  BY StringParts DEF Fits, GAP_CAN_HOLD_SIZE_P
<1> HIDE DEF len
<1>3. ind + len \in DOMAIN T.mem
  BY <1>2, GuardParts, SMTT(30)
<1>4. DOMAIN filled = DOMAIN T.mem
  OBVIOUS
<1> HIDE DEF filled
<1> QED BY <1>1, <1>3, <1>4, SentinelThere

(* A deletion sets it where the gap begins then, or leaves it alone.       *)
LEMMA DeleteGuarded ==
  ASSUME NEW T, NEW n, NEW txt, NEW at, Represents(T, n, txt, at), Guarded(T),
         NEW p \in Nat, NEW q \in Nat, 1 <= p, p <= q, q <= T.z
  PROVE  Guarded(DeleteText(T, p, q))
<1> SUFFICES ASSUME SentinelSize = 1 PROVE Guarded(DeleteText(T, p, q))
  BY DEF Guarded
<1>1. /\ n \in Nat /\ T.z = n + 1 /\ T.gap \in Nat /\ T.endGap \in Nat /\ T.gap >= 1
      /\ T.gpt \in Nat /\ 1 <= T.gpt /\ T.gpt <= T.z
      /\ DOMAIN T.mem = 1 .. n + T.gap + T.endGap + 1
  BY GuardParts
<1>2. ASSUME NEW L, DOMAIN L.mem = DOMAIN T.mem
      PROVE  Guarded(DeleteAtGap(L, p, q))
  <2> DEFINE kept == Forget(L.mem, p, q + L.gap - 1)
  <2>1. DeleteAtGap(L, p, q).mem = SetSentinel(kept, p) /\ DeleteAtGap(L, p, q).gpt = p
    BY DEF DeleteAtGap
  <2>2. p \in DOMAIN T.mem
    BY <1>1
  <2>3. DOMAIN kept = DOMAIN T.mem
    BY <1>2 DEF Forget
  <2> HIDE DEF kept
  <2> QED BY <2>1, <2>2, <2>3, SentinelThere DEF Guarded
<1>3. CASE q = T.z /\ p > T.gpt
  <2> DEFINE R == DeleteBottom(T, p, q)
  <2>1. R.mem = Forget(T.mem, p + T.gap, q + T.gap) /\ R.gpt = T.gpt
    BY DEF DeleteBottom
  <2>2. T.gpt \in DOMAIN T.mem /\ T.gpt \notin p + T.gap .. q + T.gap
    BY <1>1, <1>3
  <2>3. R.mem[T.gpt] = T.mem[T.gpt]
    BY <2>1, <2>2 DEF Forget
  <2>4. DeleteText(T, p, q) = R
    BY <1>3 DEF DeleteText
  <2> HIDE DEF R
  <2> QED BY <2>1, <2>3, <2>4 DEF Guarded
<1>4. CASE ~(q = T.z /\ p > T.gpt) /\ q < T.gpt
  <2> DEFINE L == GapLeft(T, q)
  <2>1. Represents(L, n, txt, at)
    BY <1>1, <1>4, GapLeftSame
  <2>2. L.gap = T.gap /\ L.endGap = T.endGap
    BY DEF GapLeft
  <2> HIDE DEF L
  <2>3. DOMAIN L.mem = DOMAIN T.mem
    BY <1>1, <2>1, <2>2, GuardParts
  <2>4. DeleteText(T, p, q) = DeleteAtGap(L, p, q)
    BY <1>4 DEF DeleteText, L
  <2> QED BY <1>2, <2>3, <2>4
<1>5. CASE ~(q = T.z /\ p > T.gpt) /\ ~(q < T.gpt) /\ p > T.gpt
  <2> DEFINE L == GapRight(T, p)
  <2>1. Represents(L, n, txt, at)
    BY <1>1, <1>5, GapRightSame
  <2>2. L.gap = T.gap /\ L.endGap = T.endGap
    BY <1>1, <1>5 DEF GapRight
  <2> HIDE DEF L
  <2>3. DOMAIN L.mem = DOMAIN T.mem
    BY <1>1, <2>1, <2>2, GuardParts
  <2>4. DeleteText(T, p, q) = DeleteAtGap(L, p, q)
    BY <1>5 DEF DeleteText, L
  <2> QED BY <1>2, <2>3, <2>4
<1>6. CASE ~(q = T.z /\ p > T.gpt) /\ ~(q < T.gpt) /\ ~(p > T.gpt)
  BY <1>2, <1>6 DEF DeleteText
<1> QED BY <1>3, <1>4, <1>5, <1>6

(* Every step keeps the sentinel.                                          *)
LEMMA GuardedStep ==
  ASSUME Inv, NarrowingValid, Guarded(bt), [Next]_vars
  PROVE  Guarded(bt')
<1>1. Positions \subseteq Nat
  BY Constants DEF Positions
<1>2. /\ Represents(bt, bt.z - 1, Text, Pos)
      /\ bt = [mem |-> bt.mem, gpt |-> bt.gpt, gap |-> bt.gap, endGap |-> bt.endGap,
               z |-> bt.z, memind |-> bt.memind]
      /\ bt.z \in Nat /\ bt.gpt \in Nat /\ bt.gap \in Nat
  BY InvText DEF Represents
<1>3. ASSUME bt'.mem = bt.mem, bt'.gpt = bt.gpt PROVE Guarded(bt')
  BY <1>3 DEF Guarded
<1>4. CASE UNCHANGED vars
  BY <1>3, <1>4 DEF vars
<1>5. ASSUME NEW b \in Bufs, NEW p \in Positions, NEW s \in Strings, NEW moves \in BOOLEAN,
             NEW before \in BOOLEAN, Insert(b, p, s, moves, before)
      PROVE  Guarded(bt')
  <2> DEFINE ind == Clamp(b, p)
             len == Len(s)
             moved == move_gap(bt, ind)
             room == MakeRoom(moved, len)
             filled == Fill(room, s)
  <2>1. ind \in Nat /\ 1 <= ind /\ ind <= bt.z
    BY <1>1, ClampVisible
  <2>2. IsString(s) /\ len \in Nat
    BY Constants DEF IsString
  <2>3. bt'.mem = filled.mem /\ bt'.gpt = filled.gpt
    <3>1. filled = [mem |-> filled.mem, gpt |-> filled.gpt, gap |-> filled.gap,
                    endGap |-> filled.endGap, z |-> filled.z, memind |-> filled.memind]
      BY DEF Fill
    <3> DEFINE pointed == IF moves
                          THEN [filled EXCEPT !.memind[b] =
                                  PointMemind(filled, b, IF pt[b] > ind THEN pt[b] + len ELSE pt[b],
                                              ind + len)]
                          ELSE filled
    <3>2. bt' = IF before
                THEN [pointed EXCEPT !.memind = adjust_markers(pointed, ind - 1, ind, len)]
                ELSE pointed
      BY <1>5 DEF Insert
    <3> HIDE DEF filled
    <3>3. /\ pointed.mem = filled.mem /\ pointed.gpt = filled.gpt
          /\ pointed = [mem |-> pointed.mem, gpt |-> pointed.gpt, gap |-> pointed.gap,
                        endGap |-> pointed.endGap, z |-> pointed.z, memind |-> pointed.memind]
      BY <3>1
    <3> HIDE DEF pointed
    <3> QED BY <3>2, <3>3
  <2> HIDE DEF ind, len
  <2>4. Represents(moved, bt.z - 1, Text, Pos) /\ Guarded(moved)
    BY <1>2, <2>1, MoveGapSame, MoveGapGuarded
  <2> HIDE DEF moved
  <2>5. /\ Represents(room, bt.z - 1, Text, Pos) /\ Guarded(room)
        /\ GAP_CAN_HOLD_SIZE_P(room, len)
    BY <2>2, <2>4, MakeRoomSame, MakeRoomGuarded
  <2> HIDE DEF room
  <2>6. Guarded(filled)
    BY <2>2, <2>5, FillGuarded DEF Fits, len
  <2> QED BY <2>3, <2>6 DEF Guarded
<1>6. ASSUME NEW b \in Bufs, NEW p \in Positions, NEW s \in Strings, InsertNoRoom(b, p, s)
      PROVE  Guarded(bt')
  <2>1. bt' = move_gap(bt, Clamp(b, p))
    BY <1>6 DEF InsertNoRoom
  <2>2. Clamp(b, p) \in Nat /\ 1 <= Clamp(b, p) /\ Clamp(b, p) <= bt.z
    BY <1>1, ClampVisible
  <2> QED BY <1>2, <2>1, <2>2, MoveGapGuarded
<1>7. ASSUME NEW b \in Bufs, NEW p \in Positions, NEW q \in Positions, Delete(b, p, q)
      PROVE  Guarded(bt')
  <2> DEFINE from == IF p < begv[b] THEN begv[b] ELSE p
             to == IF q > zv[b] THEN zv[b] ELSE q
  <2>1. bt' = DeleteText(bt, from, to) /\ to - from > 0
    BY <1>7 DEF Delete
  <2>2. begv[b] \in Int /\ zv[b] \in Int /\ 1 <= begv[b] /\ zv[b] <= bt.z
    BY InvBounds
  <2>3. from \in Nat /\ to \in Nat /\ 1 <= from /\ from <= to /\ to <= bt.z
    BY <1>1, <1>2, <2>1, <2>2
  <2> HIDE DEF from, to
  <2> QED BY <1>2, <2>1, <2>3, DeleteGuarded
<1>8. ASSUME NEW b \in Bufs, NEW p \in Positions, NEW ch \in Chars, ReplaceChar(b, p, ch)
      PROVE  Guarded(bt')
  <2> DEFINE low == IF p < begv[b] THEN begv[b] ELSE p
             at == IF low >= zv[b] THEN zv[b] - 1 ELSE low
  <2> SUFFICES ASSUME SentinelSize = 1 PROVE bt'.mem[bt'.gpt] = Nul
    BY DEF Guarded
  <2>1. bt' = [bt EXCEPT !.mem[ByteAddress(bt, at)] = ch]
    BY <1>8 DEF ReplaceChar
  <2>2. at \in Int
    BY <1>1, InvBounds
  <2> HIDE DEF at
  <2>3. ByteAddress(bt, at) # bt.gpt /\ bt.gpt \in DOMAIN bt.mem
    <3>1. /\ bt.gap >= 1 /\ bt.endGap \in Nat /\ 1 <= bt.gpt /\ bt.gpt <= bt.z
          /\ bt.z = bt.z - 1 + 1 /\ DOMAIN bt.mem = 1 .. bt.z - 1 + bt.gap + bt.endGap + 1
      BY <1>2, GuardParts
    <3> QED BY <1>2, <2>2, <3>1 DEF ByteAddress
  <2>4. bt'.gpt = bt.gpt /\ bt'.mem = [bt.mem EXCEPT ![ByteAddress(bt, at)] = ch]
    BY <1>2, <2>1
  <2>5. bt'.mem[bt.gpt] = bt.mem[bt.gpt]
    BY <2>3, <2>4
  <2> QED BY <2>4, <2>5 DEF Guarded
<1>9. ASSUME NEW b \in Bufs, QuitMovingGap(b)
      PROVE  Guarded(bt')
  <2>1. PICK goal \in begv[b] .. zv[b] :
          \E stop \in (IF goal < bt.gpt THEN goal .. bt.gpt ELSE bt.gpt .. goal) :
            bt' = move_gap(bt, stop)
    BY <1>9 DEF QuitMovingGap
  <2>2. PICK stop \in (IF goal < bt.gpt THEN goal .. bt.gpt ELSE bt.gpt .. goal) :
          bt' = move_gap(bt, stop)
    BY <2>1
  <2>3. begv[b] \in Int /\ zv[b] \in Int /\ 1 <= begv[b] /\ zv[b] <= bt.z
    BY InvBounds
  <2>4. 1 <= bt.gpt /\ bt.gpt <= bt.z
    BY <1>2 DEF Represents
  <2>5. stop \in Nat /\ 1 <= stop /\ stop <= bt.z
    BY <1>2, <2>1, <2>2, <2>3, <2>4
  <2> QED BY <1>2, <2>2, <2>5, MoveGapGuarded
<1>10. ASSUME NEW b \in Bufs, NEW p, SetPoint(b, p)
       PROVE  Guarded(bt')
  <2>1. bt'.mem = bt.mem /\ bt'.gpt = bt.gpt
    BY <1>2, <1>10 DEF SetPoint
  <2> QED BY <1>3, <2>1
<1>11. ASSUME NEW b \in Bufs,
              \/ \E p \in Positions : GotoChar(b, p) \/ SetPointMarker(b, p)
              \/ \E p, q \in Positions : Narrow(b, p, q)
              \/ Widen(b)
       PROVE  Guarded(bt')
  <2>1. (\E p : SetPoint(b, p)) \/ bt' = bt
    BY <1>11 DEF GotoChar, SetPointMarker, Narrow, Widen
  <2> QED BY <1>3, <1>10, <2>1
<1>12. ASSUME NEW m \in Markers,
              \/ \E p \in Positions : SetMarker(m, p)
              \/ \E advance \in BOOLEAN : SetInsertionType(m, advance)
       PROVE  Guarded(bt')
  <2>1. bt'.mem = bt.mem /\ bt'.gpt = bt.gpt
    BY <1>2, <1>12 DEF SetMarker, SetInsertionType
  <2> QED BY <1>3, <2>1
<1> QED BY <1>4, <1>5, <1>6, <1>7, <1>8, <1>9, <1>11, <1>12 DEF Next

(* The sentinel of a new buffer.                                           *)
LEMMA InitGuarded ==
  ASSUME Init
  PROVE  Inv /\ Guarded(bt)
<1>1. Inv
  BY InitInv
<1>2. Guarded(bt)
  <2> SUFFICES ASSUME SentinelSize = 1 PROVE bt.mem[bt.gpt] = Nul
    BY DEF Guarded
  <2>1. 1 \in 1 .. InitialGap + SentinelSize
    BY Constants
  <2> QED BY <2>1 DEF Init
<1> QED BY <1>1, <1>2

(* Where there is a sentinel there is a gap.                               *)
LEMMA GuardedSentinel ==
  ASSUME Inv, Guarded(bt)
  PROVE  GapSentinel
<1>1. bt.gap \in Nat /\ bt.gap >= SentinelSize
  BY WFParts DEF Inv
<1> QED BY <1>1 DEF GapSentinel, Guarded

(* In a build with Mule there is always a zero byte at the beginning of    *)
(* the gap, which stops the scans for the end of a character.              *)
THEOREM GapAlwaysGuarded ==
  ASSUME SafeSharing
  PROVE  Spec => []GapSentinel
<1>1. Init => Inv /\ Guarded(bt)
  BY InitGuarded
<1>2. Inv /\ Guarded(bt) /\ [Next]_vars => Inv' /\ Guarded(bt')
  BY NextStep, GuardedStep DEF Inv
<1>3. Inv /\ Guarded(bt) => GapSentinel
  BY GuardedSentinel
<1>4. Guarded(bt)' <=> Guarded(bt')
  BY DEF Guarded
<1> QED BY <1>1, <1>2, <1>3, <1>4, PTL DEF Spec

-----------------------------------------------------------------------------
(* Buffers that share a text and are narrowed.                             *)

(* Whichever buffers share a text and are narrowed: as long as no edit has *)
(* broken the narrowing of one, memory, markers and sentinel are in order. *)
THEOREM SoundWhileNarrowingValid ==
  Spec /\ []NarrowingValid => [](TypeOK /\ MarkersValid /\ GapSentinel)
<1>1. Init => Inv /\ Guarded(bt)
  BY InitGuarded
<1>2. Inv /\ Guarded(bt) /\ NarrowingValid /\ [Next]_vars => Inv' /\ Guarded(bt')
  BY NextStep, GuardedStep
<1>3. Inv /\ Guarded(bt) => TypeOK /\ MarkersValid /\ GapSentinel
  BY GuardedSentinel DEF Inv, WF, TypeOK, MarkersValid
<1>4. Guarded(bt)' <=> Guarded(bt')
  BY DEF Guarded
<1> QED BY <1>1, <1>2, <1>3, <1>4, PTL DEF Spec

(* And the gap buffer implements BufferText: nothing but the narrowing     *)
(* that an edit in another buffer breaks can go wrong.                     *)
THEOREM ImplementsWhileNarrowingValid ==
  Spec /\ []NarrowingValid => Implements
<1>1. Init => Inv /\ BT!Init
  BY InitInv
<1>2. Inv /\ NarrowingValid /\ [Next]_vars => Inv' /\ [BT!Next]_<<Text, Pos, advancing>>
  BY NextStep DEF AbstractStep
<1> QED BY <1>1, <1>2, PTL DEF Spec, Implements, BT!Spec, BT!textVars
=============================================================================
