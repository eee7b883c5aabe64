-------------------------- MODULE UndoSavedProofs --------------------------
(***************************************************************************)
(* Proof that an unmodified buffer has the text of its file, or one that   *)
(* Lisp has called unmodified, for any characters, strings and thresholds. *)
(***************************************************************************)
EXTENDS UndoProofs

-----------------------------------------------------------------------------
(* Records of a save in a list.                                            *)

IsChange(e) == e.kind \in {"insert", "delete"}

\* A record of the save at time N that stands at a text other than those of F:
\* record_change puts one in the middle of a replacement.
Wrong(e, n, f) == e.kind = "saved" /\ e.time = n /\ e.was \notin f

\* An element that changes something if it is undone, of time N or before.
Firm(e, n) ==
  /\ e.kind = "insert" => e.beg < e.end
  /\ e.kind = "delete" => e.str # << >>
  /\ e.time <= n
Solid(l, n) == \A i \in 1 .. Len(l) : Firm(l[i], n)

\* A wrong record is in the middle of two changes, so that primitive-undo
\* does not stop at it and a list is not cut behind it.
Enclosed(l, n, f) ==
  \A i \in 1 .. Len(l) : Wrong(l[i], n, f) =>
    /\ i + 1 <= Len(l) /\ IsChange(l[i + 1])
    /\ i > 1 => IsChange(l[i - 1])

\* Nor is a wrong record in front of the list.
Fine(l, n, f) == Enclosed(l, n, f) /\ (Len(l) > 0 => ~Wrong(l[1], n, f))

(* An element in front of a list.                                          *)
LEMMA ConsEnclosed ==
  ASSUME NEW e \in Entries, NEW l \in Seq(Entries), NEW n, NEW f, Enclosed(l, n, f),
         Wrong(e, n, f) => Len(l) > 0 /\ IsChange(l[1]),
         Len(l) > 0 /\ Wrong(l[1], n, f) => IsChange(e)
  PROVE  Enclosed(Cons(e, l), n, f)
<1> DEFINE m == Cons(e, l)
<1>0. Len(l) \in Nat
  OBVIOUS
<1>1. /\ Len(m) = Len(l) + 1 /\ m[1] = e /\ Len(l) \in Nat
      /\ \A i \in 2 .. Len(l) + 1 : m[i] = l[i - 1]
  BY <1>0, ConsIs
<1> HIDE DEF m
<1>2. ASSUME NEW i \in 1 .. Len(m), Wrong(m[i], n, f)
      PROVE  i + 1 <= Len(m) /\ IsChange(m[i + 1]) /\ (i > 1 => IsChange(m[i - 1]))
  <2>1. CASE i = 1
    <3>1. Len(l) > 0 /\ IsChange(l[1])
      BY <1>1, <1>2, <2>1
    <3>2. 2 \in 2 .. Len(l) + 1 /\ m[2] = l[1]
      BY <1>1, <3>1
    <3> QED BY <1>1, <2>1, <3>1, <3>2
  <2>2. CASE i > 1
    <3>1. i - 1 \in 1 .. Len(l) /\ m[i] = l[i - 1]
      BY <1>1, <2>2
    <3>2. /\ i - 1 + 1 <= Len(l) /\ IsChange(l[i - 1 + 1])
          /\ i - 1 > 1 => IsChange(l[i - 1 - 1])
      BY <1>2, <3>1 DEF Enclosed
    <3>3. i + 1 <= Len(m) /\ m[i + 1] = l[i - 1 + 1]
      BY <1>1, <2>2, <3>1, <3>2
    <3>4. CASE i = 2
      <4>1. Len(l) > 0 /\ l[i - 1] = l[1] /\ m[i - 1] = e
        BY <1>1, <3>1, <3>4
      <4>2. IsChange(e)
        BY <1>2, <3>1, <4>1
      <4> QED BY <3>2, <3>3, <4>1, <4>2
    <3>5. CASE i > 2
      <4>1. m[i - 1] = l[i - 1 - 1] /\ i - 1 > 1
        BY <1>1, <3>5
      <4> QED BY <3>2, <3>3, <4>1
    <3> QED BY <2>2, <3>4, <3>5
  <2> QED BY <1>1, <2>1, <2>2
<1> QED BY <1>2 DEF Enclosed, m

(* The same for the elements themselves.                                   *)
LEMMA ConsSolid ==
  ASSUME NEW e \in Entries, NEW l \in Seq(Entries), NEW n, Solid(l, n), Firm(e, n)
  PROVE  Solid(Cons(e, l), n)
<1> DEFINE m == Cons(e, l)
<1>0. Len(l) \in Nat
  OBVIOUS
<1>1. /\ Len(m) = Len(l) + 1 /\ m[1] = e /\ Len(l) \in Nat
      /\ \A i \in 2 .. Len(l) + 1 : m[i] = l[i - 1]
  BY <1>0, ConsIs
<1> HIDE DEF m
<1>2. ASSUME NEW i \in 1 .. Len(m)
      PROVE  Firm(m[i], n)
  <2>1. CASE i = 1
    BY <1>1, <2>1
  <2>2. CASE i > 1
    <3>1. i - 1 \in 1 .. Len(l) /\ m[i] = l[i - 1]
      BY <1>1, <2>2
    <3> QED BY <3>1 DEF Solid
  <2> QED BY <2>1, <2>2
<1> QED BY <1>2 DEF Solid, m

(* What primitive-undo does to the list it walks down: a wrong record has  *)
(* a change on either side.                                                *)
LEMMA TailEnclosed ==
  ASSUME NEW l \in Seq(Entries), l # << >>, NEW n, NEW f
  PROVE  /\ Tail(l) \in Seq(Entries) /\ Len(Tail(l)) = Len(l) - 1 /\ Len(l) > 0
         /\ \A i \in 1 .. Len(l) - 1 : Tail(l)[i] = l[i + 1]
         /\ Solid(l, n) => Solid(Tail(l), n) /\ Firm(l[1], n)
         /\ Enclosed(l, n, f) =>
              /\ Enclosed(Tail(l), n, f)
              /\ Wrong(l[1], n, f) => Len(Tail(l)) > 0 /\ IsChange(Tail(l)[1])
              /\ Len(Tail(l)) > 0 /\ Wrong(Tail(l)[1], n, f) => IsChange(l[1])
<1> DEFINE m == Tail(l)
<1>1. /\ m \in Seq(Entries) /\ Len(m) = Len(l) - 1 /\ Len(l) \in Nat /\ Len(l) > 0
      /\ \A i \in 1 .. Len(l) - 1 : m[i] = l[i + 1]
  BY HeadTailProperties
<1> HIDE DEF m
<1>2. ASSUME Solid(l, n) PROVE Solid(m, n) /\ Firm(l[1], n)
  <2>1. \A i \in 1 .. Len(m) : i + 1 \in 1 .. Len(l) /\ m[i] = l[i + 1]
    BY <1>1
  <2>2. 1 \in 1 .. Len(l)
    BY <1>1
  <2> QED BY <1>2, <2>1, <2>2 DEF Solid
<1>3. ASSUME Enclosed(l, n, f) PROVE Enclosed(m, n, f)
  <2>1. ASSUME NEW i \in 1 .. Len(m), Wrong(m[i], n, f)
        PROVE  i + 1 <= Len(m) /\ IsChange(m[i + 1]) /\ (i > 1 => IsChange(m[i - 1]))
    <3>1. i + 1 \in 1 .. Len(l) /\ i + 1 > 1 /\ m[i] = l[i + 1]
      BY <1>1
    <3>2. i + 1 + 1 <= Len(l) /\ IsChange(l[i + 1 + 1]) /\ IsChange(l[i + 1 - 1])
      BY <1>3, <2>1, <3>1 DEF Enclosed
    <3>3. i + 1 <= Len(m) /\ m[i + 1] = l[i + 1 + 1]
      BY <1>1, <3>2
    <3>4. i > 1 => m[i - 1] = l[i + 1 - 1]
      BY <1>1
    <3> QED BY <3>2, <3>3, <3>4
  <2> QED BY <2>1 DEF Enclosed
<1>4. ASSUME Enclosed(l, n, f), Wrong(l[1], n, f)
      PROVE  Len(m) > 0 /\ IsChange(m[1])
  <2>1. 1 \in 1 .. Len(l)
    BY <1>1
  <2>2. 1 + 1 <= Len(l) /\ IsChange(l[1 + 1])
    BY <1>4, <2>1 DEF Enclosed
  <2> QED BY <1>1, <2>2
<1>5. ASSUME Enclosed(l, n, f), Len(m) > 0, Wrong(m[1], n, f)
      PROVE  IsChange(l[1])
  <2>1. 2 \in 1 .. Len(l) /\ m[1] = l[2] /\ 2 > 1 /\ 2 - 1 = 1
    BY <1>1, <1>5
  <2>2. IsChange(l[2 - 1])
    BY <1>5, <2>1 DEF Enclosed
  <2> QED BY <2>1, <2>2
<1> QED BY <1>1, <1>2, <1>3, <1>4, <1>5 DEF m

(* A list that is cut in front of a boundary.                              *)
LEMMA PrefixEnclosed ==
  ASSUME NEW l \in Seq(Entries), NEW k \in 1 .. Len(l) - 1, l[k + 1].kind = "boundary",
         NEW n, NEW f
  PROVE  /\ SubSeq(l, 1, k) \in Seq(Entries) /\ Len(SubSeq(l, 1, k)) = k
         /\ \A i \in 1 .. k : SubSeq(l, 1, k)[i] = l[i]
         /\ Solid(l, n) => Solid(SubSeq(l, 1, k), n)
         /\ Enclosed(l, n, f) => Enclosed(SubSeq(l, 1, k), n, f)
<1> DEFINE m == SubSeq(l, 1, k)
<1>0. Len(l) \in Nat /\ k \in 0 .. Len(l)
  OBVIOUS
<1>1. /\ m \in Seq(Entries) /\ Len(m) = k
      /\ \A i \in 1 .. k : m[i] = l[i]
  <2>1. m \in Seq(Entries)
    BY <1>0, PrefixIs
  <2> QED BY <1>0, <2>1
<1> HIDE DEF m
<1>2. ASSUME Solid(l, n) PROVE Solid(m, n)
  BY <1>0, <1>1, <1>2 DEF Solid
<1>3. ASSUME Enclosed(l, n, f) PROVE Enclosed(m, n, f)
  <2>1. ASSUME NEW i \in 1 .. Len(m), Wrong(m[i], n, f)
        PROVE  i + 1 <= Len(m) /\ IsChange(m[i + 1]) /\ (i > 1 => IsChange(m[i - 1]))
    <3>1. i \in 1 .. Len(l) /\ m[i] = l[i]
      BY <1>0, <1>1
    <3>2. i + 1 <= Len(l) /\ IsChange(l[i + 1]) /\ (i > 1 => IsChange(l[i - 1]))
      BY <1>3, <2>1, <3>1 DEF Enclosed
    <3>3. i # k
      BY <3>2 DEF IsChange
    <3>4. i + 1 <= k /\ m[i + 1] = l[i + 1] /\ (i > 1 => m[i - 1] = l[i - 1])
      BY <1>0, <1>1, <3>1, <3>3
    <3> QED BY <1>1, <3>2, <3>4
  <2> QED BY <2>1 DEF Enclosed
<1> QED BY <1>1, <1>2, <1>3 DEF m

-----------------------------------------------------------------------------
(* What is recorded.                                                       *)

\* The list M goes on with the list L, of which the first element may have
\* been changed.
Continues(m, l) ==
  /\ Len(m) >= Len(l)
  /\ \A j \in 2 .. Len(l) : m[j + (Len(m) - Len(l))] = l[j]

(* An element in front of a list that goes on with L.                      *)
LEMMA ConsContinues ==
  ASSUME NEW e \in Entries, NEW m \in Seq(Entries), NEW l \in Seq(Entries), Continues(m, l)
  PROVE  Continues(Cons(e, m), l)
<1> DEFINE c == Cons(e, m)
<1>0. Len(l) \in Nat /\ Len(m) \in Nat
  OBVIOUS
<1>1. Len(c) = Len(m) + 1 /\ \A i \in 2 .. Len(m) + 1 : c[i] = m[i - 1]
  BY ConsIs
<1> HIDE DEF c
<1>2. ASSUME NEW j \in 2 .. Len(l)
      PROVE  c[j + (Len(c) - Len(l))] = l[j]
  <2>1. m[j + (Len(m) - Len(l))] = l[j] /\ Len(m) >= Len(l)
    BY DEF Continues
  <2> DEFINE i == j + (Len(c) - Len(l))
  <2>2. i \in 2 .. Len(m) + 1 /\ i - 1 = j + (Len(m) - Len(l))
    BY <1>0, <1>1, <2>1
  <2> HIDE DEF i
  <2>3. c[i] = m[i - 1]
    BY <1>1, <2>2
  <2>4. c[i] = l[j]
    BY <2>1, <2>2, <2>3
  <2> QED BY <2>4 DEF i
<1>3. Len(c) >= Len(l)
  BY <1>0, <1>1 DEF Continues
<1> QED BY <1>2, <1>3 DEF Continues, c

(* A list goes on with itself, and with what another one goes on with that *)
(* it goes on with.                                                        *)
LEMMA ContinuesTransitive ==
  ASSUME NEW k \in Seq(Entries), NEW l \in Seq(Entries), NEW m \in Seq(Entries)
  PROVE  Continues(l, l) /\ (Continues(m, l) /\ Continues(l, k) => Continues(m, k))
<1>0. Len(k) \in Nat /\ Len(l) \in Nat /\ Len(m) \in Nat
  OBVIOUS
<1>1. Continues(l, l)
  <2>1. \A j \in 2 .. Len(l) : j + (Len(l) - Len(l)) = j
    BY <1>0
  <2> QED BY <1>0, <2>1 DEF Continues
<1>2. ASSUME Continues(m, l), Continues(l, k)
      PROVE  Continues(m, k)
  <2>1. Len(m) >= Len(l) /\ Len(l) >= Len(k)
    BY <1>2 DEF Continues
  <2>2. ASSUME NEW j \in 2 .. Len(k)
        PROVE  m[j + (Len(m) - Len(k))] = k[j]
    <3> DEFINE i == j + (Len(l) - Len(k))
    <3>1. l[i] = k[j]
      BY <1>2 DEF Continues
    <3>2. i \in 2 .. Len(l) /\ i + (Len(m) - Len(l)) = j + (Len(m) - Len(k))
      BY <1>0, <2>1
    <3> HIDE DEF i
    <3>3. m[i + (Len(m) - Len(l))] = l[i]
      BY <1>2, <3>2 DEF Continues
    <3> QED BY <3>1, <3>2, <3>3
  <2>3. Len(m) >= Len(k)
    BY <1>0, <2>1
  <2> QED BY <2>2, <2>3 DEF Continues
<1> QED BY <1>1, <1>2

\* What recording something does: M becomes of L, and F is the set of texts
\* that count as saved.  RIGHT is whether no wrong record can come into a list
\* that has none but enclosed ones.
Grows(m, l, right, n, f) ==
  /\ m \in Seq(Entries) /\ Continues(m, l)
  /\ Solid(l, n) => Solid(m, n)
  /\ right /\ Fine(l, n, f) => Fine(m, n, f)

(* A boundary.                                                             *)
LEMMA BoundaryGrows ==
  ASSUME NEW l \in Seq(Entries), NEW t \in Seq(Chars), NEW n \in Nat, NEW f
  PROVE  Grows(WithBoundary(l, t), l, TRUE, n, f)
<1> DEFINE e == Boundary(t)
           c == Cons(e, l)
<1>1. /\ e \in Entries /\ e.kind = "boundary" /\ e.time = 0
  <2>1. e \in Entries /\ e.kind = "boundary"
    BY EntriesAre, EmptySeq
  <2> QED BY <2>1 DEF Boundary, Entry
<1> HIDE DEF e
<1>2. /\ c \in Seq(Entries) /\ c[1] = e
  BY <1>1, ConsIs
<1>3. Continues(l, l) /\ Continues(c, l)
  BY <1>1, ContinuesTransitive, ConsContinues
<1>4. Firm(e, n) /\ ~Wrong(e, n, f)
  BY <1>1 DEF Firm, Wrong
<1>5. Solid(l, n) => Solid(c, n)
  BY <1>1, <1>4, ConsSolid
<1>6. Fine(l, n, f) => Fine(c, n, f)
  BY <1>1, <1>2, <1>4, ConsEnclosed DEF Fine
<1>7. Grows(c, l, TRUE, n, f) /\ Grows(l, l, TRUE, n, f)
  BY <1>2, <1>3, <1>5, <1>6 DEF Grows
<1> QED BY <1>7 DEF WithBoundary, c, e

\* A change may be recorded at text T: the buffer is modified or has one of the
\* texts F that count as saved, or else what is recorded will be in the middle
\* of two changes.
MayRecord(l, h, t, f) == modified \/ t \in f \/ (h /\ Len(l) > 0 /\ IsChange(l[1]))

(* The prelude may put a wrong record in front, but behind it is a change. *)
LEMMA PreludeGrows ==
  ASSUME NEW l \in Seq(Entries), NEW h \in BOOLEAN, NEW t \in Seq(Chars), TypeOK, NEW f
  PROVE  LET m == undo_prelude(l, h, t)
         IN  /\ m \in Seq(Entries) /\ Continues(m, l)
             /\ Solid(l, time) => Solid(m, time)
             /\ MayRecord(l, h, t, f) /\ Fine(l, time, f) => Enclosed(m, time, f)
<1> DEFINE b == IF h THEN l ELSE WithBoundary(l, t)
           e == Saved(time, t)
           c == Cons(e, b)
<1>0. time \in Nat /\ modified \in BOOLEAN
  BY DEF TypeOK
<1>1. Grows(b, l, TRUE, time, f)
  <2>1. CASE h
    BY <2>1, ContinuesTransitive DEF Grows
  <2>2. CASE ~h
    BY <1>0, <2>2, BoundaryGrows
  <2> QED BY <2>1, <2>2
<1>2. h => b = l
  OBVIOUS
<1>3. undo_prelude(l, h, t) = IF modified THEN b ELSE c
  BY DEF undo_prelude
<1> HIDE DEF b
<1>4. /\ e \in Entries /\ e.kind = "saved" /\ e.time = time /\ e.was = t
  <2>1. e \in Entries /\ e.kind = "saved" /\ e.was = t
    BY <1>0, EntriesAre, EmptySeq
  <2> QED BY <2>1 DEF Saved, Entry
<1> HIDE DEF e
<1>5. b \in Seq(Entries) /\ Continues(b, l)
  BY <1>1 DEF Grows
<1>6. c \in Seq(Entries) /\ Continues(c, l)
  BY <1>4, <1>5, ConsIs, ConsContinues
<1>7. Solid(l, time) => Solid(b, time) /\ Solid(c, time)
  <2>1. Firm(e, time)
    BY <1>0, <1>4 DEF Firm
  <2>2. Solid(l, time) => Solid(b, time)
    BY <1>1 DEF Grows
  <2> QED BY <1>4, <1>5, <2>1, <2>2, ConsSolid
<1>8. Fine(l, time, f) => Fine(b, time, f)
  BY <1>1 DEF Grows
<1>9. ASSUME MayRecord(l, h, t, f), Fine(l, time, f), ~modified
      PROVE  Enclosed(c, time, f)
  <2>1. Enclosed(b, time, f) /\ (Len(b) > 0 => ~Wrong(b[1], time, f))
    BY <1>8, <1>9 DEF Fine
  <2>2. Wrong(e, time, f) => Len(b) > 0 /\ IsChange(b[1])
    BY <1>2, <1>4, <1>9 DEF Wrong, MayRecord
  <2> QED BY <1>4, <1>5, <2>1, <2>2, ConsEnclosed
<1>a. CASE modified
  BY <1>3, <1>5, <1>7, <1>8, <1>a DEF Fine
<1>b. CASE ~modified
  BY <1>3, <1>6, <1>7, <1>9, <1>b
<1> QED BY <1>0, <1>a, <1>b

\* Something was recorded, and the first element of M is now a change.
Recorded(m, l, right, n, f) ==
  /\ Grows(m, l, right, n, f)
  /\ Len(m) > 0 /\ IsChange(m[1])

(* A change in front of what the prelude has made.                         *)
LEMMA ConsRecorded ==
  ASSUME NEW e \in Entries, NEW m \in Seq(Entries), NEW l \in Seq(Entries), NEW right,
         NEW n, NEW f, IsChange(e), Firm(e, n), Continues(m, l),
         Solid(l, n) => Solid(m, n), right /\ Fine(l, n, f) => Enclosed(m, n, f)
  PROVE  Recorded(Cons(e, m), l, right, n, f)
<1> DEFINE c == Cons(e, m)
<1>0. Len(m) \in Nat
  OBVIOUS
<1>1. c \in Seq(Entries) /\ Len(c) = Len(m) + 1 /\ c[1] = e
  BY <1>0, ConsIs
<1>2. Continues(c, l)
  BY ConsContinues
<1>3. Solid(l, n) => Solid(c, n)
  BY ConsSolid
<1>4. ~Wrong(e, n, f)
  BY DEF IsChange, Wrong
<1>5. right /\ Fine(l, n, f) => Enclosed(c, n, f)
  BY <1>4, ConsEnclosed
<1> HIDE DEF c
<1>6. right /\ Fine(l, n, f) => Fine(c, n, f)
  BY <1>1, <1>4, <1>5 DEF Fine
<1>7. Len(c) > 0 /\ IsChange(c[1])
  BY <1>0, <1>1
<1>8. Recorded(c, l, right, n, f)
  BY <1>1, <1>2, <1>3, <1>6, <1>7 DEF Recorded, Grows
<1> QED BY <1>8 DEF c

(* An insertion combined with the one in front of the list.                *)
LEMMA MergeRecorded ==
  ASSUME NEW m \in Seq(Entries), NEW l \in Seq(Entries), NEW right, NEW n \in Nat, NEW f,
         NEW p \in Nat, NEW k \in Nat, m # << >>, m[1].kind = "insert", m[1].end = p,
         Continues(m, l), Solid(l, n) => Solid(m, n),
         right /\ Fine(l, n, f) => Enclosed(m, n, f)
  PROVE  Recorded([m EXCEPT ![1].end = p + k], l, right, n, f)
<1> DEFINE c == [m EXCEPT ![1].end = p + k]
<1>0. Len(m) \in Nat /\ Len(m) > 0 /\ 1 \in 1 .. Len(m) /\ p + k \in Nat /\ Len(l) \in Nat
  OBVIOUS
<1>1. PICK e \in Entries :
        /\ [m EXCEPT ![1].end = p + k] = [m EXCEPT ![1] = e]
        /\ e.kind = m[1].kind /\ e.beg = m[1].beg /\ e.end = p + k /\ e.was = m[1].was
        /\ e.str = m[1].str /\ e.time = m[1].time
  BY <1>0, EndChanged
<1>2. /\ c \in Seq(Entries) /\ Len(c) = Len(m)
      /\ \A j \in 1 .. Len(m) : c[j] = IF j = 1 THEN e ELSE m[j]
  <2> DEFINE d == [m EXCEPT ![1] = e]
  <2>1. /\ d \in Seq(Entries) /\ Len(d) = Len(m)
        /\ \A j \in 1 .. Len(m) : d[j] = IF j = 1 THEN e ELSE m[j]
    BY <1>0, ExceptSeq
  <2>2. c = d
    BY <1>1
  <2> HIDE DEF c, d
  <2> QED BY <2>1, <2>2
<1> HIDE DEF c
<1>3. c[1] = e
  BY <1>0, <1>2
<1>4. m[1] \in Entries /\ m[1].beg \in Nat /\ m[1].time \in Nat
  <2>1. m[1] \in Entries
    BY <1>0, ElementOfSeq
  <2> QED BY <2>1 DEF Entries
<1>5. Continues(c, l)
  <2>1. Len(m) >= Len(l)
    BY DEF Continues
  <2>2. ASSUME NEW j \in 2 .. Len(l)
        PROVE  c[j + (Len(c) - Len(l))] = l[j]
    <3> DEFINE i == j + (Len(m) - Len(l))
    <3>1. m[i] = l[j]
      BY DEF Continues
    <3>2. i \in 1 .. Len(m) /\ i # 1 /\ j + (Len(c) - Len(l)) = i
      BY <1>0, <1>2, <2>1
    <3> HIDE DEF i
    <3>3. c[i] = m[i]
      BY <1>2, <3>2
    <3> QED BY <3>1, <3>2, <3>3
  <2> QED BY <1>2, <2>1, <2>2 DEF Continues
<1>6. ASSUME Solid(m, n)
      PROVE  Solid(c, n)
  <2>1. Firm(m[1], n)
    BY <1>0, <1>6 DEF Solid
  <2>2. m[1].beg < p /\ m[1].time <= n
    BY <2>1 DEF Firm
  <2>3. e.beg < e.end /\ e.time <= n /\ e.kind # "delete"
    BY <1>1, <1>4, <2>2
  <2>4. Firm(e, n)
    BY <2>3 DEF Firm
  <2>5. \A j \in 1 .. Len(m) : Firm(c[j], n)
    BY <1>2, <1>6, <2>4 DEF Solid
  <2> QED BY <1>2, <2>5 DEF Solid
<1>7. ASSUME Enclosed(m, n, f)
      PROVE  Enclosed(c, n, f)
  <2>1. \A j \in 1 .. Len(m) : c[j].kind = m[j].kind
    BY <1>1, <1>2
  <2>2. ASSUME NEW i \in 1 .. Len(c), Wrong(c[i], n, f)
        PROVE  i + 1 <= Len(c) /\ IsChange(c[i + 1]) /\ (i > 1 => IsChange(c[i - 1]))
    <3>1. i # 1
      BY <1>1, <1>3, <2>2 DEF Wrong
    <3>2. i \in 1 .. Len(m) /\ c[i] = m[i]
      BY <1>2, <3>1
    <3>3. i + 1 <= Len(m) /\ IsChange(m[i + 1]) /\ (i > 1 => IsChange(m[i - 1]))
      BY <1>7, <2>2, <3>2 DEF Enclosed
    <3>4. i + 1 \in 1 .. Len(m) /\ (i > 1 => i - 1 \in 1 .. Len(m))
      <4>1. i \in 1 .. Len(m) /\ i + 1 <= Len(m)
        BY <3>2, <3>3
      <4> QED BY <1>0, <4>1
    <3>5. c[i + 1].kind = m[i + 1].kind /\ (i > 1 => c[i - 1].kind = m[i - 1].kind)
      BY <2>1, <3>4
    <3> QED BY <1>2, <3>3, <3>5 DEF IsChange
  <2> QED BY <2>2 DEF Enclosed
<1>8. IsChange(c[1]) /\ ~Wrong(c[1], n, f)
  BY <1>1, <1>3 DEF IsChange, Wrong
<1>9. right /\ Fine(l, n, f) => Fine(c, n, f)
  BY <1>7, <1>8 DEF Fine
<1>a. Recorded(c, l, right, n, f)
  BY <1>0, <1>2, <1>5, <1>6, <1>8, <1>9 DEF Recorded, Grows
<1> QED BY <1>a DEF c

(* Recording an insertion.                                                 *)
LEMMA RecordInsertGrows ==
  ASSUME NEW l \in Seq(Entries), NEW h \in BOOLEAN, NEW t \in Seq(Chars), TypeOK, NEW f,
         NEW p \in Nat, NEW k \in Nat \ {0}
  PROVE  Recorded(record_insert(l, h, t, p, k), l, MayRecord(l, h, t, f), time, f)
<1> DEFINE m == undo_prelude(l, h, t)
           right == MayRecord(l, h, t, f)
           e == Insertion(p, p + k, t)
<1>0. time \in Nat /\ p + k \in Nat /\ p < p + k
  BY DEF TypeOK
<1>1. /\ m \in Seq(Entries) /\ Continues(m, l)
      /\ Solid(l, time) => Solid(m, time)
      /\ right /\ Fine(l, time, f) => Enclosed(m, time, f)
  BY PreludeGrows
<1>2. record_insert(l, h, t, p, k) =
        IF m # << >> /\ m[1].kind = "insert" /\ m[1].end = p
        THEN [m EXCEPT ![1].end = p + k]
        ELSE Cons(e, m)
  BY DEF record_insert
<1> HIDE DEF m, right
<1>3. CASE m # << >> /\ m[1].kind = "insert" /\ m[1].end = p
  <2>1. Recorded([m EXCEPT ![1].end = p + k], l, right, time, f)
    BY <1>0, <1>1, <1>3, MergeRecorded
  <2> QED BY <1>2, <1>3, <2>1 DEF right
<1>4. CASE ~ (m # << >> /\ m[1].kind = "insert" /\ m[1].end = p)
  <2>1. e \in Entries /\ e.kind = "insert" /\ e.beg = p /\ e.end = p + k /\ e.time = 0
    <3>1. e \in Entries /\ e.kind = "insert" /\ e.beg = p /\ e.end = p + k
      BY <1>0, EntriesAre, EmptySeq
    <3> QED BY <3>1 DEF Insertion, Entry
  <2>2. record_insert(l, h, t, p, k) = Cons(e, m)
    BY <1>2, <1>4
  <2> HIDE DEF e
  <2>3. IsChange(e) /\ Firm(e, time)
    BY <1>0, <2>1 DEF IsChange, Firm
  <2>4. Recorded(Cons(e, m), l, right, time, f)
    BY <1>1, <2>1, <2>3, ConsRecorded
  <2> QED BY <2>2, <2>4 DEF right
<1> QED BY <1>3, <1>4

(* Recording a deletion.                                                   *)
LEMMA RecordDeleteGrows ==
  ASSUME NEW l \in Seq(Entries), NEW h \in BOOLEAN, NEW t \in Seq(Chars), TypeOK, NEW f,
         NEW p \in 1 .. Len(t) + 1, NEW q \in p + 1 .. Len(t) + 1
  PROVE  Recorded(record_delete(l, h, t, p, q - p), l, MayRecord(l, h, t, f), time, f)
<1> DEFINE m == undo_prelude(l, h, t)
           right == MayRecord(l, h, t, f)
           s == SubSeq(t, p, q - 1)
           e == Deletion(s, p, t)
<1>0. /\ time \in Nat /\ Len(t) \in Nat /\ p \in Nat /\ q \in Nat /\ q \in p .. Len(t) + 1
      /\ q - p > 0 /\ p + (q - p) - 1 = q - 1
  BY DEF TypeOK
<1>1. /\ m \in Seq(Entries) /\ Continues(m, l)
      /\ Solid(l, time) => Solid(m, time)
      /\ right /\ Fine(l, time, f) => Enclosed(m, time, f)
  BY PreludeGrows
<1>2. s \in Seq(Chars) /\ Len(s) = q - p
  BY <1>0, InsertDeleted
<1>3. record_delete(l, h, t, p, q - p) = Cons(e, m)
  BY <1>0 DEF record_delete
<1> HIDE DEF m, right, s
<1>4. e \in Entries /\ e.kind = "delete" /\ e.str = s /\ e.time = 0
  <2>1. e \in Entries /\ e.kind = "delete" /\ e.str = s
    BY <1>0, <1>2, EntriesAre
  <2> QED BY <2>1 DEF Deletion, Entry
<1> HIDE DEF e
<1>5. s # << >>
  BY <1>0, <1>2
<1>6. IsChange(e) /\ Firm(e, time)
  BY <1>0, <1>4, <1>5 DEF IsChange, Firm
<1>7. Recorded(Cons(e, m), l, right, time, f)
  BY <1>1, <1>4, <1>6, ConsRecorded
<1> QED BY <1>3, <1>7 DEF right

(* Recording a replacement: the record of the save that may come into the  *)
(* middle of it is enclosed.                                               *)
LEMMA RecordChangeGrows ==
  ASSUME NEW l \in Seq(Entries), NEW h \in BOOLEAN, NEW t \in Seq(Chars), TypeOK, NEW f,
         NEW p \in 1 .. Len(t)
  PROVE  Recorded(record_change(l, h, t, p), l, MayRecord(l, h, t, f), time, f)
<1> DEFINE m == record_delete(l, h, t, p, 1)
           u == Deleted(t, p, p + 1)
           r == record_insert(m, TRUE, u, p, 1)
           right == MayRecord(l, h, t, f)
<1>0. /\ Len(t) \in Nat /\ p \in 1 .. Len(t) + 1 /\ p + 1 \in p + 1 .. Len(t) + 1
      /\ p + 1 \in p .. Len(t) + 1 /\ p + 1 - p = 1 /\ p \in Nat /\ 1 \in Nat \ {0}
  OBVIOUS
<1>1. Recorded(m, l, right, time, f)
  <2> DEFINE q == p + 1
  <2>1. q \in p + 1 .. Len(t) + 1 /\ q - p = 1
    BY <1>0
  <2> HIDE DEF q
  <2>2. Recorded(record_delete(l, h, t, p, q - p), l, right, time, f)
    BY <1>0, <2>1, RecordDeleteGrows
  <2> QED BY <2>1, <2>2
<1>2. u \in Seq(Chars)
  BY <1>0, DeletedIs
<1>3. record_change(l, h, t, p) = r
  BY DEF record_change
<1>r. TRUE \in BOOLEAN
  OBVIOUS
<1>4. m \in Seq(Entries)
  BY <1>1 DEF Recorded, Grows
<1>5. Recorded(r, m, MayRecord(m, TRUE, u, f), time, f)
  <2> HIDE DEF m, u
  <2> QED BY <1>0, <1>2, <1>4, <1>r, RecordInsertGrows
<1> HIDE DEF m, u, r, right
<1>6. MayRecord(m, TRUE, u, f)
  BY <1>1 DEF Recorded, MayRecord
<1>7. Continues(r, l)
  BY <1>1, <1>5, ContinuesTransitive DEF Recorded, Grows
<1>8. Recorded(r, l, right, time, f)
  BY <1>1, <1>5, <1>6, <1>7 DEF Recorded, Grows
<1> QED BY <1>3, <1>8 DEF right

-----------------------------------------------------------------------------
(* The pending list and the undo list.                                     *)

\* W is an end part of L.
SharesEnd(w, l) ==
  /\ Len(w) <= Len(l)
  /\ \A i \in 1 .. Len(w) : w[i] = l[i + (Len(l) - Len(w))]

\* And the first element of L, which may yet change, is not in it.
Below(w, l) == SharesEnd(w, l) /\ (Len(w) > 0 => Len(w) < Len(l))

(* It stays there when something is recorded.                              *)
LEMMA ContinuesBelow ==
  ASSUME NEW w \in Seq(Entries), NEW l \in Seq(Entries), NEW m \in Seq(Entries),
         Below(w, l), Continues(m, l)
  PROVE  Below(w, m)
<1>0. Len(w) \in Nat /\ Len(l) \in Nat /\ Len(m) \in Nat
  OBVIOUS
<1>1. Len(m) >= Len(l) /\ Len(w) <= Len(l) /\ (Len(w) > 0 => Len(w) < Len(l))
  BY DEF Below, SharesEnd, Continues
<1>2. ASSUME NEW i \in 1 .. Len(w)
      PROVE  w[i] = m[i + (Len(m) - Len(w))]
  <2> DEFINE j == i + (Len(l) - Len(w))
  <2>1. w[i] = l[j]
    BY DEF Below, SharesEnd
  <2>2. j \in 2 .. Len(l) /\ j + (Len(m) - Len(l)) = i + (Len(m) - Len(w))
    BY <1>0, <1>1
  <2> HIDE DEF j
  <2>3. m[j + (Len(m) - Len(l))] = l[j]
    BY <2>2 DEF Continues
  <2> QED BY <2>1, <2>2, <2>3
<1>3. Len(w) <= Len(m) /\ (Len(w) > 0 => Len(w) < Len(m))
  BY <1>0, <1>1
<1> QED BY <1>2, <1>3 DEF Below, SharesEnd

(* The first element of the pending list passed by.                        *)
LEMMA TailBelow ==
  ASSUME NEW w \in Seq(Entries), w # << >>, NEW l \in Seq(Entries), SharesEnd(w, l)
  PROVE  Below(Tail(w), l)
<1> DEFINE v == Tail(w)
<1>1. /\ Len(v) = Len(w) - 1 /\ Len(w) \in Nat /\ Len(w) > 0
      /\ \A i \in 1 .. Len(w) - 1 : v[i] = w[i + 1]
  BY HeadTailProperties
<1> HIDE DEF v
<1>2. Len(l) \in Nat /\ Len(w) <= Len(l)
  BY DEF SharesEnd
<1>3. ASSUME NEW i \in 1 .. Len(v)
      PROVE  v[i] = l[i + (Len(l) - Len(v))]
  <2> DEFINE j == i + 1
  <2>1. /\ j \in 1 .. Len(w) /\ v[i] = w[j]
        /\ j + (Len(l) - Len(w)) = i + (Len(l) - Len(v))
    BY <1>1, <1>2
  <2> HIDE DEF j
  <2>2. w[j] = l[j + (Len(l) - Len(w))]
    BY <2>1 DEF SharesEnd
  <2> QED BY <2>1, <2>2
<1>4. Below(v, l)
  BY <1>1, <1>2, <1>3 DEF Below, SharesEnd
<1> QED BY <1>4 DEF v

(* A list that is empty, and one that is the whole list.                   *)
LEMMA TrivialShares ==
  ASSUME NEW l \in Seq(Entries)
  PROVE  Below(<< >>, l) /\ SharesEnd(l, l)
<1>0. Len(l) \in Nat /\ Len(<< >>) = 0 /\ 1 .. 0 = {}
  OBVIOUS
<1>1. Below(<< >>, l)
  BY <1>0 DEF Below, SharesEnd
<1>2. \A i \in 1 .. Len(l) : i + (Len(l) - Len(l)) = i
  BY <1>0
<1> QED BY <1>0, <1>1, <1>2 DEF SharesEnd

(* Both are cut at the same boundary.                                      *)
LEMMA CutShares ==
  ASSUME NEW w \in Seq(Entries), NEW l \in Seq(Entries), SharesEnd(w, l),
         NEW n \in 1 .. Len(l) - 1, Len(w) > Len(l) - n
  PROVE  LET k == Len(w) - (Len(l) - n)
         IN  /\ k \in 1 .. Len(w) - 1 /\ w[k + 1] = l[n + 1]
             /\ SharesEnd(SubSeq(w, 1, k), SubSeq(l, 1, n))
             /\ Below(w, l) => Below(SubSeq(w, 1, k), SubSeq(l, 1, n))
<1> DEFINE k == Len(w) - (Len(l) - n)
           v == SubSeq(w, 1, k)
           m == SubSeq(l, 1, n)
<1>0. Len(w) \in Nat /\ Len(l) \in Nat /\ Len(w) <= Len(l) /\ n \in 0 .. Len(l)
  BY DEF SharesEnd
<1>1. k \in 1 .. Len(w) - 1 /\ k \in 0 .. Len(w) /\ k + 1 \in 1 .. Len(w)
      /\ (k + 1) + (Len(l) - Len(w)) = n + 1 /\ Len(l) - Len(w) = n - k
  BY <1>0
<1>2. w[k + 1] = l[n + 1]
  <2> DEFINE j == k + 1
  <2>1. j \in 1 .. Len(w) /\ j + (Len(l) - Len(w)) = n + 1
    BY <1>1
  <2> HIDE DEF j, k
  <2>2. w[j] = l[j + (Len(l) - Len(w))]
    BY <2>1 DEF SharesEnd
  <2> QED BY <2>1, <2>2 DEF j
<1> HIDE DEF k
<1>3. Len(v) = k /\ \A i \in 1 .. k : v[i] = w[i]
  <2>1. v \in Seq(Entries)
    BY <1>1, PrefixIs
  <2> QED BY <1>0, <1>1, <2>1
<1>4. Len(m) = n /\ \A i \in 1 .. n : m[i] = l[i]
  <2>1. m \in Seq(Entries)
    BY <1>0, PrefixIs
  <2> QED BY <1>0, <2>1
<1> HIDE DEF v, m
<1>5. ASSUME NEW i \in 1 .. Len(v)
      PROVE  v[i] = m[i + (Len(m) - Len(v))]
  <2> DEFINE j == i + (Len(l) - Len(w))
  <2>1. i \in 1 .. Len(w) /\ i \in 1 .. k /\ j \in 1 .. n /\ j = i + (Len(m) - Len(v))
    <3>1. Len(v) = k /\ Len(m) = n /\ i \in 1 .. k
      BY <1>3, <1>4
    <3>2. k \in 0 .. Len(w) /\ Len(l) - Len(w) = n - k /\ n \in Nat
      BY <1>1
    <3>3. i \in 1 .. Len(w) /\ j = i + (n - k)
      BY <1>0, <3>1, <3>2
    <3> QED BY <1>0, <3>1, <3>2, <3>3
  <2>2. w[i] = l[j]
    BY <2>1 DEF SharesEnd
  <2> HIDE DEF j
  <2>3. v[i] = w[i] /\ m[j] = l[j]
    BY <1>3, <1>4, <2>1
  <2> QED BY <2>1, <2>2, <2>3
<1>6. SharesEnd(v, m)
  BY <1>0, <1>1, <1>3, <1>4, <1>5 DEF SharesEnd
<1>7. ASSUME Below(w, l) PROVE Below(v, m)
  <2>1. Len(w) > 0 /\ Len(w) < Len(l)
    BY <1>0, <1>1, <1>7 DEF Below
  <2>2. Len(v) < Len(m)
    BY <1>0, <1>1, <1>3, <1>4, <2>1
  <2> QED BY <1>6, <2>2 DEF Below
<1> QED BY <1>1, <1>2, <1>6, <1>7 DEF k, v, m

-----------------------------------------------------------------------------
(* The invariant.                                                          *)

\* The texts that a buffer may have that is not modified: those that are saved,
\* and, if characters have been replaced without a record, any of their lengths.
Unmodified == {t \in Seq(Chars) : \E u \in saved : Alike(t, u, unrecorded)}

\* primitive-undo has just made a change that is recorded in this buffer.
Behind == pc = "undoing" /\ here /\ Len(list) > 0 /\ IsChange(list[1])

\* Every wrong record is enclosed, primitive-undo comes to one only right
\* after a change, and when it has believed one there is another change to come.
TrustedInv ==
  /\ Fine(list, time, Unmodified) /\ Enclosed(work, time, Unmodified)
  /\ Len(work) > 0 /\ Wrong(work[1], time, Unmodified) => Behind
  /\ \/ modified \/ text \in Unmodified
     \/ Behind /\ believed /\ Len(work) > 0 /\ IsChange(work[1])

SavedInv ==
  /\ Solid(list, time) /\ Solid(work, time)
  /\ joined => SharesEnd(work, list)
  /\ joined /\ pc = "idle" => Below(work, list)
  /\ trusted => TrustedInv

(* There is nothing to say of the empty list.                              *)
LEMMA NothingPending ==
  \A n, f : Solid(<< >>, n) /\ Enclosed(<< >>, n, f) /\ Fine(<< >>, n, f) /\ Len(<< >>) = 0
<1>1. Len(<< >>) = 0 /\ 1 .. 0 = {}
  OBVIOUS
<1> QED BY <1>1 DEF Solid, Enclosed, Fine

(* When more texts count as saved, fewer records are wrong.                *)
LEMMA MoreSaved ==
  ASSUME NEW l \in Seq(Entries), NEW n, NEW f, NEW g, f \subseteq g
  PROVE  /\ Enclosed(l, n, f) => Enclosed(l, n, g)
         /\ Fine(l, n, f) => Fine(l, n, g)
         /\ Wrong(l[1], n, g) => Wrong(l[1], n, f)
<1>1. \A e : Wrong(e, n, g) => Wrong(e, n, f)
  BY DEF Wrong
<1>2. Enclosed(l, n, f) => Enclosed(l, n, g)
  BY <1>1 DEF Enclosed
<1> QED BY <1>1, <1>2 DEF Fine

(* A text that is alike to one that may be unmodified may be so itself.    *)
LEMMA AlikeUnmodified ==
  ASSUME TypeOK, NEW t \in Seq(Chars), NEW u \in Unmodified, Alike(t, u, unrecorded)
  PROVE  t \in Unmodified
<1>1. PICK v \in saved : Alike(u, v, unrecorded)
  BY DEF Unmodified
<1>2. Alike(t, v, unrecorded)
  BY <1>1 DEF Alike
<1> QED BY <1>1, <1>2 DEF Unmodified

(* The initial states satisfy it.                                          *)
LEMMA InitSaved == Init => SavedInv
<1> SUFFICES ASSUME Init PROVE SavedInv
  OBVIOUS
<1>0. << >> \in Seq(Chars)
  OBVIOUS
<1>1. list = << >> /\ work = << >> /\ text \in Unmodified /\ joined = FALSE
  BY <1>0 DEF Init, Unmodified, Alike
<1>2. TrustedInv
  BY <1>1, NothingPending DEF TrustedInv
<1> QED BY <1>1, <1>2, NothingPending DEF SavedInv

(* Between two commands, no wrong record is next and the buffer, if it is  *)
(* not modified, has the text of its file.                                 *)
LEMMA IdleIs ==
  ASSUME SavedInv, pc = "idle", trusted
  PROVE  /\ Fine(list, time, Unmodified) /\ Enclosed(work, time, Unmodified)
         /\ ~(Len(work) > 0 /\ Wrong(work[1], time, Unmodified))
         /\ modified \/ text \in Unmodified
<1>1. ~Behind
  BY DEF Behind
<1> QED BY <1>1 DEF SavedInv, TrustedInv

(* Something recorded between two undos, or in front of a series of them.  *)
LEMMA GrowthSaves ==
  ASSUME IInv, SavedInv, pc = "idle", NEW i \in BOOLEAN, Interrupts(i), NEW right,
         trusted => right, Grows(list', list, right, time, Unmodified),
         UNCHANGED <<time, trusted>>, Unmodified \subseteq Unmodified',
         modified' \/ (modified' = modified /\ (text \in Unmodified => text' \in Unmodified'))
  PROVE  SavedInv'
<1>0. list \in Seq(Entries) /\ work \in Seq(Entries)
  BY ListIs
<1>1. list' \in Seq(Entries) /\ Continues(list', list)
  BY DEF Grows
<1>2. Solid(list', time') /\ (trusted => Fine(list', time', Unmodified'))
  <2>1. Solid(list', time) /\ (trusted => Fine(list', time, Unmodified))
    BY IdleIs DEF Grows, SavedInv
  <2> QED BY <1>1, <2>1, MoreSaved
<1>3. /\ pc' = pc /\ joined' = (joined /\ i)
      /\ work' = IF i THEN work ELSE << >>
  BY DEF Interrupts
<1>4. Solid(work', time')
  BY <1>3, NothingPending DEF SavedInv
<1>5. joined' => Below(work', list')
  BY <1>0, <1>1, <1>3, ContinuesBelow DEF SavedInv
<1>6. joined' => SharesEnd(work', list')
  BY <1>5 DEF Below
<1>7. ASSUME trusted
      PROVE  TrustedInv'
  <2>1. Enclosed(work', time', Unmodified') /\ ~(Len(work') > 0 /\ Wrong(work'[1], time', Unmodified'))
    <3>1. CASE i
      BY <1>0, <1>3, <1>7, <3>1, IdleIs, MoreSaved
    <3>2. CASE ~i
      BY <1>3, <3>2, NothingPending
    <3> QED BY <3>1, <3>2
  <2>2. modified' \/ text' \in Unmodified'
    BY <1>7, IdleIs
  <2> QED BY <1>2, <1>7, <2>1, <2>2 DEF TrustedInv
<1> QED BY <1>2, <1>4, <1>5, <1>6, <1>7 DEF SavedInv

(* A change by a command or an intrusion.                                  *)
LEMMA ChangeSaves ==
  ASSUME IInv, SavedInv, pc = "idle", NEW i \in BOOLEAN, Interrupts(i),
         Recorded(list', list, MayRecord(list, here, text, Unmodified), time, Unmodified),
         UNCHANGED <<time, trusted>>, Unmodified' = Unmodified, modified'
  PROVE  SavedInv'
<1>1. trusted => MayRecord(list, here, text, Unmodified)
  BY IdleIs DEF MayRecord
<1>2. Grows(list', list, MayRecord(list, here, text, Unmodified), time, Unmodified)
  BY DEF Recorded
<1> QED BY <1>1, <1>2, GrowthSaves

(* Insertions.                                                             *)
LEMMA InsertSaves ==
  ASSUME IInv, SavedInv, NEW i \in BOOLEAN, NEW p \in 1 .. Len(text) + 1, NEW s \in Strings,
         Insert(p, s, i)
  PROVE  SavedInv'
<1>0. /\ list \in Seq(Entries) /\ text \in Seq(Chars) /\ TypeOK /\ here \in BOOLEAN
      /\ Len(text) \in Nat
  BY ListIs DEF TypeOK
<1>1. s \in Seq(Chars) /\ s # << >>
  BY UndoAssumption DEF UndoAssumption
<1>2. Len(s) \in Nat \ {0} /\ p \in Nat
  BY <1>0, <1>1, EmptySeq
<1>3. Recorded(record_insert(list, here, text, p, Len(s)), list,
               MayRecord(list, here, text, Unmodified), time, Unmodified)
  BY <1>0, <1>2, RecordInsertGrows
<1>4. /\ list' = record_insert(list, here, text, p, Len(s)) /\ pc = "idle" /\ Interrupts(i)
      /\ modified' = TRUE /\ UNCHANGED <<time, trusted>> /\ Unmodified' = Unmodified
  BY DEF Insert, Unmodified
<1> QED BY <1>3, <1>4, ChangeSaves

(* Deletions.                                                              *)
LEMMA DeleteSaves ==
  ASSUME IInv, SavedInv, NEW i \in BOOLEAN, NEW p \in 1 .. Len(text) + 1,
         NEW q \in 1 .. Len(text) + 1, p < q, Delete(p, q, i)
  PROVE  SavedInv'
<1>0. /\ list \in Seq(Entries) /\ text \in Seq(Chars) /\ TypeOK /\ here \in BOOLEAN
      /\ Len(text) \in Nat
  BY ListIs DEF TypeOK
<1>1. q \in p + 1 .. Len(text) + 1
  BY <1>0
<1>2. Recorded(record_delete(list, here, text, p, q - p), list,
               MayRecord(list, here, text, Unmodified), time, Unmodified)
  BY <1>0, <1>1, RecordDeleteGrows
<1>3. /\ list' = record_delete(list, here, text, p, q - p) /\ pc = "idle" /\ Interrupts(i)
      /\ modified' = TRUE /\ UNCHANGED <<time, trusted>> /\ Unmodified' = Unmodified
  BY DEF Delete, Unmodified
<1> QED BY <1>2, <1>3, ChangeSaves

(* Replacements: one that is not a real change leaves the flag and the     *)
(* list alone and makes a text that is alike.                              *)
LEMMA ReplaceSaves ==
  ASSUME IInv, SavedInv, NEW i \in BOOLEAN, NEW p \in 1 .. Len(text), NEW c \in Chars,
         NEW n \in BOOLEAN, ReplaceChar(p, c, n, i)
  PROVE  SavedInv'
<1>0. /\ list \in Seq(Entries) /\ text \in Seq(Chars) /\ TypeOK /\ here \in BOOLEAN
      /\ pc = "idle" /\ Interrupts(i) /\ UNCHANGED <<time, trusted>>
      /\ saved' = saved /\ text' = [text EXCEPT ![p] = c]
  BY ListIs DEF TypeOK, ReplaceChar
<1>1. CASE ~n
  <2>1. Recorded(record_change(list, here, text, p), list,
                 MayRecord(list, here, text, Unmodified), time, Unmodified)
    BY <1>0, RecordChangeGrows
  <2>2. list' = record_change(list, here, text, p) /\ modified' = TRUE
    BY <1>1 DEF ReplaceChar
  <2>3. Unmodified' = Unmodified
    BY <1>1 DEF ReplaceChar, Unmodified
  <2> QED BY <1>0, <2>1, <2>2, <2>3, ChangeSaves
<1>2. CASE n
  <2>1. list' = list /\ modified' = modified /\ unrecorded' = TRUE
    BY <1>2 DEF ReplaceChar
  <2>2. text' \in Seq(Chars) /\ Len(text') = Len(text)
    BY <1>0, ExceptSeq
  <2>3. Unmodified' = {t \in Seq(Chars) : \E u \in saved : Alike(t, u, TRUE)}
    BY <1>0, <2>1, Zenon DEF Unmodified
  <2>4. Unmodified \subseteq Unmodified'
    BY <2>3 DEF Unmodified, Alike
  <2>5. ASSUME text \in Unmodified
        PROVE  text' \in Unmodified'
    <3>1. PICK u \in saved : Alike(text, u, unrecorded)
      BY <2>5 DEF Unmodified
    <3>2. Alike(text', u, TRUE)
      BY <2>2, <3>1 DEF Alike
    <3> QED BY <2>2, <2>3, <3>2
  <2>6. Grows(list', list, TRUE, time, Unmodified)
    BY <1>0, <2>1, ContinuesTransitive DEF Grows
  <2> QED BY <1>0, <2>1, <2>4, <2>5, <2>6, GrowthSaves
<1> QED BY <1>1, <1>2

(* A change recorded elsewhere: no undo is under way.                      *)
LEMMA OtherBufferSaves ==
  ASSUME IInv, SavedInv, OtherBuffer
  PROVE  SavedInv'
<1>1. /\ pc = "idle" /\ pc' = pc /\ list' = list /\ work' = work /\ joined' = joined
      /\ text' = text /\ Unmodified' = Unmodified /\ time' = time /\ modified' = modified
      /\ trusted' = trusted
  BY DEF OtherBuffer, undoVars, Unmodified
<1>2. trusted => TrustedInv'
  BY <1>1, IdleIs DEF TrustedInv
<1> QED BY <1>1, <1>2 DEF SavedInv

(* A command that changes nothing.                                         *)
LEMMA OtherCommandSaves ==
  ASSUME IInv, SavedInv, OtherCommand
  PROVE  SavedInv'
<1>0. list \in Seq(Entries) /\ text \in Seq(Chars) /\ time \in Nat
  BY ListIs DEF TypeOK
<1>1. Grows(WithBoundary(list, text), list, TRUE, time, Unmodified)
  BY <1>0, BoundaryGrows
<1>2. /\ list' = WithBoundary(list, text) /\ pc = "idle" /\ Interrupts(FALSE)
      /\ UNCHANGED <<time, trusted>> /\ Unmodified' = Unmodified /\ text' = text /\ modified' = modified
  BY DEF OtherCommand, Unmodified
<1>3. Grows(list', list, TRUE, time, Unmodified)
  BY <1>1, <1>2
<1>4. FALSE \in BOOLEAN
  OBVIOUS
<1> QED BY <1>2, <1>3, <1>4, GrowthSaves

(* A save, or the attempt, makes every record of a save obsolete.          *)
LEMMA SaveSaves ==
  ASSUME IInv, SavedInv, NEW b \in BOOLEAN, Save(b)
  PROVE  SavedInv'
<1>0. list \in Seq(Entries) /\ time \in Nat /\ text \in Seq(Chars)
  BY ListIs DEF TypeOK
<1>1. /\ list' = list /\ work' = << >> /\ joined' = FALSE /\ text' = text
      /\ time' = time + 1
  BY DEF Save, Interrupts
<1>a. trusted' => modified' \/ text' \in Unmodified'
  <2>1. CASE b
    <3>1. trusted' = modified /\ modified' = modified
      BY <2>1 DEF Save
    <3> QED BY <3>1
  <2>2. CASE ~b
    <3>1. saved' = {text}
      BY <2>2 DEF Save
    <3> QED BY <1>0, <1>1, <3>1 DEF Unmodified, Alike
  <2> QED BY <2>1, <2>2
<1>2. ASSUME NEW i \in 1 .. Len(list)
      PROVE  Firm(list[i], time + 1) /\ list[i].time # time + 1
  <2>1. Firm(list[i], time)
    BY DEF SavedInv, Solid
  <2>2. list[i].time \in Nat
    <3>1. list[i] \in Entries
      BY <1>0, ElementOfSeq
    <3> QED BY <3>1 DEF Entries
  <2>3. list[i].time <= time + 1 /\ list[i].time # time + 1
    BY <1>0, <2>1, <2>2 DEF Firm
  <2> QED BY <2>1, <2>3 DEF Firm
<1>3. Solid(list', time')
  BY <1>1, <1>2 DEF Solid
<1>4. Fine(list', time', Unmodified')
  <2>1. \A i \in 1 .. Len(list) : ~Wrong(list[i], time + 1, Unmodified')
    BY <1>2 DEF Wrong
  <2>2. Len(list) \in Nat /\ (Len(list) > 0 => 1 \in 1 .. Len(list))
    BY <1>0
  <2> QED BY <1>1, <2>1, <2>2 DEF Fine, Enclosed
<1>5. trusted' => TrustedInv'
  BY <1>1, <1>4, <1>a, NothingPending DEF TrustedInv
<1>6. Solid(work', time')
  BY <1>1, NothingPending
<1> QED BY <1>1, <1>3, <1>5, <1>6 DEF SavedInv

(* The flag set or cleared by Lisp.                                        *)
LEMMA SetModifiedSaves ==
  ASSUME IInv, SavedInv, NEW b \in BOOLEAN, SetModified(b)
  PROVE  SavedInv'
<1>0. list \in Seq(Entries) /\ work \in Seq(Entries) /\ text \in Seq(Chars)
  BY ListIs
<1>1. /\ pc = "idle" /\ list' = list /\ text' = text /\ time' = time /\ modified' = b
      /\ trusted' = trusted /\ unrecorded' = unrecorded
      /\ saved' = IF b THEN saved ELSE saved \cup {text}
  BY DEF SetModified
<1>2. Unmodified \subseteq Unmodified' /\ (~b => text' \in Unmodified')
  BY <1>0, <1>1 DEF Unmodified, Alike
<1>3. /\ pc' = pc
      /\ (work' = work /\ joined' = joined) \/ (work' = << >> /\ ~joined')
  BY DEF SetModified, Interrupts, undoVars
<1>4. /\ Solid(list', time') /\ Solid(work', time')
      /\ joined' => SharesEnd(work', list')
      /\ joined' /\ pc' = "idle" => Below(work', list')
  BY <1>1, <1>3, NothingPending DEF SavedInv
<1>5. ASSUME trusted
      PROVE  TrustedInv'
  <2>1. /\ Fine(list, time, Unmodified) /\ Enclosed(work, time, Unmodified)
        /\ ~(Len(work) > 0 /\ Wrong(work[1], time, Unmodified))
    BY <1>1, <1>5, IdleIs
  <2>2. Fine(list', time', Unmodified')
    BY <1>0, <1>1, <1>2, <2>1, MoreSaved
  <2>3. Enclosed(work', time', Unmodified') /\ ~(Len(work') > 0 /\ Wrong(work'[1], time', Unmodified'))
    BY <1>0, <1>1, <1>2, <1>3, <2>1, MoreSaved, NothingPending
  <2>4. modified' \/ text' \in Unmodified'
    BY <1>1, <1>2, Zenon
  <2> QED BY <2>2, <2>3, <2>4 DEF TrustedInv
<1> QED BY <1>1, <1>4, <1>5 DEF SavedInv

(* A garbage collection cuts both lists in front of the same boundary.     *)
LEMMA TruncateSaves ==
  ASSUME IInv, SavedInv, Truncate
  PROVE  SavedInv'
<1>0. /\ list \in Seq(Entries) /\ work \in Seq(Entries) /\ Len(list) \in Nat
      /\ Len(work) \in Nat
  BY ListIs
<1>1. PICK n \in 1 .. Len(list) - 1 :
        Truncated(list) = SubSeq(list, 1, n) /\ list[n + 1].kind = "boundary"
  BY <1>0, TruncatedIs DEF Truncate
<1>2. list' = SubSeq(list, 1, n)
  BY <1>1 DEF Truncate
<1>3. /\ list' \in Seq(Entries) /\ Len(list') = n
      /\ \A i \in 1 .. n : list'[i] = list[i]
      /\ Solid(list, time) => Solid(list', time)
      /\ Enclosed(list, time, Unmodified) => Enclosed(list', time, Unmodified)
  BY <1>0, <1>1, <1>2, PrefixEnclosed
<1>4. list'[1] = list[1] /\ Len(list) > 0 /\ Len(list') > 0
  BY <1>0, <1>3
<1>5. /\ text' = text /\ Unmodified' = Unmodified /\ time' = time /\ modified' = modified
      /\ here' = here /\ pc' = pc /\ trusted' = trusted /\ believed' = believed
  BY DEF Truncate, Unmodified
<1>6. Behind' <=> Behind
  BY <1>4, <1>5 DEF Behind
<1> DEFINE k == Len(work) - (Len(list) - n)
\* What is to be shown of the pending list.
<1> DEFINE Kept == /\ Len(work') > 0 <=> Len(work) > 0
                   /\ Len(work) > 0 => work'[1] = work[1]
                   /\ Solid(work, time) => Solid(work', time)
                   /\ Enclosed(work, time, Unmodified) => Enclosed(work', time, Unmodified)
                   /\ joined' => joined /\ SharesEnd(work', list')
                   /\ joined' /\ Below(work, list) => Below(work', list')
<1>7. Kept
  <2>1. CASE joined /\ Len(work) > Len(list) - n
    <3>1. work' = SubSeq(work, 1, k) /\ joined' = joined
      BY <1>3, <2>1 DEF Truncate
    <3>2. SharesEnd(work, list)
      BY <2>1 DEF SavedInv
    <3>3. /\ k \in 1 .. Len(work) - 1 /\ work[k + 1] = list[n + 1]
          /\ SharesEnd(SubSeq(work, 1, k), SubSeq(list, 1, n))
          /\ Below(work, list) => Below(SubSeq(work, 1, k), SubSeq(list, 1, n))
      BY <1>0, <2>1, <3>2, CutShares
    <3> HIDE DEF k
    <3>4. work[k + 1].kind = "boundary"
      BY <1>1, <3>3
    <3>5. /\ Len(work') = k
          /\ \A i \in 1 .. k : work'[i] = work[i]
          /\ Solid(work, time) => Solid(work', time)
          /\ Enclosed(work, time, Unmodified) => Enclosed(work', time, Unmodified)
      BY <1>0, <3>1, <3>3, <3>4, PrefixEnclosed
    <3>6. Len(work') > 0 /\ Len(work) > 0 /\ work'[1] = work[1]
      BY <1>0, <3>3, <3>5
    <3> QED BY <1>2, <2>1, <3>1, <3>3, <3>5, <3>6
  <2>2. CASE ~ (joined /\ Len(work) > Len(list) - n)
    <3>1. work' = work /\ joined' = FALSE
      BY <1>3, <2>2 DEF Truncate
    <3> QED BY <3>1
  <2> QED BY <2>1, <2>2
<1>8. trusted => TrustedInv'
  <2> SUFFICES ASSUME trusted PROVE TrustedInv'
    OBVIOUS
  <2>1. TrustedInv
    BY DEF SavedInv
  <2>2. Fine(list', time', Unmodified') /\ Enclosed(work', time', Unmodified')
    BY <1>3, <1>4, <1>5, <1>7, <2>1 DEF TrustedInv, Fine
  <2>3. Len(work') > 0 /\ Wrong(work'[1], time', Unmodified') => Behind'
    BY <1>5, <1>6, <1>7, <2>1 DEF TrustedInv
  <2>4. \/ modified' \/ text' \in Unmodified'
        \/ Behind' /\ believed' /\ Len(work') > 0 /\ IsChange(work'[1])
    BY <1>5, <1>6, <1>7, <2>1 DEF TrustedInv
  <2> QED BY <2>2, <2>3, <2>4 DEF TrustedInv
<1> HIDE DEF Kept
<1>9. /\ Solid(list', time') /\ Solid(work', time')
      /\ joined' => SharesEnd(work', list')
      /\ joined' /\ pc' = "idle" => Below(work', list')
  BY <1>3, <1>5, <1>7 DEF SavedInv, Kept
<1> QED BY <1>5, <1>8, <1>9 DEF SavedInv

(* The command undo.                                                       *)
LEMMA UndoCommandSaves ==
  ASSUME IInv, SavedInv, NEW b \in BOOLEAN, UndoCommand(b)
  PROVE  SavedInv'
<1>0. /\ list \in Seq(Entries) /\ work \in Seq(Entries) /\ text \in Seq(Chars)
      /\ time \in Nat
  BY ListIs DEF TypeOK
<1>1. Grows(list', list, TRUE, time, Unmodified)
  <2>1. Grows(WithBoundary(list, text), list, TRUE, time, Unmodified)
    BY <1>0, BoundaryGrows
  <2>2. Grows(list, list, TRUE, time, Unmodified)
    BY <1>0, ContinuesTransitive DEF Grows
  <2> QED BY <2>1, <2>2 DEF UndoCommand
<1>2. list' \in Seq(Entries) /\ Continues(list', list) /\ Solid(list', time)
  BY <1>1 DEF Grows, SavedInv
<1>3. /\ pc = "idle" /\ text' = text /\ Unmodified' = Unmodified /\ time' = time
      /\ modified' = modified /\ trusted' = trusted
  BY DEF UndoCommand, Unmodified
<1>4. /\ work' = IF running THEN work ELSE list'
      /\ joined' => pc' = "undoing" /\ (joined \/ ~running)
  BY DEF UndoCommand
<1>5. joined' => SharesEnd(work', list') /\ pc' # "idle"
  <2>1. CASE running
    <3>1. joined' => Below(work, list)
      BY <1>3, <1>4, <2>1 DEF SavedInv
    <3>2. joined' => Below(work, list')
      BY <1>0, <1>2, <3>1, ContinuesBelow
    <3> QED BY <1>4, <2>1, <3>2 DEF Below
  <2>2. CASE ~running
    BY <1>2, <1>4, <2>2, TrivialShares
  <2> QED BY <2>1, <2>2
<1>6. Solid(work', time')
  BY <1>2, <1>3, <1>4 DEF SavedInv
<1>7. ASSUME trusted
      PROVE  TrustedInv'
  <2>1. /\ Fine(list, time, Unmodified) /\ Enclosed(work, time, Unmodified)
        /\ ~(Len(work) > 0 /\ Wrong(work[1], time, Unmodified))
        /\ modified \/ text \in Unmodified
    BY <1>3, <1>7, IdleIs
  <2>2. Fine(list', time, Unmodified)
    BY <1>1, <2>1 DEF Grows
  <2>3. Enclosed(work', time, Unmodified) /\ ~(Len(work') > 0 /\ Wrong(work'[1], time, Unmodified))
    BY <1>4, <2>1, <2>2 DEF Fine
  <2> QED BY <1>3, <2>1, <2>2, <2>3 DEF TrustedInv
<1> QED BY <1>2, <1>3, <1>5, <1>6, <1>7 DEF SavedInv

(* An insertion or a deletion undone: whatever it is, the buffer is        *)
(* modified and the list begins with a change.                             *)
LEMMA UndoChangeSaves ==
  ASSUME IInv, SavedInv, UndoChange
  PROVE  SavedInv'
<1> DEFINE e == work[1]
           right == MayRecord(list, here, text, Unmodified)
<1>0. /\ list \in Seq(Entries) /\ work \in Seq(Entries) /\ text \in Seq(Chars)
      /\ time \in Nat /\ TypeOK /\ Len(text) \in Nat /\ here \in BOOLEAN
  BY ListIs DEF TypeOK
<1>1. /\ pc = "undoing" /\ work # << >> /\ Applies(e, text) /\ e.kind \in {"insert", "delete"}
      /\ work' = Tail(work) /\ Unmodified' = Unmodified /\ time' = time /\ pc' = pc
      /\ joined' = joined /\ trusted' = trusted
      /\ list' = IF e.kind = "delete" THEN record_insert(list, here, text, e.beg, Len(e.str))
                 ELSE IF e.beg < e.end THEN record_delete(list, here, text, e.beg, e.end - e.beg)
                 ELSE list
      /\ modified' = (modified \/ e.kind = "delete" \/ e.beg < e.end)
      /\ here' = (here \/ e.kind = "delete" \/ e.beg < e.end)
  BY DEF UndoChange, Unmodified
<1>2. /\ work' \in Seq(Entries) /\ Solid(work', time) /\ Firm(e, time)
      /\ Enclosed(work, time, Unmodified) => Enclosed(work', time, Unmodified)
  BY <1>0, <1>1, TailEnclosed DEF SavedInv
<1>3. e \in Entries /\ e.beg \in Nat /\ e.end \in Nat /\ e.str \in Seq(Chars)
  <2>1. e \in Entries
    BY <1>0, <1>1, ElementOfSeq, EmptySeq
  <2> QED BY <2>1 DEF Entries
<1> HIDE DEF e
<1>4. Recorded(list', list, right, time, Unmodified) /\ modified' /\ here'
  <2>1. CASE e.kind = "delete"
    <3>1. Len(e.str) \in Nat \ {0}
      BY <1>2, <1>3, <2>1, EmptySeq DEF Firm
    <3>2. Recorded(record_insert(list, here, text, e.beg, Len(e.str)), list, right, time, Unmodified)
      BY <1>0, <1>3, <3>1, RecordInsertGrows
    <3>3. modified' /\ here'
      BY <1>1, <2>1, Zenon
    <3> QED BY <1>1, <2>1, <3>2, <3>3
  <2>2. CASE e.kind = "insert"
    <3>1. e.beg < e.end /\ 1 <= e.beg /\ e.end <= Len(text) + 1
      BY <1>1, <1>2, <2>2 DEF Firm, Applies
    <3>2. e.beg \in 1 .. Len(text) + 1 /\ e.end \in e.beg + 1 .. Len(text) + 1
      BY <1>0, <1>3, <3>1
    <3>3. Recorded(record_delete(list, here, text, e.beg, e.end - e.beg), list, right,
                   time, Unmodified)
      BY <1>0, <3>2, RecordDeleteGrows
    <3>4. modified' /\ here'
      BY <1>1, <3>1, Zenon
    <3>5. list' = record_delete(list, here, text, e.beg, e.end - e.beg)
      BY <1>1, <2>2, <3>1
    <3> QED BY <3>3, <3>4, <3>5
  <2> QED BY <1>1, <2>1, <2>2
<1> HIDE DEF right
<1>5. /\ list' \in Seq(Entries) /\ Continues(list', list) /\ Solid(list', time)
      /\ Len(list') > 0 /\ IsChange(list'[1])
  BY <1>4 DEF Recorded, Grows, SavedInv
<1>6. Behind'
  BY <1>1, <1>4, <1>5 DEF Behind
<1>7. joined' => Below(work', list')
  <2>1. joined' => Below(work', list)
    BY <1>0, <1>1, TailBelow DEF SavedInv
  <2> QED BY <1>0, <1>2, <1>5, <2>1, ContinuesBelow
<1>8. ASSUME trusted
      PROVE  TrustedInv'
  <2>1. TrustedInv
    BY <1>8 DEF SavedInv
  <2>2. right
    BY <2>1 DEF TrustedInv, Behind, right, MayRecord
  <2>3. Fine(list', time, Unmodified)
    BY <1>4, <2>1, <2>2 DEF Recorded, Grows, TrustedInv
  <2>4. Enclosed(work', time, Unmodified)
    BY <1>2, <2>1 DEF TrustedInv
  <2> QED BY <1>1, <1>4, <1>6, <2>3, <2>4 DEF TrustedInv
<1>9. joined' => SharesEnd(work', list')
  BY <1>7 DEF Below
<1> QED BY <1>1, <1>2, <1>5, <1>7, <1>8, <1>9 DEF SavedInv

(* A record of the save: it stands at the text of the file, or primitive-  *)
(* undo goes on to another change.                                         *)
LEMMA UndoSavedSaves ==
  ASSUME IInv, SavedInv, UndoSaved
  PROVE  SavedInv'
<1>0. list \in Seq(Entries) /\ work \in Seq(Entries)
  BY ListIs
<1>1. /\ pc = "undoing" /\ work # << >> /\ work[1].kind = "saved" /\ work[1].time = time
      /\ work' = Tail(work) /\ text' = text /\ Unmodified' = Unmodified /\ time' = time
      /\ list' = list /\ here' = here /\ pc' = pc /\ joined' = joined /\ stale' = stale
      /\ believed' = TRUE
  BY DEF UndoSaved, Unmodified
<1>2. trusted' => trusted /\ ~stale
  BY Zenon DEF UndoSaved
<1>3. /\ Solid(work, time) => Solid(work', time)
      /\ Enclosed(work, time, Unmodified) =>
           /\ Enclosed(work', time, Unmodified)
           /\ Wrong(work[1], time, Unmodified) => Len(work') > 0 /\ IsChange(work'[1])
           /\ Len(work') > 0 /\ Wrong(work'[1], time, Unmodified) => IsChange(work[1])
      /\ Len(work) > 0
  BY <1>0, <1>1, TailEnclosed
<1>4. ~IsChange(work[1]) /\ (Behind' <=> Behind)
  BY <1>1 DEF IsChange, Behind
<1>5. joined' => Below(work', list')
  BY <1>0, <1>1, TailBelow DEF SavedInv
<1>6. ASSUME trusted'
      PROVE  TrustedInv'
  <2>1. TrustedInv /\ ~stale
    BY <1>2, <1>6 DEF SavedInv
  <2>2. LeadsBack(work, text, unrecorded)
    BY <1>1, <2>1 DEF IInv, PendingLeadsBack
  <2>3. Alike(text, work[1].was, unrecorded)
    <3>1. Alike(work[1].was, Undone(text, work[1]), unrecorded)
      BY <1>0, <1>1, <2>2, TailLeads
    <3>2. Undone(text, work[1]) = text
      BY <1>1 DEF Undone
    <3> QED BY <3>1, <3>2 DEF Alike
  <2>4. text' \in Unmodified' \/ (Behind' /\ believed' /\ Len(work') > 0 /\ IsChange(work'[1]))
    <3>1. CASE text \in Unmodified
      BY <1>1, <3>1
    <3>2. CASE text \notin Unmodified
      <4>1. Wrong(work[1], time, Unmodified)
        <5>1. work[1].was \notin Unmodified
          BY <2>3, <3>2, ListIs, AlikeUnmodified
        <5> QED BY <1>1, <5>1 DEF Wrong
      <4>2. Behind' /\ Len(work') > 0 /\ IsChange(work'[1])
        BY <1>3, <1>4, <2>1, <4>1 DEF TrustedInv
      <4> QED BY <1>1, <4>2, Zenon
    <3> QED BY <3>1, <3>2
  <2>5. Enclosed(work', time', Unmodified') /\ ~(Len(work') > 0 /\ Wrong(work'[1], time', Unmodified'))
    BY <1>1, <1>3, <1>4, <2>1 DEF TrustedInv
  <2> QED BY <1>1, <2>1, <2>4, <2>5 DEF TrustedInv
<1>7. Solid(list', time') /\ Solid(work', time') /\ (joined' => SharesEnd(work', list'))
  BY <1>1, <1>3, <1>5 DEF SavedInv, Below
<1> QED BY <1>5, <1>6, <1>7 DEF SavedInv

(* The end of a unit: there is no change in front.                         *)
LEMMA UndoUnitSaves ==
  ASSUME IInv, SavedInv, UndoUnit
  PROVE  SavedInv'
<1>0. list \in Seq(Entries) /\ work \in Seq(Entries)
  BY ListIs
<1>1. /\ text' = text /\ Unmodified' = Unmodified /\ time' = time /\ modified' = modified
      /\ list' = list /\ here' = here /\ trusted' = trusted
      /\ joined' => joined
  BY DEF UndoUnit, Unmodified
<1>2. \/ work = << >> /\ work' = << >>
      \/ work # << >> /\ work[1].kind \in {"boundary", "saved"} /\ work' = Tail(work)
  BY DEF UndoUnit
\* What is to be shown of the pending list.
<1> DEFINE Kept == /\ Solid(work', time)
                   /\ joined' => Below(work', list)
                   /\ Enclosed(work, time, Unmodified) =>
                        /\ Enclosed(work', time, Unmodified)
                        /\ ~(Len(work') > 0 /\ Wrong(work'[1], time, Unmodified))
                   /\ ~(Len(work) > 0 /\ IsChange(work[1]))
<1>3. Kept
  <2>1. CASE work = << >> /\ work' = << >>
    BY <1>0, <2>1, NothingPending, TrivialShares
  <2>2. CASE work # << >> /\ work[1].kind \in {"boundary", "saved"} /\ work' = Tail(work)
    <3>1. ~IsChange(work[1])
      BY <2>2 DEF IsChange
    <3>2. /\ Solid(work, time) => Solid(work', time)
          /\ Enclosed(work, time, Unmodified) =>
               /\ Enclosed(work', time, Unmodified)
               /\ Len(work') > 0 /\ Wrong(work'[1], time, Unmodified) => IsChange(work[1])
      BY <1>0, <2>2, TailEnclosed
    <3>3. joined' => Below(work', list)
      BY <1>0, <1>1, <2>2, TailBelow DEF SavedInv
    <3> QED BY <3>1, <3>2, <3>3 DEF SavedInv
  <2> QED BY <1>2, <2>1, <2>2
<1>4. ASSUME trusted
      PROVE  TrustedInv'
  <2>1. TrustedInv
    BY <1>4 DEF SavedInv
  <2>2. modified \/ text \in Unmodified
    BY <1>3, <2>1 DEF TrustedInv
  <2> QED BY <1>1, <1>3, <2>1, <2>2 DEF TrustedInv
<1>5. joined' => Below(work', list') /\ SharesEnd(work', list')
  BY <1>1, <1>3 DEF Below
<1>6. Solid(list', time') /\ Solid(work', time')
  BY <1>1, <1>3 DEF SavedInv
<1> QED BY <1>1, <1>4, <1>5, <1>6 DEF SavedInv

(* A change that is refused: the flag counts unless it has just been       *)
(* cleared.                                                                *)
LEMMA UndoFailsSaves ==
  ASSUME IInv, SavedInv, UndoFails
  PROVE  SavedInv'
<1>1. /\ text' = text /\ Unmodified' = Unmodified /\ time' = time /\ modified' = modified
      /\ list' = list /\ work' = << >> /\ joined' = FALSE
  BY DEF UndoFails, Unmodified
<1>2. trusted' => trusted /\ ~believed
  BY Zenon DEF UndoFails
<1>3. trusted' => TrustedInv'
  BY <1>1, <1>2, NothingPending DEF SavedInv, TrustedInv
<1>4. Solid(list', time') /\ Solid(work', time')
  BY <1>1, NothingPending DEF SavedInv
<1> QED BY <1>1, <1>3, <1>4 DEF SavedInv

(* Every step keeps the invariant.                                         *)
LEMMA StepSaved ==
  ASSUME IInv, SavedInv, [Next]_vars
  PROVE  SavedInv'
<1>1. CASE UNCHANGED vars
  BY <1>1 DEF vars, undoVars, SavedInv, TrustedInv, Behind, Unmodified
<1>2. ASSUME NEW i \in BOOLEAN, NEW p \in 1 .. Len(text) + 1, NEW s \in Strings,
             Insert(p, s, i)
      PROVE  SavedInv'
  BY <1>2, InsertSaves
<1>3. ASSUME NEW i \in BOOLEAN, NEW p \in 1 .. Len(text) + 1, NEW q \in 1 .. Len(text) + 1,
             p < q, Delete(p, q, i)
      PROVE  SavedInv'
  BY <1>3, DeleteSaves
<1>4. ASSUME NEW i \in BOOLEAN, NEW p \in 1 .. Len(text), NEW c \in Chars,
             NEW n \in BOOLEAN, ReplaceChar(p, c, n, i)
      PROVE  SavedInv'
  BY <1>4, ReplaceSaves
<1>5. CASE OtherBuffer \/ OtherCommand \/ Truncate
  BY <1>5, OtherBufferSaves, OtherCommandSaves, TruncateSaves
<1>6. ASSUME NEW b \in BOOLEAN, Save(b) \/ SetModified(b) \/ UndoCommand(b)
      PROVE  SavedInv'
  BY <1>6, SaveSaves, SetModifiedSaves, UndoCommandSaves
<1>7. CASE UndoChange \/ UndoSaved \/ UndoUnit \/ UndoFails
  BY <1>7, UndoChangeSaves, UndoSavedSaves, UndoUnitSaves, UndoFailsSaves
<1> QED BY <1>1, <1>2, <1>3, <1>4, <1>5, <1>6, <1>7, Zenon DEF Next

(* A buffer that is not modified has the text of its file, or one that     *)
(* set-buffer-modified-p has called unmodified since the last save, after  *)
(* any changes, saves, truncations and undos but these: undo was refused   *)
(* the change right behind a record of a save, or believed such a record   *)
(* in a list that was stale, or an unmodified buffer failed to be written. *)
(* After a replacement with NOUNDO the length of the text is all that is   *)
(* shown.                                                                  *)
THEOREM UnmodifiedAlwaysSaved == Spec => []UnmodifiedMeansSaved
<1>1. IInv /\ SavedInv /\ [Next]_vars => IInv' /\ SavedInv'
  BY StepIInv, StepSaved
<1>2. SavedInv => UnmodifiedMeansSaved
  BY IdleIs DEF UnmodifiedMeansSaved, Unmodified
<1> QED BY InitIInv, InitSaved, <1>1, <1>2, PTL DEF Spec
=============================================================================
