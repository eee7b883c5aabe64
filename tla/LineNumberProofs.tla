-------------------------- MODULE LineNumberProofs --------------------------
(***************************************************************************)
(* The line numbers of LineNumberCache are right, for every size of the    *)
(* ring, every distance that counts as far and every text, in a buffer     *)
(* whose accessible part always begins at the beginning and whose newlines *)
(* are not replaced in place.  (Without either hypothesis they are not.)   *)
(*                                                                         *)
(* The argument is about sets of newlines: the line of a position is the   *)
(* number of newlines in front of it, and an edit keeps it for every       *)
(* position whose entry stays in the ring, because the newlines before the *)
(* edit are the same and those behind it are shifted one to one.           *)
(***************************************************************************)
EXTENDS LineNumberCache, FiniteSetTheorems, FunctionTheorems, TLAPS

\* What the theorems assume of the constants.
FirstLineOnly == Starts \subseteq {1} /\ ~SwapsNewlines

\* The newlines of T in front of position P, and how many there are.
NewlinesIn(t, p, q) == {i \in p .. q - 1 : t[i] = Newline}
LineOf(t, p) == Newlines(t, 1, p)

-----------------------------------------------------------------------------
(* Counting newlines.                                                      *)

(* The newlines of a part of the text are finitely many.                   *)
LEMMA NewlinesFinite ==
  ASSUME NEW t, NEW p \in Int, NEW q \in Int
  PROVE  /\ IsFiniteSet(NewlinesIn(t, p, q))
         /\ Newlines(t, p, q) = Cardinality(NewlinesIn(t, p, q))
         /\ Newlines(t, p, q) \in Nat
<1>1. IsFiniteSet(p .. q - 1)
  BY FS_Interval
<1>2. NewlinesIn(t, p, q) \in SUBSET (p .. q - 1)
  BY DEF NewlinesIn
<1>3. IsFiniteSet(NewlinesIn(t, p, q))
  BY <1>1, <1>2, FS_Subset
<1>4. Newlines(t, p, q) = Cardinality(NewlinesIn(t, p, q))
  BY DEF Newlines, NewlinesIn
<1> QED BY <1>3, <1>4, FS_CardinalityType

(* Counting on from P to Q adds up.                                        *)
LEMMA NewlinesAdd ==
  ASSUME NEW t, NEW p \in Nat, NEW q \in Nat, 1 <= p, p <= q
  PROVE  LineOf(t, q) = LineOf(t, p) + Newlines(t, p, q)
<1> DEFINE A == NewlinesIn(t, 1, p)
           B == NewlinesIn(t, p, q)
<1>1. NewlinesIn(t, 1, q) = A \cup B /\ A \cap B = {}
  BY DEF NewlinesIn
<1>2. IsFiniteSet(A) /\ IsFiniteSet(B)
  BY NewlinesFinite
<1>3. Cardinality(A \cup B) = Cardinality(A) + Cardinality(B) - Cardinality({})
  BY <1>1, <1>2, FS_Union
<1>4. Cardinality({}) = 0
  BY FS_EmptySet
<1>5. /\ LineOf(t, q) = Cardinality(A \cup B)
      /\ LineOf(t, p) = Cardinality(A) /\ Cardinality(A) \in Nat
      /\ Newlines(t, p, q) = Cardinality(B) /\ Cardinality(B) \in Nat
  BY <1>1, NewlinesFinite DEF LineOf
<1> HIDE DEF A, B
<1> QED BY <1>3, <1>4, <1>5

(* The signed count between two positions is the difference of their       *)
(* lines.                                                                  *)
LEMMA CountIsDifference ==
  ASSUME NEW t, NEW p \in Nat, NEW q \in Nat, 1 <= p, 1 <= q
  PROVE  /\ Count(t, p, q) = LineOf(t, q) - LineOf(t, p)
         /\ LineOf(t, p) \in Nat /\ LineOf(t, q) \in Nat
<1>1. /\ LineOf(t, p) \in Nat /\ LineOf(t, q) \in Nat
      /\ Newlines(t, p, q) \in Nat /\ Newlines(t, q, p) \in Nat
  BY NewlinesFinite DEF LineOf
<1>2. CASE p <= q
  BY <1>1, <1>2, NewlinesAdd DEF Count
<1>3. CASE p > q
  <2>1. LineOf(t, p) = LineOf(t, q) + Newlines(t, q, p)
    BY <1>3, NewlinesAdd
  <2> QED BY <1>1, <1>3, <2>1 DEF Count
<1> QED BY <1>1, <1>2, <1>3

(* The first line has nothing in front of it.                              *)
LEMMA FirstLine == ASSUME NEW t PROVE LineOf(t, 1) = 0
<1>1. NewlinesIn(t, 1, 1) = {}
  BY DEF NewlinesIn
<1> QED BY <1>1, NewlinesFinite, FS_EmptySet DEF LineOf

(* Two texts with the same newlines in front of P.                         *)
LEMMA SameLine ==
  ASSUME NEW t, NEW t2, NEW x \in Nat, NEW y \in Nat,
         NewlinesIn(t, 1, x) = NewlinesIn(t2, 1, y)
  PROVE  LineOf(t, x) = LineOf(t2, y)
BY NewlinesFinite DEF LineOf

\* T2 is T with the characters from P to Q replaced by others, no newline being
\* among the old or the new ones; what is behind them up to X has moved by D.
SameLinesAround(t, t2, p, q, d, x) ==
  /\ \A i \in 1 .. p - 1 : t2[i] = t[i]
  /\ \A i \in q .. x - 1 : t2[i + d] = t[i]
  /\ \A i \in p .. q - 1 : t[i] # Newline
  /\ \A i \in p .. q + d - 1 : t2[i] # Newline

(* The heart of the matter: a position that moves with the text keeps its  *)
(* line when the edit in front of it is of characters within a line.       *)
LEMMA ShiftedLine ==
  ASSUME NEW t, NEW t2, NEW p \in Nat, NEW q \in Nat, NEW d \in Int, NEW x \in Nat,
         1 <= p, p <= q, p <= q + d, q <= x, SameLinesAround(t, t2, p, q, d, x)
  PROVE  LineOf(t2, x + d) = LineOf(t, x)
<1> USE DEF SameLinesAround
<1> DEFINE A == NewlinesIn(t, 1, x)
           B == NewlinesIn(t2, 1, x + d)
           f == [i \in A |-> IF i < p THEN i ELSE i + d]
<1>1. \A i \in A : i \in Int /\ 1 <= i /\ i < x /\ t[i] = Newline /\ (i < p \/ i >= q)
  BY DEF NewlinesIn
<1>2. \A j \in B : j \in Int /\ 1 <= j /\ j < x + d /\ t2[j] = Newline /\ (j < p \/ j >= q + d)
  BY DEF NewlinesIn
<1>3. \A i \in A : f[i] \in B
  <2> SUFFICES ASSUME NEW i \in A PROVE f[i] \in B
    OBVIOUS
  <2>1. CASE i < p
    BY <1>1, <2>1 DEF NewlinesIn
  <2>2. CASE ~(i < p)
    <3>1. i \in q .. x - 1 /\ f[i] = i + d
      BY <1>1, <2>2
    <3>2. t2[i + d] = Newline
      BY <1>1, <3>1
    <3> QED BY <3>1, <3>2 DEF NewlinesIn
  <2> QED BY <2>1, <2>2
<1>4. \A i, j \in A : f[i] = f[j] => i = j
  BY <1>1
<1>5. \A j \in B : \E i \in A : f[i] = j
  <2> SUFFICES ASSUME NEW j \in B PROVE \E i \in A : f[i] = j
    OBVIOUS
  <2>1. CASE j < p
    <3>1. j \in A
      BY <1>2, <2>1 DEF NewlinesIn
    <3> QED BY <2>1, <3>1
  <2>2. CASE ~(j < p)
    <3>1. j - d \in q .. x - 1 /\ (j - d) + d = j
      BY <1>2, <2>2
    <3>2. t[j - d] = Newline
      BY <1>2, <3>1
    <3>3. j - d \in A
      BY <3>1, <3>2 DEF NewlinesIn
    <3> QED BY <3>1, <3>3
  <2> QED BY <2>1, <2>2
<1>6. f \in Bijection(A, B)
  <2>1. f \in [A -> B]
    BY <1>3
  <2> QED BY <2>1, <1>4, <1>5, Fun_IsBij
<1>7. IsFiniteSet(A)
  BY NewlinesFinite
<1>8. Cardinality(A) = Cardinality(B)
  BY <1>6, <1>7, FS_Bijection DEF ExistsBijection
<1> QED BY <1>8, NewlinesFinite DEF LineOf

-----------------------------------------------------------------------------
(* Edits.                                                                  *)

\* No newline among the characters of T from P up to Q.
NoNewline(t, p, q) == \A i \in p .. q - 1 : t[i] # Newline

(* An insertion keeps the line of a position in front of it, and of every  *)
(* position when no newline is inserted.                                   *)
LEMMA InsertKeepsLine ==
  ASSUME NEW t, NEW s, NEW m \in Nat, NEW n \in Nat, Len(t) = m, Len(s) = n,
         NEW p \in 1 .. m + 1, NEW x \in 1 .. m + 1, NEW before \in BOOLEAN,
         x < p \/ NoNewline(s, 1, n + 1)
  PROVE  /\ AfterInsert(x, p, n, before) \in 1 .. m + n + 1
         /\ LineOf(Inserted(t, p, s), AfterInsert(x, p, n, before)) = LineOf(t, x)
<1> DEFINE t2 == Inserted(t, p, s)
           y == AfterInsert(x, p, n, before)
<1>1. \A i \in 1 .. m + n : t2[i] = IF i < p THEN t[i]
                                    ELSE IF i < p + n THEN s[i - p + 1] ELSE t[i - n]
  BY DEF Inserted
<1>2. y \in 1 .. m + n + 1
  BY DEF AfterInsert
<1> HIDE DEF t2
<1>3. CASE x < p \/ (x = p /\ ~before)
  <2>1. y = x
    BY <1>3 DEF AfterInsert
  <2>2. \A i \in 1 .. x - 1 : t2[i] = t[i]
    BY <1>1, <1>3
  <2>3. NewlinesIn(t2, 1, x) = NewlinesIn(t, 1, x)
    BY <2>2 DEF NewlinesIn
  <2>4. LineOf(t2, x) = LineOf(t, x)
    BY <2>3, SameLine
  <2> QED BY <1>2, <2>1, <2>4 DEF t2
<1>4. CASE ~(x < p \/ (x = p /\ ~before))
  <2>1. y = x + n /\ p <= x
    BY <1>4 DEF AfterInsert
  <2>2. \A i \in 1 .. p - 1 : t2[i] = t[i]
    BY <1>1
  <2>3. \A i \in p .. x - 1 : t2[i + n] = t[i]
    <3> SUFFICES ASSUME NEW i \in p .. x - 1 PROVE t2[i + n] = t[i]
      OBVIOUS
    <3>1. i + n \in 1 .. m + n /\ ~(i + n < p) /\ ~(i + n < p + n) /\ (i + n) - n = i
      OBVIOUS
    <3> QED BY <3>1, <1>1
  <2>4. \A i \in p .. p + n - 1 : t2[i] # Newline
    <3> SUFFICES ASSUME NEW i \in p .. p + n - 1 PROVE t2[i] # Newline
      OBVIOUS
    <3>1. i \in 1 .. m + n /\ ~(i < p) /\ i < p + n /\ i - p + 1 \in 1 .. (n + 1) - 1
      OBVIOUS
    <3>2. s[i - p + 1] # Newline
      BY <1>4, <3>1 DEF NoNewline
    <3> QED BY <3>1, <3>2, <1>1
  <2>5. LineOf(t2, x + n) = LineOf(t, x)
    <3>1. p \in Nat /\ x \in Nat /\ n \in Int /\ 1 <= p /\ p <= p /\ p <= p + n
      OBVIOUS
    <3>2. \A i \in p .. p - 1 : t[i] # Newline
      OBVIOUS
    <3>3. SameLinesAround(t, t2, p, p, n, x)
      BY <2>2, <2>3, <2>4, <3>2 DEF SameLinesAround
    <3> QED BY <2>1, <3>1, <3>3, ShiftedLine
  <2> QED BY <1>2, <2>1, <2>5 DEF t2
<1> QED BY <1>3, <1>4

(* A deletion keeps the line of a position in front of it, and of every    *)
(* position when no newline is deleted.                                    *)
LEMMA DeleteKeepsLine ==
  ASSUME NEW t, NEW m \in Nat, Len(t) = m,
         NEW p \in 1 .. m + 1, NEW q \in 1 .. m + 1, p < q, NEW x \in 1 .. m + 1,
         x < p \/ NoNewline(t, p, q)
  PROVE  /\ AfterDelete(x, p, q) \in 1 .. m - (q - p) + 1
         /\ LineOf(Deleted(t, p, q), AfterDelete(x, p, q)) = LineOf(t, x)
<1> DEFINE t2 == Deleted(t, p, q)
           d == - (q - p)
           y == AfterDelete(x, p, q)
<1>1. \A i \in 1 .. m - (q - p) : t2[i] = IF i < p THEN t[i] ELSE t[i + (q - p)]
  BY DEF Deleted
<1>2. y \in 1 .. m - (q - p) + 1
  BY DEF AfterDelete
<1>3. \A i \in 1 .. p - 1 : t2[i] = t[i]
  BY <1>1
<1> HIDE DEF t2
<1>4. CASE x <= p
  <2>1. y = x
    BY <1>4 DEF AfterDelete
  <2>2. NewlinesIn(t2, 1, x) = NewlinesIn(t, 1, x)
    BY <1>3, <1>4 DEF NewlinesIn
  <2>3. LineOf(t2, x) = LineOf(t, x)
    BY <2>2, SameLine
  <2> QED BY <1>2, <2>1, <2>3 DEF t2
<1>5. CASE p < x /\ x < q
  <2>1. y = p
    BY <1>5 DEF AfterDelete
  <2>2. NoNewline(t, p, q)
    BY <1>5
  <2>3. NewlinesIn(t2, 1, p) = NewlinesIn(t, 1, x)
    <3>1. \A i \in 1 .. x - 1 : i < p \/ t[i] # Newline
      BY <1>5, <2>2 DEF NoNewline
    <3> QED BY <1>3, <1>5, <3>1 DEF NewlinesIn
  <2>4. LineOf(t2, p) = LineOf(t, x)
    BY <2>3, SameLine
  <2> QED BY <1>2, <2>1, <2>4 DEF t2
<1>6. CASE q <= x
  <2>1. y = x + d
    BY <1>6 DEF AfterDelete
  <2>2. \A i \in p .. q - 1 : t[i] # Newline
    BY <1>6 DEF NoNewline
  <2>3. \A i \in q .. x - 1 : t2[i + d] = t[i]
    <3> SUFFICES ASSUME NEW i \in q .. x - 1 PROVE t2[i + d] = t[i]
      OBVIOUS
    <3>1. /\ i + d \in 1 .. m - (q - p) /\ ~(i + d < p)
          /\ (i + d) + (q - p) = i
      BY <1>6
    <3> QED BY <3>1, <1>1
  <2>4. \A i \in p .. q + d - 1 : t2[i] # Newline
    OBVIOUS
  <2>5. LineOf(t2, x + d) = LineOf(t, x)
    <3>1. p \in Nat /\ q \in Nat /\ x \in Nat /\ d \in Int /\ 1 <= p /\ p <= q /\ p <= q + d
      OBVIOUS
    <3> HIDE DEF d
    <3>2. SameLinesAround(t, t2, p, q, d, x)
      BY <1>3, <2>2, <2>3, <2>4 DEF SameLinesAround
    <3> QED BY <1>6, <3>1, <3>2, ShiftedLine
  <2> QED BY <1>2, <2>1, <2>5 DEF t2
<1> QED BY <1>4, <1>5, <1>6

-----------------------------------------------------------------------------
(* The inductive invariant.                                                *)

\* E is a position of text T with its line.
Known(t, e) == e.at \in 1 .. Len(t) + 1 /\ e.line = LineOf(t, e.at)
AllKnown(t, r) == \A i \in DOMAIN r : Known(t, r[i])

\* R is a sequence.
IsRing(r) == \E n \in Nat : DOMAIN r = 1 .. n /\ Len(r) = n

\* The accessible part begins with the text, on line 0.
FromTheTop == begv = 1 /\ begvLine \in {NoCache, 0} /\ zv \in 1 .. Z

LineInv ==
  /\ text \in Seq(Chars)
  /\ FromTheTop
  /\ IsRing(ring)
  /\ AllKnown(text, ring)
  /\ shown # NoLine => Known(text, shown)

(* The ring that Carry makes is right for the new text if the positions    *)
(* kept have their old lines where they are carried to.                    *)
LEMMA CarryKnown ==
  ASSUME IsRing(ring), NEW kept \in SUBSET DOMAIN ring, NEW to, NEW t2,
         \A i \in kept : /\ to[ring[i].at] \in 1 .. Len(t2) + 1
                         /\ LineOf(t2, to[ring[i].at]) = ring[i].line,
         Carry(kept, to)
  PROVE  IsRing(ring') /\ AllKnown(t2, ring')
<1> DEFINE c == Cardinality(kept)
<1>1. c \in Nat
  <2>1. PICK n \in Nat : DOMAIN ring = 1 .. n
    BY DEF IsRing
  <2>2. IsFiniteSet(1 .. n)
    BY FS_Interval
  <2> QED BY <2>1, <2>2, FS_Subset, FS_CardinalityType
<1>2. PICK f \in [1 .. c -> kept] :
        ring' = [k \in DOMAIN f |-> [at |-> to[ring[f[k]].at], line |-> ring[f[k]].line]]
  BY DEF Carry
<1> HIDE DEF c
<1>3. DOMAIN ring' = 1 .. c
  BY <1>2
<1>4. IsRing(ring')
  <2>1. Len(ring') = c
    BY <1>1, <1>2
  <2> QED BY <1>1, <1>3, <2>1 DEF IsRing
<1>5. ASSUME NEW k \in DOMAIN ring' PROVE Known(t2, ring'[k])
  <2>1. f[k] \in kept
    BY <1>2, <1>3, <1>5
  <2>2. ring'[k] = [at |-> to[ring[f[k]].at], line |-> ring[f[k]].line]
    BY <1>2, <1>3, <1>5
  <2>3. ring'[k].at = to[ring[f[k]].at] /\ ring'[k].line = ring[f[k]].line
    BY <2>2
  <2>4. /\ to[ring[f[k]].at] \in 1 .. Len(t2) + 1
        /\ LineOf(t2, to[ring[f[k]].at]) = ring[f[k]].line
    BY <2>1
  <2> QED BY <2>3, <2>4 DEF Known
<1> QED BY <1>4, <1>5 DEF AllKnown

(* Initially nothing is known.                                             *)
LEMMA LineInit == Init => LineInv
<1> SUFFICES ASSUME Init PROVE LineInv
  OBVIOUS
<1>1. text = << >> /\ ring = << >> /\ text \in Seq(Chars) /\ Len(text) = 0
  BY DEF Init
<1>2. IsRing(ring) /\ AllKnown(text, ring)
  <2>1. DOMAIN ring = 1 .. 0 /\ Len(ring) = 0
    BY <1>1
  <2> QED BY <2>1 DEF IsRing, AllKnown
<1> QED BY <1>1, <1>2 DEF Init, LineInv, FromTheTop, Z

(* An insertion leaves the ring right.                                     *)
LEMMA LineInsert ==
  ASSUME LineInv, NEW p, NEW s \in Strings, NEW before \in BOOLEAN, Insert(p, s, before)
  PROVE  LineInv'
<1> DEFINE m == Len(text)
           n == Len(s)
           t2 == Inserted(text, p, s)
           to == [x \in 1 .. Z |-> AfterInsert(x, p, n, before)]
           kept == Kept(p, s)
<1>1. /\ text \in Seq(Chars) /\ s \in Seq(Chars) /\ m \in Nat /\ n \in Nat
      /\ begv = 1 /\ zv \in 1 .. m + 1 /\ p \in 1 .. m + 1
  BY LineNumberAssumption DEF LineInv, FromTheTop, Insert, Z
<1>2. t2 \in Seq(Chars) /\ Len(t2) = m + n
  BY <1>1 DEF Inserted
<1>3. kept \in SUBSET DOMAIN ring
  BY DEF Kept, Invalidate
<1>4. \A i \in kept : ring[i].at < p \/ NoNewline(s, 1, n + 1)
  BY <1>1 DEF Kept, Invalidate, NoNewline
<1>5. ASSUME NEW i \in kept
      PROVE  to[ring[i].at] \in 1 .. Len(t2) + 1 /\ LineOf(t2, to[ring[i].at]) = ring[i].line
  <2>1. ring[i].at \in 1 .. m + 1 /\ ring[i].line = LineOf(text, ring[i].at)
    BY <1>3 DEF LineInv, AllKnown, Known
  <2>2. to[ring[i].at] = AfterInsert(ring[i].at, p, n, before)
    BY <2>1 DEF Z
  <2>3. ring[i].at < p \/ NoNewline(s, 1, n + 1)
    BY <1>4
  <2>4. \A x \in 1 .. m + 1 : x < p \/ NoNewline(s, 1, n + 1) =>
          /\ AfterInsert(x, p, n, before) \in 1 .. m + n + 1
          /\ LineOf(t2, AfterInsert(x, p, n, before)) = LineOf(text, x)
    BY <1>1, InsertKeepsLine
  <2> HIDE DEF t2, to, m, n
  <2> QED BY <1>2, <2>1, <2>2, <2>3, <2>4
<1>6. text' = t2 /\ Carry(kept, to)
  BY DEF Insert
<1>7. IsRing(ring)
  BY DEF LineInv
<1>8. IsRing(ring') /\ AllKnown(t2, ring')
  <2> HIDE DEF kept, to, t2
  <2> QED BY <1>3, <1>5, <1>6, <1>7, CarryKnown
<1>9. FromTheTop'
  <2>1. zv' = zv + n /\ begv' = begv /\ begvLine' = begvLine /\ Z' = m + n + 1
    BY <1>2, <1>6 DEF Insert, Z
  <2> HIDE DEF m, n
  <2> QED BY <1>1, <2>1 DEF LineInv, FromTheTop
<1>10. shown' = NoLine
  BY DEF Insert
<1> QED BY <1>2, <1>6, <1>8, <1>9, <1>10 DEF LineInv

(* A deletion leaves the ring right.                                       *)
LEMMA LineDelete ==
  ASSUME LineInv, NEW p \in 1 .. Z, NEW q \in 1 .. Z, Delete(p, q)
  PROVE  LineInv'
<1> DEFINE m == Len(text)
           t2 == Deleted(text, p, q)
           to == [x \in 1 .. Z |-> AfterDelete(x, p, q)]
           kept == Kept(p, SubSeq(text, p, q - 1))
<1>1. /\ text \in Seq(Chars) /\ m \in Nat
      /\ begv = 1 /\ zv \in 1 .. m + 1 /\ p \in 1 .. m + 1 /\ q \in 1 .. m + 1
      /\ p < q /\ q <= zv
  BY DEF LineInv, FromTheTop, Delete, Z
<1>2. t2 \in Seq(Chars) /\ Len(t2) = m - (q - p)
  BY <1>1 DEF Deleted
<1>3. kept \in SUBSET DOMAIN ring
  BY DEF Kept, Invalidate
<1>4. \A i \in kept : ring[i].at < p \/ NoNewline(text, p, q)
  <2>1. /\ DOMAIN SubSeq(text, p, q - 1) = 1 .. q - p
        /\ \A j \in 1 .. q - p : SubSeq(text, p, q - 1)[j] = text[p + j - 1]
    BY <1>1
  <2>2. ASSUME \A j \in 1 .. q - p : text[p + j - 1] # Newline PROVE NoNewline(text, p, q)
    <3> SUFFICES ASSUME NEW i \in p .. q - 1 PROVE text[i] # Newline
      BY DEF NoNewline
    <3>1. i - p + 1 \in 1 .. q - p /\ p + (i - p + 1) - 1 = i
      BY <1>1
    <3> QED BY <2>2, <3>1
  <2> QED BY <2>1, <2>2 DEF Kept, Invalidate
<1>5. ASSUME NEW i \in kept
      PROVE  to[ring[i].at] \in 1 .. Len(t2) + 1 /\ LineOf(t2, to[ring[i].at]) = ring[i].line
  <2>1. ring[i].at \in 1 .. m + 1 /\ ring[i].line = LineOf(text, ring[i].at)
    BY <1>3 DEF LineInv, AllKnown, Known
  <2>2. to[ring[i].at] = AfterDelete(ring[i].at, p, q)
    BY <2>1 DEF Z
  <2>3. ring[i].at < p \/ NoNewline(text, p, q)
    BY <1>4
  <2>4. \A x \in 1 .. m + 1 : x < p \/ NoNewline(text, p, q) =>
          /\ AfterDelete(x, p, q) \in 1 .. m - (q - p) + 1
          /\ LineOf(t2, AfterDelete(x, p, q)) = LineOf(text, x)
    BY <1>1, DeleteKeepsLine
  <2> HIDE DEF t2, to, m
  <2> QED BY <1>2, <2>1, <2>2, <2>3, <2>4
<1>6. text' = t2 /\ Carry(kept, to)
  BY DEF Delete
<1>7. IsRing(ring)
  BY DEF LineInv
<1>8. IsRing(ring') /\ AllKnown(t2, ring')
  <2> HIDE DEF kept, to, t2
  <2> QED BY <1>3, <1>5, <1>6, <1>7, CarryKnown
<1>9. FromTheTop'
  <2>1. /\ zv' = zv - (q - p) /\ begv' = begv /\ begvLine' = begvLine
        /\ Z' = m - (q - p) + 1
    BY <1>2, <1>6 DEF Delete, Z
  <2> HIDE DEF m
  <2> QED BY <1>1, <2>1 DEF LineInv, FromTheTop
<1>10. shown' = NoLine
  BY DEF Delete
<1> QED BY <1>2, <1>6, <1>8, <1>9, <1>10 DEF LineInv

(* Replacing a character of a line by another leaves the lines alone.      *)
LEMMA LineReplace ==
  ASSUME FirstLineOnly, LineInv, NEW p \in 1 .. Len(text), NEW c \in Chars, ReplaceChar(p, c)
  PROVE  LineInv'
<1> DEFINE t2 == [text EXCEPT ![p] = c]
<1>1. text \in Seq(Chars) /\ Len(text) \in Nat
  BY DEF LineInv
<1>2. text' = t2 /\ t2 \in Seq(Chars) /\ Len(t2) = Len(text)
  BY <1>1 DEF ReplaceChar
<1>3. \A i \in 1 .. Len(text) : t2[i] = Newline <=> text[i] = Newline
  BY <1>1 DEF ReplaceChar, FirstLineOnly
<1> HIDE DEF t2
<1>4. \A x \in 1 .. Len(text) + 1 : LineOf(t2, x) = LineOf(text, x)
  <2> SUFFICES ASSUME NEW x \in 1 .. Len(text) + 1 PROVE LineOf(t2, x) = LineOf(text, x)
    OBVIOUS
  <2>1. x \in Nat /\ \A i \in 1 .. x - 1 : i \in 1 .. Len(text)
    BY <1>1
  <2>2. NewlinesIn(t2, 1, x) = NewlinesIn(text, 1, x)
    BY <1>3, <2>1 DEF NewlinesIn
  <2> QED BY <2>1, <2>2, SameLine
<1>5. AllKnown(t2, ring)
  BY <1>2, <1>4 DEF LineInv, AllKnown, Known
<1>6. FromTheTop'
  BY <1>2 DEF LineInv, FromTheTop, ReplaceChar, Z
<1> QED BY <1>2, <1>5, <1>6 DEF LineInv, ReplaceChar

(* Narrowing, widening and returning from save-restriction do not touch    *)
(* the text or the ring.                                                   *)
LEMMA LineRestrict ==
  ASSUME LineInv, FromTheTop', shown' = NoLine, UNCHANGED <<text, ring>>
  PROVE  LineInv'
BY DEF LineInv

(* An answer, counted from BEGV or from the nearest entry, is right, and   *)
(* so is the entry made of it.                                             *)
LEMMA LineAnswer ==
  ASSUME LineInv, NEW pos \in 1 .. Z, LineNumber(pos)
  PROVE  LineInv'
<1> DEFINE allocated == IF begvLine = NoCache THEN Narrowed(0, begv) ELSE begvLine
           known == IF allocated = -1 THEN CountFromBegv(begv) ELSE allocated
           cachep == Abs(pos - begv) > Far
<1>1. /\ text \in Seq(Chars) /\ Len(text) \in Nat /\ pos \in 1 .. Len(text) + 1
      /\ begv = 1 /\ begvLine \in {NoCache, 0}
  BY DEF LineInv, FromTheTop, Z
<1>2. known = 0
  BY <1>1, LineNumberAssumption DEF Narrowed
<1>3. \A x \in 1 .. Len(text) + 1 :
        Count(text, x, pos) = LineOf(text, pos) - LineOf(text, x) /\ LineOf(text, x) \in Nat
  BY <1>1, CountIsDifference
<1>4. LineOf(text, 1) = 0 /\ LineOf(text, pos) \in Nat
  BY <1>1, <1>3, FirstLine
<1>5. UNCHANGED <<text, begv, zv>>
  BY DEF LineNumber
<1> HIDE DEF allocated
<1>6. CASE ~cachep
  <2>1. shown' = [at |-> pos, line |-> Count(text, 1, pos)] /\ UNCHANGED <<ring, begvLine>>
    BY <1>1, <1>6 DEF LineNumber, CountFromBegv
  <2>2. shown'.at = pos /\ shown'.line = LineOf(text, pos)
    BY <1>1, <1>3, <1>4, <2>1
  <2>3. Known(text, shown')
    BY <1>1, <2>2 DEF Known
  <2>4. FromTheTop'
    BY <1>5, <2>1 DEF LineInv, FromTheTop, Z
  <2> QED BY <1>5, <2>1, <2>3, <2>4 DEF LineInv
<1>7. CASE cachep
  <2> DEFINE line(from) == Count(text, from.at, pos) + from.line
  <2>1. begvLine' = 0
    BY <1>2, <1>7 DEF LineNumber, allocated
  <2>2. PICK from \in Nearest(pos, 0) :
          /\ ring' = IF Abs(pos - from.at) > Far
                     THEN Add(ring, [at |-> pos, line |-> line(from)]) ELSE ring
          /\ shown' = [at |-> pos, line |-> line(from) - 0]
    BY <1>2, <1>7 DEF LineNumber, allocated
  <2>3. Known(text, from)
    <3>1. from = [at |-> begv, line |-> 0] \/ \E i \in DOMAIN ring : from = ring[i]
      BY <2>2 DEF Nearest
    <3>2. CASE from = [at |-> begv, line |-> 0]
      BY <1>1, <1>4, <3>2 DEF Known
    <3> QED BY <3>1, <3>2 DEF LineInv, AllKnown
  <2>4. line(from) = LineOf(text, pos)
    <3>1. from.at \in 1 .. Len(text) + 1 /\ from.line = LineOf(text, from.at)
      BY <2>3 DEF Known
    <3>2. /\ Count(text, from.at, pos) = LineOf(text, pos) - LineOf(text, from.at)
          /\ LineOf(text, from.at) \in Nat
      BY <1>3, <3>1
    <3> QED BY <1>4, <3>1, <3>2
  <2> DEFINE e == [at |-> pos, line |-> line(from)]
  <2>5. Known(text, e)
    BY <1>1, <2>4 DEF Known
  <2>6. Known(text, shown')
    <3>1. shown'.at = pos /\ shown'.line = LineOf(text, pos)
      BY <1>4, <2>2, <2>4
    <3> QED BY <1>1, <3>1 DEF Known
  <2> HIDE DEF e
  <2>7. IsRing(Add(ring, e)) /\ AllKnown(text, Add(ring, e))
    <3>1. PICK n \in Nat : DOMAIN ring = 1 .. n /\ Len(ring) = n
      BY DEF LineInv, IsRing
    <3> DEFINE n2 == IF n < RingSize THEN n + 1 ELSE RingSize
    <3>2. n2 \in Nat /\ n2 <= n + 1
      BY LineNumberAssumption
    <3>3. Add(ring, e) = [k \in 1 .. n2 |-> IF k = 1 THEN e ELSE ring[k - 1]]
      BY <3>1 DEF Add
    <3> HIDE DEF n2
    <3>4. DOMAIN Add(ring, e) = 1 .. n2 /\ Len(Add(ring, e)) = n2
      BY <3>2, <3>3
    <3>5. ASSUME NEW k \in 1 .. n2 PROVE Known(text, Add(ring, e)[k])
      <4>1. CASE k = 1
        BY <2>5, <3>3, <4>1
      <4>2. CASE k # 1
        <5>1. k - 1 \in DOMAIN ring /\ Add(ring, e)[k] = ring[k - 1]
          BY <3>1, <3>2, <3>3, <4>2
        <5> QED BY <5>1 DEF LineInv, AllKnown
      <4> QED BY <4>1, <4>2
    <3> QED BY <3>2, <3>4, <3>5 DEF IsRing, AllKnown
  <2>8. IsRing(ring') /\ AllKnown(text, ring')
    <3>1. ring' = Add(ring, e) \/ ring' = ring
      BY <2>2 DEF e
    <3> QED BY <2>7, <3>1 DEF LineInv
  <2>9. FromTheTop'
    BY <1>5, <2>1 DEF LineInv, FromTheTop, Z
  <2> QED BY <1>5, <2>6, <2>8, <2>9 DEF LineInv
<1> QED BY <1>6, <1>7

(* Every step keeps the invariant.                                         *)
LEMMA LineStep ==
  ASSUME FirstLineOnly, LineInv, [Next]_vars
  PROVE  LineInv'
<1>0. /\ text \in Seq(Chars) /\ Len(text) \in Nat /\ Z = Len(text) + 1
      /\ begv = 1 /\ begvLine \in {NoCache, 0} /\ zv \in 1 .. Z
      /\ Narrowed(begvLine, 1) \in {NoCache, 0}
  BY DEF LineInv, FromTheTop, Narrowed, Z
<1>1. ASSUME NEW p \in 1 .. Z, NEW s \in Strings, NEW before \in BOOLEAN, Insert(p, s, before)
      PROVE  LineInv'
  BY <1>1, LineInsert
<1>2. ASSUME NEW p \in 1 .. Z, NEW q \in 1 .. Z, Delete(p, q)
      PROVE  LineInv'
  BY <1>2, LineDelete
<1>3. ASSUME NEW p \in 1 .. Len(text), NEW c \in Chars, ReplaceChar(p, c)
      PROVE  LineInv'
  BY <1>3, LineReplace
<1>4. ASSUME NEW b \in Starts, NEW e \in 1 .. Z, Narrow(b, e)
      PROVE  LineInv'
  <2>1. b = 1
    BY DEF FirstLineOnly
  <2>2. Z' = Z /\ FromTheTop'
    BY <1>0, <1>4, <2>1 DEF Narrow, FromTheTop, Z
  <2> QED BY <1>4, <2>2, LineRestrict DEF Narrow
<1>5. ASSUME Widen PROVE LineInv'
  <2>1. Z' = Z /\ FromTheTop'
    BY <1>0, <1>5 DEF Widen, FromTheTop, Z
  <2> QED BY <1>5, <2>1, LineRestrict DEF Widen
<1>6. ASSUME NEW b \in Starts, NEW tail \in 0 .. MaxLen, RestoreRestriction(b - 1, tail)
      PROVE  LineInv'
  <2>1. b - 1 = 0 /\ tail \in Nat
    BY LineNumberAssumption DEF FirstLineOnly
  <2>2. /\ Z' = Z /\ begv' = 1 /\ begvLine' = begvLine
        /\ zv' = IF tail <= Len(text) THEN Z - tail ELSE Z
    BY <1>0, <1>6, <2>1 DEF RestoreRestriction, Z
  <2>3. FromTheTop'
    BY <1>0, <2>1, <2>2 DEF FromTheTop
  <2> QED BY <1>6, <2>3, LineRestrict DEF RestoreRestriction
<1>7. ASSUME NEW pos \in 1 .. Z, LineNumber(pos)
      PROVE  LineInv'
  BY <1>7, LineAnswer
<1>8. CASE UNCHANGED vars
  BY <1>8 DEF vars, LineInv, FromTheTop, Z
<1> QED BY <1>1, <1>2, <1>3, <1>4, <1>5, <1>6, <1>7, <1>8 DEF Next

(* The invariant implies both properties.                                  *)
LEMMA LineInvImplies == LineInv => RingCorrect /\ LineNumberCorrect
<1> SUFFICES ASSUME LineInv PROVE RingCorrect /\ LineNumberCorrect
  OBVIOUS
<1>1. RingCorrect
  BY DEF LineInv, AllKnown, Known, RingCorrect, LineOf, Z
<1>2. ASSUME shown # NoLine
      PROVE  shown.line = Newlines(text, 1, shown.at) - Newlines(text, 1, begv)
  <2>1. begv = 1 /\ Len(text) \in Nat /\ shown.at \in 1 .. Len(text) + 1
        /\ shown.line = LineOf(text, shown.at)
    BY <1>2 DEF LineInv, FromTheTop, Known
  <2>2. LineOf(text, shown.at) \in Nat /\ LineOf(text, 1) = 0
    BY <2>1, NewlinesFinite, FirstLine DEF LineOf
  <2> QED BY <2>1, <2>2 DEF LineOf
<1> QED BY <1>1, <1>2 DEF LineNumberCorrect

-----------------------------------------------------------------------------
(* The theorems.                                                           *)

(* The markers of the ring keep the right line numbers through every       *)
(* sequence of insertions (insert-before-markers too), deletions,          *)
(* replacements, narrowings and questions.                                 *)
THEOREM RingAlwaysCorrect == ASSUME FirstLineOnly PROVE Spec => []RingCorrect
<1>1. Init => LineInv
  BY LineInit
<1>2. LineInv /\ [Next]_vars => LineInv'
  BY LineStep
<1>3. LineInv => RingCorrect
  BY LineInvImplies
<1> QED BY <1>1, <1>2, <1>3, PTL DEF Spec

(* Every answer of buffer_line_number is the number of newlines between    *)
(* the beginning of the accessible part and the position, whichever ring   *)
(* entry it was counted from.                                              *)
THEOREM LineNumberAlwaysCorrect == ASSUME FirstLineOnly PROVE Spec => []LineNumberCorrect
<1>1. Init => LineInv
  BY LineInit
<1>2. LineInv /\ [Next]_vars => LineInv'
  BY LineStep
<1>3. LineInv => LineNumberCorrect
  BY LineInvImplies
<1> QED BY <1>1, <1>2, <1>3, PTL DEF Spec

-----------------------------------------------------------------------------
(* Type correctness, wherever the accessible part begins and whatever is   *)
(* replaced by what.                                                       *)

\* The markers of the ring are within the text.
RingWithin == \A i \in DOMAIN ring : ring[i].at <= Z

TypeInv == TypeOK /\ RingWithin

(* The parts of it.                                                        *)
LEMMA TypeParts ==
  ASSUME TypeInv
  PROVE  /\ text \in Seq(Chars) /\ Len(text) \in Nat /\ Len(text) <= MaxLen /\ Z = Len(text) + 1
         /\ begv \in Nat /\ zv \in Nat /\ 1 <= begv /\ begv <= zv /\ zv <= Z
         /\ Len(ring) \in Nat /\ Len(ring) <= RingSize /\ DOMAIN ring = 1 .. Len(ring)
         /\ ring \in Seq(Entries)
         /\ \A i \in DOMAIN ring : /\ ring[i] \in Entries /\ ring[i].at \in 1 .. Z
                                   /\ ring[i].line \in Int
         /\ begvLine \in {NoCache, -1, 0}
         /\ MaxLen \in Nat /\ RingSize \in Nat /\ RingSize > 0
<1>1. text \in Seq(Chars) /\ Len(text) \in Nat /\ Len(text) <= MaxLen /\ Z = Len(text) + 1
  BY DEF TypeInv, TypeOK, Z
<1>2. begv \in Nat /\ zv \in Nat /\ 1 <= begv /\ begv <= zv /\ zv <= Z
  BY <1>1 DEF TypeInv, TypeOK
<1>3. ring \in Seq(Entries) /\ Len(ring) <= RingSize /\ begvLine \in {NoCache, -1, 0}
  BY DEF TypeInv, TypeOK
<1>4. Len(ring) \in Nat /\ DOMAIN ring = 1 .. Len(ring) /\ \A i \in DOMAIN ring : ring[i] \in Entries
  BY <1>3
<1>5. \A i \in DOMAIN ring : ring[i].at \in 1 .. Z /\ ring[i].line \in Int
  BY <1>1, <1>4 DEF TypeInv, RingWithin, Entries
<1>6. MaxLen \in Nat /\ RingSize \in Nat /\ RingSize > 0
  BY LineNumberAssumption DEF LineNumberAssumption
<1> QED BY <1>1, <1>2, <1>3, <1>4, <1>5, <1>6

(* What invalidation keeps of the ring is no longer than it.               *)
LEMMA CarryTyped ==
  ASSUME TypeInv, NEW kept \in SUBSET DOMAIN ring, NEW to, NEW n \in Nat, n <= MaxLen,
         \A i \in kept : to[ring[i].at] \in 1 .. n + 1,
         Carry(kept, to)
  PROVE  /\ ring' \in Seq(Entries) /\ Len(ring') <= RingSize
         /\ \A i \in DOMAIN ring' : ring'[i].at <= n + 1
<1> DEFINE c == Cardinality(kept)
<1>1. c \in Nat /\ c <= RingSize
  <2>1. IsFiniteSet(1 .. Len(ring)) /\ Cardinality(1 .. Len(ring)) = Len(ring)
    <3>1. Len(ring) \in Nat
      BY TypeParts
    <3>2. \A k \in Nat : /\ IsFiniteSet(1 .. k)
                        /\ Cardinality(1 .. k) = IF 1 > k THEN 0 ELSE k - 1 + 1
      BY FS_Interval
    <3>3. \A k \in Nat : (IF 1 > k THEN 0 ELSE k - 1 + 1) = k
      OBVIOUS
    <3> QED BY <3>1, <3>2, <3>3
  <2>2. kept \subseteq 1 .. Len(ring)
    BY TypeParts
  <2>3. IsFiniteSet(kept) /\ c <= Len(ring)
    BY <2>1, <2>2, FS_Subset
  <2>4. c \in Nat
    BY <2>3, FS_CardinalityType
  <2> QED BY <2>3, <2>4, TypeParts
<1>2. PICK f \in [1 .. c -> kept] :
        ring' = [k \in DOMAIN f |-> [at |-> to[ring[f[k]].at], line |-> ring[f[k]].line]]
  BY DEF Carry
<1> HIDE DEF c
<1>3. ASSUME NEW k \in 1 .. c
      PROVE  ring'[k] \in Entries /\ ring'[k].at <= n + 1
  <2>1. f[k] \in kept /\ f[k] \in DOMAIN ring
    BY <1>2, <1>3
  <2>2. ring'[k] = [at |-> to[ring[f[k]].at], line |-> ring[f[k]].line]
    BY <1>2, <1>3
  <2>3. to[ring[f[k]].at] \in 1 .. n + 1
    BY <2>1
  <2>4. to[ring[f[k]].at] \in 1 .. MaxLen + 1 /\ to[ring[f[k]].at] <= n + 1
    BY <2>3, TypeParts
  <2>5. ring[f[k]].line \in Int
    BY <2>1, TypeParts
  <2> QED BY <2>2, <2>4, <2>5 DEF Entries
<1>4. ring' = [k \in 1 .. c |-> ring'[k]] /\ DOMAIN ring' = 1 .. c
  BY <1>2
<1>5. ring' \in Seq(Entries) /\ Len(ring') = c
  BY <1>1, <1>3, <1>4
<1> QED BY <1>1, <1>3, <1>4, <1>5

(* An insertion.                                                           *)
LEMMA TypeInsert ==
  ASSUME TypeInv, NEW p, NEW s \in Strings, NEW before \in BOOLEAN, Insert(p, s, before)
  PROVE  TypeInv'
<1> DEFINE m == Len(text)
           k == Len(s)
           to == [x \in 1 .. Z |-> AfterInsert(x, p, k, before)]
<1>1. /\ text \in Seq(Chars) /\ m \in Nat /\ Z = m + 1 /\ begv \in Nat /\ zv \in Nat
      /\ 1 <= begv /\ begv <= zv /\ zv <= Z /\ MaxLen \in Nat
      /\ s \in Seq(Chars) /\ k \in Nat
  BY TypeParts, LineNumberAssumption DEF LineNumberAssumption
<1>2. /\ p \in begv .. zv /\ m + k <= MaxLen /\ text' = Inserted(text, p, s) /\ zv' = zv + k
      /\ Carry(Kept(p, s), to) /\ shown' = NoLine /\ begv' = begv /\ begvLine' = begvLine
  BY DEF Insert
<1>3. text' \in Seq(Chars) /\ Len(text') = m + k
  <2>1. p \in 1 .. m + 1
    BY <1>1, <1>2
  <2> QED BY <1>1, <1>2, <2>1, SMTT(30) DEF Inserted
<1>4. Kept(p, s) \in SUBSET DOMAIN ring
  BY DEF Kept, Invalidate
<1>5. \A i \in DOMAIN ring : to[ring[i].at] \in 1 .. (m + k) + 1
  <2> TAKE i \in DOMAIN ring
  <2>1. ring[i].at \in 1 .. Z
    BY TypeParts
  <2>2. to[ring[i].at] = AfterInsert(ring[i].at, p, k, before)
    BY <2>1
  <2> QED BY <1>1, <2>1, <2>2 DEF AfterInsert
<1>6. /\ ring' \in Seq(Entries) /\ Len(ring') <= RingSize
      /\ \A i \in DOMAIN ring' : ring'[i].at <= (m + k) + 1
  <2>1. m + k \in Nat
    BY <1>1
  <2> HIDE DEF to, m, k
  <2> QED BY <1>2, <1>4, <1>5, <2>1, CarryTyped
<1>7. Z' = (m + k) + 1
  BY <1>3 DEF Z
<1>8. begv' \in 1 .. Z' /\ zv' \in begv' .. Z'
  BY <1>1, <1>2, <1>7
<1>9. begvLine' \in {NoCache, -1, 0}
  BY <1>2, TypeParts
<1> QED BY <1>2, <1>3, <1>6, <1>7, <1>8, <1>9 DEF TypeInv, TypeOK, RingWithin

(* A deletion.                                                             *)
LEMMA TypeDelete ==
  ASSUME TypeInv, NEW p \in 1 .. Z, NEW q \in 1 .. Z, Delete(p, q)
  PROVE  TypeInv'
<1> DEFINE m == Len(text)
           k == q - p
           to == [x \in 1 .. Z |-> AfterDelete(x, p, q)]
           kept == Kept(p, SubSeq(text, p, q - 1))
<1>1. /\ text \in Seq(Chars) /\ m \in Nat /\ Z = m + 1 /\ begv \in Nat /\ zv \in Nat
      /\ 1 <= begv /\ begv <= zv /\ zv <= Z /\ MaxLen \in Nat /\ m <= MaxLen
  BY TypeParts
<1>2. /\ begv <= p /\ p < q /\ q <= zv /\ text' = Deleted(text, p, q) /\ zv' = zv - k
      /\ Carry(kept, to) /\ shown' = NoLine /\ begv' = begv /\ begvLine' = begvLine
  BY DEF Delete
<1>3. p \in Nat /\ q \in Nat /\ 1 <= p /\ q <= m + 1 /\ k \in Nat /\ m - k \in Nat /\ m - k <= MaxLen
  BY <1>1, <1>2
<1>4. text' \in Seq(Chars) /\ Len(text') = m - k
  BY <1>1, <1>2, <1>3 DEF Deleted
<1>5. kept \in SUBSET DOMAIN ring
  BY DEF Kept, Invalidate
<1>6. \A i \in DOMAIN ring : to[ring[i].at] \in 1 .. (m - k) + 1
  <2> TAKE i \in DOMAIN ring
  <2>1. ring[i].at \in 1 .. Z
    BY TypeParts
  <2>2. to[ring[i].at] = AfterDelete(ring[i].at, p, q)
    BY <2>1
  <2> QED BY <1>1, <1>2, <1>3, <2>1, <2>2, SMTT(30) DEF AfterDelete
<1>7. /\ ring' \in Seq(Entries) /\ Len(ring') <= RingSize
      /\ \A i \in DOMAIN ring' : ring'[i].at <= (m - k) + 1
  <2> HIDE DEF to, m, k, kept
  <2> QED BY <1>2, <1>3, <1>5, <1>6, CarryTyped
<1>8. Z' = (m - k) + 1
  BY <1>4 DEF Z
<1>9. begv' \in 1 .. Z' /\ zv' \in begv' .. Z'
  BY <1>1, <1>2, <1>3, <1>8
<1>10. begvLine' \in {NoCache, -1, 0} /\ Len(text') <= MaxLen
  BY <1>2, <1>3, <1>4, TypeParts
<1> QED BY <1>2, <1>4, <1>7, <1>8, <1>9, <1>10 DEF TypeInv, TypeOK, RingWithin

(* Narrowing, widening and the end of save-restriction.                    *)
LEMMA TypeRestrict ==
  ASSUME TypeInv, UNCHANGED <<text, ring>>, shown' = NoLine,
         begv' \in 1 .. Z, zv' \in begv' .. Z, begvLine' \in {NoCache, -1, 0}
  PROVE  TypeInv'
<1>1. Z' = Z
  BY DEF Z
<1> QED BY <1>1 DEF TypeInv, TypeOK, RingWithin

(* A question.                                                             *)
LEMMA TypeAnswer ==
  ASSUME TypeInv, NEW pos \in 1 .. Z, LineNumber(pos)
  PROVE  TypeInv'
<1> DEFINE allocated == IF begvLine = NoCache THEN Narrowed(0, begv) ELSE begvLine
           known == IF allocated = -1 THEN CountFromBegv(begv) ELSE allocated
           cachep == Abs(pos - begv) > Far
<1>1. /\ Z = Len(text) + 1 /\ Len(text) \in Nat /\ Len(text) <= MaxLen /\ MaxLen \in Nat
      /\ begv \in Nat /\ 1 <= begv /\ begv <= Z /\ pos \in Nat /\ 1 <= pos /\ pos <= Z
      /\ pos \in 1 .. MaxLen + 1 /\ begvLine \in {NoCache, -1, 0}
  BY TypeParts
<1>2. \A x \in 1 .. Z : Count(text, x, pos) \in Int
  <2> TAKE x \in 1 .. Z
  <2>1. x \in Int /\ pos \in Int
    BY <1>1
  <2>2. Newlines(text, x, pos) \in Nat /\ Newlines(text, pos, x) \in Nat
    BY <2>1, NewlinesFinite
  <2> QED BY <2>2 DEF Count
<1>3. known = 0
  <2>1. 0 # NoCache
    BY LineNumberAssumption DEF LineNumberAssumption
  <2>2. allocated \in {-1, 0}
    BY <1>1, <2>1 DEF Narrowed
  <2>3. CountFromBegv(begv) = 0
    <3>1. Count(text, begv, begv) = LineOf(text, begv) - LineOf(text, begv) /\ LineOf(text, begv) \in Nat
      BY <1>1, CountIsDifference
    <3> QED BY <3>1 DEF CountFromBegv
  <2> HIDE DEF allocated
  <2> QED BY <2>2, <2>3
<1>4. UNCHANGED <<text, begv, zv>> /\ Z' = Z
  BY DEF LineNumber, Z
<1> HIDE DEF allocated
<1>5. CASE ~cachep
  <2>1. shown' = [at |-> pos, line |-> Count(text, begv, pos)] /\ UNCHANGED <<ring, begvLine>>
    BY <1>5 DEF LineNumber, CountFromBegv
  <2>2. shown' \in Entries
    BY <1>1, <1>2, <2>1 DEF Entries
  <2> QED BY <1>4, <2>1, <2>2 DEF TypeInv, TypeOK, RingWithin
<1>6. CASE cachep
  <2> DEFINE line(from) == Count(text, from.at, pos) + from.line
  <2>1. begvLine' = 0
    BY <1>3, <1>6 DEF LineNumber, allocated
  <2>2. PICK from \in Nearest(pos, 0) :
          /\ ring' = IF Abs(pos - from.at) > Far
                     THEN Add(ring, [at |-> pos, line |-> line(from)]) ELSE ring
          /\ shown' = [at |-> pos, line |-> line(from) - 0]
    BY <1>3, <1>6 DEF LineNumber, allocated
  <2>3. from.at \in 1 .. Z /\ from.line \in Int
    <3>1. from = [at |-> begv, line |-> 0] \/ \E i \in DOMAIN ring : from = ring[i]
      BY <2>2 DEF Nearest
    <3>2. CASE from = [at |-> begv, line |-> 0]
      BY <1>1, <3>2
    <3> QED BY <3>1, <3>2, TypeParts
  <2>4. line(from) \in Int /\ line(from) - 0 \in Int
    BY <1>2, <2>3
  <2> DEFINE e == [at |-> pos, line |-> line(from)]
  <2>5. e \in Entries /\ shown' \in Entries /\ e.at <= Z
    BY <1>1, <2>2, <2>4 DEF Entries
  <2> HIDE DEF e
  <2>6. /\ Add(ring, e) \in Seq(Entries) /\ Len(Add(ring, e)) <= RingSize
        /\ \A i \in DOMAIN Add(ring, e) : Add(ring, e)[i].at <= Z
    <3> DEFINE r2 == Add(ring, e)
               n2 == IF Len(ring) < RingSize THEN Len(ring) + 1 ELSE RingSize
    <3>1. n2 \in Nat /\ n2 <= RingSize /\ n2 <= Len(ring) + 1 /\ Len(ring) \in Nat
      BY TypeParts
    <3>2. r2 = [k \in 1 .. n2 |-> IF k = 1 THEN e ELSE ring[k - 1]]
      BY DEF Add
    <3> HIDE DEF n2, r2
    <3>3. ASSUME NEW k \in 1 .. n2 PROVE r2[k] \in Entries /\ r2[k].at <= Z
      <4>1. CASE k = 1
        BY <2>5, <3>2, <4>1
      <4>2. CASE k # 1
        <5>1. k - 1 \in 1 .. Len(ring) /\ r2[k] = ring[k - 1]
          BY <3>1, <3>2, <3>3, <4>2
        <5>2. ring[k - 1] \in Entries /\ ring[k - 1].at \in 1 .. Z
          BY <5>1, TypeParts
        <5> QED BY <1>1, <5>1, <5>2
      <4> QED BY <4>1, <4>2
    <3>4. r2 \in [1 .. n2 -> Entries] /\ DOMAIN r2 = 1 .. n2
      BY <3>2, <3>3
    <3>5. r2 \in Seq(Entries) /\ Len(r2) = n2
      BY <3>1, <3>4
    <3> QED BY <3>1, <3>3, <3>4, <3>5 DEF r2
  <2>7. ring' = Add(ring, e) \/ ring' = ring
    BY <2>2 DEF e
  <2> QED BY <1>4, <2>1, <2>5, <2>6, <2>7 DEF TypeInv, TypeOK, RingWithin
<1> QED BY <1>5, <1>6

(* Every step.                                                             *)
LEMMA TypeStep == ASSUME TypeInv, [Next]_vars PROVE TypeInv'
<1>1. /\ text \in Seq(Chars) /\ Len(text) \in Nat /\ Z = Len(text) + 1
      /\ begv \in Nat /\ zv \in Nat /\ 1 <= begv /\ begv <= zv /\ zv <= Z
      /\ begvLine \in {NoCache, -1, 0}
      /\ \A b : Narrowed(begvLine, b) \in {NoCache, -1, 0}
      /\ Starts \subseteq Nat \ {0} /\ MaxLen \in Nat
  BY TypeParts, LineNumberAssumption DEF LineNumberAssumption, Narrowed
<1>2. ASSUME NEW p \in 1 .. Z, NEW s \in Strings, NEW before \in BOOLEAN, Insert(p, s, before)
      PROVE  TypeInv'
  BY <1>2, TypeInsert
<1>3. ASSUME NEW p \in 1 .. Z, NEW q \in 1 .. Z, Delete(p, q)
      PROVE  TypeInv'
  BY <1>3, TypeDelete
<1>4. ASSUME NEW p \in 1 .. Len(text), NEW c \in Chars, ReplaceChar(p, c)
      PROVE  TypeInv'
  <2>1. /\ text' = [text EXCEPT ![p] = c] /\ shown' = NoLine
        /\ UNCHANGED <<begv, zv, ring, begvLine>>
    BY <1>4 DEF ReplaceChar
  <2>2. text' \in Seq(Chars) /\ Len(text') = Len(text)
    BY <1>1, <2>1
  <2>3. Z' = Z
    BY <2>2 DEF Z
  <2> QED BY <2>1, <2>2, <2>3 DEF TypeInv, TypeOK, RingWithin
<1>5. ASSUME NEW b \in Starts, NEW e \in 1 .. Z, Narrow(b, e)
      PROVE  TypeInv'
  <2>1. /\ b <= e /\ e <= Z /\ begv' = b /\ zv' = e /\ begvLine' = Narrowed(begvLine, b)
        /\ shown' = NoLine /\ UNCHANGED <<text, ring>>
    BY <1>5 DEF Narrow
  <2>2. begv' \in 1 .. Z /\ zv' \in begv' .. Z
    BY <1>1, <2>1
  <2> QED BY <1>1, <2>1, <2>2, TypeRestrict
<1>6. ASSUME Widen PROVE TypeInv'
  <2>1. /\ begv' = 1 /\ zv' = Z /\ begvLine' \in {begvLine, Narrowed(begvLine, 1)}
        /\ shown' = NoLine /\ UNCHANGED <<text, ring>>
    BY <1>6 DEF Widen
  <2>2. begv' \in 1 .. Z /\ zv' \in begv' .. Z /\ begvLine' \in {NoCache, -1, 0}
    BY <1>1, <2>1
  <2> QED BY <2>1, <2>2, TypeRestrict
<1>7. ASSUME NEW b \in Starts, NEW tail \in 0 .. MaxLen, RestoreRestriction(b - 1, tail)
      PROVE  TypeInv'
  <2> DEFINE fits == (b - 1) + tail <= Len(text)
             bb == IF fits THEN 1 + (b - 1) ELSE 1
  <2>1. /\ begv' = bb /\ zv' = IF fits THEN Z - tail ELSE Z
        /\ begvLine' \in {begvLine, Narrowed(begvLine, bb)}
        /\ shown' = NoLine /\ UNCHANGED <<text, ring>>
    BY <1>7 DEF RestoreRestriction
  <2>2. begv' \in 1 .. Z /\ zv' \in begv' .. Z
    BY <1>1, <2>1
  <2>3. begvLine' \in {NoCache, -1, 0}
    BY <1>1, <2>1
  <2> QED BY <2>1, <2>2, <2>3, TypeRestrict
<1>8. ASSUME NEW pos \in 1 .. Z, LineNumber(pos)
      PROVE  TypeInv'
  BY <1>8, TypeAnswer
<1>9. CASE UNCHANGED vars
  BY <1>9 DEF vars, TypeInv, TypeOK, RingWithin, Z
<1> QED BY <1>2, <1>3, <1>4, <1>5, <1>6, <1>7, <1>8, <1>9 DEF Next

(* The ring never holds more than LINE_NUMBER_RING_SIZE entries, its       *)
(* markers are positions of the text, and the accessible part is a part    *)
(* of the text, for every ring size, distance and narrowing.               *)
THEOREM TypeCorrect == Spec => []TypeOK
<1>1. ASSUME Init PROVE TypeInv
  <2>1. /\ text = << >> /\ begv = 1 /\ zv = 1 /\ ring = << >> /\ begvLine = NoCache
        /\ shown = NoLine
    BY <1>1 DEF Init
  <2>2. /\ text \in Seq(Chars) /\ Len(text) = 0 /\ ring \in Seq(Entries) /\ Len(ring) = 0
        /\ DOMAIN ring = 1 .. 0 /\ Z = 1
    BY <2>1 DEF Z
  <2>3. MaxLen \in Nat /\ RingSize \in Nat
    BY LineNumberAssumption DEF LineNumberAssumption
  <2>4. \A i \in DOMAIN ring : ring[i].at <= Z
    BY <2>2
  <2> QED BY <2>1, <2>2, <2>3, <2>4 DEF TypeInv, TypeOK, RingWithin
<1>2. TypeInv /\ [Next]_vars => TypeInv'
  BY TypeStep
<1>3. TypeInv => TypeOK
  BY DEF TypeInv
<1> QED BY <1>1, <1>2, <1>3, PTL DEF Spec
=============================================================================
