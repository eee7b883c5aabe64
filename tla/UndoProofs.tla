----------------------------- MODULE UndoProofs -----------------------------
(***************************************************************************)
(* Proofs about the undo list, for any characters and strings, any limits  *)
(* on its size, and with changes refused and intrusions or without.        *)
(***************************************************************************)
EXTENDS Undo, SequenceTheorems, WellFoundedInduction, TLAPS

(* A set of natural numbers that is not empty has a smallest element.      *)
LEMMA NatMin ==
  ASSUME NEW S \in SUBSET Nat, S # {}
  PROVE  \E x \in S : \A y \in S : x <= y
<1> DEFINE R == OpToRel(<, Nat)
<1>1. \E x \in S : \A y \in S : ~ (<<y, x>> \in R)
  BY NatLessThanWellFounded, WFMin
<1>2. \A x, y \in Nat : <<y, x>> \in R <=> y < x
  BY DEF OpToRel
<1> HIDE DEF R
<1>3. PICK x \in S : \A y \in S : ~ (<<y, x>> \in R)
  BY <1>1
<1>4. \A y \in S : ~ (y < x)
  BY <1>2, <1>3
<1> QED BY <1>4

(* So has the Min of the community modules.                                *)
LEMMA MinIs ==
  ASSUME NEW S \in SUBSET Nat, S # {}
  PROVE  Min(S) \in S /\ \A y \in S : Min(S) <= y
BY NatMin DEF Min

(* And a bounded one has a largest.                                        *)
LEMMA MaxIs ==
  ASSUME NEW S \in SUBSET Nat, S # {}, NEW n \in Nat, \A x \in S : x <= n
  PROVE  Max(S) \in S /\ \A y \in S : y <= Max(S)
<1> DEFINE D == {d \in Nat : n - d \in S}
<1>1. D \in SUBSET Nat
  OBVIOUS
<1>2. D # {}
  <2>1. PICK x \in S : TRUE
    OBVIOUS
  <2>2. n - x \in Nat /\ n - (n - x) = x
    BY <2>1
  <2>3. n - x \in D
    BY <2>2
  <2> QED BY <2>3
<1>3. PICK d \in D : \A y \in D : d <= y
  BY <1>1, <1>2, NatMin
<1>4. ASSUME NEW y \in S
      PROVE  n - d >= y
  <2>1. n - y \in Nat /\ n - (n - y) = y
    OBVIOUS
  <2>2. n - y \in D
    BY <2>1
  <2>3. d <= n - y
    BY <1>3, <2>2
  <2> QED BY <2>3, <2>1
<1>5. n - d \in S
  OBVIOUS
<1> HIDE DEF D
<1>6. \E x \in S : \A y \in S : x >= y
  BY <1>4, <1>5
<1> QED BY <1>6 DEF Max

-----------------------------------------------------------------------------
(* Texts.                                                                  *)

(* A function on an initial segment of the naturals is a sequence.         *)
LEMMA SeqIntro ==
  ASSUME NEW S, NEW n \in Nat, NEW f \in [1 .. n -> S]
  PROVE  f \in Seq(S) /\ Len(f) = n
OBVIOUS

(* What an insertion makes of a text.                                      *)
LEMMA InsertedIs ==
  ASSUME NEW t \in Seq(Chars), NEW s \in Seq(Chars), NEW p \in 1 .. Len(t) + 1
  PROVE  /\ Inserted(t, p, s) \in Seq(Chars)
         /\ Len(Inserted(t, p, s)) = Len(t) + Len(s)
         /\ \A i \in 1 .. Len(t) + Len(s) :
              Inserted(t, p, s)[i] = IF i < p THEN t[i]
                                     ELSE IF i < p + Len(s) THEN s[i - p + 1]
                                     ELSE t[i - Len(s)]
<1>1. Len(t) \in Nat /\ Len(s) \in Nat /\ Len(t) + Len(s) \in Nat
  OBVIOUS
<1>2. \A i \in 1 .. Len(t) + Len(s) :
        (IF i < p THEN t[i] ELSE IF i < p + Len(s) THEN s[i - p + 1] ELSE t[i - Len(s)])
          \in Chars
  <2>1. \A i \in 1 .. Len(t) : t[i] \in Chars
    BY ElementOfSeq
  <2>2. \A i \in 1 .. Len(s) : s[i] \in Chars
    BY ElementOfSeq
  <2> QED BY <1>1, <2>1, <2>2
<1>3. Inserted(t, p, s) \in [1 .. Len(t) + Len(s) -> Chars]
  BY <1>2 DEF Inserted
<1>4. Inserted(t, p, s) \in Seq(Chars) /\ Len(Inserted(t, p, s)) = Len(t) + Len(s)
  BY <1>1, <1>3, SeqIntro
<1> QED BY <1>4 DEF Inserted

(* What a deletion makes of it.                                            *)
LEMMA DeletedIs ==
  ASSUME NEW t \in Seq(Chars), NEW p \in 1 .. Len(t) + 1, NEW q \in p .. Len(t) + 1
  PROVE  /\ Deleted(t, p, q) \in Seq(Chars)
         /\ Len(Deleted(t, p, q)) = Len(t) - (q - p)
         /\ \A i \in 1 .. Len(t) - (q - p) :
              Deleted(t, p, q)[i] = IF i < p THEN t[i] ELSE t[i + (q - p)]
<1>1. Len(t) \in Nat /\ Len(t) - (q - p) \in Nat
  OBVIOUS
<1>2. \A i \in 1 .. Len(t) - (q - p) : (IF i < p THEN t[i] ELSE t[i + (q - p)]) \in Chars
  <2>1. \A i \in 1 .. Len(t) : t[i] \in Chars
    BY ElementOfSeq
  <2> QED BY <1>1, <2>1
<1>3. Deleted(t, p, q) \in [1 .. Len(t) - (q - p) -> Chars]
  BY <1>2 DEF Deleted
<1>4. Deleted(t, p, q) \in Seq(Chars) /\ Len(Deleted(t, p, q)) = Len(t) - (q - p)
  BY <1>1, <1>3, SeqIntro
<1> QED BY <1>4 DEF Deleted

(* Deleting an insertion, with what comes right before it, deletes that.   *)
LEMMA DeleteInserted ==
  ASSUME NEW t \in Seq(Chars), NEW s \in Seq(Chars), NEW p \in 1 .. Len(t) + 1,
         NEW b \in 1 .. p
  PROVE  Deleted(Inserted(t, p, s), b, p + Len(s)) = Deleted(t, b, p)
<1> DEFINE u == Inserted(t, p, s)
<1>1. Len(t) \in Nat /\ Len(s) \in Nat
  OBVIOUS
<1>2. /\ u \in Seq(Chars) /\ Len(u) = Len(t) + Len(s)
      /\ \A i \in 1 .. Len(t) + Len(s) :
           u[i] = IF i < p THEN t[i] ELSE IF i < p + Len(s) THEN s[i - p + 1] ELSE t[i - Len(s)]
  BY InsertedIs
<1> HIDE DEF u
<1> DEFINE q == p + Len(s)
<1>q. q \in Nat /\ q = p + Len(s)
  BY <1>1
<1> HIDE DEF q
<1>3. b \in 1 .. Len(u) + 1 /\ q \in b .. Len(u) + 1
  BY <1>1, <1>2, <1>q
<1>4. b \in 1 .. Len(t) + 1 /\ p \in b .. Len(t) + 1
  BY <1>1
<1>5. /\ Deleted(u, b, q) \in Seq(Chars)
      /\ Len(Deleted(u, b, q)) = Len(u) - (q - b)
      /\ \A i \in 1 .. Len(u) - (q - b) :
           Deleted(u, b, q)[i] = IF i < b THEN u[i] ELSE u[i + (q - b)]
  BY <1>2, <1>3, DeletedIs
<1>6. /\ Deleted(t, b, p) \in Seq(Chars)
      /\ Len(Deleted(t, b, p)) = Len(t) - (p - b)
      /\ \A i \in 1 .. Len(t) - (p - b) :
           Deleted(t, b, p)[i] = IF i < b THEN t[i] ELSE t[i + (p - b)]
  BY <1>4, DeletedIs
<1>a. Len(u) - (q - b) = Len(t) - (p - b) /\ b \in Int
  <2>1. Len(u) = Len(t) + Len(s)
    BY <1>2
  <2> QED BY <1>1, <2>1, <1>q
<1>7. ASSUME NEW i \in 1 .. Len(t) - (p - b)
      PROVE  Deleted(u, b, q)[i] = Deleted(t, b, p)[i]
  <2>1. CASE i < b
    <3>1. u[i] = t[i]
      BY <1>1, <1>2, <2>1
    <3> QED BY <1>5, <1>6, <1>a, <2>1, <3>1
  <2>2. CASE ~ (i < b)
    <3>1. u[i + (q - b)] = t[i + (p - b)]
      <4>1. /\ i + (q - b) \in 1 .. Len(t) + Len(s)
            /\ ~ (i + (q - b) < q)
            /\ ~ (i + (q - b) < p)
            /\ i + (q - b) - Len(s) = i + (p - b)
        BY <1>1, <2>2, <1>q
      <4> QED BY <1>2, <4>1, <1>q, SMTT(30)
    <3>2. Deleted(u, b, q)[i] = u[i + (q - b)]
      BY <1>5, <1>a, <2>2
    <3>3. Deleted(t, b, p)[i] = t[i + (p - b)]
      BY <1>6, <2>2
    <3> QED BY <3>1, <3>2, <3>3
  <2> QED BY <2>1, <2>2
<1>8. Len(Deleted(u, b, q)) = Len(Deleted(t, b, p))
  BY <1>5, <1>6, <1>a
<1>9. Deleted(u, b, q) = Deleted(t, b, p)
  BY <1>5, <1>6, <1>7, <1>8, SeqEqual
<1> QED BY <1>9 DEF u, q

(* Deleting nothing changes nothing.                                       *)
LEMMA DeleteNothing ==
  ASSUME NEW t \in Seq(Chars), NEW p \in 1 .. Len(t) + 1
  PROVE  Deleted(t, p, p) = t
<1>1. /\ Deleted(t, p, p) \in Seq(Chars) /\ Len(Deleted(t, p, p)) = Len(t) - (p - p)
      /\ \A i \in 1 .. Len(t) - (p - p) :
           Deleted(t, p, p)[i] = IF i < p THEN t[i] ELSE t[i + (p - p)]
  <2>1. p \in p .. Len(t) + 1
    OBVIOUS
  <2> QED BY <2>1, DeletedIs
<1>2. Len(t) \in Nat /\ p \in Int
  OBVIOUS
<1>3. Len(Deleted(t, p, p)) = Len(t) /\ \A i \in 1 .. Len(t) : Deleted(t, p, p)[i] = t[i]
  BY <1>1, <1>2
<1> QED BY <1>1, <1>3, SeqEqual

(* Inserting what was deleted, where it was, brings the text back.         *)
LEMMA InsertDeleted ==
  ASSUME NEW t \in Seq(Chars), NEW p \in 1 .. Len(t) + 1, NEW q \in p .. Len(t) + 1
  PROVE  /\ SubSeq(t, p, q - 1) \in Seq(Chars) /\ Len(SubSeq(t, p, q - 1)) = q - p
         /\ Inserted(Deleted(t, p, q), p, SubSeq(t, p, q - 1)) = t
<1> DEFINE u == Deleted(t, p, q)
           s == SubSeq(t, p, q - 1)
<1>1. Len(t) \in Nat /\ p \in Nat /\ q \in Nat /\ 1 <= p /\ p <= q /\ q <= Len(t) + 1
  OBVIOUS
<1>2. /\ u \in Seq(Chars) /\ Len(u) = Len(t) - (q - p)
      /\ \A i \in 1 .. Len(t) - (q - p) : u[i] = IF i < p THEN t[i] ELSE t[i + (q - p)]
  BY DeletedIs
<1>3. /\ s \in Seq(Chars) /\ Len(s) = q - p
      /\ \A i \in 1 .. q - p : s[i] = t[p + i - 1]
  <2>1. \A i \in p .. q - 1 : t[i] \in Chars
    BY <1>1, ElementOfSeq
  <2>2. q - 1 \in Int /\ p \in Int
    BY <1>1
  <2>3. /\ s \in Seq(Chars)
        /\ Len(s) = IF p <= q - 1 THEN q - 1 - p + 1 ELSE 0
        /\ \A i \in 1 .. q - 1 - p + 1 : s[i] = t[p + i - 1]
    BY <2>1, <2>2, SubSeqProperties, SMTT(30)
  <2> QED BY <1>1, <2>3
<1> HIDE DEF u, s
<1>4. p \in 1 .. Len(u) + 1
  BY <1>1, <1>2
<1>5. /\ Inserted(u, p, s) \in Seq(Chars) /\ Len(Inserted(u, p, s)) = Len(u) + Len(s)
      /\ \A i \in 1 .. Len(u) + Len(s) :
           Inserted(u, p, s)[i] = IF i < p THEN u[i]
                                  ELSE IF i < p + Len(s) THEN s[i - p + 1] ELSE u[i - Len(s)]
  BY <1>2, <1>3, <1>4, InsertedIs
<1>6. Len(Inserted(u, p, s)) = Len(t)
  BY <1>1, <1>2, <1>3, <1>5
<1>7. ASSUME NEW i \in 1 .. Len(t)
      PROVE  Inserted(u, p, s)[i] = t[i]
  <2>1. CASE i < p
    <3>1. u[i] = t[i]
      BY <1>1, <1>2, <2>1
    <3> QED BY <1>1, <1>2, <1>3, <1>5, <2>1, <3>1
  <2>2. CASE p <= i /\ i < q
    <3>1. s[i - p + 1] = t[i]
      BY <1>1, <1>3, <2>2
    <3> QED BY <1>1, <1>2, <1>3, <1>5, <2>2, <3>1
  <2>3. CASE q <= i
    <3>1. u[i - (q - p)] = t[i]
      BY <1>1, <1>2, <2>3
    <3> QED BY <1>1, <1>2, <1>3, <1>5, <2>3, <3>1
  <2> QED BY <1>1, <2>1, <2>2, <2>3
<1>8. Inserted(u, p, s) = t
  BY <1>5, <1>6, <1>7, SeqEqual
<1> QED BY <1>3, <1>8 DEF u, s

(* Replacing a character deletes it and inserts the other one.             *)
LEMMA ReplaceIs ==
  ASSUME NEW t \in Seq(Chars), NEW p \in 1 .. Len(t), NEW c \in Chars
  PROVE  [t EXCEPT ![p] = c] = Inserted(Deleted(t, p, p + 1), p, <<c>>)
<1> DEFINE u == Deleted(t, p, p + 1)
           v == [t EXCEPT ![p] = c]
<1>1. Len(t) \in Nat /\ p \in Nat /\ 1 <= p /\ p <= Len(t)
  OBVIOUS
<1>2. /\ u \in Seq(Chars) /\ Len(u) = Len(t) - 1
      /\ \A i \in 1 .. Len(t) - 1 : u[i] = IF i < p THEN t[i] ELSE t[i + 1]
  <2>1. p \in 1 .. Len(t) + 1 /\ p + 1 \in p .. Len(t) + 1 /\ p + 1 - p = 1
    BY <1>1
  <2> QED BY <2>1, DeletedIs
<1>3. <<c>> \in Seq(Chars) /\ Len(<<c>>) = 1 /\ <<c>>[1] = c
  OBVIOUS
<1>4. /\ v \in Seq(Chars) /\ Len(v) = Len(t)
      /\ \A i \in 1 .. Len(t) : v[i] = IF i = p THEN c ELSE t[i]
  BY ExceptSeq
<1> DEFINE s == <<c>>
<1> HIDE DEF u, v, s
<1>5. p \in 1 .. Len(u) + 1 /\ s \in Seq(Chars) /\ Len(s) = 1 /\ s[1] = c
  BY <1>1, <1>2, <1>3 DEF s
<1>6. /\ Inserted(u, p, s) \in Seq(Chars) /\ Len(Inserted(u, p, s)) = Len(u) + Len(s)
      /\ \A i \in 1 .. Len(u) + Len(s) :
           Inserted(u, p, s)[i] = IF i < p THEN u[i]
                                  ELSE IF i < p + Len(s) THEN s[i - p + 1] ELSE u[i - Len(s)]
  BY <1>2, <1>5, InsertedIs
<1>7. ASSUME NEW i \in 1 .. Len(t)
      PROVE  Inserted(u, p, s)[i] = v[i]
  <2>1. CASE i < p
    <3>1. u[i] = t[i]
      BY <1>1, <1>2, <2>1
    <3> QED BY <1>1, <1>2, <1>4, <1>5, <1>6, <2>1, <3>1
  <2>2. CASE i = p
    BY <1>1, <1>2, <1>4, <1>5, <1>6, <2>2
  <2>3. CASE p < i
    BY <1>1, <1>2, <1>4, <1>5, <1>6, <2>3
  <2> QED BY <1>1, <2>1, <2>2, <2>3
<1>8. Len(Inserted(u, p, s)) = Len(v)
  BY <1>1, <1>2, <1>4, <1>5, <1>6
<1>9. Inserted(u, p, s) = v
  BY <1>4, <1>6, <1>7, <1>8, SeqEqual
<1> QED BY <1>9 DEF u, v, s

-----------------------------------------------------------------------------
(* Lists.                                                                  *)

(* An element in front of a list.                                          *)
LEMMA ConsIs ==
  ASSUME NEW e \in Entries, NEW l \in Seq(Entries)
  PROVE  /\ Cons(e, l) \in Seq(Entries) /\ Len(Cons(e, l)) = Len(l) + 1
         /\ Cons(e, l)[1] = e
         /\ \A i \in 2 .. Len(l) + 1 : Cons(e, l)[i] = l[i - 1]
<1>1. <<e>> \in Seq(Entries) /\ Len(<<e>>) = 1 /\ <<e>>[1] = e
  OBVIOUS
<1>2. /\ <<e>> \o l \in Seq(Entries) /\ Len(<<e>> \o l) = 1 + Len(l)
      /\ \A i \in 1 .. 1 + Len(l) :
           (<<e>> \o l)[i] = IF i <= 1 THEN <<e>>[i] ELSE l[i - 1]
  BY <1>1, ConcatProperties
<1>3. Len(l) \in Nat
  OBVIOUS
<1> QED BY <1>1, <1>2, <1>3 DEF Cons

(* LeadsBack, at one index of a list.                                      *)
LeadsAt(l, t, i, o) ==
  /\ Applies(l[i], Before(l, t, i))
  /\ Alike(l[i].was, Undone(Before(l, t, i), l[i]), o)

(* LeadsBack in these terms.                                               *)
LEMMA LeadsBackIs ==
  ASSUME NEW l \in Seq(Entries), NEW t, NEW o
  PROVE  LeadsBack(l, t, o) <=> \A i \in 1 .. Len(l) : LeadsAt(l, t, i, o)
<1>1. DOMAIN l = 1 .. Len(l)
  OBVIOUS
<1> QED BY <1>1 DEF LeadsBack, LeadsAt

(* It depends on an element and on the text after the change it stands     *)
(* for.                                                                    *)
LEMMA LeadsAtSame ==
  ASSUME NEW l, NEW t, NEW i, NEW m, NEW u, NEW k, NEW o,
         l[i] = m[k], Before(l, t, i) = Before(m, u, k), LeadsAt(m, u, k, o)
  PROVE  LeadsAt(l, t, i, o)
BY DEF LeadsAt

(* A change in front of a list that leads back from the text before it.    *)
LEMMA ConsLeads ==
  ASSUME NEW e \in Entries, NEW l \in Seq(Entries), NEW t, NEW o,
         LeadsBack(l, e.was, o), Applies(e, t), e.was = Undone(t, e)
  PROVE  LeadsBack(Cons(e, l), t, o)
<1> DEFINE m == Cons(e, l)
<1>1. /\ m \in Seq(Entries) /\ Len(m) = Len(l) + 1 /\ m[1] = e
      /\ \A i \in 2 .. Len(l) + 1 : m[i] = l[i - 1]
  BY ConsIs
<1>2. Len(l) \in Nat
  OBVIOUS
<1>3. \A i \in 1 .. Len(l) : LeadsAt(l, e.was, i, o)
  BY LeadsBackIs
<1> HIDE DEF m
<1>4. LeadsAt(m, t, 1, o)
  BY <1>1 DEF LeadsAt, Before, Alike
<1>5. ASSUME NEW i \in 2 .. Len(l) + 1
      PROVE  LeadsAt(m, t, i, o)
  <2>1. i - 1 \in 1 .. Len(l) /\ i # 1
    BY <1>2
  <2>2. m[i] = l[i - 1]
    BY <1>1
  <2>3. Before(m, t, i) = Before(l, e.was, i - 1)
    <3>1. CASE i = 2
      BY <1>1, <3>1 DEF Before
    <3>2. CASE i # 2
      <4>1. i - 1 \in 2 .. Len(l) + 1 /\ i - 1 # 1
        BY <1>2, <3>2
      <4>2. m[i - 1] = l[i - 1 - 1]
        BY <1>1, <4>1
      <4> QED BY <2>1, <4>1, <4>2 DEF Before
    <3> QED BY <3>1, <3>2
  <2>4. LeadsAt(l, e.was, i - 1, o)
    BY <1>3, <2>1
  <2> QED BY <2>2, <2>3, <2>4, LeadsAtSame
<1>6. \A i \in 1 .. Len(m) : LeadsAt(m, t, i, o)
  BY <1>1, <1>2, <1>4, <1>5
<1> QED BY <1>1, <1>6, LeadsBackIs DEF m

(* The front part of a list that leads back.                               *)
LEMMA PrefixLeads ==
  ASSUME NEW l \in Seq(Entries), NEW t, NEW o, LeadsBack(l, t, o), NEW n \in 0 .. Len(l)
  PROVE  /\ SubSeq(l, 1, n) \in Seq(Entries) /\ Len(SubSeq(l, 1, n)) = n
         /\ LeadsBack(SubSeq(l, 1, n), t, o)
<1> DEFINE m == SubSeq(l, 1, n)
<1>1. Len(l) \in Nat /\ n \in Nat /\ n <= Len(l)
  OBVIOUS
<1>2. m \in Seq(Entries) /\ Len(m) = n /\ \A i \in 1 .. n : m[i] = l[i]
  <2>1. \A i \in 1 .. n : l[i] \in Entries
    BY <1>1, ElementOfSeq
  <2>2. /\ m \in Seq(Entries) /\ Len(m) = IF 1 <= n THEN n - 1 + 1 ELSE 0
        /\ \A i \in 1 .. n - 1 + 1 : m[i] = l[1 + i - 1]
    BY <1>1, <2>1, SubSeqProperties
  <2> QED BY <1>1, <2>2
<1>3. \A i \in 1 .. Len(l) : LeadsAt(l, t, i, o)
  BY LeadsBackIs
<1> HIDE DEF m
<1>4. ASSUME NEW i \in 1 .. n
      PROVE  LeadsAt(m, t, i, o)
  <2>1. m[i] = l[i] /\ i \in 1 .. Len(l)
    BY <1>1, <1>2
  <2>2. Before(m, t, i) = Before(l, t, i)
    <3>1. CASE i = 1
      BY <3>1 DEF Before
    <3>2. CASE i # 1
      <4>1. i - 1 \in 1 .. n
        BY <1>1, <3>2
      <4> QED BY <1>2, <3>2, <4>1 DEF Before
    <3> QED BY <3>1, <3>2
  <2>3. LeadsAt(l, t, i, o)
    BY <1>3, <2>1
  <2> QED BY <2>1, <2>2, <2>3, LeadsAtSame
<1>5. LeadsBack(m, t, o)
  BY <1>2, <1>4, LeadsBackIs
<1> QED BY <1>2, <1>5 DEF m

(* The first change of a list that leads back, and the rest.               *)
LEMMA TailLeads ==
  ASSUME NEW l \in Seq(Entries), l # << >>, NEW t, NEW o, LeadsBack(l, t, o)
  PROVE  /\ l[1] \in Entries /\ Tail(l) \in Seq(Entries)
         /\ Applies(l[1], t) /\ Alike(l[1].was, Undone(t, l[1]), o)
         /\ LeadsBack(Tail(l), l[1].was, o)
<1> DEFINE m == Tail(l)
<1>1. Len(l) \in Nat /\ Len(l) > 0
  OBVIOUS
<1>2. l[1] \in Entries
  BY <1>1, ElementOfSeq
<1>3. /\ m \in Seq(Entries) /\ Len(m) = Len(l) - 1
      /\ \A i \in 1 .. Len(m) : m[i] = l[i + 1]
  BY HeadTailProperties
<1>4. \A i \in 1 .. Len(l) : LeadsAt(l, t, i, o)
  BY LeadsBackIs
<1> HIDE DEF m
<1>5. Applies(l[1], t) /\ Alike(l[1].was, Undone(t, l[1]), o)
  <2>1. LeadsAt(l, t, 1, o)
    BY <1>1, <1>4
  <2> QED BY <2>1 DEF LeadsAt, Before
<1>6. ASSUME NEW i \in 1 .. Len(m)
      PROVE  LeadsAt(m, l[1].was, i, o)
  <2>1. m[i] = l[i + 1] /\ i + 1 \in 1 .. Len(l) /\ i + 1 # 1 /\ i + 1 - 1 = i
    BY <1>1, <1>3
  <2>2. Before(m, l[1].was, i) = Before(l, t, i + 1)
    <3>1. CASE i = 1
      BY <3>1 DEF Before
    <3>2. CASE i # 1
      <4>1. i - 1 \in 1 .. Len(m) /\ i - 1 + 1 = i
        BY <1>1, <1>3, <3>2
      <4>2. m[i - 1] = l[i]
        BY <1>3, <4>1
      <4> QED BY <2>1, <3>2, <4>2 DEF Before
    <3> QED BY <3>1, <3>2
  <2>3. LeadsAt(l, t, i + 1, o)
    BY <1>4, <2>1
  <2> QED BY <2>1, <2>2, <2>3, LeadsAtSame
<1>7. LeadsBack(m, l[1].was, o)
  BY <1>3, <1>6, LeadsBackIs
<1> QED BY <1>2, <1>3, <1>5, <1>7 DEF m

(* Undoing an element takes texts of one length to texts of one length.    *)
LEMMA UndoneAlike ==
  ASSUME NEW e \in Entries, NEW t \in Seq(Chars), NEW u \in Seq(Chars), NEW o \in BOOLEAN,
         Alike(t, u, o), Applies(e, t)
  PROVE  Applies(e, u) /\ Alike(Undone(t, e), Undone(u, e), o)
<1>0. /\ Len(t) \in Nat /\ Len(t) = Len(u) /\ e.beg \in Nat /\ e.end \in Nat
      /\ e.str \in Seq(Chars)
  BY DEF Alike, Entries
<1>1. Applies(e, u)
  BY <1>0 DEF Applies
<1>2. ASSUME e.kind = "insert"
      PROVE  Len(Undone(t, e)) = Len(Undone(u, e))
  <2>1. e.beg \in 1 .. Len(t) + 1 /\ e.end \in e.beg .. Len(t) + 1
    BY <1>0, <1>2 DEF Applies
  <2>2. Len(Deleted(t, e.beg, e.end)) = Len(t) - (e.end - e.beg)
    BY <2>1, DeletedIs
  <2>3. Len(Deleted(u, e.beg, e.end)) = Len(u) - (e.end - e.beg)
    BY <1>0, <2>1, DeletedIs
  <2> QED BY <1>0, <1>2, <2>2, <2>3 DEF Undone
<1>3. ASSUME e.kind = "delete"
      PROVE  Len(Undone(t, e)) = Len(Undone(u, e))
  <2>1. e.beg \in 1 .. Len(t) + 1
    BY <1>0, <1>3 DEF Applies
  <2>2. Len(Inserted(t, e.beg, e.str)) = Len(t) + Len(e.str)
    BY <1>0, <2>1, InsertedIs
  <2>3. Len(Inserted(u, e.beg, e.str)) = Len(u) + Len(e.str)
    BY <1>0, <2>1, InsertedIs
  <2> QED BY <1>0, <1>3, <2>2, <2>3 DEF Undone
<1>4. ASSUME e.kind # "insert", e.kind # "delete"
      PROVE  Len(Undone(t, e)) = Len(Undone(u, e))
  BY <1>0, <1>4 DEF Undone
<1>5. Len(Undone(t, e)) = Len(Undone(u, e))
  BY <1>2, <1>3, <1>4
<1> QED BY <1>1, <1>5 DEF Alike

(* A list that leads back from a text leads back from one that is alike.   *)
LEMMA AlikeLeads ==
  ASSUME NEW l \in Seq(Entries), NEW t \in Seq(Chars), NEW u \in Seq(Chars),
         NEW o \in BOOLEAN, LeadsBack(l, t, o), Alike(t, u, o)
  PROVE  LeadsBack(l, u, o)
<1>0. Len(l) \in Nat
  OBVIOUS
<1>2. \A i \in 1 .. Len(l) : LeadsAt(l, t, i, o)
  BY LeadsBackIs
<1>3. ASSUME NEW i \in 1 .. Len(l)
      PROVE  LeadsAt(l, u, i, o)
  <2>1. CASE i # 1
    <3>1. Before(l, t, i) = Before(l, u, i)
      BY <2>1 DEF Before
    <3> QED BY <1>2, <3>1, LeadsAtSame
  <2>2. CASE i = 1
    <3>1. l[1] \in Entries
      BY <1>0, <2>2, ElementOfSeq
    <3>2. Applies(l[1], t) /\ Alike(l[1].was, Undone(t, l[1]), o)
      BY <1>2, <2>2 DEF LeadsAt, Before
    <3>3. Applies(l[1], u) /\ Alike(Undone(t, l[1]), Undone(u, l[1]), o)
      BY <3>1, <3>2, UndoneAlike
    <3>4. Alike(l[1].was, Undone(u, l[1]), o)
      BY <3>2, <3>3 DEF Alike
    <3> QED BY <2>2, <3>3, <3>4 DEF LeadsAt, Before
  <2> QED BY <2>1, <2>2
<1> QED BY <1>3, LeadsBackIs

(* A list that leads back leads through texts of the same lengths.         *)
LEMMA LooseLeads ==
  ASSUME NEW l \in Seq(Entries), NEW t \in Seq(Chars), NEW o, LeadsBack(l, t, o)
  PROVE  LeadsBack(l, t, TRUE)
<1>1. \A i \in 1 .. Len(l) : LeadsAt(l, t, i, o)
  BY LeadsBackIs
<1>2. \A i \in 1 .. Len(l) : LeadsAt(l, t, i, TRUE)
  BY <1>1 DEF LeadsAt, Alike
<1> QED BY <1>2, LeadsBackIs

(* The list without elements leads back.                                   *)
LEMMA EmptyLeads == \A t, o : << >> \in Seq(Entries) /\ LeadsBack(<< >>, t, o)
<1>1. << >> \in Seq(Entries) /\ DOMAIN << >> = {}
  OBVIOUS
<1> QED BY <1>1 DEF LeadsBack

-----------------------------------------------------------------------------
(* What is recorded.                                                       *)

(* The elements.                                                           *)
LEMMA EntriesAre ==
  ASSUME NEW t \in Seq(Chars), NEW str \in Seq(Chars), NEW beg \in Nat, NEW end \in Nat,
         NEW at \in Nat
  PROVE  /\ Boundary(t) \in Entries /\ Boundary(t).was = t /\ Boundary(t).kind = "boundary"
         /\ Saved(at, t) \in Entries /\ Saved(at, t).was = t /\ Saved(at, t).kind = "saved"
         /\ Insertion(beg, end, t) \in Entries /\ Insertion(beg, end, t).was = t
         /\ Insertion(beg, end, t).kind = "insert"
         /\ Insertion(beg, end, t).beg = beg /\ Insertion(beg, end, t).end = end
         /\ Deletion(str, beg, t) \in Entries /\ Deletion(str, beg, t).was = t
         /\ Deletion(str, beg, t).kind = "delete"
         /\ Deletion(str, beg, t).beg = beg /\ Deletion(str, beg, t).str = str
<1>1. << >> \in Seq(Chars) /\ 0 \in Nat
  OBVIOUS
<1> QED BY <1>1 DEF Entries, Kinds, Entry, Boundary, Saved, Insertion, Deletion

(* An element that stands for no change, in front of a list.               *)
LEMMA MarkLeads ==
  ASSUME NEW e \in Entries, e.kind \in {"boundary", "saved"}, NEW o,
         NEW l \in Seq(Entries), LeadsBack(l, e.was, o)
  PROVE  LeadsBack(Cons(e, l), e.was, o)
<1>1. e.kind # "insert" /\ e.kind # "delete"
  OBVIOUS
<1>2. Applies(e, e.was) /\ e.was = Undone(e.was, e)
  BY <1>1 DEF Applies, Undone
<1> QED BY <1>2, ConsLeads

(* L is a list that leads back from T, at least as long as M.              *)
Good(l, t, m, o) == l \in Seq(Entries) /\ LeadsBack(l, t, o) /\ Len(l) >= Len(m)

(* A boundary keeps a list good.                                           *)
LEMMA BoundaryLeads ==
  ASSUME NEW l \in Seq(Entries), NEW t \in Seq(Chars), NEW o, LeadsBack(l, t, o)
  PROVE  Good(WithBoundary(l, t), t, l, o)
<1>1. /\ Boundary(t) \in Entries /\ Boundary(t).was = t
      /\ Boundary(t).kind \in {"boundary", "saved"}
  BY EntriesAre, EmptySeq
<1>2. LeadsBack(Cons(Boundary(t), l), t, o)
  BY <1>1, MarkLeads
<1>3. Cons(Boundary(t), l) \in Seq(Entries) /\ Len(Cons(Boundary(t), l)) = Len(l) + 1
  BY <1>1, ConsIs
<1>4. Len(l) \in Nat
  OBVIOUS
<1> QED BY <1>2, <1>3, <1>4 DEF WithBoundary, Good

(* So does the prelude.                                                    *)
LEMMA PreludeLeads ==
  ASSUME NEW l \in Seq(Entries), NEW h, NEW t \in Seq(Chars), NEW o, LeadsBack(l, t, o),
         TypeOK
  PROVE  Good(undo_prelude(l, h, t), t, l, o)
<1> DEFINE m == IF h THEN l ELSE WithBoundary(l, t)
<1>0. Len(l) \in Nat /\ time \in Nat
  BY DEF TypeOK
<1>1. Good(m, t, l, o)
  BY <1>0, BoundaryLeads DEF Good
<1> HIDE DEF m
<1>2. m \in Seq(Entries) /\ LeadsBack(m, t, o) /\ Len(m) \in Nat /\ Len(m) >= Len(l)
  BY <1>1 DEF Good
<1>3. /\ Saved(time, t) \in Entries /\ Saved(time, t).was = t
      /\ Saved(time, t).kind \in {"boundary", "saved"}
  BY <1>0, EntriesAre, EmptySeq
<1>4. LeadsBack(Cons(Saved(time, t), m), t, o)
  BY <1>2, <1>3, MarkLeads
<1>5. /\ Cons(Saved(time, t), m) \in Seq(Entries)
      /\ Len(Cons(Saved(time, t), m)) = Len(m) + 1
  BY <1>2, <1>3, ConsIs
<1>6. undo_prelude(l, h, t) = IF modified THEN m ELSE Cons(Saved(time, t), m)
  BY DEF undo_prelude, m
<1>7. Good(Cons(Saved(time, t), m), t, l, o)
  BY <1>0, <1>2, <1>4, <1>5 DEF Good
<1> QED BY <1>1, <1>6, <1>7

(* A list with another element that leads back in the first place.         *)
LEMMA HeadLeads ==
  ASSUME NEW l \in Seq(Entries), l # << >>, NEW t, NEW o, LeadsBack(l, t, o),
         NEW e \in Entries, NEW u, e.was = l[1].was, Applies(e, u),
         Alike(e.was, Undone(u, e), o)
  PROVE  Good([l EXCEPT ![1] = e], u, l, o)
<1> DEFINE m == [l EXCEPT ![1] = e]
<1>1. Len(l) \in Nat /\ 1 \in 1 .. Len(l)
  OBVIOUS
<1>2. /\ m \in Seq(Entries) /\ Len(m) = Len(l)
      /\ \A j \in 1 .. Len(l) : m[j] = IF j = 1 THEN e ELSE l[j]
  BY <1>1, ExceptSeq
<1>3. \A i \in 1 .. Len(l) : LeadsAt(l, t, i, o)
  BY LeadsBackIs
<1> HIDE DEF m
<1>4. LeadsAt(m, u, 1, o)
  BY <1>1, <1>2 DEF LeadsAt, Before
<1>5. ASSUME NEW i \in 1 .. Len(l), i # 1
      PROVE  LeadsAt(m, u, i, o)
  <2>1. m[i] = l[i]
    BY <1>2, <1>5
  <2>2. i - 1 \in 1 .. Len(l)
    BY <1>1, <1>5
  <2>3. m[i - 1].was = l[i - 1].was
    BY <1>2, <2>2
  <2>4. Before(m, u, i) = Before(l, t, i)
    BY <1>5, <2>3 DEF Before
  <2>5. LeadsAt(l, t, i, o)
    BY <1>3
  <2> QED BY <2>1, <2>4, <2>5, LeadsAtSame
<1>6. LeadsBack(m, u, o)
  BY <1>2, <1>4, <1>5, LeadsBackIs
<1>7. Good(m, u, l, o)
  BY <1>1, <1>2, <1>6 DEF Good
<1> QED BY <1>7 DEF m

(* An element that says where an insertion ends, changed to say otherwise. *)
LEMMA EndChanged ==
  ASSUME NEW l \in Seq(Entries), l # << >>, NEW n \in Nat
  PROVE  \E e \in Entries :
           /\ [l EXCEPT ![1].end = n] = [l EXCEPT ![1] = e]
           /\ e.kind = l[1].kind /\ e.beg = l[1].beg /\ e.end = n /\ e.was = l[1].was
           /\ e.str = l[1].str /\ e.time = l[1].time
<1>1. l[1] \in Entries
  BY ElementOfSeq, EmptySeq
<1> DEFINE e == [l[1] EXCEPT !.end = n]
<1>2. /\ e \in Entries /\ e.kind = l[1].kind /\ e.beg = l[1].beg /\ e.end = n
      /\ e.was = l[1].was /\ e.str = l[1].str /\ e.time = l[1].time
  BY <1>1 DEF Entries
<1>3. [l EXCEPT ![1].end = n] = [l EXCEPT ![1] = e]
  OBVIOUS
<1> HIDE DEF e
<1> QED BY <1>2, <1>3

(* Recording an insertion keeps the list good.                             *)
LEMMA RecordInsert ==
  ASSUME NEW l \in Seq(Entries), NEW h, NEW t \in Seq(Chars), NEW o, LeadsBack(l, t, o),
         TypeOK,
         NEW s \in Seq(Chars), NEW p \in 1 .. Len(t) + 1
  PROVE  Good(record_insert(l, h, t, p, Len(s)), Inserted(t, p, s), l, o)
<1> DEFINE m == undo_prelude(l, h, t)
           u == Inserted(t, p, s)
           n == Len(s)
<1>0. Len(t) \in Nat /\ n \in Nat /\ p \in Nat /\ 1 <= p /\ p <= Len(t) + 1 /\ p + n \in Nat
      /\ Len(l) \in Nat
  OBVIOUS
<1>1. /\ m \in Seq(Entries) /\ LeadsBack(m, t, o) /\ Len(m) \in Nat /\ Len(m) >= Len(l)
  BY PreludeLeads DEF Good
<1>2. u \in Seq(Chars) /\ Len(u) = Len(t) + n
  BY InsertedIs
<1>3. \A b \in 1 .. p : Deleted(u, b, p + n) = Deleted(t, b, p)
  BY DeleteInserted
<1>4. record_insert(l, h, t, p, n) =
        IF m # << >> /\ m[1].kind = "insert" /\ m[1].end = p
        THEN [m EXCEPT ![1].end = p + n]
        ELSE Cons(Insertion(p, p + n, t), m)
  BY DEF record_insert
<1>5. Deleted(t, p, p) = t
  BY DeleteNothing
<1> HIDE DEF m, u, n
<1>6. ASSUME m # << >> /\ m[1].kind = "insert" /\ m[1].end = p
      PROVE  Good(record_insert(l, h, t, p, n), u, l, o)
  <2>1. PICK e \in Entries :
          /\ [m EXCEPT ![1].end = p + n] = [m EXCEPT ![1] = e]
          /\ e.kind = m[1].kind /\ e.beg = m[1].beg /\ e.end = p + n /\ e.was = m[1].was
          /\ e.str = m[1].str /\ e.time = m[1].time
    BY <1>0, <1>1, <1>6, EndChanged
  <2>2. /\ m[1] \in Entries /\ Applies(m[1], t) /\ Alike(m[1].was, Undone(t, m[1]), o)
    BY <1>1, <1>6, TailLeads
  <2>3. 1 <= m[1].beg /\ m[1].beg <= p /\ Alike(m[1].was, Deleted(t, m[1].beg, p), o)
    BY <2>2, <1>6 DEF Applies, Undone
  <2>4. m[1].beg \in Nat
    BY <2>2 DEF Entries
  <2>5. Applies(e, u)
    <3>1. 1 <= e.beg /\ e.beg <= e.end /\ e.end <= Len(u) + 1
      BY <1>0, <1>2, <2>1, <2>3, <2>4
    <3> QED BY <3>1, <2>1, <1>6 DEF Applies
  <2>6. Alike(e.was, Undone(u, e), o)
    <3>1. m[1].beg \in 1 .. p
      BY <1>0, <2>3, <2>4
    <3>2. Deleted(u, m[1].beg, p + n) = Deleted(t, m[1].beg, p)
      BY <1>3, <3>1
    <3> QED BY <3>2, <2>1, <2>3, <1>6 DEF Undone
  <2>7. Good([m EXCEPT ![1] = e], u, m, o)
    BY <1>1, <1>6, <2>1, <2>5, <2>6, HeadLeads
  <2>8. record_insert(l, h, t, p, n) = [m EXCEPT ![1] = e]
    BY <1>4, <1>6, <2>1
  <2>9. Good(record_insert(l, h, t, p, n), u, m, o)
    BY <2>7, <2>8
  <2>a. Good(record_insert(l, h, t, p, n), u, l, o)
    BY <2>9, <1>0, <1>1 DEF Good
  <2> QED BY <2>a
<1>7. ASSUME ~ (m # << >> /\ m[1].kind = "insert" /\ m[1].end = p)
      PROVE  Good(record_insert(l, h, t, p, n), u, l, o)
  <2> DEFINE e == Insertion(p, p + n, t)
  <2>1. e \in Entries /\ e.was = t /\ e.kind = "insert" /\ e.beg = p /\ e.end = p + n
    BY <1>0, EntriesAre
  <2> HIDE DEF e
  <2>2. Applies(e, u)
    <3>1. 1 <= e.beg /\ e.beg <= e.end /\ e.end <= Len(u) + 1
      BY <1>0, <1>2, <2>1
    <3> QED BY <3>1, <2>1 DEF Applies
  <2>3. e.was = Undone(u, e)
    <3>1. p \in 1 .. p
      BY <1>0
    <3>2. Deleted(u, p, p + n) = t
      BY <1>3, <1>5, <3>1
    <3> QED BY <2>1, <3>2 DEF Undone
  <2>4. LeadsBack(m, e.was, o)
    BY <1>1, <2>1
  <2>5. LeadsBack(Cons(e, m), u, o)
    BY <1>1, <2>1, <2>2, <2>3, <2>4, ConsLeads
  <2>6. Cons(e, m) \in Seq(Entries) /\ Len(Cons(e, m)) = Len(m) + 1
    BY <1>1, <2>1, ConsIs
  <2>7. record_insert(l, h, t, p, n) = Cons(e, m)
    BY <1>4, <1>7 DEF e
  <2> QED BY <2>5, <2>6, <2>7, <1>0, <1>1 DEF Good
<1>8. Good(record_insert(l, h, t, p, n), u, l, o)
  BY <1>6, <1>7
<1> QED BY <1>8 DEF u, n

(* So does recording a deletion.                                           *)
LEMMA RecordDelete ==
  ASSUME NEW l \in Seq(Entries), NEW h, NEW t \in Seq(Chars), NEW o, LeadsBack(l, t, o),
         TypeOK,
         NEW p \in 1 .. Len(t) + 1, NEW q \in p .. Len(t) + 1
  PROVE  Good(record_delete(l, h, t, p, q - p), Deleted(t, p, q), l, o)
<1> DEFINE m == undo_prelude(l, h, t)
           u == Deleted(t, p, q)
           s == SubSeq(t, p, q - 1)
           e == Deletion(s, p, t)
<1>0. Len(t) \in Nat /\ p \in Nat /\ 1 <= p /\ p <= q /\ q <= Len(t) + 1 /\ q \in Nat
      /\ Len(l) \in Nat
  OBVIOUS
<1>1. /\ m \in Seq(Entries) /\ LeadsBack(m, t, o) /\ Len(m) \in Nat /\ Len(m) >= Len(l)
  BY PreludeLeads DEF Good
<1>2. u \in Seq(Chars) /\ Len(u) = Len(t) - (q - p)
  BY DeletedIs
<1>3. s \in Seq(Chars) /\ Len(s) = q - p /\ Inserted(u, p, s) = t
  BY InsertDeleted
<1>4. p + (q - p) - 1 = q - 1
  BY <1>0
<1>5. record_delete(l, h, t, p, q - p) = Cons(e, m)
  BY <1>4 DEF record_delete
<1> HIDE DEF m, u, s
<1>6. e \in Entries /\ e.was = t /\ e.kind = "delete" /\ e.beg = p /\ e.str = s
  BY <1>0, <1>3, EntriesAre
<1> HIDE DEF e
<1>7. Applies(e, u)
  <2>1. 1 <= e.beg /\ e.beg <= Len(u) + 1
    BY <1>0, <1>2, <1>6
  <2> QED BY <2>1, <1>6 DEF Applies
<1>8. e.was = Undone(u, e)
  BY <1>3, <1>6 DEF Undone
<1>9. LeadsBack(Cons(e, m), u, o)
  <2>1. LeadsBack(m, e.was, o)
    BY <1>1, <1>6
  <2> QED BY <2>1, <1>1, <1>6, <1>7, <1>8, ConsLeads
<1>a. Cons(e, m) \in Seq(Entries) /\ Len(Cons(e, m)) = Len(m) + 1
  BY <1>1, <1>6, ConsIs
<1>b. Good(Cons(e, m), u, l, o)
  BY <1>0, <1>1, <1>9, <1>a DEF Good
<1> QED BY <1>5, <1>b DEF u

(* And so does recording a replacement.                                    *)
LEMMA RecordChange ==
  ASSUME NEW l \in Seq(Entries), NEW h, NEW t \in Seq(Chars), NEW o, LeadsBack(l, t, o),
         TypeOK,
         NEW p \in 1 .. Len(t), NEW c \in Chars
  PROVE  Good(record_change(l, h, t, p), [t EXCEPT ![p] = c], l, o)
<1> DEFINE m == record_delete(l, h, t, p, 1)
           u == Deleted(t, p, p + 1)
<1>1. Len(t) \in Nat /\ p \in 1 .. Len(t) + 1 /\ p + 1 \in p .. Len(t) + 1 /\ p + 1 - p = 1
      /\ Len(l) \in Nat
  OBVIOUS
<1>2. Good(m, u, l, o)
  <2>1. \A q \in p .. Len(t) + 1 : Good(record_delete(l, h, t, p, q - p), Deleted(t, p, q), l, o)
    BY <1>1, RecordDelete
  <2> QED BY <1>1, <2>1
<1>3. u \in Seq(Chars) /\ Len(u) = Len(t) - 1
  <2>1. u \in Seq(Chars) /\ Len(u) = Len(t) - (p + 1 - p)
    BY <1>1, DeletedIs
  <2> QED BY <1>1, <2>1
<1>4. <<c>> \in Seq(Chars) /\ Len(<<c>>) = 1
  OBVIOUS
<1>5. [t EXCEPT ![p] = c] = Inserted(u, p, <<c>>)
  BY ReplaceIs
<1>6. record_change(l, h, t, p) = record_insert(m, TRUE, u, p, 1)
  BY DEF record_change
<1> DEFINE s == <<c>>
<1> HIDE DEF m, u, s
<1>7. s \in Seq(Chars) /\ Len(s) = 1
  BY <1>4 DEF s
<1>8. m \in Seq(Entries) /\ LeadsBack(m, u, o) /\ Len(m) >= Len(l) /\ Len(m) \in Nat
  BY <1>2 DEF Good
<1>9. p \in 1 .. Len(u) + 1
  BY <1>1, <1>3
<1>a. Good(record_insert(m, TRUE, u, p, Len(s)), Inserted(u, p, s), m, o)
  BY <1>3, <1>7, <1>8, <1>9, RecordInsert
<1>b. Good(record_change(l, h, t, p), Inserted(u, p, s), m, o)
  BY <1>6, <1>7, <1>a
<1>c. Good(record_change(l, h, t, p), Inserted(u, p, s), l, o)
  BY <1>1, <1>8, <1>b DEF Good
<1> QED BY <1>5, <1>c DEF s

\* A cut of L behind its N-th element is not for nothing.
Needed(l, n) ==
  \/ n + 1 \in Stops(l)
  \/ \E i \in Boundaries(l) :
       /\ n + 1 < i /\ TooLong(l, i)
       /\ \A j \in n + 2 .. i - 1 : l[j].kind # "boundary"

(* Truncation leaves the part of the list before a boundary, and, unless   *)
(* that part is the newest unit, it is not too long; and no boundary       *)
(* further down would have done.                                           *)
LEMMA TruncatedIs ==
  ASSUME NEW l \in Seq(Entries), Truncated(l) # l
  PROVE  \E n \in 1 .. Len(l) - 1 :
           /\ Truncated(l) = SubSeq(l, 1, n) /\ l[n + 1].kind = "boundary"
           /\ ~TooLong(l, n + 1) \/ \A i \in 2 .. n : l[i].kind # "boundary"
           /\ Needed(l, n)
<1> DEFINE i == Min(Stops(l))
           earlier == {j \in Boundaries(l) : j < i}
           cut == IF TooLong(l, i) /\ earlier # {} THEN Max(earlier) ELSE i
<1>1. Len(l) \in Nat
  OBVIOUS
<1>2. Stops(l) # {} /\ Truncated(l) = SubSeq(l, 1, cut - 1)
  BY DEF Truncated
<1>3. Boundaries(l) \in SUBSET (2 .. Len(l)) /\ Stops(l) \in SUBSET Boundaries(l)
  BY DEF Boundaries, Stops
<1>4. i \in Stops(l) /\ \A j \in Stops(l) : i <= j
  <2>1. Stops(l) \in SUBSET Nat
    BY <1>1, <1>3
  <2> QED BY <1>2, <2>1, MinIs
<1> HIDE DEF i
<1>5. i \in 2 .. Len(l) /\ i \in Boundaries(l)
  BY <1>3, <1>4
<1>6. ASSUME earlier # {}
      PROVE  Max(earlier) \in earlier /\ \A j \in earlier : j <= Max(earlier)
  <2>1. earlier \in SUBSET Nat /\ (\A x \in earlier : x <= Len(l))
    BY <1>1, <1>3
  <2> HIDE DEF earlier
  <2> QED BY <1>1, <1>6, <2>1, MaxIs
<1>7. cut \in Boundaries(l)
  BY <1>5, <1>6
<1>8. IF TooLong(l, i) /\ earlier # {} THEN cut < i ELSE cut = i
  BY <1>6
<1>h. cut < i => \A j \in earlier : j <= cut
  BY <1>1, <1>5, <1>6, <1>8
<1>f. \A c \in Boundaries(l) : c \notin Stops(l) => ~TooLong(l, c)
  BY DEF Stops
<1> HIDE DEF cut
<1>g. ~TooLong(l, cut) \/ (earlier = {} /\ cut = i)
  <2>1. CASE TooLong(l, i) /\ earlier # {}
    <3>1. cut \notin Stops(l)
      BY <1>1, <1>3, <1>4, <1>5, <1>7, <1>8, <2>1
    <3>2. ~TooLong(l, cut)
      BY <1>7, <1>f, <3>1, Zenon
    <3> QED BY <3>2, Zenon
  <2>2. CASE ~ (TooLong(l, i) /\ earlier # {})
    BY <1>8, <2>2
  <2> QED BY <2>1, <2>2
<1> DEFINE n == cut - 1
<1>9. cut \in 2 .. Len(l)
  BY <1>3, <1>7
<1>a. l[cut].kind = "boundary"
  BY <1>7 DEF Boundaries
<1>b. earlier = {} /\ cut = i => \A j \in 2 .. n : l[j].kind # "boundary"
  <2> SUFFICES ASSUME earlier = {}, cut = i, NEW j \in 2 .. n, l[j].kind = "boundary"
               PROVE  FALSE
    OBVIOUS
  <2>1. j \in 2 .. Len(l) /\ j < i
    BY <1>1, <1>9, <1>5
  <2>2. j \in Boundaries(l)
    BY <2>1 DEF Boundaries
  <2> QED BY <2>1, <2>2
<1>i. cut \in Stops(l) \/ (cut < i /\ TooLong(l, i))
  BY <1>4, <1>8
<1>j. ASSUME cut < i, NEW j \in n + 2 .. i - 1
      PROVE  l[j].kind # "boundary"
  <2>1. j \in 2 .. Len(l) /\ j < i /\ ~ (j <= cut)
    BY <1>1, <1>5, <1>9, <1>j
  <2>2. j \notin earlier
    BY <1>h, <1>j, <2>1
  <2>3. j \notin Boundaries(l)
    BY <2>1, <2>2
  <2> QED BY <2>1, <2>3 DEF Boundaries
<1> HIDE DEF earlier
<1>c. n \in 1 .. Len(l) - 1 /\ n + 1 = cut
  BY <1>1, <1>9
<1> HIDE DEF n
<1>d. Truncated(l) = SubSeq(l, 1, n)
  BY <1>2 DEF n, cut, earlier
<1>e. /\ l[n + 1].kind = "boundary"
      /\ ~TooLong(l, n + 1) \/ \A j \in 2 .. n : l[j].kind # "boundary"
  BY <1>g, <1>a, <1>b, <1>c
<1>k. Needed(l, n)
  <2>1. CASE cut \in Stops(l)
    BY <1>c, <2>1 DEF Needed
  <2>2. CASE cut < i /\ TooLong(l, i)
    BY <1>5, <1>c, <1>j, <2>2 DEF Needed
  <2> QED BY <1>i, <2>1, <2>2
<1> QED BY <1>c, <1>d, <1>e, <1>k

-----------------------------------------------------------------------------
(* The invariant.                                                          *)

IInv == TypeOK /\ ListLeadsBack /\ PendingLeadsBack

(* The strings that may be inserted.                                       *)
LEMMA StringsAre == Strings \subseteq Seq(Chars)
BY UndoAssumption DEF UndoAssumption

(* The initial states satisfy it.                                          *)
LEMMA InitIInv == Init => IInv
<1> SUFFICES ASSUME Init PROVE IInv
  OBVIOUS
<1>1. << >> \in Seq(Entries) /\ << >> \in Seq(Chars)
  OBVIOUS
<1>2. TypeOK
  <2>1. /\ text \in Seq(Chars) /\ saved \subseteq Seq(Chars)
        /\ list \in Seq(Entries) /\ work \in Seq(Entries)
    BY <1>1 DEF Init
  <2>2. time \in Nat /\ pc \in {"idle", "undoing"} /\ left \in 0 .. 2 /\ cuts \in Nat
        /\ odd \in Nat
    BY DEF Init
  <2>3. /\ modified \in BOOLEAN /\ here \in BOOLEAN /\ joined \in BOOLEAN
        /\ running \in BOOLEAN /\ stale \in BOOLEAN /\ unrecorded \in BOOLEAN
        /\ believed \in BOOLEAN /\ trusted \in BOOLEAN
    BY Zenon DEF Init
  <2> QED BY <2>1, <2>2, <2>3 DEF TypeOK
<1>3. ListLeadsBack /\ PendingLeadsBack
  BY EmptyLeads DEF Init, ListLeadsBack, PendingLeadsBack
<1> QED BY <1>2, <1>3 DEF IInv

(* What a change by a command or an intrusion does to a series of undos.   *)
LEMMA InterruptsKeep ==
  ASSUME TypeOK, NEW i \in BOOLEAN, Interrupts(i), pc = "idle"
  PROVE  /\ work' \in Seq(Entries) /\ joined' \in BOOLEAN /\ running' \in BOOLEAN
         /\ stale' \in BOOLEAN /\ believed' \in BOOLEAN
         /\ pc' = "idle" /\ left' \in 0 .. 2
         /\ PendingLeadsBack'
<1>1. << >> \in Seq(Entries)
  OBVIOUS
<1>2. pc' = "idle" /\ left' \in 0 .. 2
  BY DEF Interrupts, TypeOK
<1>3. work' \in Seq(Entries)
  BY <1>1 DEF Interrupts, TypeOK
<1>4. /\ joined' \in BOOLEAN /\ running' \in BOOLEAN /\ stale' \in BOOLEAN
      /\ believed' \in BOOLEAN
  BY Zenon DEF Interrupts, TypeOK
<1>5. running' => stale'
  BY Zenon DEF Interrupts
<1>6. pc' # "undoing"
  BY <1>2
<1>7. PendingLeadsBack'
  BY <1>5, <1>6, Zenon DEF PendingLeadsBack
<1> QED BY <1>2, <1>3, <1>4, <1>7

(* A change, recorded or not, that leaves the list leading back keeps the  *)
(* invariant.                                                              *)
LEMMA ChangeKeeps ==
  ASSUME IInv, NEW i \in BOOLEAN, Interrupts(i), pc = "idle",
         Good(list', text', list, unrecorded'), text' \in Seq(Chars),
         modified' \in BOOLEAN, here' \in BOOLEAN, time' \in Nat, cuts' \in Nat,
         odd' \in Nat, saved' \subseteq Seq(Chars), unrecorded' \in BOOLEAN,
         trusted' \in BOOLEAN
  PROVE  IInv' /\ Len(list') >= Len(list)
<1>0. TypeOK
  BY DEF IInv
<1>1. /\ work' \in Seq(Entries) /\ joined' \in BOOLEAN /\ running' \in BOOLEAN
      /\ stale' \in BOOLEAN /\ believed' \in BOOLEAN
      /\ pc' = "idle" /\ left' \in 0 .. 2
      /\ PendingLeadsBack'
  BY <1>0, InterruptsKeep
<1>2. list' \in Seq(Entries) /\ ListLeadsBack' /\ Len(list') >= Len(list)
  BY DEF Good, ListLeadsBack
<1>3. TypeOK'
  BY <1>1, <1>2 DEF TypeOK
<1> QED BY <1>1, <1>2, <1>3 DEF IInv

(* What the invariant says of the list.                                    *)
LEMMA ListIs ==
  ASSUME IInv
  PROVE  /\ list \in Seq(Entries) /\ text \in Seq(Chars) /\ LeadsBack(list, text, unrecorded)
         /\ work \in Seq(Entries) /\ Len(list) \in Nat /\ Len(work) \in Nat
         /\ Len(text) \in Nat /\ unrecorded \in BOOLEAN /\ TypeOK
BY DEF IInv, TypeOK, ListLeadsBack

(* Insertions.                                                             *)
LEMMA InsertKeeps ==
  ASSUME IInv, NEW i \in BOOLEAN, NEW p \in 1 .. Len(text) + 1, NEW s \in Strings,
         Insert(p, s, i)
  PROVE  IInv' /\ Len(list') >= Len(list)
<1>1. s \in Seq(Chars)
  BY StringsAre
<1>2. Good(record_insert(list, here, text, p, Len(s)), Inserted(text, p, s), list, unrecorded)
  BY <1>1, ListIs, RecordInsert
<1>3. Good(list', text', list, unrecorded')
  BY <1>2 DEF Insert
<1>4. text' \in Seq(Chars)
  BY <1>1, ListIs, InsertedIs DEF Insert
<1>5. /\ Interrupts(i) /\ pc = "idle" /\ modified' \in BOOLEAN /\ here' \in BOOLEAN
      /\ time' \in Nat /\ cuts' \in Nat /\ odd' \in Nat /\ saved' \subseteq Seq(Chars)
      /\ unrecorded' \in BOOLEAN /\ trusted' \in BOOLEAN
  BY ListIs DEF Insert, TypeOK
<1> QED BY <1>3, <1>4, <1>5, ChangeKeeps

(* Deletions.                                                              *)
LEMMA DeleteKeeps ==
  ASSUME IInv, NEW i \in BOOLEAN, NEW p \in 1 .. Len(text) + 1,
         NEW q \in 1 .. Len(text) + 1, p < q, Delete(p, q, i)
  PROVE  IInv' /\ Len(list') >= Len(list)
<1>1. q \in p .. Len(text) + 1
  BY ListIs
<1>2. Good(record_delete(list, here, text, p, q - p), Deleted(text, p, q), list, unrecorded)
  BY <1>1, ListIs, RecordDelete
<1>3. Good(list', text', list, unrecorded')
  BY <1>2 DEF Delete
<1>4. text' \in Seq(Chars)
  BY <1>1, ListIs, DeletedIs DEF Delete
<1>5. /\ Interrupts(i) /\ pc = "idle" /\ modified' \in BOOLEAN /\ here' \in BOOLEAN
      /\ time' \in Nat /\ cuts' \in Nat /\ odd' \in Nat /\ saved' \subseteq Seq(Chars)
      /\ unrecorded' \in BOOLEAN /\ trusted' \in BOOLEAN
  BY ListIs DEF Delete, TypeOK
<1> QED BY <1>3, <1>4, <1>5, ChangeKeeps

(* Replacements: one that is not a real change makes a text that is alike. *)
LEMMA ReplaceKeeps ==
  ASSUME IInv, NEW i \in BOOLEAN, NEW p \in 1 .. Len(text), NEW c \in Chars,
         NEW n \in BOOLEAN, ReplaceChar(p, c, n, i)
  PROVE  IInv' /\ Len(list') >= Len(list)
<1> DEFINE u == [text EXCEPT ![p] = c]
<1>0. /\ list \in Seq(Entries) /\ text \in Seq(Chars) /\ LeadsBack(list, text, unrecorded)
      /\ unrecorded \in BOOLEAN /\ Len(list) \in Nat /\ TypeOK
  BY ListIs
<1>1. text' = u /\ u \in Seq(Chars) /\ Len(u) = Len(text)
  BY <1>0, ExceptSeq DEF ReplaceChar
<1>2. Good(list', text', list, unrecorded')
  <2>1. CASE ~n
    <3>1. Good(record_change(list, here, text, p), u, list, unrecorded)
      BY <1>0, RecordChange
    <3> QED BY <1>1, <2>1, <3>1 DEF ReplaceChar
  <2>2. CASE n
    <3>1. list' = list /\ unrecorded' = TRUE
      BY <2>2 DEF ReplaceChar
    <3> HIDE DEF u
    <3>2. Alike(text, u, TRUE)
      BY <1>1 DEF Alike
    <3>3. LeadsBack(list, text, TRUE) /\ TRUE \in BOOLEAN
      BY <1>0, LooseLeads
    <3>4. LeadsBack(list, u, TRUE)
      BY <1>0, <1>1, <3>2, <3>3, AlikeLeads, Zenon
    <3>5. Len(list) >= Len(list)
      BY <1>0
    <3>6. Good(list, u, list, TRUE)
      BY <1>0, <3>4, <3>5, Zenon DEF Good
    <3> QED BY <1>1, <3>1, <3>6, Zenon
  <2> QED BY <2>1, <2>2
<1>3. odd' \in Nat /\ unrecorded' \in BOOLEAN
  <2>1. odd \in Nat
    BY <1>0 DEF TypeOK
  <2>2. odd' = odd \/ odd' = odd + 1
    BY DEF ReplaceChar, Odd
  <2>3. unrecorded' = unrecorded \/ unrecorded' = TRUE
    BY DEF ReplaceChar
  <2>4. unrecorded' \in BOOLEAN
    BY <1>0, <2>3, Zenon
  <2> QED BY <2>1, <2>2, <2>4
<1>4. modified' \in BOOLEAN /\ here' \in BOOLEAN
  BY <1>0, Zenon DEF ReplaceChar, TypeOK
<1>5. /\ Interrupts(i) /\ pc = "idle" /\ time' \in Nat /\ cuts' \in Nat
      /\ saved' \subseteq Seq(Chars) /\ trusted' \in BOOLEAN
  BY <1>0 DEF ReplaceChar, TypeOK
<1>6. text' \in Seq(Chars)
  BY <1>1
<1> QED BY <1>2, <1>3, <1>4, <1>5, <1>6, ChangeKeeps

(* A change recorded elsewhere, a command that changes nothing.            *)
LEMMA OthersKeep ==
  ASSUME IInv, OtherBuffer \/ OtherCommand
  PROVE  IInv' /\ Len(list') >= Len(list)
<1>1. CASE OtherBuffer
  <2>1. TypeOK'
    BY <1>1, ListIs DEF OtherBuffer, undoVars, TypeOK
  <2>2. ListLeadsBack' /\ PendingLeadsBack'
    BY <1>1 DEF OtherBuffer, undoVars, IInv, ListLeadsBack, PendingLeadsBack
  <2> QED BY <1>1, <2>1, <2>2, ListIs DEF OtherBuffer, IInv
<1>2. CASE OtherCommand
  <2>1. Good(list', text', list, unrecorded')
    <3>1. Good(WithBoundary(list, text), text, list, unrecorded)
      BY ListIs, BoundaryLeads
    <3> QED BY <1>2, <3>1 DEF OtherCommand
  <2>2. /\ Interrupts(FALSE) /\ pc = "idle" /\ modified' \in BOOLEAN /\ here' \in BOOLEAN
        /\ time' \in Nat /\ cuts' \in Nat /\ odd' \in Nat /\ saved' \subseteq Seq(Chars)
        /\ unrecorded' \in BOOLEAN /\ trusted' \in BOOLEAN /\ text' \in Seq(Chars)
    BY <1>2, ListIs DEF OtherCommand, TypeOK
  <2>3. FALSE \in BOOLEAN
    OBVIOUS
  <2> QED BY <2>1, <2>2, <2>3, ChangeKeeps
<1> QED BY <1>1, <1>2

(* A save, or the attempt, and the flag set or cleared by Lisp.            *)
LEMMA FlagsKeep ==
  ASSUME IInv, NEW b \in BOOLEAN, Save(b) \/ SetModified(b)
  PROVE  IInv' /\ list' = list
<1>0. /\ list \in Seq(Entries) /\ text \in Seq(Chars) /\ LeadsBack(list, text, unrecorded)
      /\ TypeOK
  BY ListIs
<1>t. time \in Nat /\ odd \in Nat /\ saved \subseteq Seq(Chars)
  BY <1>0 DEF TypeOK
<1>1. /\ text' = text /\ list' = list /\ here' = here /\ cuts' = cuts
      /\ unrecorded' = unrecorded /\ pc = "idle"
  BY DEF Save, SetModified
<1>2. time' \in Nat /\ odd' \in Nat
  <2>1. odd' = odd \/ odd' = odd + 1
    BY DEF Save, SetModified, Odd
  <2>2. time' = time \/ time' = time + 1
    BY DEF Save, SetModified
  <2> QED BY <1>t, <2>1, <2>2
<1>3. saved' \subseteq Seq(Chars)
  BY <1>0, <1>t DEF Save, SetModified
<1>4. modified' \in BOOLEAN /\ trusted' \in BOOLEAN
  BY <1>0, Zenon DEF Save, SetModified, TypeOK
<1>5. /\ work' \in Seq(Entries) /\ joined' \in BOOLEAN /\ running' \in BOOLEAN
      /\ stale' \in BOOLEAN /\ believed' \in BOOLEAN
      /\ pc' = "idle" /\ left' \in 0 .. 2
      /\ PendingLeadsBack'
  <2>1. CASE Interrupts(FALSE)
    <3>1. FALSE \in BOOLEAN
      OBVIOUS
    <3> QED BY <1>0, <1>1, <2>1, <3>1, InterruptsKeep
  <2>2. CASE UNCHANGED undoVars
    BY <1>0, <1>1, <2>2 DEF undoVars, TypeOK, IInv, PendingLeadsBack
  <2> QED BY <2>1, <2>2 DEF Save, SetModified
<1>6. TypeOK'
  <2>1. /\ text' \in Seq(Chars) /\ list' \in Seq(Entries) /\ cuts' \in Nat
        /\ here' \in BOOLEAN /\ unrecorded' \in BOOLEAN
    BY <1>0, <1>1 DEF TypeOK
  <2> QED BY <1>2, <1>3, <1>4, <1>5, <2>1 DEF TypeOK
<1>7. ListLeadsBack'
  BY <1>0, <1>1 DEF ListLeadsBack
<1> QED BY <1>1, <1>5, <1>6, <1>7 DEF IInv

(* The front part of a list is a list.                                     *)
LEMMA PrefixIs ==
  ASSUME NEW l \in Seq(Entries), NEW n \in 0 .. Len(l)
  PROVE  SubSeq(l, 1, n) \in Seq(Entries)
<1>1. \A i \in 1 .. n : l[i] \in Entries
  BY ElementOfSeq
<1>2. 1 \in Int /\ n \in Int
  OBVIOUS
<1> QED BY <1>1, <1>2, SubSeqProperties

(* A garbage collection.                                                   *)
LEMMA TruncateKeeps ==
  ASSUME IInv, Truncate
  PROVE  IInv'
<1>0. /\ list \in Seq(Entries) /\ text \in Seq(Chars) /\ LeadsBack(list, text, unrecorded)
      /\ work \in Seq(Entries) /\ Len(list) \in Nat /\ Len(work) \in Nat /\ TypeOK
  BY ListIs
<1>1. PICK n \in 1 .. Len(list) - 1 : Truncated(list) = SubSeq(list, 1, n)
  BY <1>0, TruncatedIs DEF Truncate
<1>2. n \in 0 .. Len(list) /\ n \in Nat
  BY <1>0, <1>1
<1>3. list' = SubSeq(list, 1, n)
  BY <1>1 DEF Truncate
<1>4. list' \in Seq(Entries) /\ Len(list') = n /\ LeadsBack(list', text, unrecorded)
  BY <1>0, <1>2, <1>3, PrefixLeads
<1>5. /\ text' = text /\ saved' = saved /\ time' = time /\ modified' = modified
      /\ here' = here /\ pc' = pc /\ left' = left /\ running' = running
      /\ stale' = stale /\ trusted' = trusted /\ cuts' = cuts + 1
      /\ odd' = odd /\ unrecorded' = unrecorded /\ believed' = believed
  BY DEF Truncate
<1> DEFINE k == Len(work) - (Len(list) - Len(list'))
<1>6. \/ /\ k \in 0 .. Len(work) /\ work' = SubSeq(work, 1, k) /\ joined' = joined
      \/ /\ work' = work /\ joined' = FALSE
  <2>1. CASE joined /\ Len(work) > Len(list) - Len(list')
    <3>1. work' = SubSeq(work, 1, k) /\ joined' = joined
      BY <2>1 DEF Truncate
    <3>2. Len(list') \in Nat /\ Len(list') <= Len(list)
      BY <1>0, <1>2, <1>4
    <3>3. k \in 0 .. Len(work)
      BY <1>0, <2>1, <3>2
    <3> QED BY <3>1, <3>3
  <2>2. CASE ~ (joined /\ Len(work) > Len(list) - Len(list'))
    BY <2>2 DEF Truncate
  <2> QED BY <2>1, <2>2
<1> HIDE DEF k
<1>7. work' \in Seq(Entries) /\ joined' \in BOOLEAN
  <2>1. CASE k \in 0 .. Len(work) /\ work' = SubSeq(work, 1, k) /\ joined' = joined
    <3>1. work' \in Seq(Entries)
      BY <1>0, <2>1, PrefixIs
    <3>2. joined' \in BOOLEAN
      BY <1>0, <2>1 DEF TypeOK
    <3> QED BY <3>1, <3>2
  <2>2. CASE work' = work /\ joined' = FALSE
    BY <1>0, <2>2
  <2> QED BY <1>6, <2>1, <2>2
<1>8. LeadsBack(work, text, unrecorded) => LeadsBack(work', text', unrecorded')
  <2>1. CASE k \in 0 .. Len(work) /\ work' = SubSeq(work, 1, k)
    BY <1>0, <1>5, <2>1, PrefixLeads
  <2>2. CASE work' = work
    BY <1>5, <2>2
  <2> QED BY <1>6, <2>1, <2>2
<1>9. TypeOK'
  <2>1. cuts \in Nat /\ time \in Nat
    BY <1>0 DEF TypeOK
  <2>2. cuts' \in Nat
    BY <1>5, <2>1
  <2> QED BY <1>0, <1>4, <1>5, <1>7, <2>2 DEF TypeOK
<1>a. ListLeadsBack'
  BY <1>4, <1>5 DEF ListLeadsBack
<1>b. PendingLeadsBack'
  <2>1. PendingLeadsBack
    BY DEF IInv
  <2> QED BY <1>5, <1>8, <2>1 DEF PendingLeadsBack
<1> QED BY <1>9, <1>a, <1>b DEF IInv

(* The command undo.                                                       *)
LEMMA UndoCommandKeeps ==
  ASSUME IInv, NEW b \in BOOLEAN, UndoCommand(b)
  PROVE  IInv' /\ Len(list') >= Len(list)
<1>0. /\ list \in Seq(Entries) /\ text \in Seq(Chars) /\ LeadsBack(list, text, unrecorded)
      /\ work \in Seq(Entries) /\ Len(list) \in Nat /\ Len(work) \in Nat /\ TypeOK
  BY ListIs
<1>1. Good(list', text, list, unrecorded)
  <2>1. Good(WithBoundary(list, text), text, list, unrecorded)
    BY <1>0, BoundaryLeads
  <2>2. Good(list, text, list, unrecorded)
    BY <1>0 DEF Good
  <2> QED BY <2>1, <2>2 DEF UndoCommand
<1>2. list' \in Seq(Entries) /\ LeadsBack(list', text, unrecorded) /\ Len(list') >= Len(list)
  BY <1>1 DEF Good
<1> DEFINE rest == IF running THEN work ELSE list'
<1>3. /\ pc = "idle" /\ text' = text /\ saved' = saved /\ time' = time
      /\ modified' = modified /\ here' = here /\ cuts' = cuts /\ trusted' = trusted
      /\ odd' = odd /\ unrecorded' = unrecorded /\ believed' = believed
  BY DEF UndoCommand
<1>4. \/ /\ running' = FALSE /\ work' = rest /\ joined' = FALSE /\ stale' = FALSE
         /\ pc' = pc /\ left' = left
      \/ /\ pc' = "undoing" /\ left' = (IF running THEN 1 ELSE 2) /\ work' = rest
         /\ joined' = (joined \/ ~running) /\ stale' = (stale /\ running)
         /\ running' = running
  BY DEF UndoCommand
<1>5. rest \in Seq(Entries)
  BY <1>0, <1>2
<1>6. running => stale \/ LeadsBack(rest, text, unrecorded)
  BY DEF IInv, PendingLeadsBack
<1>7. ~running => LeadsBack(rest, text, unrecorded)
  BY <1>2
<1> HIDE DEF rest
<1>8. work' \in Seq(Entries) /\ pc' \in {"idle", "undoing"} /\ left' \in 0 .. 2
  BY <1>0, <1>3, <1>4, <1>5 DEF TypeOK
<1>9. joined' \in BOOLEAN /\ running' \in BOOLEAN /\ stale' \in BOOLEAN
  <2>1. joined \in BOOLEAN /\ running \in BOOLEAN /\ stale \in BOOLEAN
    BY <1>0 DEF TypeOK
  <2> QED BY <1>4, <2>1, Zenon
<1>a. TypeOK'
  BY <1>0, <1>2, <1>3, <1>8, <1>9 DEF TypeOK
<1>b. ListLeadsBack'
  BY <1>2, <1>3 DEF ListLeadsBack
<1>c. PendingLeadsBack'
  <2>1. CASE running' = FALSE /\ pc' = pc
    <3>1. pc' # "undoing"
      BY <1>3, <2>1
    <3> QED BY <2>1, <3>1 DEF PendingLeadsBack
  <2>2. CASE work' = rest /\ stale' = (stale /\ running)
    <3>1. stale' \/ LeadsBack(rest, text, unrecorded)
      BY <1>6, <1>7, <2>2, Zenon
    <3>2. stale' \/ LeadsBack(work', text', unrecorded')
      BY <1>3, <2>2, <3>1
    <3> QED BY <3>2 DEF PendingLeadsBack
  <2> QED BY <1>4, <2>1, <2>2, Zenon
<1> QED BY <1>2, <1>a, <1>b, <1>c DEF IInv

(* An insertion or a deletion undone.                                      *)
LEMMA UndoChangeKeeps ==
  ASSUME IInv, UndoChange
  PROVE  IInv' /\ Len(list') >= Len(list)
<1> DEFINE e == work[1]
<1>0. /\ list \in Seq(Entries) /\ text \in Seq(Chars) /\ LeadsBack(list, text, unrecorded)
      /\ work \in Seq(Entries) /\ Len(list) \in Nat /\ Len(work) \in Nat /\ TypeOK
      /\ Len(text) \in Nat
  BY ListIs
<1>1. /\ pc = "undoing" /\ work # << >> /\ Applies(e, text) /\ e.kind \in {"insert", "delete"}
      /\ text' = Undone(text, e) /\ work' = Tail(work)
      /\ saved' = saved /\ time' = time /\ pc' = pc /\ left' = left /\ joined' = joined
      /\ running' = running /\ stale' = stale /\ cuts' = cuts /\ trusted' = trusted
      /\ odd' = odd /\ unrecorded' = unrecorded /\ believed' = FALSE
      /\ list' = IF e.kind = "delete" THEN record_insert(list, here, text, e.beg, Len(e.str))
                 ELSE IF e.beg < e.end THEN record_delete(list, here, text, e.beg, e.end - e.beg)
                 ELSE list
  BY DEF UndoChange
<1>2. /\ modified' = (modified \/ e.kind = "delete" \/ e.beg < e.end)
      /\ here' = (here \/ e.kind = "delete" \/ e.beg < e.end)
  BY DEF UndoChange
<1>3. e \in Entries /\ Tail(work) \in Seq(Entries)
  BY <1>0, <1>1, ElementOfSeq, EmptySeq, HeadTailProperties
<1> HIDE DEF e
<1>4. e.beg \in Nat /\ e.end \in Nat /\ e.str \in Seq(Chars)
  BY <1>3 DEF Entries
<1>5. Good(list', text', list, unrecorded') /\ text' \in Seq(Chars)
  <2>1. CASE e.kind = "delete"
    <3>1. e.beg \in 1 .. Len(text) + 1
      BY <1>0, <1>1, <1>4, <2>1 DEF Applies
    <3>2. text' = Inserted(text, e.beg, e.str)
      BY <1>1, <2>1 DEF Undone
    <3>3. Good(record_insert(list, here, text, e.beg, Len(e.str)),
               Inserted(text, e.beg, e.str), list, unrecorded)
      BY <1>0, <1>4, <3>1, RecordInsert
    <3>4. text' \in Seq(Chars)
      BY <1>0, <1>4, <3>1, <3>2, InsertedIs
    <3> QED BY <1>1, <2>1, <3>2, <3>3, <3>4
  <2>2. CASE e.kind = "insert"
    <3>1. 1 <= e.beg /\ e.beg <= e.end /\ e.end <= Len(text) + 1
      BY <1>1, <2>2 DEF Applies
    <3>2. e.beg \in 1 .. Len(text) + 1 /\ e.end \in e.beg .. Len(text) + 1
      BY <1>0, <1>4, <3>1
    <3>3. text' = Deleted(text, e.beg, e.end)
      BY <1>1, <2>2 DEF Undone
    <3>4. text' \in Seq(Chars)
      BY <1>0, <3>2, <3>3, DeletedIs
    <3>5. CASE e.beg < e.end
      <4>1. Good(record_delete(list, here, text, e.beg, e.end - e.beg),
                 Deleted(text, e.beg, e.end), list, unrecorded)
        BY <1>0, <3>2, RecordDelete
      <4> QED BY <1>1, <2>2, <3>3, <3>4, <3>5, <4>1
    <3>6. CASE ~ (e.beg < e.end)
      <4>1. e.beg = e.end
        BY <1>4, <3>1, <3>6
      <4>2. text' = text
        BY <1>0, <3>2, <3>3, <4>1, DeleteNothing
      <4>3. list' = list
        BY <1>1, <2>2, <3>6
      <4>4. Good(list, text, list, unrecorded)
        BY <1>0 DEF Good
      <4> QED BY <1>1, <3>4, <4>2, <4>3, <4>4
    <3> QED BY <3>5, <3>6
  <2> QED BY <1>1, <2>1, <2>2
<1>6. list' \in Seq(Entries) /\ LeadsBack(list', text', unrecorded') /\ Len(list') >= Len(list)
  BY <1>5 DEF Good
<1>7. modified' \in BOOLEAN /\ here' \in BOOLEAN
  BY <1>2, Zenon
<1>8. TypeOK'
  BY <1>0, <1>1, <1>3, <1>5, <1>6, <1>7 DEF TypeOK
<1>9. PendingLeadsBack'
  <2>1. stale \/ LeadsBack(work, text, unrecorded)
    BY <1>1 DEF IInv, PendingLeadsBack
  <2>2. ASSUME LeadsBack(work, text, unrecorded)
        PROVE  LeadsBack(work', text', unrecorded')
    <3>1. Alike(e.was, text', unrecorded) /\ LeadsBack(Tail(work), e.was, unrecorded)
      BY <1>0, <1>1, <2>2, TailLeads DEF e
    <3>2. e.was \in Seq(Chars) /\ unrecorded \in BOOLEAN
      BY <1>0, <1>3 DEF Entries, TypeOK
    <3>3. LeadsBack(Tail(work), text', unrecorded)
      BY <1>3, <1>5, <3>1, <3>2, AlikeLeads, Zenon
    <3> QED BY <1>1, <3>3
  <2>3. stale' \/ LeadsBack(work', text', unrecorded')
    BY <1>1, <2>1, <2>2
  <2> QED BY <2>3 DEF PendingLeadsBack
<1> QED BY <1>6, <1>8, <1>9 DEF IInv, ListLeadsBack

(* An element passed by without a change of the text.                      *)
LEMMA MarkPassed ==
  ASSUME IInv, pc = "undoing", text' = text, stale' = stale, unrecorded' = unrecorded,
         \/ work = << >> /\ work' = work
         \/ work # << >> /\ work[1].kind \in {"boundary", "saved"} /\ work' = Tail(work)
  PROVE  work' \in Seq(Entries) /\ (stale' \/ LeadsBack(work', text', unrecorded'))
<1>0. work \in Seq(Entries)
  BY ListIs
<1>1. stale \/ LeadsBack(work, text, unrecorded)
  BY DEF IInv, PendingLeadsBack
<1>2. CASE work = << >> /\ work' = work
  BY <1>0, <1>1, <1>2
<1>3. CASE work # << >> /\ work[1].kind \in {"boundary", "saved"} /\ work' = Tail(work)
  <2>1. work' \in Seq(Entries)
    BY <1>0, <1>3, HeadTailProperties
  <2>2. ASSUME LeadsBack(work, text, unrecorded)
        PROVE  LeadsBack(work', text', unrecorded')
    <3>1. /\ work[1] \in Entries /\ Tail(work) \in Seq(Entries)
          /\ Alike(work[1].was, Undone(text, work[1]), unrecorded)
          /\ LeadsBack(Tail(work), work[1].was, unrecorded)
      BY <1>0, <1>3, <2>2, TailLeads
    <3>2. Undone(text, work[1]) = text
      BY <1>3 DEF Undone
    <3>3. work[1].was \in Seq(Chars) /\ text \in Seq(Chars) /\ unrecorded \in BOOLEAN
      BY <3>1, ListIs DEF Entries
    <3>4. Alike(work[1].was, text, unrecorded)
      BY <3>1, <3>2
    <3>5. LeadsBack(Tail(work), text, unrecorded)
      BY <3>1, <3>3, <3>4, AlikeLeads, Zenon
    <3> QED BY <1>3, <3>5
  <2> QED BY <1>1, <2>1, <2>2
<1> QED BY <1>2, <1>3

(* A save undone, the end of a unit, a change that is refused.             *)
LEMMA UndoRestKeeps ==
  ASSUME IInv, UndoSaved \/ UndoUnit \/ UndoFails
  PROVE  IInv' /\ list' = list
<1>0. TypeOK /\ ListLeadsBack
  BY DEF IInv
<1>1. CASE UndoSaved
  <2>1. work' \in Seq(Entries) /\ (stale' \/ LeadsBack(work', text', unrecorded'))
    BY <1>1, MarkPassed DEF UndoSaved
  <2>2. trusted' \in BOOLEAN
    BY <1>0, <1>1, Zenon DEF UndoSaved, TypeOK
  <2>3. TypeOK'
    BY <1>0, <1>1, <2>1, <2>2 DEF UndoSaved, TypeOK
  <2>4. ListLeadsBack' /\ PendingLeadsBack' /\ list' = list
    BY <1>0, <1>1, <2>1 DEF UndoSaved, ListLeadsBack, PendingLeadsBack
  <2> QED BY <2>3, <2>4 DEF IInv
<1>2. CASE UndoUnit
  <2>1. /\ pc = "undoing" /\ text' = text /\ saved' = saved /\ time' = time
        /\ modified' = modified /\ list' = list /\ here' = here
        /\ cuts' = cuts /\ trusted' = trusted /\ odd' = odd
        /\ unrecorded' = unrecorded /\ believed' = FALSE
    BY <1>2 DEF UndoUnit
  <2>2. \/ work = << >> /\ work' = work
        \/ work # << >> /\ work[1].kind \in {"boundary", "saved"} /\ work' = Tail(work)
    BY <1>2 DEF UndoUnit
  <2>3. \/ pc' = "undoing" /\ left' = 1 /\ joined' = joined /\ running' = running
             /\ stale' = stale
        \/ pc' = "idle" /\ left' = 0 /\ joined' = FALSE /\ running' = FALSE /\ stale' = FALSE
        \/ pc' = "idle" /\ left' = 0 /\ joined' = joined /\ running' = TRUE /\ stale' = stale
    BY <1>2, <2>1 DEF UndoUnit
  <2>4. /\ pc' \in {"idle", "undoing"} /\ left' \in 0 .. 2
    BY <2>3
  <2>5. joined' \in BOOLEAN /\ running' \in BOOLEAN /\ stale' \in BOOLEAN
    <3>1. joined \in BOOLEAN /\ running \in BOOLEAN /\ stale \in BOOLEAN
      BY <1>0 DEF TypeOK
    <3> QED BY <2>3, <3>1, Zenon
  <2>6. work' \in Seq(Entries)
    <3>1. CASE work = << >> /\ work' = work
      BY <1>0, <3>1 DEF TypeOK
    <3>2. CASE work # << >> /\ work' = Tail(work)
      BY <1>0, <3>2, HeadTailProperties DEF TypeOK
    <3> QED BY <2>2, <3>1, <3>2
  <2>7. TypeOK'
    BY <1>0, <2>1, <2>4, <2>5, <2>6 DEF TypeOK
  <2>8. PendingLeadsBack'
    <3>1. CASE stale' = stale
      <4>1. stale' \/ LeadsBack(work', text', unrecorded')
        BY <2>1, <2>2, <3>1, MarkPassed
      <4> QED BY <4>1 DEF PendingLeadsBack
    <3>2. CASE pc' = "idle" /\ running' = FALSE
      <4>1. pc' # "undoing"
        BY <3>2
      <4> QED BY <3>2, <4>1 DEF PendingLeadsBack
    <3> QED BY <2>3, <3>1, <3>2
  <2>9. ListLeadsBack'
    BY <1>0, <2>1 DEF ListLeadsBack
  <2> QED BY <2>1, <2>7, <2>8, <2>9 DEF IInv
<1>3. CASE UndoFails
  <2>0. << >> \in Seq(Entries)
    OBVIOUS
  <2>1. trusted' \in BOOLEAN
    BY <1>0, <1>3, Zenon DEF UndoFails, TypeOK
  <2>2. /\ pc' = "idle" /\ left' = 0 /\ running' = FALSE /\ stale' = FALSE /\ joined' = FALSE
        /\ text' = text /\ saved' = saved /\ time' = time /\ modified' = modified
        /\ list' = list /\ here' = here /\ cuts' = cuts /\ odd' = odd
        /\ unrecorded' = unrecorded /\ believed' = FALSE
    BY <1>3 DEF UndoFails
  <2>w. work' \in Seq(Entries)
    BY <1>3, <2>0 DEF UndoFails
  <2>3. TypeOK'
    <3>1. /\ text' \in Seq(Chars) /\ saved' \subseteq Seq(Chars) /\ time' \in Nat
          /\ list' \in Seq(Entries) /\ cuts' \in Nat /\ odd' \in Nat
          /\ pc' \in {"idle", "undoing"} /\ left' \in 0 .. 2
      BY <1>0, <2>2 DEF TypeOK
    <3>2. /\ modified' \in BOOLEAN /\ here' \in BOOLEAN
          /\ joined' \in BOOLEAN /\ running' \in BOOLEAN /\ stale' \in BOOLEAN
          /\ unrecorded' \in BOOLEAN /\ believed' \in BOOLEAN
      BY <1>0, <2>2, Zenon DEF TypeOK
    <3> QED BY <2>1, <2>w, <3>1, <3>2 DEF TypeOK
  <2>4. pc' # "undoing"
    BY <2>2
  <2>5. ListLeadsBack' /\ PendingLeadsBack' /\ list' = list
    BY <1>0, <2>2, <2>4 DEF ListLeadsBack, PendingLeadsBack
  <2> QED BY <2>3, <2>5 DEF IInv
<1> QED BY <1>1, <1>2, <1>3

(* Every step keeps the invariant, and the list is cut only by a garbage   *)
(* collection.                                                             *)
LEMMA StepIInv ==
  ASSUME IInv, [Next]_vars
  PROVE  IInv' /\ (Truncate \/ Len(list') >= Len(list))
<1>0. Len(list) \in Nat
  BY ListIs
<1>1. CASE UNCHANGED vars
  <2>1. IInv'
    BY <1>1 DEF vars, undoVars, IInv, TypeOK, ListLeadsBack, PendingLeadsBack
  <2> QED BY <1>0, <1>1, <2>1 DEF vars
<1>2. ASSUME NEW i \in BOOLEAN, NEW p \in 1 .. Len(text) + 1, NEW s \in Strings,
             Insert(p, s, i)
      PROVE  IInv' /\ Len(list') >= Len(list)
  BY <1>2, InsertKeeps
<1>3. ASSUME NEW i \in BOOLEAN, NEW p \in 1 .. Len(text) + 1, NEW q \in 1 .. Len(text) + 1,
             p < q, Delete(p, q, i)
      PROVE  IInv' /\ Len(list') >= Len(list)
  BY <1>3, DeleteKeeps
<1>4. ASSUME NEW i \in BOOLEAN, NEW p \in 1 .. Len(text), NEW c \in Chars,
             NEW n \in BOOLEAN, ReplaceChar(p, c, n, i)
      PROVE  IInv' /\ Len(list') >= Len(list)
  BY <1>4, ReplaceKeeps
<1>5. CASE OtherBuffer \/ OtherCommand
  BY <1>5, OthersKeep
<1>a. ASSUME NEW b \in BOOLEAN, Save(b) \/ SetModified(b)
      PROVE  IInv' /\ Len(list') >= Len(list)
  BY <1>0, <1>a, FlagsKeep
<1>6. CASE Truncate
  BY <1>6, TruncateKeeps
<1>7. ASSUME NEW b \in BOOLEAN, UndoCommand(b)
      PROVE  IInv' /\ Len(list') >= Len(list)
  BY <1>7, UndoCommandKeeps
<1>8. CASE UndoChange
  BY <1>8, UndoChangeKeeps
<1>9. CASE UndoSaved \/ UndoUnit \/ UndoFails
  <2>1. IInv' /\ list' = list
    BY <1>9, UndoRestKeeps
  <2> QED BY <1>0, <2>1
<1> QED BY <1>1, <1>2, <1>3, <1>4, <1>5, <1>6, <1>7, <1>8, <1>9, <1>a, Zenon DEF Next

(* The invariant holds in every reachable state.                           *)
THEOREM IInvAlways == Spec => []IInv
<1>1. IInv /\ [Next]_vars => IInv'
  BY StepIInv
<1> QED BY InitIInv, <1>1, PTL DEF Spec

(* The text, the undo list and the state of undo have their types,         *)
(* whatever the commands, garbage collections and undos.                   *)
THEOREM TypeCorrect == Spec => []TypeOK
<1>1. IInv => TypeOK
  BY DEF IInv
<1> QED BY IInvAlways, <1>1, PTL

(* The undo list leads back from the text of the buffer through every text *)
(* it had, whatever was recorded, combined, cut off and undone; and when   *)
(* characters have been replaced with NOUNDO, through texts of the lengths *)
(* of those, so that every position in it fits.                            *)
THEOREM ListAlwaysLeadsBack == Spec => []ListLeadsBack
<1>1. IInv => ListLeadsBack
  BY DEF IInv
<1> QED BY IInvAlways, <1>1, PTL

(* What is left to undo in a series of undos leads back from the text that *)
(* the last of them has left.                                              *)
THEOREM PendingAlwaysLeadsBack == Spec => []PendingLeadsBack
<1>1. IInv => PendingLeadsBack
  BY DEF IInv
<1> QED BY IInvAlways, <1>1, PTL

(* When the list is cut, it is cut in front of a boundary, what is kept is *)
(* within undo-high-threshold unless it is the newest unit, and no more is *)
(* cut than a threshold calls for.                                         *)
THEOREM TruncationAlwaysFits == Spec => TruncationFits
<1>1. ASSUME IInv, [Next]_vars
      PROVE  [Len(list') < Len(list) =>
                LET n == Len(list')
                IN  /\ list' = SubSeq(list, 1, n) /\ list[n + 1].kind = "boundary"
                    /\ ~TooLong(list, n + 1) \/ \A i \in 2 .. n : list[i].kind # "boundary"
                    /\ \/ n + 1 \in Stops(list)
                       \/ \E i \in Boundaries(list) :
                            /\ n + 1 < i /\ TooLong(list, i)
                            /\ \A j \in n + 2 .. i - 1 : list[j].kind # "boundary"]_vars
  <2> SUFFICES ASSUME Len(list') < Len(list)
               PROVE  /\ list' = SubSeq(list, 1, Len(list'))
                      /\ list[Len(list') + 1].kind = "boundary"
                      /\ \/ ~TooLong(list, Len(list') + 1)
                         \/ \A i \in 2 .. Len(list') : list[i].kind # "boundary"
                      /\ Needed(list, Len(list'))
    BY DEF Needed
  <2>0. /\ list \in Seq(Entries) /\ LeadsBack(list, text, unrecorded) /\ Len(list) \in Nat
        /\ IInv' /\ (Truncate \/ Len(list') >= Len(list))
    BY <1>1, ListIs, StepIInv
  <2>1. Len(list') \in Nat
    BY <2>0 DEF IInv, TypeOK
  <2>2. Truncate
    BY <2>0, <2>1
  <2>3. PICK n \in 1 .. Len(list) - 1 :
          /\ Truncated(list) = SubSeq(list, 1, n) /\ list[n + 1].kind = "boundary"
          /\ ~TooLong(list, n + 1) \/ \A i \in 2 .. n : list[i].kind # "boundary"
          /\ Needed(list, n)
    BY <2>0, <2>2, TruncatedIs DEF Truncate
  <2>4. n \in 0 .. Len(list)
    BY <2>0
  <2>5. list' = SubSeq(list, 1, n)
    BY <2>2, <2>3 DEF Truncate
  <2>6. Len(list') = n
    BY <2>0, <2>4, <2>5, PrefixLeads
  <2> QED BY <2>3, <2>5, <2>6
<1> QED BY IInvAlways, <1>1, PTL DEF Spec, TruncationFits

=============================================================================
