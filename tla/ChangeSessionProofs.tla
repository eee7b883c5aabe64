------------------------ MODULE ChangeSessionProofs ------------------------
(***************************************************************************)
(* Proofs about ChangeSession, for any characters, strings and bounds.     *)
(***************************************************************************)
EXTENDS ChangeSession, SequenceTheorems, TLAPS

-----------------------------------------------------------------------------
(* The inductive invariant.                                                *)

\* A change that can be made to text T.
Valid(c, t) == 1 <= c.from /\ c.from <= c.to /\ c.to <= Len(t) + 1

\* The change in progress is an insertion, a deletion or a replacement.
OpInv == 1 <= op.from /\ op.from <= op.to /\ (op.str # << >> => op.to <= op.from + 1)

(* in_multiple_change counts at least the sessions that somebody is in, and *)
(* the one with the unwind-protect; it is exact for change functions.       *)
OwnerInv ==
  /\ owner = "none" => in_multiple_change = 0 /\ ~Active /\ open = 0 /\ hookOpen = 0
  /\ owner = "program" => in_multiple_change > hookOpen /\ in_multiple_change >= hookOpen + open
  /\ owner = "hook" => in_multiple_change = hookOpen /\ hookOpen > 0 /\ open = 0
  /\ hookOpen > 0 => phase \in {"before", "after"}
  /\ phase = "begin" => owner = "program"
  /\ phase = "after" /\ todo = "begin" => owner = "program"

(* While change functions run, no session is one whose changes are to be    *)
(* reported.                                                                *)
SignalInv ==
  /\ phase \in {"before", "after"} /\ Active => ~mc.signaled
  /\ phase = "after" /\ owner = "program" => ~Active
  /\ pending => Active /\ mc.signaled

(* The bounds of the program's session are within the text and describe     *)
(* what has become of the text it began with, and a change that is about to *)
(* be made is within them.                                                  *)
BoundsInv ==
  Active /\ owner = "program" /\ ~meddled =>
    /\ mc.begin <= mc.orig_end /\ mc.begin <= mc.new_end /\ mc.new_end <= Len(text) + 1
    /\ ~mc.signaled => mc.orig_end = mc.new_end
    /\ mc.signaled => Describes(mc.begin, mc.orig_end, mc.new_end, seen, text)
    /\ phase = "before" => mc.begin <= op.from /\ op.to <= mc.new_end /\ Real(op)

IInv ==
  /\ TypeOK /\ OpInv /\ OwnerInv /\ SignalInv /\ BoundsInv
  /\ RegionCovers /\ told /\ AssertionsHold

-----------------------------------------------------------------------------
(* Texts.                                                                  *)

(* The end of a session moves with the end of the text when a change whose *)
(* end moves from Q to N is made inside.                                   *)
LEMMA EndMovesAlong ==
  ASSUME NEW lt \in Nat, NEW lu \in Nat, NEW q \in Nat, NEW m \in Int, NEW n \in Int,
         m <= lt + 1, lu - n = lt - q
  PROVE  m + n - q <= lu + 1
OBVIOUS

(* A function on an initial segment of the naturals is a sequence.         *)
LEMMA SeqIntro ==
  ASSUME NEW S, NEW n \in Nat, NEW f \in [1 .. n -> S]
  PROVE  f \in Seq(S) /\ Len(f) = n
OBVIOUS

(* What an insertion makes of a text.                                      *)
LEMMA InsertedIs ==
  ASSUME NEW t \in Seq(Chars), NEW s \in Seq(Chars), NEW p \in 1 .. Len(t) + 1
  PROVE  /\ Inserted(t, p, s) \in Seq(Chars)
         /\ Len(Inserted(t, p, s)) = Len(t) + Len(s)
         /\ \A i \in 1 .. Len(t) + Len(s) :
              Inserted(t, p, s)[i] = IF i < p THEN t[i]
                                     ELSE IF i < p + Len(s) THEN s[i - p + 1]
                                     ELSE t[i - Len(s)]
<1>1. Len(t) \in Nat /\ Len(s) \in Nat /\ Len(t) + Len(s) \in Nat
  OBVIOUS
<1>2. \A i \in 1 .. Len(t) + Len(s) :
        (IF i < p THEN t[i] ELSE IF i < p + Len(s) THEN s[i - p + 1] ELSE t[i - Len(s)])
          \in Chars
  <2>1. \A i \in 1 .. Len(t) : t[i] \in Chars
    BY ElementOfSeq
  <2>2. \A i \in 1 .. Len(s) : s[i] \in Chars
    BY ElementOfSeq
  <2> QED BY <1>1, <2>1, <2>2
<1>3. Inserted(t, p, s) \in [1 .. Len(t) + Len(s) -> Chars]
  BY <1>2 DEF Inserted
<1>4. Inserted(t, p, s) \in Seq(Chars) /\ Len(Inserted(t, p, s)) = Len(t) + Len(s)
  BY <1>1, <1>3, SeqIntro
<1> QED BY <1>4 DEF Inserted

(* What a deletion makes of it.                                            *)
LEMMA DeletedIs ==
  ASSUME NEW t \in Seq(Chars), NEW p \in 1 .. Len(t) + 1, NEW q \in p .. Len(t) + 1
  PROVE  /\ Deleted(t, p, q) \in Seq(Chars)
         /\ Len(Deleted(t, p, q)) = Len(t) - (q - p)
         /\ \A i \in 1 .. Len(t) - (q - p) :
              Deleted(t, p, q)[i] = IF i < p THEN t[i] ELSE t[i + (q - p)]
<1>1. Len(t) \in Nat /\ Len(t) - (q - p) \in Nat
  OBVIOUS
<1>2. \A i \in 1 .. Len(t) - (q - p) : (IF i < p THEN t[i] ELSE t[i + (q - p)]) \in Chars
  <2>1. \A i \in 1 .. Len(t) : t[i] \in Chars
    BY ElementOfSeq
  <2> QED BY <1>1, <2>1
<1>3. Deleted(t, p, q) \in [1 .. Len(t) - (q - p) -> Chars]
  BY <1>2 DEF Deleted
<1>4. Deleted(t, p, q) \in Seq(Chars) /\ Len(Deleted(t, p, q)) = Len(t) - (q - p)
  BY <1>1, <1>3, SeqIntro
<1> QED BY <1>4 DEF Deleted

(* A change leaves what is before and behind it alone.                     *)
LEMMA ChangeDescribed ==
  ASSUME NEW t \in Seq(Chars), NEW p \in 1 .. Len(t) + 1, NEW q \in p .. Len(t) + 1,
         NEW s \in Seq(Chars)
  PROVE  LET u == Inserted(Deleted(t, p, q), p, s)
         IN  /\ u \in Seq(Chars) /\ Len(u) = Len(t) - (q - p) + Len(s)
             /\ Describes(p, q, p + Len(s), t, u)
<1> DEFINE d == Deleted(t, p, q)
           u == Inserted(d, p, s)
<1>1. /\ Len(t) \in Nat /\ Len(s) \in Nat /\ p \in Nat /\ q \in Nat
      /\ 1 <= p /\ p <= q /\ q <= Len(t) + 1
  OBVIOUS
<1>2. /\ d \in Seq(Chars) /\ Len(d) = Len(t) - (q - p)
      /\ \A i \in 1 .. Len(t) - (q - p) : d[i] = IF i < p THEN t[i] ELSE t[i + (q - p)]
  BY DeletedIs
<1> HIDE DEF d
<1>3. p \in 1 .. Len(d) + 1
  BY <1>1, <1>2
<1>4. /\ u \in Seq(Chars) /\ Len(u) = Len(d) + Len(s)
      /\ \A i \in 1 .. Len(d) + Len(s) :
           u[i] = IF i < p THEN d[i] ELSE IF i < p + Len(s) THEN s[i - p + 1] ELSE d[i - Len(s)]
  BY <1>2, <1>3, InsertedIs
<1> HIDE DEF u
<1>5. Len(u) = Len(t) - (q - p) + Len(s)
  BY <1>2, <1>4
<1>6. \A i \in 1 .. p - 1 : i <= Len(t) /\ i <= Len(u) /\ u[i] = t[i]
  <2> TAKE i \in 1 .. p - 1
  <2>1. i \in Nat /\ 1 <= i /\ i < p /\ i <= Len(t) /\ i <= Len(d) /\ i <= Len(u)
    BY <1>1, <1>2, <1>5
  <2>2. i \in 1 .. Len(d) + Len(s) /\ i \in 1 .. Len(t) - (q - p)
    BY <2>1, <1>1, <1>2
  <2>3. u[i] = d[i] /\ d[i] = t[i]
    BY <2>1, <2>2, <1>2, <1>4
  <2> QED BY <2>1, <2>3
<1>7. \A i \in q .. Len(t) : u[i + (p + Len(s)) - q] = t[i]
  <2> TAKE i \in q .. Len(t)
  <2> DEFINE k == i + (p + Len(s)) - q
             h == i - (q - p)
  <2>1. /\ i \in Nat /\ k \in 1 .. Len(d) + Len(s) /\ ~ (k < p) /\ ~ (k < p + Len(s))
        /\ k - Len(s) = h /\ h \in 1 .. Len(t) - (q - p) /\ ~ (h < p) /\ h + (q - p) = i
    BY <1>1, <1>2
  <2> HIDE DEF k, h
  <2>2. u[k] = d[h]
    BY <2>1, <1>4
  <2>3. d[h] = t[i]
    BY <2>1, <1>2
  <2> QED BY <2>2, <2>3 DEF k
<1>8. Len(u) - (p + Len(s)) = Len(t) - q /\ p <= p + Len(s)
  BY <1>1, <1>5
<1>9. Describes(p, q, p + Len(s), t, u)
  BY <1>1, <1>6, <1>7, <1>8 DEF Describes
<1> QED BY <1>4, <1>5, <1>9 DEF u, d

(* Nothing has changed in a region.                                        *)
LEMMA SameDescribed ==
  ASSUME NEW t \in Seq(Chars), NEW b \in Nat, NEW e \in Int,
         1 <= b, b <= e, e <= Len(t) + 1
  PROVE  Describes(b, e, e, t, t)
<1>1. Len(t) \in Nat
  OBVIOUS
<1>2. \A i \in e .. Len(t) : i + e - e = i
  OBVIOUS
<1> QED BY <1>1, <1>2 DEF Describes

(* A session goes on with a change inside its bounds.                      *)
LEMMA DescribedThen ==
  ASSUME NEW old \in Seq(Chars), NEW t \in Seq(Chars), NEW u \in Seq(Chars),
         NEW b \in Nat, NEW oe \in Int, NEW ne \in Int,
         NEW p \in Int, NEW q \in Int, NEW r \in Int,
         Describes(b, oe, ne, old, t), ne <= Len(t) + 1,
         Describes(p, q, r, t, u), b <= p, q <= ne
  PROVE  Describes(b, oe, ne + r - q, old, u)
<1>1. Len(old) \in Nat /\ Len(t) \in Nat /\ Len(u) \in Nat
  OBVIOUS
<1>2. /\ 1 <= b /\ b <= oe /\ b <= ne /\ Len(t) - ne = Len(old) - oe
      /\ \A i \in 1 .. b - 1 : i <= Len(old) /\ i <= Len(t) /\ t[i] = old[i]
      /\ \A i \in oe .. Len(old) : t[i + ne - oe] = old[i]
  BY DEF Describes
<1>3. /\ 1 <= p /\ p <= q /\ p <= r /\ Len(u) - r = Len(t) - q
      /\ \A i \in 1 .. p - 1 : i <= Len(t) /\ i <= Len(u) /\ u[i] = t[i]
      /\ \A i \in q .. Len(t) : u[i + r - q] = t[i]
  BY DEF Describes
<1>4. b <= ne + r - q /\ Len(u) - (ne + r - q) = Len(old) - oe
  <2>1. b <= ne /\ Len(t) - ne = Len(old) - oe /\ p <= q /\ p <= r /\ Len(u) - r = Len(t) - q
    BY <1>2, <1>3
  <2>2. ASSUME NEW lo \in Nat, NEW lt \in Nat, NEW lu \in Nat,
               lt - ne = lo - oe, lu - r = lt - q
        PROVE  lu - (ne + r - q) = lo - oe
    BY <2>2
  <2>3. b <= ne + r - q
    BY <2>1
  <2> QED BY <2>1, <2>2, <2>3, <1>1
<1>5. \A i \in 1 .. b - 1 : i <= Len(old) /\ i <= Len(u) /\ u[i] = old[i]
  <2> TAKE i \in 1 .. b - 1
  <2>1. i \in 1 .. p - 1
    BY <1>3
  <2> QED BY <2>1, <1>2, <1>3
<1>6. \A i \in oe .. Len(old) : u[i + (ne + r - q) - oe] = old[i]
  <2> TAKE i \in oe .. Len(old)
  <2> DEFINE k == i + ne - oe
  <2>1. k \in q .. Len(t) /\ i + (ne + r - q) - oe = k + r - q
    BY <1>1, <1>2
  <2>2. t[k] = old[i]
    BY <1>2
  <2> HIDE DEF k
  <2>3. u[k + r - q] = t[k]
    BY <2>1, <1>3
  <2> QED BY <2>1, <2>2, <2>3
<1> QED BY <1>2, <1>4, <1>5, <1>6 DEF Describes

-----------------------------------------------------------------------------
(* The region of redisplay.                                                *)

\* BU characters at the beginning of T and EU at its end are those of OLD.
Covers(bu, eu, t, old) ==
  /\ bu >= 0 => \A i \in 1 .. bu : i <= Len(t) /\ i <= Len(old) /\ t[i] = old[i]
  /\ eu >= 0 =>
       \A i \in 0 .. eu - 1 :
         i < Len(t) /\ i < Len(old) /\ t[Len(t) - i] = old[Len(old) - i]
  /\ bu < 0 \/ eu < 0 => t = old

\* What buffer_signal_changed_region makes of a count X when N more are unchanged.
Shrunk(x, n) == IF x < 0 \/ x > n THEN n ELSE x

(* It stays right when a change is signaled.                               *)
LEMMA CoversChange ==
  ASSUME NEW old \in Seq(Chars), NEW t \in Seq(Chars), NEW u \in Seq(Chars),
         NEW bu \in Int, NEW eu \in Int, NEW p \in Int, NEW q \in Int, NEW r \in Int,
         Covers(bu, eu, t, old), Describes(p, q, r, t, u), q <= Len(t) + 1
  PROVE  /\ Covers(Shrunk(bu, p - 1), Shrunk(eu, Len(u) + 1 - r), u, old)
         /\ Shrunk(bu, p - 1) \in Nat /\ Shrunk(eu, Len(u) + 1 - r) \in Nat
<1> DEFINE b2 == Shrunk(bu, p - 1)
           n == Len(u) + 1 - r
           e2 == Shrunk(eu, n)
<1>1. Len(old) \in Nat /\ Len(t) \in Nat /\ Len(u) \in Nat
  OBVIOUS
<1>2. /\ 1 <= p /\ p <= q /\ p <= r /\ Len(u) - r = Len(t) - q
      /\ \A i \in 1 .. p - 1 : i <= Len(t) /\ i <= Len(u) /\ u[i] = t[i]
      /\ \A i \in q .. Len(t) : u[i + r - q] = t[i]
  BY DEF Describes
<1>3. n \in Nat /\ n = Len(t) + 1 - q
  <2>1. Len(u) - r = Len(t) - q
    BY <1>2
  <2>2. ASSUME NEW lt \in Nat, NEW lu \in Nat, q <= lt + 1, lu - r = lt - q
        PROVE  lu + 1 - r \in Nat /\ lu + 1 - r = lt + 1 - q
    BY <2>2
  <2> QED BY <2>1, <2>2, <1>1
<1>4. /\ b2 \in Nat /\ b2 <= p - 1 /\ (bu >= 0 => b2 <= bu)
      /\ e2 \in Nat /\ e2 <= n /\ (eu >= 0 => e2 <= eu)
  BY <1>2, <1>3 DEF Shrunk
<1> HIDE DEF b2, e2, n
<1>5. \A i \in 1 .. b2 : i <= Len(u) /\ i <= Len(old) /\ u[i] = old[i]
  <2> TAKE i \in 1 .. b2
  <2>1. i \in 1 .. p - 1 /\ i \in Nat
    BY <1>2, <1>4
  <2>2. i <= Len(t) /\ i <= Len(u) /\ u[i] = t[i]
    BY <2>1, <1>2
  <2>3. CASE bu < 0 \/ eu < 0
    <3>1. t = old
      BY <2>3 DEF Covers
    <3> QED BY <3>1, <2>2
  <2>4. CASE bu >= 0 /\ eu >= 0
    <3>1. i \in 1 .. bu
      BY <2>4, <1>4
    <3>2. i <= Len(old) /\ t[i] = old[i]
      BY <3>1, <2>4 DEF Covers
    <3> QED BY <3>2, <2>2
  <2> QED BY <2>3, <2>4
<1>6. \A i \in 0 .. e2 - 1 : i < Len(u) /\ i < Len(old) /\ u[Len(u) - i] = old[Len(old) - i]
  <2> TAKE i \in 0 .. e2 - 1
  <2> DEFINE k == Len(t) - i
  <2>1. /\ i \in Nat /\ i < n /\ k \in q .. Len(t) /\ k + r - q = Len(u) - i
        /\ i < Len(t) /\ i < Len(u)
    BY <1>1, <1>2, <1>3, <1>4
  <2>2. u[Len(u) - i] = t[Len(t) - i]
    <3> HIDE DEF k
    <3>1. u[k + r - q] = t[k]
      BY <2>1, <1>2
    <3> QED BY <3>1, <2>1 DEF k
  <2>3. CASE bu < 0 \/ eu < 0
    <3>1. t = old
      BY <2>3 DEF Covers
    <3> QED BY <3>1, <2>1, <2>2
  <2>4. CASE bu >= 0 /\ eu >= 0
    <3>1. i \in 0 .. eu - 1
      BY <2>4, <1>4
    <3>2. i < Len(old) /\ t[Len(t) - i] = old[Len(old) - i]
      BY <3>1, <2>4 DEF Covers
    <3> QED BY <3>2, <2>1, <2>2
  <2> QED BY <2>3, <2>4
<1>7. Covers(b2, e2, u, old)
  BY <1>4, <1>5, <1>6 DEF Covers
<1> QED BY <1>4, <1>7 DEF b2, e2, n

-----------------------------------------------------------------------------
(* The parts of the type invariant.                                        *)
LEMMA TypeParts ==
  ASSUME TypeOK
  PROVE  /\ text \in Seq(Chars) /\ seen \in Seq(Chars) /\ shown \in Seq(Chars)
         /\ Len(text) \in Nat
         /\ in_multiple_change \in Nat /\ open \in Nat /\ hookOpen \in Nat
         /\ mc \in [begin : Nat, orig_end : Nat, new_end : Int, signaled : BOOLEAN]
         /\ mc.begin \in Nat /\ mc.orig_end \in Nat /\ mc.new_end \in Int
         /\ mc.signaled \in BOOLEAN
         /\ begin_unchanged \in Int /\ end_unchanged \in Int
         /\ op \in [from : Nat, to : Nat, str : Seq(Chars)]
         /\ op.from \in Nat /\ op.to \in Nat /\ op.str \in Seq(Chars)
BY DEF TypeOK

(* Where a change that can be made is.                                     *)
LEMMA ValidParts ==
  ASSUME TypeOK, NEW c \in [from : Nat, to : Nat, str : Seq(Chars)], Valid(c, text)
  PROVE  /\ c.from \in 1 .. Len(text) + 1 /\ c.to \in c.from .. Len(text) + 1
         /\ c.str \in Seq(Chars) /\ text \in Seq(Chars) /\ Len(text) \in Nat
         /\ Len(c.str) \in Nat /\ c.from \in Nat /\ c.to \in Nat
         /\ c.from \in Int /\ c.to \in Int
         /\ 1 <= c.from /\ c.from <= c.to /\ c.to <= Len(text) + 1
<1>1. text \in Seq(Chars) /\ Len(text) \in Nat
  BY TypeParts
<1>2. c.from \in Nat /\ c.to \in Nat /\ c.str \in Seq(Chars) /\ Len(c.str) \in Nat
  OBVIOUS
<1>3. 1 <= c.from /\ c.from <= c.to /\ c.to <= Len(text) + 1
  BY DEF Valid
<1> QED BY <1>1, <1>2, <1>3

(* The initial state.                                                      *)
LEMMA InitInv == ASSUME Init PROVE IInv
<1>1. text \in Seq(Chars) /\ << >> \in Seq(Chars)
  BY ChangeSessionAssumption DEF Init, ChangeSessionAssumption
<1>2. TypeOK
  <2>1. mc \in [begin : Nat, orig_end : Nat, new_end : Int, signaled : BOOLEAN]
    BY DEF Init, NoSession, Bounds
  <2>2. op \in [from : Nat, to : Nat, str : Seq(Chars)]
    BY <1>1 DEF Init, NoChange, Change
  <2>3. seen \in Seq(Chars) /\ shown \in Seq(Chars)
    BY <1>1 DEF Init
  <2>4. /\ in_multiple_change \in Nat /\ open \in Nat /\ hookOpen \in Nat
        /\ begin_unchanged \in Int /\ end_unchanged \in Int
    BY DEF Init
  <2>5. /\ phase \in {"run", "before", "after", "begin", "abort"}
        /\ todo \in {"run", "before", "begin"} /\ owner \in {"none", "program", "hook"}
        /\ pending \in BOOLEAN /\ meddled \in BOOLEAN /\ told \in BOOLEAN /\ blurred \in BOOLEAN
    BY DEF Init
  <2> QED BY <1>1, <2>1, <2>2, <2>3, <2>4, <2>5 DEF TypeOK
<1>3. OpInv
  BY DEF Init, OpInv, NoChange, Change
<1>4. OwnerInv /\ SignalInv /\ BoundsInv
  BY DEF Init, OwnerInv, SignalInv, BoundsInv, Active, NoSession, Bounds
<1>5. RegionCovers
  BY DEF Init, RegionCovers
<1>6. told /\ AssertionsHold
  BY DEF Init, AssertionsHold
<1> QED BY <1>2, <1>3, <1>4, <1>5, <1>6 DEF IInv

-----------------------------------------------------------------------------
(* Telling of changes.                                                     *)

(* Redisplay is told of a change from P to Q that makes the text U.        *)
LEMMA RegionStep ==
  ASSUME TypeOK, RegionCovers, NEW u \in Seq(Chars),
         NEW p \in Int, NEW q \in Int, NEW r \in Int,
         Describes(p, q, r, text, u), q <= Len(text) + 1,
         buffer_signal_changed_region(p, r, u), text' = u, shown' = shown,
         blurred => blurred'
  PROVE  begin_unchanged' \in Int /\ end_unchanged' \in Int /\ RegionCovers'
<1>1. /\ begin_unchanged' = Shrunk(begin_unchanged, p - 1)
      /\ end_unchanged' = Shrunk(end_unchanged, Len(u) + 1 - r)
  BY DEF buffer_signal_changed_region, Shrunk
<1>2. begin_unchanged' \in Int /\ end_unchanged' \in Int
  BY TypeParts DEF buffer_signal_changed_region
<1>3. ASSUME ~blurred
      PROVE  Covers(begin_unchanged', end_unchanged', u, shown)
  <2>1. Covers(begin_unchanged, end_unchanged, text, shown)
    BY <1>3 DEF RegionCovers, Covers
  <2>2. Covers(Shrunk(begin_unchanged, p - 1), Shrunk(end_unchanged, Len(u) + 1 - r), u, shown)
    BY <2>1, TypeParts, CoversChange
  <2> QED BY <2>2, <1>1
<1>4. RegionCovers'
  BY <1>3 DEF RegionCovers, Covers
<1> QED BY <1>2, <1>4

(* A session is called off or finished.                                    *)
LEMMA CancelStep ==
  ASSUME IInv, NEW next \in {"run", "before", "begin"}, cancel_multiple_change(next),
         text' = text, shown' = shown
  PROVE  /\ mc' = NoSession
         /\ phase' = next \/ (phase' = "after" /\ todo' = next)
         /\ todo' \in {todo, next}
         /\ begin_unchanged' \in Int /\ end_unchanged' \in Int
         /\ told' /\ told' \in BOOLEAN /\ blurred' \in BOOLEAN
         /\ seen' = << >> /\ pending' = FALSE /\ meddled' = FALSE
         /\ RegionCovers'
<1>1. mc' = NoSession /\ seen' = << >> /\ pending' = FALSE /\ meddled' = FALSE
  BY DEF cancel_multiple_change
<1>2. TypeOK /\ RegionCovers /\ told /\ blurred \in BOOLEAN /\ meddled \in BOOLEAN
  BY DEF IInv, TypeOK
<1>3. CASE ~ (Active /\ mc.signaled)
  <2>1. phase' = next /\ UNCHANGED <<region, todo, told, blurred>>
    BY <1>3 DEF cancel_multiple_change
  <2>2. RegionCovers'
    BY <2>1, <1>2 DEF RegionCovers, region
  <2> QED BY <1>1, <1>2, <2>1, <2>2, TypeParts DEF region, TypeOK
<1>4. CASE Active /\ mc.signaled
  <2>1. CallAfter(mc.begin, mc.orig_end, mc.new_end, seen, text, ~meddled, next)
    BY <1>4 DEF cancel_multiple_change
  <2>2. /\ buffer_signal_changed_region(mc.begin, mc.new_end, text)
        /\ phase' = "after" /\ todo' = next
        /\ told' = (~meddled => Describes(mc.begin, mc.orig_end, mc.new_end, seen, text))
        /\ blurred' = (blurred \/ ~~meddled)
    BY <2>1 DEF CallAfter
  <2>3. owner = "program"
    BY <1>4, TypeParts DEF IInv, OwnerInv, SignalInv, TypeOK
  <2>4. ~meddled =>
          /\ mc.begin <= mc.new_end /\ mc.new_end <= Len(text) + 1
          /\ Describes(mc.begin, mc.orig_end, mc.new_end, seen, text)
    BY <1>4, <2>3 DEF IInv, BoundsInv
  <2>5. told' /\ told' \in BOOLEAN /\ blurred' \in BOOLEAN
    BY <2>2, <2>4, <1>2
  <2>6. begin_unchanged' \in Int /\ end_unchanged' \in Int
    <3>1. /\ begin_unchanged \in Int /\ end_unchanged \in Int /\ mc.begin \in Nat
          /\ mc.new_end \in Int /\ Len(text) \in Nat
      BY <1>2, TypeParts
    <3> QED BY <3>1, <2>2 DEF buffer_signal_changed_region
  <2>7. RegionCovers'
    <3>1. CASE meddled
      BY <3>1, <2>2 DEF RegionCovers
    <3>2. CASE ~meddled
      <4>1. 1 <= mc.begin
        BY <1>4, <1>2, TypeParts DEF Active
      <4>2. Describes(mc.begin, mc.new_end, mc.new_end, text, text)
        BY <4>1, <2>4, <3>2, <1>2, TypeParts, SameDescribed
      <4>3. blurred => blurred'
        BY <2>2
      <4> QED BY <4>2, <4>3, <2>2, <2>4, <3>2, <1>2, TypeParts, RegionStep
    <3> QED BY <3>1, <3>2
  <2> QED BY <1>1, <2>2, <2>5, <2>6, <2>7
<1> QED BY <1>3, <1>4

(* A change is made.                                                       *)
LEMMA MakeStep ==
  ASSUME IInv, NEW c \in [from : Nat, to : Nat, str : Seq(Chars)], Valid(c, text),
         NEW bounds, Make(c, bounds), shown' = shown
  PROVE  /\ text' \in Seq(Chars) /\ Len(text') - NewEnd(c) = Len(text) - c.to
         /\ Describes(c.from, c.to, NewEnd(c), text, text')
         /\ begin_unchanged' \in Int /\ end_unchanged' \in Int
         /\ told' /\ told' \in BOOLEAN /\ blurred' \in BOOLEAN
         /\ RegionCovers'
<1>1. TypeOK /\ RegionCovers /\ told /\ told \in BOOLEAN /\ blurred \in BOOLEAN
  BY DEF IInv, TypeOK
<1>2. /\ c.from \in 1 .. Len(text) + 1 /\ c.to \in c.from .. Len(text) + 1
      /\ c.str \in Seq(Chars) /\ text \in Seq(Chars) /\ Len(text) \in Nat /\ Len(c.str) \in Nat
      /\ c.from \in Int /\ c.to \in Int /\ c.to <= Len(text) + 1
  BY <1>1, ValidParts
<1>3. /\ Changed(c) \in Seq(Chars)
      /\ Describes(c.from, c.to, NewEnd(c), text, Changed(c))
  BY <1>2, ChangeDescribed DEF Changed, NewEnd
<1>4. NewEnd(c) \in Int
  BY <1>2 DEF NewEnd
<1>5. text' = Changed(c) /\ buffer_signal_changed_region(c.from, NewEnd(c), Changed(c))
  BY DEF Make, CallAfter
<1>6. blurred' = blurred /\ told'
  BY <1>1, <1>3 DEF Make, CallAfter
<1>7. told' \in BOOLEAN
  BY <1>1 DEF Make, CallAfter
<1>8. begin_unchanged' \in Int /\ end_unchanged' \in Int /\ RegionCovers'
  BY <1>1, <1>2, <1>3, <1>4, <1>5, <1>6, RegionStep
<1>9. Len(Changed(c)) - NewEnd(c) = Len(text) - c.to
  BY <1>3 DEF Describes
<1> QED BY <1>1, <1>3, <1>5, <1>6, <1>7, <1>8, <1>9

-----------------------------------------------------------------------------
(* Sessions of the program.                                                *)

(* The empty session and change are well formed.                           *)
LEMMA NothingTyped ==
  /\ NoSession \in [begin : Nat, orig_end : Nat, new_end : Int, signaled : BOOLEAN]
  /\ NoSession.begin = 0
  /\ NoChange \in [from : Nat, to : Nat, str : Seq(Chars)]
  /\ NoChange.from = 1 /\ NoChange.to = 1 /\ NoChange.str = << >>
BY DEF NoSession, Bounds, NoChange, Change

(* The outermost session is finished.                                      *)
LEMMA FinishStep ==
  ASSUME IInv, multiple_change_finish_up, text' = text, shown' = shown,
         open' = 0, hookOpen' = 0, op' = op \/ op' = NoChange
  PROVE  IInv'
<1>1. TypeOK /\ OpInv
  BY DEF IInv
<1>2. owner' = "none" /\ in_multiple_change' = 0 /\ cancel_multiple_change("run")
  BY DEF multiple_change_finish_up
<1>3. /\ mc' = NoSession
      /\ phase' = "run" \/ (phase' = "after" /\ todo' = "run")
      /\ todo' \in {todo, "run"}
      /\ begin_unchanged' \in Int /\ end_unchanged' \in Int
      /\ told' /\ told' \in BOOLEAN /\ blurred' \in BOOLEAN
      /\ seen' = << >> /\ pending' = FALSE /\ meddled' = FALSE
      /\ RegionCovers'
  BY <1>2, CancelStep
<1>4. op' \in [from : Nat, to : Nat, str : Seq(Chars)]
  BY <1>1, TypeParts, NothingTyped
<1>5. mc' \in [begin : Nat, orig_end : Nat, new_end : Int, signaled : BOOLEAN] /\ mc'.begin = 0
  BY <1>3, NothingTyped
<1>6. text' \in Seq(Chars) /\ shown' \in Seq(Chars) /\ seen' \in Seq(Chars)
  BY <1>1, <1>3, TypeParts
<1>7. todo' \in {"run", "before", "begin"}
  BY <1>1, <1>3 DEF TypeOK
<1>8. TypeOK'
  BY <1>2, <1>3, <1>4, <1>5, <1>6, <1>7 DEF TypeOK
<1>9. OpInv'
  BY <1>1, NothingTyped DEF OpInv
<1>10. OwnerInv'
  BY <1>2, <1>3, <1>5 DEF OwnerInv, Active
<1>11. SignalInv' /\ BoundsInv'
  BY <1>2, <1>3, <1>5 DEF SignalInv, BoundsInv, Active
<1>12. AssertionsHold'
  BY <1>3 DEF AssertionsHold
<1> QED BY <1>3, <1>8, <1>9, <1>10, <1>11, <1>12 DEF IInv

(* A session is called off, and what comes then is NEXT.                   *)
LEMMA CallOffStep ==
  ASSUME IInv, owner = "program", phase = "run",
         NEW next \in {"run", "before", "begin"}, cancel_multiple_change(next),
         text' = text, shown' = shown, op' \in [from : Nat, to : Nat, str : Seq(Chars)], OpInv',
         UNCHANGED <<in_multiple_change, open, hookOpen, owner>>
  PROVE  IInv'
<1>1. TypeOK
  BY DEF IInv
<1>2. /\ mc' = NoSession
      /\ phase' = next \/ (phase' = "after" /\ todo' = next)
      /\ todo' \in {todo, next}
      /\ begin_unchanged' \in Int /\ end_unchanged' \in Int
      /\ told' /\ told' \in BOOLEAN /\ blurred' \in BOOLEAN
      /\ seen' = << >> /\ pending' = FALSE /\ meddled' = FALSE
      /\ RegionCovers'
  BY CancelStep
<1>3. mc' \in [begin : Nat, orig_end : Nat, new_end : Int, signaled : BOOLEAN] /\ mc'.begin = 0
  BY <1>2, NothingTyped
<1>4. text' \in Seq(Chars) /\ shown' \in Seq(Chars) /\ seen' \in Seq(Chars)
  BY <1>1, <1>2, TypeParts
<1>5. phase' \in {"run", "before", "after", "begin", "abort"} /\ todo' \in {"run", "before", "begin"}
  BY <1>1, <1>2 DEF TypeOK
<1>6. /\ in_multiple_change' \in Nat /\ open' \in Nat /\ hookOpen' \in Nat
      /\ owner' \in {"none", "program", "hook"}
  BY <1>1 DEF TypeOK
<1>7. TypeOK'
  BY <1>2, <1>3, <1>4, <1>5, <1>6 DEF TypeOK
<1>8. OwnerInv'
  <2>1. hookOpen = 0
    BY <1>1, TypeParts, SMTT(30) DEF IInv, OwnerInv
  <2> QED BY <2>1, <1>1, TypeParts DEF IInv, OwnerInv
<1>9. SignalInv' /\ BoundsInv'
  BY <1>2, <1>3 DEF SignalInv, BoundsInv, Active
<1>10. AssertionsHold'
  BY <1>2 DEF AssertionsHold
<1> QED BY <1>2, <1>7, <1>8, <1>9, <1>10 DEF IInv

(* Nothing that the invariant is about changes but the counts.             *)
LEMMA CountStep ==
  ASSUME IInv, UNCHANGED <<text, mc, region, op, owner, history>>,
         phase' \in {phase, "run"},
         todo' = todo, phase # "abort",
         in_multiple_change' \in Nat, open' \in Nat, hookOpen' \in Nat, OwnerInv'
  PROVE  IInv'
<1>1. TypeOK'
  BY DEF IInv, TypeOK, region, history
<1>2. OpInv'
  BY DEF IInv, OpInv
<1>3. SignalInv'
  BY DEF IInv, SignalInv, Active, history
<1>4. BoundsInv'
  BY DEF IInv, BoundsInv, Active, history, Describes, Real
<1>5. RegionCovers'
  BY DEF IInv, RegionCovers, region, history
<1>6. told' /\ AssertionsHold'
  BY DEF IInv, AssertionsHold, history
<1> QED BY <1>1, <1>2, <1>3, <1>4, <1>5, <1>6 DEF IInv

(* The counts of a session that is the program's.                          *)
LEMMA ProgramCounts ==
  ASSUME owner' = "program", hookOpen' = 0,
         in_multiple_change' \in Nat, open' \in Nat,
         in_multiple_change' > 0, in_multiple_change' >= open'
  PROVE  OwnerInv'
<1>1. \A n \in Nat : 0 + n = n
  OBVIOUS
<1>2. ~ (hookOpen' > 0)
  OBVIOUS
<1> QED BY <1>1, <1>2 DEF OwnerInv

(* What the counts are when the program runs in a session of its own.      *)
LEMMA ProgramRuns ==
  ASSUME IInv, owner = "program", phase \notin {"before", "after"}
  PROVE  hookOpen = 0 /\ in_multiple_change > 0 /\ in_multiple_change >= open
<1>1. hookOpen \in Nat /\ open \in Nat /\ in_multiple_change \in Nat
  BY TypeParts DEF IInv
<1>2. hookOpen = 0
  BY <1>1 DEF IInv, OwnerInv
<1>3. in_multiple_change > hookOpen /\ in_multiple_change >= hookOpen + open
  BY DEF IInv, OwnerInv
<1> QED BY <1>1, <1>2, <1>3

(* The program begins a session.                                           *)
LEMMA BeginStep ==
  ASSUME IInv, NEW s \in Places, NEW e \in Places, s <= e, begin_multiple_change(s, e)
  PROVE  IInv'
<1>1. TypeOK /\ phase = "run" /\ UNCHANGED <<text, op, hookOpen>>
  BY DEF IInv, begin_multiple_change
<1>2. hookOpen = 0
  BY <1>1, TypeParts DEF IInv, OwnerInv
<1>3. CASE /\ in_multiple_change = 0
           /\ in_multiple_change' = 1 /\ mc' = Bounds(s, e, e, FALSE)
           /\ open' = open + 1 /\ owner' = "program"
           /\ UNCHANGED <<region, phase, todo, history>>
  <2>1. owner = "none" /\ open = 0 /\ ~Active
    BY <1>1, <1>3, TypeParts DEF IInv, OwnerInv, TypeOK
  <2>2. s \in Nat /\ e \in Nat /\ 1 <= s /\ s <= e /\ e <= Len(text) + 1 /\ Len(text) \in Nat
    BY <1>1, TypeParts DEF Places
  <2>3. /\ mc' \in [begin : Nat, orig_end : Nat, new_end : Int, signaled : BOOLEAN]
        /\ mc'.begin = s /\ mc'.orig_end = e /\ mc'.new_end = e /\ mc'.signaled = FALSE
    BY <1>3, <2>2 DEF Bounds
  <2>4. TypeOK'
    <3>1. in_multiple_change' \in Nat /\ open' \in Nat /\ hookOpen' \in Nat
      BY <1>1, <1>2, <1>3, <2>1
    <3>2. owner' \in {"none", "program", "hook"}
      BY <1>3
    <3> QED BY <1>1, <1>3, <2>3, <3>1, <3>2 DEF TypeOK, region, history
  <2>5. OpInv'
    BY <1>1 DEF IInv, OpInv
  <2>6. OwnerInv'
    BY <1>1, <1>2, <1>3, <2>1, ProgramCounts
  <2>7. SignalInv'
    BY <1>1, <1>3, <2>1 DEF IInv, SignalInv, history
  <2>8. BoundsInv'
    BY <1>1, <1>3, <2>2, <2>3 DEF BoundsInv
  <2>9. RegionCovers'
    BY <1>1, <1>3 DEF IInv, RegionCovers, region, history
  <2>10. told' /\ AssertionsHold'
    BY <1>1, <1>3 DEF IInv, AssertionsHold, history
  <2> QED BY <2>4, <2>5, <2>6, <2>7, <2>8, <2>9, <2>10 DEF IInv
<1>4. CASE /\ in_multiple_change > 0 /\ ~Outside(s, e)
           /\ in_multiple_change' = in_multiple_change + 1 /\ open' = open + 1
           /\ UNCHANGED <<mc, region, phase, todo, owner, history>>
  <2>1. owner = "program"
    BY <1>1, <1>2, <1>4, TypeParts DEF IInv, OwnerInv, TypeOK
  <2>2. OwnerInv'
    <3>1. in_multiple_change > 0 /\ in_multiple_change >= open
      BY <1>1, <2>1, ProgramRuns
    <3>2. in_multiple_change \in Nat /\ open \in Nat
      BY <1>1, TypeParts
    <3> QED BY <1>1, <1>2, <1>4, <2>1, <3>1, <3>2, ProgramCounts
  <2>3. in_multiple_change' \in Nat /\ open' \in Nat /\ hookOpen' \in Nat
    <3>1. in_multiple_change \in Nat /\ open \in Nat /\ hookOpen \in Nat
      BY <1>1, TypeParts
    <3> QED BY <1>1, <1>4, <3>1
  <2> QED BY <1>1, <1>4, <2>2, <2>3, CountStep
<1>5. CASE /\ in_multiple_change > 0 /\ Outside(s, e)
           /\ cancel_multiple_change("begin")
           /\ UNCHANGED <<in_multiple_change, open, owner, shown>>
  <2>1. owner = "program"
    BY <1>1, <1>2, <1>5, TypeParts DEF IInv, OwnerInv, TypeOK
  <2>2. OpInv' /\ op' \in [from : Nat, to : Nat, str : Seq(Chars)]
    BY <1>1, TypeParts DEF IInv, OpInv
  <2> QED BY <1>1, <1>5, <2>1, <2>2, CallOffStep
<1> QED BY <1>3, <1>4, <1>5 DEF begin_multiple_change

(* The rest of begin_multiple_change.                                      *)
LEMMA BegunStep == ASSUME IInv, Begun PROVE IInv'
<1>1. TypeOK /\ phase = "begin" /\ phase' = "run"
  BY DEF IInv, Begun
<1>2. owner = "program" /\ hookOpen = 0
  BY <1>1, TypeParts DEF IInv, OwnerInv
<1>3. OwnerInv'
  <2>1. in_multiple_change > 0 /\ in_multiple_change >= open
    BY <1>1, <1>2, ProgramRuns
  <2>2. in_multiple_change \in Nat /\ open \in Nat
    BY <1>1, TypeParts
  <2>3. /\ in_multiple_change' = in_multiple_change + 1 /\ open' = open + 1
        /\ hookOpen' = hookOpen /\ owner' = owner
    BY DEF Begun
  <2> QED BY <1>2, <2>1, <2>2, <2>3, ProgramCounts
<1>4. in_multiple_change' \in Nat /\ open' \in Nat /\ hookOpen' \in Nat
  <2>1. in_multiple_change \in Nat /\ open \in Nat /\ hookOpen \in Nat
    BY <1>1, TypeParts
  <2> QED BY <2>1 DEF Begun
<1> QED BY <1>1, <1>3, <1>4, CountStep DEF Begun

(* The program ends a session.                                             *)
LEMMA EndStep == ASSUME IInv, end_multiple_change PROVE IInv'
<1>1. /\ TypeOK /\ phase = "run" /\ open > 0 /\ open' = open - 1
      /\ UNCHANGED <<text, op, hookOpen>>
  BY DEF IInv, end_multiple_change
<1>2. owner = "program" /\ hookOpen = 0 /\ in_multiple_change >= open
  BY <1>1, TypeParts DEF IInv, OwnerInv, TypeOK
<1>3. CASE in_multiple_change = 1 /\ multiple_change_finish_up /\ UNCHANGED shown
  <2>1. open' = 0 /\ hookOpen' = 0
    BY <1>1, <1>2, <1>3, TypeParts
  <2> QED BY <1>1, <1>3, <2>1, FinishStep
<1>4. CASE /\ in_multiple_change > 1
           /\ in_multiple_change' = in_multiple_change - 1
           /\ UNCHANGED <<mc, region, phase, todo, owner, history>>
  <2>1. OwnerInv'
    <3>1. in_multiple_change \in Nat /\ open \in Nat
      BY <1>1, TypeParts
    <3> QED BY <1>1, <1>2, <1>4, <3>1, ProgramCounts
  <2>2. in_multiple_change' \in Nat /\ open' \in Nat /\ hookOpen' \in Nat
    <3>1. in_multiple_change \in Nat /\ open \in Nat /\ hookOpen \in Nat
      BY <1>1, TypeParts
    <3> QED BY <1>1, <1>4, <3>1
  <2> QED BY <1>1, <1>4, <2>1, <2>2, CountStep
<1> QED BY <1>3, <1>4 DEF end_multiple_change

(* An error takes the program out of sessions.                             *)
LEMMA ThrowStep == ASSUME IInv, NEW k \in 0 .. open, Throw(k) PROVE IInv'
<1>1. /\ TypeOK /\ phase \in {"run", "before", "after"}
      /\ open' = k /\ hookOpen' = 0 /\ op' = NoChange /\ text' = text
  BY DEF IInv, Throw
<1>2. k \in Nat /\ k <= open
  BY <1>1, TypeParts
<1>3. CASE /\ (owner = "program" /\ k = 0) \/ owner = "hook"
           /\ multiple_change_finish_up /\ UNCHANGED shown
  <2>1. k = 0
    BY <1>1, <1>2, <1>3, TypeParts DEF IInv, OwnerInv
  <2> QED BY <1>1, <1>3, <2>1, FinishStep
<1>4. CASE /\ ~ ((owner = "program" /\ k = 0) \/ owner = "hook")
           /\ phase' = "run" /\ UNCHANGED <<session, region, todo, owner, history>>
  <2>1. TypeOK'
    BY <1>1, <1>2, <1>4, NothingTyped DEF TypeOK, session, region, history
  <2>2. OpInv'
    BY <1>1, NothingTyped DEF OpInv
  <2>3. OwnerInv'
    BY <1>1, <1>2, <1>4, TypeParts DEF IInv, OwnerInv, session, Active, TypeOK
  <2>4. SignalInv'
    BY <1>4 DEF IInv, SignalInv, session, history, Active
  <2>5. BoundsInv'
    BY <1>1, <1>4 DEF IInv, BoundsInv, session, history, Active, Describes
  <2>6. RegionCovers'
    BY <1>1, <1>4 DEF IInv, RegionCovers, region, history
  <2>7. told' /\ AssertionsHold'
    BY <1>4 DEF IInv, AssertionsHold, history
  <2> QED BY <2>1, <2>2, <2>3, <2>4, <2>5, <2>6, <2>7 DEF IInv
<1> QED BY <1>1, <1>3, <1>4 DEF Throw

(* What is left on the stack is unwound.                                   *)
LEMMA ReturnStep == ASSUME IInv, Return PROVE IInv'
<1>1. /\ TypeOK /\ phase = "run" /\ open' = 0 /\ multiple_change_finish_up
      /\ UNCHANGED <<text, op, hookOpen, shown>>
  BY DEF IInv, Return
<1>2. hookOpen' = 0
  BY <1>1, TypeParts DEF IInv, OwnerInv
<1> QED BY <1>1, <1>2, FinishStep

-----------------------------------------------------------------------------
(* Changes.                                                                *)

\* A change as Modify and HookChange make them.
Proper(c) == Valid(c, text) /\ Real(c) /\ (c.str # << >> => c.to <= c.from + 1)

(* The changes that Next offers are proper.                                *)
LEMMA ChangesProper ==
  ASSUME TypeOK, NEW c \in {d \in Changes : d.from <= d.to /\ Real(d)}
  PROVE  c \in [from : Nat, to : Nat, str : Seq(Chars)] /\ Proper(c)
<1>1. Len(text) \in Nat /\ << >> \in Seq(Chars)
  BY TypeParts
<1>2. Strings \subseteq Seq(Chars)
  BY ChangeSessionAssumption DEF ChangeSessionAssumption
<1>3. c \in Changes /\ c.from <= c.to /\ Real(c)
  OBVIOUS
<1>4. CASE c \in {Change(p, p, s) : p \in Places, s \in Strings}
  <2>1. PICK p \in Places, s \in Strings : c = Change(p, p, s)
    BY <1>4
  <2>2. p \in Nat /\ 1 <= p /\ p <= Len(text) + 1 /\ s \in Seq(Chars)
    BY <1>1, <1>2 DEF Places
  <2>3. c \in [from : Nat, to : Nat, str : Seq(Chars)] /\ c.from = p /\ c.to = p /\ c.str = s
    BY <2>1, <2>2 DEF Change
  <2> QED BY <1>3, <2>2, <2>3 DEF Proper, Valid
<1>5. CASE c \in {Change(p, q, << >>) : p \in Places, q \in Places}
  <2>1. PICK p \in Places, q \in Places : c = Change(p, q, << >>)
    BY <1>5
  <2>2. p \in Nat /\ q \in Nat /\ 1 <= p /\ q <= Len(text) + 1
    BY <1>1 DEF Places
  <2>3. /\ c \in [from : Nat, to : Nat, str : Seq(Chars)]
        /\ c.from = p /\ c.to = q /\ c.str = << >>
    BY <1>1, <2>1, <2>2 DEF Change
  <2> QED BY <1>3, <2>2, <2>3 DEF Proper, Valid
<1>6. CASE c \in {Change(p, p + 1, s) : p \in 1 .. Len(text), s \in {t \in Strings : Len(t) = 1}}
  <2>1. PICK p \in 1 .. Len(text), s \in {t \in Strings : Len(t) = 1} : c = Change(p, p + 1, s)
    BY <1>6
  <2>2. /\ p \in Nat /\ p + 1 \in Nat /\ 1 <= p /\ p + 1 <= Len(text) + 1 /\ p + 1 <= p + 1
        /\ s \in Seq(Chars)
    BY <1>1, <1>2
  <2>3. c \in [from : Nat, to : Nat, str : Seq(Chars)] /\ c.from = p /\ c.to = p + 1 /\ c.str = s
    BY <2>1, <2>2 DEF Change
  <2> QED BY <1>3, <2>2, <2>3 DEF Proper, Valid
<1> QED BY <1>3, <1>4, <1>5, <1>6 DEF Changes

(* A session that is open while the program runs is the program's.         *)
LEMMA ActiveOwner ==
  ASSUME IInv, Active, hookOpen = 0
  PROVE  owner = "program"
BY DEF IInv, OwnerInv, TypeOK

(* A change is made in the program's session.                              *)
LEMMA SessionStep ==
  ASSUME IInv, Active, owner = "program", hookOpen = 0,
         NEW c \in [from : Nat, to : Nat, str : Seq(Chars)], Valid(c, text),
         Make(c, [mc EXCEPT !.signaled = TRUE]), seen' \in Seq(Chars),
         ~meddled => /\ Describes(mc.begin, mc.orig_end, mc.new_end, seen', text)
                     /\ mc.new_end <= Len(text) + 1
                     /\ mc.begin <= c.from /\ c.to <= mc.new_end,
         op' \in [from : Nat, to : Nat, str : Seq(Chars)], OpInv',
         UNCHANGED <<in_multiple_change, open, hookOpen, owner, meddled, shown>>
  PROVE  IInv'
<1>1. /\ TypeOK /\ meddled \in BOOLEAN
      /\ text \in Seq(Chars) /\ Len(text) \in Nat /\ shown \in Seq(Chars)
      /\ mc \in [begin : Nat, orig_end : Nat, new_end : Int, signaled : BOOLEAN]
      /\ mc.begin \in Nat /\ mc.orig_end \in Nat /\ mc.new_end \in Int
  BY TypeParts DEF IInv, TypeOK
<1>2. /\ text' \in Seq(Chars) /\ Len(text') - NewEnd(c) = Len(text) - c.to
      /\ Describes(c.from, c.to, NewEnd(c), text, text')
      /\ begin_unchanged' \in Int /\ end_unchanged' \in Int
      /\ told' /\ told' \in BOOLEAN /\ blurred' \in BOOLEAN
      /\ RegionCovers'
  BY MakeStep
<1>3. /\ phase' = IF mc.begin <= c.from /\ c.to <= mc.new_end THEN "run" ELSE "abort"
      /\ mc' = [[mc EXCEPT !.signaled = TRUE] EXCEPT !.new_end = @ + NewEnd(c) - c.to]
      /\ pending' = TRUE /\ todo' = todo
  BY DEF Make
<1>4. c.from \in Nat /\ c.to \in Nat /\ Len(c.str) \in Nat /\ NewEnd(c) \in Int
  BY DEF NewEnd
<1>5. /\ mc' \in [begin : Nat, orig_end : Nat, new_end : Int, signaled : BOOLEAN]
      /\ mc'.begin = mc.begin /\ mc'.orig_end = mc.orig_end /\ mc'.signaled = TRUE
      /\ mc'.new_end = mc.new_end + NewEnd(c) - c.to
  <2> DEFINE x == [mc EXCEPT !.signaled = TRUE]
  <2>1. /\ x \in [begin : Nat, orig_end : Nat, new_end : Int, signaled : BOOLEAN]
        /\ x.begin = mc.begin /\ x.orig_end = mc.orig_end /\ x.signaled = TRUE
        /\ x.new_end = mc.new_end
    BY <1>1
  <2> HIDE DEF x
  <2>2. mc' = [x EXCEPT !.new_end = x.new_end + NewEnd(c) - c.to]
    BY <1>3 DEF x
  <2>3. x.new_end + NewEnd(c) - c.to \in Int
    BY <1>1, <1>4, <2>1
  <2> QED BY <2>1, <2>2, <2>3
<1>6. phase' \in {"run", "abort"} /\ (~meddled => phase' = "run")
  BY <1>3
<1>7. TypeOK'
  <2>1. /\ in_multiple_change' \in Nat /\ open' \in Nat /\ hookOpen' \in Nat
        /\ owner' \in {"none", "program", "hook"} /\ todo' \in {"run", "before", "begin"}
        /\ meddled' \in BOOLEAN /\ pending' \in BOOLEAN
    BY <1>1, <1>3 DEF TypeOK
  <2>2. phase' \in {"run", "before", "after", "begin", "abort"} /\ shown' \in Seq(Chars)
    BY <1>1, <1>6
  <2> QED BY <1>2, <1>5, <2>1, <2>2 DEF TypeOK
<1>8. OwnerInv'
  <2>1. /\ in_multiple_change > hookOpen /\ in_multiple_change >= hookOpen + open
        /\ in_multiple_change \in Nat /\ open \in Nat /\ hookOpen \in Nat
    BY <1>1, TypeParts DEF IInv, OwnerInv
  <2>2. in_multiple_change > 0 /\ in_multiple_change >= open
    BY <2>1
  <2> QED BY <2>1, <2>2, ProgramCounts
<1>9. SignalInv'
  <2>1. mc'.begin # 0
    BY <1>5 DEF Active
  <2> QED BY <2>1, <1>5, <1>6 DEF SignalInv, Active
<1>10. BoundsInv'
  <2>1. SUFFICES ASSUME ~meddled
                 PROVE  /\ mc'.begin <= mc'.orig_end /\ mc'.begin <= mc'.new_end
                        /\ mc'.new_end <= Len(text') + 1
                        /\ Describes(mc'.begin, mc'.orig_end, mc'.new_end, seen', text')
    BY <1>5, <1>6 DEF BoundsInv
  <2>2. Describes(mc'.begin, mc'.orig_end, mc'.new_end, seen', text')
    <3>1. mc.begin \in Nat /\ mc.orig_end \in Int /\ mc.new_end \in Int
      BY <1>1
    <3>2. c.from \in Int /\ c.to \in Int
      BY <1>4
    <3>3. Describes(mc.begin, mc.orig_end, mc.new_end + NewEnd(c) - c.to, seen', text')
      BY <1>1, <1>2, <1>4, <2>1, <3>1, <3>2, DescribedThen
    <3> QED BY <3>3, <1>5
  <2>3. mc'.begin <= mc'.orig_end /\ mc'.begin <= mc'.new_end
    BY <2>2 DEF Describes
  <2>4. mc'.new_end <= Len(text') + 1
    <3>1. Len(text') \in Nat
      BY <1>2
    <3>3. /\ mc.new_end <= Len(text) + 1 /\ Len(text') - NewEnd(c) = Len(text) - c.to
          /\ Len(text) \in Nat /\ c.to \in Nat /\ mc.new_end \in Int /\ NewEnd(c) \in Int
      BY <1>1, <1>2, <1>4, <2>1
    <3>4. mc.new_end + NewEnd(c) - c.to <= Len(text') + 1
      BY <3>1, <3>3, EndMovesAlong
    <3> QED BY <3>4, <1>5
  <2> QED BY <2>2, <2>3, <2>4
<1>11. AssertionsHold'
  BY <1>6 DEF AssertionsHold
<1> QED BY <1>2, <1>7, <1>8, <1>9, <1>10, <1>11 DEF IInv

(* The program makes a change.                                             *)
LEMMA ModifyStep ==
  ASSUME IInv, NEW c \in [from : Nat, to : Nat, str : Seq(Chars)], Proper(c), Modify(c)
  PROVE  IInv'
<1>1. /\ TypeOK /\ phase = "run"
      /\ UNCHANGED <<in_multiple_change, open, hookOpen, owner, shown>>
  BY DEF IInv, Modify
<1>2. hookOpen = 0
  BY <1>1, TypeParts, SMTT(30) DEF IInv, OwnerInv
<1>3. /\ 1 <= c.from /\ c.from <= c.to /\ (c.str # << >> => c.to <= c.from + 1)
      /\ Valid(c, text) /\ Real(c) /\ c.from \in Nat /\ c.to \in Nat
  BY <1>1, ValidParts DEF Proper
<1>4. CASE Outside(c.from, c.to) /\ op' = c /\ cancel_multiple_change("before") /\ UNCHANGED text
  <2>1. owner = "program"
    BY <1>2, <1>4, ActiveOwner DEF Outside
  <2>2. OpInv' /\ op' \in [from : Nat, to : Nat, str : Seq(Chars)]
    BY <1>3, <1>4 DEF OpInv
  <2> QED BY <1>1, <1>4, <2>1, <2>2, CallOffStep
<1>5. CASE /\ Active /\ ~Outside(c.from, c.to) /\ mc.signaled
           /\ Make(c, mc) /\ UNCHANGED <<op, seen, meddled>>
  <2>1. owner = "program"
    BY <1>2, <1>5, ActiveOwner
  <2>2. /\ mc \in [begin : Nat, orig_end : Nat, new_end : Int, signaled : BOOLEAN]
        /\ mc.begin \in Nat /\ mc.new_end \in Int /\ seen \in Seq(Chars)
        /\ op \in [from : Nat, to : Nat, str : Seq(Chars)]
    BY <1>1, TypeParts
  <2>3. mc = [mc EXCEPT !.signaled = TRUE]
    BY <1>5, <2>2
  <2>4. Make(c, [mc EXCEPT !.signaled = TRUE])
    BY <1>5, <2>3
  <2>5. mc.begin <= c.from /\ c.to <= mc.new_end
    BY <1>3, <1>5, <2>2 DEF Outside
  <2>6. ~meddled => /\ Describes(mc.begin, mc.orig_end, mc.new_end, seen', text)
                    /\ mc.new_end <= Len(text) + 1
    BY <1>5, <2>1 DEF IInv, BoundsInv
  <2>7. OpInv' /\ op' \in [from : Nat, to : Nat, str : Seq(Chars)] /\ seen' \in Seq(Chars)
    BY <1>5, <2>2 DEF IInv, OpInv
  <2> QED BY <1>1, <1>2, <1>3, <1>5, <2>1, <2>4, <2>5, <2>6, <2>7, SessionStep
<1>6. CASE /\ ~Outside(c.from, c.to) /\ ~ (Active /\ mc.signaled)
           /\ op' = c /\ phase' = "before"
           /\ UNCHANGED <<text, mc, region, todo, seen, pending, meddled, told, blurred>>
  <2>1. TypeOK'
    BY <1>1, <1>6 DEF TypeOK, region
  <2>2. OpInv'
    BY <1>3, <1>6 DEF OpInv
  <2>3. OwnerInv'
    BY <1>1, <1>2, <1>6 DEF IInv, OwnerInv, Active
  <2>4. SignalInv'
    BY <1>6 DEF IInv, SignalInv, Active
  <2>5. BoundsInv'
    <3>1. SUFFICES ASSUME Active, owner = "program", ~meddled
                   PROVE  /\ mc.begin <= mc.orig_end /\ mc.begin <= mc.new_end
                          /\ mc.new_end <= Len(text) + 1 /\ mc.orig_end = mc.new_end
                          /\ mc.begin <= c.from /\ c.to <= mc.new_end /\ Real(c)
      BY <1>1, <1>6 DEF BoundsInv, Active, Real
    <3>2. ~mc.signaled
      BY <1>6, <3>1
    <3>3. mc.begin \in Nat /\ mc.new_end \in Int
      BY <1>1, TypeParts
    <3>4. mc.begin <= c.from /\ c.to <= mc.new_end
      BY <1>3, <1>6, <3>1, <3>3 DEF Outside
    <3> QED BY <1>3, <3>1, <3>2, <3>4 DEF IInv, BoundsInv
  <2>6. RegionCovers'
    BY <1>1, <1>6 DEF IInv, RegionCovers, region
  <2>7. told' /\ AssertionsHold'
    BY <1>6 DEF IInv, AssertionsHold
  <2> QED BY <2>1, <2>2, <2>3, <2>4, <2>5, <2>6, <2>7 DEF IInv
<1> QED BY <1>4, <1>5, <1>6 DEF Modify

(* What the change functions have left of the change in progress is valid, *)
(* and it is the change itself if that still fits in the text.             *)
LEMMA ClippedIs ==
  ASSUME TypeOK, OpInv
  PROVE  /\ Clipped(op) \in [from : Nat, to : Nat, str : Seq(Chars)]
         /\ Real(Clipped(op)) => Valid(Clipped(op), text)
         /\ op.to <= Len(text) + 1 => Clipped(op) = op
<1>1. /\ Len(text) \in Nat /\ op.from \in Nat /\ op.to \in Nat /\ op.str \in Seq(Chars)
      /\ op \in [from : Nat, to : Nat, str : Seq(Chars)]
  BY TypeParts
<1>2. 1 <= op.from /\ op.from <= op.to /\ (op.str # << >> => op.to <= op.from + 1)
  BY DEF OpInv
<1>3. op = Change(op.from, op.to, op.str)
  BY <1>1 DEF Change
<1>4. CASE op.str # << >> /\ op.from < op.to
  <2> DEFINE p == IF op.from >= Len(text) + 1 THEN Len(text) + 1 - 1 ELSE op.from
  <2>1. Clipped(op) = Change(p, p + 1, op.str)
    BY <1>4 DEF Clipped
  <2>2. /\ p \in Nat /\ p + 1 <= Len(text) + 1 /\ p <= p + 1 /\ p + 1 \in Nat
        /\ op.to <= Len(text) + 1 => p = op.from /\ p + 1 = op.to
    BY <1>1, <1>2, <1>4
  <2> HIDE DEF p
  <2>3. /\ Clipped(op) \in [from : Nat, to : Nat, str : Seq(Chars)]
        /\ Clipped(op).from = p /\ Clipped(op).to = p + 1
    BY <1>1, <2>1, <2>2 DEF Change
  <2>4. Real(Clipped(op)) => Valid(Clipped(op), text)
    BY <2>2, <2>3 DEF Real, Valid
  <2>5. op.to <= Len(text) + 1 => Clipped(op) = op
    BY <1>3, <2>1, <2>2
  <2> QED BY <2>3, <2>4, <2>5
<1>5. CASE ~ (op.str # << >> /\ op.from < op.to)
  <2> DEFINE z == Len(text) + 1
             Clip(x) == IF x > z THEN z ELSE x
             p == Clip(op.from)
             q == Clip(op.to)
  <2>1. Clipped(op) = Change(p, q, op.str)
    BY <1>5 DEF Clipped
  <2>2. /\ p \in Nat /\ q \in Nat /\ 1 <= p /\ p <= q /\ q <= Len(text) + 1
        /\ op.to <= Len(text) + 1 => p = op.from /\ q = op.to
    BY <1>1, <1>2
  <2> HIDE DEF p, q
  <2>3. /\ Clipped(op) \in [from : Nat, to : Nat, str : Seq(Chars)]
        /\ Clipped(op).from = p /\ Clipped(op).to = q
    BY <1>1, <2>1, <2>2 DEF Change
  <2>4. Valid(Clipped(op), text)
    BY <2>2, <2>3 DEF Valid
  <2>5. op.to <= Len(text) + 1 => Clipped(op) = op
    BY <1>3, <2>1, <2>2
  <2> QED BY <2>3, <2>4, <2>5
<1> QED BY <1>4, <1>5

(* The before-change-functions return.                                     *)
LEMMA BeforeDoneStep == ASSUME IInv, BeforeDone PROVE IInv'
<1> DEFINE c == Clipped(op)
           bounds == IF Active THEN [mc EXCEPT !.signaled = TRUE] ELSE mc
<1>1. /\ TypeOK /\ OpInv /\ phase = "before" /\ hookOpen = 0 /\ op' = NoChange
      /\ seen' = IF Active THEN text ELSE seen
      /\ UNCHANGED <<in_multiple_change, open, hookOpen, owner, meddled, shown>>
  BY DEF IInv, BeforeDone
<1>2. \/ Real(c) /\ Make(c, bounds)
      \/ /\ ~Real(c) /\ phase' = "run" /\ mc' = bounds
         /\ UNCHANGED <<text, region, todo, pending, told, blurred>>
  BY DEF BeforeDone
<1>3. /\ c \in [from : Nat, to : Nat, str : Seq(Chars)]
      /\ Real(c) => Valid(c, text)
      /\ op.to <= Len(text) + 1 => c = op
  BY <1>1, ClippedIs
<1> HIDE DEF c
<1>4. /\ mc \in [begin : Nat, orig_end : Nat, new_end : Int, signaled : BOOLEAN]
      /\ mc.begin \in Nat /\ mc.new_end \in Int /\ op.to \in Nat /\ Len(text) \in Nat
      /\ text \in Seq(Chars) /\ seen \in Seq(Chars) /\ shown \in Seq(Chars)
  BY <1>1, TypeParts
<1>5. OpInv' /\ op' \in [from : Nat, to : Nat, str : Seq(Chars)]
  BY <1>1, NothingTyped DEF OpInv
<1>6. seen' \in Seq(Chars)
  BY <1>1, <1>4
<1>7. Active => owner = "program" /\ ~mc.signaled
  BY <1>1, ActiveOwner DEF IInv, SignalInv
<1>8. ASSUME Active, ~meddled
      PROVE  /\ mc.begin <= mc.new_end /\ mc.new_end <= Len(text) + 1
             /\ mc.orig_end = mc.new_end /\ c = op /\ Real(c)
             /\ mc.begin <= c.from /\ c.to <= mc.new_end
  <2>1. /\ mc.begin <= mc.new_end /\ mc.new_end <= Len(text) + 1
        /\ mc.orig_end = mc.new_end
        /\ mc.begin <= op.from /\ op.to <= mc.new_end /\ Real(op)
    BY <1>1, <1>7, <1>8 DEF IInv, BoundsInv
  <2>2. op.to <= Len(text) + 1
    BY <1>4, <2>1
  <2> QED BY <1>3, <2>1, <2>2
<1>9. ~pending /\ pending \in BOOLEAN
  BY <1>1, <1>7 DEF IInv, SignalInv, TypeOK
<1>10. CASE Real(c) /\ Make(c, bounds) /\ Active
  <2>1. Make(c, [mc EXCEPT !.signaled = TRUE])
    BY <1>10
  <2>2. 1 <= mc.begin
    BY <1>4, <1>10 DEF Active
  <2>3. ~meddled => /\ Describes(mc.begin, mc.orig_end, mc.new_end, seen', text)
                    /\ mc.new_end <= Len(text) + 1
                    /\ mc.begin <= c.from /\ c.to <= mc.new_end
    <3>1. SUFFICES ASSUME ~meddled
                   PROVE  Describes(mc.begin, mc.orig_end, mc.new_end, seen', text)
      BY <1>8, <1>10
    <3>2. Describes(mc.begin, mc.new_end, mc.new_end, text, text)
      BY <1>4, <1>8, <1>10, <2>2, <3>1, SameDescribed
    <3> QED BY <1>1, <1>8, <1>10, <3>1, <3>2
  <2> QED BY <1>1, <1>3, <1>5, <1>6, <1>7, <1>10, <2>1, <2>3, SessionStep
<1>11. CASE Real(c) /\ Make(c, bounds) /\ ~Active
  <2>1. Valid(c, text)
    BY <1>3, <1>11
  <2>2. /\ text' \in Seq(Chars)
        /\ begin_unchanged' \in Int /\ end_unchanged' \in Int
        /\ told' /\ told' \in BOOLEAN /\ blurred' \in BOOLEAN
        /\ RegionCovers'
    BY <1>1, <1>3, <1>11, <2>1, MakeStep
  <2>3. phase' = "after" /\ todo' = "run" /\ mc' = mc /\ pending' = pending
    BY <1>11 DEF Make, CallAfter
  <2>4. TypeOK'
    <3>1. /\ in_multiple_change' \in Nat /\ open' \in Nat /\ hookOpen' \in Nat
          /\ owner' \in {"none", "program", "hook"} /\ meddled' \in BOOLEAN
      BY <1>1 DEF TypeOK
    <3>2. shown' \in Seq(Chars)
      BY <1>1, <1>4
    <3> QED BY <1>4, <1>5, <1>6, <1>9, <2>2, <2>3, <3>1, <3>2 DEF TypeOK
  <2>5. OwnerInv'
    BY <1>1, <2>3 DEF IInv, OwnerInv, Active
  <2>6. SignalInv' /\ BoundsInv'
    BY <1>9, <1>11, <2>3 DEF SignalInv, BoundsInv, Active
  <2>7. AssertionsHold'
    BY <2>3 DEF AssertionsHold
  <2> QED BY <1>5, <2>2, <2>4, <2>5, <2>6, <2>7 DEF IInv
<1>12. CASE /\ ~Real(c) /\ phase' = "run" /\ mc' = bounds
            /\ UNCHANGED <<text, region, todo, pending, told, blurred>>
  <2>1. /\ mc' \in [begin : Nat, orig_end : Nat, new_end : Int, signaled : BOOLEAN]
        /\ mc'.begin = mc.begin
    BY <1>4, <1>12
  <2>2. TypeOK'
    <3>1. UNCHANGED <<begin_unchanged, end_unchanged>>
      BY <1>12 DEF region
    <3> QED BY <1>1, <1>5, <1>6, <1>12, <2>1, <3>1 DEF TypeOK
  <2>3. OwnerInv'
    BY <1>1, <1>12, <2>1 DEF IInv, OwnerInv, Active
  <2>4. SignalInv'
    BY <1>9, <1>12 DEF SignalInv
  <2>5. BoundsInv'
    BY <1>1, <1>8, <1>12, <2>1 DEF BoundsInv, Active
  <2>6. RegionCovers'
    BY <1>1, <1>12 DEF IInv, RegionCovers, region
  <2>7. told' /\ AssertionsHold'
    BY <1>12 DEF IInv, AssertionsHold
  <2> QED BY <1>5, <2>2, <2>3, <2>4, <2>5, <2>6, <2>7 DEF IInv
<1> QED BY <1>2, <1>10, <1>11, <1>12

(* The after-change-functions return.                                      *)
LEMMA AfterDoneStep == ASSUME IInv, AfterDone PROVE IInv'
<1>1. /\ TypeOK /\ phase = "after" /\ hookOpen = 0 /\ phase' = todo /\ todo' = "run"
      /\ UNCHANGED <<text, session, region, op, open, hookOpen, owner, history>>
  BY DEF IInv, AfterDone
<1>2. todo \in {"run", "before", "begin"}
  BY <1>1 DEF TypeOK
<1>3. TypeOK'
  BY <1>1, <1>2 DEF TypeOK, session, region, history
<1>4. OpInv'
  BY <1>1 DEF IInv, OpInv
<1>5. OwnerInv'
  BY <1>1, <1>2 DEF IInv, OwnerInv, Active, session
<1>6. ~Active
  <2>1. Active => owner = "program"
    BY <1>1, ActiveOwner
  <2> QED BY <1>1, <2>1 DEF IInv, SignalInv
<1>7. SignalInv' /\ BoundsInv'
  BY <1>1, <1>6 DEF IInv, SignalInv, BoundsInv, Active, session, history
<1>8. RegionCovers'
  BY <1>1 DEF IInv, RegionCovers, region, history
<1>9. told' /\ AssertionsHold'
  BY <1>1, <1>2 DEF IInv, AssertionsHold, history
<1> QED BY <1>3, <1>4, <1>5, <1>7, <1>8, <1>9 DEF IInv

-----------------------------------------------------------------------------
(* What change functions do.                                               *)

(* A change function changes the text.                                     *)
LEMMA HookChangeStep ==
  ASSUME IInv, NEW c \in [from : Nat, to : Nat, str : Seq(Chars)], Proper(c), HookChange(c)
  PROVE  IInv'
<1>1. /\ TypeOK /\ RegionCovers /\ text' = Changed(c)
      /\ buffer_signal_changed_region(c.from, NewEnd(c), Changed(c))
      /\ meddled' = (meddled \/ (owner = "program" /\ Active))
      /\ UNCHANGED <<session, control, seen, pending, told, shown, blurred>>
  BY DEF IInv, HookChange
<1>2. /\ c.from \in 1 .. Len(text) + 1 /\ c.to \in c.from .. Len(text) + 1
      /\ c.str \in Seq(Chars) /\ text \in Seq(Chars) /\ c.to <= Len(text) + 1
      /\ c.from \in Int /\ c.to \in Int /\ Len(c.str) \in Nat
  BY <1>1, ValidParts DEF Proper
<1>3. /\ Changed(c) \in Seq(Chars)
      /\ Describes(c.from, c.to, NewEnd(c), text, Changed(c))
  BY <1>2, ChangeDescribed DEF Changed, NewEnd
<1>4. NewEnd(c) \in Int
  BY <1>2 DEF NewEnd
<1>5. begin_unchanged' \in Int /\ end_unchanged' \in Int /\ RegionCovers'
  BY <1>1, <1>2, <1>3, <1>4, RegionStep
<1>6. TypeOK'
  BY <1>1, <1>3, <1>5 DEF TypeOK, session, control
<1>7. OpInv' /\ OwnerInv' /\ SignalInv'
  BY <1>1 DEF IInv, OpInv, OwnerInv, SignalInv, Active, session, control
<1>8. BoundsInv'
  BY <1>1 DEF BoundsInv, Active, session, control
<1>9. told' /\ AssertionsHold'
  BY <1>1 DEF IInv, AssertionsHold, HookChange, InHook, control
<1> QED BY <1>5, <1>6, <1>7, <1>8, <1>9 DEF IInv

(* While change functions run there is nothing left to report, and if a    *)
(* session is theirs then what comes next is not the rest of a             *)
(* begin_multiple_change.                                                  *)
LEMMA HookFacts ==
  ASSUME IInv, InHook
  PROVE  /\ ~pending /\ phase \in {"before", "after"}
         /\ in_multiple_change \in Nat /\ open \in Nat /\ hookOpen \in Nat
         /\ in_multiple_change = 0 => owner = "none" /\ open = 0 /\ hookOpen = 0 /\ ~Active
         /\ in_multiple_change > 0 => owner # "none"
         /\ hookOpen > 0 => owner # "none"
         /\ owner # "program" => ~ (phase = "after" /\ todo = "begin")
         /\ owner = "program" => in_multiple_change > hookOpen /\ in_multiple_change >= hookOpen + open
         /\ owner = "hook" => in_multiple_change = hookOpen /\ open = 0
<1>1. TypeOK /\ OwnerInv /\ SignalInv
  BY DEF IInv
<1>2. in_multiple_change \in Nat /\ open \in Nat /\ hookOpen \in Nat
  BY <1>1, TypeParts
<1>3. phase \in {"before", "after"} /\ ~pending
  BY <1>1 DEF InHook, SignalInv
<1>4. owner \in {"none", "program", "hook"}
  BY <1>1 DEF TypeOK
<1>5. in_multiple_change = 0 => owner = "none"
  BY <1>1, <1>2, <1>4 DEF OwnerInv
<1> QED BY <1>1, <1>2, <1>3, <1>4, <1>5 DEF OwnerInv

(* Sessions of change functions: the text and the region stay.             *)
LEMMA HookSessionStep ==
  ASSUME IInv, InHook, UNCHANGED <<text, region, phase, op, todo, open, seen, pending, told, shown, blurred>>,
         mc' \in [begin : Nat, orig_end : Nat, new_end : Int, signaled : BOOLEAN],
         in_multiple_change' \in Nat, hookOpen' \in Nat, owner' \in {"none", "program", "hook"},
         meddled' \in BOOLEAN, OwnerInv',
         mc'.begin # 0 => \/ owner' = "hook" /\ ~mc'.signaled
                          \/ mc' = mc /\ owner' = owner /\ meddled' = meddled
  PROVE  IInv'
<1>1. TypeOK /\ phase \in {"before", "after"} /\ ~pending
  BY HookFacts DEF IInv
<1>2. TypeOK'
  BY <1>1 DEF TypeOK, region
<1>3. OpInv' /\ RegionCovers' /\ told' /\ AssertionsHold'
  <2>1. OpInv' /\ told'
    BY DEF IInv, OpInv
  <2>2. RegionCovers'
    BY DEF IInv, RegionCovers, region
  <2>3. AssertionsHold'
    BY <1>1 DEF AssertionsHold
  <2> QED BY <2>1, <2>2, <2>3
<1>4. SignalInv'
  BY <1>1 DEF IInv, SignalInv, Active
<1>5. BoundsInv'
  BY DEF IInv, BoundsInv, Active, Describes, Real
<1> QED BY <1>2, <1>3, <1>4, <1>5 DEF IInv

(* A change function begins a session.                                     *)
LEMMA HookBeginStep ==
  ASSUME IInv, NEW s \in Places, NEW e \in Places, HookBegin(s, e)
  PROVE  IInv'
<1>1. /\ InHook /\ in_multiple_change' = in_multiple_change + 1 /\ hookOpen' = hookOpen + 1
      /\ UNCHANGED <<text, region, phase, op, todo, open, seen, pending, told, shown, blurred>>
      /\ meddled' = (meddled /\ mc'.begin # 0)
  BY DEF HookBegin
<1>2. /\ TypeOK /\ meddled' \in BOOLEAN
      /\ in_multiple_change \in Nat /\ open \in Nat /\ hookOpen \in Nat
      /\ phase \in {"before", "after"}
  BY <1>1, HookFacts DEF IInv, TypeOK
<1>3. in_multiple_change' \in Nat /\ hookOpen' \in Nat
  BY <1>1, <1>2
<1>4. CASE in_multiple_change = 0
  <2>1. mc' = Bounds(s, e, e, FALSE) /\ owner' = "hook"
    BY <1>4 DEF HookBegin
  <2>2. s \in Nat /\ e \in Nat
    BY <1>2, TypeParts DEF Places
  <2>3. /\ mc' \in [begin : Nat, orig_end : Nat, new_end : Int, signaled : BOOLEAN]
        /\ ~mc'.signaled
    BY <2>1, <2>2 DEF Bounds
  <2>4. /\ owner = "none" /\ open = 0 /\ hookOpen = 0
        /\ ~ (phase = "after" /\ todo = "begin")
    BY <1>1, <1>4, HookFacts
  <2>5. in_multiple_change' = 1 /\ hookOpen' = 1 /\ open' = 0 /\ 1 > 0
    BY <1>1, <1>4, <2>4
  <2>6. OwnerInv'
    BY <1>1, <1>2, <2>1, <2>4, <2>5 DEF OwnerInv
  <2>7. owner' \in {"none", "program", "hook"}
    BY <2>1
  <2> QED BY <1>1, <1>2, <1>3, <2>1, <2>3, <2>6, <2>7, HookSessionStep
<1>5. CASE in_multiple_change # 0
  <2>1. mc' = (IF Outside(s, e) THEN NoSession ELSE mc) /\ owner' = owner
    BY <1>5 DEF HookBegin
  <2>2. /\ mc' \in [begin : Nat, orig_end : Nat, new_end : Int, signaled : BOOLEAN]
        /\ mc'.begin # 0 => mc' = mc
    BY <2>1, <1>2, TypeParts, NothingTyped
  <2>3. mc'.begin # 0 => meddled' = meddled
    BY <1>1, <1>2 DEF TypeOK
  <2>4. owner' \in {"none", "program", "hook"}
    BY <1>2, <2>1 DEF TypeOK
  <2>5. OwnerInv'
    <3>1. in_multiple_change > 0
      BY <1>2, <1>5
    <3>2. owner' # "none"
      BY <1>1, <2>1, <3>1, HookFacts
    <3>3. owner' = "program" => in_multiple_change' > hookOpen' /\ in_multiple_change' >= hookOpen' + open'
      BY <1>1, <1>2, <2>1, HookFacts
    <3>4. owner' = "hook" => in_multiple_change' = hookOpen' /\ hookOpen' > 0 /\ open' = 0
      BY <1>1, <1>2, <2>1, HookFacts
    <3>5. phase' # "begin" /\ phase' \in {"before", "after"}
      BY <1>1, <1>2
    <3>6. phase' = "after" /\ todo' = "begin" => owner' = "program"
      BY <1>1, <2>1, HookFacts
    <3> QED BY <3>2, <3>3, <3>4, <3>5, <3>6 DEF OwnerInv
  <2> QED BY <1>1, <1>2, <1>3, <2>1, <2>2, <2>3, <2>4, <2>5, HookSessionStep
<1> QED BY <1>4, <1>5

(* A change function ends a session.                                       *)
LEMMA HookEndStep == ASSUME IInv, HookEnd PROVE IInv'
<1>1. /\ InHook /\ hookOpen > 0
      /\ hookOpen' = hookOpen - 1 /\ in_multiple_change' = in_multiple_change - 1
      /\ UNCHANGED <<text, region, phase, op, todo, open, seen, pending, told, shown, blurred>>
      /\ meddled' = meddled
  BY DEF HookEnd, history
<1>2. /\ TypeOK /\ meddled' \in BOOLEAN
      /\ in_multiple_change \in Nat /\ open \in Nat /\ hookOpen \in Nat
      /\ phase \in {"before", "after"} /\ owner # "none"
  BY <1>1, HookFacts DEF IInv, TypeOK
<1>3. /\ owner = "program" => in_multiple_change > hookOpen /\ in_multiple_change >= hookOpen + open
      /\ owner = "hook" => in_multiple_change = hookOpen /\ open = 0
      /\ owner # "program" => ~ (phase = "after" /\ todo = "begin")
      /\ owner \in {"program", "hook"}
  BY <1>1, <1>2, HookFacts DEF TypeOK
<1>4. in_multiple_change' \in Nat /\ hookOpen' \in Nat
  BY <1>1, <1>2, <1>3
<1>5. CASE in_multiple_change = 1
  <2>1. mc' = NoSession /\ owner' = "none"
    BY <1>5 DEF HookEnd
  <2>2. mc' \in [begin : Nat, orig_end : Nat, new_end : Int, signaled : BOOLEAN] /\ mc'.begin = 0
    BY <2>1, NothingTyped
  <2>3. owner = "hook" /\ hookOpen = 1 /\ open = 0
    BY <1>1, <1>2, <1>3, <1>5
  <2>4. in_multiple_change' = 0 /\ hookOpen' = 0 /\ open' = 0 /\ ~ (0 > 0)
    BY <1>1, <1>5, <2>3
  <2>5. OwnerInv'
    BY <1>1, <1>2, <1>3, <2>1, <2>2, <2>3, <2>4 DEF OwnerInv, Active
  <2> QED BY <1>1, <1>2, <1>4, <2>1, <2>2, <2>5, HookSessionStep
<1>6. CASE in_multiple_change # 1
  <2>1. mc' = mc /\ owner' = owner
    BY <1>6 DEF HookEnd
  <2>2. mc' \in [begin : Nat, orig_end : Nat, new_end : Int, signaled : BOOLEAN]
    BY <2>1, <1>2, TypeParts
  <2>3. OwnerInv'
    <3>1. owner' = "program" => in_multiple_change' > hookOpen' /\ in_multiple_change' >= hookOpen' + open'
      BY <1>1, <1>2, <1>3, <2>1
    <3>2. owner' = "hook" => in_multiple_change' = hookOpen' /\ hookOpen' > 0 /\ open' = 0
      BY <1>1, <1>2, <1>3, <1>6, <2>1
    <3>3. owner' # "none" /\ phase' # "begin" /\ phase' \in {"before", "after"}
      BY <1>1, <1>2, <2>1
    <3>4. phase' = "after" /\ todo' = "begin" => owner' = "program"
      BY <1>1, <1>3, <2>1
    <3> QED BY <3>1, <3>2, <3>3, <3>4 DEF OwnerInv
  <2>4. owner' \in {"none", "program", "hook"}
    BY <1>2, <2>1 DEF TypeOK
  <2> QED BY <1>1, <1>2, <1>4, <2>1, <2>2, <2>3, <2>4, HookSessionStep
<1> QED BY <1>5, <1>6

(* A change function catches an error.                                     *)
LEMMA HookCatchStep == ASSUME IInv, HookCatch PROVE IInv'
<1>1. /\ InHook /\ hookOpen > 0 /\ hookOpen' = 0
      /\ UNCHANGED <<text, region, phase, op, todo, open, seen, pending, told, shown, blurred>>
      /\ meddled' = meddled
  BY DEF HookCatch, history
<1>2. /\ TypeOK /\ meddled' \in BOOLEAN /\ hookOpen' \in Nat
      /\ in_multiple_change \in Nat /\ open \in Nat /\ hookOpen \in Nat
      /\ phase \in {"before", "after"} /\ owner # "none"
  BY <1>1, HookFacts DEF IInv, TypeOK
<1>3. /\ owner = "program" => in_multiple_change > hookOpen /\ in_multiple_change >= hookOpen + open
      /\ owner = "hook" => in_multiple_change = hookOpen /\ open = 0
      /\ owner # "program" => ~ (phase = "after" /\ todo = "begin")
      /\ owner \in {"program", "hook"}
  BY <1>1, <1>2, HookFacts DEF TypeOK
<1>4. CASE owner = "hook"
  <2>1. in_multiple_change' = 0 /\ mc' = NoSession /\ owner' = "none"
    BY <1>4 DEF HookCatch
  <2>2. mc' \in [begin : Nat, orig_end : Nat, new_end : Int, signaled : BOOLEAN] /\ mc'.begin = 0
    BY <2>1, NothingTyped
  <2>3. OwnerInv'
    BY <1>1, <1>2, <1>3, <1>4, <2>1, <2>2 DEF OwnerInv, Active
  <2>4. in_multiple_change' \in Nat /\ owner' \in {"none", "program", "hook"}
    BY <2>1
  <2> QED BY <1>1, <1>2, <2>2, <2>3, <2>4, HookSessionStep
<1>5. CASE owner = "program"
  <2>1. mc' = mc /\ owner' = owner /\ in_multiple_change' = in_multiple_change
    BY <1>5 DEF HookCatch, session
  <2>2. /\ mc' \in [begin : Nat, orig_end : Nat, new_end : Int, signaled : BOOLEAN]
        /\ in_multiple_change' \in Nat /\ owner' \in {"none", "program", "hook"}
    BY <1>2, <1>5, <2>1, TypeParts
  <2>3. OwnerInv'
    <3>1. in_multiple_change > 0 /\ in_multiple_change >= open
      BY <1>1, <1>2, <1>3, <1>5
    <3>2. open' = open
      BY <1>1
    <3> QED BY <1>1, <1>2, <1>5, <2>1, <3>1, <3>2, ProgramCounts
  <2> QED BY <1>1, <1>2, <2>1, <2>2, <2>3, HookSessionStep
<1> QED BY <1>3, <1>4, <1>5

(* Redisplay looks at the text.                                            *)
LEMMA RedisplayStep == ASSUME IInv, Redisplay PROVE IInv'
<1>1. /\ TypeOK /\ begin_unchanged' = -1 /\ end_unchanged' = -1
      /\ shown' = text /\ blurred' = FALSE
      /\ UNCHANGED <<text, session, control, seen, pending, meddled, told>>
  BY DEF IInv, Redisplay
<1>2. TypeOK'
  <2>1. begin_unchanged' \in Int /\ end_unchanged' \in Int
    <3>1. begin_unchanged' = -1 /\ end_unchanged' = -1
      BY DEF Redisplay
    <3> QED BY <3>1
  <2>2. blurred' \in BOOLEAN
    BY <1>1
  <2> QED BY <1>1, <2>1, <2>2 DEF TypeOK, session, control
<1>3. OpInv' /\ OwnerInv' /\ SignalInv' /\ told' /\ AssertionsHold'
  BY <1>1 DEF IInv, OpInv, OwnerInv, SignalInv, AssertionsHold, Active, session, control
<1>4. BoundsInv'
  BY <1>1 DEF IInv, BoundsInv, Active, Describes, Real, session, control
<1>5. RegionCovers'
  <2>1. ~ (begin_unchanged' >= 0) /\ ~ (end_unchanged' >= 0) /\ text' = shown'
    BY <1>1
  <2> QED BY <2>1 DEF RegionCovers
<1> QED BY <1>2, <1>3, <1>4, <1>5 DEF IInv

-----------------------------------------------------------------------------
(* Every step keeps the invariant.                                         *)
LEMMA NextInv == ASSUME IInv, [Next]_vars PROVE IInv'
<1>1. TypeOK
  BY DEF IInv
<1>2. CASE \E s, e \in Places : s <= e /\ (begin_multiple_change(s, e) \/ HookBegin(s, e))
  BY <1>2, BeginStep, HookBeginStep
<1>3. CASE \E c \in {d \in Changes : d.from <= d.to /\ Real(d)} : Modify(c) \/ HookChange(c)
  BY <1>1, <1>3, ChangesProper, ModifyStep, HookChangeStep
<1>4. CASE \E k \in 0 .. open : Throw(k)
  BY <1>4, ThrowStep
<1>5. CASE Begun \/ end_multiple_change \/ Return \/ BeforeDone \/ AfterDone
  BY <1>5, BegunStep, EndStep, ReturnStep, BeforeDoneStep, AfterDoneStep
<1>6. CASE HookEnd \/ HookCatch \/ Redisplay
  BY <1>6, HookEndStep, HookCatchStep, RedisplayStep
<1>7. CASE UNCHANGED vars
  <2>1. UNCHANGED <<text, session, region, control, history>>
    BY <1>7 DEF vars
  <2>2. TypeOK' /\ OpInv' /\ OwnerInv' /\ SignalInv'
    BY <2>1 DEF IInv, TypeOK, OpInv, OwnerInv, SignalInv, Active, session, region, control, history
  <2>3. BoundsInv'
    BY <2>1 DEF IInv, BoundsInv, Active, Describes, Real, session, control, history
  <2>4. RegionCovers' /\ told' /\ AssertionsHold'
    BY <2>1 DEF IInv, RegionCovers, AssertionsHold, region, control, history
  <2> QED BY <2>2, <2>3, <2>4 DEF IInv
<1> QED BY <1>2, <1>3, <1>4, <1>5, <1>6, <1>7 DEF Next

(* The invariant holds in every reachable state of the sessions.           *)
THEOREM Invariance == Spec => []IInv
<1>1. Init => IInv
  BY InitInv
<1>2. IInv /\ [Next]_vars => IInv'
  BY NextInv
<1> QED BY <1>1, <1>2, PTL DEF Spec

(* Every variable of the change machinery keeps its type.                  *)
THEOREM TypeCorrect == Spec => []TypeOK
<1>1. IInv => TypeOK
  BY DEF IInv
<1> QED BY <1>1, Invariance, PTL

(* What signal_after_change tells the after-change-functions is so, for a  *)
(* change and for a whole session, however it ends.                        *)
THEOREM ReportsAlwaysTrue == Spec => []ReportsTrue
<1>1. IInv => ReportsTrue
  BY DEF IInv, ReportsTrue
<1> QED BY <1>1, Invariance, PTL

(* Redisplay never takes a changed character for an unchanged one from     *)
(* what buffer_signal_changed_region has left it.                          *)
THEOREM RegionAlwaysCovers == Spec => []RegionCovers
<1>1. IInv => RegionCovers
  BY DEF IInv
<1> QED BY <1>1, Invariance, PTL

(* The assertions of signal_after_change hold in every session that change *)
(* functions keep their hands off.                                         *)
THEOREM AssertionsAlwaysHold == Spec => []AssertionsHold
<1>1. IInv => AssertionsHold
  BY DEF IInv
<1> QED BY <1>1, Invariance, PTL

(* When no unwind-protect of a session is left, in_multiple_change is 0    *)
(* and every change has been reported.                                     *)
THEOREM SessionsAlwaysClose == Spec => []SessionsClose
<1>1. IInv => SessionsClose
  BY DEF IInv, SessionsClose, OwnerInv, SignalInv
<1> QED BY <1>1, Invariance, PTL
=============================================================================
