-------------------------- MODULE LocalCacheProofs --------------------------
(***************************************************************************)
(* Proofs about the cache of buffer-local values, for any buffers, values  *)
(* and depth of bindings.                                                  *)
(***************************************************************************)
EXTENDS LocalCache, TLAPS

\* The value cell is in order.  What is cached for no buffer is the default,
\* unless an assignment to the default has been forgotten.
Sound(s) ==
  /\ s \in ValueCells
  /\ s.cbuf # None => (s.celt <=> s.local[s.cbuf] # None)
  /\ s.celt => s.cbuf # None
  /\ s.kind = "plain" => s.cbuf = None /\ \A b \in Bufs : s.local[b] = None
  /\ Careful /\ s.kind # "plain" /\ s.cbuf = None => s.cval = s.dflt

\* It is when buffer C is current.
Coherent(s, c) ==
  /\ Sound(s)
  /\ s.celt => s.cbuf = c
  /\ forwards /\ s.local[c] # None => s.cbuf = c
  /\ forwards /\ s.kind # "plain" => s.cbuf # None

\* The value in buffer B.
ValueOf(s, b) == IF OwnOf(s)[b] = None THEN DefaultOf(s) ELSE OwnOf(s)[b]

\* R stands for the same variable as S.
SameAs(r, s) == r.kind = s.kind /\ DefaultOf(r) = DefaultOf(s) /\ OwnOf(r) = OwnOf(s)

\* R is what S becomes when buffer B gets V for its own value.
OwnSet(r, s, b, v) ==
  r.kind = s.kind /\ DefaultOf(r) = DefaultOf(s) /\ OwnOf(r) = [OwnOf(s) EXCEPT ![b] = v]

(* The fields of a value cell.                                             *)
LEMMA CellTypes ==
  ASSUME NEW s \in ValueCells
  PROVE  /\ s.kind \in {"plain", "SOME_BUFFER_LOCAL", "BUFFER_LOCAL"}
         /\ s.dflt \in Contents /\ s.cval \in Contents /\ s.cbuf \in Bufs \cup {None}
         /\ s.celt \in BOOLEAN /\ s.local \in [Bufs -> Contents \cup {None}]
BY DEF ValueCells

(* A record with fields of these types is a value cell.                    *)
LEMMA CellIs ==
  ASSUME NEW k \in {"plain", "SOME_BUFFER_LOCAL", "BUFFER_LOCAL"}, NEW d \in Contents,
         NEW v \in Contents, NEW b \in Bufs \cup {None}, NEW e \in BOOLEAN,
         NEW l \in [Bufs -> Contents \cup {None}]
  PROVE  [kind |-> k, dflt |-> d, cval |-> v, cbuf |-> b, celt |-> e, local |-> l] \in ValueCells
BY DEF ValueCells

(* A value cell is made of its fields.                                     *)
LEMMA CellFields ==
  ASSUME NEW s \in ValueCells
  PROVE  s = [kind |-> s.kind, dflt |-> s.dflt, cval |-> s.cval, cbuf |-> s.cbuf,
              celt |-> s.celt, local |-> s.local]
BY DEF ValueCells

(* Nothing that a variable contains stands for the absence of a value.     *)
LEMMA Apart == None \notin Contents /\ None \notin Bufs /\ Nil \in Contents /\ Values \subseteq Contents
BY LocalAssumption DEF Contents

(* Whether a buffer has a value of its own can be seen in its list.        *)
LEMMA HasLocalIs ==
  ASSUME NEW s, Sound(s)
  PROVE  /\ \A b \in Bufs : HasLocal(s, b) <=> s.local[b] # None
         /\ OwnOf(s) = [b \in Bufs |-> IF s.local[b] = None THEN None
                                       ELSE IF s.cbuf = b THEN s.cval ELSE s.local[b]]
         /\ \A b \in Bufs : OwnOf(s)[b] # None <=> s.local[b] # None
         /\ OwnOf(s) \in [Bufs -> Contents \cup {None}] /\ DefaultOf(s) \in Contents
<1>1. s \in ValueCells
  BY DEF Sound
<1>2. \A d \in Bufs : HasLocal(s, d) <=> s.local[d] # None
  BY <1>1, Apart DEF HasLocal, Sound
<1>3. OwnOf(s) = [d \in Bufs |-> IF s.local[d] = None THEN None
                                 ELSE IF s.cbuf = d THEN s.cval ELSE s.local[d]]
  BY <1>2 DEF OwnOf
<1>4. \A b \in Bufs : OwnOf(s)[b] # None <=> s.local[b] # None
  BY <1>1, <1>3, CellTypes, Apart
<1>5. OwnOf(s) \in [Bufs -> Contents \cup {None}] /\ DefaultOf(s) \in Contents
  BY <1>1, <1>3, CellTypes DEF DefaultOf
<1> QED BY <1>2, <1>3, <1>4, <1>5

(* The value a buffer has of its own.                                      *)
LEMMA OwnIs ==
  ASSUME NEW s, Sound(s), NEW c \in Bufs
  PROVE  OwnOf(s)[c] = IF s.local[c] = None THEN None
                       ELSE IF s.cbuf = c THEN s.cval ELSE s.local[c]
BY HasLocalIs

(* Writing the cache out puts the default and the values of the buffers    *)
(* where the variable has them.                                            *)
LEMMA WriteOutIs ==
  ASSUME NEW s, Sound(s), s.kind # "plain"
  PROVE  write_out_buffer_local_cache(s) =
           [kind |-> s.kind, dflt |-> DefaultOf(s), cval |-> s.cval, cbuf |-> s.cbuf,
            celt |-> s.celt, local |-> OwnOf(s)]
<1> DEFINE w == write_out_buffer_local_cache(s)
<1>1. s \in ValueCells /\ s.local \in [Bufs -> Contents \cup {None}] /\ s.celt \in BOOLEAN
  BY CellTypes DEF Sound
<1>2. /\ w.kind = s.kind /\ w.cval = s.cval /\ w.cbuf = s.cbuf /\ w.celt = s.celt
      /\ w = [kind |-> w.kind, dflt |-> w.dflt, cval |-> w.cval, cbuf |-> w.cbuf,
              celt |-> w.celt, local |-> w.local]
  BY <1>1, CellFields DEF write_out_buffer_local_cache
<1>3. w.dflt = DefaultOf(s)
  BY <1>1, CellFields DEF write_out_buffer_local_cache, DefaultOf, Sound
<1>4. w.local = OwnOf(s)
  <2>1. CASE s.cbuf = None
    BY <1>1, <2>1, HasLocalIs, Apart DEF write_out_buffer_local_cache, Sound
  <2>2. CASE s.cbuf # None /\ s.celt
    <3>1. s.cbuf \in Bufs /\ s.local[s.cbuf] # None
      BY <1>1, <2>2, CellTypes DEF Sound
    <3>2. w.local = [s.local EXCEPT ![s.cbuf] = s.cval]
      BY <1>1, <2>2, CellFields DEF write_out_buffer_local_cache
    <3> QED BY <1>1, <3>1, <3>2, HasLocalIs
  <2>3. CASE s.cbuf # None /\ ~s.celt
    <3>1. s.cbuf \in Bufs /\ s.local[s.cbuf] = None
      BY <1>1, <2>3, CellTypes DEF Sound
    <3>2. w.local = s.local
      BY <1>1, <2>3, CellFields DEF write_out_buffer_local_cache
    <3> QED BY <1>1, <3>1, <3>2, HasLocalIs
  <2> QED BY <2>1, <2>2, <2>3
<1> QED BY <1>2, <1>3, <1>4

(* A cell whose cache is for B is in order when B is current.              *)
LEMMA CachedHere ==
  ASSUME NEW b \in Bufs, NEW s, Sound(s), s.cbuf = b
  PROVE  Coherent(s, b)
BY Apart DEF Coherent

(* A cell in normal form, after everything was written out: caching buffer *)
(* B then changes nothing that Lisp can see.                               *)
LEMMA NormalCached ==
  ASSUME NEW b \in Bufs, NEW k \in {"SOME_BUFFER_LOCAL", "BUFFER_LOCAL"}, NEW d \in Contents,
         NEW o \in [Bufs -> Contents \cup {None}], NEW r,
         r = [kind |-> k, dflt |-> d, cval |-> IF o[b] # None THEN o[b] ELSE d, cbuf |-> b,
              celt |-> o[b] # None, local |-> o]
  PROVE  /\ Sound(r) /\ Coherent(r, b)
         /\ r.kind = k /\ DefaultOf(r) = d /\ OwnOf(r) = o
         /\ r.cbuf = b /\ r.cval = ValueOf(r, b) /\ ~DefaultPending(r)
<1>1. /\ r.kind = k /\ r.dflt = d /\ r.cval = (IF o[b] # None THEN o[b] ELSE d) /\ r.cbuf = b
      /\ r.celt = (o[b] # None) /\ r.local = o
  OBVIOUS
<1>2. r \in ValueCells
  <2>1. (IF o[b] # None THEN o[b] ELSE d) \in Contents /\ (o[b] # None) \in BOOLEAN
    OBVIOUS
  <2> QED BY <2>1, CellIs
<1>3. Sound(r)
  BY <1>1, <1>2, Apart DEF Sound
<1>4. OwnOf(r) = o
  BY <1>1, <1>3, HasLocalIs
<1>5. DefaultOf(r) = d
  BY <1>1, Apart DEF DefaultOf
<1>6. r.cval = ValueOf(r, b) /\ ~DefaultPending(r)
  BY <1>1, <1>4, <1>5, Apart DEF ValueOf, DefaultPending
<1> QED BY <1>1, <1>3, <1>4, <1>5, <1>6, CachedHere

(* Caching a buffer changes nothing that Lisp can see; after it the cached *)
(* value is the one of that buffer.                                        *)
LEMMA SetUpIs ==
  ASSUME NEW b \in Bufs, NEW s, Sound(s), s.kind # "plain",
         NEW has \in BOOLEAN, has <=> s.local[b] # None, NEW r,
         r = set_up_buffer_local_cache(s, b, has)
  PROVE  /\ Sound(r) /\ Coherent(r, b) /\ SameAs(r, s)
         /\ r.cbuf = b /\ r.cval = ValueOf(s, b)
         /\ DefaultPending(r) => DefaultPending(s) /\ s.cbuf = b
<1>0. s \in ValueCells /\ s.kind \in {"SOME_BUFFER_LOCAL", "BUFFER_LOCAL"}
  BY CellTypes DEF Sound
<1>1. CASE s.cbuf = b
  <2>1. r = s
    BY <1>1 DEF set_up_buffer_local_cache
  <2>2. r.cval = ValueOf(s, b)
    BY <1>0, <1>1, <2>1, HasLocalIs, Apart DEF ValueOf, DefaultOf, Sound
  <2> QED BY <1>1, <2>1, <2>2, CachedHere DEF SameAs
<1>2. CASE s.cbuf # b
  <2> DEFINE o == OwnOf(s)
             w == write_out_buffer_local_cache(s)
  <2>1. o \in [Bufs -> Contents \cup {None}] /\ DefaultOf(s) \in Contents
        /\ (o[b] # None <=> s.local[b] # None)
    BY HasLocalIs
  <2>2. w = [kind |-> s.kind, dflt |-> DefaultOf(s), cval |-> s.cval, cbuf |-> s.cbuf,
             celt |-> s.celt, local |-> o]
    BY WriteOutIs
  <2>3. r = [w EXCEPT !.cbuf = b, !.celt = has, !.cval = IF has THEN w.local[b] ELSE w.dflt]
    BY <1>2 DEF set_up_buffer_local_cache
  <2>4. has = (o[b] # None)
    BY <2>1
  <2> HIDE DEF o, w
  <2>5. r = [kind |-> s.kind, dflt |-> DefaultOf(s),
             cval |-> IF o[b] # None THEN o[b] ELSE DefaultOf(s), cbuf |-> b,
             celt |-> o[b] # None, local |-> o]
    BY <2>2, <2>3, <2>4
  <2>6. /\ Sound(r) /\ Coherent(r, b) /\ r.kind = s.kind /\ DefaultOf(r) = DefaultOf(s)
        /\ OwnOf(r) = o /\ r.cbuf = b /\ r.cval = ValueOf(r, b) /\ ~DefaultPending(r)
    BY <1>0, <2>1, <2>5, NormalCached
  <2> USE DEF o
  <2> QED BY <2>6 DEF SameAs, ValueOf
<1> QED BY <1>1, <1>2

(* Referring to the variable caches it for the current buffer.             *)
LEMMA ReferencedIs ==
  ASSUME NEW b \in Bufs, NEW s, Coherent(s, b), NEW r, r = Referenced(s, b)
  PROVE  Coherent(r, b) /\ SameAs(r, s) /\ r.cval = ValueOf(s, b)
<1>0. Sound(s)
  BY DEF Coherent
<1>1. CASE s.kind = "plain"
  <2>1. r = s /\ s.local[b] = None
    BY <1>0, <1>1 DEF Referenced, Sound
  <2> QED BY <1>0, <1>1, <2>1, HasLocalIs DEF SameAs, ValueOf, DefaultOf
<1>2. CASE s.kind # "plain"
  <2>1. HasLocal(s, b) <=> s.local[b] # None
    BY <1>0, HasLocalIs
  <2>2. HasLocal(s, b) \in BOOLEAN
    BY <1>0, CellTypes DEF HasLocal, Sound
  <2>3. r = set_up_buffer_local_cache(s, b, HasLocal(s, b))
    BY <1>2 DEF Referenced
  <2> QED BY <1>0, <1>2, <2>1, <2>2, <2>3, SetUpIs
<1> QED BY <1>1, <1>2

(* Switching buffers changes nothing that Lisp can see.                    *)
LEMMA SwitchedIs ==
  ASSUME NEW c \in Bufs, NEW b \in Bufs, NEW s, Coherent(s, c), NEW r, r = Switched(s, c, b)
  PROVE  /\ Coherent(r, b) /\ SameAs(r, s)
         /\ PendingIn(r, b) => PendingIn(s, b)
<1>0. Sound(s)
  BY DEF Coherent
<1>1. CASE s.local[b] # None
  <2>1. r = set_up_buffer_local_cache(s, b, TRUE) /\ s.kind # "plain"
    BY <1>0, <1>1 DEF Switched, Sound
  <2> QED BY <1>0, <1>1, <2>1, SetUpIs DEF PendingIn
<1>2. CASE s.local[b] = None /\ s.local[c] # None
  <2>1. r = set_up_buffer_local_cache(s, b, FALSE) /\ s.kind # "plain"
    BY <1>0, <1>2 DEF Switched, Sound
  <2> QED BY <1>0, <1>2, <2>1, SetUpIs DEF PendingIn
<1>3. CASE s.local[b] = None /\ s.local[c] = None
  <2>1. r = s
    BY <1>3 DEF Switched
  <2>2. ~s.celt
    BY <1>0, <1>3, Apart DEF Coherent, Sound
  <2>3. Coherent(s, b)
    BY <1>3, <2>2 DEF Coherent
  <2> QED BY <2>1, <2>3 DEF SameAs
<1> QED BY <1>1, <1>2, <1>3

(* What a cell cached for B, with B current, means: the cached value is    *)
(* B's own or the default.                                                 *)
LEMMA CachedMeans ==
  ASSUME NEW b \in Bufs, NEW r \in ValueCells, r.kind # "plain", r.cbuf = b,
         r.celt <=> r.local[b] # None
  PROVE  /\ Coherent(r, b)
         /\ OwnOf(r) = IF r.celt THEN [r.local EXCEPT ![b] = r.cval] ELSE r.local
         /\ DefaultOf(r) = IF r.celt THEN r.dflt ELSE r.cval
<1>1. Sound(r)
  BY Apart DEF Sound
<1>2. r.local \in [Bufs -> Contents \cup {None}]
  BY CellTypes
<1>3. OwnOf(r) = IF r.celt THEN [r.local EXCEPT ![b] = r.cval] ELSE r.local
  BY <1>1, <1>2, HasLocalIs
<1> QED BY <1>1, <1>3, CachedHere, Apart DEF DefaultOf

(* Fset, before it stores the value: the current buffer is cached, and has *)
(* a value of its own if it had one or the variable becomes local.         *)
LEMMA PreparedIs ==
  ASSUME NEW b \in Bufs, NEW s, Coherent(s, b), s.kind # "plain", NEW p, p = Prepared(s, b)
  PROVE  /\ p \in ValueCells
         /\ p.kind = s.kind /\ p.cval = s.cval /\ p.cbuf = b
         /\ p.celt <=> p.local[b] # None
         /\ p.celt <=> OwnOf(s)[b] # None \/ s.kind = "BUFFER_LOCAL"
         /\ \A v \in Contents : [p.local EXCEPT ![b] = v] = [OwnOf(s) EXCEPT ![b] = v]
         /\ ~p.celt => p.local = OwnOf(s)
         /\ p.celt => p.dflt = DefaultOf(s)
<1> DEFINE o == OwnOf(s)
           has == HasLocal(s, b)
           new == ~has /\ s.kind = "BUFFER_LOCAL"
           w == write_out_buffer_local_cache(s)
<1>0. Sound(s) /\ s \in ValueCells
  BY DEF Coherent, Sound
<1>1. /\ o \in [Bufs -> Contents \cup {None}] /\ DefaultOf(s) \in Contents
      /\ (o[b] # None <=> s.local[b] # None) /\ (has <=> s.local[b] # None)
      /\ o = [c \in Bufs |-> IF s.local[c] = None THEN None
                             ELSE IF s.cbuf = c THEN s.cval ELSE s.local[c]]
  BY <1>0, HasLocalIs
<1>2. /\ s.kind \in {"plain", "SOME_BUFFER_LOCAL", "BUFFER_LOCAL"}
      /\ s.dflt \in Contents /\ s.cval \in Contents /\ s.cbuf \in Bufs \cup {None}
      /\ s.celt \in BOOLEAN /\ s.local \in [Bufs -> Contents \cup {None}]
  BY <1>0, CellTypes
<1>3. CASE CacheValid(s, b)
  <2>1. p = s /\ s.cbuf = b /\ (s.kind = "SOME_BUFFER_LOCAL" \/ s.celt)
    BY <1>3 DEF Prepared, CacheValid
  <2>2. s.celt <=> s.local[b] # None
    BY <1>0, <2>1, Apart DEF Sound
  <2>x. \A c \in Bufs : c # b => s.local[c] = o[c]
    BY <1>1, <2>1
  <2>y. s.local[b] = None => s.local[b] = o[b]
    BY <1>1
  <2> HIDE DEF o
  <2>3. \A v \in Contents : [s.local EXCEPT ![b] = v] = [o EXCEPT ![b] = v]
    BY <1>1, <1>2, <2>x
  <2>4. ~s.celt => s.local = o
    BY <1>1, <1>2, <2>2, <2>x, <2>y
  <2> USE DEF o
  <2>5. s.celt => s.dflt = DefaultOf(s)
    BY DEF DefaultOf
  <2> QED BY <1>0, <1>1, <2>1, <2>2, <2>3, <2>4, <2>5
<1>4. CASE ~CacheValid(s, b)
  <2>1. w = [kind |-> s.kind, dflt |-> DefaultOf(s), cval |-> s.cval, cbuf |-> s.cbuf,
             celt |-> s.celt, local |-> o]
    BY <1>0, WriteOutIs
  <2>2. p = [w EXCEPT !.cbuf = b, !.celt = has \/ new, !.local[b] = IF new THEN w.cval ELSE @]
    BY <1>4 DEF Prepared
  <2>3. has \in BOOLEAN
    BY <1>2 DEF HasLocal
  <2> DEFINE e == has \/ new
             x == IF new THEN s.cval ELSE o[b]
             l == [o EXCEPT ![b] = x]
  <2>4. /\ e \in BOOLEAN /\ x \in Contents \cup {None} /\ (e <=> x # None)
        /\ e <=> o[b] # None \/ s.kind = "BUFFER_LOCAL"
        /\ ~e => x = o[b]
    BY <1>1, <1>2, <2>3, Apart
  <2>5. p = [w EXCEPT !.cbuf = b, !.celt = e, !.local = l]
    BY <2>1, <2>2
  <2> HIDE DEF o, w, has, new, e, x
  <2>6. l \in [Bufs -> Contents \cup {None}] /\ l[b] = x /\ (~e => l = o)
        /\ \A v \in Contents : [l EXCEPT ![b] = v] = [o EXCEPT ![b] = v]
    BY <1>1, <2>4
  <2> HIDE DEF l
  <2>7. p = [kind |-> s.kind, dflt |-> DefaultOf(s), cval |-> s.cval, cbuf |-> b,
             celt |-> e, local |-> l]
    BY <2>1, <2>5
  <2>8. p \in ValueCells
    <3>1. /\ s.kind \in {"plain", "SOME_BUFFER_LOCAL", "BUFFER_LOCAL"}
          /\ DefaultOf(s) \in Contents /\ s.cval \in Contents
          /\ l \in [Bufs -> Contents \cup {None}]
      BY <1>1, <1>2, <2>6
    <3>2. e \in BOOLEAN
      BY <2>4
    <3> QED BY <2>7, <3>1, <3>2 DEF ValueCells
  <2>9. /\ p.kind = s.kind /\ p.cval = s.cval /\ p.cbuf = b /\ p.celt = e /\ p.local = l
        /\ p.dflt = DefaultOf(s)
    BY <2>7
  <2>10. p.celt <=> o[b] # None \/ s.kind = "BUFFER_LOCAL"
    BY <2>4, <2>9
  <2> USE DEF o
  <2> QED BY <2>4, <2>6, <2>8, <2>9, <2>10
<1> QED BY <1>3, <1>4

(* set gives the current buffer's own value, or the default, the new value *)
(* and leaves the rest alone.                                              *)
LEMMA FsetIs ==
  ASSUME NEW b \in Bufs, NEW s, Coherent(s, b), NEW v \in Contents, NEW r, r = Fset(s, b, v)
  PROVE  /\ Coherent(r, b)
         /\ IF OwnOf(s)[b] # None \/ s.kind = "BUFFER_LOCAL" THEN OwnSet(r, s, b, v)
            ELSE r.kind = s.kind /\ OwnOf(r) = OwnOf(s) /\ DefaultOf(r) = v
<1>0. Sound(s) /\ s \in ValueCells
  BY DEF Coherent, Sound
<1>1. CASE s.kind = "plain"
  <2>1. r = [s EXCEPT !.cval = v]
    BY <1>1 DEF Fset, Prepared
  <2>2. r = [kind |-> s.kind, dflt |-> s.dflt, cval |-> v, cbuf |-> s.cbuf, celt |-> s.celt,
             local |-> s.local]
    BY <1>0, <2>1, CellFields
  <2>3. r \in ValueCells
    <3>1. /\ s.kind \in {"plain", "SOME_BUFFER_LOCAL", "BUFFER_LOCAL"}
          /\ s.dflt \in Contents /\ s.cbuf \in Bufs \cup {None}
          /\ s.celt \in BOOLEAN /\ s.local \in [Bufs -> Contents \cup {None}]
      BY <1>0, CellTypes
    <3> QED BY <2>2, <3>1 DEF ValueCells
  <2>4. Sound(r) /\ Coherent(r, b)
    BY <1>1, <2>2, <2>3 DEF Coherent, Sound
  <2>5. \A c \in Bufs : s.local[c] = None /\ r.local[c] = None
    BY <1>0, <1>1, <2>2 DEF Sound
  <2>6. OwnOf(r) = OwnOf(s) /\ OwnOf(s)[b] = None
    BY <1>0, <2>4, <2>5, HasLocalIs
  <2> QED BY <1>1, <2>2, <2>4, <2>6 DEF DefaultOf
<1>2. CASE s.kind # "plain"
  <2> DEFINE p == Prepared(s, b)
  <2>1. /\ p \in ValueCells
        /\ p.kind = s.kind /\ p.cbuf = b
        /\ p.celt <=> p.local[b] # None
        /\ p.celt <=> OwnOf(s)[b] # None \/ s.kind = "BUFFER_LOCAL"
        /\ \A u \in Contents : [p.local EXCEPT ![b] = u] = [OwnOf(s) EXCEPT ![b] = u]
        /\ ~p.celt => p.local = OwnOf(s)
        /\ p.celt => p.dflt = DefaultOf(s)
    BY <1>2, PreparedIs
  <2>2. r = [p EXCEPT !.cval = v]
    BY DEF Fset
  <2> HIDE DEF p
  <2>3. r = [kind |-> p.kind, dflt |-> p.dflt, cval |-> v, cbuf |-> p.cbuf, celt |-> p.celt,
             local |-> p.local]
    BY <2>1, <2>2, CellFields
  <2>4. r \in ValueCells
    BY <2>1, <2>3, CellTypes, CellIs
  <2>5. r.kind = s.kind /\ r.cbuf = b /\ r.celt = p.celt /\ r.local = p.local /\ r.cval = v
        /\ r.dflt = p.dflt
    BY <2>1, <2>3
  <2>6. /\ Coherent(r, b)
        /\ OwnOf(r) = IF r.celt THEN [r.local EXCEPT ![b] = r.cval] ELSE r.local
        /\ DefaultOf(r) = IF r.celt THEN r.dflt ELSE r.cval
    BY <1>2, <2>1, <2>4, <2>5, CachedMeans
  <2> QED BY <2>1, <2>5, <2>6 DEF OwnSet
<1> QED BY <1>1, <1>2

(* A set that is refused makes an automatically local variable local.      *)
LEMMA RefusedIs ==
  ASSUME NEW b \in Bufs, NEW s, Coherent(s, b), forwards, NEW r, r = Prepared(s, b)
  PROVE  /\ Coherent(r, b)
         /\ IF s.kind = "BUFFER_LOCAL" THEN OwnSet(r, s, b, ValueOf(s, b)) ELSE SameAs(r, s)
<1>0. Sound(s) /\ s \in ValueCells
  BY DEF Coherent, Sound
<1>1. CASE s.kind = "plain"
  <2>1. r = s
    BY <1>1 DEF Prepared
  <2> QED BY <1>1, <2>1 DEF SameAs
<1>2. CASE s.kind # "plain"
  <2>1. /\ r \in ValueCells
        /\ r.kind = s.kind /\ r.cbuf = b /\ r.cval = s.cval
        /\ r.celt <=> r.local[b] # None
        /\ r.celt <=> OwnOf(s)[b] # None \/ s.kind = "BUFFER_LOCAL"
        /\ \A u \in Contents : [r.local EXCEPT ![b] = u] = [OwnOf(s) EXCEPT ![b] = u]
        /\ ~r.celt => r.local = OwnOf(s)
        /\ r.celt => r.dflt = DefaultOf(s)
    BY <1>2, PreparedIs
  <2>2. /\ Coherent(r, b)
        /\ OwnOf(r) = IF r.celt THEN [r.local EXCEPT ![b] = r.cval] ELSE r.local
        /\ DefaultOf(r) = IF r.celt THEN r.dflt ELSE r.cval
    BY <1>2, <2>1, CachedMeans
  <2>3. s.cval = ValueOf(s, b) /\ s.cval \in Contents
    <3>1. s.cbuf # None /\ (s.local[b] # None => s.cbuf = b) /\ (s.celt => s.cbuf = b)
      BY <1>2 DEF Coherent
    <3> QED BY <1>0, <1>2, <3>1, HasLocalIs, CellTypes DEF ValueOf, DefaultOf, Sound
  <2>4. OwnOf(s) \in [Bufs -> Contents \cup {None}]
    BY <1>0, HasLocalIs
  <2>5. CASE s.kind = "BUFFER_LOCAL"
    BY <2>1, <2>2, <2>3, <2>5 DEF OwnSet
  <2>6. CASE s.kind # "BUFFER_LOCAL" /\ OwnOf(s)[b] # None
    <3>1. OwnOf(r) = [OwnOf(s) EXCEPT ![b] = s.cval] /\ OwnOf(s)[b] = s.cval
      BY <2>1, <2>2, <2>3, <2>6 DEF ValueOf
    <3> QED BY <2>1, <2>2, <2>4, <2>6, <3>1 DEF SameAs
  <2>7. CASE s.kind # "BUFFER_LOCAL" /\ OwnOf(s)[b] = None
    BY <2>1, <2>2, <2>3, <2>7 DEF SameAs, ValueOf
  <2> QED BY <2>2, <2>5, <2>6, <2>7
<1> QED BY <1>1, <1>2

(* Putting X into the list of a buffer.                                    *)
LEMMA ListSet ==
  ASSUME NEW b \in Bufs, NEW s \in ValueCells, NEW x \in Contents \cup {None}
  PROVE  LET r == [s EXCEPT !.local[b] = x]
         IN  /\ r \in ValueCells
             /\ r.kind = s.kind /\ r.dflt = s.dflt /\ r.cval = s.cval /\ r.cbuf = s.cbuf
             /\ r.celt = s.celt /\ r.local = [s.local EXCEPT ![b] = x]
             /\ r.local[b] = x /\ \A c \in Bufs : c # b => r.local[c] = s.local[c]
BY DEF ValueCells

(* A buffer's list loses its value and the cache is no longer for it.      *)
LEMMA Uncached ==
  ASSUME NEW b \in Bufs, NEW s \in ValueCells, s.cbuf = b
  PROVE  LET m == [s EXCEPT !.local[b] = None, !.cbuf = IF @ = b THEN None ELSE @]
         IN  /\ m \in ValueCells
             /\ m.kind = s.kind /\ m.dflt = s.dflt /\ m.cbuf = None
             /\ m.local = [s.local EXCEPT ![b] = None]
BY DEF ValueCells

(* A value that is put into, or taken out of, a buffer's list while that   *)
(* buffer is not cached.                                                   *)
LEMMA ListChanged ==
  ASSUME NEW b \in Bufs, NEW s, Sound(s), s.kind # "plain", s.cbuf # b,
         NEW x \in Contents \cup {None}, NEW r \in ValueCells,
         r.kind = s.kind, r.dflt = s.dflt, r.cval = s.cval, r.cbuf = s.cbuf,
         r.celt = s.celt, r.local[b] = x, \A c \in Bufs : c # b => r.local[c] = s.local[c]
  PROVE  Sound(r) /\ OwnSet(r, s, b, x)
<1>0. s \in ValueCells
  BY DEF Sound
<1>6. s.cbuf # None => s.cbuf \in Bufs
  BY <1>0, CellTypes
<1>7. Sound(r)
  <2>1. s.cbuf # None => r.local[s.cbuf] = s.local[s.cbuf]
    BY <1>6
  <2> QED BY <2>1 DEF Sound
<1>8. DefaultOf(r) = DefaultOf(s)
  BY DEF DefaultOf
<1>9. OwnOf(r) = [OwnOf(s) EXCEPT ![b] = x]
  <2>1. OwnOf(r) = [c \in Bufs |-> IF r.local[c] = None THEN None
                                   ELSE IF r.cbuf = c THEN r.cval ELSE r.local[c]]
    BY <1>7, HasLocalIs
  <2>2. OwnOf(s) = [c \in Bufs |-> IF s.local[c] = None THEN None
                                   ELSE IF s.cbuf = c THEN s.cval ELSE s.local[c]]
    BY HasLocalIs
  <2>3. ASSUME NEW c \in Bufs
        PROVE  OwnOf(r)[c] = IF c = b THEN x ELSE OwnOf(s)[c]
    <3>1. OwnOf(r)[c] = IF r.local[c] = None THEN None
                        ELSE IF r.cbuf = c THEN r.cval ELSE r.local[c]
      BY <2>1
    <3>2. OwnOf(s)[c] = IF s.local[c] = None THEN None
                        ELSE IF s.cbuf = c THEN s.cval ELSE s.local[c]
      BY <2>2
    <3> QED BY <3>1, <3>2
  <2> QED BY <2>1, <2>2, <2>3
<1> QED BY <1>7, <1>8, <1>9 DEF OwnSet

(* The same, of the cell that the code makes.                              *)
LEMMA ListUpdated ==
  ASSUME NEW b \in Bufs, NEW s, Sound(s), s.kind # "plain", s.cbuf # b,
         NEW x \in Contents \cup {None}
  PROVE  LET r == [s EXCEPT !.local[b] = x]
         IN  /\ Sound(r) /\ OwnSet(r, s, b, x) /\ r.kind = s.kind /\ r.dflt = s.dflt
             /\ r.cbuf = s.cbuf /\ r.celt = s.celt /\ r.cval = s.cval
             /\ r.local[b] = x /\ \A d \in Bufs : d # b => r.local[d] = s.local[d]
<1> DEFINE r == [s EXCEPT !.local[b] = x]
<1>0. s \in ValueCells
  BY DEF Sound
<1>1. /\ r \in ValueCells
      /\ r.kind = s.kind /\ r.dflt = s.dflt /\ r.cval = s.cval /\ r.cbuf = s.cbuf
      /\ r.celt = s.celt
      /\ r.local[b] = x /\ \A d \in Bufs : d # b => r.local[d] = s.local[d]
  BY <1>0, ListSet
<1> HIDE DEF r
<1>2. Sound(r) /\ OwnSet(r, s, b, x)
  BY <1>1, ListChanged
<1> USE DEF r
<1> QED BY <1>1, <1>2

(* kill-local-variable removes the value of the current buffer, and        *)
(* nothing else unless an assignment to the default is only in its cache.  *)
LEMMA KilledLocalIs ==
  ASSUME NEW b \in Bufs, NEW s, Coherent(s, b), NEW r, r = KilledLocal(s, b)
  PROVE  Coherent(r, b) /\ (~PendingIn(s, b) => OwnSet(r, s, b, None))
<1>0. Sound(s) /\ s \in ValueCells
  BY DEF Coherent, Sound
<1>1. CASE s.kind = "plain"
  <2>1. r = s /\ s.local[b] = None
    BY <1>0, <1>1 DEF KilledLocal, Sound
  <2>2. OwnOf(s) \in [Bufs -> Contents \cup {None}] /\ OwnOf(s)[b] = None
    BY <1>0, <2>1, HasLocalIs
  <2>3. [OwnOf(s) EXCEPT ![b] = None] = OwnOf(s)
    BY <2>2
  <2> QED BY <2>1, <2>3 DEF OwnSet
<1>2. CASE s.kind # "plain" /\ s.cbuf # b
  <2> DEFINE k == [s EXCEPT !.local[b] = None]
  <2>0. None \in Contents \cup {None}
    OBVIOUS
  <2>1. Sound(k) /\ OwnSet(k, s, b, None) /\ k.cbuf = s.cbuf /\ k.local[b] = None
    BY <1>0, <1>2, <2>0, ListUpdated
  <2>2. r = set_up_buffer_local_cache(k, b, FALSE)
    <3>1. [s EXCEPT !.local[b] = None, !.cbuf = IF @ = b THEN None ELSE @] = k
      BY <1>0, <1>2, CellFields
    <3> QED BY <1>2, <3>1 DEF KilledLocal
  <2>4. k.kind # "plain"
    BY <1>2, <2>1 DEF OwnSet
  <2> HIDE DEF k
  <2>5. Coherent(r, b) /\ SameAs(r, k)
    BY <2>1, <2>2, <2>4, SetUpIs
  <2> QED BY <2>1, <2>5 DEF SameAs, OwnSet
<1>3. CASE s.kind # "plain" /\ s.cbuf = b
  <2> DEFINE l == [s.local EXCEPT ![b] = None]
  <2>0. /\ s.kind \in {"plain", "SOME_BUFFER_LOCAL", "BUFFER_LOCAL"}
        /\ s.dflt \in Contents /\ s.celt \in BOOLEAN
        /\ s.local \in [Bufs -> Contents \cup {None}]
    BY <1>0, CellTypes
  <2>1. /\ r \in ValueCells /\ r.kind = s.kind /\ r.dflt = s.dflt /\ r.cval = s.dflt
        /\ r.cbuf = b /\ ~r.celt /\ r.local = l
    <3> DEFINE k == [s EXCEPT !.local[b] = None, !.cbuf = IF @ = b THEN None ELSE @]
    <3>1. k \in ValueCells /\ k.kind = s.kind /\ k.dflt = s.dflt /\ k.cbuf = None /\ k.local = l
      BY <1>0, <1>3, Uncached
    <3>2. r = set_up_buffer_local_cache(k, b, FALSE)
      BY <1>3 DEF KilledLocal
    <3> HIDE DEF k, l
    <3>4. write_out_buffer_local_cache(k) = k
      BY <3>1 DEF write_out_buffer_local_cache
    <3>5. r = [k EXCEPT !.cbuf = b, !.celt = FALSE, !.cval = k.dflt]
      BY <3>1, <3>2, <3>4, Apart DEF set_up_buffer_local_cache
    <3> QED BY <2>0, <3>1, <3>5 DEF ValueCells
  <2>2. l \in [Bufs -> Contents \cup {None}] /\ l[b] = None
    BY <2>0
  <2>3. l = [OwnOf(s) EXCEPT ![b] = None]
    BY <1>0, <1>3, <2>0, HasLocalIs
  <2> HIDE DEF l
  <2>6. Coherent(r, b) /\ OwnOf(r) = l /\ DefaultOf(r) = s.dflt
    BY <1>3, <2>1, <2>2, CachedMeans
  <2>7. ~PendingIn(s, b) => DefaultOf(s) = s.dflt
    BY <1>3, Apart DEF DefaultOf, PendingIn, DefaultPending
  <2> QED BY <2>1, <2>3, <2>6, <2>7 DEF OwnSet
<1> QED BY <1>1, <1>2, <1>3

(* Killing the local variables of a buffer that is not current removes its *)
(* value, and the cache is never for it.                                   *)
LEMMA KilledAwayIs ==
  ASSUME NEW b \in Bufs, NEW c \in Bufs, b # c, NEW s, Coherent(s, c), NEW r,
         r = KilledAll(s, b, c) \/ r = [s EXCEPT !.local[b] = None]
  PROVE  Coherent(r, c) /\ OwnSet(r, s, b, None)
<1>0. Sound(s) /\ s \in ValueCells
  BY DEF Coherent, Sound
<1>1. CASE s.local[b] = None
  <2>1. r = s
    <3>1. [s.local EXCEPT ![b] = None] = s.local
      BY <1>0, <1>1, CellTypes
    <3>2. [s EXCEPT !.local[b] = None] = s
      BY <1>0, <3>1, CellFields
    <3> QED BY <1>1, <3>2 DEF KilledAll
  <2>2. OwnOf(s) \in [Bufs -> Contents \cup {None}] /\ OwnOf(s)[b] = None
    BY <1>0, <1>1, HasLocalIs
  <2>3. [OwnOf(s) EXCEPT ![b] = None] = OwnOf(s)
    BY <2>2
  <2> QED BY <2>1, <2>3 DEF OwnSet
<1>2. CASE s.local[b] # None
  <2>1. s.kind # "plain" /\ s.cbuf # b
    BY <1>0, <1>2, Apart DEF Coherent, Sound
  <2>2. r = [s EXCEPT !.local[b] = None]
    <3>1. [s EXCEPT !.local[b] = None, !.cbuf = IF @ = b THEN None ELSE @]
            = [s EXCEPT !.local[b] = None]
      BY <1>0, <2>1, CellFields
    <3> QED BY <1>2, <3>1 DEF KilledAll
  <2>3. /\ Sound(r) /\ OwnSet(r, s, b, None) /\ r.cbuf = s.cbuf /\ r.celt = s.celt
        /\ r.local[c] = s.local[c]
    <3>1. None \in Contents \cup {None}
      OBVIOUS
    <3> QED BY <1>0, <2>1, <2>2, <3>1, ListUpdated
  <2>5. Coherent(r, c)
    BY <2>3 DEF Coherent, OwnSet
  <2> QED BY <2>3, <2>5
<1> QED BY <1>1, <1>2

(* kill-all-local-variables removes the current buffer's value.            *)
LEMMA KilledHereIs ==
  ASSUME NEW b \in Bufs, NEW s, Coherent(s, b), NEW r, r = KilledAll(s, b, b)
  PROVE  Coherent(r, b) /\ OwnSet(r, s, b, None)
<1>0. Sound(s)
  BY DEF Coherent
<1>1. CASE s.local[b] = None
  <2>1. r = s
    BY <1>1 DEF KilledAll
  <2>2. OwnOf(s) \in [Bufs -> Contents \cup {None}] /\ OwnOf(s)[b] = None
    BY <1>0, <1>1, HasLocalIs
  <2>3. [OwnOf(s) EXCEPT ![b] = None] = OwnOf(s)
    BY <2>2
  <2> QED BY <2>1, <2>3 DEF OwnSet
<1>2. CASE s.local[b] # None
  <2>1. r = KilledLocal(s, b)
    BY <1>0, <1>2 DEF KilledAll, KilledLocal, Sound
  <2>2. ~PendingIn(s, b)
    BY <1>0, <1>2 DEF PendingIn, DefaultPending, Sound
  <2> QED BY <2>1, <2>2, KilledLocalIs
<1> QED BY <1>1, <1>2

(* make-local-variable leaves the cache in order, and copies the default   *)
(* to the current buffer as long as the cache has nothing else for it.     *)
LEMMA MadeOwnIs ==
  ASSUME NEW b \in Bufs, NEW s, Sound(s), s.kind = "SOME_BUFFER_LOCAL", ~s.celt,
         s.local[b] = None, Careful => ~DefaultPending(s), NEW r, r = MadeOwn(s, b)
  PROVE  /\ Coherent(r, b)
         /\ ~DefaultPending(s) =>
              OwnSet(r, s, b, IF DefaultOf(s) = Unbound THEN Nil ELSE DefaultOf(s))
<1>0. /\ s \in ValueCells /\ s.dflt \in Contents /\ s.cval \in Contents
      /\ s.local \in [Bufs -> Contents \cup {None}] /\ s.cbuf \in Bufs \cup {None}
  BY CellTypes DEF Sound
<1>1. /\ ~DefaultPending(s) => DefaultOf(s) = s.dflt
      /\ Careful => s.cval = s.dflt
  BY DEF DefaultOf, DefaultPending, Sound
<1>2. OwnOf(s) = s.local
  <2>1. \A c \in Bufs : s.cbuf = c => s.local[c] = None
    BY Apart DEF Sound
  <2> QED BY <1>0, <2>1, HasLocalIs
<1>3. CASE s.dflt = Unbound
  <2> DEFINE q == [s EXCEPT !.cbuf = b, !.celt = TRUE, !.local[b] = Nil, !.cval = Nil]
  <2>1. r = q
    BY <1>3 DEF MadeOwn
  <2>2. /\ q \in ValueCells /\ q.kind = s.kind /\ q.dflt = s.dflt /\ q.cval = Nil /\ q.cbuf = b
        /\ q.celt = TRUE /\ q.local = [s.local EXCEPT ![b] = Nil]
    BY <1>0, Apart DEF ValueCells
  <2> HIDE DEF q
  <2>3. q.local[b] # None
    BY <1>0, <2>2, Apart
  <2>4. /\ Coherent(q, b)
        /\ OwnOf(q) = [q.local EXCEPT ![b] = Nil] /\ DefaultOf(q) = s.dflt
    BY <2>2, <2>3, CachedMeans
  <2>5. OwnOf(q) = [s.local EXCEPT ![b] = Nil]
    BY <1>0, <2>2, <2>4
  <2> QED BY <1>1, <1>2, <1>3, <2>1, <2>2, <2>4, <2>5 DEF OwnSet
<1>4. CASE s.dflt # Unbound
  <2> DEFINE m == [s EXCEPT !.local[b] = s.dflt, !.cbuf = IF @ = b THEN None ELSE @]
  <2>1. r = IF forwards THEN set_up_buffer_local_cache(m, b, TRUE) ELSE m
    BY <1>4 DEF MadeOwn
  <2>2. /\ m \in ValueCells /\ m.kind = s.kind /\ m.dflt = s.dflt /\ m.cval = s.cval
        /\ m.cbuf = (IF s.cbuf = b THEN None ELSE s.cbuf) /\ m.celt = s.celt
        /\ m.local = [s.local EXCEPT ![b] = s.dflt]
    BY <1>0 DEF ValueCells
  <2> HIDE DEF m
  <2>3. m.local[b] = s.dflt /\ \A c \in Bufs : c # b => m.local[c] = s.local[c]
    BY <1>0, <2>2
  <2>4. Sound(m)
    <3>1. m.cbuf # None => m.cbuf \in Bufs /\ m.cbuf # b /\ m.cbuf = s.cbuf
      BY <1>0, <2>2, Apart
    <3>2. m.cbuf # None => m.local[m.cbuf] = None
      BY <2>3, <3>1 DEF Sound
    <3> QED BY <1>1, <2>2, <3>2 DEF Sound
  <2>5. ~DefaultPending(s) => DefaultOf(m) = s.dflt
    BY <1>1, <2>2, Apart DEF DefaultOf, DefaultPending
  <2>6. OwnOf(m) = m.local
    <3>1. \A c \in Bufs : m.cbuf = c => m.local[c] = None
      BY <2>2, <2>4, Apart DEF Sound
    <3>2. m.local \in [Bufs -> Contents \cup {None}]
      BY <2>2, CellTypes
    <3> QED BY <2>4, <3>1, <3>2, HasLocalIs
  <2>7. ~DefaultPending(s) => OwnSet(m, s, b, s.dflt)
    BY <1>1, <1>2, <2>2, <2>5, <2>6 DEF OwnSet
  <2>8. CASE forwards
    <3>1. m.local[b] # None /\ m.kind # "plain"
      BY <1>0, <2>2, <2>3, Apart
    <3>2. Coherent(r, b) /\ SameAs(r, m)
      BY <2>1, <2>4, <2>8, <3>1, SetUpIs
    <3> QED BY <1>1, <1>4, <2>7, <3>2 DEF SameAs, OwnSet
  <2>9. CASE ~forwards
    <3>1. r = m
      BY <2>1, <2>9
    <3>2. Coherent(m, b)
      BY <2>2, <2>4, <2>9 DEF Coherent
    <3> QED BY <1>1, <1>4, <2>7, <3>1, <3>2
  <2> QED BY <2>8, <2>9
<1> QED BY <1>3, <1>4

\* What make-local-variable copies.
Initially(s) == IF DefaultOf(s) = Unbound /\ s.kind # "BUFFER_LOCAL" THEN Nil ELSE DefaultOf(s)

\* It will not forget an assignment to the default.
MayMakeLocal(s, b) == s.kind = "SOME_BUFFER_LOCAL" => HasLocal(s, b) \/ ~DefaultPending(s)

(* make-local-variable gives the current buffer a value of its own, if it  *)
(* has none, and leaves the rest alone.                                    *)
LEMMA MadeLocalIs ==
  ASSUME NEW b \in Bufs, NEW s, Coherent(s, b), NEW r, r = MadeLocal(s, b),
         Careful => MayMakeLocal(s, b)
  PROVE  /\ Coherent(r, b)
         /\ MayMakeLocal(s, b) =>
              /\ r.kind = "BUFFER_LOCAL" <=> s.kind = "BUFFER_LOCAL"
              /\ DefaultOf(r) = DefaultOf(s)
              /\ OwnOf(r) = IF OwnOf(s)[b] # None THEN OwnOf(s)
                            ELSE [OwnOf(s) EXCEPT ![b] = Initially(s)]
<1>0. /\ Sound(s) /\ s \in ValueCells /\ s.cval \in Contents
      /\ s.kind \in {"plain", "SOME_BUFFER_LOCAL", "BUFFER_LOCAL"}
      /\ s.local \in [Bufs -> Contents \cup {None}]
  BY CellTypes DEF Coherent, Sound
<1>1. /\ HasLocal(s, b) <=> s.local[b] # None
      /\ OwnOf(s)[b] # None <=> s.local[b] # None
      /\ OwnOf(s) \in [Bufs -> Contents \cup {None}] /\ DefaultOf(s) \in Contents
  BY <1>0, HasLocalIs
<1>2. CASE s.kind = "BUFFER_LOCAL"
  <2> DEFINE q == Referenced(s, b)
  <2>1. Coherent(q, b) /\ SameAs(q, s) /\ q.cval = ValueOf(s, b)
    BY ReferencedIs
  <2>2. r = Fset(q, b, q.cval)
    BY <1>2 DEF MadeLocal, SetToItself
  <2>3. q.cval \in Contents
    BY <1>1, <2>1 DEF ValueOf
  <2> HIDE DEF q
  <2>4. Coherent(r, b) /\ OwnSet(r, q, b, q.cval)
    BY <1>2, <2>1, <2>2, <2>3, FsetIs DEF SameAs
  <2>5. /\ r.kind = s.kind /\ DefaultOf(r) = DefaultOf(s)
        /\ OwnOf(r) = [OwnOf(s) EXCEPT ![b] = ValueOf(s, b)]
    BY <2>1, <2>4 DEF SameAs, OwnSet
  <2>6. OwnOf(s)[b] # None => OwnOf(r) = OwnOf(s)
    BY <1>1, <2>5 DEF ValueOf
  <2> QED BY <1>2, <2>4, <2>5, <2>6 DEF ValueOf, Initially
<1>3. CASE s.kind = "SOME_BUFFER_LOCAL" /\ HasLocal(s, b)
  <2>1. r = IF forwards THEN set_up_buffer_local_cache(s, b, TRUE) ELSE s
    BY <1>3 DEF MadeLocal
  <2>2. Coherent(r, b) /\ SameAs(r, s)
    <3>1. CASE forwards
      BY <1>0, <1>1, <1>3, <2>1, <3>1, SetUpIs
    <3>2. CASE ~forwards
      BY <2>1, <3>2 DEF SameAs
    <3> QED BY <3>1, <3>2
  <2> QED BY <1>1, <1>3, <2>2 DEF SameAs
<1>4. CASE s.kind = "SOME_BUFFER_LOCAL" /\ ~HasLocal(s, b)
  <2>1. /\ r = MadeOwn(s, b) /\ (Careful => ~DefaultPending(s))
        /\ MayMakeLocal(s, b) => ~DefaultPending(s)
    BY <1>4 DEF MadeLocal, MayMakeLocal
  <2>2. ~s.celt
    BY <1>0, <1>1, <1>4, Apart DEF Coherent, Sound
  <2>3. /\ Coherent(r, b)
        /\ MayMakeLocal(s, b) =>
             OwnSet(r, s, b, IF DefaultOf(s) = Unbound THEN Nil ELSE DefaultOf(s))
    BY <1>0, <1>1, <1>4, <2>1, <2>2, MadeOwnIs
  <2> QED BY <1>1, <1>4, <2>3 DEF OwnSet, Initially
<1>5. CASE s.kind = "plain"
  <2> DEFINE q == [s EXCEPT !.kind = "SOME_BUFFER_LOCAL", !.cbuf = None, !.celt = FALSE,
                            !.dflt = s.cval]
  <2>1. r = MadeOwn(q, b)
    BY <1>5 DEF MadeLocal
  <2>2. /\ q \in ValueCells /\ q.kind = "SOME_BUFFER_LOCAL" /\ q.cbuf = None /\ q.celt = FALSE
        /\ q.dflt = s.cval /\ q.cval = s.cval /\ q.local = s.local
    BY <1>0 DEF ValueCells
  <2> HIDE DEF q
  <2>3. s.cbuf = None /\ \A c \in Bufs : s.local[c] = None
    BY <1>0, <1>5 DEF Sound
  <2>4. Sound(q) /\ ~DefaultPending(q)
    BY <2>2, Apart DEF Sound, DefaultPending
  <2>5. OwnOf(q) = OwnOf(s) /\ DefaultOf(q) = DefaultOf(s)
    <3>1. OwnOf(q) = [c \in Bufs |-> None]
      BY <2>2, <2>3, <2>4, HasLocalIs
    <3>2. OwnOf(s) = [c \in Bufs |-> None]
      BY <1>0, <2>3, HasLocalIs
    <3> QED BY <1>5, <2>2, <3>1, <3>2 DEF DefaultOf
  <2>6. /\ Coherent(r, b)
        /\ OwnSet(r, q, b, IF DefaultOf(q) = Unbound THEN Nil ELSE DefaultOf(q))
    BY <2>1, <2>2, <2>3, <2>4, MadeOwnIs
  <2> QED BY <1>1, <1>5, <2>2, <2>3, <2>5, <2>6 DEF OwnSet, Initially
<1> QED BY <1>0, <1>2, <1>3, <1>4, <1>5

(* set-default sets the default and nothing else.                          *)
LEMMA DefaultSetIs ==
  ASSUME NEW b \in Bufs, NEW s, Coherent(s, b), s.kind # "plain", NEW v \in Contents,
         NEW r \in ValueCells, r.kind = s.kind, r.dflt = v,
         r.cval = IF s.celt THEN s.cval ELSE v, r.cbuf = s.cbuf, r.celt = s.celt,
         r.local = s.local
  PROVE  Coherent(r, b) /\ r.kind = s.kind /\ DefaultOf(r) = v /\ OwnOf(r) = OwnOf(s)
<1>0. Sound(s) /\ s \in ValueCells
  BY DEF Coherent, Sound
<1>2. Sound(r) /\ Coherent(r, b)
  BY DEF Coherent, Sound
<1>3. DefaultOf(r) = v
  BY <1>0 DEF DefaultOf, Sound
<1>4. OwnOf(r) = OwnOf(s)
  <2>0. \A c \in Bufs : OwnOf(r)[c] = IF r.local[c] = None THEN None
                                      ELSE IF r.cbuf = c THEN r.cval ELSE r.local[c]
    BY <1>2, OwnIs
  <2>1. ASSUME NEW c \in Bufs PROVE OwnOf(r)[c] = OwnOf(s)[c]
    <3>1. OwnOf(r)[c] = IF s.local[c] = None THEN None
                        ELSE IF s.cbuf = c THEN r.cval ELSE s.local[c]
      BY <2>0
    <3>2. OwnOf(s)[c] = IF s.local[c] = None THEN None
                        ELSE IF s.cbuf = c THEN s.cval ELSE s.local[c]
      BY <1>0, HasLocalIs
    <3> QED BY <1>0, <3>1, <3>2, Apart DEF Sound
  <2> QED BY <1>0, <1>2, <2>1, HasLocalIs
<1> QED BY <1>2, <1>3, <1>4

(* An assignment to the C variable is one to the value of the current      *)
(* buffer.                                                                 *)
LEMMA AssignedIs ==
  ASSUME NEW b \in Bufs, NEW s, Coherent(s, b), forwards, NEW v \in Contents, NEW r,
         r = [s EXCEPT !.cval = v]
  PROVE  /\ Coherent(r, b)
         /\ IF OwnOf(s)[b] # None THEN OwnSet(r, s, b, v)
            ELSE r.kind = s.kind /\ OwnOf(r) = OwnOf(s) /\ DefaultOf(r) = v
<1>0. Sound(s) /\ s \in ValueCells
  BY DEF Coherent, Sound
<1>1. /\ r \in ValueCells /\ r.kind = s.kind /\ r.dflt = s.dflt
      /\ r.cval = v /\ r.cbuf = s.cbuf /\ r.celt = s.celt /\ r.local = s.local
  BY <1>0 DEF ValueCells
<1>2. Sound(r) /\ Coherent(r, b)
  BY <1>1 DEF Coherent, Sound
<1>3. OwnOf(s)[b] # None <=> s.local[b] # None
  BY <1>0, HasLocalIs
<1>4. \A c \in Bufs : OwnOf(r)[c] = IF r.local[c] = None THEN None
                                    ELSE IF r.cbuf = c THEN r.cval ELSE r.local[c]
  BY <1>2, OwnIs, Zenon
<1>5. \A c \in Bufs : OwnOf(s)[c] = IF s.local[c] = None THEN None
                                    ELSE IF s.cbuf = c THEN s.cval ELSE s.local[c]
  BY <1>0, HasLocalIs
<1>6. /\ OwnOf(s) \in [Bufs -> Contents \cup {None}]
      /\ OwnOf(r) \in [Bufs -> Contents \cup {None}]
  BY <1>0, <1>2, HasLocalIs
<1>7. CASE s.local[b] # None
  <2>1. s.cbuf = b /\ s.celt /\ s.kind # "plain"
    BY <1>0, <1>7, Apart DEF Coherent, Sound
  <2>2. ASSUME NEW c \in Bufs PROVE OwnOf(r)[c] = IF c = b THEN v ELSE OwnOf(s)[c]
    <3>1. OwnOf(r)[c] = IF s.local[c] = None THEN None
                        ELSE IF s.cbuf = c THEN v ELSE s.local[c]
      BY <1>1, <1>4, Zenon
    <3> QED BY <1>5, <1>7, <2>1, <3>1
  <2>3. OwnOf(r) = [OwnOf(s) EXCEPT ![b] = v]
    BY <1>6, <2>2
  <2>4. DefaultOf(r) = DefaultOf(s)
    BY <1>1, <2>1 DEF DefaultOf
  <2> QED BY <1>1, <1>2, <1>3, <1>7, <2>3, <2>4 DEF OwnSet
<1>8. CASE s.local[b] = None
  <2>1. ~s.celt /\ (s.kind # "plain" => s.cbuf # None)
    BY <1>0, <1>8, Apart DEF Coherent, Sound
  <2>2. \A c \in Bufs : s.cbuf = c => s.local[c] = None
    BY <1>0, <2>1, Apart DEF Sound
  <2>3. OwnOf(r) = OwnOf(s)
    BY <1>1, <1>4, <1>5, <1>6, <2>2
  <2>4. DefaultOf(r) = v
    BY <1>1, <2>1 DEF DefaultOf
  <2> QED BY <1>1, <1>2, <1>3, <1>8, <2>3, <2>4
<1> QED BY <1>7, <1>8

(* make-variable-buffer-local changes no value.                            *)
LEMMA TransmogrifiedIs ==
  ASSUME NEW b \in Bufs, NEW s, Coherent(s, b), NEW r, r = Transmogrified(s, b)
  PROVE  /\ Coherent(r, b) /\ r.kind = "BUFFER_LOCAL"
         /\ DefaultOf(r) = DefaultOf(s) /\ OwnOf(r) = OwnOf(s)
<1>0. Sound(s) /\ s \in ValueCells
  BY DEF Coherent, Sound
<1>1. CASE s.kind # "plain"
  <2>1. r = [s EXCEPT !.kind = "BUFFER_LOCAL"]
    BY <1>1 DEF Transmogrified
  <2>2. /\ r \in ValueCells /\ r.kind = "BUFFER_LOCAL" /\ r.dflt = s.dflt
        /\ r.cval = s.cval /\ r.cbuf = s.cbuf /\ r.celt = s.celt /\ r.local = s.local
    BY <1>0, <2>1 DEF ValueCells
  <2>3. Sound(r) /\ Coherent(r, b)
    BY <1>1, <2>2 DEF Coherent, Sound
  <2>4. \A c \in Bufs : HasLocal(r, c) = HasLocal(s, c)
    BY <2>2 DEF HasLocal
  <2>5. OwnOf(r) = OwnOf(s) /\ DefaultOf(r) = DefaultOf(s)
    BY <1>1, <2>2, <2>4 DEF OwnOf, DefaultOf
  <2> QED BY <2>2, <2>3, <2>5
<1>2. CASE s.kind = "plain"
  <2>1. r = [s EXCEPT !.kind = "BUFFER_LOCAL", !.cbuf = b, !.celt = FALSE,
                      !.dflt = IF s.cval = Unbound THEN Nil ELSE s.cval]
    BY <1>2 DEF Transmogrified
  <2>2. /\ r \in ValueCells /\ r.kind = "BUFFER_LOCAL" /\ r.cval = s.cval /\ r.cbuf = b
        /\ r.celt = FALSE /\ r.local = s.local
    BY <1>0, <2>1, Apart DEF ValueCells
  <2>3. \A c \in Bufs : s.local[c] = None
    BY <1>0, <1>2 DEF Sound
  <2>4. Coherent(r, b) /\ OwnOf(r) = s.local /\ DefaultOf(r) = s.cval
    BY <2>2, <2>3, CachedMeans
  <2>5. OwnOf(s) = s.local
    <3>1. s.local \in [Bufs -> Contents \cup {None}]
      BY <1>0, CellTypes
    <3> QED BY <1>0, <2>3, <3>1, HasLocalIs
  <2> QED BY <1>2, <2>2, <2>4, <2>5 DEF DefaultOf
<1> QED BY <1>1, <1>2

-----------------------------------------------------------------------------
(* The inductive invariant.                                                *)

Bindings == [type : {"default", "local", "wasnt_local"}, buf : Bufs \cup {None}, val : Contents]

IInv ==
  /\ Coherent(sv, current) /\ forwards \in BOOLEAN
  /\ live \subseteq Bufs /\ current \in live
  /\ pdl \in Seq(Bindings)

\* The same after a step that keeps forwards.
Kept ==
  /\ Coherent(sv', current') /\ forwards' = forwards
  /\ live' \subseteq Bufs /\ current' \in live'
  /\ pdl' \in Seq(Bindings)

\* The step is one of the simplest implementation, or none of it.
AbstractStep == [BL!Next]_(BL!localVars)

(* What is kept is the invariant of the next state.                        *)
LEMMA KeptIs ==
  ASSUME IInv, Kept
  PROVE  IInv'
<1>1. (Coherent(sv, current))'
  <2>1. forwards' = forwards /\ Coherent(sv', current')
    BY DEF Kept
  <2> QED BY <2>1 DEF Coherent, Sound, ValueCells, Contents
<1> QED BY <1>1 DEF IInv, Kept, Bindings, Contents

(* The mapped variables of the next state.                                 *)
LEMMA NextMapped == Own' = OwnOf(sv') /\ Default' = DefaultOf(sv')
BY DEF Own, Default, OwnOf, DefaultOf, HasLocal

(* The invariant makes the mapped variables well formed.                   *)
LEMMA Mapped ==
  ASSUME IInv
  PROVE  /\ current \in Bufs /\ sv \in ValueCells /\ Sound(sv)
         /\ Own \in [Bufs -> Contents \cup {None}] /\ Default \in Contents
         /\ \A b \in Bufs : HasLocal(sv, b) <=> Own[b] # None
         /\ \A b \in Bufs : ValueOf(sv, b) = BL!ValueIn(b)
<1>1. current \in Bufs /\ sv \in ValueCells /\ Sound(sv)
  BY DEF IInv, Coherent, Sound
<1>2. /\ Own \in [Bufs -> Contents \cup {None}] /\ Default \in Contents
      /\ \A b \in Bufs : HasLocal(sv, b) <=> Own[b] # None
  BY <1>1, HasLocalIs DEF Own, Default
<1>3. \A b \in Bufs : ValueOf(sv, b) = BL!ValueIn(b)
  BY DEF ValueOf, BL!ValueIn, Own, Default
<1> QED BY <1>1, <1>2, <1>3

(* An assignment in the current buffer, from a cell that may have been     *)
(* looked up just before.                                                  *)
LEMMA AssignStep ==
  ASSUME IInv, NEW s, Coherent(s, current), SameAs(s, sv), NEW v \in Contents,
         sv' = Fset(s, current, v)
  PROVE  /\ Coherent(sv', current) /\ BL!Assign(current, v)
         /\ (sv.kind = "BUFFER_LOCAL")' = (sv.kind = "BUFFER_LOCAL")
<1>1. current \in Bufs
  BY Mapped
<1>2. /\ Coherent(sv', current)
      /\ IF OwnOf(s)[current] # None \/ s.kind = "BUFFER_LOCAL" THEN OwnSet(sv', s, current, v)
         ELSE sv'.kind = s.kind /\ OwnOf(sv') = OwnOf(s) /\ DefaultOf(sv') = v
  BY <1>1, FsetIs
<1>3. s.kind = sv.kind /\ OwnOf(s) = Own /\ DefaultOf(s) = Default
  BY DEF SameAs, Own, Default
<1>4. CASE Own[current] # None \/ sv.kind = "BUFFER_LOCAL"
  <2>1. Own' = [Own EXCEPT ![current] = v] /\ Default' = Default /\ sv'.kind = sv.kind
    BY <1>2, <1>3, <1>4, NextMapped DEF OwnSet
  <2> QED BY <1>2, <1>4, <2>1 DEF BL!Assign
<1>5. CASE ~(Own[current] # None \/ sv.kind = "BUFFER_LOCAL")
  <2>1. Own' = Own /\ Default' = v /\ sv'.kind = sv.kind
    BY <1>2, <1>3, <1>5, NextMapped
  <2> QED BY <1>2, <1>5, <2>1 DEF BL!Assign
<1> QED BY <1>4, <1>5

(* A step that changes nothing Lisp can see.                               *)
LEMMA HiddenStep ==
  ASSUME SameAs(sv', sv), UNCHANGED <<current, live, pdl>>
  PROVE  AbstractStep
<1>1. Own' = Own /\ Default' = Default /\ sv'.kind = sv.kind
  BY NextMapped DEF SameAs, Own, Default
<1> QED BY <1>1 DEF AbstractStep, BL!localVars

(* Assignments of Lisp and C, and references.                              *)
LEMMA SetSteps ==
  ASSUME IInv,
         \/ \E v \in Contents : Set(v)
         \/ \E v \in Values : SetDefault(v) \/ AssignC(v)
         \/ SetRefused \/ SymbolValue
  PROVE  Kept /\ AbstractStep
<1>0. /\ current \in Bufs /\ sv \in ValueCells /\ Sound(sv) /\ Coherent(sv, current)
      /\ Own \in [Bufs -> Contents \cup {None}] /\ Default \in Contents
      /\ live \subseteq Bufs /\ current \in live /\ pdl \in Seq(Bindings)
  BY Mapped DEF IInv
<1>1. UNCHANGED <<current, live, forwards, pdl>>
  BY DEF Set, SetDefault, AssignC, SetRefused, SymbolValue
<1>2. SUFFICES Coherent(sv', current) /\ AbstractStep
  BY <1>0, <1>1 DEF Kept
<1>3. ASSUME NEW v \in Contents, sv' = Fset(sv, current, v)
      PROVE  Coherent(sv', current) /\ BL!Set(v)
  <2>1. /\ Coherent(sv', current) /\ BL!Assign(current, v)
        /\ (sv.kind = "BUFFER_LOCAL")' = (sv.kind = "BUFFER_LOCAL")
    BY <1>0, <1>3, AssignStep DEF SameAs
  <2> QED BY <1>1, <2>1 DEF BL!Set
<1>4. ASSUME NEW v \in Contents, Set(v)
      PROVE  Coherent(sv', current) /\ AbstractStep
  BY <1>3, <1>4 DEF Set, AbstractStep, BL!Next, BL!Contents, Contents
<1>5. ASSUME NEW v \in Values, SetDefault(v)
      PROVE  Coherent(sv', current) /\ AbstractStep
  <2>1. v \in Contents
    BY Apart
  <2>2. CASE sv.kind = "plain"
    BY <1>3, <1>5, <2>1, <2>2 DEF SetDefault, AbstractStep, BL!Next, BL!Contents, Contents
  <2>3. CASE sv.kind # "plain"
    <3>1. sv' = [sv EXCEPT !.dflt = v, !.cval = IF sv.celt THEN @ ELSE v]
      BY <1>5, <2>3 DEF SetDefault
    <3>2. /\ sv' \in ValueCells /\ sv'.kind = sv.kind /\ sv'.dflt = v
          /\ sv'.cval = (IF sv.celt THEN sv.cval ELSE v) /\ sv'.cbuf = sv.cbuf
          /\ sv'.celt = sv.celt /\ sv'.local = sv.local
      BY <1>0, <2>1, <3>1 DEF ValueCells
    <3>3. /\ Coherent(sv', current) /\ sv'.kind = sv.kind /\ DefaultOf(sv') = v
          /\ OwnOf(sv') = OwnOf(sv)
      BY <1>0, <2>1, <2>3, <3>2, DefaultSetIs
    <3>4. Own' = Own /\ Default' = v
      BY <3>3, NextMapped DEF Own
    <3>5. BL!SetDefault(v)
      BY <1>1, <3>3, <3>4 DEF BL!SetDefault
    <3> QED BY <3>3, <3>5 DEF AbstractStep, BL!Next
  <2> QED BY <2>2, <2>3
<1>6. ASSUME NEW v \in Values, AssignC(v)
      PROVE  Coherent(sv', current) /\ AbstractStep
  <2>1. v \in Contents /\ forwards /\ sv' = [sv EXCEPT !.cval = v]
    BY <1>6, Apart DEF AssignC
  <2>2. /\ Coherent(sv', current)
        /\ IF OwnOf(sv)[current] # None THEN OwnSet(sv', sv, current, v)
           ELSE sv'.kind = sv.kind /\ OwnOf(sv') = OwnOf(sv) /\ DefaultOf(sv') = v
    BY <1>0, <2>1, AssignedIs
  <2>3. /\ sv'.kind = sv.kind
        /\ IF Own[current] # None THEN Own' = [Own EXCEPT ![current] = v] /\ Default' = Default
           ELSE Own' = Own /\ Default' = v
    BY <2>2, NextMapped DEF OwnSet, Own, Default
  <2>4. BL!AssignC(v)
    BY <1>1, <2>3 DEF BL!AssignC
  <2> QED BY <2>2, <2>4 DEF AbstractStep, BL!Next
<1>7. ASSUME SetRefused
      PROVE  Coherent(sv', current) /\ AbstractStep
  <2>1. forwards /\ sv' = Prepared(sv, current)
    BY <1>7 DEF SetRefused
  <2>2. /\ Coherent(sv', current)
        /\ IF sv.kind = "BUFFER_LOCAL" THEN OwnSet(sv', sv, current, ValueOf(sv, current))
           ELSE SameAs(sv', sv)
    BY <1>0, <2>1, RefusedIs
  <2>3. CASE sv.kind = "BUFFER_LOCAL"
    <3>1. /\ sv'.kind = sv.kind /\ Default' = Default
          /\ Own' = [Own EXCEPT ![current] = BL!ValueIn(current)]
      BY <1>0, <2>2, <2>3, Mapped, NextMapped DEF OwnSet, Own, Default
    <3>2. BL!SetRefused
      BY <1>1, <2>3, <3>1 DEF BL!SetRefused
    <3> QED BY <2>2, <3>2 DEF AbstractStep, BL!Next
  <2>4. CASE sv.kind # "BUFFER_LOCAL"
    BY <1>1, <2>2, <2>4, HiddenStep
  <2> QED BY <2>3, <2>4
<1>8. ASSUME SymbolValue
      PROVE  Coherent(sv', current) /\ AbstractStep
  <2>1. Coherent(sv', current) /\ SameAs(sv', sv)
    BY <1>0, <1>8, ReferencedIs DEF SymbolValue
  <2> QED BY <1>1, <2>1, HiddenStep
<1> QED BY <1>4, <1>5, <1>6, <1>7, <1>8

(* A value of the current buffer that goes, and what the simplest          *)
(* implementation makes of it.                                             *)
LEMMA OwnMapped ==
  ASSUME NEW b, NEW x, OwnSet(sv', sv, b, x)
  PROVE  Own' = [Own EXCEPT ![b] = x] /\ Default' = Default /\ sv'.kind = sv.kind
BY NextMapped DEF OwnSet, Own, Default

(* Making and killing local values.                                        *)
LEMMA LocalSteps ==
  ASSUME IInv,
         \/ MakeVariableBufferLocal \/ MakeLocalVariable
         \/ KillLocalVariable \/ KillAllLocalVariables
  PROVE  Kept /\ (Careful => AbstractStep)
<1>0. /\ current \in Bufs /\ sv \in ValueCells /\ Sound(sv) /\ Coherent(sv, current)
      /\ Own \in [Bufs -> Contents \cup {None}] /\ Default \in Contents
      /\ live \subseteq Bufs /\ current \in live /\ pdl \in Seq(Bindings)
  BY Mapped DEF IInv
<1>1. UNCHANGED <<current, live, forwards, pdl>>
  BY DEF MakeVariableBufferLocal, MakeLocalVariable, KillLocalVariable, KillAllLocalVariables
<1>2. SUFFICES Coherent(sv', current) /\ (Careful => AbstractStep)
  BY <1>0, <1>1 DEF Kept
<1>3. CASE MakeVariableBufferLocal
  <2>1. /\ Coherent(sv', current) /\ sv'.kind = "BUFFER_LOCAL"
        /\ DefaultOf(sv') = DefaultOf(sv) /\ OwnOf(sv') = OwnOf(sv)
    BY <1>0, <1>3, TransmogrifiedIs DEF MakeVariableBufferLocal
  <2>2. Own' = Own /\ Default' = Default
    BY <2>1, NextMapped DEF Own, Default
  <2>3. BL!MakeVariableBufferLocal
    BY <1>1, <2>1, <2>2 DEF BL!MakeVariableBufferLocal
  <2> QED BY <2>1, <2>3 DEF AbstractStep, BL!Next
<1>4. CASE MakeLocalVariable
  <2>1. /\ sv' = MadeLocal(sv, current)
        /\ Careful => MayMakeLocal(sv, current)
    BY <1>4 DEF MakeLocalVariable, MayMakeLocal
  <2>2. /\ Coherent(sv', current)
        /\ MayMakeLocal(sv, current) =>
             /\ sv'.kind = "BUFFER_LOCAL" <=> sv.kind = "BUFFER_LOCAL"
             /\ DefaultOf(sv') = DefaultOf(sv)
             /\ OwnOf(sv') = IF OwnOf(sv)[current] # None THEN OwnOf(sv)
                             ELSE [OwnOf(sv) EXCEPT ![current] = Initially(sv)]
    BY <1>0, <2>1, MadeLocalIs
  <2>3. ASSUME Careful
        PROVE  /\ Default' = Default
               /\ Own' = IF Own[current] # None THEN Own ELSE [Own EXCEPT ![current] = Default]
    <3>1. Own[current] = None => ~Void(sv) /\ (sv.kind = "SOME_BUFFER_LOCAL" => ~DefaultPending(sv))
      BY <1>0, <1>4, <2>3, Mapped DEF MakeLocalVariable
    <3>2. Own[current] = None => Initially(sv) = Default
      BY <3>1, CellTypes, <1>0 DEF Void, Initially, Default, DefaultOf, DefaultPending
    <3> QED BY <2>1, <2>2, <2>3, <3>2, NextMapped DEF Own, Default
  <2>4. Careful => BL!MakeLocalVariable
    BY <1>1, <2>1, <2>2, <2>3 DEF BL!MakeLocalVariable
  <2> QED BY <2>2, <2>4 DEF AbstractStep, BL!Next
<1>5. CASE KillLocalVariable \/ KillAllLocalVariables
  <2>1. Coherent(sv', current) /\ (Careful => OwnSet(sv', sv, current, None))
    <3>1. CASE KillLocalVariable
      BY <1>0, <3>1, KilledLocalIs DEF KillLocalVariable
    <3>2. CASE KillAllLocalVariables
      BY <1>0, <3>2, KilledHereIs DEF KillAllLocalVariables
    <3> QED BY <1>5, <3>1, <3>2
  <2>2. Careful => BL!KillLocalVariable
    BY <1>1, <2>1, OwnMapped DEF BL!KillLocalVariable
  <2> QED BY <2>1, <2>2 DEF AbstractStep, BL!Next
<1> QED BY <1>3, <1>4, <1>5

(* Switching to another buffer.                                            *)
LEMMA SetBufferStep ==
  ASSUME IInv, NEW b \in Bufs, SetBuffer(b)
  PROVE  Kept /\ AbstractStep
<1>0. /\ current \in Bufs /\ Coherent(sv, current)
      /\ live \subseteq Bufs /\ current \in live /\ pdl \in Seq(Bindings)
  BY Mapped DEF IInv
<1>1. /\ b \in live /\ current' = b /\ sv' = Switched(sv, current, b)
      /\ live' = live /\ forwards' = forwards /\ pdl' = pdl
  BY DEF SetBuffer
<1>2. Coherent(sv', b) /\ SameAs(sv', sv)
  BY <1>0, <1>1, SwitchedIs
<1>3. Own' = Own /\ Default' = Default /\ sv'.kind = sv.kind
  BY <1>2, NextMapped DEF SameAs, Own, Default
<1>4. BL!SetBuffer(b)
  BY <1>1, <1>3 DEF BL!SetBuffer
<1> QED BY <1>0, <1>1, <1>2, <1>4 DEF Kept, AbstractStep, BL!Next

(* Killing a buffer.                                                       *)
LEMMA KillBufferStep ==
  ASSUME IInv, NEW b \in Bufs, NEW other \in Bufs, NEW permanent \in BOOLEAN,
         KillBuffer(b, other, permanent)
  PROVE  Kept /\ AbstractStep
<1>0. /\ current \in Bufs /\ Coherent(sv, current)
      /\ live \subseteq Bufs /\ current \in live /\ pdl \in Seq(Bindings)
  BY Mapped DEF IInv
<1> DEFINE s == IF current = b THEN Switched(sv, b, other)
                ELSE Switched(Switched(sv, current, b), b, current)
<1>1. /\ b \in live /\ other \in live \ {b} /\ (current # b => other = current)
      /\ current' = other /\ live' = live \ {b} /\ forwards' = forwards /\ pdl' = pdl
      /\ sv' = IF permanent THEN [s EXCEPT !.local[b] = None] ELSE KilledAll(s, b, other)
  BY DEF KillBuffer
<1>2. Coherent(s, other) /\ SameAs(s, sv)
  <2>1. CASE current = b
    BY <1>0, <2>1, SwitchedIs
  <2>2. CASE current # b
    <3> DEFINE t == Switched(sv, current, b)
    <3>1. Coherent(t, b) /\ SameAs(t, sv)
      BY <1>0, SwitchedIs
    <3> HIDE DEF t
    <3>2. Coherent(Switched(t, b, current), current) /\ SameAs(Switched(t, b, current), t)
      BY <1>0, <3>1, SwitchedIs
    <3>3. s = Switched(t, b, current) /\ other = current
      BY <1>1, <2>2 DEF t
    <3> QED BY <3>1, <3>2, <3>3 DEF SameAs
  <2> QED BY <2>1, <2>2
<1> HIDE DEF s
<1>3. Coherent(sv', other) /\ OwnSet(sv', s, b, None)
  BY <1>1, <1>2, KilledAwayIs
<1>4. OwnSet(sv', sv, b, None)
  BY <1>2, <1>3 DEF OwnSet, SameAs
<1>5. BL!KillBuffer(b, other)
  BY <1>1, <1>4, OwnMapped DEF BL!KillBuffer
<1> QED BY <1>0, <1>1, <1>3, <1>5 DEF Kept, AbstractStep, BL!Next

(* Binding the variable.                                                   *)
LEMMA BindStep ==
  ASSUME IInv, NEW v \in Values, Bind(v)
  PROVE  Kept /\ AbstractStep
<1>0. /\ current \in Bufs /\ Coherent(sv, current) /\ v \in Contents
      /\ Own \in [Bufs -> Contents \cup {None}] /\ Default \in Contents
      /\ HasLocal(sv, current) <=> Own[current] # None
      /\ live \subseteq Bufs /\ current \in live /\ pdl \in Seq(Bindings)
      /\ ValueOf(sv, current) = BL!ValueIn(current)
  BY Mapped, Apart DEF IInv
<1> DEFINE r == Referenced(sv, current)
<1>1. Coherent(r, current) /\ SameAs(r, sv) /\ r.cval = BL!ValueIn(current)
  BY <1>0, ReferencedIs
<1>2. SameAs(sv, sv)
  BY DEF SameAs
<1>3. Len(pdl) < MaxDepth /\ UNCHANGED <<current, live, forwards>>
  BY DEF Bind
<1>4. \/ /\ NeverLocal(sv, current)
         /\ pdl' = <<[type |-> "default", buf |-> None, val |-> r.cval]>> \o pdl
         /\ sv' = Fset(r, current, v)
      \/ /\ HasLocal(sv, current)
         /\ pdl' = <<[type |-> "local", buf |-> current, val |-> r.cval]>> \o pdl
         /\ sv' = Fset(r, current, v)
      \/ /\ ~HasLocal(sv, current) /\ ~NeverLocal(sv, current)
         /\ pdl' = <<[type |-> "wasnt_local", buf |-> current, val |-> Nil]>> \o pdl
         /\ sv' = Fset(sv, current, v)
  BY DEF Bind
<1> HIDE DEF r
<1>5. pdl' = <<BL!Binding>> \o pdl
  <2>1. CASE Own[current] # None
    <3>1. pdl' = <<[type |-> "local", buf |-> current, val |-> r.cval]>> \o pdl
      BY <1>0, <1>4, <2>1 DEF NeverLocal
    <3>2. r.cval = Own[current]
      BY <1>1, <2>1 DEF BL!ValueIn
    <3> QED BY <2>1, <3>1, <3>2 DEF BL!Binding
  <2>2. CASE Own[current] = None /\ sv.kind = "BUFFER_LOCAL"
    <3>1. pdl' = <<[type |-> "wasnt_local", buf |-> current, val |-> Nil]>> \o pdl
      BY <1>0, <1>4, <2>2 DEF NeverLocal
    <3> QED BY <2>2, <3>1 DEF BL!Binding
  <2>3. CASE Own[current] = None /\ sv.kind # "BUFFER_LOCAL"
    <3>1. pdl' = <<[type |-> "default", buf |-> None, val |-> r.cval]>> \o pdl
      BY <1>0, <1>4, <2>3 DEF NeverLocal
    <3>2. r.cval = Default
      BY <1>1, <2>3 DEF BL!ValueIn
    <3> QED BY <2>3, <3>1, <3>2 DEF BL!Binding
  <2> QED BY <2>1, <2>2, <2>3
<1>6. /\ Coherent(sv', current) /\ BL!Assign(current, v)
      /\ (sv.kind = "BUFFER_LOCAL")' = (sv.kind = "BUFFER_LOCAL")
  <2>1. CASE sv' = Fset(r, current, v)
    BY <1>0, <1>1, <2>1, AssignStep
  <2>2. CASE sv' = Fset(sv, current, v)
    BY <1>0, <1>2, <2>2, AssignStep
  <2> QED BY <1>4, <2>1, <2>2
<1>7. pdl' \in Seq(Bindings)
  <2>1. BL!Binding \in Bindings
    <3>1. CASE Own[current] # None
      <4>1. Own[current] \in Contents
        BY <1>0, <3>1
      <4> QED BY <1>0, <3>1, <4>1 DEF BL!Binding, Bindings
    <3>2. CASE Own[current] = None
      BY <1>0, <3>2, Apart DEF BL!Binding, Bindings
    <3> QED BY <3>1, <3>2
  <2> HIDE DEF Bindings
  <2> QED BY <1>0, <1>5, <2>1
<1>8. BL!Bind(v)
  BY <1>3, <1>5, <1>6 DEF BL!Bind
<1> QED BY <1>0, <1>3, <1>6, <1>7, <1>8 DEF Kept, AbstractStep, BL!Next

(* Restoring a binding in the buffer it was made in, which need not be the *)
(* current one.                                                            *)
LEMMA RestoredIs ==
  ASSUME NEW c \in Bufs, c = current, NEW s, Coherent(s, c), NEW e, e.buf \in Bufs,
         e.val \in Contents, e.type \in {"local", "wasnt_local"},
         OwnOf(s)[e.buf] # None \/ s.kind = "BUFFER_LOCAL", NEW r, r = Restored(s, e)
  PROVE  /\ Coherent(r, c)
         /\ (e.type = "wasnt_local" => ~PendingIn(s, e.buf)) =>
              OwnSet(r, s, e.buf, IF e.type = "local" THEN e.val ELSE None)
<1> DEFINE b == e.buf
           x == IF e.type = "local" THEN e.val ELSE None
           there == IF b = c THEN s ELSE Switched(s, c, b)
           done == IF e.type = "local" THEN Fset(there, b, e.val) ELSE KilledLocal(there, b)
           clean == e.type = "wasnt_local" => ~PendingIn(s, b)
<1>1. r = IF b = c THEN done ELSE Switched(done, b, c)
  BY DEF Restored
<1>2. /\ Coherent(there, b) /\ SameAs(there, s)
      /\ PendingIn(there, b) => PendingIn(s, b)
  <2>1. CASE b = c
    BY <2>1 DEF SameAs
  <2>2. CASE b # c
    BY <2>2, SwitchedIs
  <2> QED BY <2>1, <2>2
<1> HIDE DEF there
<1>3. Coherent(done, b) /\ (clean => OwnSet(done, there, b, x))
  <2>1. CASE e.type = "local"
    <3>1. OwnOf(there)[b] # None \/ there.kind = "BUFFER_LOCAL"
      BY <1>2 DEF SameAs
    <3> QED BY <1>2, <2>1, <3>1, FsetIs
  <2>2. CASE e.type = "wasnt_local"
    BY <1>2, <2>2, KilledLocalIs
  <2> QED BY <2>1, <2>2
<1>4. clean => OwnSet(done, s, b, x)
  BY <1>2, <1>3 DEF SameAs, OwnSet
<1> HIDE DEF done
<1>5. CASE b = c
  BY <1>1, <1>3, <1>4, <1>5
<1>6. CASE b # c
  <2>1. Coherent(r, c) /\ SameAs(r, done)
    BY <1>1, <1>3, <1>6, SwitchedIs
  <2> QED BY <1>4, <2>1 DEF SameAs, OwnSet
<1> QED BY <1>5, <1>6

(* Leaving a binding.                                                      *)
LEMMA UnbindStep ==
  ASSUME IInv, Unbind
  PROVE  Kept /\ (Careful => AbstractStep)
<1>0. /\ current \in Bufs /\ Coherent(sv, current)
      /\ \A b \in Bufs : HasLocal(sv, b) <=> Own[b] # None
      /\ live \subseteq Bufs /\ current \in live /\ pdl \in Seq(Bindings)
  BY Mapped DEF IInv
<1> DEFINE e == pdl[1]
<1>1. /\ pdl # << >> /\ pdl' = Tail(pdl) /\ UNCHANGED <<current, live, forwards>>
      /\ Careful => (e.type = "wasnt_local" => ~PendingIn(sv, e.buf))
      /\ Careful => (e.type = "default" => NeverLocal(sv, current))
      /\ sv' = IF e.type = "default" THEN Fset(sv, current, e.val)
               ELSE IF Obsolete(e) THEN sv
               ELSE Restored(sv, e)
  BY DEF Unbind
<1>2. pdl' \in Seq(Bindings) /\ e \in Bindings
  <2> HIDE DEF Bindings
  <2> QED BY <1>0, <1>1
<1>3. e.type \in {"default", "local", "wasnt_local"} /\ e.val \in Contents
  BY <1>2 DEF Bindings
<1>4. CASE e.type = "default"
  <2>1. SameAs(sv, sv)
    BY DEF SameAs
  <2>2. /\ Coherent(sv', current) /\ BL!Assign(current, e.val)
        /\ (sv.kind = "BUFFER_LOCAL")' = (sv.kind = "BUFFER_LOCAL")
    BY <1>0, <1>1, <1>3, <1>4, <2>1, AssignStep
  <2>3. Careful => Default' = e.val /\ Own' = Own
    BY <1>0, <1>1, <1>4, <2>2 DEF NeverLocal, BL!Assign
  <2>4. Careful => BL!Unbind
    BY <1>1, <1>4, <2>2, <2>3 DEF BL!Unbind
  <2> QED BY <1>0, <1>1, <1>2, <2>2, <2>4 DEF Kept, AbstractStep, BL!Next
<1>5. CASE e.type # "default"
  <2>1. Obsolete(e) <=> BL!Obsolete(e)
    BY <1>0 DEF Obsolete, BL!Obsolete, NeverLocal
  <2>2. CASE Obsolete(e)
    <3>1. sv' = sv
      BY <1>1, <1>5, <2>2
    <3>2. Own' = Own /\ Default' = Default /\ sv'.kind = sv.kind
      BY <3>1, NextMapped DEF Own, Default
    <3>3. BL!Unbind
      BY <1>1, <1>5, <2>1, <2>2, <3>2 DEF BL!Unbind
    <3> QED BY <1>0, <1>1, <1>2, <3>1, <3>3 DEF Kept, AbstractStep, BL!Next
  <2>3. CASE ~Obsolete(e)
    <3>1. sv' = Restored(sv, e)
      BY <1>1, <1>5, <2>3
    <3>2. e.buf \in Bufs /\ (Own[e.buf] # None \/ sv.kind = "BUFFER_LOCAL")
      BY <1>0, <2>3 DEF Obsolete, NeverLocal
    <3>3. /\ Coherent(sv', current)
          /\ Careful => OwnSet(sv', sv, e.buf, IF e.type = "local" THEN e.val ELSE None)
      BY <1>0, <1>1, <1>3, <1>5, <3>1, <3>2, RestoredIs DEF Own
    <3>4. Careful =>
            /\ Own' = [Own EXCEPT ![e.buf] = IF e.type = "local" THEN e.val ELSE None]
            /\ Default' = Default /\ sv'.kind = sv.kind
      BY <3>3, OwnMapped
    <3>5. Careful => BL!Unbind
      BY <1>1, <1>5, <2>1, <2>3, <3>4 DEF BL!Unbind
    <3> QED BY <1>0, <1>1, <1>2, <3>3, <3>5 DEF Kept, AbstractStep, BL!Next
  <2> QED BY <2>2, <2>3
<1> QED BY <1>4, <1>5

(* Every step keeps the cache in order and, as long as Lisp is careful, is *)
(* one of the simplest implementation, or none.                            *)
LEMMA StepKeeps ==
  ASSUME IInv, [Next]_vars
  PROVE  IInv' /\ (Careful => AbstractStep)
<1>1. CASE UNCHANGED vars
  <2>1. sv' = sv /\ UNCHANGED <<current, live, forwards, pdl>>
    BY <1>1 DEF vars
  <2>2. Kept
    BY <2>1 DEF Kept, IInv
  <2>3. AbstractStep
    BY <2>1, HiddenStep DEF SameAs
  <2> QED BY <2>2, <2>3, KeptIs
<1>2. CASE Next
  <2>1. Kept /\ (Careful => AbstractStep)
    BY <1>2, SetSteps, LocalSteps, SetBufferStep, KillBufferStep, BindStep, UnbindStep DEF Next
  <2> QED BY <2>1, KeptIs
<1> QED BY <1>1, <1>2

(* A variable starts as the simplest implementation says.                  *)
LEMMA Starts ==
  ASSUME Init
  PROVE  IInv /\ BL!Init
<1>1. PICK v \in Contents :
        sv = [kind |-> "plain", dflt |-> v, cval |-> v, cbuf |-> None, celt |-> FALSE,
              local |-> [b \in Bufs |-> None]]
  BY Apart DEF Init
<1>2. /\ current \in Bufs /\ live = Bufs /\ forwards \in BOOLEAN /\ pdl = << >>
  BY DEF Init
<1>3. sv \in ValueCells
  BY <1>1 DEF ValueCells
<1>4. Sound(sv) /\ Coherent(sv, current)
  BY <1>1, <1>2, <1>3 DEF Coherent, Sound
<1>5. OwnOf(sv) = [b \in Bufs |-> None] /\ DefaultOf(sv) = v
  BY <1>1, <1>4, HasLocalIs DEF DefaultOf
<1>6. << >> \in Seq(Bindings)
  OBVIOUS
<1>7. IInv
  BY <1>2, <1>4, <1>6 DEF IInv
<1>8. BL!Init
  BY <1>1, <1>2, <1>5 DEF BL!Init, Own, Default, BL!Contents, Contents
<1> QED BY <1>7, <1>8

(* The value cell, the buffers and the bindings are always well formed.    *)
THEOREM TypeCorrect == Spec => []TypeOK
<1>1. Init => IInv
  BY Starts
<1>2. IInv /\ [Next]_vars => IInv'
  BY StepKeeps
<1>3. IInv => TypeOK
  BY DEF IInv, TypeOK, Coherent, Sound, Bindings
<1> QED BY <1>1, <1>2, <1>3, PTL DEF Spec

(* The cache is always right about the buffer it is for, and never holds   *)
(* the own value of a buffer that is not current.                          *)
THEOREM CacheAlwaysCoherent == Spec => []CacheCoherent
<1>1. Init => IInv
  BY Starts
<1>2. IInv /\ [Next]_vars => IInv'
  BY StepKeeps
<1>3. IInv => CacheCoherent
  BY DEF IInv, CacheCoherent, Coherent, Sound
<1> QED BY <1>1, <1>2, <1>3, PTL DEF Spec

(* C code that reads the C variable of a buffer-local variable always gets *)
(* the current buffer's value.                                             *)
THEOREM CVariableAlwaysCurrent == Spec => []CVariableCurrent
<1>1. Init => IInv
  BY Starts
<1>2. IInv /\ [Next]_vars => IInv'
  BY StepKeeps
<1>3. ASSUME IInv PROVE CVariableCurrent
  <2> SUFFICES ASSUME forwards PROVE sv.cval = ValueIn(current)
    BY DEF CVariableCurrent
  <2>1. current \in Bufs /\ Sound(sv) /\ Coherent(sv, current)
    BY <1>3, Mapped DEF IInv
  <2>2. Own[current] = IF sv.local[current] = None THEN None
                       ELSE IF sv.cbuf = current THEN sv.cval ELSE sv.local[current]
    BY <2>1, OwnIs DEF Own
  <2>3. Own[current] # None <=> sv.local[current] # None
    BY <2>1, HasLocalIs DEF Own
  <2>4. CASE sv.local[current] # None
    BY <2>1, <2>2, <2>3, <2>4 DEF Coherent, ValueIn
  <2>5. CASE sv.local[current] = None
    <3>1. ~sv.celt /\ (sv.kind # "plain" => sv.cbuf # None)
      BY <2>1, <2>5, Apart DEF Coherent, Sound
    <3> QED BY <2>3, <2>5, <3>1 DEF ValueIn, Default, DefaultOf
  <2> QED BY <2>4, <2>5
<1> QED BY <1>1, <1>2, <1>3, PTL DEF Spec

(* default-value, and symbol-value-in-buffer as long as no assignment to   *)
(* the default is only in the cache, always give the right answer.         *)
THEOREM AnswersAlwaysRight ==
  ASSUME Careful
  PROVE  Spec => []AnswersRight
<1>1. Init => IInv
  BY Starts
<1>2. IInv /\ [Next]_vars => IInv'
  BY StepKeeps
<1>3. ASSUME IInv PROVE AnswersRight
  <2>1. Sound(sv)
    BY <1>3, Mapped
  <2>2. default_value = Default
    BY <2>1 DEF default_value, Default, DefaultOf, Sound
  <2>3. ASSUME ~DefaultPending(sv), NEW b \in Bufs
        PROVE  symbol_value_in_buffer(b) = ValueIn(b)
    <3>1. Own[b] = IF sv.local[b] = None THEN None
                   ELSE IF sv.cbuf = b THEN sv.cval ELSE sv.local[b]
      BY <2>1, OwnIs DEF Own
    <3>2. Own[b] # None <=> sv.local[b] # None
      BY <2>1, HasLocalIs DEF Own
    <3>3. CASE sv.local[b] # None
      BY <2>1, <3>1, <3>2, <3>3 DEF symbol_value_in_buffer, ValueIn, Sound
    <3>4. CASE sv.local[b] = None
      BY <2>1, <2>3, <3>2, <3>4, Apart
         DEF symbol_value_in_buffer, ValueIn, Sound, Default, DefaultOf, DefaultPending
    <3> QED BY <3>3, <3>4
  <2> QED BY <2>2, <2>3 DEF AnswersRight
<1> QED BY <1>1, <1>2, <1>3, PTL DEF Spec

(* make-local-variable changes no value but an unbound one, in whichever   *)
(* buffer, unless an assignment to the default is only in the cache.       *)
LEMMA MakeLocalKeepsValues ==
  ASSUME IInv, MakeLocalVariable, MayMakeLocal(sv, current), NEW b \in Bufs
  PROVE  ValueIn(b) \in {Unbound, ValueIn(b)'}
<1>0. /\ current \in Bufs /\ Coherent(sv, current) /\ Default \in Contents
      /\ Own \in [Bufs -> Contents \cup {None}]
  BY Mapped DEF IInv
<1>1. sv' = MadeLocal(sv, current)
  BY DEF MakeLocalVariable
<1>2. /\ DefaultOf(sv') = DefaultOf(sv)
      /\ OwnOf(sv') = IF OwnOf(sv)[current] # None THEN OwnOf(sv)
                      ELSE [OwnOf(sv) EXCEPT ![current] = Initially(sv)]
  BY <1>0, <1>1, MadeLocalIs
<1>3. /\ Default' = Default
      /\ Own' = IF Own[current] # None THEN Own ELSE [Own EXCEPT ![current] = Initially(sv)]
  BY <1>2, NextMapped DEF Own, Default
<1>4. ValueIn(b)' = IF Own'[b] = None THEN Default' ELSE Own'[b]
  BY DEF ValueIn
<1>5. CASE Own[current] # None \/ b # current
  <2>1. Own'[b] = Own[b]
    BY <1>0, <1>3, <1>5
  <2> QED BY <1>3, <1>4, <2>1 DEF ValueIn
<1>6. CASE Own[current] = None /\ b = current
  <2>1. Own'[b] = Initially(sv) /\ ValueIn(b) = Default
    BY <1>0, <1>3, <1>6 DEF ValueIn
  <2>2. Default = Unbound \/ Initially(sv) = Default
    BY DEF Initially, Default
  <2>3. Default # None
    BY <1>0, Apart
  <2> QED BY <1>4, <2>1, <2>2, <2>3
<1> QED BY <1>5, <1>6

(* Whatever Lisp does, make-local-variable can only change a value that    *)
(* was bound while an assignment to the default is in the cache alone.     *)
THEOREM OnlyPendingDefaultsForgotten ==
  Spec => [][MakeLocalVariable /\ MayMakeLocal(sv, current)
               => \A b \in Bufs : ValueIn(b) \in {Unbound, ValueIn(b)'}]_vars
<1>1. Init => IInv
  BY Starts
<1>2. IInv /\ [Next]_vars => IInv'
  BY StepKeeps
<1>3. IInv => [MakeLocalVariable /\ MayMakeLocal(sv, current)
                 => \A b \in Bufs : ValueIn(b) \in {Unbound, ValueIn(b)'}]_vars
  BY MakeLocalKeepsValues
<1> QED BY <1>1, <1>2, <1>3, PTL DEF Spec

(* As long as Lisp is careful about pending defaults, a local value        *)
(* starts out as the value the buffer saw before.                          *)
THEOREM LocalAlwaysStartsSame ==
  ASSUME Careful
  PROVE  Spec => LocalStartsSame
<1>1. Init => IInv
  BY Starts
<1>2. IInv /\ [Next]_vars => IInv'
  BY StepKeeps
<1>3. MakeLocalVariable => MayMakeLocal(sv, current)
  BY DEF MakeLocalVariable, MayMakeLocal
<1>4. IInv => [MakeLocalVariable => \A b \in Bufs : ValueIn(b) \in {Unbound, ValueIn(b)'}]_vars
  BY <1>3, MakeLocalKeepsValues
<1> QED BY <1>1, <1>2, <1>4, PTL DEF Spec, LocalStartsSame

(* As long as Lisp is careful, the cache implements the simplest           *)
(* implementation.                                                         *)
THEOREM LocalCacheImplements ==
  ASSUME Careful
  PROVE  Spec => Implements
<1>1. Init => IInv /\ BL!Init
  BY Starts
<1>2. IInv /\ [Next]_vars => IInv' /\ [BL!Next]_(BL!localVars)
  BY StepKeeps DEF AbstractStep
<1> QED BY <1>1, <1>2, PTL DEF Spec, Implements, BL!Spec, BL!localVars
=============================================================================
