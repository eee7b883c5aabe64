-------------------------------- MODULE Undo --------------------------------
(***************************************************************************)
(* The undo list of a buffer (src/undo.c): what insertions, deletions and  *)
(* replacements record, boundaries, truncation by the garbage collector,   *)
(* and the command undo (lisp/simple.el) over primitive-undo, which        *)
(* changes the text again and records that too.                            *)
(*                                                                         *)
(* Every element carries the text before the change it stands for (was), a *)
(* history that no action looks at.  Elements that only move point, and    *)
(* those of extents, leave the text alone and are left out.  One undo goes *)
(* back one unit; COUNT repeats that.                                      *)
(*                                                                         *)
(* The list that primitive-undo walks down is made of the same conses as   *)
(* the undo list.  joined says that truncating one truncates the other.    *)
(***************************************************************************)
EXTENDS Integers, Sequences, FiniteSetsExt, TextOps

CONSTANTS
  Chars,       \* characters
  Strings,     \* what may be inserted
  MinSize,     \* undo-threshold
  MaxSize,     \* undo-high-threshold
  MayFail,     \* hooks, locks and narrowing may make a change of undo fail
  MayIntrude,  \* the text may change between two commands undo
  MaxText,     \* bound: length of the text
  MaxList,     \* bound: length of the undo list when a command begins
  MaxTime,     \* bound: saves
  MaxCuts,     \* bound: times the list is cut
  MaxOdd       \* bound: failing saves, set-buffer-modified-p, NOUNDO

ASSUME UndoAssumption ==
  /\ Strings \subseteq Seq(Chars) \ {<< >>}
  /\ MinSize \in Int /\ MaxSize \in Int
  /\ MayFail \in BOOLEAN /\ MayIntrude \in BOOLEAN
  /\ MaxText \in Nat /\ MaxList \in Nat /\ MaxTime \in Nat /\ MaxCuts \in Nat /\ MaxOdd \in Nat

VARIABLES
  text,      \* the text of the buffer
  saved,     \* the text of its file, and those that Lisp has called unmodified
             \* since it was written (history)
  time,      \* modtime
  modified,  \* SAVE_MODIFF < MODIFF
  list,      \* undo_list
  here,      \* last_undo_buffer is this buffer
  pc,        \* "idle", or "undoing" in primitive-undo
  left,      \* units that this command has yet to undo
  work,      \* pending-undo-list
  joined,    \* its last cons is that of undo_list
  running,   \* last-command is undo
  stale,     \* something else has changed the text since (history)
  cuts,      \* times the list has been cut (bound)
  odd,       \* times something happened that MaxOdd bounds (bound)
  unrecorded,  \* a character has been replaced without a record (history)
  believed,  \* what primitive-undo did last was to clear modified (history)
  trusted    \* nothing has gone wrong that leaves modified unreliable (history)

undoVars == <<pc, left, work, joined, running, stale, believed>>
vars == <<text, saved, time, modified, list, here, undoVars, cuts, odd, unrecorded, trusted>>

Init ==
  /\ text = << >> /\ saved = {<< >>} /\ time = 0 /\ modified = FALSE
  /\ list = << >> /\ here = FALSE /\ cuts = 0 /\ odd = 0
  /\ pc = "idle" /\ left = 0 /\ work = << >> /\ joined = FALSE /\ running = FALSE
  /\ stale = FALSE /\ unrecorded = FALSE /\ believed = FALSE /\ trusted = TRUE

-----------------------------------------------------------------------------
(* The elements of the list, and how it is extended.                       *)

Entry(kind, beg, end, str, at, was) ==
  [kind |-> kind, beg |-> beg, end |-> end, str |-> str, time |-> at, was |-> was]

Boundary(was) == Entry("boundary", 0, 0, << >>, 0, was)
Saved(at, was) == Entry("saved", 0, 0, << >>, at, was)
Insertion(beg, end, was) == Entry("insert", beg, end, << >>, 0, was)
Deletion(str, beg, was) == Entry("delete", beg, 0, str, 0, was)

Cons(e, l) == <<e>> \o l

\* undo_boundary, in front of L when the text is T.
WithBoundary(l, t) ==
  IF l # << >> /\ l[1].kind # "boundary" THEN Cons(Boundary(t), l) ELSE l

\* undo_prelude: H is whether the last recorded change was in this buffer.
undo_prelude(l, h, t) ==
  LET m == IF h THEN l ELSE WithBoundary(l, t)
  IN  IF modified THEN m ELSE Cons(Saved(time, t), m)

\* record_insert, of N characters at BEG of text T.
record_insert(l, h, t, beg, n) ==
  LET m == undo_prelude(l, h, t)
  IN  IF m # << >> /\ m[1].kind = "insert" /\ m[1].end = beg
      THEN [m EXCEPT ![1].end = beg + n]
      ELSE Cons(Insertion(beg, beg + n, t), m)

\* Mutant: the sign that says on which side point was is left in.
RecordSigned(l, h, t, beg, n) ==
  Cons(Deletion(SubSeq(t, beg, beg + n - 1), -beg, t), undo_prelude(l, h, t))

\* record_delete, of N characters at BEG of text T.
record_delete(l, h, t, beg, n) ==
  Cons(Deletion(SubSeq(t, beg, beg + n - 1), beg, t), undo_prelude(l, h, t))

\* Mutant: the two halves of a replacement are recorded in the wrong order.
ChangeSwapped(l, h, t, beg) == record_delete(record_insert(l, h, t, beg, 1), TRUE, t, beg, 1)

\* record_change, of the character at BEG.
record_change(l, h, t, beg) ==
  record_insert(record_delete(l, h, t, beg, 1), TRUE, Deleted(t, beg, beg + 1), beg, 1)

-----------------------------------------------------------------------------
(* Changes by commands, or, as an intrusion, by a process filter or a      *)
(* timeout between two commands.                                           *)

\* The list is short enough for another command; an undo is never cut short.
Room == Len(list) + odd <= MaxList

\* Something that does not happen often.
Odd == Room /\ odd < MaxOdd /\ odd' = odd + 1

\* Mutant: a series of undo commands goes on after another command.
KeepsSeries(intrusion) ==
  /\ intrusion => MayIntrude /\ running
  /\ stale' = (intrusion \/ stale)
  /\ UNCHANGED <<pc, left, work, joined, running, believed>>

\* What a change means for a series of undo commands.
Interrupts(intrusion) ==
  /\ intrusion => MayIntrude /\ running
  /\ running' = (running /\ intrusion)
  /\ stale' = intrusion
  /\ work' = IF intrusion THEN work ELSE << >>
  /\ joined' = (joined /\ intrusion)
  /\ UNCHANGED <<pc, left, believed>>

Insert(p, s, intrusion) ==
  /\ pc = "idle" /\ Room
  /\ Len(text) + Len(s) <= MaxText
  /\ list' = record_insert(list, here, text, p, Len(s))
  /\ text' = Inserted(text, p, s)
  /\ modified' = TRUE /\ here' = TRUE
  /\ Interrupts(intrusion)
  /\ UNCHANGED <<saved, time, cuts, odd, unrecorded, trusted>>

Delete(p, q, intrusion) ==
  /\ pc = "idle" /\ Room
  /\ list' = record_delete(list, here, text, p, q - p)
  /\ text' = Deleted(text, p, q)
  /\ modified' = TRUE /\ here' = TRUE
  /\ Interrupts(intrusion)
  /\ UNCHANGED <<saved, time, cuts, odd, unrecorded, trusted>>

\* Replacing a character by one that takes as many bytes; subst-char-in-region
\* with NOUNDO says that it is not a real change.
ReplaceChar(p, c, not_real_change, intrusion) ==
  /\ pc = "idle" /\ Room
  /\ text' = [text EXCEPT ![p] = c]
  /\ Interrupts(intrusion)
  /\ \/ /\ ~not_real_change
        /\ list' = record_change(list, here, text, p)
        /\ modified' = TRUE /\ here' = TRUE
        /\ UNCHANGED <<odd, unrecorded>>
     \/ /\ not_real_change
        /\ Odd
        /\ unrecorded' = TRUE
        /\ UNCHANGED <<list, modified, here>>
  /\ UNCHANGED <<saved, time, cuts, trusted>>

\* A buffer that does not share this one's text records a change.
OtherBuffer ==
  /\ pc = "idle" /\ here
  /\ here' = FALSE
  /\ UNCHANGED <<text, saved, time, modified, list, undoVars, cuts, odd, unrecorded, trusted>>

\* A command that changes nothing, and the boundary that the command loop
\* puts before it.
OtherCommand ==
  /\ pc = "idle" /\ Room
  /\ list' = WithBoundary(list, text)
  /\ Interrupts(FALSE)
  /\ UNCHANGED <<text, saved, time, modified, here, cuts, odd, unrecorded, trusted>>

\* write-region, of the buffer to its file.  When the write fails the file has
\* none of the texts, and modtime has become that of the file all the same.
Save(failure) ==
  /\ pc = "idle"
  /\ time < MaxTime
  /\ time' = time + 1
  /\ \/ /\ ~failure
        /\ saved' = {text} /\ modified' = FALSE
        /\ trusted' = TRUE
        /\ UNCHANGED odd
     \/ /\ failure
        /\ Odd
        /\ saved' = {}
        /\ trusted' = modified
        /\ UNCHANGED modified
  /\ Interrupts(FALSE)
  /\ UNCHANGED <<text, list, here, cuts, unrecorded>>

\* set-buffer-modified-p, by a command or between two of them.
SetModified(flag) ==
  /\ pc = "idle"
  /\ Odd
  /\ modified' = flag
  /\ saved' = IF flag THEN saved ELSE saved \cup {text}
  /\ Interrupts(FALSE) \/ (MayIntrude /\ running /\ UNCHANGED undoVars)
  /\ UNCHANGED <<text, time, list, here, cuts, unrecorded, trusted>>

-----------------------------------------------------------------------------
(* The garbage collector.                                                  *)

\* The space an element takes with its cons, in words.
Space(e) ==
  CASE e.kind = "boundary" -> 1
    [] e.kind = "delete" -> 3 + Len(e.str)
    [] OTHER -> 2

\* The space of the elements before the I-th.
SpaceBefore(l, i) == MapThenSumSet(LAMBDA j : Space(l[j]), 1 .. i - 1)

\* The boundaries at which the list may be cut, and those where the scan stops.
Boundaries(l) == {i \in 2 .. Len(l) : l[i].kind = "boundary"}
TooLong(l, i) == MaxSize > 0 /\ SpaceBefore(l, i) > MaxSize
Stops(l) == {i \in Boundaries(l) : TooLong(l, i) \/ (MinSize > 0 /\ SpaceBefore(l, i) > MinSize)}

\* Mutant: the list is cut at the boundary where it has become too long.
TruncatedLate(l) ==
  IF Stops(l) = {} THEN l ELSE SubSeq(l, 1, Min(Stops(l)) - 1)

\* truncate_undo_list.
Truncated(l) ==
  IF Stops(l) = {} THEN l
  ELSE LET i == Min(Stops(l))
           earlier == {j \in Boundaries(l) : j < i}
           cut == IF TooLong(l, i) /\ earlier # {} THEN Max(earlier) ELSE i
       IN  SubSeq(l, 1, cut - 1)

\* A garbage collection, at any time.
Truncate ==
  /\ Truncated(list) # list
  /\ cuts < MaxCuts /\ cuts' = cuts + 1
  /\ list' = Truncated(list)
  /\ LET gone == Len(list) - Len(list')
     IN  IF joined /\ Len(work) > gone
         THEN work' = SubSeq(work, 1, Len(work) - gone) /\ UNCHANGED joined
         ELSE joined' = FALSE /\ UNCHANGED work
  /\ UNCHANGED <<text, saved, time, modified, here, pc, left, running, stale, believed,
                 odd, unrecorded, trusted>>

-----------------------------------------------------------------------------
(* Undo.                                                                   *)

\* The command undo, with a boundary before it unless a macro is running:
\* one that follows another goes on where that left off, the first one takes
\* the whole list and what comes before its first boundary.
UndoCommand(boundary) ==
  /\ pc = "idle" /\ (running \/ Room)
  /\ list' = IF boundary THEN WithBoundary(list, text) ELSE list
  /\ LET rest == IF running THEN work ELSE list'
     IN  \/ /\ rest = << >>  \* "No further undo information"
            /\ running' = FALSE /\ work' = rest /\ joined' = FALSE /\ stale' = FALSE
            /\ UNCHANGED <<pc, left>>
         \/ /\ rest # << >>
            /\ pc' = "undoing"
            /\ left' = IF running THEN 1 ELSE 2
            /\ work' = rest
            /\ joined' = (joined \/ ~running)
            /\ stale' = (stale /\ running)
            /\ UNCHANGED running
  /\ UNCHANGED <<text, saved, time, modified, here, cuts, odd, unrecorded,
                 believed, trusted>>

\* The element applies to the text.
Applies(e, t) ==
  /\ e.kind = "insert" => 1 <= e.beg /\ e.beg <= e.end /\ e.end <= Len(t) + 1
  /\ e.kind = "delete" => 1 <= e.beg /\ e.beg <= Len(t) + 1

\* The text before the change that E stands for.
Undone(t, e) ==
  CASE e.kind = "insert" -> Deleted(t, e.beg, e.end)
    [] e.kind = "delete" -> Inserted(t, e.beg, e.str)
    [] OTHER -> t

\* primitive-undo comes to an insertion or a deletion.
UndoChange ==
  /\ pc = "undoing" /\ work # << >>
  /\ LET e == work[1]
     IN  /\ e.kind \in {"insert", "delete"} /\ Applies(e, text)
         /\ text' = Undone(text, e)
         /\ list' = IF e.kind = "delete" THEN record_insert(list, here, text, e.beg, Len(e.str))
                    ELSE IF e.beg < e.end THEN record_delete(list, here, text, e.beg, e.end - e.beg)
                    ELSE list
         /\ modified' = (modified \/ e.kind = "delete" \/ e.beg < e.end)
         /\ here' = (here \/ e.kind = "delete" \/ e.beg < e.end)
  /\ work' = Tail(work)
  /\ believed' = FALSE
  /\ UNCHANGED <<saved, time, pc, left, joined, running, stale, cuts, odd, unrecorded, trusted>>

\* Mutant: a save since then does not matter.
UndoSavedAlways ==
  /\ pc = "undoing" /\ work # << >>
  /\ work[1].kind = "saved"
  /\ modified' = FALSE /\ believed' = TRUE
  /\ trusted' = (trusted /\ ~stale)
  /\ work' = Tail(work)
  /\ UNCHANGED <<text, saved, time, list, here, pc, left, joined, running, stale, cuts, odd,
                 unrecorded>>

\* It comes to a record that the buffer was unmodified, and the file has not
\* been saved since.
UndoSaved ==
  /\ pc = "undoing" /\ work # << >>
  /\ work[1].kind = "saved" /\ work[1].time = time
  /\ modified' = FALSE /\ believed' = TRUE
  /\ trusted' = (trusted /\ ~stale)
  /\ work' = Tail(work)
  /\ UNCHANGED <<text, saved, time, list, here, pc, left, joined, running, stale, cuts, odd,
                 unrecorded>>

\* It comes to a boundary, to the end of the list or to a record that is
\* obsolete, and goes on with the next unit or is done.
UndoUnit ==
  /\ pc = "undoing"
  /\ work # << >> =>
       work[1].kind = "boundary" \/ (work[1].kind = "saved" /\ work[1].time # time)
  /\ work' = IF work = << >> THEN work ELSE Tail(work)
  /\ \/ /\ left = 2 /\ work' # << >>
        /\ left' = 1
        /\ UNCHANGED <<pc, joined, running, stale>>
     \/ /\ left = 2 /\ work' = << >>  \* "No further undo information"
        /\ left' = 0 /\ pc' = "idle"
        /\ running' = FALSE /\ joined' = FALSE /\ stale' = FALSE
     \/ /\ left = 1
        /\ left' = 0 /\ pc' = "idle"
        /\ running' = TRUE
        /\ UNCHANGED <<joined, stale>>
  /\ believed' = FALSE
  /\ UNCHANGED <<text, saved, time, modified, list, here, cuts, odd, unrecorded, trusted>>

\* The next change is refused.  A record of a save may be in the middle of a
\* replacement, and modified has been cleared there for a moment.
UndoFails ==
  /\ pc = "undoing" /\ work # << >>
  /\ work[1].kind \in {"insert", "delete"}
  /\ MayFail \/ ~Applies(work[1], text)
  /\ left' = 0 /\ pc' = "idle" /\ running' = FALSE /\ stale' = FALSE
  /\ work' = << >> /\ joined' = FALSE
  /\ believed' = FALSE
  /\ trusted' = (trusted /\ ~believed)
  /\ UNCHANGED <<text, saved, time, modified, list, here, cuts, odd, unrecorded>>

-----------------------------------------------------------------------------
Next ==
  \/ \E i \in BOOLEAN :
       \/ \E p \in 1 .. Len(text) + 1, s \in Strings : Insert(p, s, i)
       \/ \E p, q \in 1 .. Len(text) + 1 : p < q /\ Delete(p, q, i)
       \/ \E p \in 1 .. Len(text), c \in Chars, n \in BOOLEAN : ReplaceChar(p, c, n, i)
  \/ OtherBuffer \/ OtherCommand \/ Truncate
  \/ \E b \in BOOLEAN : Save(b) \/ SetModified(b) \/ UndoCommand(b)
  \/ UndoChange \/ UndoSaved \/ UndoUnit \/ UndoFails

Spec == Init /\ [][Next]_vars

-----------------------------------------------------------------------------
Kinds == {"boundary", "saved", "insert", "delete"}
Entries ==
  [kind : Kinds, beg : Nat, end : Nat, str : Seq(Chars), time : Nat, was : Seq(Chars)]

(* Type invariant of the text, the undo list and the state of undo.        *)
TypeOK ==
  /\ text \in Seq(Chars) /\ saved \subseteq Seq(Chars) /\ time \in Nat
  /\ list \in Seq(Entries) /\ work \in Seq(Entries)
  /\ modified \in BOOLEAN /\ here \in BOOLEAN /\ joined \in BOOLEAN /\ running \in BOOLEAN
  /\ stale \in BOOLEAN /\ unrecorded \in BOOLEAN /\ believed \in BOOLEAN
  /\ trusted \in BOOLEAN
  /\ pc \in {"idle", "undoing"} /\ left \in 0 .. 2 /\ cuts \in Nat /\ odd \in Nat

\* T is U, or, if characters have been replaced without a record, as long.
Alike(t, u, loose) == t = u \/ (loose /\ Len(t) = Len(u))

\* Undoing L element by element leads from T through the texts that were.
Before(l, t, i) == IF i = 1 THEN t ELSE l[i - 1].was
LeadsBack(l, t, loose) ==
  \A i \in DOMAIN l :
    /\ Applies(l[i], Before(l, t, i))
    /\ Alike(l[i].was, Undone(Before(l, t, i), l[i]), loose)

(* The undo list always leads back from the text of the buffer to every    *)
(* text it had, however insertions were combined, undos recorded, units    *)
(* truncated and undos given up half way.  Once subst-char-in-region has   *)
(* replaced characters with NOUNDO the characters may differ, but every    *)
(* position in the list still fits the text it will be applied to.         *)
ListLeadsBack == LeadsBack(list, text, unrecorded)

(* So does what is left to undo, in the middle of an undo and between the  *)
(* commands of a series, although the undo list has grown at its front and *)
(* may have been cut at its end meanwhile, as long as nothing else has     *)
(* changed the text between two of them.                                   *)
PendingLeadsBack == pc = "undoing" \/ running => stale \/ LeadsBack(work, text, unrecorded)

(* A buffer that is not modified has the text of its file, or one that     *)
(* set-buffer-modified-p has called unmodified since the file was written, *)
(* also when undo is what made it unmodified.  Not so after undo was       *)
(* refused the change right behind a record of a save, or believed such a  *)
(* record in a list that was stale, or after an unmodified buffer failed   *)
(* to be written; characters replaced with NOUNDO do not count.            *)
UnmodifiedMeansSaved ==
  pc = "idle" /\ ~modified /\ trusted => \E t \in saved : Alike(text, t, unrecorded)

(* undo-high-threshold: "Don't keep more than this much size of undo       *)
(* information.  A command which pushes past this size is itself           *)
(* forgotten."  When the list is cut it is cut in front of a boundary, and *)
(* what is kept is not too long unless it is the last command's.  Nor is   *)
(* too much cut: what is kept exceeds a threshold, or with the next        *)
(* command it would have been too long.                                    *)
TruncationFits ==
  [][Len(list') < Len(list) =>
       LET n == Len(list')
       IN  /\ list' = SubSeq(list, 1, n) /\ list[n + 1].kind = "boundary"
           /\ ~TooLong(list, n + 1) \/ \A i \in 2 .. n : list[i].kind # "boundary"
           /\ \/ n + 1 \in Stops(list)
              \/ \E i \in Boundaries(list) :
                   /\ n + 1 < i /\ TooLong(list, i)
                   /\ \A j \in n + 2 .. i - 1 : list[j].kind # "boundary"]_vars
=============================================================================
