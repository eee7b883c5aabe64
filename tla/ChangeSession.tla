---------------------------- MODULE ChangeSession ----------------------------
(***************************************************************************)
(* Changes of a buffer's text and those who are told of them (insdel.c):   *)
(* redisplay, by the region that has changed since it last looked, and     *)
(* the before- and after-change-functions, once for every change or once   *)
(* for a whole session of changes (begin_multiple_change).                 *)
(*                                                                         *)
(* Lisp code runs in the change functions.  It may change the text, begin  *)
(* and end sessions of its own, or throw.  While it runs,                  *)
(* inside_change_hook keeps its changes from calling the functions again.  *)
(* first-change-hook, narrowing and indirect buffers are left out.         *)
(***************************************************************************)
EXTENDS Integers, Sequences, TextOps

CONSTANTS
  Chars,       \* characters
  Texts,       \* what the text may be at first
  Strings,     \* what may be inserted, or replace a character
  MaxText,     \* bound: length of the text
  MaxDepth     \* bound: in_multiple_change

ASSUME ChangeSessionAssumption ==
  /\ Texts \subseteq Seq(Chars)
  /\ Strings \subseteq Seq(Chars) \ {<< >>}
  /\ MaxText \in Nat /\ MaxDepth \in Nat

VARIABLES
  text,
  in_multiple_change,
  mc,       \* mc_begin, mc_orig_end, mc_new_end and mc_begin_signaled
  begin_unchanged, end_unchanged,
  phase,    \* whose code runs: "run" the program's, "before" and "after" that
            \* of the change functions, "abort" nobody's
  op,       \* the change in progress
  todo,     \* what comes when the after-change-functions return
  open,     \* sessions that the program is in
  hookOpen, \* sessions that the running change functions are in
  owner,    \* whose unwind-protect is to finish the session
  seen,     \* the text before the first change of the session (history)
  pending,  \* the session has made changes not reported yet (history)
  meddled,  \* change functions have changed the text under it (history)
  told,     \* after-change-functions are told the truth (history)
  shown,    \* the text when redisplay last looked (history)
  blurred   \* it has been told of a meddled session since (history)

session == <<in_multiple_change, mc>>
region == <<begin_unchanged, end_unchanged>>
control == <<phase, op, todo, open, hookOpen, owner>>
history == <<seen, pending, meddled, told, shown, blurred>>
vars == <<text, session, region, control, history>>

\* A change: the characters from FROM to TO become STR.
Change(from, to, str) == [from |-> from, to |-> to, str |-> str]
NoChange == Change(1, 1, << >>)

\* The bounds of a session.  When mc_begin is 0 the other three are not used.
Bounds(begin, orig_end, new_end, signaled) ==
  [begin |-> begin, orig_end |-> orig_end, new_end |-> new_end, signaled |-> signaled]
NoSession == Bounds(0, 0, 0, FALSE)
Active == mc.begin # 0

Init ==
  /\ text \in Texts
  /\ in_multiple_change = 0 /\ mc = NoSession
  /\ begin_unchanged = -1 /\ end_unchanged = -1
  /\ phase = "run" /\ op = NoChange /\ todo = "run"
  /\ open = 0 /\ hookOpen = 0 /\ owner = "none"
  /\ seen = << >> /\ pending = FALSE /\ meddled = FALSE /\ told = TRUE
  /\ shown = text /\ blurred = FALSE

-----------------------------------------------------------------------------
(* Telling of changes.                                                     *)

\* Mutant: the end counts from the beginning of the buffer.
RegionFromStart(start, end, t) ==
  /\ begin_unchanged' = IF begin_unchanged < 0 \/ begin_unchanged > start - 1
                        THEN start - 1 ELSE begin_unchanged
  /\ end_unchanged' = IF end_unchanged < 0 \/ end_unchanged > end - 1
                      THEN end - 1 ELSE end_unchanged

\* The characters of T, the text now, from START to END have changed.
buffer_signal_changed_region(start, end, t) ==
  /\ begin_unchanged' = IF begin_unchanged < 0 \/ begin_unchanged > start - 1
                        THEN start - 1 ELSE begin_unchanged
  /\ end_unchanged' = IF end_unchanged < 0 \/ end_unchanged > Len(t) + 1 - end
                      THEN Len(t) + 1 - end ELSE end_unchanged

\* NEW is OLD with what was from START to ORIG_END replaced by what is from
\* START to NEW_END.
Describes(start, orig_end, new_end, old, new) ==
  /\ 1 <= start /\ start <= orig_end /\ start <= new_end
  /\ Len(new) - new_end = Len(old) - orig_end
  /\ \A i \in 1 .. start - 1 : i <= Len(old) /\ i <= Len(new) /\ new[i] = old[i]
  /\ \A i \in orig_end .. Len(old) : new[i + new_end - orig_end] = old[i]

\* signal_after_change, outside of a session: the functions are called.
CallAfter(start, orig_end, new_end, old, new, sure, next) ==
  /\ buffer_signal_changed_region(start, new_end, new)
  /\ phase' = "after" /\ todo' = next
  /\ told' = (sure => Describes(start, orig_end, new_end, old, new))
  /\ blurred' = (blurred \/ ~sure)

\* Mutant: the session is called off without a word of its changes.
CancelSilently(next) ==
  /\ mc' = NoSession
  /\ phase' = next
  /\ meddled' = FALSE
  /\ UNCHANGED <<region, todo, seen, pending, told, blurred>>

\* cancel_multiple_change: the session's changes are reported if there may be
\* any.  NEXT is what comes then.
cancel_multiple_change(next) ==
  /\ mc' = NoSession
  /\ \/ /\ Active /\ mc.signaled
        /\ CallAfter(mc.begin, mc.orig_end, mc.new_end, seen, text, ~meddled, next)
     \/ /\ ~(Active /\ mc.signaled)
        /\ phase' = next
        /\ UNCHANGED <<region, todo, told, blurred>>
  /\ seen' = << >> /\ pending' = FALSE /\ meddled' = FALSE

\* multiple_change_finish_up, when the program's session ends.
multiple_change_finish_up ==
  /\ owner' = "none"
  /\ in_multiple_change' = 0
  /\ cancel_multiple_change("run")

-----------------------------------------------------------------------------
(* Sessions of the program.                                                *)

\* Mutant: only the beginning is looked at.
OutsideBefore(s, e) == Active /\ s < mc.begin

\* The region from S to E is not within the one of the open session.
Outside(s, e) == Active /\ (s < mc.begin \/ e > mc.new_end)

begin_multiple_change(s, e) ==
  /\ phase = "run" /\ in_multiple_change < MaxDepth
  /\ \/ /\ in_multiple_change = 0
        /\ in_multiple_change' = 1 /\ mc' = Bounds(s, e, e, FALSE)
        /\ open' = open + 1 /\ owner' = "program"
        /\ UNCHANGED <<region, phase, todo, history>>
     \/ /\ in_multiple_change > 0 /\ ~Outside(s, e)
        /\ in_multiple_change' = in_multiple_change + 1 /\ open' = open + 1
        /\ UNCHANGED <<mc, region, phase, todo, owner, history>>
     \/ /\ in_multiple_change > 0 /\ Outside(s, e)
        /\ cancel_multiple_change("begin")
        /\ UNCHANGED <<in_multiple_change, open, owner, shown>>
  /\ UNCHANGED <<text, op, hookOpen>>

\* The rest of it, after a session has been called off.
Begun ==
  /\ phase = "begin"
  /\ in_multiple_change' = in_multiple_change + 1 /\ open' = open + 1
  /\ phase' = "run"
  /\ UNCHANGED <<text, mc, region, op, todo, hookOpen, owner, history>>

\* Mutant: the session is finished first and counted out then.
EndThenCount ==
  /\ phase = "run" /\ open > 0
  /\ open' = open - 1
  /\ \/ /\ in_multiple_change = 1
        /\ owner' = "none" /\ in_multiple_change' = 0 - 1
        /\ cancel_multiple_change("run")
        /\ UNCHANGED shown
     \/ /\ in_multiple_change > 1
        /\ in_multiple_change' = in_multiple_change - 1
        /\ UNCHANGED <<mc, region, phase, todo, owner, history>>
  /\ UNCHANGED <<text, op, hookOpen>>

end_multiple_change ==
  /\ phase = "run" /\ open > 0
  /\ open' = open - 1
  /\ \/ /\ in_multiple_change = 1
        /\ multiple_change_finish_up
        /\ UNCHANGED shown
     \/ /\ in_multiple_change > 1
        /\ in_multiple_change' = in_multiple_change - 1
        /\ UNCHANGED <<mc, region, phase, todo, owner, history>>
  /\ UNCHANGED <<text, op, hookOpen>>

\* An error or a quit takes the program out of all but K of its sessions; the
\* outermost one has an unwind-protect.
Throw(k) ==
  /\ phase \in {"run", "before", "after"}
  /\ k <= open /\ (phase = "run" => k < open)
  /\ open' = k /\ hookOpen' = 0 /\ op' = NoChange
  /\ \/ /\ (owner = "program" /\ k = 0) \/ owner = "hook"
        /\ multiple_change_finish_up
        /\ UNCHANGED shown
     \/ /\ ~((owner = "program" /\ k = 0) \/ owner = "hook")
        /\ phase' = "run"
        /\ UNCHANGED <<session, region, todo, owner, history>>
  /\ UNCHANGED text

\* The function that called the program returns, and what has been left on
\* the specpdl stack is unwound.
Return ==
  /\ phase = "run" /\ open = 0 /\ owner = "program"
  /\ multiple_change_finish_up
  /\ UNCHANGED <<text, op, open, hookOpen, shown>>

-----------------------------------------------------------------------------
(* Changes.                                                                *)

\* The change as it is after the change functions: its positions are made
\* valid again.
Clipped(c) ==
  LET z == Len(text) + 1
      Clip(x) == IF x > z THEN z ELSE x
  IN  IF c.str # << >> /\ c.from < c.to  \* replacement
      THEN LET p == IF c.from >= z THEN z - 1 ELSE c.from IN Change(p, p + 1, c.str)
      ELSE Change(Clip(c.from), Clip(c.to), c.str)

\* There is something to change.
Real(c) == c.from >= 1 /\ (c.from < c.to \/ c.str # << >>)

Changed(c) == Inserted(Deleted(text, c.from, c.to), c.from, c.str)
NewEnd(c) == c.from + Len(c.str)

\* Mutant: the end of the session stays where it was.
MakeUncounted(c, bounds) ==
  /\ text' = Changed(c)
  /\ IF Active
     THEN /\ buffer_signal_changed_region(c.from, NewEnd(c), Changed(c))
          /\ phase' = IF mc.begin <= c.from /\ c.to <= mc.new_end THEN "run" ELSE "abort"
          /\ mc' = bounds
          /\ pending' = TRUE
          /\ UNCHANGED <<todo, told, blurred>>
     ELSE /\ CallAfter(c.from, c.to, NewEnd(c), text, Changed(c), TRUE, "run")
          /\ UNCHANGED <<mc, pending>>

\* The change is made and signal_after_change called.
Make(c, bounds) ==
  /\ text' = Changed(c)
  /\ IF Active
     THEN /\ buffer_signal_changed_region(c.from, NewEnd(c), Changed(c))
          /\ phase' = IF mc.begin <= c.from /\ c.to <= mc.new_end THEN "run" ELSE "abort"
          /\ mc' = [bounds EXCEPT !.new_end = @ + NewEnd(c) - c.to]
          /\ pending' = TRUE
          /\ UNCHANGED <<todo, told, blurred>>
     ELSE /\ CallAfter(c.from, c.to, NewEnd(c), text, Changed(c), TRUE, "run")
          /\ UNCHANGED <<mc, pending>>

\* signal_before_change: a session that the change C does not fit in is called
\* off; in one that has begun there is nothing to call; otherwise the
\* before-change-functions are.
Modify(c) ==
  /\ phase = "run"
  /\ Len(Changed(c)) <= MaxText
  /\ \/ /\ Outside(c.from, c.to)
        /\ op' = c
        /\ cancel_multiple_change("before")
        /\ UNCHANGED text
     \/ /\ Active /\ ~Outside(c.from, c.to) /\ mc.signaled
        /\ Make(c, mc)
        /\ UNCHANGED <<op, seen, meddled>>
     \/ /\ ~Outside(c.from, c.to) /\ ~(Active /\ mc.signaled)
        /\ op' = c /\ phase' = "before"
        /\ UNCHANGED <<text, mc, region, todo, seen, pending, meddled, told, blurred>>
  /\ UNCHANGED <<in_multiple_change, open, hookOpen, owner, shown>>

\* The before-change-functions return and the change is made, if there still
\* is anything to change.
BeforeDone ==
  /\ phase = "before" /\ hookOpen = 0
  /\ op' = NoChange
  /\ seen' = IF Active THEN text ELSE seen
  /\ LET c == Clipped(op)
         bounds == IF Active THEN [mc EXCEPT !.signaled = TRUE] ELSE mc
     IN  \/ Real(c) /\ Make(c, bounds)
         \/ /\ ~Real(c)
            /\ phase' = "run" /\ mc' = bounds
            /\ UNCHANGED <<text, region, todo, pending, told, blurred>>
  /\ UNCHANGED <<in_multiple_change, open, hookOpen, owner, meddled, shown>>

\* The after-change-functions return.
AfterDone ==
  /\ phase = "after" /\ hookOpen = 0
  /\ phase' = todo
  /\ todo' = "run"
  /\ UNCHANGED <<text, session, region, op, open, hookOpen, owner, history>>

-----------------------------------------------------------------------------
(* What change functions may do.                                           *)

InHook == phase \in {"before", "after"}

HookChange(c) ==
  /\ InHook
  /\ Len(Changed(c)) <= MaxText
  /\ text' = Changed(c)
  /\ buffer_signal_changed_region(c.from, NewEnd(c), Changed(c))
  /\ meddled' = (meddled \/ (owner = "program" /\ Active))
  /\ UNCHANGED <<session, control, seen, pending, told, shown, blurred>>

\* A session in a change function: no change in it is ever signaled.
HookBegin(s, e) ==
  /\ InHook /\ in_multiple_change < MaxDepth
  /\ in_multiple_change' = in_multiple_change + 1 /\ hookOpen' = hookOpen + 1
  /\ IF in_multiple_change = 0
     THEN mc' = Bounds(s, e, e, FALSE) /\ owner' = "hook"
     ELSE mc' = (IF Outside(s, e) THEN NoSession ELSE mc) /\ UNCHANGED owner
  /\ meddled' = (meddled /\ mc'.begin # 0)
  /\ UNCHANGED <<text, region, phase, op, todo, open, seen, pending, told, shown, blurred>>

HookEnd ==
  /\ InHook /\ hookOpen > 0
  /\ hookOpen' = hookOpen - 1 /\ in_multiple_change' = in_multiple_change - 1
  /\ IF in_multiple_change = 1 THEN mc' = NoSession /\ owner' = "none" ELSE UNCHANGED <<mc, owner>>
  /\ UNCHANGED <<text, region, phase, op, todo, open, history>>

\* A change function catches an error from inside its sessions; only if the
\* outermost session is its own is there an unwind-protect.
HookCatch ==
  /\ InHook /\ hookOpen > 0
  /\ hookOpen' = 0
  /\ IF owner = "hook"
     THEN in_multiple_change' = 0 /\ mc' = NoSession /\ owner' = "none"
     ELSE UNCHANGED <<session, owner>>
  /\ UNCHANGED <<text, region, phase, op, todo, open, history>>

\* buffer_reset_changes, after a redisplay.
Redisplay ==
  /\ phase \in {"run", "before", "after"}
  /\ begin_unchanged' = -1 /\ end_unchanged' = -1
  /\ shown' = text /\ blurred' = FALSE
  /\ UNCHANGED <<text, session, control, seen, pending, meddled, told>>

-----------------------------------------------------------------------------
Places == 1 .. Len(text) + 1

\* Insertions, deletions and replacements.
Changes ==
  {Change(p, p, s) : p \in Places, s \in Strings}
    \cup {Change(p, q, << >>) : p \in Places, q \in Places}
    \cup {Change(p, p + 1, s) : p \in 1 .. Len(text), s \in {t \in Strings : Len(t) = 1}}

Next ==
  \/ \E s, e \in Places : s <= e /\ (begin_multiple_change(s, e) \/ HookBegin(s, e))
  \/ \E c \in {d \in Changes : d.from <= d.to /\ Real(d)} : Modify(c) \/ HookChange(c)
  \/ \E k \in 0 .. open : Throw(k)
  \/ Begun \/ end_multiple_change \/ Return \/ BeforeDone \/ AfterDone
  \/ HookEnd \/ HookCatch \/ Redisplay

Spec == Init /\ [][Next]_vars

-----------------------------------------------------------------------------
(* Type invariant.                                                         *)
TypeOK ==
  /\ text \in Seq(Chars) /\ seen \in Seq(Chars) /\ shown \in Seq(Chars)
  /\ in_multiple_change \in Nat
  /\ mc \in [begin : Nat, orig_end : Nat, new_end : Int, signaled : BOOLEAN]
  /\ begin_unchanged \in Int /\ end_unchanged \in Int
  /\ phase \in {"run", "before", "after", "begin", "abort"}
  /\ op \in [from : Nat, to : Nat, str : Seq(Chars)]
  /\ todo \in {"run", "before", "begin"}
  /\ open \in Nat /\ hookOpen \in Nat /\ owner \in {"none", "program", "hook"}
  /\ pending \in BOOLEAN /\ meddled \in BOOLEAN /\ told \in BOOLEAN /\ blurred \in BOOLEAN

(* What after-change-functions are told is so: nothing outside the region  *)
(* they are given has changed since before-change-functions were called,   *)
(* for a whole session of changes too, called off or finished, by an end   *)
(* or by a throw; except that change functions changed the text under it.  *)
ReportsTrue ==
  phase = "after" => told

(* "Number of characters at the beginning and end of the buffer that have  *)
(* not changed since the last call to buffer_reset_changes().  If no       *)
(* changes have occurred since then, both values will be -1" (insdel.h),   *)
(* in sessions and in change functions too; except when a session has been *)
(* reported whose text change functions changed.                           *)
RegionCovers ==
  ~blurred =>
    /\ begin_unchanged >= 0 =>
         \A i \in 1 .. begin_unchanged : i <= Len(text) /\ i <= Len(shown) /\ text[i] = shown[i]
    /\ end_unchanged >= 0 =>
         \A i \in 0 .. end_unchanged - 1 :
           i < Len(text) /\ i < Len(shown) /\ text[Len(text) - i] = shown[Len(shown) - i]
    /\ begin_unchanged < 0 \/ end_unchanged < 0 => text = shown

(* The assertions of signal_after_change hold: a change of a session is    *)
(* within its bounds, unless change functions changed the text under it.   *)
AssertionsHold == phase = "abort" => meddled

(* However sessions nest, end, are called off and thrown out of, when the  *)
(* program is out of them all and its stack is unwound, no session is      *)
(* open, and every change has been reported.                               *)
SessionsClose ==
  phase = "run" /\ owner = "none" =>
    in_multiple_change = 0 /\ ~Active /\ open = 0 /\ ~pending
=============================================================================
