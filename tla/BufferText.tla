----------------------------- MODULE BufferText -----------------------------
(***************************************************************************)
(* What the rest of XEmacs may believe about the text of a buffer and the  *)
(* markers into it: text is a sequence of characters, a marker is a        *)
(* position between two of them, and a change of the text carries every    *)
(* marker along with the characters it stands between.  There is no gap.   *)
(* GapBuffer is the implementation of this specification in src/insdel.c.  *)
(***************************************************************************)
EXTENDS Integers, Sequences, TextOps

CONSTANTS
  Chars,    \* the characters
  Strings,  \* the strings that are inserted
  Marks     \* the markers, the point markers of the buffers among them

VARIABLES
  text,      \* the characters of the buffer
  pos,       \* pos[m]: the position of marker m, 1 .. Len(text) + 1
  advancing  \* the markers whose insertion type is t

textVars == <<text, pos, advancing>>

Init ==
  /\ text = << >>
  /\ pos = [m \in Marks |-> 1]
  /\ advancing = {}

\* S is inserted before character P.  Markers behind P move along, those at P
\* stay before the new text unless they are in AHEAD, and the point markers in
\* MOVED go to the end of the new text wherever they were.
Insert(p, s, ahead, moved) ==
  /\ text' = Inserted(text, p, s)
  /\ pos' = [m \in Marks |-> IF m \in moved THEN p + Len(s)
                             ELSE AfterInsert(pos[m], p, Len(s), m \in ahead)]
  /\ UNCHANGED advancing

\* The markers that end up after text inserted at their position: all of them
\* (insert-before-markers), or those whose insertion type is t.
Ahead(before) == IF before THEN Marks ELSE advancing

\* The characters from P up to but not including Q go; markers among them end
\* up at P.
Delete(p, q) ==
  /\ text' = Deleted(text, p, q)
  /\ pos' = [m \in Marks |-> AfterDelete(pos[m], p, q)]
  /\ UNCHANGED advancing

ReplaceChar(p, c) ==
  /\ text' = [text EXCEPT ![p] = c]
  /\ UNCHANGED <<pos, advancing>>

SetMarker(m, p) ==
  /\ pos' = [pos EXCEPT ![m] = p]
  /\ UNCHANGED <<text, advancing>>

SetInsertionType(m, advance) ==
  /\ advancing' = IF advance THEN advancing \cup {m} ELSE advancing \ {m}
  /\ UNCHANGED <<text, pos>>

Next ==
  \/ \E p \in 1 .. Len(text) + 1, s \in Strings, before \in BOOLEAN :
       \E moved \in {{}} \cup {{m} : m \in Marks} : Insert(p, s, Ahead(before), moved)
  \/ \E p \in 1 .. Len(text), q \in 2 .. Len(text) + 1 : p < q /\ Delete(p, q)
  \/ \E p \in 1 .. Len(text), c \in Chars : ReplaceChar(p, c)
  \/ \E m \in Marks, p \in 1 .. Len(text) + 1 : SetMarker(m, p)
  \/ \E m \in Marks, advance \in BOOLEAN : SetInsertionType(m, advance)

Spec == Init /\ [][Next]_textVars
=============================================================================
