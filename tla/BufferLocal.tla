---------------------------- MODULE BufferLocal ----------------------------
(***************************************************************************)
(* A Lisp variable as symeval.h describes "the simplest implementation": a *)
(* default value, and values of their own in some buffers.  Whoever sets,  *)
(* binds or reads it acts on the value of the current buffer, or on the    *)
(* default if that has none.                                               *)
(*                                                                         *)
(* A binding remembers what it replaced: a buffer's own value, that a      *)
(* buffer had none, or the default.  Leaving it puts that back where it    *)
(* was, whatever buffer is current by then.                                *)
(***************************************************************************)
EXTENDS Naturals, Sequences

CONSTANTS
  Bufs,      \* buffers
  Values,    \* values of the variable
  Nil,       \* one of them
  Unbound,   \* it is void
  None,      \* no value, no buffer
  MaxDepth   \* bound: bindings within each other

VARIABLES
  current,   \* the current buffer
  live,      \* the buffers that have not been killed
  auto,      \* it becomes local when it is set
  default,   \* the default value
  own,       \* the value a buffer has of its own, or None
  pdl        \* the bindings that are in effect, the innermost first

localVars == <<current, live, auto, default, own, pdl>>

Contents == Values \cup {Unbound}

Init ==
  /\ current \in Bufs /\ live = Bufs
  /\ auto = FALSE /\ default \in Contents
  /\ own = [b \in Bufs |-> None] /\ pdl = << >>

\* The value in buffer B.
ValueIn(b) == IF own[b] = None THEN default ELSE own[b]

\* The variable becomes V in buffer B.
Assign(b, v) ==
  IF own[b] # None \/ auto
  THEN own' = [own EXCEPT ![b] = v] /\ UNCHANGED default
  ELSE default' = v /\ UNCHANGED own

Set(v) == Assign(current, v) /\ UNCHANGED <<current, live, auto, pdl>>

\* A value of the wrong type is refused, but the variable has become local.
SetRefused ==
  /\ own' = IF auto THEN [own EXCEPT ![current] = ValueIn(current)] ELSE own
  /\ UNCHANGED <<current, live, auto, default, pdl>>

SetDefault(v) == default' = v /\ UNCHANGED <<current, live, auto, own, pdl>>

\* C code assigns to the C variable that the value is kept in.
AssignC(v) ==
  /\ IF own[current] # None
     THEN own' = [own EXCEPT ![current] = v] /\ UNCHANGED default
     ELSE default' = v /\ UNCHANGED own
  /\ UNCHANGED <<current, live, auto, pdl>>

MakeVariableBufferLocal == auto' = TRUE /\ UNCHANGED <<current, live, default, own, pdl>>

MakeLocalVariable ==
  /\ own' = IF own[current] # None THEN own
            ELSE [own EXCEPT ![current] = default]
  /\ UNCHANGED <<current, live, auto, default, pdl>>

KillLocalVariable ==
  /\ own' = [own EXCEPT ![current] = None]
  /\ UNCHANGED <<current, live, auto, default, pdl>>

SetBuffer(b) ==
  /\ b \in live
  /\ current' = b
  /\ UNCHANGED <<live, auto, default, own, pdl>>

\* OTHER is what is current afterwards.
KillBuffer(b, other) ==
  /\ b \in live /\ other \in live \ {b}
  /\ current # b => other = current
  /\ current' = other /\ live' = live \ {b}
  /\ own' = [own EXCEPT ![b] = None]
  /\ UNCHANGED <<auto, default, pdl>>

\* What a binding remembers.
Binding ==
  IF own[current] # None THEN [type |-> "local", buf |-> current, val |-> own[current]]
  ELSE IF auto THEN [type |-> "wasnt_local", buf |-> current, val |-> Nil]
  ELSE [type |-> "default", buf |-> None, val |-> default]

Bind(v) ==
  /\ Len(pdl) < MaxDepth
  /\ pdl' = <<Binding>> \o pdl
  /\ Assign(current, v)
  /\ UNCHANGED <<current, live, auto>>

\* The binding is of a buffer that has been killed, or no longer a local one.
Obsolete(e) == e.buf \notin live \/ (own[e.buf] = None /\ ~auto)

Unbind ==
  /\ pdl # << >>
  /\ pdl' = Tail(pdl)
  /\ LET e == pdl[1]
     IN  IF e.type = "default" THEN default' = e.val /\ UNCHANGED own
         ELSE /\ own' = IF Obsolete(e) THEN own
                        ELSE [own EXCEPT ![e.buf] = IF e.type = "local" THEN e.val ELSE None]
              /\ UNCHANGED default
  /\ UNCHANGED <<current, live, auto>>

Next ==
  \/ \E v \in Contents : Set(v)
  \/ \E v \in Values : SetDefault(v) \/ AssignC(v) \/ Bind(v)
  \/ SetRefused \/ MakeVariableBufferLocal \/ MakeLocalVariable \/ KillLocalVariable \/ Unbind
  \/ \E b \in Bufs : SetBuffer(b)
  \/ \E b, other \in Bufs : KillBuffer(b, other)

Spec == Init /\ [][Next]_localVars
=============================================================================
