----------------------------- MODULE LocalCache -----------------------------
(***************************************************************************)
(* Buffer-local values (src/symbols.c, symeval.h): the value cell of a     *)
(* variable caches its value in one buffer, and is not written through to  *)
(* the buffer's list of local values or to the default until it is needed  *)
(* for another buffer.  With it set-buffer and kill-buffer (src/buffer.c)  *)
(* as far as they move the cache, and let (src/eval.c).                    *)
(*                                                                         *)
(* One variable is modelled: the caches of two do not meet.  It is a Lisp  *)
(* variable, or a DEFVAR_INT whose cached value is a C variable.  Aliases, *)
(* handlers and the variables kept in slots of a buffer are left out.      *)
(***************************************************************************)
EXTENDS Sequences, Naturals

CONSTANTS
  Bufs, Values, Nil, Unbound, None, MaxDepth,
  Careful    \* Lisp keeps away from where the code departs from BufferLocal

ASSUME LocalAssumption ==
  /\ Nil \in Values /\ Unbound \notin Values /\ None \notin Values \cup {Unbound}
  /\ None \notin Bufs /\ Careful \in BOOLEAN /\ MaxDepth \in Nat

VARIABLES
  current,   \* current_buffer
  live,      \* the buffers that have not been killed
  forwards,  \* the value is kept in a C variable of type Fixnum
  sv,        \* the value cell, and local_var_alist of every buffer
  pdl        \* specpdl, the innermost binding first

vars == <<current, live, forwards, sv, pdl>>

Contents == Values \cup {Unbound}

\* kind is "plain" for a variable that is not buffer-local, or the magic.type;
\* then cval is current_value, and if the variable is, dflt, cbuf and celt are
\* default_value, current_buffer and whether there is a current_alist_element.
ValueCells ==
  [kind : {"plain", "SOME_BUFFER_LOCAL", "BUFFER_LOCAL"}, dflt : Contents, cval : Contents,
   cbuf : Bufs \cup {None}, celt : BOOLEAN, local : [Bufs -> Contents \cup {None}]]

Init ==
  /\ current \in Bufs /\ live = Bufs /\ forwards \in BOOLEAN
  /\ \E v \in IF forwards THEN Values ELSE Contents :
       sv = [kind |-> "plain", dflt |-> v, cval |-> v, cbuf |-> None, celt |-> FALSE,
             local |-> [b \in Bufs |-> None]]
  /\ pdl = << >>

-----------------------------------------------------------------------------
(* The cache.                                                              *)

\* Mutant: a cached default is not written out.
WriteOutLocal(s) ==
  IF s.cbuf # None /\ s.celt THEN [s EXCEPT !.local[s.cbuf] = s.cval] ELSE s

write_out_buffer_local_cache(s) ==
  IF s.cbuf = None THEN s
  ELSE IF s.celt THEN [s EXCEPT !.local[s.cbuf] = s.cval]
  ELSE [s EXCEPT !.dflt = s.cval]

\* buffer_local_alist_element: buffer B has a value of its own.
HasLocal(s, b) == IF s.cbuf = b THEN s.celt ELSE s.local[b] # None

\* B is to be cached; HAS is whether it has a value of its own.
set_up_buffer_local_cache(s, b, has) ==
  IF s.cbuf = b THEN s
  ELSE LET w == write_out_buffer_local_cache(s)
       IN  [w EXCEPT !.cbuf = b, !.celt = has, !.cval = IF has THEN w.local[b] ELSE w.dflt]

\* find_symbol_value, when B is current.
Referenced(s, b) ==
  IF s.kind = "plain" THEN s ELSE set_up_buffer_local_cache(s, b, HasLocal(s, b))

\* Mutant: only the new buffer's variables are looked at.
SwitchForward(s, old, new) == IF s.local[new] # None THEN set_up_buffer_local_cache(s, new, TRUE) ELSE s

\* set_buffer_internal, from buffer OLD to NEW: variables local to NEW, then
\* those local to OLD, are swapped in.
Switched(s, old, new) ==
  IF s.local[new] # None THEN set_up_buffer_local_cache(s, new, TRUE)
  ELSE IF s.local[old] # None THEN set_up_buffer_local_cache(s, new, FALSE)
  ELSE s

-----------------------------------------------------------------------------
(* Assignment.                                                             *)

\* The cached value may be set for buffer B as it is.
CacheValid(s, b) == s.cbuf = b /\ (s.kind = "SOME_BUFFER_LOCAL" \/ s.celt)

\* Fset up to the call of store_symval_forwarding.
Prepared(s, b) ==
  IF s.kind = "plain" \/ CacheValid(s, b) THEN s
  ELSE LET w == write_out_buffer_local_cache(s)
           new == ~HasLocal(s, b) /\ s.kind = "BUFFER_LOCAL"
       IN  [w EXCEPT !.cbuf = b, !.celt = HasLocal(s, b) \/ new,
                     !.local[b] = IF new THEN w.cval ELSE @]

\* Fset, when B is current.
Fset(s, b, v) == [Prepared(s, b) EXCEPT !.cval = v]

\* set, setq and, with Unbound, makunbound.
Set(v) ==
  /\ v = Unbound => ~forwards
  /\ sv' = Fset(sv, current, v)
  /\ UNCHANGED <<current, live, forwards, pdl>>

\* CHECK_INT of store_symval_forwarding signals.
SetRefused ==
  /\ forwards
  /\ sv' = Prepared(sv, current)
  /\ UNCHANGED <<current, live, forwards, pdl>>

\* set-default.
SetDefault(v) ==
  /\ sv' = IF sv.kind = "plain" THEN Fset(sv, current, v)
           ELSE [sv EXCEPT !.dflt = v, !.cval = IF sv.celt THEN @ ELSE v]
  /\ UNCHANGED <<current, live, forwards, pdl>>

\* C code assigns to the C variable.
AssignC(v) ==
  /\ forwards
  /\ sv' = [sv EXCEPT !.cval = v]
  /\ UNCHANGED <<current, live, forwards, pdl>>

\* symbol-value, boundp and evaluation.
SymbolValue ==
  /\ sv' = Referenced(sv, current)
  /\ UNCHANGED <<current, live, forwards, pdl>>

-----------------------------------------------------------------------------
(* Making and killing local values.                                        *)

\* An assignment to the default is only in the cache.
DefaultPending(s) == s.kind # "plain" /\ s.cbuf # None /\ ~s.celt /\ s.cval # s.dflt

\* make-variable-buffer-local, when B is current.
Transmogrified(s, b) ==
  IF s.kind # "plain" THEN [s EXCEPT !.kind = "BUFFER_LOCAL"]
  ELSE [s EXCEPT !.kind = "BUFFER_LOCAL", !.cbuf = b, !.celt = FALSE,
                 !.dflt = IF s.cval = Unbound THEN Nil ELSE s.cval]

MakeVariableBufferLocal ==
  /\ sv' = Transmogrified(sv, current)
  /\ UNCHANGED <<current, live, forwards, pdl>>

\* make-local-variable for one that is not local to B, which is current.
MadeOwn(s, b) ==
  IF s.dflt = Unbound
  THEN [s EXCEPT !.cbuf = b, !.celt = TRUE, !.local[b] = Nil, !.cval = Nil]
  ELSE LET m == [s EXCEPT !.local[b] = s.dflt, !.cbuf = IF @ = b THEN None ELSE @]
       IN  IF forwards THEN set_up_buffer_local_cache(m, b, TRUE) ELSE m

\* Mutant: what is in the cache is taken, whichever buffer it is for.
SetToCached(s, b) == Fset(s, b, s.cval)

\* It is set to what it is, which makes one that becomes local when set local.
SetToItself(s, b) == LET r == Referenced(s, b) IN Fset(r, b, r.cval)

MadeLocal(s, b) ==
  CASE s.kind = "BUFFER_LOCAL" -> SetToItself(s, b)
    [] s.kind = "SOME_BUFFER_LOCAL" /\ HasLocal(s, b) ->
         IF forwards THEN set_up_buffer_local_cache(s, b, TRUE) ELSE s
    [] s.kind = "SOME_BUFFER_LOCAL" /\ ~HasLocal(s, b) -> MadeOwn(s, b)
    [] s.kind = "plain" ->
         MadeOwn([s EXCEPT !.kind = "SOME_BUFFER_LOCAL", !.cbuf = None, !.celt = FALSE,
                           !.dflt = s.cval], b)

\* make-local-variable gives a variable that is void the value nil.
Void(s) == s.kind # "BUFFER_LOCAL" /\ Unbound = IF s.kind = "plain" THEN s.cval ELSE s.dflt

MakeLocalVariable ==
  /\ Careful /\ ~HasLocal(sv, current) =>
       ~Void(sv) /\ (sv.kind = "SOME_BUFFER_LOCAL" => ~DefaultPending(sv))
  /\ sv' = MadeLocal(sv, current)
  /\ UNCHANGED <<current, live, forwards, pdl>>

\* It is cached for B, where kill-local-variable forgets it.
PendingIn(s, b) == DefaultPending(s) /\ s.cbuf = b

\* Mutant: the element is looked up before it is deleted.
KilledElement(s, b) ==
  IF s.kind = "plain" THEN s
  ELSE LET k == [s EXCEPT !.local[b] = None, !.cbuf = IF @ = b THEN None ELSE @]
       IN  set_up_buffer_local_cache(k, b, HasLocal(s, b))

\* Fkill_local_variable, when B is current.
KilledLocal(s, b) ==
  IF s.kind = "plain" THEN s
  ELSE LET k == [s EXCEPT !.local[b] = None, !.cbuf = IF @ = b THEN None ELSE @]
       IN  set_up_buffer_local_cache(k, b, FALSE)

KillLocalVariable ==
  /\ Careful => ~PendingIn(sv, current)
  /\ sv' = KilledLocal(sv, current)
  /\ UNCHANGED <<current, live, forwards, pdl>>

\* Mutant: the cache is not invalidated.
KilledStillCached(s, b, c) == [s EXCEPT !.local[b] = None]

\* kill_buffer_local_variables, of a variable that is not permanent-local;
\* C is current.
KilledAll(s, b, c) ==
  IF s.local[b] = None THEN s
  ELSE LET k == [s EXCEPT !.local[b] = None, !.cbuf = IF @ = b THEN None ELSE @]
       IN  IF b = c THEN set_up_buffer_local_cache(k, b, FALSE) ELSE k

\* kill-all-local-variables.
KillAllLocalVariables ==
  /\ sv' = KilledAll(sv, current, current)
  /\ UNCHANGED <<current, live, forwards, pdl>>

-----------------------------------------------------------------------------
(* Buffers and bindings.                                                   *)

SetBuffer(b) ==
  /\ b \in live /\ b # current
  /\ current' = b
  /\ sv' = Switched(sv, current, b)
  /\ UNCHANGED <<live, forwards, pdl>>

\* kill-buffer: its hooks run in the buffer, and another one is current before
\* the local values go, at the latest with all slots of the buffer.
KillBuffer(b, other, permanent) ==
  /\ b \in live /\ other \in live \ {b}
  /\ current # b => other = current
  /\ current' = other /\ live' = live \ {b}
  /\ LET s == IF current = b THEN Switched(sv, b, other)
              ELSE Switched(Switched(sv, current, b), b, current)
     IN  sv' = IF permanent THEN [s EXCEPT !.local[b] = None] ELSE KilledAll(s, b, other)
  /\ UNCHANGED <<forwards, pdl>>

\* symbol_value_buffer_local_info is 0.
NeverLocal(s, b) == ~HasLocal(s, b) /\ s.kind # "BUFFER_LOCAL"

\* specbind.
Bind(v) ==
  /\ Len(pdl) < MaxDepth
  /\ LET r == Referenced(sv, current)
     IN  \/ /\ NeverLocal(sv, current)
            /\ pdl' = <<[type |-> "default", buf |-> None, val |-> r.cval]>> \o pdl
            /\ sv' = Fset(r, current, v)
         \/ /\ HasLocal(sv, current)
            /\ pdl' = <<[type |-> "local", buf |-> current, val |-> r.cval]>> \o pdl
            /\ sv' = Fset(r, current, v)
         \/ /\ ~HasLocal(sv, current) /\ ~NeverLocal(sv, current)
            /\ pdl' = <<[type |-> "wasnt_local", buf |-> current, val |-> Nil]>> \o pdl
            /\ sv' = Fset(sv, current, v)
  /\ UNCHANGED <<current, live, forwards>>

\* specbind_unwind_local and specbind_unwind_wasnt_local do nothing.
Obsolete(e) == e.buf \notin live \/ NeverLocal(sv, e.buf)

\* What they do in the buffer that the binding was made in.
Restored(s, e) ==
  LET there == IF e.buf = current THEN s ELSE Switched(s, current, e.buf)
      done == IF e.type = "local" THEN Fset(there, e.buf, e.val) ELSE KilledLocal(there, e.buf)
  IN  IF e.buf = current THEN done ELSE Switched(done, e.buf, current)

\* unbind_to, of one binding.
Unbind ==
  /\ pdl # << >>
  /\ pdl' = Tail(pdl)
  /\ LET e == pdl[1]
     IN  /\ Careful /\ e.type = "wasnt_local" => ~PendingIn(sv, e.buf)
         /\ Careful /\ e.type = "default" => NeverLocal(sv, current)
         /\ sv' = IF e.type = "default" THEN Fset(sv, current, e.val)
                  ELSE IF Obsolete(e) THEN sv
                  ELSE Restored(sv, e)
  /\ UNCHANGED <<current, live, forwards>>

-----------------------------------------------------------------------------
Next ==
  \/ \E v \in Contents : Set(v)
  \/ \E v \in Values : SetDefault(v) \/ AssignC(v) \/ Bind(v)
  \/ SetRefused \/ SymbolValue
  \/ MakeVariableBufferLocal \/ MakeLocalVariable
  \/ KillLocalVariable \/ KillAllLocalVariables
  \/ \E b \in Bufs : SetBuffer(b)
  \/ \E b, other \in Bufs, permanent \in BOOLEAN : KillBuffer(b, other, permanent)
  \/ Unbind

Spec == Init /\ [][Next]_vars

-----------------------------------------------------------------------------
(* The variable as Lisp sees it.                                           *)
DefaultOf(s) == IF s.kind = "plain" \/ (s.cbuf # None /\ ~s.celt) THEN s.cval ELSE s.dflt
OwnOf(s) ==
  [b \in Bufs |-> IF ~HasLocal(s, b) THEN None ELSE IF s.cbuf = b THEN s.cval ELSE s.local[b]]

Default == DefaultOf(sv)
Own == OwnOf(sv)
ValueIn(b) == IF Own[b] = None THEN Default ELSE Own[b]

BL == INSTANCE BufferLocal WITH auto <- sv.kind = "BUFFER_LOCAL", default <- Default, own <- Own

(* The cache implements "the simplest implementation" of symeval.h: no     *)
(* assignment, binding or restored binding is lost or reaches a buffer it  *)
(* was not meant for, whichever buffer is cached when buffers are switched *)
(* or killed and local values are made or killed.  This holds as long as   *)
(* Lisp is careful.  It fails if it leaves a binding of the default where  *)
(* the variable is local, which sets the local value; makes a void         *)
(* variable local, which gives nil; or makes or kills a local value while  *)
(* an assignment to the default is in the cache alone, which forgets it.   *)
Implements == BL!Spec

(* Type invariant of the value cell, the buffers and the bindings.         *)
TypeOK ==
  /\ sv \in ValueCells /\ forwards \in BOOLEAN
  /\ live \subseteq Bufs /\ current \in live
  /\ pdl \in Seq([type : {"default", "local", "wasnt_local"}, buf : Bufs \cup {None},
                  val : Contents])

(* "Also, in this case the current value always refers to the current      *)
(* buffer, so that the values of the C variable always is the correct      *)
(* value for the current buffer": C code that reads the variable never     *)
(* sees another buffer's value.                                            *)
CVariableCurrent == forwards => sv.cval = ValueIn(current)

(* The cache is right about the buffer it is for, and holds the value that *)
(* a buffer has of its own only for the current one: what is cached for    *)
(* another buffer, which may be killed, is the default.                    *)
CacheCoherent ==
  sv.cbuf # None => /\ sv.celt <=> sv.local[sv.cbuf] # None
                    /\ sv.cbuf # current => ~sv.celt

\* Mutant: the cache is not looked at.
DefaultSlot == IF sv.kind = "plain" THEN sv.cval ELSE sv.dflt

\* What default-value answers, and symbol-value-in-buffer for buffer B.
default_value == IF sv.kind # "plain" /\ sv.celt THEN sv.dflt ELSE sv.cval
symbol_value_in_buffer(b) ==
  IF sv.kind = "plain" \/ sv.cbuf = b THEN sv.cval
  ELSE IF sv.local[b] # None THEN sv.local[b] ELSE sv.dflt

(* "Therefore, when retrieving a value in a buffer, you must always look   *)
(* in the cache": default-value does so, and symbol-value-in-buffer, which *)
(* only looks whether its own buffer is cached, is right too as long as no *)
(* other buffer's cache has a default that is not written out.             *)
AnswersRight ==
  /\ default_value = Default
  /\ ~DefaultPending(sv) => \A b \in Bufs : symbol_value_in_buffer(b) = ValueIn(b)

(* "The buffer-local value of VARIABLE starts out as the same value        *)
(* VARIABLE previously had": make-local-variable does not change the value *)
(* of the variable, in the current buffer or another one, unless it was    *)
(* void.                                                                   *)
LocalStartsSame ==
  [][MakeLocalVariable => \A b \in Bufs : ValueIn(b) \in {Unbound, ValueIn(b)'}]_vars
=============================================================================
