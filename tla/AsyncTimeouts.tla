---------------------------- MODULE AsyncTimeouts ----------------------------
(***************************************************************************)
(* Asynchronous timeouts: the queue of src/event-stream.c, the one-shot    *)
(* timer and the alarm handler of src/signal.c, and QUIT, which runs what  *)
(* the handler has only noted.                                             *)
(*                                                                         *)
(* Two things happen at once.  The main program does one thing after the   *)
(* other, and pc says where it is; the alarm signal is delivered between   *)
(* any two of its steps.  Lisp runs when pc is "lisp", in a callback       *)
(* (frames), or in the body of a let of inhibit-quit; a C function may run *)
(* with the interrupts stopped (gethostbyname, sleep) or slowed down       *)
(* (connect, getpwent), and in the latter case still call QUIT.            *)
(*                                                                         *)
(* Times are relative: due[t] is how long a timeout has to wait, zero or   *)
(* less when it is overdue.  A timeout that is resignalled is overdue by   *)
(* some multiple of its interval and a rest, and only the rest matters, so *)
(* due wraps around at the interval.                                       *)
(***************************************************************************)
EXTENDS Integers, Sequences, TextOps

CONSTANTS
  Timeouts,   \* the timeouts
  None,       \* none of them
  Delays,     \* the SECS of add-async-timeout
  Intervals,  \* its RESIGNAL; 0 is nil
  SlowTicks,  \* SLOWED_DOWN_INTERRUPTS_SECS
  MaySlow,    \* C functions slow the interrupts down
  MayDisable, \* Lisp disables timeouts
  Horizon,    \* bound: no disabling or stopping when a timeout is further away
  MaxFrames,  \* bound: callbacks within callbacks
  MaxSlow     \* bound: slow_down_interrupts within slow_down_interrupts

ASSUME AsyncTimeoutsAssumption ==
  /\ None \notin Timeouts
  /\ Delays \subseteq Nat /\ Intervals \subseteq Nat /\ SlowTicks \in Nat \ {0}
  /\ {MaySlow, MayDisable} \subseteq BOOLEAN
  /\ Horizon \in Nat /\ MaxFrames \in Nat \ {0} /\ MaxSlow \in Nat

VARIABLES
  queue,      \* async_timer_queue
  due,        \* due[t]: the time until t
  every,      \* every[t]: resignal_msecs
  timer,      \* the time until SIGALRM, or Off
  alarm,      \* alarm_happened
  something,  \* something_happened
  inhibit,    \* inhibit-quit is non-nil
  suppress,   \* async_timer_suppress_count
  slow,       \* interrupts_slowed_down
  pc,         \* where the main program is
  popped,     \* the timeout that QUIT is dealing with
  frames,     \* slow at the start of each callback that is running
  rearmed,    \* the timer was last set while an alarm was pending (history)
  missed,     \* its alarm was taken for the slowed-down one (history)
  nested      \* slow_down_interrupts was called within itself (history)

queueVars == <<queue, due, every>>
stopVars == <<suppress, slow, nested>>
vars == <<queueVars, timer, alarm, something, inhibit, stopVars, pc, popped,
          frames, rearmed, missed>>

Off == -1
Labels == {"lisp", "reset", "quit", "handle", "popped", "resignal", "stopped",
           "slowing", "speeding", "noTimeout", "notStopped"}
Aborted == {"noTimeout", "notStopped"}

Pending(t) == \E i \in DOMAIN queue : queue[i] = t

Init ==
  /\ queue = << >>
  /\ due = [t \in Timeouts |-> 0] /\ every = [t \in Timeouts |-> 0]
  /\ timer = Off
  /\ alarm = FALSE /\ something = FALSE /\ inhibit = FALSE
  /\ suppress = 0 /\ slow = 0
  /\ pc = "lisp" /\ popped = None /\ frames = << >>
  /\ rearmed = FALSE /\ missed = FALSE /\ nested = FALSE

-----------------------------------------------------------------------------
(* The clock and the signal.                                               *)

\* Time passes for timeout T.
Later(t) ==
  IF due[t] > 0 THEN due[t] - 1
  ELSE IF every[t] = 0 THEN 0
  ELSE IF due[t] = - every[t] THEN -1 ELSE due[t] - 1

Tick ==
  /\ due' = [t \in Timeouts |-> IF Pending(t) \/ popped = t THEN Later(t) ELSE due[t]]
  /\ timer' = IF timer > 0 THEN timer - 1 ELSE timer
  /\ UNCHANGED <<queue, every, alarm, something, inhibit, stopVars, pc, popped, frames,
                 rearmed, missed>>

\* Mutant: every alarm is for the queue.
AlarmAlways ==
  /\ timer = 0
  /\ timer' = Off
  /\ something' = TRUE /\ alarm' = TRUE
  /\ UNCHANGED <<queueVars, inhibit, stopVars, pc, popped, frames, rearmed, missed>>

\* alarm_signal: while interrupts are slowed down it asks for a check of C-g only.
AlarmSignal ==
  /\ timer = 0
  /\ timer' = Off
  /\ something' = TRUE
  /\ alarm' = (alarm \/ slow = 0)
  /\ missed' = (missed \/ (slow > 0 /\ suppress = 0))
  /\ UNCHANGED <<queueVars, inhibit, stopVars, pc, popped, frames, rearmed>>

-----------------------------------------------------------------------------
(* The queue and the timer.                                                *)

\* Mutant: a new timeout goes to the end of the queue.
InsertLast(t, d) ==
  \E i \in 1 .. Len(queue) + 1 :
    /\ i = Len(queue) + 1
    /\ queue' = Inserted(queue, i, <<t>>)
    /\ pc' = IF i = 1 THEN "reset" ELSE "lisp"

\* Mutant: the timer is not set for a new head of the queue.
InsertOnly(t, d) ==
  \E i \in 1 .. Len(queue) + 1 :
    /\ \A j \in 1 .. i - 1 : due[queue[j]] <= d
    /\ i \in DOMAIN queue => due[queue[i]] > d
    /\ queue' = Inserted(queue, i, <<t>>)
    /\ pc' = "lisp"

\* event_stream_add_async_timeout: T, which is D away, goes behind the timeouts
\* that are not later; at the head of the queue it needs the timer.
AddAsyncTimeout(t, d) ==
  \E i \in 1 .. Len(queue) + 1 :
    /\ \A j \in 1 .. i - 1 : due[queue[j]] <= d
    /\ i \in DOMAIN queue => due[queue[i]] > d
    /\ queue' = Inserted(queue, i, <<t>>)
    /\ pc' = IF i = 1 THEN "reset" ELSE "lisp"

\* reset_interval_timer.
ResetTimer ==
  /\ timer' = IF queue = << >> THEN Off ELSE IF due[queue[1]] > 0 THEN due[queue[1]] ELSE 0
  /\ rearmed' = alarm
  /\ missed' = FALSE

\* The end of event_stream_add_async_timeout and event_stream_remove_async_timeout.
Reset ==
  /\ pc = "reset"
  /\ ResetTimer
  /\ pc' = "lisp"
  /\ UNCHANGED <<queueVars, alarm, something, inhibit, stopVars, popped, frames>>

-----------------------------------------------------------------------------
(* Lisp.                                                                   *)

\* How deep the interrupts were slowed down when the code that runs was called.
Level == IF frames = << >> THEN 0 ELSE frames[Len(frames)]

\* Lisp runs, and not a C function that has slowed the interrupts down.
Lisp == pc = "lisp" /\ slow = Level

Near == \A t \in Timeouts : due[t] <= Horizon

\* add-async-timeout.
Add(t, secs, resignal) ==
  /\ Lisp
  /\ ~Pending(t)
  /\ AddAsyncTimeout(t, secs)
  /\ due' = [due EXCEPT ![t] = secs]
  /\ every' = [every EXCEPT ![t] = resignal]
  /\ UNCHANGED <<timer, alarm, something, inhibit, stopVars, popped, frames, rearmed, missed>>

\* Mutant: the timer stays set for the timeout that is removed.
DisableOnly(t) ==
  /\ MayDisable
  /\ Lisp /\ Near
  /\ \E i \in DOMAIN queue : queue[i] = t /\ queue' = Deleted(queue, i, i + 1)
  /\ due' = [due EXCEPT ![t] = 0]
  /\ every' = [every EXCEPT ![t] = 0]
  /\ UNCHANGED <<timer, alarm, something, inhibit, stopVars, pc, popped, frames, rearmed, missed>>

\* disable-async-timeout.
Disable(t) ==
  /\ MayDisable
  /\ Lisp /\ Near
  /\ \E i \in DOMAIN queue :
       /\ queue[i] = t
       /\ queue' = Deleted(queue, i, i + 1)
       /\ pc' = IF i = 1 THEN "reset" ELSE "lisp"
  /\ due' = [due EXCEPT ![t] = 0]
  /\ every' = [every EXCEPT ![t] = 0]
  /\ UNCHANGED <<timer, alarm, something, inhibit, stopVars, popped, frames, rearmed, missed>>

\* inhibit-quit is bound, to t or to nil, or unbound.
SetInhibit(b) ==
  /\ Lisp
  /\ inhibit' = b
  /\ UNCHANGED <<queueVars, timer, alarm, something, stopVars, pc, popped, frames, rearmed, missed>>

\* A callback returns; QUIT calls one only when inhibit-quit is nil.
Return ==
  /\ Lisp /\ frames # << >>
  /\ frames' = SubSeq(frames, 1, Len(frames) - 1)
  /\ inhibit' = FALSE
  /\ UNCHANGED <<queueVars, timer, alarm, something, stopVars, pc, popped, rearmed, missed>>

-----------------------------------------------------------------------------
(* QUIT.                                                                   *)

\* check_what_happened begins.
Quit ==
  /\ pc = "lisp" /\ something
  /\ inhibit \/ Len(frames) < MaxFrames
  /\ something' = FALSE
  /\ pc' = "quit"
  /\ UNCHANGED <<queueVars, timer, alarm, inhibit, stopVars, popped, frames, rearmed, missed>>

\* check_what_happened clears the flag of the alarm and deals with it.
QuitAlarm ==
  /\ pc = "quit"
  /\ alarm' = FALSE
  /\ pc' = IF alarm THEN "handle" ELSE "lisp"
  /\ UNCHANGED <<queueVars, timer, something, inhibit, stopVars, popped, frames, rearmed, missed>>

\* Mutant: a blocked alarm does not make the next QUIT look again.
HandleQuietly ==
  /\ pc = "handle"
  /\ \/ /\ inhibit
        /\ alarm' = TRUE
        /\ pc' = "lisp"
        /\ UNCHANGED <<queue, popped, something>>
     \/ /\ ~inhibit /\ queue # << >>
        /\ popped' = queue[1]
        /\ queue' = Deleted(queue, 1, 2)
        /\ pc' = "popped"
        /\ UNCHANGED <<alarm, something>>
  /\ UNCHANGED <<due, every, timer, inhibit, stopVars, frames, rearmed, missed>>

\* handle_alarm_going_off, up to pop_low_level_timeout and its assertion.
HandleAlarm ==
  /\ pc = "handle"
  /\ \/ /\ inhibit
        /\ something' = TRUE /\ alarm' = TRUE
        /\ pc' = "lisp"
        /\ UNCHANGED <<queue, popped>>
     \/ /\ ~inhibit /\ queue = << >>
        /\ pc' = "noTimeout"
        /\ UNCHANGED <<queue, popped, alarm, something>>
     \/ /\ ~inhibit /\ queue # << >>
        /\ popped' = queue[1]
        /\ queue' = Deleted(queue, 1, 2)
        /\ pc' = "popped"
        /\ UNCHANGED <<alarm, something>>
  /\ UNCHANGED <<due, every, timer, inhibit, stopVars, frames, rearmed, missed>>

\* handle_alarm_going_off sets the timer for the next timeout.
Popped ==
  /\ pc = "popped"
  /\ ResetTimer
  /\ pc' = "resignal"
  /\ UNCHANGED <<queueVars, alarm, something, inhibit, stopVars, popped, frames>>

\* event_stream_deal_with_async_timeout: resignal the timeout if it wants to be,
\* and call its function, with inhibit-quit bound to t.
Resignal ==
  /\ pc = "resignal"
  /\ \/ /\ every[popped] = 0
        /\ due' = [due EXCEPT ![popped] = 0]
        /\ pc' = "lisp"
        /\ UNCHANGED queue
     \/ /\ every[popped] > 0
        /\ AddAsyncTimeout(popped, due[popped] + every[popped])
        /\ due' = [due EXCEPT ![popped] = @ + every[popped]]
  /\ popped' = None
  /\ inhibit' = TRUE
  /\ frames' = Append(frames, slow)
  /\ UNCHANGED <<every, timer, alarm, something, stopVars, rearmed, missed>>

-----------------------------------------------------------------------------
(* Stopping and slowing down interrupts.                                   *)

\* Mutant: the count is not checked.
StartUnchecked(l) ==
  /\ suppress' = suppress - 1
  /\ pc' = l
  /\ IF suppress = 1 THEN ResetTimer ELSE UNCHANGED <<timer, rearmed, missed>>

\* start_interrupts, after which the main program is at L.
StartInterrupts(l) ==
  \/ /\ suppress = 0
     /\ pc' = "notStopped"
     /\ UNCHANGED <<suppress, timer, rearmed, missed>>
  \/ /\ suppress > 0
     /\ suppress' = suppress - 1
     /\ pc' = l
     /\ IF suppress = 1 THEN ResetTimer ELSE UNCHANGED <<timer, rearmed, missed>>

\* stop_interrupts, around a call that is not to be interrupted.
Stop ==
  /\ Lisp /\ Near
  /\ timer' = IF suppress = 0 THEN Off ELSE timer
  /\ suppress' = suppress + 1
  /\ pc' = "stopped"
  /\ UNCHANGED <<queueVars, alarm, something, inhibit, slow, nested, popped, frames, rearmed, missed>>

Start ==
  /\ pc = "stopped"
  /\ StartInterrupts("lisp")
  /\ UNCHANGED <<queueVars, alarm, something, inhibit, slow, nested, popped, frames>>

\* slow_down_interrupts sets the flag first ...
SlowDown ==
  /\ MaySlow
  /\ Lisp /\ Near
  /\ slow < MaxSlow
  /\ slow' = slow + 1
  /\ nested' = (nested \/ slow > 0)
  /\ pc' = IF slow = 0 THEN "slowing" ELSE "lisp"
  /\ UNCHANGED <<queueVars, timer, alarm, something, inhibit, suppress, popped, frames, rearmed, missed>>

\* ... then the timer.
SetSlowTimer ==
  /\ pc = "slowing"
  /\ suppress' = suppress + 1
  /\ timer' = SlowTicks
  /\ pc' = "lisp"
  /\ UNCHANGED <<queueVars, alarm, something, inhibit, slow, nested, popped, frames, rearmed, missed>>

\* speed_up_interrupts sets the timer first ...
SpeedUp ==
  /\ pc = "lisp" /\ slow > Level
  /\ StartInterrupts("speeding")
  /\ UNCHANGED <<queueVars, alarm, something, inhibit, slow, nested, popped, frames>>

\* ... then the flag.
ClearSlow ==
  /\ pc = "speeding"
  /\ slow' = slow - 1
  /\ pc' = "lisp"
  /\ UNCHANGED <<queueVars, timer, alarm, something, inhibit, suppress, nested, popped, frames, rearmed, missed>>

-----------------------------------------------------------------------------
\* The main program goes on with what it has begun.
Proceed ==
  \/ Reset \/ QuitAlarm \/ HandleAlarm \/ Popped \/ Resignal
  \/ Start \/ SetSlowTimer \/ ClearSlow

Next ==
  \/ Tick \/ AlarmSignal
  \/ \E t \in Timeouts, secs \in Delays, resignal \in Intervals : Add(t, secs, resignal)
  \/ \E t \in Timeouts : Disable(t)
  \/ \E b \in BOOLEAN : SetInhibit(b)
  \/ Return \/ Quit \/ Stop \/ SlowDown \/ SpeedUp
  \/ Proceed

\* The clock and the signal are the operating system's, and time that the program
\* spends with interrupts at full speed is longer than the microsecond for which
\* an overdue timer is set.  The program goes on; what a callback, a let of
\* inhibit-quit and a slowed-down section contain is finite; and QUIT, which the
\* evaluator does at every call, is done again and again with inhibit-quit nil.
Fairness ==
  /\ WF_vars(Tick) /\ WF_vars(AlarmSignal) /\ SF_vars(AlarmSignal /\ slow = 0)
  /\ WF_vars(Proceed)
  /\ SF_vars(Return) /\ SF_vars(SpeedUp) /\ SF_vars(SetInhibit(FALSE))
  /\ SF_vars(Quit /\ ~inhibit)

Spec == Init /\ [][Next]_vars

FairSpec == Spec /\ Fairness

-----------------------------------------------------------------------------
(* Type invariant of the timer queue, the flags and the counters.          *)
TypeOK ==
  /\ queue \in Seq(Timeouts) /\ due \in [Timeouts -> Int] /\ every \in [Timeouts -> Nat]
  /\ timer \in Nat \cup {Off}
  /\ {alarm, something, inhibit, rearmed, missed, nested} \subseteq BOOLEAN
  /\ suppress \in Nat /\ slow \in Nat
  /\ pc \in Labels /\ popped \in Timeouts \cup {None}
  /\ frames \in Seq(Nat)

(* "The first timer on the list is the first one to fire": a timeout that  *)
(* is not overdue comes after all that are due before it, and an overdue   *)
(* one only after overdue ones, however they were added, resignalled and   *)
(* removed; and no timeout is queued twice.                                *)
QueueOrdered ==
  \A i, j \in DOMAIN queue : i < j =>
    /\ queue[i] # queue[j]
    /\ due[queue[i]] <= due[queue[j]] \/ due[queue[i]] <= 0

(* When nobody has stopped the timeouts and one is queued, something will  *)
(* make QUIT look at the queue: the timer is set, or an alarm is noted (in *)
(* both flags), or the main program is about to see to it.  The exception  *)
(* is an alarm that was taken for the slowed-down one: it came between the *)
(* two statements of speed_up_interrupts, or of slow_down_interrupts,      *)
(* which does no harm, since it sets the timer next.                       *)
NoLostWakeup ==
  /\ alarm => something \/ pc = "quit" \/ pc \in Aborted
  /\ queue # << >> /\ suppress = 0 /\ ~missed =>
       timer # Off \/ alarm \/ pc \in {"reset", "handle", "popped"} \cup Aborted

(* The assertions of pop_low_level_timeout ("assert (tm)") and of          *)
(* start_async_timeouts hold, unless the timer has been set again with an  *)
(* alarm pending, or slow_down_interrupts was nested.                      *)
AssertionsHold ==
  /\ pc = "noTimeout" => rearmed
  /\ pc = "notStopped" => nested

(* No function is called before its time, unless the timer has been set    *)
(* again with an alarm pending: then one alarm too many takes the next     *)
(* timeout of the queue.                                                   *)
NeverEarly ==
  [][pc = "handle" /\ pc' = "popped" => due[popped'] <= 0 \/ rearmed]_vars

(* Every timeout in the queue is called in the end, or disabled, whatever  *)
(* Lisp adds, disables, inhibits and stops meanwhile, unless its alarm is  *)
(* missed or XEmacs has failed an assertion.                               *)
TimeoutsServed ==
  \A t \in Timeouts : Pending(t) ~> ~Pending(t) \/ missed \/ pc \in Aborted

(* add-async-timeout: "FUNCTION will be called after that many seconds     *)
(* have elapsed."                                                          *)
TimeoutsCalled ==
  \A t \in Timeouts : Pending(t) ~> ~Pending(t) \/ pc \in Aborted
=============================================================================
