------------------------- MODULE AsyncTimeoutsProofs -------------------------
(***************************************************************************)
(* Proofs about the asynchronous timeouts, for any set of timeouts and any *)
(* delays, intervals and bounds: the queue stays ordered, no wakeup is     *)
(* lost but the one that speed_up_interrupts misses, the assertions hold   *)
(* and no function is called early but for the reasons AsyncTimeouts       *)
(* names.                                                                  *)
(***************************************************************************)
EXTENDS AsyncTimeouts, TLAPS

\* The first timeout is at most X away.
HeadWithin(x) == queue # << >> /\ due[queue[1]] <= x

\* The timer is about to be set for the queue.
AboutToReset == pc \in {"reset", "popped"}

\* How often the interrupts have been stopped, were slow_down_interrupts not nested.
Stops ==
  (IF slow > 0 /\ pc \notin {"slowing", "speeding"} THEN 1 ELSE 0)
  + (IF pc = "stopped" THEN 1 ELSE 0)

(* A timer that is not the slowed-down one never runs out before the first *)
(* timeout is due, so that an alarm that is noted is for an overdue one.   *)
TimerForHead ==
  /\ timer # Off /\ (slow = 0 \/ pc = "speeding") /\ ~AboutToReset => HeadWithin(timer)
  /\ ~rearmed /\ (alarm \/ pc = "handle") /\ ~AboutToReset => HeadWithin(0)

(* The count of stop_async_timeouts agrees with the flag of                *)
(* slow_down_interrupts and with where the program is.                     *)
StopsCounted ==
  /\ suppress <= Stops
  /\ ~nested => suppress = Stops /\ slow <= 1
  /\ pc \in {"slowing", "speeding"} => slow > 0

(* The timeout that QUIT deals with is not in the queue, and none is       *)
(* overdue by more than its interval, as due wraps around.                 *)
PoppedApart ==
  /\ pc \in {"popped", "resignal"} => popped \in Timeouts /\ ~Pending(popped)
  /\ \A t \in Timeouts : due[t] + every[t] >= 0

IInv ==
  /\ TypeOK /\ QueueOrdered /\ TimerForHead /\ StopsCounted /\ PoppedApart
  /\ NoLostWakeup /\ AssertionsHold

-----------------------------------------------------------------------------
(* What the proofs use of the assumption on the constants.                 *)
LEMMA Constants ==
  /\ None \notin Timeouts /\ Delays \subseteq Nat /\ Intervals \subseteq Nat
  /\ SlowTicks \in Nat /\ MaxSlow \in Nat
BY AsyncTimeoutsAssumption DEF AsyncTimeoutsAssumption

(* The parts of the type invariant.                                        *)
LEMMA TypeParts ==
  ASSUME TypeOK
  PROVE  /\ queue \in Seq(Timeouts) /\ due \in [Timeouts -> Int] /\ every \in [Timeouts -> Nat]
         /\ timer \in Nat \cup {Off} /\ timer \in Int
         /\ alarm \in BOOLEAN /\ something \in BOOLEAN /\ inhibit \in BOOLEAN
         /\ rearmed \in BOOLEAN /\ missed \in BOOLEAN /\ nested \in BOOLEAN
         /\ suppress \in Nat /\ slow \in Nat
         /\ pc \in Labels /\ popped \in Timeouts \cup {None}
         /\ frames \in Seq(Nat)
<1>1. timer \in Nat \cup {Off} => timer \in Int
  BY DEF Off
<1> QED BY <1>1 DEF TypeOK

(* The queue with a timeout put in, element by element.                    *)
LEMMA InsertedAt ==
  ASSUME NEW q \in Seq(Timeouts), NEW t \in Timeouts, NEW i \in 1 .. Len(q) + 1
  PROVE  /\ Inserted(q, i, <<t>>) \in Seq(Timeouts)
         /\ Len(Inserted(q, i, <<t>>)) = Len(q) + 1
         /\ \A j \in 1 .. Len(q) + 1 :
              Inserted(q, i, <<t>>)[j] = IF j < i THEN q[j] ELSE IF j = i THEN t ELSE q[j - 1]
<1> DEFINE r == Inserted(q, i, <<t>>)
<1>1. Len(<<t>>) = 1 /\ <<t>>[1] = t /\ Len(q) \in Nat
  OBVIOUS
<1>2. r = [j \in 1 .. Len(q) + 1 |->
             IF j < i THEN q[j] ELSE IF j < i + 1 THEN <<t>>[j - i + 1] ELSE q[j - 1]]
  BY <1>1 DEF Inserted
<1> HIDE DEF r
<1>3. \A j \in 1 .. Len(q) + 1 : r[j] = IF j < i THEN q[j] ELSE IF j = i THEN t ELSE q[j - 1]
  BY <1>1, <1>2
<1>4. \A j \in 1 .. Len(q) + 1 : r[j] \in Timeouts
  BY <1>3
<1>5. r \in [1 .. Len(q) + 1 -> Timeouts]
  BY <1>2, <1>4
<1>6. r \in Seq(Timeouts) /\ Len(r) = Len(q) + 1
  BY <1>1, <1>5
<1> QED BY <1>3, <1>6 DEF r

(* The queue with a timeout taken out, element by element.                 *)
LEMMA DeletedAt ==
  ASSUME NEW q \in Seq(Timeouts), NEW i \in 1 .. Len(q)
  PROVE  /\ Deleted(q, i, i + 1) \in Seq(Timeouts)
         /\ Len(Deleted(q, i, i + 1)) = Len(q) - 1
         /\ \A j \in 1 .. Len(q) - 1 :
              Deleted(q, i, i + 1)[j] = IF j < i THEN q[j] ELSE q[j + 1]
<1> DEFINE r == Deleted(q, i, i + 1)
<1>1. Len(q) \in Nat /\ Len(q) - 1 \in Nat /\ i \in Int /\ (i + 1) - i = 1
  OBVIOUS
<1>2. r = [j \in 1 .. Len(q) - 1 |-> IF j < i THEN q[j] ELSE q[j + 1]]
  BY <1>1 DEF Deleted
<1> HIDE DEF r
<1>3. \A j \in 1 .. Len(q) - 1 : r[j] = IF j < i THEN q[j] ELSE q[j + 1]
  BY <1>2
<1>4. \A j \in 1 .. Len(q) - 1 : r[j] \in Timeouts
  BY <1>1, <1>3
<1>5. r \in [1 .. Len(q) - 1 -> Timeouts]
  BY <1>2, <1>4
<1>6. r \in Seq(Timeouts) /\ Len(r) = Len(q) - 1
  BY <1>1, <1>5
<1> QED BY <1>3, <1>6 DEF r

(* The order of the queue, index by index.                                 *)
LEMMA OrderedAt ==
  ASSUME TypeOK, QueueOrdered
  PROVE  \A j, k \in 1 .. Len(queue) : j < k =>
           /\ queue[j] # queue[k]
           /\ due[queue[j]] <= due[queue[k]] \/ due[queue[j]] <= 0
<1>1. DOMAIN queue = 1 .. Len(queue)
  BY TypeParts
<1> QED BY <1>1, Zenon DEF QueueOrdered

(* event_stream_add_async_timeout keeps the queue in order, and the first  *)
(* timeout first unless the timer will be set.                             *)
LEMMA AddOrdered ==
  ASSUME TypeOK, QueueOrdered,
         NEW t \in Timeouts, NEW d \in Nat, ~Pending(t),
         AddAsyncTimeout(t, d), due' = [due EXCEPT ![t] = d]
  PROVE  /\ queue' \in Seq(Timeouts) /\ queue' # << >> /\ QueueOrdered'
         /\ \/ pc' = "reset"
            \/ /\ pc' = "lisp" /\ queue # << >>
               /\ queue'[1] = queue[1] /\ due'[queue'[1]] = due[queue[1]]
<1>1. queue \in Seq(Timeouts) /\ due \in [Timeouts -> Int] /\ Len(queue) \in Nat
  BY TypeParts
<1>2. PICK i \in 1 .. Len(queue) + 1 :
        /\ \A j \in 1 .. i - 1 : due[queue[j]] <= d
        /\ i \in DOMAIN queue => due[queue[i]] > d
        /\ queue' = Inserted(queue, i, <<t>>)
        /\ pc' = IF i = 1 THEN "reset" ELSE "lisp"
  BY DEF AddAsyncTimeout
<1>3. /\ queue' \in Seq(Timeouts) /\ Len(queue') = Len(queue) + 1
      /\ \A j \in 1 .. Len(queue) + 1 :
           queue'[j] = IF j < i THEN queue[j] ELSE IF j = i THEN t ELSE queue[j - 1]
  <2>1. /\ Inserted(queue, i, <<t>>) \in Seq(Timeouts)
        /\ Len(Inserted(queue, i, <<t>>)) = Len(queue) + 1
        /\ \A j \in 1 .. Len(queue) + 1 : Inserted(queue, i, <<t>>)[j]
             = IF j < i THEN queue[j] ELSE IF j = i THEN t ELSE queue[j - 1]
    BY <1>1, InsertedAt, ZenonT(30)
  <2>2. queue' = Inserted(queue, i, <<t>>)
    BY <1>2
  <2> QED BY <2>1, <2>2, Zenon
<1>4. \A j \in 1 .. Len(queue) : queue[j] \in Timeouts /\ queue[j] # t
  BY <1>1 DEF Pending
<1>5. /\ \A j \in 1 .. Len(queue) : due'[queue[j]] = due[queue[j]] /\ due[queue[j]] \in Int
      /\ due'[t] = d
  BY <1>1, <1>4
<1>6. \A j, k \in 1 .. Len(queue) : j < k =>
        /\ queue[j] # queue[k]
        /\ due[queue[j]] <= due[queue[k]] \/ due[queue[j]] <= 0
  BY OrderedAt
<1>7. \A k \in 1 .. Len(queue) : k >= i => d <= due[queue[k]]
  <2> SUFFICES ASSUME NEW k \in 1 .. Len(queue), k >= i
               PROVE  d <= due[queue[k]]
    OBVIOUS
  <2>1. i \in 1 .. Len(queue) /\ due[queue[i]] > d
    BY <1>1, <1>2
  <2>2. CASE k = i
    BY <2>1, <2>2, <1>5
  <2>3. CASE k > i
    <3>1. due[queue[i]] <= due[queue[k]] \/ due[queue[i]] <= 0
      BY <2>1, <2>3, <1>6
    <3> QED BY <3>1, <2>1, <1>5
  <2> QED BY <2>2, <2>3
<1>8. QueueOrdered'
  <2> SUFFICES ASSUME NEW j \in 1 .. Len(queue) + 1, NEW k \in 1 .. Len(queue) + 1, j < k
               PROVE  /\ queue'[j] # queue'[k]
                      /\ due'[queue'[j]] <= due'[queue'[k]] \/ due'[queue'[j]] <= 0
    BY <1>3 DEF QueueOrdered
  <2>1. CASE j < i /\ k < i
    <3>1. j \in 1 .. Len(queue) /\ k \in 1 .. Len(queue)
      BY <2>1, <1>1
    <3>2. queue'[j] = queue[j] /\ queue'[k] = queue[k]
      BY <2>1, <1>3
    <3> QED BY <3>1, <3>2, <1>5, <1>6
  <2>2. CASE j < i /\ k = i
    <3>1. j \in 1 .. Len(queue) /\ j \in 1 .. i - 1
      BY <2>2, <1>1
    <3>2. queue'[j] = queue[j] /\ queue'[k] = t
      <4>1. queue'[k] = IF k < i THEN queue[k] ELSE IF k = i THEN t ELSE queue[k - 1]
        BY <1>3
      <4>2. queue'[j] = IF j < i THEN queue[j] ELSE IF j = i THEN t ELSE queue[j - 1]
        BY <1>3
      <4> QED BY <4>1, <4>2, <2>2
    <3>3. due[queue[j]] <= d
      BY <3>1, <1>2
    <3> QED BY <3>1, <3>2, <3>3, <1>4, <1>5
  <2>3. CASE j < i /\ k > i
    <3>1. j \in 1 .. Len(queue) /\ k - 1 \in 1 .. Len(queue) /\ j < k - 1
      BY <2>3, <1>1
    <3>2. queue'[j] = queue[j] /\ queue'[k] = queue[k - 1]
      BY <2>3, <1>3
    <3> QED BY <3>1, <3>2, <1>5, <1>6
  <2>4. CASE j = i
    <3>1. k - 1 \in 1 .. Len(queue) /\ k - 1 >= i
      BY <2>4, <1>1
    <3>2. queue'[j] = t /\ queue'[k] = queue[k - 1]
      BY <2>4, <1>3
    <3> QED BY <3>1, <3>2, <1>4, <1>5, <1>7
  <2>5. CASE j > i
    <3>1. j - 1 \in 1 .. Len(queue) /\ k - 1 \in 1 .. Len(queue) /\ j - 1 < k - 1
      BY <2>5, <1>1
    <3>2. queue'[j] = queue[j - 1] /\ queue'[k] = queue[k - 1]
      BY <2>5, <1>3
    <3> QED BY <3>1, <3>2, <1>5, <1>6
  <2> QED BY <2>1, <2>2, <2>3, <2>4, <2>5
<1>9. CASE i = 1
  BY <1>9, <1>1, <1>2, <1>3, <1>8
<1>10. CASE i # 1
  <2>1. 1 \in 1 .. Len(queue) /\ 1 < i
    BY <1>10, <1>1
  <2>2. queue'[1] = queue[1] /\ due'[queue'[1]] = due[queue[1]]
    BY <2>1, <1>3, <1>5
  <2>3. queue # << >> /\ queue' # << >>
    BY <2>1, <1>1, <1>3
  <2> QED BY <2>2, <2>3, <1>10, <1>2, <1>3, <1>8
<1> QED BY <1>9, <1>10

(* Taking a timeout out keeps the others in order, and the first one first *)
(* when it is not the one.                                                 *)
LEMMA RemoveOrdered ==
  ASSUME TypeOK, QueueOrdered, NEW i \in 1 .. Len(queue),
         queue' = Deleted(queue, i, i + 1),
         \A s \in Timeouts : s # queue[i] => due'[s] = due[s]
  PROVE  /\ queue' \in Seq(Timeouts) /\ QueueOrdered'
         /\ \A j \in DOMAIN queue' : queue'[j] # queue[i]
         /\ i # 1 => /\ queue # << >> /\ queue' # << >>
                     /\ queue'[1] = queue[1] /\ due'[queue'[1]] = due[queue[1]]
<1>1. queue \in Seq(Timeouts) /\ due \in [Timeouts -> Int] /\ Len(queue) \in Nat
  BY TypeParts
<1>2. /\ queue' \in Seq(Timeouts) /\ Len(queue') = Len(queue) - 1
      /\ \A j \in 1 .. Len(queue) - 1 :
           queue'[j] = IF j < i THEN queue[j] ELSE queue[j + 1]
  BY <1>1, DeletedAt
<1>3. \A j, k \in 1 .. Len(queue) : j < k =>
        /\ queue[j] # queue[k]
        /\ due[queue[j]] <= due[queue[k]] \/ due[queue[j]] <= 0
  BY OrderedAt
<1>4. \A j \in 1 .. Len(queue) : queue[j] \in Timeouts /\ due[queue[j]] \in Int
  BY <1>1
<1>5. \A j \in 1 .. Len(queue) : j # i => queue[j] # queue[i] /\ due'[queue[j]] = due[queue[j]]
  <2> SUFFICES ASSUME NEW j \in 1 .. Len(queue), j # i
               PROVE  queue[j] # queue[i]
    BY <1>4
  <2>1. CASE j < i
    BY <2>1, <1>3
  <2>2. CASE i < j
    BY <2>2, <1>3
  <2> QED BY <2>1, <2>2
<1> DEFINE old(j) == IF j < i THEN j ELSE j + 1
<1>6. \A j \in 1 .. Len(queue) - 1 :
        old(j) \in 1 .. Len(queue) /\ old(j) # i /\ queue'[j] = queue[old(j)]
  <2> SUFFICES ASSUME NEW j \in 1 .. Len(queue) - 1
               PROVE  old(j) \in 1 .. Len(queue) /\ old(j) # i /\ queue'[j] = queue[old(j)]
    OBVIOUS
  <2>1. queue'[j] = IF j < i THEN queue[j] ELSE queue[j + 1]
    BY <1>2
  <2>2. old(j) \in 1 .. Len(queue) /\ old(j) # i
    BY <1>1
  <2> QED BY <2>1, <2>2
<1>7. \A j, k \in 1 .. Len(queue) - 1 : j < k => old(j) < old(k)
  BY <1>1
<1> HIDE DEF old
<1>8. QueueOrdered'
  <2> SUFFICES ASSUME NEW j \in 1 .. Len(queue) - 1, NEW k \in 1 .. Len(queue) - 1, j < k
               PROVE  /\ queue'[j] # queue'[k]
                      /\ due'[queue'[j]] <= due'[queue'[k]] \/ due'[queue'[j]] <= 0
    BY <1>2 DEF QueueOrdered
  <2>1. old(j) \in 1 .. Len(queue) /\ old(k) \in 1 .. Len(queue) /\ old(j) < old(k)
    BY <1>6, <1>7
  <2>2. queue'[j] = queue[old(j)] /\ queue'[k] = queue[old(k)]
    BY <1>6
  <2>3. /\ due'[queue'[j]] = due[queue[old(j)]] /\ due'[queue'[k]] = due[queue[old(k)]]
    BY <2>1, <2>2, <1>5, <1>6
  <2>4. /\ queue[old(j)] # queue[old(k)]
        /\ due[queue[old(j)]] <= due[queue[old(k)]] \/ due[queue[old(j)]] <= 0
    BY <2>1, <1>3
  <2> QED BY <2>2, <2>3, <2>4, Zenon
<1>9. \A j \in DOMAIN queue' : queue'[j] # queue[i]
  <2>1. DOMAIN queue' = 1 .. Len(queue) - 1
    BY <1>2
  <2> SUFFICES ASSUME NEW j \in 1 .. Len(queue) - 1
               PROVE  queue'[j] # queue[i]
    BY <2>1, Zenon
  <2>2. old(j) \in 1 .. Len(queue) /\ old(j) # i /\ queue'[j] = queue[old(j)]
    BY <1>6, Zenon
  <2>3. queue[old(j)] # queue[i]
    BY <2>2, <1>5, Zenon
  <2> QED BY <2>2, <2>3, Zenon
<1>10. ASSUME i # 1
       PROVE  /\ queue # << >> /\ queue' # << >>
              /\ queue'[1] = queue[1] /\ due'[queue'[1]] = due[queue[1]]
  <2>1. 1 \in 1 .. Len(queue) - 1 /\ 1 < i /\ 1 \in 1 .. Len(queue)
    BY <1>10, <1>1
  <2>2. queue'[1] = queue[1]
    BY <2>1, <1>2
  <2>3. due'[queue[1]] = due[queue[1]]
    BY <2>1, <1>5
  <2>4. queue # << >> /\ queue' # << >>
    BY <2>1, <1>1, <1>2
  <2> QED BY <2>2, <2>3, <2>4
<1> QED BY <1>2, <1>8, <1>9, <1>10

-----------------------------------------------------------------------------
(* A step that leaves the queue and the times alone leaves their order.    *)
LEMMA SameQueue ==
  ASSUME QueueOrdered, queue' = queue, due' = due PROVE QueueOrdered'
BY Zenon DEF QueueOrdered

(* The level of a callback is a number.                                    *)
LEMMA LevelNat == ASSUME IInv PROVE Level \in Nat
<1>1. frames \in Seq(Nat)
  BY TypeParts DEF IInv
<1>2. frames # << >> => Len(frames) \in 1 .. Len(frames)
  BY <1>1
<1> QED BY <1>1, <1>2 DEF Level

(* The time until the first timeout is a number.                           *)
LEMMA HeadInt == ASSUME TypeOK, queue # << >> PROVE queue[1] \in Timeouts /\ due[queue[1]] \in Int
<1>1. queue \in Seq(Timeouts) /\ due \in [Timeouts -> Int]
  BY TypeParts
<1>2. queue[1] \in Timeouts
  BY <1>1
<1> QED BY <1>1, <1>2

(* reset_interval_timer sets the timer exactly when a timeout is queued.   *)
LEMMA ResetTimerSets ==
  ASSUME IInv, ResetTimer
  PROVE  /\ timer' \in Nat \cup {-1}
         /\ rearmed' \in BOOLEAN /\ missed' = FALSE
<1>1. queue # << >> => due[queue[1]] \in Int
  BY HeadInt DEF IInv
<1> QED BY <1>1, TypeParts DEF IInv, ResetTimer, Off

(* inhibit-quit is bound or unbound.                                       *)
LEMMA SetInhibitStep == ASSUME IInv, \E b \in BOOLEAN : SetInhibit(b) PROVE IInv'
<1> USE DEF SetInhibit, Off, queueVars, stopVars
<1>1. TypeOK'
  BY TypeParts, Constants DEF IInv, TypeOK, Labels
<1>2. QueueOrdered'
  BY SameQueue DEF IInv
<1>3. TimerForHead'
  BY TypeParts DEF IInv, TimerForHead, HeadWithin, AboutToReset, Lisp, Level, StopsCounted, Stops
<1>4. StopsCounted'
  BY TypeParts, LevelNat DEF IInv, StopsCounted, Stops, Lisp
<1>5. PoppedApart'
  BY DEF IInv, PoppedApart, Pending
<1>6. NoLostWakeup'
  BY TypeParts DEF IInv, NoLostWakeup, Aborted
<1>7. AssertionsHold'
  BY TypeParts, LevelNat DEF IInv, AssertionsHold, StopsCounted, Stops
<1> QED BY <1>1, <1>2, <1>3, <1>4, <1>5, <1>6, <1>7 DEF IInv

(* QUIT begins.                                                            *)
LEMMA QuitStep == ASSUME IInv, Quit PROVE IInv'
<1> USE DEF Quit, Off, queueVars, stopVars
<1>1. TypeOK'
  BY TypeParts, Constants DEF IInv, TypeOK, Labels
<1>2. QueueOrdered'
  BY SameQueue DEF IInv
<1>3. TimerForHead'
  BY TypeParts DEF IInv, TimerForHead, HeadWithin, AboutToReset, Lisp, Level, StopsCounted, Stops
<1>4. StopsCounted'
  BY TypeParts, LevelNat DEF IInv, StopsCounted, Stops, Lisp
<1>5. PoppedApart'
  BY DEF IInv, PoppedApart, Pending
<1>6. NoLostWakeup'
  BY TypeParts DEF IInv, NoLostWakeup, Aborted
<1>7. AssertionsHold'
  BY TypeParts, LevelNat DEF IInv, AssertionsHold, StopsCounted, Stops
<1> QED BY <1>1, <1>2, <1>3, <1>4, <1>5, <1>6, <1>7 DEF IInv

(* QUIT looks at the flag of the alarm.                                    *)
LEMMA QuitAlarmStep == ASSUME IInv, QuitAlarm PROVE IInv'
<1> USE DEF QuitAlarm, Off, queueVars, stopVars
<1>1. TypeOK'
  BY TypeParts, Constants DEF IInv, TypeOK, Labels
<1>2. QueueOrdered'
  BY SameQueue DEF IInv
<1>3. TimerForHead'
  BY TypeParts DEF IInv, TimerForHead, HeadWithin, AboutToReset, Lisp, Level, StopsCounted, Stops
<1>4. StopsCounted'
  BY TypeParts, LevelNat DEF IInv, StopsCounted, Stops, Lisp
<1>5. PoppedApart'
  BY DEF IInv, PoppedApart, Pending
<1>6. NoLostWakeup'
  BY TypeParts DEF IInv, NoLostWakeup, Aborted
<1>7. AssertionsHold'
  BY TypeParts, LevelNat DEF IInv, AssertionsHold, StopsCounted, Stops
<1> QED BY <1>1, <1>2, <1>3, <1>4, <1>5, <1>6, <1>7 DEF IInv

(* slow_down_interrupts sets its timer.                                    *)
LEMMA SetSlowTimerStep == ASSUME IInv, SetSlowTimer PROVE IInv'
<1> USE DEF SetSlowTimer, Off, queueVars, stopVars
<1>1. TypeOK'
  BY TypeParts, Constants DEF IInv, TypeOK, Labels
<1>2. QueueOrdered'
  BY SameQueue DEF IInv
<1>3. TimerForHead'
  BY TypeParts DEF IInv, TimerForHead, HeadWithin, AboutToReset, Lisp, Level, StopsCounted, Stops
<1>4. StopsCounted'
  BY TypeParts, LevelNat DEF IInv, StopsCounted, Stops, Lisp
<1>5. PoppedApart'
  BY DEF IInv, PoppedApart, Pending
<1>6. NoLostWakeup'
  BY TypeParts DEF IInv, NoLostWakeup, Aborted
<1>7. AssertionsHold'
  BY TypeParts, LevelNat DEF IInv, AssertionsHold, StopsCounted, Stops
<1> QED BY <1>1, <1>2, <1>3, <1>4, <1>5, <1>6, <1>7 DEF IInv

(* The timer is set after the queue has a new first timeout.               *)
LEMMA ResetStep == ASSUME IInv, Reset PROVE IInv'
<1> USE DEF Reset, Off, queueVars, stopVars
<1>1. TypeOK'
  BY ResetTimerSets, TypeParts DEF IInv, TypeOK, Labels
<1>2. QueueOrdered'
  BY SameQueue DEF IInv
<1>3. TimerForHead'
  BY TypeParts, LevelNat DEF ResetTimer, IInv, TimerForHead, HeadWithin, AboutToReset, Lisp, StopsCounted, Stops
<1>4. StopsCounted'
  BY TypeParts, LevelNat DEF IInv, StopsCounted, Stops, Lisp
<1>5. PoppedApart'
  BY DEF IInv, PoppedApart, Pending
<1>6. NoLostWakeup'
  BY TypeParts DEF ResetTimer, IInv, NoLostWakeup, Aborted
<1>7. AssertionsHold'
  BY TypeParts, LevelNat DEF ResetTimer, IInv, AssertionsHold, StopsCounted, Stops
<1> QED BY <1>1, <1>2, <1>3, <1>4, <1>5, <1>6, <1>7 DEF IInv

(* The timer is set after the first timeout is popped.                     *)
LEMMA PoppedStep == ASSUME IInv, Popped PROVE IInv'
<1> USE DEF Popped, Off, queueVars, stopVars
<1>1. TypeOK'
  BY ResetTimerSets, TypeParts DEF IInv, TypeOK, Labels
<1>2. QueueOrdered'
  BY SameQueue DEF IInv
<1>3. TimerForHead'
  BY TypeParts, LevelNat DEF ResetTimer, IInv, TimerForHead, HeadWithin, AboutToReset, Lisp, StopsCounted, Stops
<1>4. StopsCounted'
  BY TypeParts, LevelNat DEF IInv, StopsCounted, Stops, Lisp
<1>5. PoppedApart'
  BY DEF IInv, PoppedApart, Pending
<1>6. NoLostWakeup'
  BY TypeParts DEF ResetTimer, IInv, NoLostWakeup, Aborted
<1>7. AssertionsHold'
  BY TypeParts, LevelNat DEF ResetTimer, IInv, AssertionsHold, StopsCounted, Stops
<1> QED BY <1>1, <1>2, <1>3, <1>4, <1>5, <1>6, <1>7 DEF IInv

(* A callback returns.                                                     *)
LEMMA ReturnStep == ASSUME IInv, Return PROVE IInv'
<1> USE DEF Return, Off, queueVars, stopVars
<1>1. TypeOK'
  <2>1. SubSeq(frames, 1, Len(frames) - 1) \in Seq(Nat)
    BY TypeParts, SMTT(30) DEF IInv
  <2> QED BY <2>1, TypeParts DEF IInv, TypeOK
<1>2. QueueOrdered'
  BY SameQueue DEF IInv
<1>3. TimerForHead'
  BY TypeParts DEF IInv, TimerForHead, HeadWithin, AboutToReset, Lisp, Level, StopsCounted, Stops
<1>4. StopsCounted'
  BY TypeParts, LevelNat DEF IInv, StopsCounted, Stops, Lisp
<1>5. PoppedApart'
  BY DEF IInv, PoppedApart, Pending
<1>6. NoLostWakeup'
  BY TypeParts DEF IInv, NoLostWakeup, Aborted
<1>7. AssertionsHold'
  BY TypeParts, LevelNat DEF IInv, AssertionsHold, StopsCounted, Stops
<1> QED BY <1>1, <1>2, <1>3, <1>4, <1>5, <1>6, <1>7 DEF IInv

(* The alarm is delivered.                                                 *)
LEMMA AlarmSignalStep == ASSUME IInv, AlarmSignal PROVE IInv'
<1> USE DEF AlarmSignal, Off, queueVars, stopVars
<1>1. TypeOK'
  BY TypeParts, Constants DEF IInv, TypeOK, Labels
<1>2. QueueOrdered'
  BY SameQueue DEF IInv
<1>3. TimerForHead'
  BY TypeParts DEF IInv, TimerForHead, HeadWithin, AboutToReset, Lisp, Level, StopsCounted, Stops
<1>4. StopsCounted'
  BY TypeParts, LevelNat DEF IInv, StopsCounted, Stops, Lisp
<1>5. PoppedApart'
  BY DEF IInv, PoppedApart, Pending
<1>6. NoLostWakeup'
  <2>1. something' = TRUE /\ queue' = queue /\ suppress' = suppress /\ pc' = pc
    OBVIOUS
  <2>2. CASE slow = 0
    <3>1. alarm' = TRUE
      BY <2>2, TypeParts DEF IInv
    <3> QED BY <2>1, <3>1 DEF NoLostWakeup
  <2>3. CASE slow # 0 /\ suppress = 0
    <3>0. slow > 0 /\ suppress = 0
      BY <2>3, TypeParts DEF IInv
    <3>1. missed' = TRUE
      BY <3>0, Zenon
    <3> QED BY <2>1, <3>1 DEF NoLostWakeup
  <2>4. CASE suppress # 0
    BY <2>1, <2>4 DEF NoLostWakeup
  <2> QED BY <2>2, <2>3, <2>4
<1>7. AssertionsHold'
  BY TypeParts, LevelNat DEF IInv, AssertionsHold, StopsCounted, Stops
<1> QED BY <1>1, <1>2, <1>3, <1>4, <1>5, <1>6, <1>7 DEF IInv

(* Interrupts are stopped.                                                 *)
LEMMA StopStep == ASSUME IInv, Stop PROVE IInv'
<1> USE DEF Stop, Off, queueVars, stopVars
<1>1. TypeOK'
  BY TypeParts, Constants DEF IInv, TypeOK, Labels
<1>2. QueueOrdered'
  BY SameQueue DEF IInv
<1>3. TimerForHead'
  BY TypeParts DEF IInv, TimerForHead, HeadWithin, AboutToReset, Lisp, Level, StopsCounted, Stops
<1>4. StopsCounted'
  BY TypeParts, LevelNat DEF IInv, StopsCounted, Stops, Lisp
<1>5. PoppedApart'
  BY DEF IInv, PoppedApart, Pending
<1>6. NoLostWakeup'
  <2>1. suppress' # 0 /\ pc' # "quit" /\ pc # "quit" /\ alarm' = alarm /\ something' = something
    BY TypeParts DEF IInv, Lisp
  <2>2. alarm => something
    BY <2>1 DEF IInv, NoLostWakeup, Aborted, Lisp
  <2>3. alarm' => something'
    BY <2>1, <2>2
  <2> QED BY <2>1, <2>3, Zenon DEF NoLostWakeup
<1>7. AssertionsHold'
  BY TypeParts, LevelNat DEF IInv, AssertionsHold, StopsCounted, Stops
<1> QED BY <1>1, <1>2, <1>3, <1>4, <1>5, <1>6, <1>7 DEF IInv

(* Interrupts are started.                                                 *)
LEMMA StartStep == ASSUME IInv, Start PROVE IInv'
<1> USE DEF Start, StartInterrupts, Off, queueVars, stopVars
<1>1. TypeOK'
  <2>1. CASE suppress = 1
    <3>1. ResetTimer /\ suppress' = 0
      BY <2>1 DEF ResetTimer
    <3> QED BY <2>1, <3>1, ResetTimerSets, TypeParts DEF IInv, TypeOK, Labels
  <2>2. CASE suppress # 1
    BY <2>2, TypeParts DEF IInv, TypeOK, Labels
  <2> QED BY <2>1, <2>2
<1>2. QueueOrdered'
  BY SameQueue DEF IInv
<1>3. TimerForHead'
  BY TypeParts, LevelNat, SMTT(30) DEF ResetTimer, IInv, TimerForHead, HeadWithin, AboutToReset, Lisp, StopsCounted, Stops
<1>4. StopsCounted'
  BY TypeParts, LevelNat DEF IInv, StopsCounted, Stops, Lisp
<1>5. PoppedApart'
  BY DEF IInv, PoppedApart, Pending
<1>6. NoLostWakeup'
  BY TypeParts DEF ResetTimer, IInv, NoLostWakeup, Aborted
<1>7. AssertionsHold'
  BY TypeParts, LevelNat DEF ResetTimer, IInv, AssertionsHold, StopsCounted, Stops
<1> QED BY <1>1, <1>2, <1>3, <1>4, <1>5, <1>6, <1>7 DEF IInv

(* slow_down_interrupts sets its flag.                                     *)
LEMMA SlowDownStep == ASSUME IInv, SlowDown PROVE IInv'
<1> USE DEF SlowDown, Off, queueVars, stopVars
<1>1. TypeOK'
  BY TypeParts, Constants DEF IInv, TypeOK, Labels
<1>2. QueueOrdered'
  BY SameQueue DEF IInv
<1>3. TimerForHead'
  BY TypeParts DEF IInv, TimerForHead, HeadWithin, AboutToReset, Lisp, Level, StopsCounted, Stops
<1>4. StopsCounted'
  <2>1. pc = "lisp" /\ pc' \in {"slowing", "lisp"} /\ suppress' = suppress
    BY DEF Lisp
  <2>2. CASE slow = 0
    <3>1. slow' = 1 /\ pc' = "slowing" /\ nested' = nested /\ suppress = 0
      BY <2>1, <2>2, TypeParts DEF IInv, StopsCounted, Stops
    <3> QED BY <2>1, <3>1, TypeParts DEF IInv, StopsCounted, Stops
  <2>3. CASE slow # 0
    <3>0. slow > 0
      BY <2>3, TypeParts DEF IInv
    <3>1. slow' > 0 /\ pc' = "lisp" /\ suppress <= 1
      BY <2>1, <3>0, TypeParts DEF IInv, StopsCounted, Stops
    <3>2. nested' = TRUE
      BY <3>0, Zenon
    <3> QED BY <2>1, <3>1, <3>2, TypeParts DEF IInv, StopsCounted, Stops
  <2> QED BY <2>2, <2>3
<1>5. PoppedApart'
  BY DEF IInv, PoppedApart, Pending
<1>6. NoLostWakeup'
  <2>1. /\ pc = "lisp" /\ pc' \in {"slowing", "lisp"} /\ suppress' = suppress /\ queue' = queue
        /\ alarm' = alarm /\ something' = something /\ timer' = timer /\ missed' = missed
    BY DEF Lisp
  <2> QED BY <2>1 DEF IInv, NoLostWakeup, Aborted
<1>7. AssertionsHold'
  BY TypeParts, LevelNat DEF IInv, AssertionsHold, StopsCounted, Stops
<1> QED BY <1>1, <1>2, <1>3, <1>4, <1>5, <1>6, <1>7 DEF IInv

(* speed_up_interrupts starts the interrupts.                              *)
LEMMA SpeedUpStep == ASSUME IInv, SpeedUp PROVE IInv'
<1> USE DEF SpeedUp, StartInterrupts, Off, queueVars, stopVars
<1>1. TypeOK'
  <2>1. CASE suppress = 1
    <3>1. ResetTimer /\ suppress' = 0
      BY <2>1 DEF ResetTimer
    <3> QED BY <2>1, <3>1, ResetTimerSets, TypeParts DEF IInv, TypeOK, Labels
  <2>2. CASE suppress # 1
    BY <2>2, TypeParts DEF IInv, TypeOK, Labels
  <2> QED BY <2>1, <2>2
<1>2. QueueOrdered'
  BY SameQueue DEF IInv
<1>3. TimerForHead'
  <2>1. slow > 0 /\ slow' = slow /\ pc = "lisp" /\ suppress <= 1
    BY TypeParts, LevelNat DEF IInv, StopsCounted, Stops
  <2>2. CASE suppress = 0
    <3>1. pc' = "notStopped" /\ slow' # 0
      BY <2>1, <2>2, TypeParts DEF IInv
    <3> QED BY <3>1, <2>1, <2>2, TypeParts DEF IInv, TimerForHead, HeadWithin, AboutToReset
  <2>3. CASE suppress = 1
    <3>1. ResetTimer /\ pc' = "speeding" /\ queue' = queue /\ due' = due /\ alarm' = alarm
      BY <2>3
    <3>2. queue # << >> => due[queue[1]] \in Int
      BY HeadInt DEF IInv
    <3>3. timer' # Off => HeadWithin(timer)'
      BY <3>1, <3>2 DEF ResetTimer, HeadWithin
    <3>4. rearmed' = alarm'
      BY <3>1 DEF ResetTimer
    <3>5. ~(alarm' /\ ~rearmed') /\ pc' # "handle"
      BY <3>1, <3>4
    <3> QED BY <3>3, <3>5, Zenon DEF TimerForHead
  <2> QED BY <2>1, <2>2, <2>3, TypeParts DEF IInv
<1>4. StopsCounted'
  BY TypeParts, LevelNat DEF IInv, StopsCounted, Stops, Lisp
<1>5. PoppedApart'
  BY DEF IInv, PoppedApart, Pending
<1>6. NoLostWakeup'
  BY TypeParts DEF ResetTimer, IInv, NoLostWakeup, Aborted
<1>7. AssertionsHold'
  BY TypeParts, LevelNat DEF ResetTimer, IInv, AssertionsHold, StopsCounted, Stops
<1> QED BY <1>1, <1>2, <1>3, <1>4, <1>5, <1>6, <1>7 DEF IInv

(* speed_up_interrupts clears its flag.                                    *)
LEMMA ClearSlowStep == ASSUME IInv, ClearSlow PROVE IInv'
<1> USE DEF ClearSlow, Off, queueVars, stopVars
<1>1. TypeOK'
  <2>1. slow - 1 \in Nat
    BY TypeParts DEF IInv, StopsCounted
  <2> QED BY <2>1, TypeParts DEF IInv, TypeOK, Labels
<1>2. QueueOrdered'
  BY SameQueue DEF IInv
<1>3. TimerForHead'
  BY TypeParts DEF IInv, TimerForHead, HeadWithin, AboutToReset, Lisp, Level, StopsCounted, Stops
<1>4. StopsCounted'
  BY TypeParts, LevelNat DEF IInv, StopsCounted, Stops, Lisp
<1>5. PoppedApart'
  BY DEF IInv, PoppedApart, Pending
<1>6. NoLostWakeup'
  BY TypeParts DEF IInv, NoLostWakeup, Aborted
<1>7. AssertionsHold'
  BY TypeParts, LevelNat DEF IInv, AssertionsHold, StopsCounted, Stops
<1> QED BY <1>1, <1>2, <1>3, <1>4, <1>5, <1>6, <1>7 DEF IInv


-----------------------------------------------------------------------------
(* Time passes: what is due stays due, and the others come nearer.         *)
LEMMA LaterStep ==
  ASSUME IInv, Tick, NEW t \in Timeouts
  PROVE  /\ due'[t] \in Int /\ due'[t] + every[t] >= 0
         /\ due[t] <= 0 => due'[t] <= 0
         /\ Pending(t) /\ due[t] > 0 => due'[t] = due[t] - 1
<1>1. due \in [Timeouts -> Int] /\ every \in [Timeouts -> Nat]
  BY TypeParts DEF IInv
<1>2. due[t] \in Int /\ every[t] \in Nat /\ due[t] + every[t] >= 0
  BY <1>1 DEF IInv, PoppedApart
<1>3. due'[t] = IF Pending(t) \/ popped = t THEN Later(t) ELSE due[t]
  BY DEF Tick
<1>4. CASE Pending(t) \/ popped = t
  BY <1>2, <1>3, <1>4 DEF Later
<1>5. CASE ~(Pending(t) \/ popped = t)
  BY <1>2, <1>3, <1>5
<1> QED BY <1>4, <1>5

(* Time passes.                                                            *)
LEMMA TickStep == ASSUME IInv, Tick PROVE IInv'
<1>1. /\ queue' = queue /\ every' = every /\ alarm' = alarm /\ something' = something
      /\ inhibit' = inhibit /\ suppress' = suppress /\ slow' = slow /\ nested' = nested
      /\ pc' = pc /\ popped' = popped /\ frames' = frames /\ rearmed' = rearmed
      /\ missed' = missed
      /\ timer' = IF timer > 0 THEN timer - 1 ELSE timer
  BY DEF Tick, stopVars
<1>2. \A t \in Timeouts :
        /\ due'[t] \in Int /\ due'[t] + every[t] >= 0
        /\ due[t] <= 0 => due'[t] <= 0
        /\ Pending(t) /\ due[t] > 0 => due'[t] = due[t] - 1
  BY LaterStep
<1>3. due' \in [Timeouts -> Int]
  <2>1. due' = [t \in Timeouts |-> IF Pending(t) \/ popped = t THEN Later(t) ELSE due[t]]
    BY DEF Tick
  <2>2. due' = [t \in Timeouts |-> due'[t]]
    BY <2>1
  <2> QED BY <2>2, <1>2
<1>4. timer \in Int /\ (timer >= 0 \/ timer = -1)
  BY TypeParts DEF IInv, Off
<1>5. TypeOK'
  <2>1. timer' \in Nat \cup {-1}
    BY <1>1, <1>4
  <2> QED BY <2>1, <1>1, <1>3, TypeParts DEF IInv, TypeOK, Off
<1>6. QueueOrdered'
  <2> SUFFICES ASSUME NEW i \in DOMAIN queue, NEW j \in DOMAIN queue, i < j
               PROVE  /\ queue[i] # queue[j]
                      /\ due'[queue[i]] <= due'[queue[j]] \/ due'[queue[i]] <= 0
    BY <1>1 DEF QueueOrdered
  <2>1. queue[i] \in Timeouts /\ queue[j] \in Timeouts /\ due \in [Timeouts -> Int]
    BY TypeParts DEF IInv
  <2>2. /\ queue[i] # queue[j]
        /\ due[queue[i]] <= due[queue[j]] \/ due[queue[i]] <= 0
    BY DEF IInv, QueueOrdered
  <2>3. Pending(queue[i]) /\ Pending(queue[j])
    BY DEF Pending
  <2>4. due[queue[i]] \in Int /\ due[queue[j]] \in Int
    BY <2>1
  <2>5. CASE due[queue[i]] <= 0
    BY <2>1, <2>2, <2>5, <1>2
  <2>6. CASE due[queue[i]] > 0
    <3>1. due'[queue[i]] = due[queue[i]] - 1 /\ due'[queue[j]] = due[queue[j]] - 1
      BY <2>1, <2>2, <2>3, <2>4, <2>6, <1>2
    <3> QED BY <3>1, <2>2, <2>4, <2>6
  <2> QED BY <2>4, <2>5, <2>6
<1>7. ASSUME NEW x \in Nat, HeadWithin(x)
      PROVE  due'[queue[1]] <= IF x > 0 THEN x - 1 ELSE 0
  <2>1. queue # << >> /\ due[queue[1]] <= x
    BY <1>7 DEF HeadWithin
  <2>2. queue[1] \in Timeouts /\ due[queue[1]] \in Int
    BY <2>1, HeadInt DEF IInv
  <2>3. Pending(queue[1])
    <3>1. 1 \in DOMAIN queue
      BY <2>1, TypeParts DEF IInv
    <3> QED BY <3>1 DEF Pending
  <2>4. due'[queue[1]] \in Int
    BY <2>2, <1>2
  <2>5. CASE due[queue[1]] <= 0
    <3>1. due'[queue[1]] <= 0
      BY <2>2, <2>5, <1>2
    <3> QED BY <3>1, <2>4
  <2>6. CASE due[queue[1]] > 0
    <3>1. due'[queue[1]] = due[queue[1]] - 1
      BY <2>2, <2>3, <2>6, <1>2
    <3> QED BY <3>1, <2>1, <2>2, <2>6
  <2> QED BY <2>2, <2>5, <2>6
<1>8. TimerForHead'
  <2>1. ASSUME timer' # Off, slow = 0 \/ pc = "speeding", ~AboutToReset
        PROVE  HeadWithin(timer)'
    <3>1. timer \in Nat /\ timer # Off
      BY <2>1, <1>1, <1>4 DEF Off
    <3>2. HeadWithin(timer)
      BY <2>1, <3>1 DEF IInv, TimerForHead
    <3>3. due'[queue[1]] <= IF timer > 0 THEN timer - 1 ELSE 0
      BY <3>1, <3>2, <1>7
    <3> QED BY <1>1, <3>1, <3>2, <3>3 DEF HeadWithin
  <2>2. ASSUME ~rearmed, alarm \/ pc = "handle", ~AboutToReset
        PROVE  HeadWithin(0)'
    <3>1. HeadWithin(0)
      BY <2>2, Zenon DEF IInv, TimerForHead
    <3>2. due'[queue[1]] <= 0
      BY <3>1, <1>7
    <3> QED BY <1>1, <3>1, <3>2 DEF HeadWithin
  <2>3. AboutToReset' = AboutToReset
    BY <1>1 DEF AboutToReset
  <2> QED BY <1>1, <2>1, <2>2, <2>3 DEF TimerForHead, Off
<1>9. StopsCounted'
  BY <1>1 DEF IInv, StopsCounted, Stops
<1>10. PoppedApart'
  BY <1>1, <1>2 DEF IInv, PoppedApart, Pending
<1>11. NoLostWakeup'
  <2>1. timer' = Off => timer = Off
    BY <1>1, <1>4 DEF Off
  <2> QED BY <1>1, <2>1 DEF IInv, NoLostWakeup
<1>12. AssertionsHold'
  BY <1>1 DEF IInv, AssertionsHold
<1> QED BY <1>5, <1>6, <1>8, <1>9, <1>10, <1>11, <1>12 DEF IInv

(* An insertion, and whatever else leaves the timer alone and the first    *)
(* timeout where it was, keeps the timer right.                            *)
LEMMA SameHead ==
  ASSUME IInv,
         \/ pc' = "reset"
         \/ /\ pc' = "lisp" /\ queue # << >>
            /\ queue' # << >> /\ queue'[1] = queue[1] /\ due'[queue'[1]] <= due[queue[1]],
         queue' # << >> => due'[queue'[1]] \in Int,
         ~AboutToReset, pc # "speeding",
         timer' = timer, slow' = slow, alarm' = alarm, rearmed' = rearmed
  PROVE  TimerForHead'
<1>1. CASE pc' = "reset"
  BY <1>1 DEF TimerForHead, AboutToReset
<1>2. CASE pc' = "lisp" /\ queue # << >> /\ queue' # << >>
           /\ queue'[1] = queue[1] /\ due'[queue'[1]] <= due[queue[1]]
  <2>1. due[queue[1]] \in Int /\ due'[queue'[1]] \in Int
    BY <1>2, HeadInt DEF IInv
  <2>2. \A x \in Int : HeadWithin(x) => due'[queue'[1]] <= x
    BY <1>2, <2>1 DEF HeadWithin
  <2>3. ASSUME timer # Off, slow = 0 PROVE HeadWithin(timer)'
    <3>1. HeadWithin(timer)
      BY <2>3, Zenon DEF IInv, TimerForHead
    <3>2. timer \in Int
      BY TypeParts DEF IInv
    <3> QED BY <3>1, <3>2, <2>2, <1>2 DEF HeadWithin
  <2>4. ASSUME alarm, ~rearmed PROVE HeadWithin(0)'
    <3>1. HeadWithin(0)
      BY <2>4, Zenon DEF IInv, TimerForHead
    <3> QED BY <3>1, <2>2, <1>2 DEF HeadWithin
  <2> QED BY <2>3, <2>4, <1>2 DEF TimerForHead
<1> QED BY <1>1, <1>2

(* add-async-timeout.                                                      *)
LEMMA AddStep ==
  ASSUME IInv, NEW t \in Timeouts, NEW secs \in Delays, NEW resignal \in Intervals,
         Add(t, secs, resignal)
  PROVE  IInv'
<1>1. /\ pc = "lisp" /\ ~Pending(t) /\ AddAsyncTimeout(t, secs)
      /\ due' = [due EXCEPT ![t] = secs] /\ every' = [every EXCEPT ![t] = resignal]
      /\ timer' = timer /\ alarm' = alarm /\ something' = something /\ inhibit' = inhibit
      /\ suppress' = suppress /\ slow' = slow /\ nested' = nested
      /\ popped' = popped /\ frames' = frames /\ rearmed' = rearmed /\ missed' = missed
  BY DEF Add, Lisp, stopVars
<1>2. secs \in Nat /\ resignal \in Nat
  BY Constants
<1>3. /\ queue' \in Seq(Timeouts) /\ queue' # << >> /\ QueueOrdered'
      /\ \/ pc' = "reset"
         \/ /\ pc' = "lisp" /\ queue # << >>
            /\ queue'[1] = queue[1] /\ due'[queue'[1]] = due[queue[1]]
  BY <1>1, <1>2, AddOrdered DEF IInv
<1>4. due' \in [Timeouts -> Int] /\ every' \in [Timeouts -> Nat]
  BY <1>1, <1>2, TypeParts DEF IInv
<1>5. TypeOK'
  BY <1>1, <1>3, <1>4, TypeParts DEF IInv, TypeOK, Labels
<1>6. TimerForHead'
  <2>1. due'[queue'[1]] \in Int
    BY <1>3, <1>4
  <2>2. queue # << >> => due[queue[1]] \in Int
    BY HeadInt DEF IInv
  <2>3. ~AboutToReset /\ pc # "speeding"
    BY <1>1 DEF AboutToReset
  <2>4. \/ pc' = "reset"
        \/ /\ pc' = "lisp" /\ queue # << >>
           /\ queue' # << >> /\ queue'[1] = queue[1] /\ due'[queue'[1]] <= due[queue[1]]
    BY <1>3, <2>2
  <2> QED BY <1>1, <2>1, <2>3, <2>4, SameHead
<1>7. StopsCounted'
  BY <1>1, <1>3 DEF IInv, StopsCounted, Stops
<1>8. PoppedApart'
  <2>1. \A s \in Timeouts : due'[s] + every'[s] >= 0
    <3> SUFFICES ASSUME NEW s \in Timeouts PROVE due'[s] + every'[s] >= 0
      OBVIOUS
    <3>1. CASE s = t
      BY <3>1, <1>1, <1>2, TypeParts DEF IInv
    <3>2. CASE s # t
      BY <3>2, <1>1, TypeParts DEF IInv, PoppedApart
    <3> QED BY <3>1, <3>2
  <2> QED BY <2>1, <1>3 DEF PoppedApart
<1>9. NoLostWakeup'
  BY <1>1, <1>3 DEF IInv, NoLostWakeup, Aborted
<1>10. AssertionsHold'
  BY <1>1, <1>3 DEF IInv, AssertionsHold
<1> QED BY <1>3, <1>5, <1>6, <1>7, <1>8, <1>9, <1>10 DEF IInv

(* disable-async-timeout.                                                  *)
LEMMA DisableStep ==
  ASSUME IInv, NEW t \in Timeouts, Disable(t) PROVE IInv'
<1>1. /\ pc = "lisp"
      /\ due' = [due EXCEPT ![t] = 0] /\ every' = [every EXCEPT ![t] = 0]
      /\ timer' = timer /\ alarm' = alarm /\ something' = something /\ inhibit' = inhibit
      /\ suppress' = suppress /\ slow' = slow /\ nested' = nested
      /\ popped' = popped /\ frames' = frames /\ rearmed' = rearmed /\ missed' = missed
  BY DEF Disable, Lisp, stopVars
<1>2. PICK i \in DOMAIN queue :
        /\ queue[i] = t /\ queue' = Deleted(queue, i, i + 1)
        /\ pc' = IF i = 1 THEN "reset" ELSE "lisp"
  BY DEF Disable
<1>3. i \in 1 .. Len(queue) /\ queue # << >>
  BY TypeParts, SMTT(30) DEF IInv
<1>4. \A s \in Timeouts : s # queue[i] => due'[s] = due[s]
  BY <1>1, <1>2, TypeParts DEF IInv
<1>5. /\ queue' \in Seq(Timeouts) /\ QueueOrdered'
      /\ i # 1 => /\ queue # << >> /\ queue' # << >>
                  /\ queue'[1] = queue[1] /\ due'[queue'[1]] = due[queue[1]]
  BY <1>2, <1>3, <1>4, RemoveOrdered DEF IInv
<1>6. due' \in [Timeouts -> Int] /\ every' \in [Timeouts -> Nat]
  BY <1>1, TypeParts, SMTT(30) DEF IInv
<1>7. pc' \in {"reset", "lisp"} /\ (pc' # "reset" => i # 1)
  BY <1>2
<1>8. TypeOK'
  BY <1>1, <1>5, <1>6, <1>7, TypeParts DEF IInv, TypeOK, Labels
<1>9. TimerForHead'
  <2>1. queue' # << >> => due'[queue'[1]] \in Int
    BY <1>5, <1>6
  <2>2. due[queue[1]] \in Int
    BY <1>3, HeadInt DEF IInv
  <2>3. ~AboutToReset /\ pc # "speeding"
    BY <1>1 DEF AboutToReset
  <2>4. \/ pc' = "reset"
        \/ /\ pc' = "lisp" /\ queue # << >>
           /\ queue' # << >> /\ queue'[1] = queue[1] /\ due'[queue'[1]] <= due[queue[1]]
    BY <1>5, <1>7, <2>2
  <2> QED BY <1>1, <2>1, <2>3, <2>4, SameHead
<1>10. StopsCounted'
  BY <1>1, <1>7 DEF IInv, StopsCounted, Stops
<1>11. PoppedApart'
  <2>1. \A s \in Timeouts : due'[s] + every'[s] >= 0
    <3> SUFFICES ASSUME NEW s \in Timeouts PROVE due'[s] + every'[s] >= 0
      OBVIOUS
    <3>1. CASE s = t
      BY <3>1, <1>1, TypeParts DEF IInv
    <3>2. CASE s # t
      BY <3>2, <1>1, TypeParts DEF IInv, PoppedApart
    <3> QED BY <3>1, <3>2
  <2> QED BY <2>1, <1>7 DEF PoppedApart
<1>12. NoLostWakeup'
  BY <1>1, <1>3, <1>7 DEF IInv, NoLostWakeup, Aborted
<1>13. AssertionsHold'
  BY <1>1, <1>7 DEF IInv, AssertionsHold
<1> QED BY <1>5, <1>8, <1>9, <1>10, <1>11, <1>12, <1>13 DEF IInv

(* QUIT deals with an alarm: it is blocked, or finds no timeout, or pops   *)
(* the first.                                                              *)
LEMMA HandleAlarmStep == ASSUME IInv, HandleAlarm PROVE IInv'
<1>1. /\ pc = "handle" /\ due' = due /\ every' = every /\ timer' = timer /\ inhibit' = inhibit
      /\ suppress' = suppress /\ slow' = slow /\ nested' = nested
      /\ frames' = frames /\ rearmed' = rearmed /\ missed' = missed
  BY DEF HandleAlarm, stopVars
<1>2. CASE /\ inhibit /\ something' = TRUE /\ alarm' = TRUE /\ pc' = "lisp"
           /\ queue' = queue /\ popped' = popped
  <2>1. TypeOK'
    BY <1>1, <1>2, TypeParts DEF IInv, TypeOK, Labels
  <2>2. QueueOrdered'
    BY <1>1, <1>2, SameQueue DEF IInv
  <2>3. TimerForHead'
    BY <1>1, <1>2, TypeParts DEF IInv, TimerForHead, HeadWithin, AboutToReset
  <2>4. StopsCounted'
    BY <1>1, <1>2 DEF IInv, StopsCounted, Stops
  <2>5. PoppedApart'
    BY <1>1, <1>2 DEF IInv, PoppedApart
  <2>6. NoLostWakeup'
    BY <1>2 DEF NoLostWakeup
  <2>7. AssertionsHold'
    BY <1>2 DEF AssertionsHold
  <2> QED BY <2>1, <2>2, <2>3, <2>4, <2>5, <2>6, <2>7 DEF IInv
<1>3. CASE /\ queue = << >> /\ pc' = "noTimeout" /\ queue' = queue /\ popped' = popped
           /\ alarm' = alarm /\ something' = something
  <2>1. TypeOK'
    BY <1>1, <1>3, TypeParts DEF IInv, TypeOK, Labels
  <2>2. QueueOrdered'
    BY <1>1, <1>3, SameQueue DEF IInv
  <2>3. rearmed
    BY <1>1, <1>3, Zenon DEF IInv, TimerForHead, HeadWithin, AboutToReset
  <2>4. TimerForHead'
    <3>1. timer # Off => slow # 0
      BY <1>1, <1>3 DEF IInv, TimerForHead, HeadWithin, AboutToReset
    <3> QED BY <3>1, <2>3, <1>1, <1>3 DEF TimerForHead
  <2>5. StopsCounted'
    BY <1>1, <1>3 DEF IInv, StopsCounted, Stops
  <2>6. PoppedApart'
    BY <1>1, <1>3 DEF IInv, PoppedApart
  <2>7. NoLostWakeup'
    BY <1>3 DEF NoLostWakeup, Aborted
  <2>8. AssertionsHold'
    BY <1>1, <1>3, <2>3 DEF AssertionsHold
  <2> QED BY <2>1, <2>2, <2>4, <2>5, <2>6, <2>7, <2>8 DEF IInv
<1>4. CASE /\ queue # << >> /\ popped' = queue[1] /\ queue' = Deleted(queue, 1, 2)
           /\ pc' = "popped" /\ alarm' = alarm /\ something' = something
  <2>1. 1 \in 1 .. Len(queue) /\ queue[1] \in Timeouts
    BY <1>4, TypeParts DEF IInv
  <2>2. /\ queue' \in Seq(Timeouts) /\ QueueOrdered'
        /\ \A j \in DOMAIN queue' : queue'[j] # queue[1]
    BY <2>1, <1>1, <1>4, RemoveOrdered DEF IInv
  <2>3. TypeOK'
    BY <1>1, <1>4, <2>1, <2>2, TypeParts DEF IInv, TypeOK, Labels
  <2>4. TimerForHead'
    BY <1>4 DEF TimerForHead, AboutToReset
  <2>5. StopsCounted'
    BY <1>1, <1>4 DEF IInv, StopsCounted, Stops
  <2>6. PoppedApart'
    BY <1>1, <1>4, <2>1, <2>2 DEF IInv, PoppedApart, Pending
  <2>7. NoLostWakeup'
    BY <1>1, <1>4 DEF IInv, NoLostWakeup, Aborted
  <2>8. AssertionsHold'
    BY <1>4 DEF AssertionsHold
  <2> QED BY <2>2, <2>3, <2>4, <2>5, <2>6, <2>7, <2>8 DEF IInv
<1> QED BY <1>2, <1>3, <1>4, Zenon DEF HandleAlarm

(* The timeout that was popped is resignalled, or done with.               *)
LEMMA ResignalStep == ASSUME IInv, Resignal PROVE IInv'
<1>1. /\ pc = "resignal" /\ popped' = None /\ inhibit' = TRUE /\ frames' = Append(frames, slow)
      /\ every' = every /\ timer' = timer /\ alarm' = alarm /\ something' = something
      /\ suppress' = suppress /\ slow' = slow /\ nested' = nested
      /\ rearmed' = rearmed /\ missed' = missed
  BY DEF Resignal, stopVars
<1>2. popped \in Timeouts /\ ~Pending(popped)
  BY <1>1 DEF IInv, PoppedApart
<1>3. PICK d \in Nat :
        /\ d + every[popped] >= 0
        /\ due' = [due EXCEPT ![popped] = d]
        /\ \/ queue' = queue /\ pc' = "lisp"
           \/ AddAsyncTimeout(popped, d)
  <2>1. due[popped] \in Int /\ every[popped] \in Nat /\ due[popped] + every[popped] >= 0
    BY <1>2, TypeParts DEF IInv, PoppedApart
  <2>2. CASE every[popped] = 0
    <3>1. due' = [due EXCEPT ![popped] = 0] /\ queue' = queue /\ pc' = "lisp"
      BY <2>2 DEF Resignal
    <3>2. 0 \in Nat /\ 0 + every[popped] >= 0
      BY <2>1
    <3> QED BY <3>1, <3>2, Zenon
  <2>3. CASE every[popped] # 0
    <3>1. /\ due' = [due EXCEPT ![popped] = due[popped] + every[popped]]
          /\ AddAsyncTimeout(popped, due[popped] + every[popped])
      BY <2>3 DEF Resignal
    <3>2. due[popped] + every[popped] \in Nat
      BY <2>1
    <3>3. (due[popped] + every[popped]) + every[popped] >= 0
      BY <2>1
    <3> QED BY <3>1, <3>2, <3>3, Zenon
  <2> QED BY <2>2, <2>3
<1>4. due' \in [Timeouts -> Int] /\ frames' \in Seq(Nat)
  BY <1>1, <1>2, <1>3, TypeParts DEF IInv
<1>5. /\ queue' \in Seq(Timeouts) /\ QueueOrdered' /\ (queue # << >> => queue' # << >>)
      /\ \/ pc' = "reset"
         \/ /\ pc' = "lisp"
            /\ queue' # << >> => /\ queue # << >> /\ queue'[1] = queue[1]
                                 /\ due'[queue'[1]] = due[queue[1]]
  <2>1. CASE queue' = queue /\ pc' = "lisp"
    <3>1. \A i \in DOMAIN queue : due'[queue[i]] = due[queue[i]]
      BY <1>2, <1>3, TypeParts DEF IInv, Pending
    <3>2. QueueOrdered'
      BY <2>1, <3>1, Zenon DEF IInv, QueueOrdered
    <3>3. queue # << >> => 1 \in DOMAIN queue
      BY TypeParts DEF IInv
    <3> QED BY <2>1, <3>1, <3>2, <3>3, TypeParts DEF IInv
  <2>2. CASE AddAsyncTimeout(popped, d)
    BY <2>2, <1>2, <1>3, AddOrdered DEF IInv
  <2> QED BY <2>1, <2>2, <1>3
<1>6. TypeOK'
  BY <1>1, <1>4, <1>5, TypeParts DEF IInv, TypeOK, Labels
<1>7. TimerForHead'
  <2>1. queue' # << >> => due'[queue'[1]] \in Int
    BY <1>4, <1>5
  <2>2. queue # << >> => due[queue[1]] \in Int
    BY HeadInt DEF IInv
  <2>3. ~AboutToReset /\ pc # "speeding"
    BY <1>1 DEF AboutToReset
  <2>4. CASE \/ pc' = "reset"
             \/ pc' = "lisp" /\ queue' # << >>
    <3>1. \/ pc' = "reset"
          \/ /\ pc' = "lisp" /\ queue # << >>
             /\ queue' # << >> /\ queue'[1] = queue[1] /\ due'[queue'[1]] <= due[queue[1]]
      BY <1>5, <2>2, <2>4
    <3> QED BY <1>1, <2>1, <2>3, <3>1, SameHead
  <2>5. CASE pc' = "lisp" /\ queue' = << >>
    <3>1. queue = << >>
      BY <1>5, <2>5
    <3>2. ~(timer # Off /\ slow = 0)
      BY <3>1, <2>3, Zenon DEF IInv, TimerForHead, HeadWithin
    <3>3. ~(alarm /\ ~rearmed)
      BY <3>1, <2>3, Zenon DEF IInv, TimerForHead, HeadWithin
    <3> QED BY <1>1, <2>5, <3>2, <3>3 DEF TimerForHead
  <2> QED BY <1>5, <2>4, <2>5
<1>8. pc' \in {"reset", "lisp"}
  BY <1>5
<1>9. StopsCounted'
  BY <1>1, <1>8 DEF IInv, StopsCounted, Stops
<1>10. PoppedApart'
  <2>1. \A s \in Timeouts : due'[s] + every'[s] >= 0
    <3> SUFFICES ASSUME NEW s \in Timeouts PROVE due'[s] + every'[s] >= 0
      OBVIOUS
    <3>1. CASE s = popped
      BY <3>1, <1>1, <1>2, <1>3, TypeParts DEF IInv
    <3>2. CASE s # popped
      BY <3>2, <1>1, <1>3, TypeParts DEF IInv, PoppedApart
    <3> QED BY <3>1, <3>2
  <2> QED BY <2>1, <1>8 DEF PoppedApart
<1>11. NoLostWakeup'
  BY <1>1, <1>5, <1>8 DEF IInv, NoLostWakeup, Aborted
<1>12. AssertionsHold'
  BY <1>1, <1>8 DEF IInv, AssertionsHold
<1> QED BY <1>5, <1>6, <1>7, <1>9, <1>10, <1>11, <1>12 DEF IInv

-----------------------------------------------------------------------------
(* The invariant holds at the start.                                       *)
LEMMA InitIInv == Init => IInv
<1> SUFFICES ASSUME Init PROVE IInv
  OBVIOUS
<1> USE DEF Init
<1>1. queue \in Seq(Timeouts) /\ frames \in Seq(Nat) /\ DOMAIN queue = {}
  OBVIOUS
<1>2. TypeOK
  <2>1. due \in [Timeouts -> Int] /\ every \in [Timeouts -> Nat] /\ suppress \in Nat /\ slow \in Nat
    OBVIOUS
  <2>2. {alarm, something, inhibit, rearmed, missed, nested} \subseteq BOOLEAN
    BY Zenon
  <2>3. timer \in Nat \cup {Off} /\ pc \in Labels /\ popped \in Timeouts \cup {None}
    BY Zenon DEF Labels
  <2> QED BY <1>1, <2>1, <2>2, <2>3, Zenon DEF TypeOK
<1>3. QueueOrdered
  BY <1>1 DEF QueueOrdered
<1>4. TimerForHead
  BY DEF TimerForHead
<1>5. StopsCounted
  BY DEF StopsCounted, Stops
<1>6. PoppedApart
  BY DEF PoppedApart
<1>7. NoLostWakeup /\ AssertionsHold
  BY DEF NoLostWakeup, AssertionsHold
<1> QED BY <1>2, <1>3, <1>4, <1>5, <1>6, <1>7 DEF IInv

(* A stuttering step keeps the invariant.                                  *)
LEMMA StutterStep == ASSUME IInv, UNCHANGED vars PROVE IInv'
<1>1. /\ queue' = queue /\ due' = due /\ every' = every /\ timer' = timer /\ alarm' = alarm
      /\ something' = something /\ inhibit' = inhibit /\ suppress' = suppress /\ slow' = slow
      /\ nested' = nested /\ pc' = pc /\ popped' = popped /\ frames' = frames
      /\ rearmed' = rearmed /\ missed' = missed
  BY DEF vars, queueVars, stopVars
<1>2. TypeOK'
  BY <1>1 DEF IInv, TypeOK
<1>3. QueueOrdered'
  BY <1>1, SameQueue DEF IInv
<1>4. TimerForHead'
  BY <1>1 DEF IInv, TimerForHead, HeadWithin, AboutToReset
<1>5. StopsCounted' /\ PoppedApart'
  BY <1>1 DEF IInv, StopsCounted, Stops, PoppedApart, Pending
<1>6. NoLostWakeup' /\ AssertionsHold'
  BY <1>1 DEF IInv, NoLostWakeup, AssertionsHold
<1> QED BY <1>2, <1>3, <1>4, <1>5, <1>6 DEF IInv

(* Every step keeps the invariant.                                         *)
LEMMA NextIInv == IInv /\ [Next]_vars => IInv'
<1> SUFFICES ASSUME IInv, [Next]_vars PROVE IInv'
  OBVIOUS
<1>1. CASE Tick
  BY <1>1, TickStep
<1>2. CASE AlarmSignal
  BY <1>2, AlarmSignalStep
<1>3. CASE \E t \in Timeouts, secs \in Delays, resignal \in Intervals : Add(t, secs, resignal)
  BY <1>3, AddStep
<1>4. CASE \E t \in Timeouts : Disable(t)
  BY <1>4, DisableStep
<1>5. CASE \E b \in BOOLEAN : SetInhibit(b)
  BY <1>5, SetInhibitStep
<1>6. CASE Return
  BY <1>6, ReturnStep
<1>7. CASE Quit
  BY <1>7, QuitStep
<1>8. CASE Stop
  BY <1>8, StopStep
<1>9. CASE SlowDown
  BY <1>9, SlowDownStep
<1>10. CASE SpeedUp
  BY <1>10, SpeedUpStep
<1>11. CASE Reset \/ QuitAlarm \/ HandleAlarm \/ Popped
  BY <1>11, ResetStep, QuitAlarmStep, HandleAlarmStep, PoppedStep
<1>12. CASE Resignal \/ Start \/ SetSlowTimer \/ ClearSlow
  BY <1>12, ResignalStep, StartStep, SetSlowTimerStep, ClearSlowStep
<1>13. CASE UNCHANGED vars
  BY <1>13, StutterStep
<1> QED BY <1>1, <1>2, <1>3, <1>4, <1>5, <1>6, <1>7, <1>8, <1>9, <1>10, <1>11, <1>12, <1>13
        DEF Next, Proceed

(* The invariant always holds.                                             *)
THEOREM IInvAlways == Spec => []IInv
BY InitIInv, NextIInv, PTL DEF Spec

(* The queue, the flags and the counters keep their types; in particular   *)
(* async_timer_suppress_count never becomes negative.                      *)
THEOREM TypeCorrect == Spec => []TypeOK
<1>1. IInv => TypeOK
  BY DEF IInv
<1> QED BY <1>1, IInvAlways, PTL

(* "The first timer on the list is the first one to fire", whatever is     *)
(* added, resignalled and removed (src/signal.c, async_timer_queue).       *)
THEOREM QueueAlwaysOrdered == Spec => []QueueOrdered
<1>1. IInv => QueueOrdered
  BY DEF IInv
<1> QED BY <1>1, IInvAlways, PTL

(* A queued timeout always has something that will make QUIT look at the   *)
(* queue, unless its alarm came inside speed_up_interrupts.                *)
THEOREM WakeupNeverLost == Spec => []NoLostWakeup
<1>1. IInv => NoLostWakeup
  BY DEF IInv
<1> QED BY <1>1, IInvAlways, PTL

(* The assertion of pop_low_level_timeout fails only after the timer was   *)
(* set with an alarm pending, and that of start_async_timeouts only after  *)
(* slow_down_interrupts was called within itself.                          *)
THEOREM AssertionsAlwaysHold == Spec => []AssertionsHold
<1>1. IInv => AssertionsHold
  BY DEF IInv
<1> QED BY <1>1, IInvAlways, PTL

(* The functions are never called early, unless the timer was set with an  *)
(* alarm pending.                                                          *)
THEOREM FunctionsNeverEarly == Spec => NeverEarly
<1>1. ASSUME IInv, [Next]_vars
      PROVE  [pc = "handle" /\ pc' = "popped" => due[popped'] <= 0 \/ rearmed]_vars
  <2> SUFFICES ASSUME Next, pc = "handle", pc' = "popped", ~rearmed
               PROVE  due[popped'] <= 0
    BY <1>1
  <2>1. HeadWithin(0)
    BY <1>1, Zenon DEF IInv, TimerForHead, AboutToReset
  <2>2. popped' = queue[1]
    <3> USE DEF Reset, QuitAlarm, Popped, Resignal, Start, SetSlowTimer, ClearSlow, Lisp
    <3>1. ~(\E t \in Timeouts, secs \in Delays, resignal \in Intervals : Add(t, secs, resignal))
      BY DEF Add
    <3>2. ~(\E t \in Timeouts : Disable(t)) /\ ~(\E b \in BOOLEAN : SetInhibit(b))
      BY DEF Disable, SetInhibit
    <3>3. ~Tick /\ ~AlarmSignal
      BY DEF Tick, AlarmSignal
    <3>4. ~(Return \/ Quit \/ Stop \/ SlowDown \/ SpeedUp)
      BY DEF Return, Quit, Stop, SlowDown, SpeedUp
    <3>5. HandleAlarm
      BY <3>1, <3>2, <3>3, <3>4 DEF Next, Proceed
    <3> QED BY <3>5 DEF HandleAlarm
  <2> QED BY <2>1, <2>2 DEF HeadWithin
<1> QED BY <1>1, IInvAlways, PTL DEF Spec, NeverEarly
=============================================================================
