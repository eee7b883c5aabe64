--------------------------- MODULE FileLockProofs ---------------------------
(***************************************************************************)
(* Proofs about the file locks, for any number of processes and hosts.     *)
(***************************************************************************)
EXTENDS FileLock, TLAPS

\* The part of TypeOK about what a process keeps for itself.
LocalOK ==
  /\ alive \subseteq Procs
  /\ modified \in [Procs -> BOOLEAN]
  /\ pc \in [Procs -> Labels]
  /\ why \in [Procs -> Callers]
  /\ info \in [Procs -> Procs \cup {NoLock}]
  /\ ours \in [Procs -> Outcomes]

\* The part of TypeOK about what the processes share.
SharedOK ==
  /\ link \in Procs \cup {NoLock}
  /\ stolen \in BOOLEAN

(* The type invariant is the two parts together.                           *)
LEMMA TypeOKSplit == TypeOK <=> LocalOK /\ SharedOK
BY DEF TypeOK, LocalOK, SharedOK

(* The same in the next state.                                             *)
LEMMA TypeOKSplitPrime == TypeOK' <=> LocalOK' /\ SharedOK'
BY DEF TypeOK, LocalOK, SharedOK

(* What the proofs use of the assumption on the constants.                 *)
LEMMA BoundType == NoLock \notin Procs
BY FileLockAssumption DEF FileLockAssumption

(* Leaving filelock.c keeps the types of what it resets.                   *)
LEMMA LeaveType ==
  ASSUME LocalOK, NEW p \in Procs, Leave(p)
  PROVE  /\ pc' \in [Procs -> Labels]
         /\ why' \in [Procs -> Callers]
         /\ info' \in [Procs -> Procs \cup {NoLock}]
BY DEF LocalOK, Leave, Goto, Labels, Callers

(* Going from one system call to the next keeps the types.                 *)
LEMMA ContinueType ==
  ASSUME LocalOK, NEW p \in Procs, NEW l \in Labels, Continue(p, l),
         info' \in [Procs -> Procs \cup {NoLock}]
  PROVE  LocalOK'
BY DEF LocalOK, Continue, Goto

(* lock_file returns to its caller type correctly.                         *)
LEMMA LockFileReturnsType ==
  ASSUME LocalOK, NEW p \in Procs, NEW how \in Outcomes,
         LockFileReturns(p, how)
  PROVE  LocalOK'
<1>1. CASE /\ why[p] = "save"
           /\ Goto(p, "write")
           /\ ours' = [ours EXCEPT ![p] = how]
           /\ UNCHANGED <<alive, modified, why, info>>
  BY <1>1 DEF LocalOK, Goto, Labels
<1>2. CASE /\ Leave(p)
           /\ ours' \in [Procs -> Outcomes]
           /\ modified' \in [Procs -> BOOLEAN]
           /\ UNCHANGED alive
  BY <1>2, LeaveType DEF LocalOK
<1>3. ours \in [Procs -> Outcomes] /\ modified \in [Procs -> BOOLEAN]
  BY DEF LocalOK
<1>4. /\ [ours EXCEPT ![p] = how] \in [Procs -> Outcomes]
      /\ [ours EXCEPT ![p] = "hookError"] \in [Procs -> Outcomes]
      /\ [modified EXCEPT ![p] = TRUE] \in [Procs -> BOOLEAN]
  BY <1>3 DEF Outcomes
<1>5. QED
  BY <1>1, <1>2, <1>3, <1>4 DEF LockFileReturns

(* unlock_file and file-locked-p return type correctly.                    *)
LEMMA UnlockFileReturnsType ==
  ASSUME LocalOK, NEW p \in Procs, NEW done \in BOOLEAN, UnlockFileReturns(p, done)
  PROVE  LocalOK'
<1>1. modified' \in [Procs -> BOOLEAN]
  BY DEF LocalOK, UnlockFileReturns
<1>2. ours' \in [Procs -> Outcomes]
  BY DEF LocalOK, UnlockFileReturns, Outcomes
<1>3. alive' \subseteq Procs
  BY DEF LocalOK, UnlockFileReturns
<1>4. Leave(p)
  BY DEF UnlockFileReturns
<1>5. QED
  BY <1>1, <1>2, <1>3, <1>4, LeaveType DEF LocalOK

(* So does current_lock_owner when it finds no valid lock.                 *)
LEMMA NobodyOwnsType ==
  ASSUME LocalOK, NEW p \in Procs, NEW done \in BOOLEAN, NobodyOwns(p, done)
  PROVE  LocalOK'
BY LockFileReturnsType, UnlockFileReturnsType DEF NobodyOwns, Outcomes

(* Entering filelock.c keeps the types.                                    *)
LEMMA EnterType ==
  ASSUME TypeOK, NEW p \in Procs, NEW r \in Callers, NEW l \in Labels,
         Enter(p, r, l)
  PROVE  TypeOK'
BY DEF TypeOK, Enter, Goto

(* So does the end of a process.                                           *)
LEMMA GoneType ==
  ASSUME LocalOK, NEW p \in Procs, Gone(p)
  PROVE  LocalOK'
BY LeaveType DEF Gone, LocalOK, Outcomes

(* Every reachable state of the lock protocol is type correct.             *)
THEOREM TypeCorrect == Spec => []TypeOK
<1>1. Init => TypeOK
  <2> SUFFICES ASSUME Init PROVE TypeOK
    OBVIOUS
  <2>1. modified \in [Procs -> BOOLEAN] /\ stolen \in BOOLEAN
    BY Zenon DEF Init
  <2>2. /\ link \in Procs \cup {NoLock}
        /\ alive \subseteq Procs
        /\ pc \in [Procs -> Labels]
        /\ why \in [Procs -> Callers]
        /\ info \in [Procs -> Procs \cup {NoLock}]
        /\ ours \in [Procs -> Outcomes]
    BY DEF Init, Labels, Callers, Outcomes
  <2> QED BY <2>1, <2>2 DEF TypeOK
<1>2. TypeOK /\ [Next]_vars => TypeOK'
  <2> SUFFICES ASSUME TypeOK, [Next]_vars PROVE TypeOK'
    OBVIOUS
  <2> USE TypeOKSplit, TypeOKSplitPrime
  <2>a. /\ {"edit", "lock", "save", "unlock", "clean", "asis", "exit",
            "query"} \subseteq Callers
        /\ Labels = {"idle", "symlink", "readlink", "kill", "zap", "ask",
                     "stealSymlink", "stealUnlink", "stealRetry", "write", "unlink"}
        /\ {"owner", "user", "silent"} \subseteq Outcomes
    BY DEF Callers, LockCallers, UnlockCallers, Labels, Outcomes
  <2>1. ASSUME NEW p \in Procs, BeginEdit(p) PROVE TypeOK'
    BY <2>1, <2>a, EnterType DEF BeginEdit
  <2>2. ASSUME NEW p \in Procs, BeginLockBuffer(p) PROVE TypeOK'
    BY <2>2, <2>a, EnterType DEF BeginLockBuffer
  <2>3. ASSUME NEW p \in Procs, BeginSave(p) PROVE TypeOK'
    BY <2>3, <2>a, EnterType DEF BeginSave
  <2>4. ASSUME NEW p \in Procs, BeginUnlock(p) PROVE TypeOK'
    BY <2>4, <2>a, EnterType DEF BeginUnlock
  <2>5. ASSUME NEW p \in Procs, BeginQuery(p) PROVE TypeOK'
    BY <2>5, <2>a, EnterType DEF BeginQuery
  <2>6. ASSUME NEW p \in Procs, Symlink(p) PROVE TypeOK'
    <3>1. LocalOK'
      BY <2>6, <2>a, LockFileReturnsType, ContinueType DEF Symlink, LocalOK
    <3>2. SharedOK'
      BY <2>6 DEF Symlink, SharedOK
    <3> QED BY <3>1, <3>2
  <2>7. ASSUME NEW p \in Procs, Readlink(p) PROVE TypeOK'
    <3>1. CASE link \notin {NoLock, p} /\ Continue(p, "kill")
                 /\ info' = [info EXCEPT ![p] = link]
      <4>1. info' \in [Procs -> Procs \cup {NoLock}]
        BY <3>1 DEF LocalOK, SharedOK
      <4>2. LocalOK'
        BY <3>1, <4>1, <2>a, ContinueType
      <4> QED BY <4>2, <2>7 DEF Readlink, SharedOK
    <3>2. CASE NobodyOwns(p, TRUE) \/ NobodyOwns(p, FALSE)
      BY <3>2, <2>7, NobodyOwnsType DEF Readlink, SharedOK
    <3>3. CASE LockFileReturns(p, "owner")
      BY <3>3, <2>7, <2>a, LockFileReturnsType DEF Readlink, SharedOK
    <3>4. CASE Continue(p, "unlink") /\ UNCHANGED info
      BY <3>4, <2>7, <2>a, ContinueType DEF Readlink, SharedOK, LocalOK
    <3>5. CASE UnlockFileReturns(p, TRUE)
      BY <3>5, <2>7, UnlockFileReturnsType DEF Readlink, SharedOK
    <3> QED BY <2>7, <3>1, <3>2, <3>3, <3>4, <3>5 DEF Readlink
  <2>8. ASSUME NEW p \in Procs, Kill(p) PROVE TypeOK'
    <3>1. [info EXCEPT ![p] = NoLock] \in [Procs -> Procs \cup {NoLock}]
      BY DEF LocalOK
    <3>2. LocalOK'
      BY <2>8, <2>a, <3>1, ContinueType, UnlockFileReturnsType DEF Kill
    <3> QED BY <3>2, <2>8 DEF Kill, SharedOK
  <2>9. ASSUME NEW p \in Procs, Zap(p) PROVE TypeOK'
    BY <2>9, NobodyOwnsType DEF Zap, Remove, NotRemoved, SharedOK
  <2>10. ASSUME NEW p \in Procs, Ask(p) PROVE TypeOK'
    <3>1. CASE Continue(p, "stealSymlink") /\ stolen' = TRUE /\ UNCHANGED info
      BY <3>1, <2>10, <2>a, ContinueType DEF Ask, SharedOK, LocalOK
    <3>2. CASE LockFileReturns(p, "user") /\ UNCHANGED stolen
      BY <3>2, <2>10, <2>a, LockFileReturnsType DEF Ask, SharedOK
    <3>3. CASE Leave(p) /\ UNCHANGED <<alive, modified, ours, stolen>>
      BY <3>3, <2>10, LeaveType DEF Ask, SharedOK, LocalOK
    <3> QED BY <2>10, <3>1, <3>2, <3>3 DEF Ask
  <2>11. ASSUME NEW p \in Procs, StealSymlink(p) PROVE TypeOK'
    <3>1. LocalOK'
      BY <2>11, <2>a, ContinueType, LockFileReturnsType DEF StealSymlink, LocalOK
    <3> QED BY <3>1, <2>11 DEF StealSymlink, SharedOK
  <2>12. ASSUME NEW p \in Procs, StealUnlink(p) PROVE TypeOK'
    <3>1. LocalOK'
      BY <2>12, <2>a, ContinueType DEF StealUnlink, LocalOK
    <3> QED BY <3>1, <2>12 DEF StealUnlink, Remove, NotRemoved, SharedOK
  <2>13. ASSUME NEW p \in Procs, StealRetry(p) PROVE TypeOK'
    <3>1. LocalOK'
      BY <2>13, <2>a, LockFileReturnsType DEF StealRetry
    <3> QED BY <3>1, <2>13 DEF StealRetry, SharedOK
  <2>14. ASSUME NEW p \in Procs, Write(p) PROVE TypeOK'
    <3>1. [ours EXCEPT ![p] = IF modified[p] THEN @ ELSE "quit"] \in [Procs -> Outcomes]
      BY DEF LocalOK, Outcomes
    <3>2. CASE Leave(p)
      BY <3>1, <3>2, <2>14, LeaveType DEF Write, LocalOK, SharedOK
    <3> QED BY <3>2, <2>14 DEF Write, TypeOK, Goto, Labels, Callers, UnlockCallers
  <2>15. ASSUME NEW p \in Procs, Unlink(p) PROVE TypeOK'
    BY <2>15, UnlockFileReturnsType DEF Unlink, Remove, NotRemoved, SharedOK
  <2>16. ASSUME NEW p \in Procs, Crash(p) PROVE TypeOK'
    <3>1. LocalOK'
      BY <2>16, GoneType DEF Crash
    <3>2. SharedOK'
      BY <2>16 DEF Crash, Gone, SharedOK
    <3> QED BY <3>1, <3>2
  <2>17. ASSUME NEW p \in Procs, Exit(p) PROVE TypeOK'
    BY <2>17, GoneType DEF Exit, Gone, SharedOK
  <2>18. CASE UNCHANGED vars
    BY <2>18 DEF vars, TypeOK
  <2> QED
    BY <2>1, <2>2, <2>3, <2>4, <2>5, <2>6, <2>7, <2>8, <2>9, <2>10, <2>11,
       <2>12, <2>13, <2>14, <2>15, <2>16, <2>17, <2>18 DEF Next, Step
<1>3. QED
  BY <1>1, <1>2, PTL DEF Spec


-----------------------------------------------------------------------------
(* What a step of process P leaves alone, and what the two ways out of     *)
(* filelock.c do to the process that takes them.                           *)

Others(p) ==
  /\ alive' = alive \/ alive' = alive \ {p}
  /\ \A q \in Procs \ {p} :
       /\ modified'[q] = modified[q]
       /\ pc'[q] = pc[q]
       /\ why'[q] = why[q]
       /\ info'[q] = info[q]
       /\ ours'[q] = ours[q]

(* Leaving filelock.c makes the process idle and concerns no other.        *)
LEMMA LeaveEffect ==
  ASSUME LocalOK, NEW p \in Procs, Leave(p)
  PROVE  /\ pc'[p] = "idle" /\ why'[p] = "none"
         /\ \A q \in Procs \ {p} : /\ pc'[q] = pc[q]
                                   /\ why'[q] = why[q]
                                   /\ info'[q] = info[q]
BY DEF LocalOK, Leave, Goto

(* A process goes on to its next system call; nothing else changes.        *)
LEMMA ContinueEffect ==
  ASSUME LocalOK, NEW p \in Procs, NEW l, Continue(p, l),
         \A q \in Procs \ {p} : info'[q] = info[q]
  PROVE  /\ Others(p)
         /\ pc'[p] = l
         /\ UNCHANGED <<alive, modified, why, ours>>
BY DEF LocalOK, Continue, Goto, Others

(* lock_file returns: the process is idle or writes the file, and a buffer *)
(* that was to be changed is modified unless a hook has signalled.         *)
LEMMA LockFileReturnsEffect ==
  ASSUME LocalOK, NEW p \in Procs, NEW how, LockFileReturns(p, how)
  PROVE  /\ Others(p)
         /\ alive' = alive
         /\ why[p] \in LockCallers
         /\ ours'[p] \in {how, "hookError"}
         /\ \/ pc'[p] = "idle" /\ why'[p] = "none"
            \/ pc'[p] = "write" /\ why'[p] = "save" /\ modified'[p] = modified[p]
         /\ (why[p] = "edit" \/ modified[p]) => modified'[p] \/ ours'[p] = "hookError"
<1>1. CASE why[p] = "save"
  BY <1>1 DEF LocalOK, LockFileReturns, Goto, Others, LockCallers
<1>2. CASE why[p] = "lock"
  BY <1>2, LeaveEffect DEF LocalOK, LockFileReturns, Others, LockCallers
<1>3. CASE why[p] = "edit"
  BY <1>3, LeaveEffect DEF LocalOK, LockFileReturns, Others, LockCallers
<1>4. QED
  BY <1>1, <1>2, <1>3 DEF LockFileReturns

(* unlock_file returns: the process no longer counts as the owner.         *)
LEMMA UnlockFileReturnsEffect ==
  ASSUME LocalOK, NEW p \in Procs, NEW done \in BOOLEAN, UnlockFileReturns(p, done)
  PROVE  /\ Others(p)
         /\ pc'[p] = "idle" /\ why'[p] = "none"
         /\ ours'[p] = "owner" => why[p] = "query" /\ ours[p] = "owner"
         /\ why[p] = "query" => /\ ours'[p] = ours[p]
                                /\ modified'[p] = modified[p]
                                /\ alive' = alive
<1>1. \A q \in Procs \ {p} : modified'[q] = modified[q] /\ ours'[q] = ours[q]
  BY DEF LocalOK, UnlockFileReturns
<1>2. /\ ours'[p] = "owner" => why[p] = "query" /\ ours[p] = "owner"
      /\ why[p] = "query" => ours'[p] = ours[p]
  BY DEF LocalOK, UnlockFileReturns
<1>3. why[p] = "query" => modified'[p] = modified[p] /\ alive' = alive
  BY DEF LocalOK, UnlockFileReturns
<1>4. Leave(p) /\ (alive' = alive \/ alive' = alive \ {p})
  BY DEF UnlockFileReturns
<1>5. QED
  BY <1>1, <1>2, <1>3, <1>4, LeaveEffect DEF Others

(* Entering filelock.c changes only where the process is and why.          *)
LEMMA EnterEffect ==
  ASSUME LocalOK, NEW p \in Procs, NEW r, NEW l, Enter(p, r, l)
  PROVE  /\ Others(p)
         /\ pc[p] = "idle" /\ pc'[p] = l /\ why'[p] = r
         /\ UNCHANGED <<link, alive, modified, info, ours, stolen>>
BY DEF LocalOK, Enter, Goto, Others, At

(* A process that ends leaves its link behind.                             *)
LEMMA GoneEffect ==
  ASSUME LocalOK, NEW p \in Procs, Gone(p)
  PROVE  /\ Others(p)
         /\ pc'[p] = "idle" /\ why'[p] = "none" /\ p \notin alive'
         /\ UNCHANGED <<link, stolen>>
BY LeaveEffect DEF Gone, LocalOK, Others

-----------------------------------------------------------------------------
(* OwnerKeepsLock.  The strengthening says why nobody else removes the     *)
(* owner's link: while everyone is alive and nobody steals, no process     *)
(* gets as far as zapping or stealing, and a process about to unlink has   *)
(* just read its own name in a link that nobody but itself removes.        *)

Calm == alive = Procs /\ ~stolen

ControlInv ==
  \A p \in Procs :
    /\ pc[p] = "kill" => info[p] \in Procs
    /\ pc[p] \in {"kill", "zap", "ask"} => link # p
    /\ pc[p] = "unlink" => why[p] \in UnlockCallers
    /\ pc[p] = "write" => why[p] = "save"
    /\ pc[p] = "idle" => why[p] = "none"

CalmInv ==
  Calm => \A p \in Procs :
            /\ pc[p] \notin {"zap", "stealSymlink", "stealUnlink", "stealRetry"}
            /\ pc[p] = "unlink" => link = p
            /\ ours[p] = "owner" => link = p

OwnerInv == ControlInv /\ CalmInv

(* Initially nobody is inside filelock.c and nobody owns the lock.         *)
LEMMA OwnerInvInit == Init => OwnerInv
BY DEF Init, OwnerInv, ControlInv, CalmInv

(* A step of one process that keeps the link, or takes it only when it is  *)
(* free, keeps the invariant when it keeps it for that process.            *)
LEMMA OwnerInvStep ==
  ASSUME TypeOK, OwnerInv, NEW p \in Procs, Others(p),
         Calm' => Calm,
         /\ pc'[p] = "kill" => info'[p] \in Procs
         /\ pc'[p] \in {"kill", "zap", "ask"} => link' # p
         /\ pc'[p] = "unlink" => why'[p] \in UnlockCallers
         /\ pc'[p] = "write" => why'[p] = "save"
         /\ pc'[p] = "idle" => why'[p] = "none",
         link' \in {link, p, NoLock},
         Calm' => /\ link' # link => link \in {NoLock, p}
                  /\ pc'[p] \notin {"zap", "stealSymlink", "stealUnlink", "stealRetry"}
                  /\ pc'[p] = "unlink" => link' = p
                  /\ ours'[p] = "owner" => link' = p
  PROVE  OwnerInv'
<1>1. ControlInv'
  <2> SUFFICES ASSUME NEW q \in Procs
               PROVE  /\ pc'[q] = "kill" => info'[q] \in Procs
                      /\ pc'[q] \in {"kill", "zap", "ask"} => link' # q
                      /\ pc'[q] = "unlink" => why'[q] \in UnlockCallers
                      /\ pc'[q] = "write" => why'[q] = "save"
                      /\ pc'[q] = "idle" => why'[q] = "none"
    BY DEF ControlInv
  <2>1. CASE q = p
    BY <2>1
  <2>2. CASE q # p
    BY <2>2, BoundType DEF Others, OwnerInv, ControlInv
  <2> QED BY <2>1, <2>2
<1>2. CalmInv'
  <2> SUFFICES ASSUME Calm', NEW q \in Procs
               PROVE  /\ pc'[q] \notin {"zap", "stealSymlink", "stealUnlink", "stealRetry"}
                      /\ pc'[q] = "unlink" => link' = q
                      /\ ours'[q] = "owner" => link' = q
    BY DEF CalmInv
  <2>1. CASE q = p
    BY <2>1
  <2>2. CASE q # p
    BY <2>2, BoundType DEF Others, OwnerInv, CalmInv
  <2> QED BY <2>1, <2>2
<1>3. QED
  BY <1>1, <1>2 DEF OwnerInv

(* Processes do not come back, and stealing is not forgotten.              *)
LEMMA CalmBackwards ==
  ASSUME TypeOK, NEW p \in Procs, Others(p), stolen' = stolen
  PROVE  Calm' => Calm
BY DEF TypeOK, Others, Calm

(* Every step keeps the strengthened invariant.                            *)
LEMMA OwnerInvNext == TypeOK /\ OwnerInv /\ [Next]_vars => OwnerInv'
<1> SUFFICES ASSUME TypeOK, OwnerInv, [Next]_vars PROVE OwnerInv'
  OBVIOUS
<1> USE TypeOKSplit, BoundType
<1>a. ASSUME NEW p \in Procs, NEW r, NEW l, Enter(p, r, l),
             l \in {"symlink", "readlink"}
      PROVE  OwnerInv'
  <2>1. Calm' <=> Calm
    BY <1>a, EnterEffect DEF Calm
  <2>2. QED
    BY <1>a, <2>1, EnterEffect, OwnerInvStep DEF OwnerInv, CalmInv
<1>1. ASSUME NEW p \in Procs, BeginEdit(p) PROVE OwnerInv'
  BY <1>1, <1>a DEF BeginEdit
<1>2. ASSUME NEW p \in Procs, BeginLockBuffer(p) PROVE OwnerInv'
  BY <1>2, <1>a DEF BeginLockBuffer
<1>3. ASSUME NEW p \in Procs, BeginSave(p) PROVE OwnerInv'
  BY <1>3, <1>a DEF BeginSave
<1>4. ASSUME NEW p \in Procs, BeginUnlock(p) PROVE OwnerInv'
  BY <1>4, <1>a DEF BeginUnlock
<1>5. ASSUME NEW p \in Procs, BeginQuery(p) PROVE OwnerInv'
  BY <1>5, <1>a DEF BeginQuery
<1>6. ASSUME NEW p \in Procs, Symlink(p) PROVE OwnerInv'
  <2>1. CASE link = NoLock /\ link' = p /\ LockFileReturns(p, "owner")
    <3>1. Calm' => Calm
      BY <1>6, <2>1, LockFileReturnsEffect, CalmBackwards DEF Symlink
    <3> QED BY <2>1, <3>1, LockFileReturnsEffect, OwnerInvStep
  <2>2. CASE link # NoLock /\ Continue(p, "readlink") /\ UNCHANGED <<link, info>>
    <3>1. Calm' => Calm
      BY <1>6, <2>2, ContinueEffect, CalmBackwards DEF Symlink
    <3> QED BY <2>2, <3>1, ContinueEffect, OwnerInvStep DEF OwnerInv, CalmInv
  <2>3. CASE LockFileReturns(p, "silent") /\ UNCHANGED link
    <3>1. Calm' => Calm
      BY <1>6, <2>3, LockFileReturnsEffect, CalmBackwards DEF Symlink
    <3> QED BY <2>3, <3>1, LockFileReturnsEffect, OwnerInvStep
  <2> QED BY <1>6, <2>1, <2>2, <2>3 DEF Symlink
<1>7. ASSUME NEW p \in Procs, Readlink(p) PROVE OwnerInv'
  <2>0. UNCHANGED <<link, stolen>> /\ pc[p] = "readlink"
    BY <1>7 DEF Readlink, At
  <2>1. CASE LockFileReturns(p, "silent")
    <3>1. Calm' => Calm
      BY <2>0, <2>1, LockFileReturnsEffect, CalmBackwards
    <3> QED BY <2>0, <2>1, <3>1, LockFileReturnsEffect, OwnerInvStep
  <2>2. CASE \E done \in BOOLEAN : UnlockFileReturns(p, done)
    <3>1. Calm' => Calm
      BY <2>0, <2>2, UnlockFileReturnsEffect, CalmBackwards
    <3>2. Calm' => (ours'[p] = "owner" => link' = p)
      BY <2>0, <2>2, <3>1, UnlockFileReturnsEffect DEF OwnerInv, CalmInv
    <3> QED BY <2>0, <2>2, <3>1, <3>2, UnlockFileReturnsEffect, OwnerInvStep
  <2>3. CASE link = p /\ LockFileReturns(p, "owner")
    <3>1. Calm' => Calm
      BY <2>0, <2>3, LockFileReturnsEffect, CalmBackwards
    <3> QED BY <2>0, <2>3, <3>1, LockFileReturnsEffect, OwnerInvStep
  <2>4. CASE link = p /\ why[p] \in UnlockCallers /\ Continue(p, "unlink")
               /\ UNCHANGED info
    <3>1. Calm' => Calm
      BY <2>0, <2>4, ContinueEffect, CalmBackwards
    <3> QED BY <2>0, <2>4, <3>1, ContinueEffect, OwnerInvStep
  <2>5. CASE link \notin {NoLock, p} /\ Continue(p, "kill")
               /\ info' = [info EXCEPT ![p] = link]
    <3>1. (\A q \in Procs \ {p} : info'[q] = info[q]) /\ info'[p] = link
      BY <2>5 DEF LocalOK
    <3>2. Calm' => Calm
      BY <2>0, <2>5, <3>1, ContinueEffect, CalmBackwards
    <3> QED BY <2>0, <2>5, <3>1, <3>2, ContinueEffect, OwnerInvStep
            DEF SharedOK, OwnerInv, CalmInv
  <2> QED BY <1>7, <2>1, <2>2, <2>3, <2>4, <2>5 DEF Readlink, NobodyOwns
<1>8. ASSUME NEW p \in Procs, Kill(p) PROVE OwnerInv'
  <2>0. UNCHANGED <<link, stolen>> /\ pc[p] = "kill"
    BY <1>8 DEF Kill, At
  <2>1. CASE info[p] \notin alive /\ Continue(p, "zap")
               /\ info' = [info EXCEPT ![p] = NoLock]
    <3>0. \A q \in Procs \ {p} : info'[q] = info[q]
      BY <2>1 DEF LocalOK
    <3>1. Others(p) /\ alive' = alive /\ pc'[p] = "zap"
      BY <2>1, <3>0, ContinueEffect
    <3>2. ~Calm'
      BY <2>0, <2>1, <3>1 DEF Calm, OwnerInv, ControlInv
    <3> QED BY <2>0, <3>1, <3>2, OwnerInvStep DEF OwnerInv, ControlInv
  <2>2. CASE Continue(p, "ask") /\ info' = [info EXCEPT ![p] = NoLock]
    <3>0. \A q \in Procs \ {p} : info'[q] = info[q]
      BY <2>2 DEF LocalOK
    <3>1. Calm' => Calm
      BY <2>0, <2>2, <3>0, ContinueEffect, CalmBackwards
    <3> QED BY <2>0, <2>2, <3>0, <3>1, ContinueEffect, OwnerInvStep
            DEF OwnerInv, ControlInv, CalmInv
  <2>3. CASE UnlockFileReturns(p, TRUE)
    <3>1. Calm' => Calm
      BY <2>0, <2>3, UnlockFileReturnsEffect, CalmBackwards
    <3>2. Calm' => (ours'[p] = "owner" => link' = p)
      BY <2>0, <2>3, <3>1, UnlockFileReturnsEffect DEF OwnerInv, CalmInv
    <3> QED BY <2>0, <2>3, <3>1, <3>2, UnlockFileReturnsEffect, OwnerInvStep
  <2> QED BY <1>8, <2>1, <2>2, <2>3 DEF Kill
<1>9. ASSUME NEW p \in Procs, Zap(p) PROVE OwnerInv'
  <2>0. stolen' = stolen /\ pc[p] = "zap" /\ link' \in {link, NoLock}
    BY <1>9 DEF Zap, At, Remove, NotRemoved
  <2>1. /\ Others(p)
        /\ pc'[p] \in {"idle", "write"}
        /\ pc'[p] = "write" => why'[p] = "save"
        /\ pc'[p] = "idle" => why'[p] = "none"
    BY <1>9, LockFileReturnsEffect, UnlockFileReturnsEffect DEF Zap, NobodyOwns
  <2>2. ~Calm'
    BY <2>0, <2>1, CalmBackwards DEF OwnerInv, CalmInv
  <2> QED BY <2>0, <2>1, <2>2, OwnerInvStep
<1>10. ASSUME NEW p \in Procs, Ask(p) PROVE OwnerInv'
  <2>0. UNCHANGED link /\ pc[p] = "ask"
    BY <1>10 DEF Ask, At
  <2>1. CASE Continue(p, "stealSymlink") /\ stolen' = TRUE /\ UNCHANGED info
    <3>1. Others(p) /\ pc'[p] = "stealSymlink" /\ ~Calm'
      BY <2>1, ContinueEffect DEF Calm
    <3> QED BY <2>0, <3>1, OwnerInvStep
  <2>2. CASE LockFileReturns(p, "user") /\ UNCHANGED stolen
    <3>1. Calm' => Calm
      BY <2>2, LockFileReturnsEffect, CalmBackwards
    <3> QED BY <2>0, <2>2, <3>1, LockFileReturnsEffect, OwnerInvStep
  <2>3. CASE Leave(p) /\ UNCHANGED <<alive, modified, ours, stolen>>
    <3>1. Others(p) /\ pc'[p] = "idle" /\ why'[p] = "none"
      BY <2>3, LeaveEffect DEF Others
    <3>2. Calm' => Calm
      BY <2>3, <3>1, CalmBackwards
    <3> QED BY <2>0, <2>3, <3>1, <3>2, OwnerInvStep DEF OwnerInv, CalmInv
  <2> QED BY <1>10, <2>1, <2>2, <2>3 DEF Ask
<1>11. ASSUME NEW p \in Procs, StealSymlink(p) \/ StealUnlink(p) \/ StealRetry(p)
       PROVE  OwnerInv'
  <2>0. /\ stolen' = stolen
        /\ pc[p] \in {"stealSymlink", "stealUnlink", "stealRetry"}
        /\ link' \in {link, p, NoLock}
    BY <1>11 DEF StealSymlink, StealUnlink, StealRetry, At, Remove, NotRemoved
  <2>1. /\ Others(p)
        /\ pc'[p] \in {"idle", "write", "stealUnlink", "stealRetry"}
        /\ pc'[p] = "write" => why'[p] = "save"
        /\ pc'[p] = "idle" => why'[p] = "none"
    BY <1>11, LockFileReturnsEffect, ContinueEffect
       DEF StealSymlink, StealUnlink, StealRetry
  <2>2. ~Calm'
    BY <2>0, <2>1, CalmBackwards DEF OwnerInv, CalmInv
  <2> QED BY <2>0, <2>1, <2>2, OwnerInvStep
<1>12. ASSUME NEW p \in Procs, Write(p) PROVE OwnerInv'
  <2>1. /\ Others(p) /\ pc'[p] \in {"readlink", "idle"}
        /\ pc'[p] = "idle" => why'[p] = "none"
        /\ ours'[p] \in {ours[p], "quit"}
        /\ UNCHANGED <<link, alive, stolen>>
    BY <1>12 DEF Write, Leave, Goto, LocalOK, Others
  <2>2. Calm' => Calm
    BY <2>1, CalmBackwards
  <2> QED BY <2>1, <2>2, OwnerInvStep DEF OwnerInv, CalmInv
<1>13. ASSUME NEW p \in Procs, Unlink(p) PROVE OwnerInv'
  <2>0. stolen' = stolen /\ pc[p] = "unlink" /\ link' \in {link, NoLock}
    BY <1>13 DEF Unlink, At, Remove, NotRemoved
  <2>1. Others(p) /\ pc'[p] = "idle" /\ why'[p] = "none" /\ ours'[p] # "owner"
    BY <1>13, <2>0, UnlockFileReturnsEffect
       DEF Unlink, OwnerInv, ControlInv, UnlockCallers
  <2>2. Calm' => Calm /\ link = p
    BY <2>0, <2>1, CalmBackwards DEF OwnerInv, CalmInv
  <2> QED BY <2>0, <2>1, <2>2, OwnerInvStep
<1>14. ASSUME NEW p \in Procs, Crash(p) \/ Exit(p) PROVE OwnerInv'
  <2>1. /\ Others(p) /\ pc'[p] = "idle" /\ why'[p] = "none"
        /\ p \notin alive' /\ UNCHANGED <<link, stolen>>
    BY <1>14, GoneEffect DEF Crash, Exit
  <2>2. ~Calm'
    BY <2>1 DEF Calm
  <2> QED BY <2>1, <2>2, OwnerInvStep
<1>15. CASE UNCHANGED vars
  BY <1>15 DEF vars, OwnerInv, ControlInv, CalmInv, Calm
<1> QED
  BY <1>1, <1>2, <1>3, <1>4, <1>5, <1>6, <1>7, <1>8, <1>9, <1>10, <1>11,
     <1>12, <1>13, <1>14, <1>15 DEF Next, Step

(* As long as no XEmacs has ended and no user has stolen the lock, the     *)
(* process that lock_file locked the file for owns the lock.               *)
THEOREM OwnerKeepsLockAlways == Spec => []OwnerKeepsLock
<1>1. OwnerInv => OwnerKeepsLock
  BY DEF OwnerInv, CalmInv, Calm, OwnerKeepsLock
<1>2. QED
  BY <1>1, TypeCorrect, OwnerInvInit, OwnerInvNext, PTL DEF Spec

-----------------------------------------------------------------------------
(* NoIdleLock.  The strengthening holds in the middle of filelock.c too:   *)
(* whoever owns the link outside write-region and unlock_file has a        *)
(* modified buffer or one of the excuses, and lock-buffer has a modified   *)
(* buffer all the time.                                                    *)

Excuses == {"hookError", "quit", "stuck"}

\* P may own the link.
MayHold(p) == modified[p] \/ ours[p] \in Excuses

\* P is in write-region or in unlock_file, which see to the link.
InHand(p) == pc[p] = "write" \/ why[p] \in UnlockCallers

IdleInv ==
  \A p \in Procs :
    /\ p \in alive /\ link = p => MayHold(p) \/ InHand(p)
    /\ why[p] = "lock" => modified[p]

(* Initially there is no link.                                             *)
LEMMA IdleInvInit == Init => IdleInv
<1> SUFFICES ASSUME Init, NEW p \in Procs PROVE link # p /\ why[p] # "lock"
  BY DEF IdleInv
<1>1. link # p
  BY FileLockAssumption DEF Init
<1>2. why[p] = "none"
  BY DEF Init
<1> QED BY <1>1, <1>2

(* A step of one process keeps the invariant when it keeps it for that     *)
(* process and gives the link to nobody else.                              *)
LEMMA IdleInvStep ==
  ASSUME TypeOK, IdleInv, NEW p \in Procs, Others(p),
         link' \in {link, p, NoLock},
         p \in alive' /\ link' = p => MayHold(p)' \/ InHand(p)',
         why'[p] = "lock" => modified'[p]
  PROVE  IdleInv'
<1> SUFFICES ASSUME NEW q \in Procs
             PROVE  /\ q \in alive' /\ link' = q => MayHold(q)' \/ InHand(q)'
                    /\ why'[q] = "lock" => modified'[q]
  BY DEF IdleInv
<1>1. CASE q = p
  BY <1>1
<1>2. CASE q # p
  BY <1>2, BoundType DEF Others, IdleInv, MayHold, InHand
<1> QED BY <1>1, <1>2

(* lock_file returns: its caller was making the first change, had a        *)
(* modified buffer, or goes on to write the file.                          *)
LEMMA IdleInvLocked ==
  ASSUME TypeOK, IdleInv, NEW p \in Procs, NEW how, LockFileReturns(p, how),
         link' \in {link, p, NoLock}
  PROVE  IdleInv'
<1>1. CASE why[p] = "save"
  <2>1. pc'[p] = "write" /\ why'[p] = "save"
    BY <1>1, TypeOKSplit DEF LocalOK, LockFileReturns, Goto
  <2> QED BY <2>1, TypeOKSplit, LockFileReturnsEffect, IdleInvStep DEF InHand
<1>2. CASE why[p] # "save"
  <2>1. modified[p] \/ why[p] = "edit"
    BY <1>2, TypeOKSplit, LockFileReturnsEffect DEF IdleInv, LockCallers
  <2>2. modified'[p] \/ ours'[p] = "hookError"
    BY <2>1, TypeOKSplit, LockFileReturnsEffect
  <2>3. why'[p] = "none"
    BY <1>2, TypeOKSplit, LeaveEffect DEF LockFileReturns
  <2> QED BY <2>2, <2>3, TypeOKSplit, LockFileReturnsEffect, IdleInvStep
          DEF MayHold, Excuses
<1> QED BY <1>1, <1>2

(* unlock_file returns and the link, if any, is not ours, or it could not  *)
(* read or remove it.                                                      *)
LEMMA IdleInvUnlocked ==
  ASSUME TypeOK, IdleInv, NEW p \in Procs, NEW done \in BOOLEAN, UnlockFileReturns(p, done),
         link' \in {link, NoLock},
         link' # p \/ (~done /\ why[p] # "query")
  PROVE  IdleInv'
<1>1. Others(p) /\ why'[p] = "none"
  BY TypeOKSplit, UnlockFileReturnsEffect
<1>2. link' # p \/ ours'[p] = "stuck"
  BY TypeOKSplit DEF UnlockFileReturns, LocalOK
<1> QED BY <1>1, <1>2, IdleInvStep DEF MayHold, Excuses

(* file-locked-p returns.                                                  *)
LEMMA IdleInvQueried ==
  ASSUME TypeOK, IdleInv, ControlInv, NEW p \in Procs, pc[p] = "readlink",
         why[p] = "query", NEW done \in BOOLEAN, UnlockFileReturns(p, done), UNCHANGED link
  PROVE  IdleInv'
<1>1. /\ Others(p) /\ why'[p] = "none"
      /\ ours'[p] = ours[p] /\ modified'[p] = modified[p] /\ alive' = alive
  BY TypeOKSplit, UnlockFileReturnsEffect
<1>2. p \in alive /\ link = p => MayHold(p)
  BY DEF IdleInv, InHand, UnlockCallers
<1> QED BY <1>1, <1>2, IdleInvStep DEF MayHold

(* The next system call of the same call.                                  *)
LEMMA IdleInvContinue ==
  ASSUME TypeOK, IdleInv, NEW p \in Procs, NEW l, Continue(p, l),
         \A q \in Procs \ {p} : info'[q] = info[q],
         pc[p] # "write",
         link' \in {link, NoLock}
  PROVE  IdleInv'
<1>1. /\ Others(p)
      /\ UNCHANGED <<alive, modified, why, ours>>
  BY TypeOKSplit, ContinueEffect
<1>2. link' = p => link = p
  BY BoundType
<1> QED BY <1>1, <1>2, IdleInvStep DEF IdleInv, MayHold, InHand

(* Every step keeps the strengthened invariant.                            *)
LEMMA IdleInvNext == TypeOK /\ ControlInv /\ IdleInv /\ [Next]_vars => IdleInv'
<1> SUFFICES ASSUME TypeOK, ControlInv, IdleInv, [Next]_vars PROVE IdleInv'
  OBVIOUS
<1> USE TypeOKSplit, BoundType
<1>a. ASSUME NEW p \in Procs, NEW r, NEW l, Enter(p, r, l),
             r = "lock" => modified[p]
      PROVE  IdleInv'
  <2>1. pc[p] = "idle" /\ why[p] = "none"
    BY <1>a, EnterEffect DEF ControlInv
  <2>2. p \in alive /\ link = p => MayHold(p)
    BY <2>1 DEF IdleInv, InHand, UnlockCallers
  <2> QED BY <1>a, <2>2, EnterEffect, IdleInvStep DEF MayHold
<1>1. ASSUME NEW p \in Procs, BeginEdit(p) PROVE IdleInv'
  BY <1>1, <1>a DEF BeginEdit
<1>2. ASSUME NEW p \in Procs, BeginLockBuffer(p) PROVE IdleInv'
  BY <1>2, <1>a DEF BeginLockBuffer
<1>3. ASSUME NEW p \in Procs, BeginSave(p) PROVE IdleInv'
  BY <1>3, <1>a DEF BeginSave
<1>4. ASSUME NEW p \in Procs, BeginUnlock(p) PROVE IdleInv'
  BY <1>4, <1>a DEF BeginUnlock
<1>5. ASSUME NEW p \in Procs, BeginQuery(p) PROVE IdleInv'
  BY <1>5, <1>a DEF BeginQuery
<1>6. ASSUME NEW p \in Procs, Symlink(p) PROVE IdleInv'
  BY <1>6, IdleInvLocked, IdleInvContinue DEF Symlink, At
<1>7. ASSUME NEW p \in Procs, Readlink(p) PROVE IdleInv'
  <2>0. UNCHANGED link /\ pc[p] = "readlink"
    BY <1>7 DEF Readlink, At
  <2>1. CASE why[p] \in LockCallers /\ \E how : LockFileReturns(p, how)
    BY <2>0, <2>1, IdleInvLocked
  <2>2. CASE why[p] = "query" /\ \E done \in BOOLEAN : UnlockFileReturns(p, done)
    BY <2>0, <2>2, IdleInvQueried
  <2>3. CASE Continue(p, "unlink") /\ UNCHANGED info
    BY <2>0, <2>3, IdleInvContinue
  <2>4. CASE /\ why[p] # "query"
             /\ \/ link = NoLock /\ UnlockFileReturns(p, TRUE)
                \/ UnlockFileReturns(p, FALSE)
    BY <2>0, <2>4, IdleInvUnlocked
  <2>5. CASE Continue(p, "kill") /\ info' = [info EXCEPT ![p] = link]
    <3>1. \A q \in Procs \ {p} : info'[q] = info[q]
      BY <2>5 DEF LocalOK
    <3> QED BY <2>0, <2>5, <3>1, IdleInvContinue
  <2> QED BY <1>7, <2>1, <2>2, <2>3, <2>4, <2>5 DEF Readlink, NobodyOwns
<1>8. ASSUME NEW p \in Procs, Kill(p) PROVE IdleInv'
  <2>1. UNCHANGED link /\ link # p /\ pc[p] = "kill"
    BY <1>8 DEF Kill, At, ControlInv
  <2>2. CASE UnlockFileReturns(p, TRUE)
    BY <2>1, <2>2, IdleInvUnlocked
  <2>3. CASE /\ info' = [info EXCEPT ![p] = NoLock]
             /\ Continue(p, "zap") \/ Continue(p, "ask")
    <3>1. \A q \in Procs \ {p} : info'[q] = info[q]
      BY <2>3 DEF LocalOK
    <3> QED BY <2>1, <2>3, <3>1, IdleInvContinue
  <2> QED BY <1>8, <2>2, <2>3 DEF Kill
<1>9. ASSUME NEW p \in Procs, Zap(p) PROVE IdleInv'
  <2>1. link' \in {link, NoLock} /\ link' # p
    BY <1>9 DEF Zap, At, Remove, NotRemoved, ControlInv
  <2> QED BY <1>9, <2>1, IdleInvLocked, IdleInvUnlocked DEF Zap, NobodyOwns
<1>10. ASSUME NEW p \in Procs, Ask(p) PROVE IdleInv'
  <2>0. pc[p] = "ask" /\ UNCHANGED link
    BY <1>10 DEF Ask, At
  <2>1. CASE Leave(p) /\ UNCHANGED <<alive, modified, ours>>
    <3>1. Others(p) /\ why'[p] = "none"
      BY <2>1, LeaveEffect DEF Others
    <3>2. p \in alive /\ link = p => MayHold(p)
      BY <2>0 DEF IdleInv, InHand, ControlInv
    <3> QED BY <2>0, <2>1, <3>1, <3>2, IdleInvStep DEF MayHold
  <2> QED BY <1>10, <2>0, <2>1, IdleInvLocked, IdleInvContinue DEF Ask
<1>11. ASSUME NEW p \in Procs, StealSymlink(p) \/ StealUnlink(p) \/ StealRetry(p)
       PROVE  IdleInv'
  BY <1>11, IdleInvLocked, IdleInvContinue
     DEF StealSymlink, StealUnlink, StealRetry, At, Remove, NotRemoved
<1>12. ASSUME NEW p \in Procs, Write(p) PROVE IdleInv'
  <2>1. Others(p) /\ UNCHANGED <<link, alive, modified>>
    BY <1>12 DEF Write, Leave, Goto, LocalOK, Others
  <2>2. CASE why'[p] \in {"clean", "asis"}
    BY <2>1, <2>2, IdleInvStep DEF InHand, UnlockCallers
  <2>3. CASE Leave(p) /\ ours' = [ours EXCEPT ![p] = IF modified[p] THEN @ ELSE "quit"]
    <3>1. why'[p] = "none" /\ MayHold(p)'
      BY <2>1, <2>3, LeaveEffect DEF MayHold, Excuses, LocalOK
    <3> QED BY <2>1, <3>1, IdleInvStep
  <2> QED BY <1>12, <2>2, <2>3 DEF Write, LocalOK
<1>13. ASSUME NEW p \in Procs, Unlink(p) PROVE IdleInv'
  <2>1. why[p] # "query"
    BY <1>13 DEF Unlink, At, ControlInv, UnlockCallers
  <2> QED BY <1>13, <2>1, IdleInvUnlocked DEF Unlink, Remove, NotRemoved
<1>14. ASSUME NEW p \in Procs, Crash(p) \/ Exit(p) PROVE IdleInv'
  BY <1>14, GoneEffect, IdleInvStep DEF Crash, Exit
<1>15. CASE UNCHANGED vars
  BY <1>15 DEF vars, IdleInv, MayHold, InHand
<1> QED
  BY <1>1, <1>2, <1>3, <1>4, <1>5, <1>6, <1>7, <1>8, <1>9, <1>10, <1>11,
     <1>12, <1>13, <1>14, <1>15 DEF Next, Step

(* An idle XEmacs with an unmodified buffer holds the lock only if a       *)
(* change hook signalled between lock_file and the change, the write of an *)
(* unmodified buffer was quit, or unlock_file could not read or remove its *)
(* link.                                                                   *)
THEOREM NoIdleLockAlways == Spec => []NoIdleLock
<1>1. TypeOK /\ ControlInv /\ IdleInv => NoIdleLock
  BY DEF TypeOK, ControlInv, IdleInv, NoIdleLock, MayHold, InHand, Excuses, UnlockCallers
<1>2. OwnerInv => ControlInv
  BY DEF OwnerInv
<1>3. QED
  BY <1>1, <1>2, TypeCorrect, OwnerInvInit, OwnerInvNext, IdleInvInit,
     IdleInvNext, PTL DEF Spec

-----------------------------------------------------------------------------
(* LockFilePromise.  It is broken (see the run filelock_promise), but only *)
(* by the end of a process, by theft, by a failing symlink() or readlink() *)
(* or by an unlock that comes between the two in somebody else.            *)

\* P has found the link in lock_file and is about to read it.
ReadsToLock(p) == pc[p] = "readlink" /\ why[p] \in LockCallers

\* Somebody unlocks the file just then.
UnlockRace == \E p, q \in Procs : Unlink(p) /\ ReadsToLock(q)

\* The two system calls on the way to the lock do their work.
Reliable == {"symlink", "readlink"} \cap Failing = {}

PromiseInv ==
  \A p \in Procs : ours[p] # "silent" /\ (ReadsToLock(p) => link # NoLock)

(* A step of one process keeps the invariant when it keeps it for that     *)
(* process and does not remove the link that another is about to read.     *)
LEMMA PromiseInvStep ==
  ASSUME PromiseInv, NEW p \in Procs, Others(p),
         ours'[p] # "silent",
         pc'[p] = "readlink" /\ why'[p] \in LockCallers => link' # NoLock,
         link' = NoLock => link = NoLock \/ \A q \in Procs : ~ReadsToLock(q)
  PROVE  PromiseInv'
<1> SUFFICES ASSUME NEW q \in Procs
             PROVE  /\ ours'[q] # "silent"
                    /\ pc'[q] = "readlink" /\ why'[q] \in LockCallers => link' # NoLock
  BY DEF PromiseInv, ReadsToLock, LockCallers
<1>1. CASE q = p
  BY <1>1
<1>2. CASE q # p
  BY <1>2 DEF Others, PromiseInv, ReadsToLock
<1> QED BY <1>1, <1>2

(* Unlocking, and asking who holds the lock, end with no promise broken.   *)
LEMMA UnlockKeepsPromise ==
  ASSUME LocalOK, PromiseInv, NEW p \in Procs, NEW done \in BOOLEAN,
         UnlockFileReturns(p, done)
  PROVE  Others(p) /\ pc'[p] = "idle" /\ ours'[p] # "silent"
<1>1. ours'[p] \in {ours[p], "user", "none", "stuck"}
  BY DEF LocalOK, UnlockFileReturns
<1>2. ours[p] # "silent"
  BY DEF PromiseInv
<1> QED BY <1>1, <1>2, UnlockFileReturnsEffect

(* Every step but those keeps the invariant.                               *)
LEMMA PromiseInvNext ==
  ASSUME Reliable, TypeOK, OwnerInv, Calm, PromiseInv, [Next]_vars, ~UnlockRace
  PROVE  PromiseInv'
<1> USE TypeOKSplit, BoundType
<1>0. \A p \in Procs :
        /\ ours[p] # "silent"
        /\ pc[p] \notin {"zap", "stealSymlink", "stealUnlink", "stealRetry"}
  BY DEF PromiseInv, OwnerInv, CalmInv
<1>a. ASSUME NEW p \in Procs, NEW r, NEW l, Enter(p, r, l),
             l = "readlink" => r \notin LockCallers
      PROVE  PromiseInv'
  BY <1>0, <1>a, EnterEffect, PromiseInvStep
<1>1. ASSUME NEW p \in Procs, BeginEdit(p) \/ BeginLockBuffer(p) \/ BeginSave(p)
      PROVE  PromiseInv'
  BY <1>1, <1>a DEF BeginEdit, BeginLockBuffer, BeginSave
<1>2. ASSUME NEW p \in Procs, BeginUnlock(p) \/ BeginQuery(p) PROVE PromiseInv'
  BY <1>2, <1>a DEF BeginUnlock, BeginQuery, LockCallers
<1>3. ASSUME NEW p \in Procs, Symlink(p) PROVE PromiseInv'
  <2>1. CASE link' = p /\ LockFileReturns(p, "owner")
    BY <2>1, LockFileReturnsEffect, PromiseInvStep
  <2>2. CASE link # NoLock /\ Continue(p, "readlink") /\ UNCHANGED <<link, info>>
    BY <1>0, <2>2, ContinueEffect, PromiseInvStep
  <2> QED BY <1>3, <2>1, <2>2 DEF Symlink, Reliable
<1>4. ASSUME NEW p \in Procs, Readlink(p) PROVE PromiseInv'
  <2>0. UNCHANGED link /\ pc[p] = "readlink"
    BY <1>4 DEF Readlink, At
  <2>1. CASE LockFileReturns(p, "owner")
    BY <2>0, <2>1, LockFileReturnsEffect, PromiseInvStep
  <2>2. CASE UnlockFileReturns(p, TRUE)
    BY <2>0, <2>2, UnlockKeepsPromise, PromiseInvStep
  <2>3. CASE Continue(p, "unlink") /\ UNCHANGED info
    BY <1>0, <2>0, <2>3, ContinueEffect, PromiseInvStep
  <2>4. CASE Continue(p, "kill") /\ info' = [info EXCEPT ![p] = link]
    <3>1. \A q \in Procs \ {p} : info'[q] = info[q]
      BY <2>4 DEF LocalOK
    <3> QED BY <1>0, <2>0, <2>4, <3>1, ContinueEffect, PromiseInvStep
  <2>5. CASE link = NoLock /\ NobodyOwns(p, TRUE)
    <3>1. why[p] \notin LockCallers
      BY <2>0, <2>5 DEF PromiseInv, ReadsToLock
    <3> QED BY <2>2, <2>5, <3>1 DEF NobodyOwns
  <2> QED BY <1>4, <2>1, <2>2, <2>3, <2>4, <2>5 DEF Readlink, Reliable
<1>5. ASSUME NEW p \in Procs, Kill(p) PROVE PromiseInv'
  <2>0. UNCHANGED link /\ pc[p] = "kill"
    BY <1>5 DEF Kill, At
  <2>1. CASE /\ Continue(p, "zap") \/ Continue(p, "ask")
             /\ info' = [info EXCEPT ![p] = NoLock]
    <3>1. \A q \in Procs \ {p} : info'[q] = info[q]
      BY <2>1 DEF LocalOK
    <3> QED BY <1>0, <2>0, <2>1, <3>1, ContinueEffect, PromiseInvStep
  <2>2. CASE UnlockFileReturns(p, TRUE)
    BY <2>0, <2>2, UnlockKeepsPromise, PromiseInvStep
  <2> QED BY <1>5, <2>1, <2>2 DEF Kill
<1>6. ASSUME NEW p \in Procs, Ask(p) PROVE PromiseInv'
  <2>0. UNCHANGED link
    BY <1>6 DEF Ask
  <2>1. CASE Continue(p, "stealSymlink") /\ UNCHANGED info
    BY <1>0, <2>0, <2>1, ContinueEffect, PromiseInvStep
  <2>2. CASE LockFileReturns(p, "user")
    BY <2>0, <2>2, LockFileReturnsEffect, PromiseInvStep
  <2>3. CASE Leave(p) /\ UNCHANGED <<alive, modified, ours, stolen>>
    <3>1. Others(p) /\ pc'[p] = "idle" /\ ours'[p] # "silent"
      BY <1>0, <2>3, LeaveEffect DEF Others
    <3> QED BY <2>0, <3>1, PromiseInvStep
  <2> QED BY <1>6, <2>1, <2>2, <2>3 DEF Ask
<1>7. ASSUME NEW p \in Procs, Zap(p) \/ StealSymlink(p) \/ StealUnlink(p) \/ StealRetry(p)
      PROVE  PromiseInv'
  BY <1>0, <1>7 DEF Zap, StealSymlink, StealUnlink, StealRetry, At
<1>8. ASSUME NEW p \in Procs, Write(p) PROVE PromiseInv'
  <2>1. /\ Others(p) /\ UNCHANGED link
        /\ pc'[p] = "readlink" => why'[p] \in {"clean", "asis"}
        /\ ours'[p] \in {ours[p], "quit"}
    BY <1>8 DEF Write, Leave, Goto, LocalOK, Others
  <2> QED BY <1>0, <2>1, PromiseInvStep DEF LockCallers
<1>9. ASSUME NEW p \in Procs, Unlink(p) PROVE PromiseInv'
  <2>1. \A q \in Procs : ~ReadsToLock(q)
    BY <1>9 DEF UnlockRace
  <2>2. \E done \in BOOLEAN : UnlockFileReturns(p, done)
    BY <1>9 DEF Unlink
  <2> QED BY <2>1, <2>2, UnlockKeepsPromise, PromiseInvStep
<1>10. ASSUME NEW p \in Procs, Crash(p) \/ Exit(p) PROVE PromiseInv'
  <2>1. Gone(p)
    BY <1>10 DEF Crash, Exit
  <2>2. ours'[p] # "silent"
    BY <2>1 DEF Gone, LocalOK
  <2> QED BY <2>1, <2>2, GoneEffect, PromiseInvStep
<1>11. CASE UNCHANGED vars
  BY <1>11 DEF vars, PromiseInv, ReadsToLock
<1> QED
  BY <1>1, <1>2, <1>3, <1>4, <1>5, <1>6, <1>7, <1>8, <1>9, <1>10, <1>11 DEF Next, Step

(* Where symlink() and readlink() do not fail, as long as no process has   *)
(* ended, no user has stolen the lock and no unlock has come between       *)
(* symlink() and readlink() of another process, lock_file keeps its        *)
(* promise: when it returns the lock is ours or the user has said to go    *)
(* ahead.                                                                  *)
THEOREM PromiseKeptWithoutRace ==
  ASSUME Reliable
  PROVE  Spec /\ []Calm /\ [][~UnlockRace]_vars => []LockFilePromise
<1>1. Init => PromiseInv
  BY DEF Init, PromiseInv, ReadsToLock
<1>2. ASSUME TypeOK, OwnerInv, Calm, PromiseInv, [Next]_vars, [~UnlockRace]_vars
      PROVE  PromiseInv'
  <2>1. CASE ~UnlockRace
    BY <1>2, <2>1, PromiseInvNext
  <2>2. CASE UNCHANGED vars
    BY <1>2, <2>2 DEF vars, PromiseInv, ReadsToLock
  <2> QED BY <1>2, <2>1, <2>2
<1>3. Calm /\ PromiseInv => LockFilePromise
  BY DEF Calm, PromiseInv, LockFilePromise
<1> QED BY <1>1, <1>2, <1>3, TypeCorrect, OwnerInvInit, OwnerInvNext, PTL DEF Spec
=============================================================================
