------------------------------ MODULE FileLock ------------------------------
(***************************************************************************)
(* Clash detection: the advisory locks of src/filelock.c, used by several  *)
(* XEmacs processes that visit one file.                                   *)
(*                                                                         *)
(* The lock is a symbolic link whose target names its owner                *)
(* (user@host.pid).  The file system makes each system call atomic and     *)
(* nothing larger, so every symlink(), readlink(), kill() and unlink() of  *)
(* filelock.c is a step of its own here, and other processes run between   *)
(* them.  A process is a host and a pid; its one buffer visiting the file  *)
(* is modified or not (BUF_SAVE_MODIFF < BUF_MODIFF).  A process that dies *)
(* leaves its link behind and never comes back: a new XEmacs is another    *)
(* member of Procs, so pids are not reused.                                *)
(*                                                                         *)
(* The questions ask-user-about-supersession-threat and "Save anyway?",    *)
(* asked before lock_file touches the link, either let the operation go on *)
(* or abort it with nothing done; an aborted operation is a stutter here.  *)
(* inhibit-clash-detection keeps its default, nil.                         *)
(*                                                                         *)
(* A system call fails for a reason of its own (no permission, a read-only *)
(* or full file system, NFS); a link that is not of XEmacs's making, which *)
(* current_lock_owner cannot parse, is to it the same as a readlink() that *)
(* fails.                                                                  *)
(***************************************************************************)

CONSTANTS
  Procs,           \* the XEmacs processes that visit the file
  Host,            \* Host[p]: the machine process p runs on
  NoLock,          \* the lock link does not exist
  Failing          \* what may fail: system calls by name, change hooks ("hook")

ASSUME FileLockAssumption ==
  /\ NoLock \notin Procs
  /\ DOMAIN Host = Procs
  /\ Failing \subseteq {"symlink", "readlink", "unlink", "hook"}

VARIABLES
  link,      \* target of the lock link, or NoLock
  alive,     \* the processes kill(pid, 0) finds
  modified,  \* modified[p]: p's buffer has unsaved changes
  pc,        \* pc[p]: the system call p is about to make, "idle" outside
  why,       \* why[p]: which caller of lock_file or unlock_file is running
  info,      \* info[p]: the owner p read from the link and asks kill() about
  ours,      \* ours[p]: how p's last call ended (a history variable)
  stolen     \* some user has answered "steal" (a history variable)

vars == <<link, alive, modified, pc, why, info, ours, stolen>>

\* Why a process is inside filelock.c: "edit" (a first change), "lock"
\* (lock-buffer) and "save" (write-region) call lock_file; "clean"
\* (write-region that has saved the buffer, set-buffer-modified-p nil,
\* kill-buffer, insert-file-contents: the buffer ends up unmodified), "asis"
\* (write-region that failed, or was not to mark the buffer saved), "unlock"
\* (unlock-buffer) and "exit" (unlock_all_files) call unlock_file; "query" is
\* file-locked-p.
LockCallers == {"edit", "lock", "save"}
UnlockCallers == {"clean", "asis", "unlock", "exit"}
Callers == {"none", "query"} \cup LockCallers \cup UnlockCallers
\* How the last lock_file of a process ended: it owns the link, the user said
\* to go ahead without, it returned without either, it returned and a change
\* hook signalled before the change, or it returned and the user quit the
\* write-region of an unmodified buffer; "none" once unlocked again, "stuck"
\* when unlock_file could not read or not remove the link.
Outcomes == {"none", "owner", "user", "silent", "hookError", "quit", "stuck"}
Labels == {"idle", "symlink", "readlink", "kill", "zap", "ask", "stealSymlink",
           "stealUnlink", "stealRetry", "write", "unlink"}

(* Type invariant of the lock protocol of filelock.c and its callers.      *)
TypeOK ==
  /\ link \in Procs \cup {NoLock}
  /\ alive \subseteq Procs
  /\ modified \in [Procs -> BOOLEAN]
  /\ pc \in [Procs -> Labels]
  /\ why \in [Procs -> Callers]
  /\ info \in [Procs -> Procs \cup {NoLock}]
  /\ ours \in [Procs -> Outcomes]
  /\ stolen \in BOOLEAN

Init ==
  /\ link = NoLock
  /\ alive = Procs
  /\ modified = [p \in Procs |-> FALSE]
  /\ pc = [p \in Procs |-> "idle"]
  /\ why = [p \in Procs |-> "none"]
  /\ info = [p \in Procs |-> NoLock]
  /\ ours = [p \in Procs |-> "none"]
  /\ stolen = FALSE

-----------------------------------------------------------------------------
(* Control.                                                                *)

At(p, l) == p \in alive /\ pc[p] = l

Goto(p, l) == pc' = [pc EXCEPT ![p] = l]

\* From one system call to the next of the same call.
Continue(p, l) ==
  /\ Goto(p, l)
  /\ UNCHANGED <<alive, modified, why, ours>>

\* filelock.c is left with the buffer as it was.
Leave(p) ==
  /\ Goto(p, "idle")
  /\ why' = [why EXCEPT ![p] = "none"]
  /\ info' = [info EXCEPT ![p] = NoLock]

\* lock_file returns, having ended as HOW says.  Before a first change the
\* change hooks run next and the buffer becomes modified, unless a hook
\* signals an error; write-region goes on to write the file.
LockFileReturns(p, how) ==
  /\ UNCHANGED alive
  /\ \/ /\ why[p] = "save"
        /\ Goto(p, "write")
        /\ ours' = [ours EXCEPT ![p] = how]
        /\ UNCHANGED <<modified, why, info>>
     \/ /\ why[p] = "lock"
        /\ Leave(p)
        /\ ours' = [ours EXCEPT ![p] = how]
        /\ UNCHANGED modified
     \/ /\ why[p] = "edit"
        /\ Leave(p)
        /\ \/ /\ ours' = [ours EXCEPT ![p] = how]
              /\ modified' = [modified EXCEPT ![p] = TRUE]
           \/ /\ "hook" \in Failing
              /\ ours' = [ours EXCEPT ![p] = "hookError"]
              /\ UNCHANGED modified

\* unlock_file (or file-locked-p) returns; DONE unless a system call it made
\* has failed, which it does not report.  unlock-buffer and a write-region
\* that has not saved the buffer leave it as it was; the others leave it
\* unmodified.
UnlockFileReturns(p, done) ==
  /\ Leave(p)
  /\ modified' = [modified EXCEPT ![p] = @ /\ why[p] \in {"unlock", "asis", "query"}]
  /\ ours' = [ours EXCEPT ![p] = CASE why[p] = "query"           -> @
                                  [] why[p] = "unlock" /\ done -> "user"
                                  [] why[p] # "query" /\ ~done -> "stuck"
                                  [] OTHER                      -> "none"]
  /\ alive' = IF why[p] = "exit" THEN alive \ {p} ELSE alive

\* current_lock_owner has found no valid lock, 0, or is not DONE, -1.
\* lock_if_free makes -1 of both and lock_file returns without a lock and
\* without a question.
NobodyOwns(p, done) ==
  IF why[p] \in LockCallers THEN LockFileReturns(p, "silent")
                            ELSE UnlockFileReturns(p, done)

-----------------------------------------------------------------------------
(* Entry points.                                                           *)

Enter(p, reason, l) ==
  /\ At(p, "idle")
  /\ why' = [why EXCEPT ![p] = reason]
  /\ Goto(p, l)
  /\ UNCHANGED <<link, alive, modified, info, ours, stolen>>

\* The first change to an unmodified buffer: prepare_to_modify_buffer, or
\* set-buffer-modified-p with a non-nil flag.
BeginEdit(p) == ~modified[p] /\ Enter(p, "edit", "symlink")

\* lock-buffer.
BeginLockBuffer(p) == modified[p] /\ Enter(p, "lock", "symlink")

\* write-region calls lock_file before it opens the file, whether or not the
\* buffer is modified; only auto-saving does not.
BeginSave(p) == Enter(p, "save", "symlink")

\* unlock-buffer, set-buffer-modified-p nil, kill-buffer and exit unlock the
\* file of a modified buffer only; visiting the file again always does.
BeginUnlock(p) ==
  \/ modified[p] /\ \E r \in {"unlock", "exit"} : Enter(p, r, "readlink")
  \/ Enter(p, "clean", "readlink")

\* file-locked-p.
BeginQuery(p) == Enter(p, "query", "readlink")

-----------------------------------------------------------------------------
(* System calls.                                                           *)

\* Mutant: the text of the link names the host and leaves out the pid.
SymlinkWithoutPid(p) ==
  /\ At(p, "symlink")
  /\ link = NoLock /\ link' = Host[p] /\ LockFileReturns(p, "owner")
  /\ UNCHANGED stolen

\* lock_file_1 (lfname, 0) in lock_if_free.
Symlink(p) ==
  /\ At(p, "symlink")
  /\ \/ link = NoLock /\ link' = p /\ LockFileReturns(p, "owner")
     \/ link # NoLock /\ Continue(p, "readlink") /\ UNCHANGED <<link, info>>
     \/ "symlink" \in Failing /\ LockFileReturns(p, "silent") /\ UNCHANGED link
  /\ UNCHANGED stolen

\* Mutant: unlock_file takes any valid lock (1) for ours (2).
ReadlinkAnyOwner(p) ==
  /\ At(p, "readlink")
  /\ \/ link = NoLock /\ NobodyOwns(p, TRUE)
     \/ /\ link # NoLock
        /\ \/ why[p] \in LockCallers /\ LockFileReturns(p, "owner")
           \/ why[p] \in UnlockCallers /\ Continue(p, "unlink") /\ UNCHANGED info
           \/ why[p] = "query" /\ UnlockFileReturns(p, TRUE)
  /\ UNCHANGED <<link, stolen>>

\* current_lock_owner reads the link, or fails to; lock_if_free is content
\* with our own link, unlock_file goes on to remove it.
Readlink(p) ==
  /\ At(p, "readlink")
  /\ \/ link = NoLock /\ NobodyOwns(p, TRUE)
     \/ "readlink" \in Failing /\ NobodyOwns(p, FALSE)
     \/ /\ link = p
        /\ \/ why[p] \in LockCallers /\ LockFileReturns(p, "owner")
           \/ why[p] \in UnlockCallers /\ Continue(p, "unlink") /\ UNCHANGED info
           \/ why[p] = "query" /\ UnlockFileReturns(p, TRUE)
     \/ /\ link \notin {NoLock, p}
        /\ info' = [info EXCEPT ![p] = link]
        /\ Continue(p, "kill")
  /\ UNCHANGED <<link, stolen>>

\* current_lock_owner: only a dead process of this host makes a lock
\* obsolete.  A valid lock of another process sends lock_file to the user and
\* the others home.
Kill(p) ==
  /\ At(p, "kill")
  /\ \/ /\ Host[info[p]] = Host[p] /\ info[p] \notin alive
        /\ Continue(p, "zap")
        /\ info' = [info EXCEPT ![p] = NoLock]
     \/ /\ Host[info[p]] # Host[p] \/ info[p] \in alive
        /\ IF why[p] \in LockCallers
           THEN Continue(p, "ask") /\ info' = [info EXCEPT ![p] = NoLock]
           ELSE UnlockFileReturns(p, TRUE)
  /\ UNCHANGED <<link, stolen>>

\* unlink() of the lock file, by name: whoever it belongs to by now.
Remove == link' = NoLock
NotRemoved == "unlink" \in Failing /\ UNCHANGED link

\* current_lock_owner zaps the obsolete lock file; the callers make the same
\* of 0 (zapped) and -1 (not zapped).
Zap(p) ==
  /\ At(p, "zap")
  /\ Remove \/ NotRemoved
  /\ NobodyOwns(p, TRUE)
  /\ UNCHANGED stolen

\* ask-user-about-lock: steal the lock, proceed without it, or quit, which
\* signals file-locked and abandons the change or the save.
Ask(p) ==
  /\ At(p, "ask")
  /\ \/ Continue(p, "stealSymlink") /\ stolen' = TRUE /\ UNCHANGED info
     \/ LockFileReturns(p, "user") /\ UNCHANGED stolen
     \/ Leave(p) /\ UNCHANGED <<alive, modified, ours, stolen>>
  /\ UNCHANGED link

\* lock_file_1 (lfname, 1): symlink, unlink, symlink again; lock_file does
\* not look at the result.
StealSymlink(p) ==
  /\ At(p, "stealSymlink")
  /\ \/ link = NoLock /\ link' = p /\ LockFileReturns(p, "owner")
     \/ link # NoLock /\ Continue(p, "stealUnlink") /\ UNCHANGED <<link, info>>
     \/ "symlink" \in Failing /\ LockFileReturns(p, "silent") /\ UNCHANGED link
  /\ UNCHANGED stolen

StealUnlink(p) ==
  /\ At(p, "stealUnlink")
  /\ Remove \/ NotRemoved
  /\ Continue(p, "stealRetry")
  /\ UNCHANGED <<info, stolen>>

StealRetry(p) ==
  /\ At(p, "stealRetry")
  /\ \/ link = NoLock /\ link' = p /\ LockFileReturns(p, "owner")
     \/ /\ link # NoLock \/ "symlink" \in Failing
        /\ LockFileReturns(p, "silent")
        /\ UNCHANGED link
  /\ UNCHANGED stolen

\* write-region writes the file and then calls unlock_file, also when opening
\* or writing has failed; the failure is reported after that.  A quit during
\* write() abandons the save with the file still locked, whether or not there
\* are changes to keep it locked for.
Write(p) ==
  /\ At(p, "write")
  /\ \/ /\ \E r \in {"clean", "asis"} : why' = [why EXCEPT ![p] = r]
        /\ Goto(p, "readlink")
        /\ UNCHANGED <<info, ours>>
     \/ /\ Leave(p)
        /\ ours' = [ours EXCEPT ![p] = IF modified[p] THEN @ ELSE "quit"]
  /\ UNCHANGED <<link, alive, modified, stolen>>

\* Mutant: unlock_file does not remove the link it owns.
UnlinkForgotten(p) ==
  /\ At(p, "unlink")
  /\ UnlockFileReturns(p, TRUE)
  /\ UNCHANGED <<link, stolen>>

\* unlock_file removes the link it has just read and does not look whether
\* it is gone.
Unlink(p) ==
  /\ At(p, "unlink")
  /\ \/ Remove /\ UnlockFileReturns(p, TRUE)
     \/ NotRemoved /\ UnlockFileReturns(p, FALSE)
  /\ UNCHANGED stolen

-----------------------------------------------------------------------------
\* The process is gone, and with it everything but its link.
Gone(p) ==
  /\ alive' = alive \ {p}
  /\ modified' = [modified EXCEPT ![p] = FALSE]
  /\ ours' = [ours EXCEPT ![p] = "none"]
  /\ Leave(p)
  /\ UNCHANGED <<link, stolen>>

\* The process dies in the middle of whatever it was doing.
Crash(p) ==
  /\ p \in alive
  /\ Gone(p)

\* An XEmacs without modified buffers exits; unlock_all_files has no work.
Exit(p) ==
  /\ At(p, "idle")
  /\ ~modified[p]
  /\ Gone(p)

Step(p) ==
  \/ BeginEdit(p) \/ BeginLockBuffer(p) \/ BeginSave(p)
  \/ BeginUnlock(p) \/ BeginQuery(p)
  \/ Symlink(p) \/ Readlink(p) \/ Kill(p) \/ Zap(p) \/ Ask(p)
  \/ StealSymlink(p) \/ StealUnlink(p) \/ StealRetry(p)
  \/ Write(p) \/ Unlink(p) \/ Crash(p) \/ Exit(p)

Next == \E p \in Procs : Step(p)

Spec == Init /\ [][Next]_vars

-----------------------------------------------------------------------------
(* As long as no process has ended, cleanly or not, and no user has chosen *)
(* to steal the lock, a process for which lock_file obtained the lock      *)
(* still owns it, whatever the others do between its system calls: so no   *)
(* two processes ever edit the file under the lock together.               *)
OwnerKeepsLock ==
  (alive = Procs /\ ~stolen) => \A p \in Procs : ours[p] = "owner" => link = p

(* An idle XEmacs whose buffer is unmodified holds the lock (and the       *)
(* others are told that it is editing the file) only if a change hook has  *)
(* stopped it between lock_file and the change, the user has quit the      *)
(* write-region of a buffer without changes, or unlock_file could not read *)
(* or remove its link: no order of locking, saving, stealing and unlocking *)
(* in several processes, and no other failure, leaves a lock behind.       *)
NoIdleLock ==
  \A p \in alive :
    /\ pc[p] = "idle" /\ ~modified[p]
    /\ ours[p] \notin {"hookError", "quit", "stuck"}
    => link # p

(* The comment above lock_file: "When this returns, either the lock is     *)
(* locked for us, or the user has said to go ahead without locking."       *)
LockFilePromise == \A p \in alive : ours[p] # "silent"
=============================================================================
