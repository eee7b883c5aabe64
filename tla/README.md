# XEmacs 21.4: models of the C core

TLA+ models of parts of the C core of XEmacs 21.4 (`src/src/*.c`), the TLC
configurations that check small instances of them and TLAPS proofs for every
instance. `PROJECT.json` maps every definition to the lines it models.

Seven parts are done: the **file locks** by which several XEmacs processes keep
off each other's files, the **gap buffer** that stores the text every other part
reads, the **line number cache** that follows the text with markers, the
**asynchronous timeouts** that a signal handler and QUIT hand to each other, the
**undo list** that has to lead back to every text a buffer had, the **change
sessions** that tell Lisp and redisplay what has changed, and the **buffer-local
values** that a variable caches for one buffer. They are the places where the core
keeps one thing twice (a position and a marker, a gap and a text, a ring and the
newlines it counts, a queue and a timer, a value and its cache), shares it with others
or lets Lisp run in the middle, and where a long sequence of legal operations, rather than one
call, decides whether it is still right.

## 1. Inventory

### Modelled components

| Component | State | Operations | Interaction | Hard behaviour | Correct when |
|---|---|---|---|---|---|
| Clash detection, `filelock.c` | a symbolic link `.#file` whose target is `user@host.pid`; per process a modified flag | `lock_file`, `unlock_file`, `file-locked-p`, `lock-buffer`, `unlock-buffer`, `unlock_all_files` | called before the first change (`prepare_to_modify_buffer`), by `write-region`, `set-buffer-modified-p`, `kill-buffer`, `insert-file-contents`, on exit; asks the user through Lisp | processes interleave between system calls; a process dies and leaves its link; system calls and writes fail; hooks signal, users quit | a lock taken is kept until unlocked or stolen; nobody holds a lock while idle, but for failures; `lock_file` keeps its promise |
| Buffer text, `insdel.c`, `buffer.h`, `editfns.c` | a block of bytes, gap, end gap, sentinels; point, BEGV, ZV of each buffer that shares the text | insertion, deletion, replacement, moving and growing the gap, point motion, narrowing | Lisp runs in the change hooks before each change; markers are adjusted by memory index | a quit in the middle of moving the gap; allocation failure after it moved; several buffers on one text | behaves as a text without a gap; narrowing inside text, point inside narrowing unless Lisp moves its marker out |
| Markers, `marker.c` | a memory index and an insertion type | `set-marker`, `set-marker-insertion-type`, adjustment | chained from the buffer text; the point marker is point | off by one at the edges of gap and change | never inside the gap, between the same characters |
| Line number cache, `line-number.c` | a ring of (marker, line), the line of BEGV | `buffer_line_number`, invalidation by insertion and deletion | redisplay asks; `insdel.c` and `editfns.c` tell it of changes and narrowing | the ring outlives edits and narrowings | an answer with the cache is the one without |
| Asynchronous timeouts, `signal.c`, `event-stream.c` | sorted queue of timeouts, one-shot timer, `alarm_happened`, `something_happened`, counters that stop or slow interrupts | `add-async-timeout`, `disable-async-timeout`, the alarm handler, QUIT, `stop_interrupts`, `slow_down_interrupts` and their opposites | Lisp adds and disables timeouts, binds `inhibit-quit`; C functions slow interrupts down around system calls | the handler runs between any two statements; flags are set and cleared one after the other; callbacks nest | no wakeup lost, none early, every timeout served in the end |
| Undo, `undo.c`, `simple.el` | the undo list, the pending list that shares its conses, modtime | what each change records, boundaries, truncation, `primitive-undo`, the command `undo` | `insdel.c` records changes; the garbage collector truncates; Lisp keeps the pending list over commands | an undo is recorded as changes; it is cut, refused or intruded upon half way; saves make records obsolete | every element applies to the text before it; unmodified means saved |
| Change sessions, `insdel.c` | bounds and count of the session, the changed region | `begin_multiple_change`, `end_multiple_change`, `signal_before_change`, `signal_after_change`, `buffer_reset_changes` | every change calls them; change functions are Lisp; redisplay reads the region | change functions edit, begin sessions and throw; sessions nest and are called off | what is reported is so; no session stays open |
| Buffer-local values, `symbols.c`, `buffer.c`, `eval.c` | a value cell with default, cached buffer and cached value; the buffers' lists of local values; the bindings | `set`, `set-default`, `make-local-variable`, `make-variable-buffer-local`, `kill-local-variable`, `let`, `set-buffer`, `kill-buffer` | C code reads and writes the cached value directly; the evaluator binds and unbinds | the cache is not written through; bindings are unwound in another buffer, or after their buffer was killed | behaves as a default and a value for each buffer; a C variable has the current buffer's value |

### Components not modelled yet, or left out

| Component | State and operations | Why not (yet) |
|---|---|---|
| Mule position cache (`insdel.c`) | known region of character/byte positions | in the plan; it needs characters of several bytes |
| Subprocesses (`process.c`, `process-unix.c`) | status, filters, sentinels | a candidate, after the above |
| Hash and range tables, extents | pure structures, two orders of the same extents | candidates; extents are too large for now |
| Evaluator, byte code, reader, printer, allocation, regular expressions | arbitrary Lisp data | sequential and dominated by data |
| Redisplay, windows, devices, coding systems, dumping, helper programs, the Lisp library | layout, I/O, conversions | input and output, or Lisp above the core |

`PROJECT.json` lists them one by one, and under `hazards` what is hard to test
in each, at its line.

## 2. Modules

| Module | Role |
|---|---|
| `FileLock` | the lock protocol, one system call per step |
| `FileLockProofs` | its type invariant, two safety properties and when the promise of `lock_file` is kept, for any processes and hosts |
| `TextOps` | what inserting and deleting do to a sequence of characters and to a position in it |
| `BufferText` | abstract specification: text and markers, no gap |
| `GapBuffer` | `insdel.c`: memory, gap, end gap, sentinels, memory indices, point, narrowing, indirect buffers; instantiates `BufferText` |
| `GapBufferProofs` | ten theorems, among them that `GapBuffer` implements `BufferText` |
| `LineNumberCache` | the ring over a text that changes as `TextOps` says, its markers moving as `BufferText` says |
| `LineNumberProofs` | its type invariant, and that ring and answers are right, for any ring size, distance and text |
| `AsyncTimeouts` | the timeout queue, the timer, the alarm signal and QUIT; states fairness |
| `AsyncTimeoutsProofs` | its five safety properties, for any timeouts, delays and intervals |
| `Undo` | the undo list over a text that changes as `TextOps` says, and the command `undo` |
| `UndoProofs` | the lists lead back and truncation fits, for any strings and thresholds |
| `UndoSavedProofs` | extends `UndoProofs`: a buffer that is not modified has the saved text |
| `ChangeSession` | changes, sessions, change functions and the changed region |
| `ChangeSessionProofs` | its five properties, for any characters, strings and bounds |
| `BufferLocal` | abstract specification: a default, and values of their own in some buffers |
| `LocalCache` | the value cell with its cache, `set-buffer`, `kill-buffer` and bindings; instantiates `BufferLocal` |
| `LocalCacheProofs` | seven theorems, among them that `LocalCache` implements `BufferLocal` |
| `MCFileLock`, `MCGapBuffer`, `MCLineNumberCache`, `MCAsyncTimeouts`, `MCUndo`, `MCChangeSession`, `MCLocalCache` | values for the constants |

`LineNumberCache`, `Undo` and `ChangeSession` are built on the abstract text and not on
the gap: that this is sound is what the refinement of `GapBuffer` shows.

### FileLock and `filelock.c`

`link` is the target of the lock file, `pc[p]` the system call process `p` is
about to make, `why[p]` the caller that brought it into `filelock.c`, `info[p]`
the owner it read. One action is one system call with what follows it up to the
next: `Symlink` is `lock_file_1` in `lock_if_free`; `Readlink`, `Kill` and `Zap`
are `current_lock_owner`; `Ask` is `ask-user-about-lock` with its three answers;
`StealSymlink`, `StealUnlink`, `StealRetry` are `lock_file_1` with `force`;
`Unlink` is `unlock_file`. `LockFileReturns` and `UnlockFileReturns` are what the
callers do with the result: change hooks run (and may signal), the buffer becomes
modified or clean, the file is written. `BeginSave` is `write-region`, which locks and unlocks the
file whether or not the buffer is modified; `Write` ends it with the buffer saved, with the buffer as it was (`asis`: the write failed, or
was not to mark the buffer saved) or with a quit. `Failing` names what may fail: `symlink()`, `readlink()` and `unlink()`,
the latter with its result ignored, and change hooks. A link that `current_lock_owner` cannot parse has the same
consequences as a `readlink()` that fails, -1, and is not told from it. `Crash` ends a process anywhere; `Exit`
ends one that has nothing to save. `ours` and `stolen` are history variables: how
the last call ended (`stuck`: `unlock_file` left the link in place), and whether anybody has stolen. The name of the lock
file and the questions about a file changed on disk are left out: the latter
happen before the link is touched and either go on or change nothing.

### GapBuffer and `insdel.c`

`bt` is `struct buffer_text` with the chain of markers; `pt`, `begv`, `zv` belong
to the buffers that share it. The operators have the names of the functions they
model (`move_gap`, `make_gap`, `merge_gap_with_end_gap`, `do_marker_adjustment`,
`adjust_markers`); `GapLeft`/`GapRight` are `gap_left`/`gap_right`, `ExtendGap`
the pretended second gap by which both ways of growing the gap are done.
`Insert`, `Delete` and `ReplaceChar` are `buffer_insert_string_1`,
`buffer_delete_range` and `buffer_replace_char` after the hooks have run: the
arguments are any positions, and clamped as the code does. `QuitMovingGap` and
`InsertNoRoom` are operations abandoned half way, the gap already moved. Bytes
that hold no text are `Junk`, so an index that is off by one shows in the text.
A character is one byte; `SentinelSize` is 1 in a build with Mule. `SetPointMarker` is Lisp
moving the marker that is point, in a build without assertions: to any position of the text, also outside the
narrowing.

### LineNumberCache and `line-number.c`

`ring` is the vector of cached positions, `begvLine` is `LINE_NUMBER_BEGV` (with
`NoCache` before `allocate_line_number_cache`), `shown` the last answer.
`Invalidate` and `Kept` are the invalidation, `Carry` the ring after it, its
markers moved by the edit; `Nearest` is `get_nearest_line_number`, `Add`
`add_position_to_cache`, `LineNumber` the whole of `buffer_line_number`. `Narrow`,
`Widen` and `RestoreRestriction` are narrowing and the end of
`save-restriction`. The four limits of the C file are constants.

### AsyncTimeouts, `signal.c` and `event-stream.c`

`queue` is `async_timer_queue`, `timer` the one-shot timer, `alarm` and `something` the
two flags, `suppress` and `slow` the two counters. `pc` says where the main program is;
`Tick` and `AlarmSignal` come between any two of its steps, so every statement order in
`check_what_happened`, `handle_alarm_going_off`, `slow_down_interrupts` and
`speed_up_interrupts` that the handler can see is a step of its own. `frames` are the
callbacks that are running. Times are relative, and an overdue repeating
timeout wraps at its interval, since `event_stream_resignal_wakeup` only uses the rest.
`rearmed`, `missed` and `nested` are history: the timer was set again with an alarm
pending, its alarm was taken for the slowed-down one (between the two statements of `speed_up_interrupts`
or, without harm, of `slow_down_interrupts`), slowing down was nested.
SIGIO, SIGCHLD, the check for C-g and `break_system_call_jump` are left out: they share
`something_happened` but never touch the queue.

### Undo, `undo.c` and `simple.el`

`list` is `buffer-undo-list`, `work` the `pending-undo-list`, which `primitive-undo` walks
down; `joined` says that they still end in the same conses, so that `Truncate` (the garbage
collector, in `mark_buffer`) cuts both. Every element carries the text before its change
(`was`), which no action reads. `record_insert` combines adjacent insertions,
`undo_prelude` puts a boundary when another buffer was changed last and a record `(t . TIME)` when
this one was unmodified. An undo is a sequence of steps: `UndoChange` changes the text
through `insdel.c`, so records it; `UndoSaved` and `UndoUnit` deal with saves and
boundaries, `UndoFails` with a change that is refused. `intrusion` marks a change by a
filter or a timeout, after which `last-command` is still `undo`. `ReplaceChar` has the two branches of
`buffer_replace_char`: with `not_real_change` (`subst-char-in-region` with NOUNDO) nothing is recorded and the buffer
does not become modified. `Save` is the end of `write-region`, which may have failed; `SetModified` is `set-buffer-modified-p`. `saved` is the
text of the file and those for which Lisp has called the buffer unmodified since; `unrecorded`, `believed`
and `trusted` are history too. Left out: elements
that move point or attach extents (they leave the text alone), COUNT above 1,
`buffer-disable-undo`, change functions that edit during an undo, two saves within one second (each save gets a modtime of its own),
`upcase-region` and its kin, which record a whole region at once (`casefiddle.c:175`), a NOUNDO replacement by
a character of another width (a deletion and an insertion with the undo list turned off), a `write-region` that cannot
open its file (it changes nothing here).

### ChangeSession and `insdel.c`

`mc` are the four `mc_` fields, `begin_unchanged` and `end_unchanged` the region of
redisplay. `Modify`, `BeforeDone` and `AfterDone` are one change cut where Lisp runs;
between them the change functions may change the text (`HookChange`), begin and end
sessions, catch errors from inside them or throw (`Throw`). `multiple_change_finish_up` is
the unwind-protect of the outermost session, and `owner` whose stack it is on; `Return`
unwinds one that an error in a nested session has left behind. `Redisplay` is
`buffer_reset_changes`. `seen` and `shown`, the texts when a session began and when
redisplay last looked, are history. Left out: `first-change-hook`, modification hooks of
extents, narrowing, indirect buffers. `buffer_replace_char` is modelled for characters of
the same length; for others it is a deletion and an insertion.

### LocalCache, `symbols.c`, `buffer.c` and `eval.c`

`sv` is the value cell of one variable together with its element in the `local_var_alist` of every
buffer: `dflt`, `cval` and `cbuf` are `default_value`, `current_value` and `current_buffer`, `celt` whether there
is a `current_alist_element`. An element that is cached has the buffer's value in `cval` and maybe an old
one in `local`. The operators have the names of the functions they model
(`write_out_buffer_local_cache`, `set_up_buffer_local_cache`, `Fset`, `default_value`,
`symbol_value_in_buffer`) or say what a function returns: `HasLocal` is
`buffer_local_alist_element`, `Switched` what `set_buffer_internal` does to the cell, `Prepared` `Fset` up
to the type check, at which `SetRefused` signals. With `forwards` the value is kept in
a C variable of type Fixnum, which C code assigns to at any moment (`AssignC`).
`Bind` is `specbind_magic` with its three cases, `Unbind` one round of
`unbind_to_hairy`, `Restored` the two unwind functions with their excursion into the buffer of
the binding. `KillBuffer` enters and leaves the buffer for the hooks before its values go. `BufferLocal` is
the ideal: a local value starts out as the default, void or not, and a binding is restored where it was made, the default included. `Careful`
keeps Lisp away from the four places where the code does something else: `make-local-variable` and
`kill-local-variable` (also when it unwinds a binding) while an assignment to the default is only in the cache, which loses it (finding 5 and below);
`make-local-variable` of a void variable; leaving a binding of the default where the variable has become local. One variable is enough, since the
caches of two never meet. Left out: aliases, handlers, constants, variables kept in slots of
a buffer or console, the type check of `set-default`.

## 3. Runs

| Run | Instance | Shows |
|---|---|---|
| `filelock` | 3 processes of one host, each may crash; failing system calls, hooks and writes | `TypeOK`, `OwnerKeepsLock`, `NoIdleLock` hold |
| `filelock_promise` (violation) | 2 processes, no call fails | `lock_file` can return without the lock and without asking (`LockFilePromise`) |
| `gapbuffer` | one narrowed buffer with Mule's sentinels, 1 marker and the point marker, at most 4 characters | `TypeOK`, `MarkersValid`, `NarrowingValid`, `PointInSync`, `GapSentinel`, `PointStaysVisible`, and the refinement `Implements` |
| `gapbuffer_narrow` (violation) | a narrowed indirect buffer | an edit in the base buffer breaks its narrowing (`NarrowingValid`) |
| `linenumber` | ring of 2, far = 1, large = 1, at most 5 characters, narrowing at the end only | `TypeOK`, `RingCorrect`, `LineNumberCorrect` hold |
| `linenumber_narrow` (violation) | narrowing may start anywhere | the number shown is counted from the wrong place (`LineNumberCorrect`) |
| `async` | 2 timeouts, delays 1 and 2, one shot or every 2, 2 nested callbacks, 2 nested slow-downs | `TypeOK`, `QueueOrdered`, `NoLostWakeup`, `AssertionsHold`, `NeverEarly`, and under fairness `TimeoutsServed` |
| `async_lost` (violation) | 2 timeouts, no disabling | an alarm between the two statements of `speed_up_interrupts` is lost (`TimeoutsCalled`) |
| `undo` | texts of 2 characters, 1 save, thresholds 4 and 6, 1 truncation, refusals and intrusions, and one of a failing save, `set-buffer-modified-p` and a NOUNDO replacement | `TypeOK`, `ListLeadsBack`, `PendingLeadsBack`, `UnmodifiedMeansSaved`, `TruncationFits` |
| `change` | texts of at most 2 characters, sessions 2 deep | `TypeOK`, `ReportsTrue`, `RegionCovers`, `AssertionsHold`, `SessionsClose` |
| `locals` | 3 buffers, 2 values or void, 2 nested bindings, a Lisp or a C variable, `Careful` | `TypeOK`, `CVariableCurrent`, `CacheCoherent`, `AnswersRight`, `LocalStartsSame`, and the refinement `Implements` |
| `locals_lost` (violation) | 3 buffers, no bindings, Lisp is not careful | `make-local-variable` loses what was set: `LocalStartsSame`, which the run before checks with `Careful`, fails without |

**Bounds.** Three processes are one to hold, one to wait and one to come between
them; all races of `filelock.c` known to us need at most three. Each may crash, but only one
at a time lives on after a call that went wrong (`OneWentWrong`). All processes are on one host because only there
`current_lock_owner` zaps a lock; the proofs cover any hosts. `MaxInt = 4` stands for
`EMACS_INT_MAX`: with a first gap of 1 and a slack of 2 the gap is
moved both ways, merged, grown and refused within four characters, and with
`Chunk = 2` a quit can stop it half way. In the line number run the ring
overflows, strings are both short and "large", and positions are both near and far.
Two timeouts are one to fire and one to be overtaken, and with delays 1 and 2 either can
come first, be resignalled behind the other or be overdue with it; `Horizon` only keeps
Lisp from disabling and stopping while both are far away. In the undo run a list of
`MaxList` = 4 elements when a command begins grows to nine or ten while one is undone,
enough for two units, a cut between them and a record of a save; replacing a character
records two elements and, in an unmodified buffer, two records of the save. `MaxOdd` bounds failing saves,
`set-buffer-modified-p` and NOUNDO replacements together, since each of them multiplies the states. In the
change run a session of depth 2 is the least that can be thrown out of in part, and two
characters the least in which a change can be inside, outside or across its bounds.
Three buffers are one that is current, one that is cached and one that is neither, and two bindings
can be of different kinds and buffers; the buffers are symmetric.
The specifications differ in no way from the ones the theorems are about:
a configuration only chooses constants and, for `filelock`, the constraint named above.

**Deadlock** is not checked for `FileLock`, since all processes may exit, nor for `Undo` and
`ChangeSession`, where the bounds or a failed assertion may stop it; in the other modules it is.

**Fairness.** Only `AsyncTimeouts` assumes any; the others state safety properties or a
refinement without liveness, since nothing in their code promises progress (a user may leave
`ask-user-about-lock` unanswered for ever). `FairSpec` assumes, of the operating system, that
time passes (`WF(Tick)`), that a signal that is due is delivered (`WF(AlarmSignal)`) and, since an
overdue timer is set for one microsecond, that this does not happen for ever just while interrupts are
slowed down (`SF(AlarmSignal /\ slow = 0)`); of the main program that it goes on
(`WF(Proceed)`), that callbacks, slowed-down sections and bindings of `inhibit-quit` end
(`SF(Return)`, `SF(SpeedUp)`, `SF(SetInhibit(FALSE))`) and that QUIT, which the evaluator does at every
call, is done again and again with `inhibit-quit` nil (`SF(Quit /\ ~inhibit)`). Strong fairness
is needed where other steps of Lisp disable the action again and again for a moment. Nothing is
assumed of what Lisp adds, disables or stops.

### Findings

Each violation run is a disagreement between the code and a comment, an assertion or
the manual; `PROJECT.json` quotes both. In short:

1. `lock_if_free` turns "nobody owns it" into an error, so after zapping a stale lock,
   or when the owner unlocks between `symlink()` and `readlink()`, the file is edited
   without a lock and without a question.
2. `buffer_insert_string_1` and `buffer_delete_range` adjust ZV of every buffer that
   shares the text, and BEGV of none.
3. The line of a BEGV that moved is computed as the distance of BEGV from itself.
4. `speed_up_interrupts` arms the timer before it clears the flag, so an alarm in between is
   taken for the slowed-down one; the queued timeouts then wait until something else sets the timer.
5. `make-local-variable` copies the slot of the default and forgets the cached one, which may be newer:
   of a variable that has been local to some buffer, a value set just before is lost.

Other behaviour seen while modelling, which no run is about:

- `write-region` unlocks the file also when it failed, and the buffer stays modified; the manual
  (`src/man/xemacs/files.texi:573`) says "The idea is that the file is locked whenever the buffer is modified."
- `INSDEL_BEFORE_MARKERS` moves the point markers of all buffers that share a text and point of one
  (`insdel.c:2553`); `PointInSync` is claimed for a buffer that shares its text with none.
- `buffer_replace_char` does not tell the line number cache about newlines (`insdel.c:2922`);
  `RingCorrect` and `LineNumberCorrect` are claimed without such replacements (`SwapsNewlines = FALSE`).
- The stale lock is removed by name, so a process that was slow between `kill()` and
  `unlink()` removes the lock somebody has taken meanwhile. `OwnerKeepsLock` therefore
  speaks of the time before any process has ended.
- Between two users who steal one lock the same happens: each may unlink the other's fresh link, or one of a third
  process that has come meanwhile. `OwnerKeepsLock` speaks of the time before anybody has stolen.
- A hook that signals between `lock_file` and the change leaves an unmodified buffer
  whose file is locked. So does a quit during `write-region` of an unmodified buffer, which takes the lock too
  (`fileio.c` calls `lock_file` whenever it is not auto-saving), and an `unlink()` that fails, since
  `unlock_file` ignores its result (`filelock.c:384`), or a `readlink()` that does. `NoIdleLock` excepts these and shows that there is no other way.
- `set-marker` on `(point-marker t)` clips to the whole buffer and so moves point out of
  the accessible part (`marker.c:229`). `PointStaysVisible` excepts exactly this step, and `NarrowingValid` asks only that point
  is a position of the text.
- Deleting at the end of the text, behind the gap, does not write the sentinel after the
  text; only the sentinel at the gap is claimed (`GapSentinel`).
- When Lisp disables or adds a timeout while an alarm is pending, the timer is set again and one
  alarm too many follows: it pops the next timeout early, or fails `assert (tm)` on an empty
  queue. `NeverEarly` and `AssertionsHold` except it (`rearmed`). Slowing interrupts down within itself
  ends in the assertion of `start_async_timeouts` (`nested`); no caller in the core does so.
- `record_change` calls `undo_prelude` twice, so that in an unmodified buffer a second record of the
  save stands in the middle of the change; an undo refused right after it leaves the buffer marked
  unmodified. A change by a filter or a timeout between two undo commands leaves the pending list
  stale, and a stale list may end in such a record too. A write that fails in a buffer without changes leaves it
  unmodified with a file that is not its text. `UnmodifiedMeansSaved` excepts these three (`trusted`), and an undo only if the record
  was the last thing it had dealt with (`believed`).
- `subst-char-in-region` with NOUNDO changes the text without a record and without marking the buffer
  modified (`insdel.c:2924`), and `set-buffer-modified-p` with nil marks any text unmodified. After the former
  undo brings back characters that are not those that were there, and an unmodified buffer differs from its file.
  `ListLeadsBack`, `PendingLeadsBack` and `UnmodifiedMeansSaved` say what remains: every
  element still fits the text it is applied to, and the texts have the lengths they should.
- An obsolete record of a save ends the step of an undo as if it were a boundary, by the `break` at
  `undo.c:433`: after type, save, type, save, undo, undo one of the undos has done nothing. The
  documentation of `buffer-undo-list` (`buffer.c:2942`) knows only boundaries.
- `truncate_undo_list` never forgets the newest unit, however large it is, although
  `undo-high-threshold` (`buffer.c:2319`) says "Don't keep more than this much size";
  `TruncationFits` excepts it.
- Changes that change functions make in a session do not move `mc_new_end`. The session's report is
  then of the wrong region, an assertion of `signal_after_change` may fail, and `end_unchanged`
  may become negative, which means "nothing has changed". `ReportsTrue`, `AssertionsHold` and
  `RegionCovers` except such sessions (`meddled`, `blurred`).
- An error caught inside the outermost session leaves `in_multiple_change` too high. The session
  then ends, and is reported, only when the function around it returns (`Return`); `SessionsClose`
  is about the time after that.
- `kill-local-variable` also forgets the cache in a buffer that has no value of its own, and with it a
  default that was set there and not yet written out; so does leaving a binding that had made the variable
  local. `Careful` excludes it.
- Once `make-local-variable` or `kill-local-variable` has forgotten a default that was only in the cache, no buffer
  is cached, and `default-value` (`symbols.c:1960`) answers with the forgotten value that is still in the cell
  while the default is another. `AnswersRight` is claimed under `Careful`.
- `symbol-value-in-buffer` looks into the cache only if it is for the buffer it was asked about; a default
  cached for another buffer is missed. `AnswersRight` excepts it.
- `make-local-variable` gives a void variable the value nil (`symbols.c:2303`), though its documentation (`symbols.c:2205`) says "If VARIABLE was
  void, it remains void", and so does the manual (`src/man/lispref/variables.texi:1053`). `BufferLocal` has it void, `Careful` excludes the case and
  `LocalStartsSame` excepts it, so that the run `locals_lost` shows finding 5. The nil that `make-variable-buffer-local` stores as
  the default of a void variable is overwritten by the cached void value.
- A binding of the default that is left in a buffer with a value of its own, or after
  `make-variable-buffer-local`, is restored there, and the default keeps the bound value: `unbind_to` calls `Fset` in whatever buffer is current.
  The manual warns of part of it (`variables.texi:1088`). `BufferLocal` restores the default, and `Careful` excludes the case.
- A refused value makes an automatically local variable local, with the value it had; `BufferLocal` has it so.

## 4. Proofs

TLC checks the instances above, TLAPS the following for every value of the constants
allowed by the named assumption of each module.

**FileLockProofs.** `TypeCorrect`; `OwnerKeepsLockAlways`; `NoIdleLockAlways`; `PromiseKeptWithoutRace`.
`OwnerKeepsLock` is not inductive: a process about to `unlink` might be removing
somebody else's lock. `CalmInv` adds that, before any end or theft, nobody is at a
stealing or zapping step and a process at `unlink` owns the link; `ControlInv` says what
is known at a label: a process at `kill` does not own the link, one at `unlink` was sent
there by a caller of `unlock_file`. `NoIdleLock` needs
`IdleInv`: wherever it is, a live process that owns the link has a modified buffer, is in `write-region` or
`unlock_file`, which see to the link, or its last call ended in one of the three failures.
`PromiseKeptWithoutRace` says what finding 1 takes: where `symlink()` and `readlink()` do not fail (`Reliable`), and as long as no process has ended, nobody
has stolen and no unlock comes between `symlink()` and `readlink()` of another process (hypotheses on the
behaviour, `[]Calm` and `[][~UnlockRace]_vars`), `LockFilePromise` holds. Its invariant `PromiseInv` adds that whoever
is about to read the link in `lock_file` will find one; `CalmInv` excludes zapping and stealing.

**GapBufferProofs.** `TypeCorrect`, `MarkersAlwaysValid`, `NarrowingAlwaysValid`, `PointAlwaysStaysVisible`, `GapAlwaysGuarded`,
`GapBufferImplements` under `SafeSharing` (of several buffers that share a text none
is narrowed), `PointAlwaysInSync` under `SingleBuffer`. Without these hypotheses finding 2 and the behaviour of `INSDEL_BEFORE_MARKERS` above are counterexamples.
`SoundWhileNarrowingValid`, `ImplementsWhileNarrowingValid` and `SharedPointsInSync` show that nothing else is wrong with
sharing: for any buffers that share a text, narrowed or not, all of this holds for as long as
no edit has broken the narrowing of one (the hypothesis `[]NarrowingValid`) and, for point, nothing is inserted before markers.
The invariant `Inv` says that the memory is well formed (`WF`: the block is exactly
text, gaps and sentinel, the text has no `Junk`, no marker is in the gap) and, under `SafeSharing`, that the
narrowing and point are within the text; each step lemma assumes `NarrowingValid` of the state before the step only. `Represents` states what a memory stands for; a
lemma for each of `GapLeft`, `GapRight`, `ExtendGap` and `MakeRoom` says it stands for
the same text and markers afterwards, and one for each of `Fill`, `DeleteBottom`,
`DeleteAtGap` that it stands for the edited ones. The step lemmas combine them, and
the refinement follows from the same facts. `GapSentinel` goes along as
`Guarded`, a zero byte at the beginning of the gap, with a lemma for each operation on the gap.

**LineNumberProofs.** `TypeCorrect` without any hypothesis; `RingAlwaysCorrect` and `LineNumberAlwaysCorrect` under
`FirstLineOnly` (the accessible part begins with the text, and newlines are not replaced
in place), without which finding 3 and the replaced newlines above are counterexamples. `LineInv` says that every ring entry
and the last answer are positions with their right lines and that the line of BEGV is 0
or not cached. Its core is `ShiftedLine`: an edit that contains no newline maps the
newlines in front of a position one to one onto those in front of the place it moves to,
so both lines are the cardinality of the same set.

**AsyncTimeoutsProofs.** `TypeCorrect`, `QueueAlwaysOrdered`, `WakeupNeverLost`,
`AssertionsAlwaysHold`, `FunctionsNeverEarly`. `IInv` adds three facts to the properties.
`TimerForHead`: when the timer that is set is the queue's and not the slowed-down one, the head of
the queue is due by the time it fires, and unless the timer was set again with it pending
an alarm means that the head is due; `NeverEarly` and `assert (tm)` follow. `StopsCounted`:
`suppress` is the number of stops and slow-downs that are open, unless slow-downs were
nested; the assertion of `start_async_timeouts` follows. `PoppedApart`: the timeout that QUIT is dealing with is not in the queue.
`QueueOrdered` is inductive on its own because `Tick` moves all queued timeouts alike until
they are overdue, and the order of overdue ones does not matter.

**UndoProofs.** `TypeCorrect`, `ListAlwaysLeadsBack`, `PendingAlwaysLeadsBack`,
`TruncationAlwaysFits`. `LeadsBack` relates each element to the text on either side of it, so
it is local: a cons, a prefix and a tail of a list that leads back do so too
(`ConsLeads`, `PrefixLeads`, `TailLeads`), which is all that recording, truncation and undoing do to
a list. What remains are facts about texts: deleting what was inserted and inserting what was
deleted gives the text before (`DeleteInserted`, `InsertDeleted`), and a replacement is both
(`ReplaceIs`). After a replacement that was not recorded the same lemmas hold of the lengths alone (`Alike`), which
is all that positions need. `TruncationFits` needs that the first boundary where the scan stops exists
and that a boundary in front of it was needed (`TruncatedIs`, `Needed`).

**UndoSavedProofs.** `UnmodifiedAlwaysSaved`. The obvious invariant, that a record of the current save stands at
the saved text, is false: `record_change` calls `undo_prelude` for the deletion and again for the
insertion, and if the buffer still counts as unmodified the second record stands at the text with the character deleted. Such a record
(`Wrong`) does no harm as long as an undo goes past it in one step, and `SavedInv` says why it does. Every
wrong record is enclosed by two changes (`Enclosed`), so no step of an undo ends
at it and no cut of the list, which is at a boundary, separates it from them; `primitive-undo`
comes to one only right after a change (`Behind`), and while it has believed one (`believed`) another change is
next, which marks the buffer as modified again (`TrustedInv`). What counts as saved is the set `Unmodified`: the texts of `saved` and, once
something was replaced without a record, all of their lengths. Three more parts make this inductive. `Solid`: undoing a
recorded change really changes something, so that the change after a wrong record does mark the
buffer, and no record is newer than the current save, so that a save makes all records of earlier ones harmless. `SharesEnd`: while it is
joined the pending list is an end part of the list, so `Truncate` cuts both at the same boundary. `Below`: between commands the
first element of the list, the only one that recording may extend in place, is not in the pending
list. `Grows` sums up what every way of recording does to a list; there is one lemma about it for
each, and one lemma for each action of `Undo`.

**ChangeSessionProofs.** `TypeCorrect`, `ReportsAlwaysTrue`, `RegionAlwaysCovers`,
`AssertionsAlwaysHold`, `SessionsAlwaysClose`. None of the last four is inductive. `BoundsInv` adds that the bounds
of the program's session, unless change functions meddled with it, describe what has become of the text
it began with, and that a change in progress is within them: the report at the end and the
assertions follow. `SignalInv` says that no session has changes to report while change functions
run, `OwnerInv` that `in_multiple_change` counts at least the sessions somebody is in, and whose
unwind-protect is there to finish them. The core are facts about texts: a change leaves what is before
and behind it alone (`ChangeDescribed`), a change inside the bounds of a session leaves its description
right (`DescribedThen`), and the two counts of redisplay stay right when it is signaled (`CoversChange`).

**LocalCacheProofs.** `TypeCorrect`, `CacheAlwaysCoherent` and `CVariableAlwaysCurrent` without any hypothesis: what is lost in
finding 5 is an assignment, never the agreement of cache, lists and C variable. `AnswersAlwaysRight`,
`LocalCacheImplements` and `LocalAlwaysStartsSame` under `Careful`, without which finding 5, the stale
answer of `default-value`, the void variable and the misdirected binding above are counterexamples; `OnlyPendingDefaultsForgotten` says, again without hypothesis, that `make-local-variable`
changes a bound value only while an assignment to the default is in the cache alone. `IInv` is `Coherent`: the cached element is there if and only if the buffer's list has it, a
buffer's own value is cached only while that buffer is current, and with a C variable the value of the
current buffer, if it has one of its own, is the one cached, and some buffer always is. The last part is what makes `set-buffer`
right although it looks only at variables local to the old or the new buffer: any other
shows the default in both. Under `Careful` it also says that, when no buffer is cached, the value in the cell is
the default's slot, which is what `default-value` relies on. A lemma for each operator on the cell (`SetUpIs`, `SwitchedIs`, `FsetIs`,
`KilledLocalIs`, `MadeOwnIs`, `RestoredIs`...) says that it keeps `Coherent` and what it does to
default and own values as Lisp sees them; every step of the refinement is one or two of them.

**Only model-checked:** `TimeoutsServed` and the violation of `TimeoutsCalled`, which are liveness under fairness. Like
`ENABLED`, induction over data and RECURSIVE operators it is beyond the prover and stays with
TLC; no module declares a RECURSIVE operator. Every invariant and every action property that a passing run checks, and
both refinements, are stated by a theorem.

## 5. Plan

1. The Mule position cache: characters of one or two bytes; the known region against a
   reference definition of the conversion.
2. Candidates after that: status changes and sentinels of subprocesses; the variables kept in
   slots of buffers and consoles; the two orders of extents.

## 6. Not modelled

Most of the repository is out of the reach of models like these, and the share of it that they
cover stays small. Redisplay, glyphs, faces, windows and the toolkits are layout
and drawing; the coding systems, the regular expression compiler, the reader and
the printer turn data into data in one thread; the evaluator, the byte code
interpreter and the garbage collector work on arbitrary Lisp objects, of which a small
instance says little; `lib-src`, `lwlib` and the other vendored or generated
files are separate programs and libraries. What has been chosen is control: the
places where signals, processes, Lisp callbacks, errors or long sequences of calls meet
state that has to stay right. `PROJECT.json` gives the reason for each component left out.
