------------------------------ MODULE FileSinks ------------------------------
(***************************************************************************)
(* spdlog's file sinks (file_sinks.h over file_helper.h and base_sink.h):  *)
(* one file, files rotated by size, files rotated daily.  base_sink's      *)
(* mutex lets one thread log at a time; flush takes no lock.  A failing    *)
(* fopen, fwrite, remove or rename throws, and out of the destructor of    *)
(* line_logger that ends the process: a failure is a crash at that step.   *)
(* The next process finds the files as they were left.                     *)
(***************************************************************************)
EXTENDS Integers, Sequences, SequencesExt, FiniteSets

CONSTANTS
  Kinds,        \* the sinks: "simple", "rotating", "daily"
  MaxFiles, MaxSize,   \* _max_files, _max_size of a rotating sink
  LineSizes,    \* sizes of formatted lines
  Day, RotateAt,       \* minutes of a day, and the one at which a daily sink rotates
  MaxLines, MaxStarts, MaxClock   \* bounds on the lines of a sink, the processes and the time

VARIABLES
  kind, force_flush,   \* the sink and how it was made
  disk,      \* the files: by index, in a daily sink by the minute in the name
  fd,        \* the file that is open, or Closed
  buf,       \* lines in the buffer of stdio
  size,      \* _current_size
  tp,        \* _rotation_tp
  work,      \* the log call that has the mutex
  clock,     \* minutes
  starts,    \* processes started
  logged,    \* the lines whose call returned, but for those a crash lost in buf
  torn       \* a rotation time passed while a daily sink was rotating

fileVars == <<kind, force_flush, disk, fd, buf, size, tp, work, clock, starts, logged, torn>>

Closed == -1
Down == [step |-> "down"]   \* no process
Idle == [step |-> "idle"]
Step(s) == work.step = s
GoOn(s) == work' = [work EXCEPT !.step = s]

FileTypeOK ==
  /\ kind \in Kinds /\ force_flush \in BOOLEAN /\ torn \in BOOLEAN
  /\ DOMAIN disk \subseteq 0..(IF kind = "daily" THEN MaxClock ELSE MaxFiles)
  /\ fd \in DOMAIN disk \cup {Closed} /\ (fd = Closed => buf = <<>>)
  /\ size \in Nat /\ tp \in Nat /\ clock \in 0..MaxClock /\ starts \in 0..MaxStarts

FileInit ==
  /\ kind \in Kinds /\ force_flush \in BOOLEAN
  /\ disk = [n \in {} |-> <<>>]
  /\ fd = Closed /\ buf = <<>> /\ size = 0 /\ tp = 0
  /\ work = Down /\ clock = 0 /\ starts = 0 /\ logged = <<>> /\ torn = FALSE

\* Files are added, or removed, in a function whose domain is their names.
Put(n, lines) == [m \in DOMAIN disk \cup {n} |-> IF m = n THEN lines ELSE disk[m]]
Without(n) == [m \in DOMAIN disk \ {n} |-> disk[m]]
SizeOf(lines) == FoldLeft(LAMBDA z, l : z + l.size, 0, lines)
Flushed == IF fd = Closed THEN disk ELSE Put(fd, disk[fd] \o buf)

-----------------------------------------------------------------------------
(* file_helper, and the names of the files.                                *)

\* calc_filename: a rotating sink's of an index, a daily sink's with the minute.
IndexedName(i) == i
DatedName == clock
FileName == IF kind = "daily" THEN DatedName ELSE IndexedName(0)

_next_rotation_tp(t) ==
  LET r == (t \div Day) * Day + RotateAt IN IF r > t THEN r ELSE r + Day

open(truncate) ==
  /\ disk' = Put(FileName, IF truncate \/ FileName \notin DOMAIN disk THEN <<>> ELSE disk[FileName])
  /\ fd' = FileName

-----------------------------------------------------------------------------
(* A process makes the sink; in a daily one the next rotation comes first. *)

Start ==
  /\ Step("down") /\ starts < MaxStarts
  /\ starts' = starts + 1
  /\ tp' = _next_rotation_tp(clock)
  /\ work' = [step |-> "construct"]
  /\ UNCHANGED <<kind, force_flush, disk, fd, buf, size, clock, logged, torn>>

Construct ==
  /\ Step("construct") /\ open(FALSE)
  /\ size' = IF kind = "rotating" THEN SizeOf(disk'[fd']) ELSE size
  /\ work' = Idle
  /\ UNCHANGED <<kind, force_flush, buf, tp, clock, starts, logged, torn>>

-----------------------------------------------------------------------------
(* log: _sink_it under the mutex.                                          *)

_sink_it(z) ==
  /\ Step("idle") /\ Len(logged) < MaxLines[kind]
  /\ size' = IF kind = "rotating" THEN size + z ELSE size
  /\ LET rotate == \/ kind = "rotating" /\ size + z > MaxSize
                   \/ kind = "daily" /\ clock >= tp
     IN work' = [step |-> IF rotate THEN "close" ELSE "write", i |-> MaxFiles,
                 line |-> [id |-> Len(logged) + 1, size |-> z, at |-> clock]]
  /\ UNCHANGED <<kind, force_flush, disk, fd, buf, tp, clock, starts, logged, torn>>

close ==
  /\ Step("close")
  /\ disk' = Flushed /\ buf' = <<>> /\ fd' = Closed
  /\ GoOn(IF kind = "rotating" /\ work.i > 0 THEN "remove" ELSE "open")
  /\ UNCHANGED <<kind, force_flush, size, tp, clock, starts, logged, torn>>

\* _rotate, from the last file to the first: target is removed, src renamed to it.
remove ==
  /\ Step("remove")
  /\ disk' = Without(work.i) /\ GoOn("rename")
  /\ UNCHANGED <<kind, force_flush, fd, buf, size, tp, clock, starts, logged, torn>>

Shift(i, j) ==
  IF i \notin DOMAIN disk THEN disk
  ELSE [m \in (DOMAIN disk \ {i}) \cup {j} |-> IF m = j THEN disk[i] ELSE disk[m]]
\* Slip: the loop ends one file early.
renameSlip ==
  /\ Step("rename")
  /\ disk' = Shift(work.i - 1, work.i)
  /\ work' = [work EXCEPT !.i = @ - 1, !.step = IF work.i <= 2 THEN "open" ELSE "remove"]
  /\ UNCHANGED <<kind, force_flush, fd, buf, size, tp, clock, starts, logged, torn>>
rename ==
  /\ Step("rename")
  /\ disk' = Shift(work.i - 1, work.i)
  /\ work' = [work EXCEPT !.i = @ - 1, !.step = IF work.i = 1 THEN "open" ELSE "remove"]
  /\ UNCHANGED <<kind, force_flush, fd, buf, size, tp, clock, starts, logged, torn>>

\* reopen(true) of a rotating sink, open of a daily one.
reopen ==
  /\ Step("open") /\ open(kind = "rotating")
  /\ size' = IF kind = "rotating" THEN work.line.size ELSE size
  /\ GoOn(IF kind = "daily" THEN "next" ELSE "write")
  /\ UNCHANGED <<kind, force_flush, buf, tp, clock, starts, logged, torn>>

NextRotation ==
  /\ Step("next")
  /\ tp' = _next_rotation_tp(clock) /\ GoOn("write")
  /\ torn' = (torn \/ tp' # _next_rotation_tp(work.line.at))
  /\ UNCHANGED <<kind, force_flush, disk, fd, buf, size, clock, starts, logged>>

write ==
  /\ Step("write")
  /\ buf' = Append(buf, work.line) /\ logged' = Append(logged, work.line)
  /\ work' = IF force_flush THEN [step |-> "fflush"] ELSE Idle
  /\ UNCHANGED <<kind, force_flush, disk, fd, size, tp, clock, starts, torn>>

ForcedFlush ==
  /\ Step("fflush")
  /\ disk' = Flushed /\ buf' = <<>> /\ work' = Idle
  /\ UNCHANGED <<kind, force_flush, fd, size, tp, clock, starts, logged, torn>>

-----------------------------------------------------------------------------
(* Beside the mutex.                                                       *)

\* flush, by any thread at any time; stdio also flushes a full buffer.  (On a
\* file that a rotation is closing, fflush is undefined: it does nothing, or the
\* process crashes.)
flush ==
  /\ fd # Closed /\ buf # <<>>
  /\ disk' = Flushed /\ buf' = <<>>
  /\ UNCHANGED <<kind, force_flush, fd, size, tp, work, clock, starts, logged, torn>>

\* ~file_helper at the end of the process.
Exit ==
  /\ Step("idle")
  /\ disk' = Flushed /\ buf' = <<>> /\ fd' = Closed /\ work' = Down
  /\ UNCHANGED <<kind, force_flush, size, tp, clock, starts, logged, torn>>

Crash ==
  /\ ~Step("down")
  /\ buf' = <<>> /\ fd' = Closed /\ work' = Down
  /\ logged' = SubSeq(logged, 1, Len(logged) - Len(buf))
  /\ UNCHANGED <<kind, force_flush, disk, size, tp, clock, starts, torn>>

Tick ==
  /\ kind = "daily" /\ clock < MaxClock
  /\ clock' = clock + 1
  /\ UNCHANGED <<kind, force_flush, disk, fd, buf, size, tp, work, starts, logged, torn>>

FileNext ==
  \/ Start \/ Construct \/ close \/ remove \/ rename
  \/ \E z \in (IF kind = "rotating" THEN LineSizes ELSE {1}) : _sink_it(z)
  \/ reopen \/ NextRotation \/ write \/ ForcedFlush \/ flush \/ Exit \/ Crash \/ Tick

-----------------------------------------------------------------------------
(* Properties.                                                             *)

\* What the files hold, from the oldest to the newest, and after it the buffer.
OldestFirst ==
  LET N == SetToSortSeq(DOMAIN disk, LAMBDA m, n : IF kind = "daily" THEN m < n ELSE m > n)
  IN FlattenSeq([i \in 1..Len(N) |-> disk[N[i]]]) \o buf

\* The variables have their types.
\* The files keep the lines in the order logged and without a gap, at every step
\* of a rotation and after a crash or a failure at any step: a rotating sink loses
\* lines only at the old end, and until the first crash only when all its files
\* are in use; the others lose none (a crash costs what is in the buffer).  A file
\* of a rotating sink is no larger than _max_size, but for a single line that is,
\* and a file of a daily sink has lines of one day (from one rotation time to the
\* next), unless that time passed while the sink was rotating.
FilesKeep ==
  LET Missing == Len(logged) - Len(OldestFirst)
  IN /\ FileTypeOK
     /\ Missing >= 0 /\ OldestFirst = SubSeq(logged, Missing + 1, Len(logged))
     /\ kind # "rotating" => Missing = 0
     /\ starts = 1 /\ Step("idle") /\ Missing > 0 =>
          \A i \in 1..MaxFiles : i \in DOMAIN disk /\ disk[i] # <<>>
     /\ \A n \in DOMAIN disk :
          LET lines == disk[n] \o (IF n = fd THEN buf ELSE <<>>) IN
          /\ kind = "rotating" => Len(lines) <= 1 \/ SizeOf(lines) <= MaxSize
          /\ kind = "daily" /\ ~torn =>
               \A i \in 1..Len(lines) : (lines[i].at - RotateAt) \div Day = (n - RotateAt) \div Day
=============================================================================
