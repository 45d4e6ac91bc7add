---------------------------- MODULE SpeakerSink ----------------------------
(***************************************************************************)
(* The sink of market frames (ops/speaker_sink.py): the frames' thread of  *)
(* auth/worker.py hands each frame to a bounded queue that drops the       *)
(* oldest, and a writer thread appends them to rotating files.             *)
(*                                                                         *)
(* A frame is its number; files are in the order of their modification     *)
(* times and of as many rows as max_bytes holds.  A failed or interrupted  *)
(* write may leave part of a row.                                          *)
(***************************************************************************)
EXTENDS Integers, Sequences, FiniteSets, SequencesExt

CONSTANTS
    QueueSize, FileRows, KeepFiles,  \* queue_size, max_bytes (in rows), keep_files
    MaxFrames, MaxErrors, MaxLives   \* bounds: frames and errors of a process, processes

ASSUME SinkConstants == \A n \in {QueueSize, FileRows, KeepFiles} : n \in Nat \ {0}

VARIABLES
    frame,      \* seq of speaker_frames: the newest frame
    producer,   \* "ready", or "signals" between the lock and the event
    backlog,    \* _queue
    wake, stopped, \* the events _wake and _stop
    writer,     \* "waits", "clears", "drains", "writes", "ended"
    final,      \* the writer has left its loop for the last drain
    held,       \* the frame popped and not yet written, or 0
    path,       \* _path is set
    open,       \* the file at _path exists; it is the last of files
    inFile,     \* _written
    files,      \* the directory
    stats,      \* written, dropped and errors of stats
    life,       \* history: the number of the process
    spared,     \* history: the errors that cost no frame
    cut,        \* history: the last drain was ended by an error
    pruned      \* history: the last rotation of this process removed what it should

countVars == <<stats, spared>>
diskVars  == <<path, open, inFile, files, pruned>>
sinkVars  == <<frame, producer, backlog, wake, stopped, writer, final, held, diskVars, countVars, life, cut>>

Line(whole) == [life |-> life, frame |-> held, whole |-> whole]
Error      == stats' = [stats EXCEPT !.errors = @ + 1]

\* Errors so far, that of a start without a directory aside.
Errors == stats.errors - (IF path THEN 0 ELSE 1)

----------------------------------------------------------------------------
(***************************************************************************)
(* The frames' thread and the callers of stop() and flush().               *)
(***************************************************************************)

\* build_frame raises: the number is spent.
BuildFails ==
    /\ producer = "ready" /\ frame < MaxFrames /\ Errors < MaxErrors
    /\ frame' = frame + 1
    /\ Error
    /\ UNCHANGED <<producer, backlog, wake, stopped, writer, final, held, diskVars, spared, life, cut>>

Full == Len(backlog) = QueueSize

Room == IF Full THEN Tail(backlog) ELSE backlog

\* Under the lock: the oldest makes room for the newest.
Offer ==
    /\ producer = "ready" /\ frame < MaxFrames
    /\ frame' = frame + 1
    /\ backlog' = Append(Room, frame + 1)
    /\ stats' = [stats EXCEPT !.dropped = IF Full THEN @ + 1 ELSE @]
    /\ producer' = "signals"
    /\ UNCHANGED <<wake, stopped, writer, final, held, diskVars, spared, life, cut>>

Signal ==
    /\ producer = "signals"
    /\ producer' = "ready" /\ wake' = TRUE
    /\ UNCHANGED <<frame, backlog, stopped, writer, final, held, diskVars, countVars, life, cut>>

Stop ==
    /\ ~stopped
    /\ stopped' = TRUE /\ wake' = TRUE
    /\ UNCHANGED <<frame, producer, backlog, writer, final, held, diskVars, countVars, life, cut>>

Flush ==
    /\ ~wake
    /\ wake' = TRUE
    /\ UNCHANGED <<frame, producer, backlog, stopped, writer, final, held, diskVars, countVars, life, cut>>

----------------------------------------------------------------------------
(***************************************************************************)
(* The writer.                                                             *)
(***************************************************************************)

\* The event, or a second without it.
Wakes ==
    /\ writer = "waits"
    /\ writer' = "clears"
    /\ UNCHANGED <<frame, producer, backlog, wake, stopped, final, held, diskVars, countVars, life, cut>>

Clears ==
    /\ writer = "clears"
    /\ writer' = "drains" /\ wake' = FALSE /\ cut' = FALSE
    /\ UNCHANGED <<frame, producer, backlog, stopped, final, held, diskVars, countVars, life>>

\* The drain returns to the loop, which looks at the stop event.
Returns ==
    /\ writer' = IF final THEN "ended" ELSE IF stopped THEN "drains" ELSE "waits"
    /\ final' = (final \/ stopped)

Drained ==
    /\ writer = "drains" /\ backlog = <<>>
    /\ Returns
    /\ UNCHANGED <<frame, producer, backlog, wake, stopped, held, diskVars, countVars, life, cut>>

Takes ==
    /\ writer = "drains" /\ backlog # <<>>
    /\ held' = Head(backlog) /\ backlog' = Tail(backlog)
    /\ writer' = "writes"
    /\ UNCHANGED <<frame, producer, wake, stopped, final, diskVars, countVars, life, cut>>

\* No directory: the frame is an error and the drain goes on.
WritesNowhere ==
    /\ writer = "writes" /\ ~path /\ Errors < MaxErrors
    /\ Error /\ held' = 0 /\ writer' = "drains"
    /\ UNCHANGED <<frame, producer, backlog, wake, stopped, final, diskVars, spared, life, cut>>

Excess == Len(files) - KeepFiles

Rotates == inFile >= FileRows

\* _rotate: what is left of the directory, one unlink after the other, the first
\* that fails ending them.
Leftovers ==
    IF ~Rotates THEN {[files |-> files, errors |-> 0]}
    ELSE LET Left(n) == SubSeq(files, n + 1, Len(files))
         IN  {[files |-> IF Excess > 0 THEN Left(Excess) ELSE files, errors |-> 0]}
               \cup {[files |-> Left(n), errors |-> 1] : n \in 0 .. (Excess - 1)}

\* The directory with one more row in the current file, which open() creates.
Grown(left, rows) ==
    IF open /\ ~Rotates THEN Append(Front(left), Last(left) \o rows) ELSE Append(left, rows)

\* Partway through a write, after its rotation if it was due.
Opened(left, rows) ==
    /\ files' = Grown(left.files, rows)
    /\ open' = TRUE
    /\ pruned' = IF Rotates THEN left.errors = 0 ELSE pruned
    /\ spared' = spared + left.errors

WriteSucceeds ==
    /\ writer = "writes" /\ path
    /\ \E left \in Leftovers :
          /\ Errors + left.errors <= MaxErrors
          /\ Opened(left, <<Line(TRUE)>>)
          /\ stats' = [stats EXCEPT !.written = @ + 1, !.errors = @ + left.errors]
    /\ inFile' = IF Rotates THEN 1 ELSE inFile + 1
    /\ held' = 0 /\ writer' = "drains"
    /\ UNCHANGED <<frame, producer, backlog, wake, stopped, final, path, life, cut>>

\* What the queue holds after an error: the frame that was popped is gone.
\* Fault: it is put back.
FaultAfterError == <<held>> \o backlog

AfterError == backlog

\* The frame cannot be written as JSON, or the file not opened or written.
WriteFails ==
    /\ writer = "writes" /\ path /\ Errors < MaxErrors
    /\ \/ Error /\ UNCHANGED <<diskVars, spared>>
       \/ \E left \in Leftovers, rows \in {<<>>, <<Line(FALSE)>>} :
             /\ Errors + left.errors < MaxErrors
             /\ Opened(left, rows)
             /\ stats' = [stats EXCEPT !.errors = @ + left.errors + 1]
             /\ inFile' = IF Rotates THEN 0 ELSE inFile
             /\ UNCHANGED path
    /\ held' = 0 /\ backlog' = AfterError /\ cut' = TRUE
    /\ Returns
    /\ UNCHANGED <<frame, producer, wake, stopped, life>>

----------------------------------------------------------------------------
\* The process ends with its daemon threads, in a write anywhere between its first
\* unlink and its row, and the next one starts.
Restarts ==
    /\ life < MaxLives
    /\ life' = life + 1
    /\ \/ UNCHANGED files
       \/ /\ writer = "writes" /\ path
          /\ \E left \in Leftovers, rows \in {<<>>, <<Line(FALSE)>>, <<Line(TRUE)>>} :
                files' = Grown(left.files, rows)
    /\ path' \in BOOLEAN
    /\ stats' = [written |-> 0, dropped |-> 0, errors |-> IF path' THEN 0 ELSE 1]
    /\ spared' = stats'.errors
    /\ frame' = 0 /\ producer' = "ready" /\ backlog' = <<>> /\ held' = 0
    /\ wake' = FALSE /\ stopped' = FALSE /\ writer' = "waits" /\ final' = FALSE
    /\ open' = FALSE /\ inFile' = 0 /\ pruned' = FALSE /\ cut' = FALSE

SinkInit ==
    /\ life = 1 /\ files = <<>> /\ path \in BOOLEAN
    /\ stats = [written |-> 0, dropped |-> 0, errors |-> IF path THEN 0 ELSE 1]
    /\ spared = stats.errors
    /\ frame = 0 /\ producer = "ready" /\ backlog = <<>> /\ held = 0
    /\ wake = FALSE /\ stopped = FALSE /\ writer = "waits" /\ final = FALSE
    /\ open = FALSE /\ inFile = 0 /\ pruned = FALSE /\ cut = FALSE

SinkNext ==
    \/ BuildFails \/ Offer \/ Signal \/ Stop \/ Flush
    \/ Wakes \/ Clears \/ Drained \/ Takes
    \/ WritesNowhere \/ WriteSucceeds \/ WriteFails \/ Restarts

SinkSpec == SinkInit /\ [][SinkNext]_sinkVars

----------------------------------------------------------------------------
(***************************************************************************)
(* Properties.                                                             *)
(***************************************************************************)

SinkTypeOK ==
    /\ {frame, held, inFile, spared, life} \subseteq Nat
    /\ producer \in {"ready", "signals"}
    /\ writer \in {"waits", "clears", "drains", "writes", "ended"}
    /\ {wake, stopped, final, path, open, cut, pruned} \subseteq BOOLEAN
    /\ Len(backlog) <= QueueSize
    /\ stats \in [written : Nat, dropped : Nat, errors : Nat]
    /\ held # 0 <=> writer = "writes"
    /\ open => files # <<>>

\* Every frame that was numbered is written, dropped, an error, waiting or held.
FramesAreAccounted ==
    frame = stats.written + stats.dropped + (stats.errors - spared)
              + Len(backlog) + (IF held = 0 THEN 0 ELSE 1)

\* The rows on disk, and the order they were written in.
RowsOf(fs)    == UNION {ToSet(f) : f \in ToSet(fs)}
Earlier(r, s) == r.life < s.life \/ (r.life = s.life /\ r.frame < s.frame)

InOrder(fs) ==
    \A i, j \in DOMAIN fs : \A a \in DOMAIN fs[i], b \in DOMAIN fs[j] :
        i < j \/ (i = j /\ a < b) => Earlier(fs[i][a], fs[j][b])

\* Frames reach the disk in the order of their numbers and no frame twice, rows of an
\* earlier process before those of a later one; what is held comes next, then what waits.
RowsInOrder ==
    /\ InOrder(files)
    /\ \A r \in RowsOf(files), n \in ToSet(backlog) \cup ({held} \ {0}) :
          r.life = life => r.frame < n
    /\ \A i, j \in DOMAIN backlog : i < j => backlog[i] < backlog[j]
    /\ \A i \in DOMAIN backlog : held < backlog[i]

\* Only older frames are dropped: with no error, the newest frame is on disk.
NewestIsWritten ==
    (stats.errors = 0 /\ frame > 0 /\ backlog = <<>> /\ held = 0)
      => [life |-> life, frame |-> frame, whole |-> TRUE] \in RowsOf(files)

\* The rows of a file that were written to their end.
WholeRows(f) == {a \in DOMAIN f : f[a].whole}

\* A rotation bounds the directory, and a file is no longer than its bound.
DirectoryIsBounded ==
    /\ pruned => Len(files) <= KeepFiles + 1
    /\ \A i \in DOMAIN files : Cardinality(WholeRows(files[i])) <= FileRows

\* No wake-up is lost: the writer goes to wait over a frame with the event clear
\* only where an error ended its drain; the second's time-out is for that alone.
NoFrameWaits ==
    (writer = "waits" /\ backlog # <<>> /\ ~wake) => producer = "signals" \/ cut

\* Whatever the disk, the queue and the producer do to each other, the counters add
\* up, the rows are in order, the newest frame gets through, the directory stays
\* bounded and no wake-up is lost (ops/speaker_sink.py:74-149).
SinkIsHonest ==
    /\ FramesAreAccounted /\ RowsInOrder /\ NewestIsWritten
    /\ DirectoryIsBounded /\ NoFrameWaits
=============================================================================
