----------------------------- MODULE LedgerFile -----------------------------
(***************************************************************************)
(* The file under the call ledger: analysis-calls.jsonl, the engine        *)
(* processes that append to it one at a time (the writer lock taken by     *)
(* CandidateService), and what a start finds after a crash, a power loss,  *)
(* a failed write, or a close() that gave up on its thread.                *)
(*                                                                         *)
(* The file is a sequence of lines, one event each.  A ledger in memory is *)
(* the replay of the lines its process has applied; the same validation    *)
(* guards an append and a load.  The durable part of the file, replayed,   *)
(* implements CallLedger (DurableLedger below).                            *)
(***************************************************************************)
EXTENDS Integers, Sequences, SequencesExt

CONSTANTS
    Calls, Created, Expires, MinLife, MaxTime,      \* as in CallLedger
    Procs,          \* engine processes, each started at most once
    MaxLines        \* bound: no event is begun beyond this length

NoOne == "no one"

ASSUME FileConstants ==
    /\ NoOne \notin Procs
    /\ MaxLines \in Nat
    /\ MinLife \in Nat /\ MaxTime \in Nat
    /\ Created \in [Calls -> 0 .. MaxTime]
    /\ Expires \in [Calls -> 0 .. MaxTime]
    /\ \A c \in Calls : Created[c] < Expires[c]

VARIABLES
    lines,      \* what a reader of the file sees
    durable,    \* how many of them survive a power loss
    owner,      \* the process whose service holds the writer lock
    proc,       \* life of each process
    step,       \* where its worker stands in _append
    pending,    \* the event being appended
    memory,     \* the events its CallLedger has applied
    acked,      \* history: lines whose append returned
    overrun     \* history: a worker outlived the join of its close()

vars == <<lines, durable, owner, proc, step, pending, memory, acked, overrun>>

Torn == [seq |-> -1]

Ledger(r, b) == INSTANCE CallLedger WITH rows <- r, book <- b

-----------------------------------------------------------------------------
(* Replay: CallLedger.__init__ validates and applies line after line.      *)

EmptyImage == [ok |-> TRUE, length |-> 0, book |-> <<>>,
               rows |-> [c \in Calls |-> Ledger(<<>>, <<>>)!NoRow]]

CreateEvent(c) ==
    [action |-> "CREATE", state |-> "PENDING", at |-> Created[c], covered |-> Created[c],
     reason |-> "ROUTINE", ambiguous |-> FALSE, gap |-> FALSE, trigger |-> FALSE]

\* Fault: only the sequence number is looked at.
FaultAccepts(image, line) == line # Torn /\ line.seq = image.length

\* _validate: the next sequence number, then the rules of the ledger.
Accepts(image, line) ==
    /\ line # Torn
    /\ line.seq = image.length
    /\ IF line.event.action = "CREATE"
         THEN ~Ledger(image.rows, image.book)!Known(line.call)
         ELSE /\ Ledger(image.rows, image.book)!StampOk(line.call, line.event)
              /\ Ledger(image.rows, image.book)!Valid(line.call, line.event)

ApplyLine(image, line) ==
    LET c == line.call  e == line.event
        old == IF e.action = "CREATE" THEN EmptyImage.rows ELSE image.rows
    IN [ok     |-> TRUE,
        length |-> image.length + 1,
        book   |-> IF e.action = "CREATE" THEN Append(image.book, c) ELSE image.book,
        rows   |-> [image.rows EXCEPT ![c] = Ledger(old, <<>>)!Applied(c, e)]]

\* The first refused line raises: nothing after it is read.
ReadLine(image, line) ==
    IF image.ok /\ Accepts(image, line) THEN ApplyLine(image, line)
                                        ELSE [image EXCEPT !.ok = FALSE]

Image(ls) ==
    LET read[n \in 0 .. Len(ls)] == IF n = 0 THEN EmptyImage ELSE ReadLine(read[n - 1], ls[n])
    IN  read[Len(ls)]
-----------------------------------------------------------------------------
(* A process: CandidateService.__init__, the appends of its worker, close. *)

Running(p)  == proc[p] \in {"up", "closing", "released", "failed"}
Threaded(p) == proc[p] \in {"up", "closing", "released"}

\* A fresh engine takes the lock and loads the file; a load that raises, like a
\* lock already taken, leaves no service behind.
Start(p) ==
    /\ proc[p] = "absent"
    /\ owner = NoOne
    /\ Image(lines).ok
    /\ owner' = p
    /\ proc' = [proc EXCEPT ![p] = "up"]
    /\ memory' = [memory EXCEPT ![p] = lines]
    /\ UNCHANGED <<lines, durable, step, pending, acked, overrun>>

\* create, advance and cancel validate the event against memory first.
Begin(p, c, e) ==
    LET line == [seq |-> Len(memory[p]), call |-> c, event |-> e] IN
    /\ Threaded(p) /\ step[p] = "ready"
    /\ Len(memory[p]) < MaxLines
    /\ Accepts(Image(memory[p]), line)
    /\ pending' = [pending EXCEPT ![p] = line]
    /\ step' = [step EXCEPT ![p] = "write"]
    /\ UNCHANGED <<lines, durable, owner, proc, memory, acked, overrun>>

\* A line written after a torn one continues it.
Appended(line) == IF lines # <<>> /\ Last(lines) = Torn THEN lines ELSE Append(lines, line)

\* write and flush: the line reaches the operating system.
Write(p) ==
    /\ Threaded(p) /\ step[p] = "write"
    /\ lines' = Appended(pending[p])
    /\ step' = [step EXCEPT ![p] = "sync"]
    /\ UNCHANGED <<durable, owner, proc, pending, memory, acked, overrun>>

\* The operating system writes back, in order, on its own or for an fsync.
WriteBack ==
    /\ durable < Len(lines)
    /\ durable' = durable + 1
    /\ UNCHANGED <<lines, owner, proc, step, pending, memory, acked, overrun>>

\* Fault: the append does not wait for fsync.
FaultSynced == TRUE

Synced == durable = Len(lines)

\* fsync returned: only now is the event applied and the call answered.
Commit(p) ==
    /\ Threaded(p) /\ step[p] = "sync"
    /\ Synced
    /\ memory' = [memory EXCEPT ![p] = Append(@, pending[p])]
    /\ acked' = acked \cup {pending[p]}
    /\ step' = [step EXCEPT ![p] = "ready"]
    /\ pending' = [pending EXCEPT ![p] = Torn]
    /\ UNCHANGED <<lines, durable, owner, proc, overrun>>

\* An OSError (disk full, device gone) ends the worker: status FAILED.  Before
\* the flush it may leave part of the line, at the fsync all of it.
WriteFails(p) ==
    /\ Threaded(p) /\ step[p] \in {"write", "sync"}
    /\ lines' \in IF step[p] = "write" THEN {lines, Appended(Torn)} ELSE {lines}
    /\ proc' = [proc EXCEPT ![p] = IF proc[p] = "released" THEN "released" ELSE "failed"]
    /\ step' = [step EXCEPT ![p] = "ended"]
    /\ UNCHANGED <<durable, owner, pending, memory, acked, overrun>>

Close(p) ==
    /\ proc[p] \in {"up", "failed"}
    /\ proc' = [proc EXCEPT ![p] = "closing"]
    /\ UNCHANGED <<lines, durable, owner, step, pending, memory, acked, overrun>>

\* The worker ends between two events; an ended thread joins at once.
Joinable(p) == step[p] \in {"ready", "ended"}

Unlock(p) == owner' = IF owner = p THEN NoOne ELSE owner

Join(p) ==
    /\ proc[p] = "closing"
    /\ Joinable(p)
    /\ step' = [step EXCEPT ![p] = IF @ = "ready" THEN "ended" ELSE @]
    /\ proc' = [proc EXCEPT ![p] = "released"]
    /\ Unlock(p)
    /\ UNCHANGED <<lines, durable, pending, memory, acked, overrun>>

\* join(timeout=5) returns with the thread still at work; the lock goes anyway.
JoinTimesOut(p) ==
    /\ proc[p] = "closing" /\ ~Joinable(p)
    /\ proc' = [proc EXCEPT ![p] = "released"]
    /\ overrun' = TRUE
    /\ Unlock(p)
    /\ UNCHANGED <<lines, durable, step, pending, memory, acked>>

\* The process ends or crashes: the daemon thread stops where it is, the lock
\* is released, what was written stays with the operating system.
Exit(p) ==
    /\ Running(p)
    /\ proc' = [proc EXCEPT ![p] = "gone"]
    /\ step' = [step EXCEPT ![p] = "ended"]
    /\ pending' = [pending EXCEPT ![p] = Torn]
    /\ memory' = [memory EXCEPT ![p] = <<>>]
    /\ Unlock(p)
    /\ UNCHANGED <<lines, durable, acked, overrun>>

\* Everything stops; of the tail not written back, nothing or a cut line is left.
PowerLoss ==
    LET kept == SubSeq(lines, 1, durable) IN
    /\ \E p \in Procs : Running(p)
    /\ proc' = [p \in Procs |-> IF Running(p) THEN "gone" ELSE proc[p]]
    /\ step' = [p \in Procs |-> IF Running(p) THEN "ended" ELSE step[p]]
    /\ owner' = NoOne
    /\ lines' \in IF durable < Len(lines) THEN {kept, Append(kept, Torn)} ELSE {lines}
    /\ durable' = Len(lines')
    /\ pending' = [p \in Procs |-> Torn]
    /\ memory' = [p \in Procs |-> <<>>]
    /\ UNCHANGED <<acked, overrun>>
-----------------------------------------------------------------------------
\* What the callers ask for: a new call, the next minute that activates or loses it,
\* or a pending call withdrawn.
Events(image, c) ==
    LET later == Created[c] + 1
        L(state) == Ledger(image.rows, image.book)!AdvanceEvent(state, later, later, "ROUTINE",
                                                               FALSE, FALSE, state = "ACTIVE")
    IN {e \in {CreateEvent(c)} : Ledger(image.rows, image.book)!LongEnough(c)}
       \cup {L("ACTIVE"), L("LOSS"),
             Ledger(image.rows, image.book)!CancelEvent(c, "CANCEL_REASON", later)}

Init ==
    /\ lines = <<>> /\ durable = 0
    /\ owner = NoOne
    /\ proc = [p \in Procs |-> "absent"]
    /\ step = [p \in Procs |-> "ready"]
    /\ pending = [p \in Procs |-> Torn]
    /\ memory = [p \in Procs |-> <<>>]
    /\ acked = {}
    /\ overrun = FALSE

ProcNext(p) ==
    \/ Start(p)
    \/ \E c \in Calls : \E e \in Events(Image(memory[p]), c) : Begin(p, c, e)
    \/ Write(p) \/ Commit(p) \/ WriteFails(p)
    \/ Close(p) \/ Join(p) \/ JoinTimesOut(p) \/ Exit(p)

Next == WriteBack \/ PowerLoss \/ \E p \in Procs : ProcNext(p)

Spec == Init /\ [][Next]_vars
-----------------------------------------------------------------------------
(* Properties.                                                             *)

\* Every variable has its type.
FileTypeOK ==
    /\ \A i \in 1 .. Len(lines) : lines[i] = Torn \/ lines[i].call \in Calls
    /\ durable \in 0 .. Len(lines)
    /\ owner \in Procs \cup {NoOne}
    /\ \A p \in Procs :
         /\ proc[p] \in {"absent", "up", "closing", "released", "failed", "gone"}
         /\ step[p] \in {"ready", "write", "sync", "ended"}

\* Durability: an event whose append returned is at its place in the readable
\* part of the file, whatever stopped the engine since; unless a worker ever
\* outlived its close, when a second writer may have cut the file short.
AckedSurvives ==
    ~overrun => \A line \in acked : /\ line.seq < Image(lines).length
                        /\ lines[line.seq + 1] = line

\* The lock holder's memory is what the file says, but for the one event it is
\* writing: no other process has written behind its back.
OwnerIsCurrent ==
    owner # NoOne /\ ~overrun =>
        /\ IsPrefix(memory[owner], lines)
        /\ Len(lines) - Len(memory[owner]) <= IF step[owner] = "ready" THEN 0 ELSE 1

\* With one writer at a time the only unreadable file is one whose last line
\* was cut, so every line before it is an event the ledger accepted.
UnreadableOnlyIfTorn ==
    ~overrun /\ ~Image(lines).ok => Last(lines) = Torn /\ Image(Front(lines)).ok

\* What a crash, a failed write or another engine leaves of the events, and what
\* the engine that owns them remembers.
FileIsSound == AckedSurvives /\ UnreadableOnlyIfTorn /\ OwnerIsCurrent

\* The durable part of the file, replayed, is a call ledger.
durableImage == Image(SubSeq(lines, 1, durable))

DurableLedger == INSTANCE CallLedger WITH rows <- durableImage.rows,
                                          book <- durableImage.book

\* Appends, crashes, losses and reloads never do to the calls on disk what the
\* ledger's operations would not: DurableLedger!LedgerSpec, its stutter tested first.
ImplementsLedger ==
    /\ DurableLedger!LedgerInit
    /\ [][UNCHANGED <<durableImage.rows, durableImage.book>> \/ DurableLedger!LedgerNext]_vars
-----------------------------------------------------------------------------
(* A statement of the repository that the code does not meet.              *)

\* LEDGER_WRITER_ACTIVE, "Another ORACLE engine still owns this account ledger"
\* (candidate_service.py): a process with a worker still at work owns it.
OneWriter ==
    \A p, q \in Procs : /\ Threaded(p) /\ step[p] # "ended"
                        /\ Threaded(q) /\ step[q] # "ended"
                        => p = q
=============================================================================
