---------------------------- MODULE AudienceTail ----------------------------
(***************************************************************************)
(* The tail of the audience log (oracle.director.gamechanger) and the      *)
(* Director's window of event ids.                                         *)
(*                                                                         *)
(* Another program writes lines into the newest of several files; a line   *)
(* reaches the disk in two halves.  The tail follows the newest file by    *)
(* position, keeps an unfinished half, and starts a file it has not        *)
(* attached to at its beginning.  The writer may empty a file and write it *)
(* anew: an event is a file, a generation of it and a line number.         *)
(***************************************************************************)
EXTENDS Integers, Sequences, FiniteSets, SequencesExt

CONSTANTS
    Logs,           \* log files
    MaxLines,       \* bound: lines written to one generation of a file
    WithId,         \* the lines that carry an event id, as files and line numbers
    Stamped,        \* the lines that say when they were written
    Overlong,       \* the lines whose first half is longer than what pending keeps (65536)
    Chunk,          \* half-lines read in one poll (131072 bytes)
    MaxIds,         \* ids the Director remembers (5000)
    MaxRotations,   \* bound: times the writer goes to another file or empties its own
    MaxTruncations  \* bound: times it empties one file

NoFile == "no file"

ASSUME TailConstants ==
    /\ MaxLines \in Nat \ {0} /\ MaxRotations \in Nat /\ MaxTruncations \in Nat
    /\ Chunk \in Nat \ {0} /\ MaxIds \in Nat
    /\ NoFile \notin Logs

VARIABLES
    halves,         \* half-lines in each file
    generation,     \* how often each file was emptied
    aged,           \* lines of each file written more than 30 s ago
    newest,         \* the file with the latest modification time
    rotations,
    following,      \* self.file
    position,       \* self.position
    kept,           \* self.pending holds the first half of the line at the position
    initial,        \* self.initial
    eventIds,       \* Director.event_ids
    counted,        \* history: how often each event took effect
    tooOld,         \* history: the events dropped for their age
    passed          \* history: half-lines of each file its reading began behind

logVars   == <<halves, generation, aged, newest, rotations>>
pollVars  == <<following, position, kept, initial, eventIds, counted, tooOld>>
tailVars  == <<logVars, pollVars, passed>>

Events == Logs \X (0 .. MaxTruncations) \X (1 .. MaxLines)

Write ==
    /\ halves[newest] < 2 * MaxLines
    /\ halves' = [halves EXCEPT ![newest] = @ + 1]
    /\ UNCHANGED <<generation, aged, newest, rotations, pollVars, passed>>

\* The writer goes on in another file, between two lines.
Rotate(f) ==
    /\ rotations < MaxRotations /\ f # newest /\ halves[newest] % 2 = 0
    /\ rotations' = rotations + 1
    /\ newest' = f
    /\ UNCHANGED <<halves, generation, aged, pollVars, passed>>

\* The writer empties its file.  What the tail keeps is no half of a line to come,
\* and it goes on at its position unless it sees the file shorter than that.
Truncate ==
    /\ rotations < MaxRotations /\ generation[newest] < MaxTruncations /\ halves[newest] > 0
    /\ rotations' = rotations + 1
    /\ generation' = [generation EXCEPT ![newest] = @ + 1]
    /\ halves' = [halves EXCEPT ![newest] = 0]
    /\ aged' = [aged EXCEPT ![newest] = 0]
    /\ kept' = (kept /\ following # newest)
    /\ passed' = [passed EXCEPT ![newest] = IF following = newest THEN position ELSE 0]
    /\ UNCHANGED <<newest, following, position, initial, eventIds, counted, tooOld>>

\* The oldest young line of a file turns 30 s old.
Age(f) ==
    /\ 2 * aged[f] < halves[f]
    /\ aged' = [aged EXCEPT ![f] = @ + 1]
    /\ UNCHANGED <<halves, generation, newest, rotations, pollVars, passed>>
-----------------------------------------------------------------------------
(* poll(): look for a newer file once a second, then read a chunk.         *)

\* Fault: the end of a new file is where its reading starts.
FaultStart(f) == halves[f]

\* Existing lines are skipped on attachment, and only then.
Start(f) == IF initial THEN halves[f] ELSE 0

Newer == following # newest

Scan ==
    /\ Newer
    /\ following' = newest
    /\ position' = Start(newest)
    /\ kept' = FALSE
    /\ initial' = FALSE
    /\ passed' = IF initial THEN [passed EXCEPT ![newest] = halves[newest]] ELSE passed
    /\ UNCHANGED <<logVars, eventIds, counted, tooOld>>

\* A file shorter than the position is read from its beginning, nothing kept.
Shorter == halves[following] < position
From    == IF Shorter THEN 0 ELSE position
StillKept == kept /\ ~Shorter

Until == LET end == From + Chunk IN IF end < halves[following] THEN end ELSE halves[following]

\* Line k ends in this chunk, and its first half is in it or was kept.
Complete(k) == 2 * k > From /\ 2 * k <= Until /\ (2 * k - 1 > From \/ StillKept)

\* Its stamp is more than 30 s from the time of this poll.
TooOld(k) == <<following, k>> \in Stamped /\ k <= aged[following]

IsTaken(k) == Complete(k) /\ ~TooOld(k)

EventOf(k) == <<following, generation[following], k>>

\* deque(maxlen): the oldest id leaves.
Window(q) == IF Len(q) > MaxIds THEN Tail(q) ELSE q

\* Director.ingest(): an id of the window is answered with False, another takes
\* effect; a line without an id takes effect whenever it is read.
TakeLine(s, k) ==
    IF <<following, k>> \in WithId /\ Contains(s.ids, EventOf(k)) THEN s
    ELSE [ids    |-> IF <<following, k>> \in WithId THEN Window(Append(s.ids, EventOf(k))) ELSE s.ids,
          counts |-> [s.counts EXCEPT ![EventOf(k)] = @ + 1]]

\* The complete lines of the chunk, one after the other: the window moves between two.
ChunkTaken ==
    LET After[k \in 0 .. MaxLines] ==
            IF k = 0 THEN [ids |-> eventIds, counts |-> counted]
            ELSE IF IsTaken(k) THEN TakeLine(After[k - 1], k)
            ELSE After[k - 1]
    IN After[MaxLines]

\* The half kept for the next poll is the whole first half, but of a line too long.
KeepsHalf ==
    /\ Until % 2 = 1 /\ (Until - 1 >= From \/ StillKept)
    /\ <<following, (Until + 1) \div 2>> \notin Overlong

Read ==
    /\ following # NoFile /\ position # halves[following]
    /\ eventIds' = ChunkTaken.ids
    /\ counted' = ChunkTaken.counts
    /\ tooOld' = tooOld \union {EventOf(k) : k \in {i \in 1 .. MaxLines : Complete(i) /\ TooOld(i)}}
    /\ position' = Until
    /\ kept' = KeepsHalf
    /\ passed' = [passed EXCEPT ![following] = IF Shorter THEN 0 ELSE @]
    /\ UNCHANGED <<logVars, following, initial>>
-----------------------------------------------------------------------------
TailInit ==
    /\ halves \in [Logs -> 0 .. 1] /\ newest \in Logs /\ rotations = 0
    /\ generation = [f \in Logs |-> 0] /\ aged = [f \in Logs |-> 0]
    /\ following = NoFile /\ position = 0 /\ kept = FALSE /\ initial = TRUE
    /\ eventIds = <<>> /\ counted = [e \in Events |-> 0] /\ tooOld = {}
    /\ passed = [f \in Logs |-> 0]

TailNext == Write \/ Truncate \/ Scan \/ Read \/ \E f \in Logs : Rotate(f) \/ Age(f)

TailSpec == TailInit /\ [][TailNext]_tailVars
-----------------------------------------------------------------------------
(* Properties.                                                             *)

HasId(e) == <<e[1], e[3]>> \in WithId

Counted == {e \in Events : HasId(e) /\ counted[e] > 0}

\* No message that carries an id counts twice, though a file that becomes the newest
\* again is read from its beginning, until more of them counted than ids are remembered.
NothingCountsTwice ==
    Cardinality(Counted) <= MaxIds => \A e \in Events : HasId(e) => counted[e] <= 1

\* No line is skipped: when one counts, those before it in the file have, but for the
\* ones too old when they were read, the ones whose half was too long to keep, and the
\* ones the reading began behind, at the attachment or since the file was emptied and
\* had grown beyond the position before the next poll.
NoLineIsSkipped ==
    \A f \in Logs, i, j \in 1 .. MaxLines :
        LET event(k) == <<f, generation[f], k>> IN
        (i < j /\ counted[event(j)] > 0 /\ 2 * i - 1 > passed[f]
               /\ <<f, i>> \notin Overlong /\ event(i) \notin tooOld)
            => counted[event(i)] > 0

\* A young line of the audience's log counts once and in its turn.
EveryLineOnce == NothingCountsTwice /\ NoLineIsSkipped
=============================================================================
