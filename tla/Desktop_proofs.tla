--------------------------- MODULE Desktop_proofs ---------------------------
(***************************************************************************)
(* The two parts of MCDesktop: the file under the call ledger, for any     *)
(* calls, any number of engine processes and any length of the file; and   *)
(* the desktop with its engine processes, for any accounts, any number of  *)
(* engines and requests, and any faults.                                   *)
(*                                                                         *)
(* The file (LedgerFile) has two invariants.  The first relates what a     *)
(* worker remembers and writes to what it would find in the file, and      *)
(* holds even of a worker that outlived its close: it makes every accepted *)
(* line a step of the ledger.  The second says what the lock gives while   *)
(* no worker outlives its close.                                           *)
(*                                                                         *)
(* The desktop (Session): the queues of the attached engine hold exactly   *)
(* the requests that are not settled, in the order of their numbers.       *)
(* While the operator cannot ask for a switch during a switch, a login     *)
(* window is open only when no session is, so an engine is asked to log in *)
(* before it is asked for a chart and never after.                         *)
(*                                                                         *)
(* The last theorems put the desktop beside the file its engines write.    *)
(***************************************************************************)
EXTENDS MCDesktop, NatSetFacts

-----------------------------------------------------------------------------
(* Replay, line after line.                                                *)

\* The images of the first n lines.
Reading(ls, n, f) ==
    f = [k \in 0 .. n |-> IF k = 0 THEN EmptyImage ELSE ReadLine(f[k - 1], ls[k])]

LEMMA ReadingExists ==
    ASSUME NEW ls, NEW n \in Nat
    PROVE  \E f : Reading(ls, n, f)
<1> DEFINE S == {m \in Nat : \E f : Reading(ls, m, f)}
<1>1. 0 \in S
  <2> DEFINE f == [k \in 0 .. 0 |-> EmptyImage]
  <2>1. Reading(ls, 0, f)
    BY DEF Reading
  <2> QED BY <2>1
<1>2. ASSUME NEW m \in S
      PROVE  m + 1 \in S
  <2>1. PICK f : Reading(ls, m, f)
    OBVIOUS
  <2> DEFINE g == [k \in 0 .. m + 1 |-> IF k = m + 1 THEN ReadLine(f[m], ls[k]) ELSE f[k]]
  <2>2. ASSUME NEW k \in 0 .. m + 1
        PROVE  g[k] = IF k = 0 THEN EmptyImage ELSE ReadLine(g[k - 1], ls[k])
    <3>1. CASE k = m + 1
      BY <3>1
    <3>2. CASE k \in 1 .. m
      <4>1. f[k] = ReadLine(f[k - 1], ls[k])
        BY <2>1, <3>2 DEF Reading
      <4>2. g[k] = f[k] /\ g[k - 1] = f[k - 1]
        BY <3>2
      <4> QED BY <3>2, <4>1, <4>2
    <3>3. CASE k = 0
      BY <2>1, <3>3 DEF Reading
    <3> QED BY <3>1, <3>2, <3>3
  <2>3. Reading(ls, m + 1, g)
    BY <2>2 DEF Reading
  <2> QED BY <2>3
<1> HIDE DEF S
<1>3. S = Nat
  BY <1>1, <1>2, SetInduction DEF S
<1> QED BY <1>3 DEF S

\* Two readings of the same lines agree.
LEMMA ReadingsAgree ==
    ASSUME NEW ls, NEW n \in Nat, NEW f, Reading(ls, n, f),
           NEW ks, NEW m \in Nat, NEW g, Reading(ks, m, g),
           n <= m, \A k \in 1 .. n : ks[k] = ls[k]
    PROVE  \A k \in 0 .. n : f[k] = g[k]
<1> DEFINE S == {k \in Nat : k <= n => f[k] = g[k]}
<1>1. 0 \in S
  BY DEF Reading
<1>2. ASSUME NEW k \in S
      PROVE  k + 1 \in S
  <2>1. CASE k + 1 <= n
    <3>1. f[k + 1] = ReadLine(f[k], ls[k + 1]) /\ g[k + 1] = ReadLine(g[k], ks[k + 1])
      BY <2>1 DEF Reading
    <3>2. f[k] = g[k] /\ ls[k + 1] = ks[k + 1]
      BY <2>1
    <3> QED BY <3>1, <3>2
  <2>2. CASE ~(k + 1 <= n)
    BY <2>2
  <2> QED BY <2>1, <2>2
<1>3. S = Nat
  <2> HIDE DEF S
  <2> QED BY <1>1, <1>2, SetInduction DEF S
<1> QED BY <1>3

LEMMA ImageOfReading ==
    ASSUME NEW X, NEW ls \in Seq(X), NEW f, Reading(ls, Len(ls), f)
    PROVE  Image(ls) = f[Len(ls)]
<1> DEFINE g == CHOOSE h : Reading(ls, Len(ls), h)
<1>1. Image(ls) = g[Len(ls)]
  BY DEF Image, Reading
<1>2. Reading(ls, Len(ls), g)
  OBVIOUS
<1> QED BY <1>1, <1>2, ReadingsAgree

LEMMA ImageOfNothing == Image(<<>>) = EmptyImage
<1>1. PICK f : Reading(<<>>, 0, f)
  BY ReadingExists
<1>2. Image(<<>>) = f[0]
  <2>1. <<>> \in Seq({}) /\ Len(<<>>) = 0
    OBVIOUS
  <2> QED BY <1>1, <2>1, ImageOfReading
<1> QED BY <1>1, <1>2 DEF Reading

LEMMA ImageOfAppend ==
    ASSUME NEW X, NEW ls \in Seq(X), NEW x \in X
    PROVE  Image(Append(ls, x)) = ReadLine(Image(ls), x)
<1> DEFINE ks == Append(ls, x)  n == Len(ls)
<1>1. n \in Nat /\ n + 1 \in Nat /\ ks \in Seq(X) /\ Len(ks) = n + 1 /\ ks[n + 1] = x
      /\ \A k \in 1 .. n : ks[k] = ls[k]
  <2>1. n \in Nat /\ n + 1 \in Nat /\ ks \in Seq(X) /\ Len(ks) = n + 1 /\ ks[n + 1] = x
    OBVIOUS
  <2>2. \A k \in 1 .. n : ks[k] = ls[k]
    OBVIOUS
  <2> HIDE DEF ks
  <2> QED BY <2>1, <2>2
<1> HIDE DEF ks, n
<1>2. PICK f : Reading(ls, n, f)
  BY <1>1, ReadingExists
<1>3. PICK g : Reading(ks, n + 1, g)
  BY <1>1, ReadingExists
<1>4. f[n] = g[n]
  <2>1. n + 1 \in Nat /\ n <= n + 1 /\ n \in 0 .. n
    BY <1>1
  <2>2. \A k \in 0 .. n : f[k] = g[k]
    BY <1>1, <1>2, <1>3, <2>1, ReadingsAgree
  <2> QED BY <2>1, <2>2
<1>5. g[n + 1] = ReadLine(g[n], ks[n + 1])
  BY <1>1, <1>3 DEF Reading
<1>6. Image(ls) = f[n] /\ Image(ks) = g[n + 1]
  BY <1>1, <1>2, <1>3, ImageOfReading DEF n
<1> QED BY <1>1, <1>4, <1>5, <1>6 DEF ks

-----------------------------------------------------------------------------
(* Prefixes.                                                               *)

First(ls, n) == SubSeq(ls, 1, n)

LEMMA FirstFacts ==
    ASSUME NEW X, NEW ls \in Seq(X), NEW n \in 0 .. Len(ls)
    PROVE  /\ First(ls, n) \in Seq(X) /\ Len(First(ls, n)) = n
           /\ \A k \in 1 .. n : First(ls, n)[k] = ls[k]
           /\ First(ls, Len(ls)) = ls
           /\ First(ls, 0) = <<>>
           /\ \A k \in 0 .. n : First(First(ls, n), k) = First(ls, k)
  BY DEF First

LEMMA FirstGrows ==
    ASSUME NEW X, NEW ls \in Seq(X), NEW n \in 0 .. Len(ls), n < Len(ls)
    PROVE  /\ First(ls, n + 1) = Append(First(ls, n), ls[n + 1])
           /\ ls[n + 1] \in X
           /\ Image(First(ls, n + 1)) = ReadLine(Image(First(ls, n)), ls[n + 1])
<1>1. First(ls, n + 1) = Append(First(ls, n), ls[n + 1]) /\ ls[n + 1] \in X
  BY DEF First
<1>2. First(ls, n) \in Seq(X)
  BY FirstFacts
<1> QED BY <1>1, <1>2, ImageOfAppend

LEMMA FirstOfAppend ==
    ASSUME NEW X, NEW ls \in Seq(X), NEW x \in X, NEW n \in 0 .. Len(ls)
    PROVE  First(Append(ls, x), n) = First(ls, n)
  BY DEF First

\* A sequence is empty or ends in its last line.
LEMMA FrontAndLast ==
    ASSUME NEW X, NEW ls \in Seq(X), ls # <<>>
    PROVE  /\ Len(ls) - 1 \in Nat
           /\ ls = Append(First(ls, Len(ls) - 1), Last(ls)) /\ Last(ls) \in X
           /\ Front(ls) = First(ls, Len(ls) - 1)
  BY DEF First, Last, Front

-----------------------------------------------------------------------------
(* What a line says, and what reading it makes of an image.                *)

EventSet == [action : {"CREATE", "CANCEL", "ADVANCE"},
             state : {"PENDING", "ACTIVE", "LOSS", "CANCELLED"}, at : Nat, covered : Nat,
             reason : {"ROUTINE", "CANCEL_REASON"},
             ambiguous : BOOLEAN, gap : BOOLEAN, trigger : BOOLEAN]

WholeLine == [seq : Nat, call : Calls, event : EventSet]

LineSet == WholeLine \cup {Torn}

RowSet == [state : {"NONE", "PENDING", "ACTIVE", "LOSS", "CANCELLED"},
           resolved : Nat \cup {-1}, covered : Nat,
           ambiguous : BOOLEAN, gap : BOOLEAN, triggered : BOOLEAN]

ImageSet == [ok : BOOLEAN, length : Nat, book : Seq(Calls), rows : [Calls -> RowSet]]

LEMMA CallTimes ==
    ASSUME NEW c \in Calls
    PROVE  /\ Created[c] \in 0 .. MaxTime /\ Created[c] \in Nat
           /\ Created[c] + 1 \in 0 .. MaxTime /\ Created[c] + 1 \in Nat
  BY FileConstants DEF FileConstants

LEMMA EmptyImageTyped == EmptyImage \in ImageSet /\ EmptyImage.ok
  BY DEF EmptyImage, ImageSet, RowSet, Ledger!NoRow, Ledger!Unset

LEMMA ApplyTyped ==
    ASSUME NEW i \in ImageSet, NEW line \in WholeLine
    PROVE  ApplyLine(i, line) \in ImageSet
<1> DEFINE c == line.call  e == line.event
           old == IF e.action = "CREATE" THEN EmptyImage.rows ELSE i.rows
           new == Ledger(old, <<>>)!Applied(c, e)
<1>1. c \in Calls /\ e \in EventSet
  BY DEF WholeLine
<1>2. old \in [Calls -> RowSet] /\ i.rows \in [Calls -> RowSet] /\ i.book \in Seq(Calls)
      /\ i.length + 1 \in Nat
  BY EmptyImageTyped DEF ImageSet
<1>3. /\ new.state = e.state
      /\ new \in [state : {e.state}, resolved : Nat \cup {-1}, covered : {e.covered},
                  ambiguous : BOOLEAN, gap : BOOLEAN, triggered : BOOLEAN]
  <2> HIDE DEF c, e, old
  <2> QED BY <1>1 DEF Ledger!Applied, Ledger!Unset, EventSet
<1>4. new \in RowSet
  <2> HIDE DEF new
  <2> QED BY <1>1, <1>3 DEF RowSet, EventSet
<1>5. [i.rows EXCEPT ![c] = new] \in [Calls -> RowSet]
  <2> HIDE DEF new, c
  <2> QED BY <1>2, <1>4
<1>6. (IF e.action = "CREATE" THEN Append(i.book, c) ELSE i.book) \in Seq(Calls)
  <2> HIDE DEF e, c
  <2> QED BY <1>1, <1>2
<1>7. ApplyLine(i, line) = [ok |-> TRUE, length |-> i.length + 1,
                            book |-> IF e.action = "CREATE" THEN Append(i.book, c) ELSE i.book,
                            rows |-> [i.rows EXCEPT ![c] = new]]
  BY DEF ApplyLine
<1> HIDE DEF c, e, new
<1> QED BY <1>2, <1>5, <1>6, <1>7 DEF ImageSet

\* A line is read, or nothing is read any more.
LEMMA ReadFacts ==
    ASSUME NEW i \in ImageSet, NEW line \in LineSet
    PROVE  /\ ReadLine(i, line) \in ImageSet
           /\ ReadLine(i, line).ok => /\ i.ok /\ Accepts(i, line) /\ line \in WholeLine
                                      /\ ReadLine(i, line) = ApplyLine(i, line)
                                      /\ ReadLine(i, line).length = i.length + 1
           /\ ~ReadLine(i, line).ok => /\ ReadLine(i, line).rows = i.rows
                                       /\ ReadLine(i, line).book = i.book
                                       /\ ReadLine(i, line).length = i.length
<1>1. CASE i.ok /\ Accepts(i, line)
  <2>1. line \in WholeLine
    BY <1>1 DEF Accepts, LineSet
  <2>2. ReadLine(i, line) = ApplyLine(i, line)
    BY <1>1 DEF ReadLine
  <2>3. ApplyLine(i, line).ok = TRUE /\ ApplyLine(i, line).length = i.length + 1
    BY DEF ApplyLine
  <2> QED BY <1>1, <2>1, <2>2, <2>3, ApplyTyped
<1>2. CASE ~(i.ok /\ Accepts(i, line))
  <2>1. ReadLine(i, line) = [i EXCEPT !.ok = FALSE]
    BY <1>2 DEF ReadLine
  <2> QED BY <2>1 DEF ImageSet
<1> QED BY <1>1, <1>2

LEMMA TornIsRefused == ASSUME NEW i \in ImageSet PROVE ~ReadLine(i, Torn).ok
  BY DEF ReadLine, Accepts, ImageSet

\* Of a readable file every prefix is readable, and the image counts the lines.
LEMMA ImageFacts ==
    ASSUME NEW ls \in Seq(LineSet)
    PROVE  /\ Image(ls) \in ImageSet
           /\ Image(ls).ok => Image(ls).length = Len(ls)
           /\ Image(ls).length <= Len(ls)
<1> DEFINE I(n) == Image(First(ls, n))
           S == {n \in Nat : n <= Len(ls) => /\ I(n) \in ImageSet
                                             /\ I(n).ok => I(n).length = n
                                             /\ I(n).length <= n}
<1>1. 0 \in S
  <2>1. First(ls, 0) = <<>>
    BY FirstFacts
  <2>2. I(0) = EmptyImage
    BY <2>1, ImageOfNothing
  <2>3. EmptyImage.length = 0
    BY DEF EmptyImage
  <2> HIDE DEF I
  <2> QED BY <2>2, <2>3, EmptyImageTyped
<1>2. ASSUME NEW n \in S
      PROVE  n + 1 \in S
  <2>1. CASE n + 1 <= Len(ls)
    <3>1. n \in 0 .. Len(ls) /\ n < Len(ls) /\ n \in Nat
      BY <2>1
    <3>2. I(n + 1) = ReadLine(I(n), ls[n + 1]) /\ ls[n + 1] \in LineSet
      BY <3>1, FirstGrows
    <3>3. I(n) \in ImageSet /\ (I(n).ok => I(n).length = n) /\ I(n).length <= n
      BY <3>1
    <3> HIDE DEF I
    <3>4. I(n).length \in Nat
      BY <3>3 DEF ImageSet
    <3>5. I(n + 1) \in ImageSet /\ (I(n + 1).ok => I(n + 1).length = n + 1)
          /\ I(n + 1).length <= n + 1
      BY <3>1, <3>2, <3>3, <3>4, ReadFacts
    <3> QED BY <3>1, <3>5
  <2>2. CASE ~(n + 1 <= Len(ls))
    BY <2>2
  <2> QED BY <2>1, <2>2
<1>3. S = Nat
  <2> HIDE DEF S
  <2> QED BY <1>1, <1>2, SetInduction DEF S
<1>4. Len(ls) \in S /\ First(ls, Len(ls)) = ls
  BY <1>3, FirstFacts
<1> QED BY <1>4

LEMMA PrefixReadable ==
    ASSUME NEW ls \in Seq(LineSet), Image(ls).ok, NEW n \in 0 .. Len(ls)
    PROVE  Image(First(ls, n)).ok
<1> DEFINE I(k) == Image(First(ls, k))
           S == {k \in Nat : k <= Len(ls) - n => I(Len(ls) - k).ok}
<1>1. 0 \in S
  BY FirstFacts
<1>2. ASSUME NEW k \in S
      PROVE  k + 1 \in S
  <2>1. CASE k + 1 <= Len(ls) - n
    <3> DEFINE m == Len(ls) - (k + 1)
    <3>1. m \in 0 .. Len(ls) /\ m < Len(ls) /\ Len(ls) - k = m + 1
      BY <2>1
    <3>2. I(m + 1).ok
      BY <2>1, <3>1
    <3>3. I(m + 1) = ReadLine(I(m), ls[m + 1]) /\ ls[m + 1] \in LineSet
      BY <3>1, FirstGrows
    <3>4. I(m) \in ImageSet
      BY <3>1, FirstFacts, ImageFacts
    <3> HIDE DEF I, m
    <3>5. I(m).ok
      BY <3>2, <3>3, <3>4, ReadFacts
    <3> QED BY <3>5 DEF m
  <2>2. CASE ~(k + 1 <= Len(ls) - n)
    BY <2>2
  <2> QED BY <2>1, <2>2
<1>3. S = Nat
  <2> HIDE DEF S
  <2> QED BY <1>1, <1>2, SetInduction DEF S
<1>4. Len(ls) - n \in Nat /\ Len(ls) - (Len(ls) - n) = n
  OBVIOUS
<1>5. Len(ls) - n \in S
  <2> HIDE DEF S
  <2> QED BY <1>3, <1>4
<1> QED BY <1>4, <1>5

\* One more line.
LEMMA AppendFacts ==
    ASSUME NEW ls \in Seq(LineSet), NEW line \in LineSet
    PROVE  /\ Append(ls, line) \in Seq(LineSet)
           /\ Len(Append(ls, line)) = Len(ls) + 1
           /\ Image(Append(ls, line)) = ReadLine(Image(ls), line)
           /\ Image(Append(ls, line)).ok => /\ Image(ls).ok /\ Accepts(Image(ls), line)
                                            /\ line.seq = Len(ls) /\ line # Torn
           /\ ~Image(Append(ls, line)).ok => Image(Append(ls, line)).length = Image(ls).length
<1>1. Image(Append(ls, line)) = ReadLine(Image(ls), line)
  BY ImageOfAppend
<1>2. Image(ls) \in ImageSet /\ (Image(ls).ok => Image(ls).length = Len(ls))
  BY ImageFacts
<1> QED BY <1>1, <1>2, ReadFacts DEF Accepts

LEMMA TornTail ==
    ASSUME NEW ls \in Seq(LineSet), ls # <<>>, Last(ls) = Torn
    PROVE  ~Image(ls).ok
<1>1. /\ Len(ls) - 1 \in 0 .. Len(ls)
      /\ ls = Append(First(ls, Len(ls) - 1), Torn)
  BY FrontAndLast
<1>2. First(ls, Len(ls) - 1) \in Seq(LineSet) /\ Torn \in LineSet
  BY <1>1, FirstFacts DEF LineSet
<1> QED BY <1>1, <1>2, AppendFacts

-----------------------------------------------------------------------------
(* The invariant of any worker, also of one that outlived its close.       *)

\* A line a caller may ask for and the image takes.
Offered(image, line) ==
    /\ line \in WholeLine
    /\ line.event \in Events(image, line.call)
    /\ Accepts(image, line)

\* What a worker believes the file to be.
Mine(p) == IF step[p] = "sync" THEN Append(memory[p], pending[p]) ELSE memory[p]

FileTyped ==
    /\ lines \in Seq(LineSet)
    /\ durable \in 0 .. Len(lines)
    /\ owner \in Procs \cup {NoOne}
    /\ proc \in [Procs -> {"absent", "up", "closing", "released", "failed", "gone"}]
    /\ step \in [Procs -> {"ready", "write", "sync", "ended"}]
    /\ pending \in [Procs -> LineSet]
    /\ memory \in [Procs -> Seq(LineSet)]
    /\ acked \in SUBSET LineSet
    /\ overrun \in BOOLEAN
    /\ \A p \in Procs : /\ proc[p] = "absent" => step[p] = "ready"
                        /\ proc[p] = "failed" => step[p] = "ended"

\* The event a worker is writing was validated against what it remembers.
Begun ==
    \A p \in Procs : Threaded(p) /\ step[p] \in {"write", "sync"} =>
        Offered(Image(memory[p]), pending[p])

\* While the file can be read, every worker still at work is behind it, never
\* beside it.
Shared ==
    \A p \in Procs : Threaded(p) /\ step[p] # "ended" /\ Image(lines).ok =>
        /\ Len(Mine(p)) <= Len(lines)
        /\ Mine(p) = First(lines, Len(Mine(p)))

\* Every line that can be read was asked for by a caller.
Recorded ==
    \A n \in Nat : n < Len(lines) /\ Image(First(lines, n + 1)).ok =>
        Offered(Image(First(lines, n)), lines[n + 1])

FileIInv == FileTyped /\ Begun /\ Shared /\ Recorded

-----------------------------------------------------------------------------
(* The invariant of the lock, while no worker outlived its close.          *)

\* The lock is held by the process that took it, until its close or its end.
Held == \A p \in Procs : proc[p] \in {"up", "closing", "failed"} <=> owner = p

\* A worker that let its lock go has ended.
Alone == ~overrun => \A p \in Procs : proc[p] = "released" => step[p] = "ended"

\* At most the last line is cut.
Readable ==
    ~overrun => \/ Image(lines).ok
                \/ \E front \in Seq(LineSet) : lines = Append(front, Torn) /\ Image(front).ok

\* What stands in the file at each step of the holder's append.
Current ==
    ~overrun /\ owner # NoOne =>
        /\ step[owner] \in {"ready", "write"} => lines = memory[owner] /\ Image(lines).ok
        /\ step[owner] = "sync" =>
             lines = Append(memory[owner], pending[owner]) /\ Image(lines).ok
        /\ step[owner] = "ended" =>
             \/ lines = memory[owner]
             \/ \E line \in LineSet : lines = Append(memory[owner], line)

\* An acknowledged line is at its place, on disk.
Kept ==
    ~overrun => \A line \in acked :
        line \in WholeLine /\ line.seq < durable /\ lines[line.seq + 1] = line

LockIInv == FileIInv /\ Held /\ Alone /\ Readable /\ Current /\ Kept

-----------------------------------------------------------------------------
(* What the callers ask for has the type of an event.                      *)

LEMMA EventsTyped ==
    ASSUME NEW i \in ImageSet, NEW c \in Calls, NEW e \in Events(i, c)
    PROVE  /\ e \in EventSet
           /\ e.action = "CREATE" =>
                e = CreateEvent(c) /\ Ledger(i.rows, i.book)!LongEnough(c)
<1> DEFINE later == Created[c] + 1
           advance(s) == Ledger(i.rows, i.book)!AdvanceEvent(s, later, later, "ROUTINE",
                                                            FALSE, FALSE, s = "ACTIVE")
           cancel == Ledger(i.rows, i.book)!CancelEvent(c, "CANCEL_REASON", later)
<1>1. Created[c] \in Nat /\ later \in Nat /\ i.rows[c].covered \in Nat
  BY CallTimes DEF ImageSet, RowSet
<1>2. \/ e = CreateEvent(c) /\ Ledger(i.rows, i.book)!LongEnough(c)
      \/ e = advance("ACTIVE") \/ e = advance("LOSS") \/ e = cancel
  BY DEF Events
<1>3. CreateEvent(c) \in EventSet
  BY <1>1 DEF CreateEvent, EventSet
<1>4. advance("ACTIVE") \in EventSet /\ advance("ACTIVE").action = "ADVANCE"
  BY <1>1 DEF EventSet, Ledger!AdvanceEvent
<1>5. advance("LOSS") \in EventSet /\ advance("LOSS").action = "ADVANCE"
  BY <1>1 DEF EventSet, Ledger!AdvanceEvent
<1>6. cancel \in EventSet /\ cancel.action = "CANCEL"
  BY <1>1 DEF EventSet, Ledger!CancelEvent
<1> HIDE DEF advance, cancel, later
<1> QED BY <1>2, <1>3, <1>4, <1>5, <1>6

\* The whole append of a line: it is read, or it cuts the file.
LEMMA OfferedAppends ==
    ASSUME NEW ls \in Seq(LineSet), NEW line, Offered(Image(ls), line), Image(ls).ok
    PROVE  /\ line \in LineSet /\ line # Torn /\ line.seq = Len(ls)
           /\ Image(Append(ls, line)).ok
<1>1. line \in LineSet /\ line # Torn
  BY DEF Offered, LineSet, WholeLine, Accepts
<1>2. Image(ls) \in ImageSet /\ Image(ls).length = Len(ls)
  BY ImageFacts
<1>3. line.seq = Len(ls)
  BY <1>2 DEF Offered, Accepts
<1>4. Image(Append(ls, line)) = ReadLine(Image(ls), line)
  BY <1>1, ImageOfAppend
<1>5. ReadLine(Image(ls), line).ok
  BY DEF ReadLine, Offered, ApplyLine
<1> QED BY <1>1, <1>3, <1>4, <1>5

LEMMA NotTorn == \A line \in WholeLine : line # Torn /\ line \in LineSet
<1> SUFFICES ASSUME NEW line \in WholeLine
             PROVE  line # Torn
  BY DEF LineSet
<1>1. line.seq \in Nat
  BY DEF WholeLine
<1>2. Torn.seq = -1
  BY DEF Torn
<1> QED BY <1>1, <1>2

-----------------------------------------------------------------------------
(* The first invariant, step by step.                                      *)

Lengthened(line) == lines' = Append(lines, line)

\* What may be appended: a cut line, or a line the file's image takes.
LEMMA RecordedAfter ==
    ASSUME FileTyped, Recorded, NEW line \in LineSet, Lengthened(line),
           line = Torn \/ ~Image(lines)'.ok \/ Offered(Image(lines), line)
    PROVE  Recorded'
<1> SUFFICES ASSUME NEW n \in Nat, n < Len(lines'), Image(First(lines, n + 1))'.ok
             PROVE  Offered(Image(First(lines, n)), lines[n + 1])'
  BY DEF Recorded
<1>1. lines \in Seq(LineSet) /\ lines' = Append(lines, line) /\ lines' \in Seq(LineSet)
      /\ Len(lines') = Len(lines) + 1 /\ Len(lines) \in Nat
  BY DEF FileTyped, Lengthened
<1>2. CASE n < Len(lines)
  <2>1. n \in 0 .. Len(lines) /\ n + 1 \in 0 .. Len(lines) /\ lines'[n + 1] = lines[n + 1]
    BY <1>1, <1>2
  <2>2. First(lines', n) = First(lines, n) /\ First(lines', n + 1) = First(lines, n + 1)
    BY <1>1, <2>1, FirstOfAppend
  <2> QED BY <1>2, <2>1, <2>2 DEF Recorded
<1>3. CASE n = Len(lines)
  <2>1. n \in 0 .. Len(lines) /\ n + 1 = Len(lines') /\ lines'[n + 1] = line
    BY <1>1, <1>3
  <2>2. First(lines', n) = First(lines, n) /\ First(lines, n) = lines
    BY <1>1, <1>3, <2>1, FirstOfAppend, FirstFacts
  <2>3. First(lines', n + 1) = lines'
    <3>1. n + 1 \in 0 .. Len(lines')
      BY <1>1, <2>1
    <3> QED BY <1>1, <2>1, <3>1, FirstFacts
  <2>4. Image(lines)'.ok
    BY <2>3
  <2>5. line # Torn
    BY <1>1, <2>4, AppendFacts
  <2> QED BY <2>1, <2>2, <2>4, <2>5
<1> QED BY <1>1, <1>2, <1>3

LEMMA RecordedPrefix ==
    ASSUME FileTyped, Recorded, NEW m \in 0 .. Len(lines)
    PROVE  \A n \in Nat : n < m /\ Image(First(First(lines, m), n + 1)).ok =>
               Offered(Image(First(First(lines, m), n)), First(lines, m)[n + 1])
<1> SUFFICES ASSUME NEW n \in Nat, n < m, Image(First(First(lines, m), n + 1)).ok
             PROVE  Offered(Image(First(First(lines, m), n)), First(lines, m)[n + 1])
  OBVIOUS
<1>1. n \in 0 .. m /\ n + 1 \in 0 .. m /\ n + 1 \in 1 .. m /\ n < Len(lines)
      /\ lines \in Seq(LineSet)
  BY DEF FileTyped
<1>2. /\ First(First(lines, m), n) = First(lines, n)
      /\ First(First(lines, m), n + 1) = First(lines, n + 1)
      /\ First(lines, m)[n + 1] = lines[n + 1]
  BY <1>1, FirstFacts
<1> QED BY <1>1, <1>2 DEF Recorded

LEMMA TornIsALine == Torn \in LineSet
  BY DEF LineSet

\* What a write makes of the file: one line more, or a cut line made longer.
LEMMA AppendedFacts ==
    ASSUME FileTyped, NEW line \in LineSet
    PROVE  /\ Appended(line) \in Seq(LineSet)
           /\ Len(lines) \in Nat /\ Len(lines) <= Len(Appended(line))
           /\ \/ Appended(line) = lines /\ ~Image(lines).ok
              \/ Appended(line) = Append(lines, line)
<1>1. lines \in Seq(LineSet)
  BY DEF FileTyped
<1>2. CASE lines # <<>> /\ Last(lines) = Torn
  BY <1>1, <1>2, TornTail DEF Appended
<1>3. CASE ~(lines # <<>> /\ Last(lines) = Torn)
  BY <1>1, <1>3, AppendFacts DEF Appended
<1> QED BY <1>2, <1>3

LEMMA TypedStep ==
    ASSUME FileTyped, Begun, Next
    PROVE  FileTyped'
<1> USE DEF FileTyped
<1>1. CASE WriteBack
  BY <1>1 DEF WriteBack
<1>2. CASE PowerLoss
  <2> DEFINE kept == SubSeq(lines, 1, durable)
  <2>1. kept \in Seq(LineSet)
    BY FirstFacts DEF First
  <2>2. Append(kept, Torn) \in Seq(LineSet)
    BY <2>1, TornIsALine
  <2>3. lines' \in Seq(LineSet) /\ durable' = Len(lines')
    BY <1>2, <2>1, <2>2 DEF PowerLoss
  <2>4. pending' \in [Procs -> LineSet] /\ memory' \in [Procs -> Seq(LineSet)]
    BY <1>2, TornIsALine DEF PowerLoss
  <2>5. /\ proc' \in [Procs -> {"absent", "up", "closing", "released", "failed", "gone"}]
        /\ step' \in [Procs -> {"ready", "write", "sync", "ended"}]
        /\ \A p \in Procs : /\ proc'[p] = "absent" => step'[p] = "ready"
                            /\ proc'[p] = "failed" => step'[p] = "ended"
    BY <1>2 DEF PowerLoss, Running
  <2>6. owner' = NoOne /\ acked' = acked /\ overrun' = overrun
    BY <1>2 DEF PowerLoss
  <2> HIDE DEF kept
  <2>7. durable' \in 0 .. Len(lines')
    BY <2>3
  <2> QED BY <2>3, <2>4, <2>5, <2>6, <2>7
<1>3. ASSUME NEW p \in Procs, ProcNext(p)
      PROVE  FileTyped'
  <2>1. CASE Start(p)
    BY <2>1 DEF Start
  <2>2. CASE \E c \in Calls : \E e \in Events(Image(memory[p]), c) : Begin(p, c, e)
    <3> PICK c \in Calls : \E e \in Events(Image(memory[p]), c) : Begin(p, c, e)
      BY <2>2
    <3>1. PICK e \in Events(Image(memory[p]), c) : Begin(p, c, e)
      OBVIOUS
    <3> DEFINE line == [seq |-> Len(memory[p]), call |-> c, event |-> e]
    <3>2. e \in EventSet
      BY ImageFacts, EventsTyped
    <3>3. line \in LineSet
      BY <3>2 DEF LineSet, WholeLine
    <3>4. pending' = [pending EXCEPT ![p] = line] /\ step' = [step EXCEPT ![p] = "write"]
          /\ proc[p] \notin {"absent", "failed"}
      BY <3>1 DEF Begin, Threaded
    <3> HIDE DEF line
    <3> QED BY <3>1, <3>3, <3>4 DEF Begin
  <2>3. CASE Write(p)
    <3>1. lines' = Appended(pending[p]) /\ step' = [step EXCEPT ![p] = "sync"]
          /\ proc[p] \notin {"absent", "failed"}
      BY <2>3 DEF Write, Threaded
    <3>2. lines' \in Seq(LineSet) /\ Len(lines) <= Len(lines') /\ Len(lines) \in Nat
      BY <3>1, AppendedFacts
    <3>3. durable' \in 0 .. Len(lines')
      BY <2>3, <3>2 DEF Write
    <3> QED BY <2>3, <3>1, <3>2, <3>3 DEF Write
  <2>4. CASE Commit(p)
    <3>1. pending' \in [Procs -> LineSet] /\ memory' \in [Procs -> Seq(LineSet)]
          /\ acked' \in SUBSET LineSet
      BY <2>4, TornIsALine DEF Commit
    <3> QED BY <2>4, <3>1 DEF Commit, Threaded
  <2>5. CASE WriteFails(p)
    <3>1. lines' \in {lines, Appended(Torn)}
      BY <2>5 DEF WriteFails
    <3>2. lines' \in Seq(LineSet) /\ Len(lines) <= Len(lines') /\ Len(lines) \in Nat
      BY <3>1, AppendedFacts, TornIsALine
    <3>3. durable' \in 0 .. Len(lines')
      BY <2>5, <3>2 DEF WriteFails
    <3> QED BY <2>5, <3>2, <3>3 DEF WriteFails, Threaded
  <2>6. CASE Close(p)
    BY <2>6 DEF Close
  <2>7. CASE Join(p)
    BY <2>7 DEF Join, Unlock
  <2>8. CASE JoinTimesOut(p)
    BY <2>8 DEF JoinTimesOut, Unlock
  <2>9. CASE Exit(p)
    BY <2>9, TornIsALine DEF Exit, Unlock, Running
  <2> QED BY <1>3, <2>1, <2>2, <2>3, <2>4, <2>5, <2>6, <2>7, <2>8, <2>9 DEF ProcNext
<1> HIDE DEF FileTyped
<1> QED BY <1>1, <1>2, <1>3 DEF Next

LEMMA BegunStep ==
    ASSUME FileTyped, Begun, Next
    PROVE  Begun'
<1> SUFFICES ASSUME NEW q \in Procs, Threaded(q)', step'[q] \in {"write", "sync"}
             PROVE  Offered(Image(memory[q]), pending[q])'
  BY DEF Begun
<1> USE DEF FileTyped
<1>1. ASSUME Threaded(q), step[q] \in {"write", "sync"},
             pending'[q] = pending[q], memory'[q] = memory[q]
      PROVE  Offered(Image(memory[q]), pending[q])'
  BY <1>1 DEF Begun, Offered
<1>2. CASE WriteBack
  BY <1>1, <1>2 DEF WriteBack, Threaded
<1>3. CASE PowerLoss
  BY <1>3 DEF PowerLoss, Threaded, Running
<1>4. ASSUME NEW p \in Procs, ProcNext(p)
      PROVE  Offered(Image(memory[q]), pending[q])'
  <2>1. CASE Start(p)
    BY <1>1, <2>1 DEF Start, Threaded
  <2>2. CASE \E c \in Calls : \E e \in Events(Image(memory[p]), c) : Begin(p, c, e)
    <3> PICK c \in Calls : \E e \in Events(Image(memory[p]), c) : Begin(p, c, e)
      BY <2>2
    <3>1. PICK e \in Events(Image(memory[p]), c) : Begin(p, c, e)
      OBVIOUS
    <3>2. CASE p = q
      <4> DEFINE line == [seq |-> Len(memory[p]), call |-> c, event |-> e]
      <4>1. e \in EventSet
        BY ImageFacts, EventsTyped
      <4>2. line \in WholeLine /\ line.call = c /\ line.event = e
        BY <4>1 DEF WholeLine
      <4>3. pending'[q] = line /\ memory'[q] = memory[p] /\ Accepts(Image(memory[p]), line)
        BY <3>1, <3>2 DEF Begin
      <4> HIDE DEF line
      <4>4. Offered(Image(memory[p]), line)
        BY <4>2, <4>3 DEF Offered
      <4> QED BY <4>3, <4>4
    <3>3. CASE p # q
      BY <1>1, <3>1, <3>3 DEF Begin, Threaded
    <3> QED BY <3>2, <3>3
  <2>3. CASE Write(p)
    BY <1>1, <2>3 DEF Write, Threaded
  <2>4. CASE Commit(p)
    BY <1>1, <2>4 DEF Commit, Threaded
  <2>5. CASE WriteFails(p)
    BY <1>1, <2>5 DEF WriteFails, Threaded
  <2>6. CASE Close(p)
    BY <1>1, <2>6 DEF Close, Threaded
  <2>7. CASE Join(p)
    BY <1>1, <2>7 DEF Join, Threaded
  <2>8. CASE JoinTimesOut(p)
    BY <1>1, <2>8 DEF JoinTimesOut, Threaded
  <2>9. CASE Exit(p)
    BY <1>1, <2>9 DEF Exit, Threaded
  <2> QED BY <1>4, <2>1, <2>2, <2>3, <2>4, <2>5, <2>6, <2>7, <2>8, <2>9 DEF ProcNext
<1> QED BY <1>2, <1>3, <1>4 DEF Next

\* The write of a worker that is not beside the file: its line ends a file that can
\* be read, or the file cannot be read any more.
LEMMA WriteExtends ==
    ASSUME FileTyped, Begun, Shared, NEW p \in Procs, Write(p), Image(lines)'.ok
    PROVE  /\ Image(lines).ok /\ Lengthened(pending[p]) /\ lines = memory[p]
           /\ pending[p] \in LineSet /\ Offered(Image(lines), pending[p])
<1>1. /\ pending[p] \in LineSet /\ lines' = Appended(pending[p]) /\ Threaded(p)
      /\ step[p] = "write" /\ lines \in Seq(LineSet) /\ memory[p] \in Seq(LineSet)
      /\ Offered(Image(memory[p]), pending[p])
  BY DEF Write, FileTyped, Begun
<1>2. lines' = Append(lines, pending[p])
  BY <1>1, AppendedFacts
<1>3. Image(lines).ok /\ pending[p].seq = Len(lines)
  BY <1>1, <1>2, AppendFacts
<1>4. Len(memory[p]) <= Len(lines) /\ memory[p] = First(lines, Len(memory[p]))
  BY <1>1, <1>3 DEF Shared, Mine
<1>5. Len(memory[p]) \in 0 .. Len(lines)
  BY <1>1, <1>4
<1>6. Image(memory[p]).ok
  BY <1>1, <1>3, <1>4, <1>5, PrefixReadable
<1>7. pending[p].seq = Len(memory[p])
  BY <1>1, <1>6, OfferedAppends
<1>8. lines = memory[p]
  <2>1. Len(memory[p]) = Len(lines) /\ Len(lines) \in 0 .. Len(lines)
    BY <1>3, <1>5, <1>7
  <2>2. First(lines, Len(lines)) = lines
    BY <1>1, <2>1, FirstFacts
  <2> QED BY <1>4, <2>1, <2>2
<1> QED BY <1>1, <1>2, <1>3, <1>8 DEF Lengthened

LEMMA SharedStep ==
    ASSUME FileTyped, Begun, Shared, Next
    PROVE  Shared'
<1> SUFFICES ASSUME NEW q \in Procs, Threaded(q)', step'[q] # "ended", Image(lines)'.ok
             PROVE  /\ Len(Mine(q)') <= Len(lines')
                    /\ Mine(q)' = First(lines', Len(Mine(q)'))
  BY DEF Shared
<1> USE DEF FileTyped
<1>1. ASSUME lines' = lines, Threaded(q), step[q] # "ended", Mine(q)' = Mine(q)
      PROVE  /\ Len(Mine(q)') <= Len(lines')
             /\ Mine(q)' = First(lines', Len(Mine(q)'))
  BY <1>1 DEF Shared
<1>2. CASE WriteBack
  BY <1>1, <1>2 DEF WriteBack, Threaded, Mine
<1>3. CASE PowerLoss
  BY <1>3 DEF PowerLoss, Threaded, Running
<1>4. ASSUME NEW p \in Procs, ProcNext(p)
      PROVE  /\ Len(Mine(q)') <= Len(lines')
             /\ Mine(q)' = First(lines', Len(Mine(q)'))
  <2>1. CASE Start(p)
    <3>1. CASE p = q
      <4>1. Mine(q)' = lines /\ lines' = lines
        BY <2>1, <3>1 DEF Start, Mine
      <4>2. First(lines, Len(lines)) = lines /\ Len(lines) \in Nat
        BY FirstFacts
      <4> QED BY <4>1, <4>2
    <3>2. CASE p # q
      BY <1>1, <2>1, <3>2 DEF Start, Threaded, Mine
    <3> QED BY <3>1, <3>2
  <2>2. CASE \E c \in Calls : \E e \in Events(Image(memory[p]), c) : Begin(p, c, e)
    <3> PICK c \in Calls : \E e \in Events(Image(memory[p]), c) : Begin(p, c, e)
      BY <2>2
    <3>1. PICK e \in Events(Image(memory[p]), c) : Begin(p, c, e)
      OBVIOUS
    <3> QED BY <1>1, <3>1 DEF Begin, Threaded, Mine
  <2>3. CASE Write(p)
    <3>1. /\ Image(lines).ok /\ lines' = Append(lines, pending[p]) /\ lines = memory[p]
          /\ pending[p] \in LineSet
      BY <2>3, WriteExtends DEF Lengthened
    <3>2. lines' \in Seq(LineSet) /\ Len(lines') = Len(lines) + 1 /\ Len(lines) \in Nat
      BY <3>1, AppendFacts
    <3>3. CASE p = q
      <4>1. Mine(q)' = lines'
        BY <2>3, <3>1, <3>3 DEF Write, Mine
      <4>2. First(lines', Len(lines')) = lines' /\ Len(lines') \in Nat
        BY <3>2, FirstFacts
      <4> QED BY <4>1, <4>2
    <3>4. CASE p # q
      <4>1. Threaded(q) /\ step[q] # "ended" /\ Mine(q)' = Mine(q)
        BY <2>3, <3>4 DEF Write, Threaded, Mine
      <4>2. /\ Mine(q) \in Seq(LineSet)
            /\ Len(Mine(q)) <= Len(lines) /\ Mine(q) = First(lines, Len(Mine(q)))
        BY <3>1, <4>1 DEF Shared, Mine
      <4>3. Len(Mine(q)) \in 0 .. Len(lines)
        BY <4>2
      <4>4. First(lines', Len(Mine(q))) = First(lines, Len(Mine(q)))
        BY <3>1, <4>3, FirstOfAppend
      <4> QED BY <3>2, <4>1, <4>2, <4>3, <4>4
    <3> QED BY <3>3, <3>4
  <2>4. CASE Commit(p)
    BY <1>1, <2>4 DEF Commit, Threaded, Mine
  <2>5. CASE WriteFails(p)
    <3>1. CASE lines' = lines
      BY <1>1, <2>5, <3>1 DEF WriteFails, Threaded, Mine
    <3>2. CASE lines' # lines
      <4>1. lines' = Append(lines, Torn)
        BY <2>5, <3>2, AppendedFacts, TornIsALine DEF WriteFails
      <4>2. ~Image(lines)'.ok
        BY <4>1, AppendFacts, TornIsALine
      <4> QED BY <4>2
    <3> QED BY <3>1, <3>2
  <2>6. CASE Close(p)
    BY <1>1, <2>6 DEF Close, Threaded, Mine
  <2>7. CASE Join(p)
    BY <1>1, <2>7 DEF Join, Threaded, Mine
  <2>8. CASE JoinTimesOut(p)
    BY <1>1, <2>8 DEF JoinTimesOut, Threaded, Mine
  <2>9. CASE Exit(p)
    BY <1>1, <2>9 DEF Exit, Threaded, Mine
  <2> QED BY <1>4, <2>1, <2>2, <2>3, <2>4, <2>5, <2>6, <2>7, <2>8, <2>9 DEF ProcNext
<1> QED BY <1>2, <1>3, <1>4 DEF Next

LEMMA PowerLossLines ==
    ASSUME FileTyped, PowerLoss
    PROVE  /\ durable' = Len(lines')
           /\ lines' \in {First(lines, durable), Append(First(lines, durable), Torn)}
<1>1. CASE durable < Len(lines)
  BY <1>1 DEF PowerLoss, First
<1>2. CASE ~(durable < Len(lines))
  <2>1. durable = Len(lines) /\ lines \in Seq(LineSet) /\ durable \in 0 .. Len(lines)
    BY <1>2 DEF FileTyped
  <2>2. First(lines, durable) = lines
    BY <2>1, FirstFacts
  <2> QED BY <1>2, <2>2 DEF PowerLoss
<1> QED BY <1>1, <1>2

\* The only steps that change what a reader of the file sees.
LEMMA LinesStep ==
    ASSUME FileTyped, Begun, Shared, Next
    PROVE  \/ lines' = lines
           \/ \E line \in LineSet :
                /\ Lengthened(line) /\ durable' = durable
                /\ line = Torn \/ ~Image(lines)'.ok \/ Offered(Image(lines), line)
           \/ /\ PowerLoss /\ durable' = Len(lines')
              /\ lines' \in {First(lines, durable), Append(First(lines, durable), Torn)}
<1>1. CASE PowerLoss
  BY <1>1, PowerLossLines
<1>2. ASSUME NEW p \in Procs, Write(p)
      PROVE  \/ lines' = lines
             \/ \E line \in LineSet :
                  /\ Lengthened(line) /\ durable' = durable
                  /\ line = Torn \/ ~Image(lines)'.ok \/ Offered(Image(lines), line)
  <2>1. pending[p] \in LineSet /\ lines' = Appended(pending[p]) /\ durable' = durable
    BY <1>2 DEF Write, FileTyped
  <2>2. lines' = lines \/ Lengthened(pending[p])
    BY <2>1, AppendedFacts DEF Lengthened
  <2>3. Image(lines)'.ok => Offered(Image(lines), pending[p])
    BY <1>2, WriteExtends
  <2> QED BY <2>1, <2>2, <2>3
<1>3. ASSUME NEW p \in Procs, WriteFails(p)
      PROVE  lines' = lines \/ (Lengthened(Torn) /\ durable' = durable)
  <2>1. lines' \in {lines, Appended(Torn)} /\ durable' = durable
    BY <1>3 DEF WriteFails
  <2> QED BY <2>1, AppendedFacts, TornIsALine DEF Lengthened
<1>4. ASSUME ~PowerLoss, \A p \in Procs : ~Write(p) /\ ~WriteFails(p)
      PROVE  lines' = lines
  BY <1>4 DEF Next, ProcNext, WriteBack, Start, Begin, Commit, Close, Join, JoinTimesOut, Exit
<1> QED BY <1>1, <1>2, <1>3, <1>4, TornIsALine

LEMMA RecordedStep ==
    ASSUME FileTyped, Begun, Shared, Recorded, Next
    PROVE  Recorded'
<1>1. CASE lines' = lines
  BY <1>1 DEF Recorded
<1>2. ASSUME NEW line \in LineSet, Lengthened(line),
             line = Torn \/ ~Image(lines)'.ok \/ Offered(Image(lines), line)
      PROVE  Recorded'
  BY <1>2, RecordedAfter
<1>3. CASE lines' \in {First(lines, durable), Append(First(lines, durable), Torn)}
  <2> DEFINE kept == First(lines, durable)
  <2>1. durable \in 0 .. Len(lines) /\ lines \in Seq(LineSet)
    BY DEF FileTyped
  <2>2. kept \in Seq(LineSet) /\ Len(kept) = durable
        /\ \A n \in Nat : n < durable /\ Image(First(kept, n + 1)).ok =>
             Offered(Image(First(kept, n)), kept[n + 1])
    BY <2>1, FirstFacts, RecordedPrefix
  <2> HIDE DEF kept
  <2>3. CASE lines' = kept
    BY <2>2, <2>3 DEF Recorded
  <2>4. CASE lines' = Append(kept, Torn)
    <3> SUFFICES ASSUME NEW n \in Nat, n < Len(lines'), Image(First(lines, n + 1))'.ok
                 PROVE  Offered(Image(First(lines, n)), lines[n + 1])'
      BY DEF Recorded
    <3>1. lines' \in Seq(LineSet) /\ Len(lines') = durable + 1 /\ durable \in Nat
          /\ ~Image(lines)'.ok
      BY <2>1, <2>2, <2>4, AppendFacts, TornIsALine
    <3>2. n # durable
      <4>1. Len(lines') \in 0 .. Len(lines')
        BY <3>1
      <4>2. First(lines', Len(lines')) = lines'
        BY <3>1, <4>1, FirstFacts
      <4> QED BY <3>1, <4>2
    <3>3. n < durable /\ n \in 0 .. Len(kept) /\ n + 1 \in 0 .. Len(kept)
      BY <2>2, <3>1, <3>2
    <3>4. First(lines', n) = First(kept, n) /\ First(lines', n + 1) = First(kept, n + 1)
      BY <2>2, <2>4, <3>3, FirstOfAppend, TornIsALine
    <3>5. lines'[n + 1] = kept[n + 1]
      BY <2>2, <2>4, <3>3
    <3> QED BY <2>2, <3>3, <3>4, <3>5
  <2> QED BY <1>3, <2>3, <2>4 DEF kept
<1> QED BY <1>1, <1>2, <1>3, LinesStep

LEMMA FileInvariant == Spec => []FileIInv
<1>1. Init => FileIInv
  <2> SUFFICES ASSUME Init
               PROVE  FileIInv
    OBVIOUS
  <2>1. FileTyped
    <3>1. <<>> \in Seq(LineSet) /\ Len(<<>>) = 0
      OBVIOUS
    <3>2. memory \in [Procs -> Seq(LineSet)] /\ pending \in [Procs -> LineSet]
          /\ lines \in Seq(LineSet) /\ acked \in SUBSET LineSet
      BY <3>1, TornIsALine DEF Init
    <3>3. durable \in 0 .. Len(lines)
      BY <3>1 DEF Init
    <3> QED BY <3>2, <3>3 DEF Init, FileTyped
  <2>2. Begun
    BY DEF Init, Begun, Threaded
  <2>3. Shared
    BY DEF Init, Shared, Threaded
  <2>4. Recorded
    BY DEF Init, Recorded
  <2> QED BY <2>1, <2>2, <2>3, <2>4 DEF FileIInv
<1>2. FileIInv /\ [Next]_vars => FileIInv'
  <2> SUFFICES ASSUME FileIInv, [Next]_vars
               PROVE  FileIInv'
    OBVIOUS
  <2>1. CASE Next
    BY <2>1, TypedStep, BegunStep, SharedStep, RecordedStep DEF FileIInv
  <2>2. CASE UNCHANGED vars
    <3>1. FileTyped'
      BY <2>2 DEF FileIInv, FileTyped, vars
    <3>2. Begun'
      BY <2>2 DEF FileIInv, Begun, Threaded, vars
    <3>3. Shared'
      BY <2>2 DEF FileIInv, Shared, Threaded, Mine, vars
    <3>4. Recorded'
      BY <2>2 DEF FileIInv, Recorded, vars
    <3> QED BY <3>1, <3>2, <3>3, <3>4 DEF FileIInv
  <2> QED BY <2>1, <2>2
<1> QED BY <1>1, <1>2, PTL DEF Spec

\* Every variable has its type.
THEOREM FileTyping == Spec => []FileTypeOK
<1>1. FileIInv => FileTypeOK
  <2> SUFFICES ASSUME FileTyped
               PROVE  FileTypeOK
    BY DEF FileIInv
  <2>1. ASSUME NEW i \in 1 .. Len(lines)
        PROVE  lines[i] = Torn \/ lines[i].call \in Calls
    <3>1. lines[i] \in LineSet
      BY DEF FileTyped
    <3> QED BY <3>1 DEF LineSet, WholeLine
  <2> QED BY <2>1 DEF FileTyped, FileTypeOK
<1> QED BY <1>1, FileInvariant, PTL

-----------------------------------------------------------------------------
(* A line that reaches the disk is a step of the ledger.                   *)

LEMMA OfferedIsLedgerStep ==
    ASSUME NEW i \in ImageSet, NEW line, Offered(i, line),
           durableImage = i, durableImage' = ApplyLine(i, line)
    PROVE  DurableLedger!LedgerNext
<1> DEFINE c == line.call  e == line.event  later == Created[c] + 1
<1>1. c \in Calls /\ e \in Events(i, c) /\ later \in 0 .. MaxTime
  BY CallTimes DEF Offered, WholeLine
<1>2. CASE e = CreateEvent(c) /\ Ledger(i.rows, i.book)!LongEnough(c)
  <2>1. DurableLedger!Create(c)
    <3>1. e.action = "CREATE" /\ ~Ledger(i.rows, i.book)!Known(c)
      BY <1>2 DEF Offered, Accepts, CreateEvent
    <3>2. /\ durableImage'.book = Append(durableImage.book, c)
          /\ durableImage'.rows =
               [durableImage.rows EXCEPT ![c] = Ledger(EmptyImage.rows, <<>>)!Applied(c, e)]
      BY <3>1 DEF ApplyLine
    <3>3. Ledger(EmptyImage.rows, <<>>)!Applied(c, e)
            = [Ledger(<<>>, <<>>)!NoRow EXCEPT !.state = "PENDING", !.covered = Created[c]]
      <4> DEFINE r == EmptyImage.rows[c]
      <4>1. r = Ledger(<<>>, <<>>)!NoRow
        BY <1>1 DEF EmptyImage
      <4>2. /\ e.state = "PENDING" /\ e.covered = Created[c]
            /\ (r.ambiguous \/ e.ambiguous) = FALSE
            /\ (r.gap \/ e.gap) = FALSE
            /\ (r.triggered \/ e.trigger) = FALSE
        BY <1>2, <4>1 DEF CreateEvent, Ledger!NoRow
      <4>3. Ledger(EmptyImage.rows, <<>>)!Applied(c, e)
              = [state |-> "PENDING", resolved |-> -1, covered |-> Created[c],
                 ambiguous |-> FALSE, gap |-> FALSE, triggered |-> FALSE]
        <5>1. (IF e.state \in Ledger(EmptyImage.rows, <<>>)!Terminal THEN e.at
               ELSE Ledger(EmptyImage.rows, <<>>)!Unset) = -1
          BY <4>2 DEF Ledger!Unset, Ledger!Terminal
        <5> HIDE DEF c, e
        <5> QED BY <4>2, <5>1, Zenon DEF Ledger!Applied
      <4>4. [Ledger(<<>>, <<>>)!NoRow EXCEPT !.state = "PENDING", !.covered = Created[c]]
              = [state |-> "PENDING", resolved |-> -1, covered |-> Created[c],
                 ambiguous |-> FALSE, gap |-> FALSE, triggered |-> FALSE]
        <5> DEFINE none == Ledger(<<>>, <<>>)!NoRow
                   u == Ledger(<<>>, <<>>)!Unset
                   no == FALSE
                   opened == [none EXCEPT !.state = "PENDING"]
        <5>1. none = [state |-> "NONE", resolved |-> u, covered |-> 0,
                      ambiguous |-> no, gap |-> no, triggered |-> no]
          BY Zenon DEF Ledger!NoRow
        <5>2. u = -1
          BY DEF Ledger!Unset
        <5> HIDE DEF c, none, u, no
        <5>3. opened = [state |-> "PENDING", resolved |-> u, covered |-> 0,
                          ambiguous |-> no, gap |-> no, triggered |-> no]
          BY <5>1
        <5>4. [none EXCEPT !.state = "PENDING", !.covered = Created[c]]
                = [opened EXCEPT !.covered = Created[c]]
          OBVIOUS
        <5> HIDE DEF opened
        <5>5. [opened EXCEPT !.covered = Created[c]]
              = [state |-> "PENDING", resolved |-> u, covered |-> Created[c],
                 ambiguous |-> no, gap |-> no, triggered |-> no]
          BY <5>3
        <5> QED BY <5>2, <5>4, <5>5, Zenon DEF none, no
      <4> HIDE DEF c, e
      <4> QED BY <4>3, <4>4
    <3> QED BY <1>2, <3>1, <3>2, <3>3
            DEF DurableLedger!Create, DurableLedger!LongEnough, Ledger!LongEnough,
                DurableLedger!Known, Ledger!Known, DurableLedger!NoRow, Ledger!NoRow,
                DurableLedger!Unset, Ledger!Unset
  <2> QED BY <1>1, <2>1 DEF DurableLedger!LedgerNext, DurableLedger!AnyCreate
<1>3. CASE e.action # "CREATE"
  <2>1. DurableLedger!AppendEvent(c, e)
    <3>1. /\ Ledger(i.rows, i.book)!StampOk(c, e)
          /\ Ledger(i.rows, i.book)!Valid(c, e)
      BY <1>3 DEF Offered, Accepts
    <3>2. /\ durableImage'.book = durableImage.book
          /\ durableImage'.rows =
               [durableImage.rows EXCEPT ![c] = Ledger(i.rows, <<>>)!Applied(c, e)]
      BY <1>3 DEF ApplyLine
    <3> HIDE DEF c, e
    <3> QED BY <3>1, <3>2
            DEF DurableLedger!AppendEvent, DurableLedger!StampOk, Ledger!StampOk,
                DurableLedger!Applied, Ledger!Applied, DurableLedger!Unset, Ledger!Unset,
                DurableLedger!Terminal, Ledger!Terminal, DurableLedger!Open, Ledger!Open,
                DurableLedger!Valid, Ledger!Valid,
                DurableLedger!OpenOnly, Ledger!OpenOnly, DurableLedger!IsOpen, Ledger!IsOpen,
                DurableLedger!ForwardOnly, Ledger!ForwardOnly,
                DurableLedger!CancelOnlyPending, Ledger!CancelOnlyPending,
                DurableLedger!ActiveHolds, Ledger!ActiveHolds,
                DurableLedger!AmbiguousLoses, Ledger!AmbiguousLoses
  <2>2. CASE e.action = "CANCEL"
    <3>1. e = Ledger(i.rows, i.book)!CancelEvent(c, "CANCEL_REASON", later)
      BY <1>1, <2>2 DEF Events, CreateEvent, Ledger!AdvanceEvent
    <3>2. durableImage.rows[c].state = "PENDING"
      BY <1>3, <2>2 DEF Offered, Accepts, Ledger!Valid, Ledger!CancelOnlyPending
    <3>3. DurableLedger!Cancel(c, "CANCEL_REASON", later)
      BY <2>1, <3>1, <3>2 DEF DurableLedger!Cancel, DurableLedger!CancelEvent, Ledger!CancelEvent
    <3> QED BY <1>1, <3>3
            DEF DurableLedger!LedgerNext, DurableLedger!AnyCancel, DurableLedger!Reasons,
                DurableLedger!Time
  <2>3. CASE e.action # "CANCEL"
    <3>1. PICK s \in {"ACTIVE", "LOSS"} :
            e = DurableLedger!AdvanceEvent(s, later, later, "ROUTINE", FALSE, FALSE, s = "ACTIVE")
      <4>1. CreateEvent(c).action = "CREATE"
            /\ Ledger(i.rows, i.book)!CancelEvent(c, "CANCEL_REASON", later).action = "CANCEL"
        BY DEF CreateEvent, Ledger!CancelEvent
      <4>2. \E s \in {"ACTIVE", "LOSS"} :
              e = Ledger(i.rows, i.book)!AdvanceEvent(s, later, later, "ROUTINE",
                                                      FALSE, FALSE, s = "ACTIVE")
        <5> HIDE DEF e
        <5> QED BY <1>1, <1>3, <2>3, <4>1 DEF Events
      <4> HIDE DEF c, e, later
      <4> QED BY <4>2, Zenon DEF Ledger!AdvanceEvent, DurableLedger!AdvanceEvent
    <3>2. DurableLedger!Known(c)
      BY <1>3 DEF Offered, Accepts, Ledger!Valid, Ledger!OpenOnly, Ledger!IsOpen, Ledger!Open,
                  DurableLedger!Known
    <3>3. DurableLedger!Advance(c, e)
      BY <2>1, <3>2 DEF DurableLedger!Advance
    <3> DEFINE t == (s = "ACTIVE")
    <3>4. /\ s \in DurableLedger!Open \cup DurableLedger!Terminal
          /\ later \in DurableLedger!Time /\ t \in BOOLEAN
      BY <1>1 DEF DurableLedger!Open, DurableLedger!Terminal, DurableLedger!Time
    <3>5. DurableLedger!Advance(c, DurableLedger!AdvanceEvent(s, later, later, "ROUTINE",
                                                              FALSE, FALSE, t))
      BY <3>1, <3>3
    <3> HIDE DEF t, c, e, later
    <3>6. DurableLedger!AnyAdvance
      BY <1>1, <3>4, <3>5 DEF DurableLedger!AnyAdvance
    <3> QED BY <3>6 DEF DurableLedger!LedgerNext
  <2> QED BY <2>2, <2>3
<1> QED BY <1>1, <1>2, <1>3 DEF Events, Ledger!AdvanceEvent, Ledger!CancelEvent

LEMMA DurableStep ==
    ASSUME FileIInv, Next
    PROVE  UNCHANGED <<durableImage.rows, durableImage.book>> \/ DurableLedger!LedgerNext
<1> DEFINE kept == First(lines, durable)
<1>1. /\ lines \in Seq(LineSet) /\ durable \in 0 .. Len(lines)
      /\ kept \in Seq(LineSet) /\ Len(kept) = durable /\ Image(kept) \in ImageSet
      /\ FileTyped /\ Begun /\ Shared /\ Recorded
  BY FirstFacts, ImageFacts DEF FileIInv, FileTyped
<1>2. durableImage = Image(kept) /\ durableImage' = Image(First(lines, durable))'
  BY DEF durableImage, First
<1>3. CASE WriteBack
  <2>1. durable < Len(lines) /\ durable' = durable + 1 /\ lines' = lines
    BY <1>3 DEF WriteBack
  <2> DEFINE line == lines[durable + 1]
  <2>2. durableImage' = ReadLine(Image(kept), line) /\ line \in LineSet
    BY <1>1, <1>2, <2>1, FirstGrows
  <2>3. CASE ReadLine(Image(kept), line).ok
    <3>1. durableImage' = ApplyLine(Image(kept), line)
      BY <1>1, <2>2, <2>3, ReadFacts
    <3>2. Offered(Image(kept), line)
      BY <1>1, <1>2, <2>1, <2>2, <2>3 DEF Recorded
    <3> QED BY <1>1, <1>2, <3>1, <3>2, OfferedIsLedgerStep
  <2>4. CASE ~ReadLine(Image(kept), line).ok
    <3>1. durableImage'.rows = Image(kept).rows /\ durableImage'.book = Image(kept).book
      BY <1>1, <2>2, <2>4, ReadFacts
    <3> QED BY <1>2, <3>1
  <2> QED BY <2>3, <2>4
<1>4. CASE lines' = lines /\ durable' = durable
  BY <1>2, <1>4
<1>5. ASSUME NEW line \in LineSet, Lengthened(line), durable' = durable
      PROVE  UNCHANGED <<durableImage.rows, durableImage.book>>
  <2>1. First(lines', durable) = kept
    BY <1>1, <1>5, FirstOfAppend DEF Lengthened
  <2> QED BY <1>2, <1>5, <2>1
<1>6. CASE /\ PowerLoss /\ durable' = Len(lines')
           /\ lines' \in {kept, Append(kept, Torn)}
  <2> HIDE DEF kept
  <2>1. CASE lines' = kept
    <3>1. lines' \in Seq(LineSet) /\ Len(lines') \in 0 .. Len(lines')
      BY <1>1, <2>1
    <3>2. First(lines', durable') = lines'
      BY <1>6, <3>1, FirstFacts
    <3> QED BY <1>2, <2>1, <3>2
  <2>2. CASE lines' = Append(kept, Torn)
    <3>1. /\ lines' \in Seq(LineSet) /\ Len(lines') \in 0 .. Len(lines')
          /\ Image(lines)' = ReadLine(Image(kept), Torn)
      BY <1>1, <2>2, AppendFacts, TornIsALine
    <3>2. First(lines', durable') = lines'
      BY <1>6, <3>1, FirstFacts
    <3>3. durableImage' = ReadLine(Image(kept), Torn)
      BY <1>2, <3>1, <3>2
    <3>4. durableImage'.rows = Image(kept).rows /\ durableImage'.book = Image(kept).book
      BY <1>1, <3>3, TornIsRefused, TornIsALine, ReadFacts
    <3> QED BY <1>2, <3>4
  <2> QED BY <1>6, <2>1, <2>2
<1>7. ASSUME ~WriteBack, ~PowerLoss
      PROVE  durable' = durable
  BY <1>7 DEF Next, ProcNext, Start, Begin, Write, Commit, WriteFails, Close, Join, JoinTimesOut,
              Exit
<1>8. CASE ~WriteBack /\ ~PowerLoss
  <2>1. lines' = lines \/ \E line \in LineSet : Lengthened(line)
    BY <1>1, <1>8, LinesStep
  <2> QED BY <1>4, <1>5, <1>7, <1>8, <2>1
<1>9. CASE PowerLoss
  BY <1>1, <1>6, <1>9, PowerLossLines
<1> QED BY <1>3, <1>8, <1>9

\* Appends, crashes, losses and reloads never do to the calls on disk what the
\* ledger's operations would not, even while two workers write one file.
THEOREM FileImplementsLedger == Spec => ImplementsLedger
<1>1. Init => DurableLedger!LedgerInit
  <2> SUFFICES ASSUME Init
               PROVE  DurableLedger!LedgerInit
    OBVIOUS
  <2>1. durableImage = EmptyImage
    <3>1. First(<<>>, 0) = <<>>
      BY DEF First
    <3> QED BY <3>1, ImageOfNothing DEF Init, durableImage, First
  <2> QED BY <2>1 DEF DurableLedger!LedgerInit, EmptyImage, DurableLedger!NoRow, Ledger!NoRow,
                      DurableLedger!Unset, Ledger!Unset
<1>2. FileIInv /\ [Next]_vars =>
        [UNCHANGED <<durableImage.rows, durableImage.book>> \/ DurableLedger!LedgerNext]_vars
  BY DurableStep
<1> QED BY <1>1, <1>2, FileInvariant, PTL DEF Spec, ImplementsLedger

-----------------------------------------------------------------------------
(* The second invariant, step by step.                                     *)

LEMMA HeldStep ==
    ASSUME FileTyped, Held, Next
    PROVE  Held'
<1> USE FileConstants DEF FileConstants, FileTyped, Held
<1>1. CASE WriteBack
  BY <1>1 DEF WriteBack
<1>2. CASE PowerLoss
  BY <1>2 DEF PowerLoss, Running
<1>3. ASSUME NEW p \in Procs, ProcNext(p)
      PROVE  Held'
  <2>1. CASE Start(p)
    BY <2>1 DEF Start
  <2>2. CASE \E c \in Calls : \E e \in Events(Image(memory[p]), c) : Begin(p, c, e)
    BY <2>2 DEF Begin
  <2>3. CASE Write(p)
    BY <2>3 DEF Write
  <2>4. CASE Commit(p)
    BY <2>4 DEF Commit
  <2>5. CASE WriteFails(p)
    BY <2>5 DEF WriteFails, Threaded
  <2>6. CASE Close(p)
    BY <2>6 DEF Close
  <2>7. CASE Join(p)
    BY <2>7 DEF Join, Unlock
  <2>8. CASE JoinTimesOut(p)
    BY <2>8 DEF JoinTimesOut, Unlock
  <2>9. CASE Exit(p)
    BY <2>9 DEF Exit, Unlock, Running
  <2> QED BY <1>3, <2>1, <2>2, <2>3, <2>4, <2>5, <2>6, <2>7, <2>8, <2>9 DEF ProcNext
<1> QED BY <1>1, <1>2, <1>3 DEF Next

LEMMA AloneStep ==
    ASSUME FileTyped, Alone, Next
    PROVE  Alone'
<1> USE DEF FileTyped, Alone
<1>1. CASE WriteBack
  BY <1>1 DEF WriteBack
<1>2. CASE PowerLoss
  BY <1>2 DEF PowerLoss, Running
<1>3. ASSUME NEW p \in Procs, ProcNext(p)
      PROVE  Alone'
  <2>1. CASE Start(p)
    BY <2>1 DEF Start
  <2>2. CASE \E c \in Calls : \E e \in Events(Image(memory[p]), c) : Begin(p, c, e)
    BY <2>2 DEF Begin
  <2>3. CASE Write(p)
    BY <2>3 DEF Write
  <2>4. CASE Commit(p)
    BY <2>4 DEF Commit
  <2>5. CASE WriteFails(p)
    BY <2>5 DEF WriteFails, Threaded
  <2>6. CASE Close(p)
    BY <2>6 DEF Close
  <2>7. CASE Join(p)
    BY <2>7 DEF Join, Joinable
  <2>8. CASE JoinTimesOut(p)
    BY <2>8 DEF JoinTimesOut
  <2>9. CASE Exit(p)
    BY <2>9 DEF Exit
  <2> QED BY <1>3, <2>1, <2>2, <2>3, <2>4, <2>5, <2>6, <2>7, <2>8, <2>9 DEF ProcNext
<1> QED BY <1>1, <1>2, <1>3 DEF Next

LEMMA OverrunStays == Next /\ ~overrun' => ~overrun
  BY DEF Next, ProcNext, WriteBack, PowerLoss, Start, Begin, Write, Commit, WriteFails, Close,
         Join, JoinTimesOut, Exit

\* A worker in the middle of an append is the holder's.
LEMMA WriterHolds ==
    ASSUME FileTyped, Held, Alone, ~overrun, NEW p \in Procs, Threaded(p), step[p] # "ended"
    PROVE  owner = p /\ owner # NoOne
  BY FileConstants DEF FileConstants, FileTyped, Held, Alone, Threaded

\* The holder's write ends a file that can be read with a line that can be read.
LEMMA HolderWrites ==
    ASSUME LockIInv, ~overrun, NEW p \in Procs, Write(p)
    PROVE  /\ owner = p /\ lines = memory[p] /\ lines \in Seq(LineSet)
           /\ pending[p] \in LineSet
           /\ lines' = Append(lines, pending[p]) /\ Image(lines)'.ok
<1>1. /\ FileTyped /\ Begun /\ Shared /\ Threaded(p) /\ step[p] = "write"
      /\ lines' = Appended(pending[p])
  BY DEF LockIInv, FileIInv, Write
<1>2. owner = p /\ owner # NoOne
  BY <1>1, WriterHolds DEF LockIInv
<1>3. lines = memory[p] /\ Image(lines).ok
  BY <1>1, <1>2 DEF LockIInv, Current
<1>4. Offered(Image(lines), pending[p]) /\ lines \in Seq(LineSet)
  BY <1>1, <1>3 DEF Begun, FileTyped
<1>5. pending[p] \in LineSet /\ Image(Append(lines, pending[p])).ok
  BY <1>3, <1>4, OfferedAppends
<1>6. lines' = Append(lines, pending[p])
  BY <1>1, <1>3, <1>5, AppendedFacts
<1> QED BY <1>2, <1>3, <1>4, <1>5, <1>6

\* A failed write of the holder leaves the file, or a cut line after it.
LEMMA HolderFails ==
    ASSUME LockIInv, ~overrun, NEW p \in Procs, WriteFails(p)
    PROVE  /\ owner = p /\ Image(lines).ok
           /\ \/ lines' = lines /\ (lines = memory[p] \/ lines = Append(memory[p], pending[p]))
              \/ lines' = Append(lines, Torn) /\ lines = memory[p]
<1>1. FileTyped /\ Threaded(p) /\ step[p] \in {"write", "sync"}
  BY DEF LockIInv, FileIInv, WriteFails
<1>2. owner = p /\ owner # NoOne
  BY <1>1, WriterHolds DEF LockIInv
<1>3. CASE step[p] = "write"
  <2>1. lines = memory[p] /\ Image(lines).ok
    BY <1>2, <1>3 DEF LockIInv, Current
  <2>2. lines' \in {lines, Appended(Torn)}
    BY <1>3 DEF WriteFails
  <2> QED BY <1>1, <1>2, <2>1, <2>2, AppendedFacts, TornIsALine
<1>4. CASE step[p] = "sync"
  BY <1>2, <1>4 DEF LockIInv, Current, WriteFails
<1> QED BY <1>1, <1>3, <1>4

LEMMA ReadableStep ==
    ASSUME LockIInv, Next
    PROVE  Readable'
<1>1. FileTyped /\ Begun /\ Shared /\ lines \in Seq(LineSet) /\ Readable
  BY DEF LockIInv, FileIInv, FileTyped
<1> SUFFICES ASSUME ~overrun'
             PROVE  Readable'
  BY DEF Readable
<1>2. ~overrun
  BY OverrunStays
<1>3. CASE lines' = lines
  BY <1>1, <1>2, <1>3 DEF Readable
<1>4. ASSUME NEW p \in Procs, Write(p)
      PROVE  Readable'
  BY <1>2, <1>4, HolderWrites DEF Readable
<1>5. ASSUME NEW p \in Procs, WriteFails(p)
      PROVE  Readable'
  <2>1. Image(lines).ok /\ (lines' = lines \/ lines' = Append(lines, Torn))
    BY <1>2, <1>5, HolderFails
  <2> QED BY <1>1, <2>1 DEF Readable
<1>6. CASE PowerLoss
  <2> DEFINE kept == First(lines, durable)
  <2>1. durable \in 0 .. Len(lines) /\ kept \in Seq(LineSet)
    BY <1>1, FirstFacts DEF FileTyped
  <2>2. lines' = kept \/ lines' = Append(kept, Torn) \/ lines' = lines
    BY <1>1, <1>6, PowerLossLines
  <2>3. CASE Image(lines).ok
    <3>1. Image(kept).ok
      BY <1>1, <2>1, <2>3, PrefixReadable
    <3> HIDE DEF kept
    <3> QED BY <2>1, <2>2, <2>3, <3>1 DEF Readable
  <2>4. CASE durable = Len(lines)
    <3>1. lines' = lines
      BY <1>6, <2>4 DEF PowerLoss
    <3> QED BY <1>3, <3>1
  <2>5. CASE ~Image(lines).ok /\ durable # Len(lines)
    <3>1. PICK front \in Seq(LineSet) : lines = Append(front, Torn) /\ Image(front).ok
      BY <1>1, <1>2, <2>5 DEF Readable
    <3>2. durable \in 0 .. Len(front)
      BY <2>1, <2>5, <3>1
    <3>3. kept = First(front, durable)
      BY <3>1, <3>2, FirstOfAppend, TornIsALine
    <3>4. Image(kept).ok
      BY <3>1, <3>2, <3>3, PrefixReadable
    <3> HIDE DEF kept
    <3>5. CASE lines' # lines
      BY <2>1, <2>2, <3>4, <3>5 DEF Readable
    <3> QED BY <1>3, <3>5
  <2> QED BY <2>3, <2>4, <2>5
<1>7. ASSUME ~PowerLoss, \A p \in Procs : ~Write(p) /\ ~WriteFails(p)
      PROVE  lines' = lines
  BY <1>7 DEF Next, ProcNext, WriteBack, Start, Begin, Commit, Close, Join, JoinTimesOut, Exit
<1> QED BY <1>3, <1>4, <1>5, <1>6, <1>7

LEMMA CurrentStep ==
    ASSUME LockIInv, Next
    PROVE  Current'
<1> DEFINE o == owner'
           Now(q) == /\ step'[q] \in {"ready", "write"} => lines' = memory'[q] /\ Image(lines)'.ok
                     /\ step'[q] = "sync" =>
                          lines' = Append(memory'[q], pending'[q]) /\ Image(lines)'.ok
                     /\ step'[q] = "ended" =>
                          \/ lines' = memory'[q]
                          \/ \E line \in LineSet : lines' = Append(memory'[q], line)
<1> SUFFICES ASSUME ~overrun', o # NoOne
             PROVE  Now(o)
  BY DEF Current
<1>1. /\ FileTyped /\ Begun /\ Shared /\ lines \in Seq(LineSet) /\ Current /\ Alone /\ Held
      /\ ~overrun
  BY OverrunStays DEF LockIInv, FileIInv, FileTyped
<1>2. o \in Procs
  <2>1. FileTyped'
    BY <1>1, TypedStep
  <2> QED BY <2>1 DEF FileTyped
<1>3. ASSUME lines' = lines, o = owner, step'[o] = step[o], memory'[o] = memory[o],
             step[o] = "sync" => pending'[o] = pending[o]
      PROVE  Now(o)
  BY <1>1, <1>2, <1>3 DEF Current, FileTyped
<1>4. CASE WriteBack
  <2> HIDE DEF Now
  <2> QED BY <1>3, <1>4 DEF WriteBack
<1>5. CASE PowerLoss
  BY <1>5 DEF PowerLoss
<1>6. ASSUME NEW p \in Procs, ProcNext(p)
      PROVE  Now(o)
  <2> HIDE DEF Now
  <2>1. CASE Start(p)
    <3>1. o = p /\ lines' = memory'[p] /\ Image(lines)'.ok /\ step'[p] = "ready"
      BY <1>1, <2>1 DEF Start, FileTyped
    <3> QED BY <3>1 DEF Now
  <2>2. CASE \E c \in Calls : \E e \in Events(Image(memory[p]), c) : Begin(p, c, e)
    <3> PICK c \in Calls : \E e \in Events(Image(memory[p]), c) : Begin(p, c, e)
      BY <2>2
    <3>1. PICK e \in Events(Image(memory[p]), c) : Begin(p, c, e)
      OBVIOUS
    <3>2. /\ o = owner /\ lines' = lines /\ memory' = memory /\ Threaded(p) /\ step[p] = "ready"
          /\ step' = [step EXCEPT ![p] = "write"]
          /\ \A q \in Procs \ {p} : pending'[q] = pending[q]
      BY <1>1, <3>1 DEF Begin, FileTyped
    <3>3. owner = p
      BY <1>1, <3>2, WriterHolds
    <3>4. step'[p] = "write"
      BY <1>1, <3>2 DEF FileTyped
    <3>5. lines = memory[p] /\ Image(lines).ok
      BY <1>1, <3>2, <3>3 DEF Current
    <3> QED BY <3>2, <3>3, <3>4, <3>5 DEF Now
  <2>3. CASE Write(p)
    <3>1. /\ owner = p /\ lines = memory[p] /\ lines' = Append(lines, pending[p])
          /\ Image(lines)'.ok
      BY <1>1, <2>3, HolderWrites
    <3>2. o = owner /\ memory' = memory /\ pending' = pending /\ step'[p] = "sync"
      BY <1>1, <2>3 DEF Write, FileTyped
    <3> QED BY <3>1, <3>2 DEF Now
  <2>4. CASE Commit(p)
    <3>1. Threaded(p) /\ step[p] = "sync"
      BY <2>4 DEF Commit
    <3>2. owner = p
      BY <1>1, <3>1, WriterHolds
    <3>3. lines = Append(memory[p], pending[p]) /\ Image(lines).ok
      BY <1>1, <1>2, <2>4, <3>1, <3>2 DEF Current, Commit
    <3>4. /\ o = owner /\ lines' = lines /\ step'[p] = "ready"
          /\ memory'[p] = Append(memory[p], pending[p])
      BY <1>1, <2>4 DEF Commit, FileTyped
    <3> QED BY <3>2, <3>3, <3>4 DEF Now
  <2>5. CASE WriteFails(p)
    <3>1. /\ owner = p
          /\ \/ lines' = lines /\ (lines = memory[p] \/ lines = Append(memory[p], pending[p]))
             \/ lines' = Append(lines, Torn) /\ lines = memory[p]
      BY <1>1, <2>5, HolderFails
    <3>2. o = owner /\ memory' = memory /\ pending[p] \in LineSet /\ step'[p] = "ended"
      BY <1>1, <2>5 DEF WriteFails, FileTyped
    <3> QED BY <3>1, <3>2, TornIsALine DEF Now
  <2>6. CASE Close(p)
    BY <1>3, <2>6 DEF Close
  <2>7. CASE Join(p)
    <3>1. owner # p /\ o = owner
      BY <1>1, <2>7 DEF Join, Unlock
    <3>2. step'[o] = step[o]
      BY <1>1, <1>2, <2>7, <3>1 DEF Join, FileTyped
    <3> QED BY <1>3, <2>7, <3>1, <3>2 DEF Join
  <2>8. CASE JoinTimesOut(p)
    BY <2>8 DEF JoinTimesOut
  <2>9. CASE Exit(p)
    <3>1. owner # p /\ o = owner
      BY <1>1, <2>9 DEF Exit, Unlock
    <3>2. step'[o] = step[o] /\ pending'[o] = pending[o] /\ memory'[o] = memory[o]
      BY <1>1, <1>2, <2>9, <3>1 DEF Exit, FileTyped
    <3> QED BY <1>3, <2>9, <3>1, <3>2 DEF Exit
  <2> QED BY <1>6, <2>1, <2>2, <2>3, <2>4, <2>5, <2>6, <2>7, <2>8, <2>9 DEF ProcNext
<1> HIDE DEF Now
<1> QED BY <1>4, <1>5, <1>6 DEF Next

LEMMA KeptStep ==
    ASSUME LockIInv, Next
    PROVE  Kept'
<1> SUFFICES ASSUME ~overrun', NEW line \in acked'
             PROVE  line \in WholeLine /\ line.seq < durable' /\ lines'[line.seq + 1] = line
  BY DEF Kept
<1>1. /\ FileTyped /\ Begun /\ Shared /\ lines \in Seq(LineSet) /\ Current /\ Alone /\ Held
      /\ durable \in 0 .. Len(lines) /\ Len(lines) \in Nat
      /\ ~overrun
  BY OverrunStays DEF LockIInv, FileIInv, FileTyped
<1>2. CASE line \in acked
  <2>1. line \in WholeLine /\ line.seq < durable /\ lines[line.seq + 1] = line
    BY <1>1, <1>2 DEF LockIInv, Kept
  <2>2. line.seq + 1 \in 1 .. durable /\ line.seq \in Nat
    BY <1>1, <2>1 DEF WholeLine
  <2>3. ASSUME NEW x \in LineSet, lines' = Append(lines, x)
        PROVE  lines'[line.seq + 1] = line
    BY <1>1, <2>1, <2>2, <2>3
  <2>4. CASE PowerLoss
    <3> DEFINE kept == First(lines, durable)
    <3>1. kept \in Seq(LineSet) /\ Len(kept) = durable /\ kept[line.seq + 1] = line
      BY <1>1, <2>1, <2>2, FirstFacts
    <3>2. durable' = Len(lines') /\ (lines' = kept \/ lines' = Append(kept, Torn))
      BY <1>1, <2>4, PowerLossLines
    <3> HIDE DEF kept
    <3>3. Append(kept, Torn)[line.seq + 1] = line /\ Len(Append(kept, Torn)) = durable + 1
      BY <2>2, <3>1, TornIsALine
    <3> QED BY <1>1, <2>1, <2>2, <3>1, <3>2, <3>3
  <2>5. CASE WriteBack
    <3>1. durable' = durable + 1 /\ lines' = lines
      BY <2>5 DEF WriteBack
    <3> QED BY <1>1, <2>1, <2>2, <3>1
  <2>6. CASE ~PowerLoss /\ ~WriteBack
    <3>1. durable' = durable
      BY <2>6 DEF Next, ProcNext, Start, Begin, Write, Commit, WriteFails, Close, Join,
                  JoinTimesOut, Exit
    <3>2. lines' = lines \/ \E x \in LineSet : lines' = Append(lines, x)
      BY <1>1, <2>6, LinesStep DEF Lengthened
    <3> QED BY <2>1, <2>3, <3>1, <3>2
  <2> QED BY <2>4, <2>5, <2>6
<1>3. CASE line \notin acked
  <2>1. PICK p \in Procs : Commit(p) /\ line = pending[p]
    BY <1>3 DEF Next, ProcNext, WriteBack, PowerLoss, Start, Begin, Write, Commit, WriteFails,
                Close, Join, JoinTimesOut, Exit
  <2>2. /\ Threaded(p) /\ step[p] = "sync" /\ durable = Len(lines)
        /\ lines' = lines /\ durable' = durable
    BY <2>1 DEF Commit, Synced
  <2>3. owner = p /\ owner # NoOne
    BY <1>1, <2>2, WriterHolds
  <2>4. /\ lines = Append(memory[p], line) /\ Image(lines).ok
        /\ memory[p] \in Seq(LineSet) /\ line \in LineSet /\ line \in WholeLine
    BY <1>1, <2>1, <2>2, <2>3 DEF Current, Begun, Offered, FileTyped
  <2>5. line.seq = Len(memory[p]) /\ Len(lines) = Len(memory[p]) + 1
    BY <2>4, AppendFacts
  <2>6. Append(memory[p], line)[Len(memory[p]) + 1] = line /\ Len(memory[p]) \in Nat
    BY <2>4
  <2> QED BY <2>2, <2>4, <2>5, <2>6
<1> QED BY <1>2, <1>3

LEMMA LockInvariant == Spec => []LockIInv
<1>1. Init => Held /\ Alone /\ Readable /\ Current /\ Kept
  <2> SUFFICES ASSUME Init
               PROVE  Held /\ Alone /\ Readable /\ Current /\ Kept
    OBVIOUS
  <2>1. Image(lines).ok
    BY ImageOfNothing, EmptyImageTyped DEF Init
  <2> QED BY <2>1, FileConstants DEF Init, FileConstants, Held, Alone, Readable, Current, Kept
<1>2. FileIInv /\ FileIInv' /\ (Held /\ Alone /\ Readable /\ Current /\ Kept) /\ [Next]_vars
        => (Held /\ Alone /\ Readable /\ Current /\ Kept)'
  <2> SUFFICES ASSUME LockIInv, [Next]_vars
               PROVE  (Held /\ Alone /\ Readable /\ Current /\ Kept)'
    BY DEF LockIInv
  <2>1. CASE Next
    <3>1. Held' /\ Alone'
      BY <2>1, HeldStep, AloneStep DEF LockIInv, FileIInv
    <3> QED BY <2>1, <3>1, ReadableStep, CurrentStep, KeptStep
  <2>2. CASE UNCHANGED vars
    BY <2>2 DEF LockIInv, Held, Alone, Readable, Current, Kept, vars
  <2> QED BY <2>1, <2>2
<1>3. FileIInv /\ Held /\ Alone /\ Readable /\ Current /\ Kept => LockIInv
  BY DEF LockIInv
<1> QED BY <1>1, <1>2, <1>3, FileInvariant, PTL DEF Spec

\* What a crash, a failed write or another engine leaves of the events, and what the
\* engine that owns them remembers: an acknowledged event survives, only the last line
\* is ever cut, and nobody writes behind the back of the lock's holder.
THEOREM FilesAreSound == Spec => []FileIsSound
<1>1. ASSUME LockIInv
      PROVE  FileIsSound
  <2>1. FileTyped /\ lines \in Seq(LineSet) /\ Len(lines) \in Nat
    BY <1>1 DEF LockIInv, FileIInv, FileTyped
  <2>2. ASSUME ~overrun, ~Image(lines).ok
        PROVE  /\ Last(lines) = Torn /\ Image(Front(lines)).ok
               /\ Image(lines).length = Len(lines) - 1 /\ lines[Len(lines)] = Torn
    <3>1. PICK front \in Seq(LineSet) : lines = Append(front, Torn) /\ Image(front).ok
      BY <1>1, <2>2 DEF LockIInv, Readable
    <3>2. /\ Len(lines) = Len(front) + 1 /\ Len(front) \in Nat /\ lines # <<>>
          /\ lines[Len(lines)] = Torn /\ First(lines, Len(front)) = front
      BY <2>1, <3>1, TornIsALine, FirstOfAppend, FirstFacts DEF First
    <3>3. Last(lines) = Torn /\ Front(lines) = front
      BY <2>1, <3>2, FrontAndLast DEF Last
    <3>4. Image(front).length = Len(front) /\ Image(lines).length = Image(front).length
      BY <2>2, <3>1, ImageFacts, AppendFacts, TornIsALine
    <3> QED BY <3>1, <3>2, <3>3, <3>4
  <2>3. UnreadableOnlyIfTorn
    BY <2>2 DEF UnreadableOnlyIfTorn
  <2>4. AckedSurvives
    <3> SUFFICES ASSUME ~overrun, NEW line \in acked
                 PROVE  line.seq < Image(lines).length /\ lines[line.seq + 1] = line
      BY DEF AckedSurvives
    <3>1. line \in WholeLine /\ line.seq < durable /\ lines[line.seq + 1] = line
      BY <1>1 DEF LockIInv, Kept
    <3>2. line.seq \in Nat /\ line # Torn /\ line.seq < Len(lines)
      BY <2>1, <3>1, NotTorn DEF WholeLine, FileTyped
    <3>3. CASE Image(lines).ok
      BY <2>1, <3>1, <3>2, <3>3, ImageFacts
    <3>4. CASE ~Image(lines).ok
      <4>1. line.seq + 1 # Len(lines)
        BY <2>2, <3>1, <3>2, <3>4
      <4> QED BY <2>1, <2>2, <3>1, <3>2, <3>4, <4>1
    <3> QED BY <3>3, <3>4
  <2>5. OwnerIsCurrent
    <3> SUFFICES ASSUME owner # NoOne, ~overrun
                 PROVE  /\ IsPrefix(memory[owner], lines)
                        /\ Len(lines) - Len(memory[owner]) <=
                             IF step[owner] = "ready" THEN 0 ELSE 1
      BY DEF OwnerIsCurrent
    <3>1. /\ memory[owner] \in Seq(LineSet) /\ pending[owner] \in LineSet
          /\ step[owner] \in {"ready", "write", "sync", "ended"}
      BY <2>1 DEF FileTyped
    <3>2. CASE lines = memory[owner]
      BY <2>1, <3>2 DEF IsPrefix
    <3>3. ASSUME NEW line \in LineSet, lines = Append(memory[owner], line),
                 step[owner] # "ready"
          PROVE  /\ IsPrefix(memory[owner], lines)
                 /\ Len(lines) - Len(memory[owner]) <= 1
      <4>1. Len(lines) = Len(memory[owner]) + 1 /\ Len(memory[owner]) \in Nat
            /\ Len(memory[owner]) \in 0 .. Len(memory[owner])
        BY <3>1, <3>3
      <4>2. First(lines, Len(memory[owner])) = First(memory[owner], Len(memory[owner]))
        BY <3>1, <3>3, <4>1, FirstOfAppend
      <4> QED BY <4>1, <4>2 DEF IsPrefix, First
    <3> QED BY <1>1, <3>1, <3>2, <3>3 DEF LockIInv, Current
  <2> QED BY <2>3, <2>4, <2>5 DEF FileIsSound
<1> QED BY <1>1, LockInvariant, PTL

-----------------------------------------------------------------------------
(* Types.                                                                  *)

Account == Accounts \cup {NoAccount}

LoginCmds == {"connect", "preflight", "enter"}

RequestSet ==
    {r \in [id : Nat, cmd : LoginCmds \cup Chart, account : Account] :
        r.cmd = "connect" => r.account # NoAccount}

ReplySet == [request : RequestSet, ok : BOOLEAN, account : Account]

EngineSet == [phase : {"unborn", "running", "hung", "ended"}, stdin : BOOLEAN,
              inbox : Seq(RequestSet), outbox : Seq(ReplySet),
              account : Account, report : {"none", "clean", "halt"},
              chart : Account, director : Account]

SessionTyped ==
    /\ child \in 0 .. MaxEngines /\ engines \in [Engine -> EngineSet]
    /\ sequence \in Nat /\ unsettled \in SUBSET RequestSet
    /\ session \in Account /\ terminal \in Account
    /\ login \in BOOLEAN /\ leaving \in SUBSET Engine
    /\ quitting \in {"no", "stopping", "exited"}
    /\ strayed \in BOOLEAN /\ raced \in BOOLEAN

\* An engine that was never started has nothing, and engines are started in order.
Births ==
    /\ \A e \in Engine : Phase(e) = "unborn" =>
         /\ engines[e].inbox = <<>> /\ engines[e].outbox = <<>>
         /\ engines[e].account = NoAccount /\ engines[e].report = "none"
         /\ engines[e].chart = NoAccount /\ engines[e].director = NoAccount
         /\ quitting # "exited" => engines[e].stdin
    /\ \A e, f \in Engine : e < f /\ Phase(f) # "unborn" => Phase(e) # "unborn"
    /\ child # 0 => Phase(child) # "unborn"
    /\ child # 0 /\ quitting # "exited" => engines[child].stdin

\* A report belongs to a login.
Reported == \A e \in Engine : engines[e].report # "none" => engines[e].account # NoAccount

-----------------------------------------------------------------------------
(* The requests.                                                           *)

Numbered == \A r \in unsettled : 0 < r.id /\ r.id <= sequence

\* What lies with the attached engine is not settled.
Owned ==
    child # 0 =>
        /\ \A i \in 1 .. Len(engines[child].inbox) : engines[child].inbox[i] \in unsettled
        /\ \A i \in 1 .. Len(engines[child].outbox) :
             engines[child].outbox[i].request \in unsettled

\* It lies there in the order of its numbers: replies first.
Ordered ==
    child # 0 =>
        LET n == engines[child] IN
        /\ \A i, j \in 1 .. Len(n.inbox) : i < j => n.inbox[i].id < n.inbox[j].id
        /\ \A i, j \in 1 .. Len(n.outbox) : i < j => n.outbox[i].request.id < n.outbox[j].request.id
        /\ \A i \in 1 .. Len(n.outbox), j \in 1 .. Len(n.inbox) :
             n.outbox[i].request.id < n.inbox[j].id

QueueInv == Numbered /\ Owned /\ Ordered /\ PendingIsTheChilds

\* Once the program is to end only the poll goes on.
OnlyPolls == ~Open => \A r \in unsettled : r.cmd = "poll"

\* The login window has one request under way, unless it raced the studio.
OneLogin ==
    ~raced => \A r, s \in unsettled : r.cmd \in LoginCmds /\ s.cmd \in LoginCmds => r = s

\* A studio that is open has none.
NoLogin == ~raced /\ session # NoAccount => \A r \in unsettled : r.cmd \in Chart

-----------------------------------------------------------------------------
(* The windows and the accounts.                                           *)

\* A login window is open, or an engine is awaited, only when no session is.
Windows ==
    Open => /\ login => session = NoAccount /\ leaving = {}
            /\ leaving # {} => session = NoAccount /\ child = 0
            /\ \A e, f \in leaving : e = f

\* The engine of an open login window was never asked for a chart.
Fresh ==
    Open /\ login /\ child # 0 =>
        /\ engines[child].chart = NoAccount /\ engines[child].director = NoAccount
        /\ \A i \in 1 .. Len(engines[child].inbox) : engines[child].inbox[i].cmd \notin Chart

\* No engine is asked to log in after it was asked for a chart.
LoginFirst ==
    \A e \in Engine :
        /\ {engines[e].chart, engines[e].director} # {NoAccount} =>
             \A i \in 1 .. Len(engines[e].inbox) : engines[e].inbox[i].cmd # "connect"
        /\ \A i, j \in 1 .. Len(engines[e].inbox) :
             i < j /\ engines[e].inbox[i].cmd \in Chart => engines[e].inbox[j].cmd # "connect"

\* A studio about to open opens for the account the engine holds.
Entering ==
    ~raced /\ child # 0 /\ Alive(child) =>
        \A i \in 1 .. Len(engines[child].outbox) :
            LET reply == engines[child].outbox[i] IN
            reply.request.cmd = "enter" /\ reply.ok =>
                engines[child].account = reply.account /\ Entitled(engines[child])

\* A session without its engine has lost it to a timer or to the end of the program.
Replaced ==
    quitting # "exited" /\ session # NoAccount /\ (child = 0 \/ ~Open) =>
        \E e \in Engine : ~engines[e].stdin

StudioInv == OnlyPolls /\ OneLogin /\ NoLogin /\ Entering /\ Replaced /\ SessionIsAuthorized

ChartInv == Windows /\ Fresh /\ LoginFirst /\ ChartIsTheAccounts

\* What holds however the switch button is pressed.
EngineInv == SessionTyped /\ Births /\ Reported /\ QueueInv /\ TerminalIsTheAccounts

SessionIInv == EngineInv /\ (~Hurried => StudioInv /\ ChartInv)

-----------------------------------------------------------------------------
(* What the helpers of the model return.                                   *)

LEMMA EngineFacts ==
    ASSUME SessionTyped, NEW e \in Engine
    PROVE  /\ engines[e] \in EngineSet /\ e \in Nat /\ e # 0 /\ MaxEngines \in Nat
           /\ engines[e].inbox \in Seq(RequestSet) /\ engines[e].outbox \in Seq(ReplySet)
           /\ engines[e].account \in Account /\ engines[e].stdin \in BOOLEAN
           /\ Phase(e) \in {"unborn", "running", "hung", "ended"}
  BY SessionAssumption DEF SessionAssumption, SessionTyped, EngineSet, Engine, Phase

LEMMA ChildFacts ==
    ASSUME SessionTyped, child # 0
    PROVE  child \in Engine
  BY SessionAssumption DEF SessionAssumption, SessionTyped, Engine

LEMMA NextEngineFacts ==
    ASSUME SessionTyped, CanStart
    PROVE  /\ NextEngine \in Engine /\ Phase(NextEngine) = "unborn"
           /\ \A f \in 1 .. NextEngine - 1 : Phase(f) # "unborn"
<1> DEFINE T == {e \in Engine : Phase(e) = "unborn"}
<1>1. T \in SUBSET Nat /\ T # {} /\ MaxEngines \in Nat
  BY SessionAssumption DEF SessionAssumption, CanStart, Engine
<1>2. PICK e \in T : \A f \in T : e <= f
  <2> HIDE DEF T
  <2> QED BY <1>1, LeastElement
<1>3. ASSUME NEW f \in 1 .. e - 1
      PROVE  Phase(f) # "unborn"
  BY <1>1, <1>2 DEF Engine
<1> QED BY <1>2, <1>3 DEF NextEngine

\* A request r was written to the engine `to`.
Sent(to, r) ==
    /\ to \in Engine /\ to # 0 /\ child' = to
    /\ r \in RequestSet /\ r.id = sequence + 1
    /\ unsettled' = unsettled \cup {r} /\ sequence' = sequence + 1
    /\ engines' \in [Engine -> EngineSet]
    /\ \A e \in Engine \ {to} : engines'[e] = engines[e]
    /\ engines'[to].inbox = Append(engines[to].inbox, r)
    /\ engines'[to].outbox = engines[to].outbox
    /\ engines'[to].stdin = engines[to].stdin
    /\ engines'[to].account = engines[to].account
    /\ engines'[to].report = engines[to].report
    /\ engines'[to].chart = engines[to].chart
    /\ engines'[to].director = engines[to].director
    /\ engines'[to].phase = IF Phase(to) = "unborn" THEN "running" ELSE Phase(to)
    /\ child # 0 => to = child
    /\ child = 0 => /\ Phase(to) = "unborn" /\ engines[to].inbox = <<>>
                    /\ engines[to].outbox = <<>>
                    /\ \A e \in 1 .. to - 1 : Phase(e) # "unborn"

LEMMA SendFacts ==
    ASSUME SessionTyped, Births, NEW cmd \in LoginCmds \cup Chart, NEW acct \in Account,
           cmd = "connect" => acct # NoAccount, Send(cmd, acct)
    PROVE  \E r : r.cmd = cmd /\ r.account = acct /\ Sent(child', r)
<1> DEFINE to == child'
           r == [id |-> sequence + 1, cmd |-> cmd, account |-> acct]
<1>0. r = [id |-> sequence + 1, cmd |-> cmd, account |-> acct] /\ to = child'
  OBVIOUS
<1> HIDE DEF r, to
<1>1. /\ child # 0 \/ CanStart
      /\ to = IF child # 0 THEN child ELSE NextEngine
      /\ sequence' = sequence + 1
      /\ unsettled' = unsettled \cup {r}
      /\ engines' = [engines EXCEPT ![to].phase = IF @ = "unborn" THEN "running" ELSE @,
                                    ![to].inbox = Append(@, r)]
  BY <1>0 DEF Send
<1>2. /\ to \in Engine
      /\ child = 0 => Phase(to) = "unborn" /\ \A e \in 1 .. to - 1 : Phase(e) # "unborn"
  BY <1>1, ChildFacts, NextEngineFacts
<1>3. r \in RequestSet /\ r.id = sequence + 1 /\ r.cmd = cmd /\ r.account = acct
  BY <1>0 DEF RequestSet, SessionTyped
<1> DEFINE n == engines[to]
           m == [n EXCEPT !.phase = IF @ = "unborn" THEN "running" ELSE @,
                          !.inbox = Append(@, r)]
<1>4. n \in EngineSet /\ engines \in [Engine -> EngineSet]
  BY <1>2, EngineFacts DEF SessionTyped
<1>5. engines' = [engines EXCEPT ![to] = m]
  BY <1>1, <1>2, <1>4
<1> HIDE DEF n
<1>6. /\ m \in EngineSet
      /\ m.inbox = Append(n.inbox, r) /\ m.outbox = n.outbox /\ m.stdin = n.stdin
      /\ m.account = n.account /\ m.report = n.report /\ m.chart = n.chart
      /\ m.director = n.director
      /\ m.phase = IF n.phase = "unborn" THEN "running" ELSE n.phase
  <2> DEFINE p == IF n.phase = "unborn" THEN "running" ELSE n.phase
             q == Append(n.inbox, r)
             k == [n EXCEPT !.phase = p]
  <2>1. p \in {"unborn", "running", "hung", "ended"} /\ q \in Seq(RequestSet)
    BY <1>3, <1>4 DEF EngineSet
  <2>2. k \in EngineSet /\ k.inbox = n.inbox /\ k.phase = p
        /\ k.outbox = n.outbox /\ k.stdin = n.stdin /\ k.account = n.account
        /\ k.report = n.report /\ k.chart = n.chart /\ k.director = n.director
    <3> HIDE DEF p
    <3> QED BY <1>4, <2>1 DEF EngineSet
  <2>3. m = [k EXCEPT !.inbox = q]
    BY <1>4 DEF EngineSet
  <2> HIDE DEF m, k, q
  <2>4. m \in EngineSet /\ m.inbox = q /\ m.phase = k.phase
        /\ m.outbox = k.outbox /\ m.stdin = k.stdin /\ m.account = k.account
        /\ m.report = k.report /\ m.chart = k.chart /\ m.director = k.director
    BY <2>1, <2>2, <2>3 DEF EngineSet
  <2> QED BY <2>2, <2>4 DEF q
<1> HIDE DEF m
<1>7. engines'[to] = m /\ engines' \in [Engine -> EngineSet]
      /\ \A e \in Engine \ {to} : engines'[e] = engines[e]
  BY <1>2, <1>4, <1>5, <1>6
<1>8. child = 0 => engines[to].inbox = <<>> /\ engines[to].outbox = <<>>
  BY <1>2 DEF Births
<1>9. to # 0 /\ child' = to /\ (child # 0 => to = child)
  BY <1>0, <1>1, <1>2, EngineFacts
<1>10. Sent(to, r)
  BY <1>1, <1>2, <1>3, <1>6, <1>7, <1>8, <1>9 DEF n, Phase, Sent
<1> QED BY <1>0, <1>3, <1>10

\* What follows is the same for every step that only writes a request.
LEMMA SendEngine ==
    ASSUME EngineInv, NEW r, NEW to, Sent(to, r), quitting # "exited", raced' \in BOOLEAN,
           UNCHANGED <<session, login, leaving, quitting, terminal, strayed>>
    PROVE  EngineInv'
<1> USE DEF EngineInv
<1>1. SessionTyped'
  BY EngineFacts DEF SessionTyped, Sent, Engine
<1>2. Births'
  <2>1. Phase(to)' # "unborn" /\ \A e \in Engine \ {to} : Phase(e)' = Phase(e)
    BY DEF Sent, Phase
  <2>2. \A e, f \in Engine : e < f /\ Phase(f)' # "unborn" => Phase(e)' # "unborn"
    BY <2>1, SessionAssumption DEF Sent, Births, Engine, SessionAssumption
  <2>3. \A e \in Engine : Phase(e)' = "unborn" => e # to /\ engines'[e] = engines[e] /\ Phase(e) = "unborn"
    BY <2>1 DEF Sent
  <2>4. engines'[to].stdin
    BY DEF Sent, Births
  <2> QED BY <2>1, <2>2, <2>3, <2>4 DEF Births, Sent, Phase
<1>3. Reported'
  BY DEF Reported, Sent
<1>4. Numbered'
  BY DEF QueueInv, Numbered, Sent, SessionTyped, RequestSet
<1> DEFINE old == engines[to]
<1>5. /\ old.inbox \in Seq(RequestSet) /\ old.outbox \in Seq(ReplySet)
      /\ Len(engines'[to].inbox) = Len(old.inbox) + 1 /\ Len(old.inbox) \in Nat
      /\ \A i \in 1 .. Len(old.inbox) : engines'[to].inbox[i] = old.inbox[i]
                                        /\ old.inbox[i] \in RequestSet
      /\ engines'[to].inbox[Len(old.inbox) + 1] = r
      /\ engines'[to].outbox = old.outbox /\ Len(old.outbox) \in Nat
      /\ \A i \in 1 .. Len(old.outbox) : old.outbox[i] \in ReplySet
  BY EngineFacts DEF Sent
<1> HIDE DEF old
<1>6. /\ child # 0 => /\ \A i \in 1 .. Len(old.inbox) : old.inbox[i] \in unsettled
                      /\ \A i \in 1 .. Len(old.outbox) : old.outbox[i].request \in unsettled
      /\ child = 0 => Len(old.inbox) = 0 /\ Len(old.outbox) = 0
  BY DEF Sent, QueueInv, Owned, old
<1>7. Owned'
  <2>1. \A i \in 1 .. Len(engines'[to].inbox) : engines'[to].inbox[i] \in unsettled'
    <3> SUFFICES ASSUME NEW i \in 1 .. Len(old.inbox) + 1
                 PROVE  engines'[to].inbox[i] \in unsettled'
      BY <1>5
    <3>1. CASE i = Len(old.inbox) + 1
      BY <1>5, <3>1 DEF Sent
    <3>2. CASE i \in 1 .. Len(old.inbox)
      BY <1>5, <1>6, <3>2 DEF Sent
    <3> QED BY <3>1, <3>2, <1>5
  <2>2. \A i \in 1 .. Len(engines'[to].outbox) : engines'[to].outbox[i].request \in unsettled'
    BY <1>5, <1>6 DEF Sent
  <2> QED BY <2>1, <2>2 DEF Owned, Sent
<1>8. Ordered'
  <2>1. /\ \A i \in 1 .. Len(old.inbox) : old.inbox[i].id < r.id
        /\ \A i \in 1 .. Len(old.outbox) : old.outbox[i].request.id < r.id
    <3>1. \A s \in unsettled : s.id < r.id
      BY DEF QueueInv, Numbered, Sent, SessionTyped, RequestSet
    <3> QED BY <3>1, <1>6
  <2>2. /\ \A i, j \in 1 .. Len(old.inbox) : i < j => old.inbox[i].id < old.inbox[j].id
        /\ \A i, j \in 1 .. Len(old.outbox) :
              i < j => old.outbox[i].request.id < old.outbox[j].request.id
        /\ \A i \in 1 .. Len(old.outbox), j \in 1 .. Len(old.inbox) :
              old.outbox[i].request.id < old.inbox[j].id
    <3>1. CASE child = 0
      BY <3>1, <1>6
    <3>2. CASE child # 0
      <4>1. Ordered /\ to = child
        BY <3>2 DEF QueueInv, Sent
      <4> QED BY <3>2, <4>1 DEF Ordered, old
    <3> QED BY <3>1, <3>2
  <2>3. ASSUME NEW j \in 1 .. Len(old.inbox) + 1
        PROVE  \/ j = Len(old.inbox) + 1
               \/ j \in 1 .. Len(old.inbox)
    BY <1>5
  <2>4. \A i, j \in 1 .. Len(old.inbox) + 1 :
           i < j => engines'[to].inbox[i].id < engines'[to].inbox[j].id
    <3> TAKE i, j \in 1 .. Len(old.inbox) + 1
    <3> HAVE i < j
    <3>1. i \in 1 .. Len(old.inbox)
      BY <1>5
    <3> QED BY <3>1, <2>1, <2>2, <2>3, <1>5
  <2>5. \A i \in 1 .. Len(old.outbox), j \in 1 .. Len(old.inbox) + 1 :
           old.outbox[i].request.id < engines'[to].inbox[j].id
    BY <2>1, <2>2, <2>3, <1>5
  <2> QED BY <2>2, <2>4, <2>5, <1>5 DEF Ordered, Sent
<1>9. PendingIsTheChilds'
  <2> SUFFICES ASSUME NEW s \in unsettled'
               PROVE  /\ child' # 0
                      /\ \/ \E i \in 1..Len(engines'[to].inbox) : engines'[to].inbox[i] = s
                         \/ \E i \in 1..Len(engines'[to].outbox) : engines'[to].outbox[i].request = s
                         \/ ~Alive(to)'
    BY DEF PendingIsTheChilds, Sent, Alive, Phase
  <2>1. CASE s = r
    BY <2>1, <1>5 DEF Sent
  <2>2. CASE s # r
    <3>1. s \in unsettled /\ child # 0 /\ child = to
      BY <2>2 DEF Sent, QueueInv, PendingIsTheChilds
    <3>2. Phase(to)' = Phase(to)
      BY <3>1 DEF Births, Sent, Phase
    <3> QED BY <3>1, <3>2, <1>5 DEF QueueInv, PendingIsTheChilds, Alive, Sent, old
  <2> QED BY <2>1, <2>2
<1>10. TerminalIsTheAccounts'
  <2>1. child = 0 => engines[to].account = NoAccount
    BY DEF Sent, Births
  <2>2. child # 0 => to = child
    BY DEF Sent
  <2> QED BY <2>1, <2>2 DEF TerminalIsTheAccounts, Sent
<1> QED BY <1>1, <1>2, <1>3, <1>4, <1>7, <1>8, <1>9, <1>10 DEF QueueInv

\* A change of one engine.
LEMMA EngineChanges ==
    ASSUME SessionTyped, NEW e \in Engine, NEW m \in EngineSet,
           engines' = [engines EXCEPT ![e] = m]
    PROVE  /\ engines' \in [Engine -> EngineSet] /\ engines'[e] = m
           /\ \A f \in Engine \ {e} : engines'[f] = engines[f]
  BY DEF SessionTyped

\* Two fields changed at once are two fields changed one after the other.
LEMMA TwoFields ==
    ASSUME NEW n \in EngineSet, NEW x, NEW y
    PROVE  [n EXCEPT !.stdin = x, !.outbox = y] = [[n EXCEPT !.stdin = x] EXCEPT !.outbox = y]
  BY DEF EngineSet

\* Dropping the engine ends its input and forgets what it has written.
LEMMA DropFacts ==
    ASSUME SessionTyped, engines' = Dropped
    PROVE  /\ engines' \in [Engine -> EngineSet]
           /\ \A f \in Engine :
                /\ Phase(f)' = Phase(f) /\ engines'[f].inbox = engines[f].inbox
                /\ engines'[f].account = engines[f].account
                /\ engines'[f].report = engines[f].report
                /\ engines'[f].chart = engines[f].chart
                /\ engines'[f].director = engines[f].director
                /\ ~engines[f].stdin => ~engines'[f].stdin
                /\ f # child => engines'[f] = engines[f]
                /\ f = child => ~engines'[f].stdin
<1>1. CASE child = 0
  <2>1. engines' = engines
    BY <1>1 DEF Dropped
  <2> QED BY <1>1, <2>1, EngineFacts DEF SessionTyped, Phase
<1>2. CASE child # 0
  <2>1. child \in Engine /\ engines[child] \in EngineSet
    BY <1>2, ChildFacts, EngineFacts
  <2> DEFINE n == engines[child]
             no == FALSE
             none == <<>>
             k == [n EXCEPT !.stdin = no]
             m == [k EXCEPT !.outbox = none]
  <2>2. engines' = [engines EXCEPT ![child] = [n EXCEPT !.stdin = no, !.outbox = none]]
    BY <1>2, <2>1 DEF Dropped, SessionTyped
  <2>3. no \in BOOLEAN /\ ~no /\ none \in Seq(ReplySet)
    OBVIOUS
  <2> HIDE DEF n, no, none
  <2>4. n \in EngineSet
    BY <2>1 DEF n
  <2>5. [n EXCEPT !.stdin = no, !.outbox = none] = m
    BY <2>4, TwoFields
  <2>6. k \in EngineSet /\ k.phase = n.phase /\ k.inbox = n.inbox /\ k.account = n.account
        /\ k.report = n.report /\ k.chart = n.chart /\ k.director = n.director
    BY <2>3, <2>4 DEF EngineSet
  <2>7. k.stdin = no
    BY <2>4 DEF EngineSet
  <2> HIDE DEF k
  <2>8. m \in EngineSet /\ m.phase = k.phase /\ m.inbox = k.inbox /\ m.account = k.account
        /\ m.report = k.report /\ m.chart = k.chart /\ m.director = k.director
    BY <2>3, <2>6 DEF EngineSet
  <2>9. m.stdin = k.stdin
    BY <2>6 DEF EngineSet
  <2> HIDE DEF m
  <2>10. engines' \in [Engine -> EngineSet] /\ engines'[child] = m
         /\ \A f \in Engine \ {child} : engines'[f] = engines[f]
    BY <2>1, <2>2, <2>5, <2>8, EngineChanges
  <2>11. ~engines'[child].stdin
    BY <2>3, <2>7, <2>9, <2>10
  <2> QED BY <2>6, <2>8, <2>10, <2>11 DEF n, Phase
<1> QED BY <1>1, <1>2

LEMMA DropEngine ==
    ASSUME EngineInv, child' = 0, engines' = Dropped, unsettled' = {},
           session' \in Account, login' \in BOOLEAN, leaving' \in SUBSET Engine,
           quitting # "exited", quitting' \in {"no", "stopping"},
           UNCHANGED <<sequence, terminal, strayed, raced>>
    PROVE  EngineInv'
<1> USE DEF EngineInv
<1>1. SessionTyped'
  BY DropFacts, SessionAssumption DEF SessionTyped, SessionAssumption
<1>2. Births'
  <2>1. \A e \in Engine : Phase(e) = "unborn" => engines'[e] = engines[e]
    BY DropFacts DEF Births
  <2> QED BY <2>1, DropFacts DEF Births
<1>3. Reported'
  BY DropFacts DEF Reported
<1>4. QueueInv'
  BY DEF QueueInv, Numbered, Owned, Ordered, PendingIsTheChilds
<1>5. TerminalIsTheAccounts'
  BY DEF TerminalIsTheAccounts
<1> QED BY <1>1, <1>2, <1>3, <1>4, <1>5

\* A step that leaves the engines, the requests and the terminal alone.
LEMMA WindowEngine ==
    ASSUME EngineInv, session' \in Account, login' \in BOOLEAN, leaving' \in SUBSET Engine,
           quitting' = quitting,
           UNCHANGED <<child, engines, sequence, unsettled, terminal, strayed, raced>>
    PROVE  EngineInv'
<1> USE DEF EngineInv
<1>1. SessionTyped'
  BY DEF SessionTyped
<1>2. Births' /\ Reported' /\ TerminalIsTheAccounts'
  BY DEF Births, Reported, TerminalIsTheAccounts, Phase
<1>3. QueueInv'
  BY DEF QueueInv, Numbered, Owned, Ordered, PendingIsTheChilds, Alive, Phase
<1> QED BY <1>1, <1>2, <1>3

LEMMA ExitEngine ==
    ASSUME EngineInv, ExitDesktop
    PROVE  /\ EngineInv'
           /\ \A f \in Engine :
                /\ Phase(f)' = Phase(f) /\ engines'[f].inbox = engines[f].inbox
                /\ engines'[f].outbox = engines[f].outbox
                /\ engines'[f].account = engines[f].account
                /\ engines'[f].report = engines[f].report
                /\ engines'[f].chart = engines[f].chart
                /\ engines'[f].director = engines[f].director
                /\ ~engines'[f].stdin
<1> USE DEF EngineInv
<1> DEFINE no == FALSE
<1>1. /\ engines' = [e \in Engine |-> [engines[e] EXCEPT !.stdin = no]]
      /\ quitting = "stopping" /\ quitting' = "exited"
      /\ UNCHANGED <<child, sequence, unsettled, desktop, leaving, terminal, histories>>
  BY DEF ExitDesktop
<1>2. no \in BOOLEAN /\ ~no
  OBVIOUS
<1> HIDE DEF no
<1>3. ASSUME NEW f \in Engine
      PROVE  /\ engines'[f] \in EngineSet
             /\ Phase(f)' = Phase(f) /\ engines'[f].inbox = engines[f].inbox
             /\ engines'[f].outbox = engines[f].outbox
             /\ engines'[f].account = engines[f].account
             /\ engines'[f].report = engines[f].report
             /\ engines'[f].chart = engines[f].chart
             /\ engines'[f].director = engines[f].director
             /\ ~engines'[f].stdin
  <2> DEFINE n == engines[f]
             m == [n EXCEPT !.stdin = no]
  <2>1. n \in EngineSet /\ engines'[f] = m
    BY <1>1, EngineFacts
  <2> HIDE DEF n
  <2>2. m \in EngineSet /\ m.phase = n.phase /\ m.inbox = n.inbox /\ m.account = n.account
        /\ m.outbox = n.outbox
        /\ m.report = n.report /\ m.chart = n.chart /\ m.director = n.director
    BY <1>2, <2>1 DEF EngineSet
  <2>3. m.stdin = no
    BY <2>1 DEF EngineSet
  <2>4. ~engines'[f].stdin
    BY <2>1, <2>3, <1>2
  <2> HIDE DEF m
  <2> QED BY <2>1, <2>2, <2>4 DEF n, Phase
<1>4. SessionTyped'
  BY <1>1, <1>3 DEF SessionTyped, desktop, histories
<1>5. Births' /\ Reported'
  <2>1. child' = child /\ quitting' = "exited"
    BY <1>1
  <2>2. \A e \in Engine : Phase(e)' = "unborn" <=> Phase(e) = "unborn"
    BY <1>3
  <2>3. Births'
    BY <1>3, <2>1, <2>2, ChildFacts DEF Births
  <2>4. Reported'
    BY <1>3 DEF Reported
  <2> QED BY <2>3, <2>4
<1>6. TerminalIsTheAccounts'
  <2>1. /\ child' = child /\ terminal' = terminal /\ strayed' = strayed
        /\ child # 0 => engines'[child].account = engines[child].account
    BY <1>1, <1>3, ChildFacts DEF histories
  <2> QED BY <2>1 DEF TerminalIsTheAccounts
<1>7. QueueInv'
  <2>1. child # 0 => /\ engines'[child].inbox = engines[child].inbox
                     /\ engines'[child].outbox = engines[child].outbox
                     /\ Phase(child)' = Phase(child)
    BY <1>1, <1>3, ChildFacts DEF Phase
  <2>2. child' = child /\ unsettled' = unsettled /\ sequence' = sequence
    BY <1>1
  <2>3. Numbered' /\ Owned'
    BY <2>1, <2>2 DEF QueueInv, Numbered, Owned
  <2>4. Ordered'
    BY <2>1, <2>2 DEF QueueInv, Ordered
  <2>5. PendingIsTheChilds'
    BY <2>1, <2>2 DEF QueueInv, PendingIsTheChilds, Alive
  <2> QED BY <2>3, <2>4, <2>5 DEF QueueInv
<1> QED BY <1>3, <1>4, <1>5, <1>6, <1>7

-----------------------------------------------------------------------------
(* What serving a request may change.                                      *)

\* The process and its queues are the same.
SameQueues(m, n) ==
    /\ m \in EngineSet
    /\ m.phase = n.phase /\ m.stdin = n.stdin /\ m.inbox = n.inbox /\ m.outbox = n.outbox

LEMMA GateChanges ==
    ASSUME NEW n \in EngineSet, NEW a \in Account, NEW r \in {"none", "clean", "halt"}
    PROVE  LET m == Attached(n, a, r) IN
           /\ SameQueues(m, n) /\ m.account = a /\ m.report = r
           /\ m.chart = n.chart /\ m.director = n.director
<1> DEFINE m == Attached(n, a, r)
           k == [n EXCEPT !.account = a]
<1>1. m = [k EXCEPT !.report = r]
  BY DEF EngineSet, Attached
<1>2. SameQueues(k, n) /\ k.account = a /\ k.chart = n.chart /\ k.director = n.director
  BY DEF EngineSet, SameQueues
<1> HIDE DEF k, m
<1>3. SameQueues(m, k) /\ m.account = k.account /\ m.report = r
      /\ m.chart = k.chart /\ m.director = k.director
  BY <1>1, <1>2 DEF EngineSet, SameQueues
<1>4. /\ SameQueues(m, n) /\ m.account = a /\ m.report = r
      /\ m.chart = n.chart /\ m.director = n.director
  BY <1>2, <1>3 DEF SameQueues
<1> QED BY <1>4 DEF m

LEMMA ClosedFacts ==
    ASSUME NEW n \in EngineSet
    PROVE  /\ SameQueues(Closed(n), n) /\ Closed(n).account = NoAccount
           /\ Closed(n).report = "none"
           /\ Closed(n).chart = n.chart /\ Closed(n).director = n.director
<1>1. NoAccount \in Account /\ "none" \in {"none", "clean", "halt"}
  BY DEF Account
<1>2. Closed(n) = Attached(n, NoAccount, "none")
  BY DEF Closed, Attached
<1> QED BY <1>1, <1>2, GateChanges

LEMMA ReportChanges ==
    ASSUME NEW n \in EngineSet, NEW r \in {"none", "clean", "halt"},
           NEW m, m = [n EXCEPT !.report = r]
    PROVE  /\ SameQueues(m, n) /\ m.account = n.account /\ m.report = r
           /\ m.chart = n.chart /\ m.director = n.director
  BY DEF EngineSet, SameQueues

LEMMA ChartChanges ==
    ASSUME NEW n \in EngineSet
    PROVE  LET m == WithChart(n) IN
           /\ SameQueues(m, n) /\ m.account = n.account /\ m.report = n.report
           /\ m.chart = Keep(n.chart, n.account) /\ m.director = n.director
<1> DEFINE a == Keep(n.chart, n.account)
           m == [n EXCEPT !.chart = a]
<1>1. a \in Account
  BY DEF Keep, EngineSet
<1>2. WithChart(n) = m
  BY DEF WithChart, EngineSet
<1> HIDE DEF a
<1>3. /\ SameQueues(m, n) /\ m.account = n.account /\ m.report = n.report
      /\ m.chart = a /\ m.director = n.director
  BY <1>1 DEF EngineSet, SameQueues
<1> QED BY <1>2, <1>3 DEF a

LEMMA DirectorChanges ==
    ASSUME NEW n \in EngineSet
    PROVE  LET m == WithDirector(n) IN
           /\ SameQueues(m, n) /\ m.account = n.account /\ m.report = n.report
           /\ m.chart = n.chart /\ m.director = Keep(n.director, n.account)
<1> DEFINE a == Keep(n.director, n.account)
           m == [n EXCEPT !.director = a]
<1>1. a \in Account
  BY DEF Keep, EngineSet
<1>2. WithDirector(n) = m
  BY DEF WithDirector, EngineSet
<1> HIDE DEF a
<1>3. /\ SameQueues(m, n) /\ m.account = n.account /\ m.report = n.report
      /\ m.chart = n.chart /\ m.director = a
  BY <1>1 DEF EngineSet, SameQueues
<1> QED BY <1>2, <1>3 DEF a

\* The gate after a request: `out` is an outcome for the gate n.
Fair(out, n) ==
    /\ SameQueues(out.gate, n) /\ out.ok \in BOOLEAN /\ out.terminal \in Account
    /\ out.gate.report # "none" => out.gate.account # NoAccount

SameChart(m, n) == m.chart = n.chart /\ m.director = n.director

LEMMA ConnectFacts ==
    ASSUME SessionTyped, Reported, NEW e \in Engine, NEW acct \in Accounts,
           NEW out \in ConnectOutcomes(e, engines[e], acct)
    PROVE  /\ Fair(out, engines[e]) /\ SameChart(out.gate, engines[e])
           /\ \/ out.gate.account = NoAccount
              \/ out.terminal = out.gate.account
              \/ out.gate = engines[e] /\ out.terminal = terminal
<1> DEFINE n == engines[e]
<1>1. /\ n \in EngineSet /\ (n.report # "none" => n.account # NoAccount)
      /\ terminal \in Account /\ acct \in Account /\ acct # NoAccount
  BY EngineFacts, SessionAssumption
     DEF Reported, SessionTyped, Account, SessionAssumption
<1>2. \/ out = Outcome(n, FALSE, terminal)
      \/ \E t \in {terminal, acct} : out = Outcome(Refusal(n), FALSE, t)
      \/ \E r \in {"none", "clean", "halt"} :
            out = Outcome(Attached(n, acct, r), r # "none", acct)
  BY DEF ConnectOutcomes
<1> HIDE DEF n
<1>3. CASE out = Outcome(n, FALSE, terminal)
  <2>1. out.gate = n /\ out.ok = FALSE /\ out.terminal = terminal
    BY <1>3, Zenon DEF Outcome
  <2> QED BY <2>1, <1>1 DEF Fair, SameQueues, SameChart, n
<1>4. ASSUME NEW t \in {terminal, acct}, out = Outcome(Refusal(n), FALSE, t)
      PROVE  Fair(out, n) /\ SameChart(out.gate, n) /\ out.gate.account = NoAccount
  <2>1. out.gate = Closed(n) /\ out.ok = FALSE /\ out.terminal = t
    BY <1>4, Zenon DEF Outcome, Refusal
  <2> QED BY <2>1, <1>1, ClosedFacts DEF Fair, SameChart
<1>5. ASSUME NEW r \in {"none", "clean", "halt"},
             out = Outcome(Attached(n, acct, r), r # "none", acct)
      PROVE  Fair(out, n) /\ SameChart(out.gate, n) /\ out.terminal = out.gate.account
  <2>1. /\ out.gate = Attached(n, acct, r)
        /\ out.ok = (r # "none") /\ out.terminal = acct
    BY <1>5, Zenon DEF Outcome
  <2>2. /\ SameQueues(out.gate, n) /\ out.gate.account = acct /\ out.gate.report = r
        /\ SameChart(out.gate, n)
    BY <2>1, <1>1, GateChanges DEF SameChart
  <2>3. out.ok \in BOOLEAN
    BY <2>1, Zenon
  <2> QED BY <2>1, <2>2, <2>3, <1>1 DEF Fair
<1> QED BY <1>2, <1>3, <1>4, <1>5 DEF n

LEMMA PreflightFacts ==
    ASSUME SessionTyped, Reported, NEW e \in Engine,
           NEW out \in PreflightOutcomes(engines[e])
    PROVE  /\ Fair(out, engines[e]) /\ SameChart(out.gate, engines[e])
           /\ out.terminal = terminal /\ out.gate.account \in {engines[e].account, NoAccount}
<1> DEFINE n == engines[e]
<1>1. n \in EngineSet /\ terminal \in Account /\ (n.report # "none" => n.account # NoAccount)
  BY EngineFacts DEF Reported, SessionTyped
<1>2. \/ out = Outcome(n, FALSE, terminal)
      \/ out = Outcome(Closed(n), FALSE, terminal)
      \/ /\ n.account # NoAccount
         /\ \E r \in {"none", "clean", "halt"} :
               out = Outcome([n EXCEPT !.report = r], r # "none", terminal)
  BY DEF PreflightOutcomes
<1> HIDE DEF n
<1>3. CASE out = Outcome(n, FALSE, terminal)
  <2>1. out.gate = n /\ out.ok = FALSE /\ out.terminal = terminal
    BY <1>3, Zenon DEF Outcome
  <2> QED BY <2>1, <1>1 DEF Fair, SameQueues, SameChart, n
<1>4. CASE out = Outcome(Closed(n), FALSE, terminal)
  <2>1. out.gate = Closed(n) /\ out.ok = FALSE /\ out.terminal = terminal
    BY <1>4, Zenon DEF Outcome
  <2> QED BY <2>1, <1>1, ClosedFacts DEF Fair, SameChart, n
<1>5. ASSUME NEW r \in {"none", "clean", "halt"}, n.account # NoAccount,
             out = Outcome([n EXCEPT !.report = r], r # "none", terminal)
      PROVE  Fair(out, n) /\ SameChart(out.gate, n) /\ out.terminal = terminal
             /\ out.gate.account = n.account
  <2>1. /\ out.gate = [n EXCEPT !.report = r]
        /\ out.ok = (r # "none") /\ out.terminal = terminal
    BY <1>5, Zenon DEF Outcome
  <2>2. /\ SameQueues(out.gate, n) /\ out.gate.account = n.account /\ out.gate.report = r
        /\ SameChart(out.gate, n)
    BY <2>1, <1>1, ReportChanges DEF SameChart
  <2>3. out.ok \in BOOLEAN
    BY <2>1, Zenon
  <2> QED BY <2>1, <2>2, <2>3, <1>1, <1>5 DEF Fair
<1> QED BY <1>2, <1>3, <1>4, <1>5 DEF n

LEMMA EnterFacts ==
    ASSUME SessionTyped, Reported, NEW e \in Engine, NEW out \in EnterOutcomes(engines[e])
    PROVE  /\ Fair(out, engines[e]) /\ SameChart(out.gate, engines[e])
           /\ out.terminal = terminal /\ out.gate.account \in {engines[e].account, NoAccount}
           /\ out.ok => out.gate = engines[e] /\ Entitled(engines[e])
<1> DEFINE n == engines[e]
<1>1. n \in EngineSet /\ terminal \in Account /\ (n.report # "none" => n.account # NoAccount)
  BY EngineFacts DEF Reported, SessionTyped
<1>2. \/ Entitled(n) /\ out = Outcome(n, TRUE, terminal)
      \/ out = Outcome(Closed(n), FALSE, terminal)
  BY DEF EnterOutcomes
<1> HIDE DEF n
<1>3. CASE Entitled(n) /\ out = Outcome(n, TRUE, terminal)
  <2>1. out.gate = n /\ out.ok = TRUE /\ out.terminal = terminal
    BY <1>3, Zenon DEF Outcome
  <2> QED BY <2>1, <1>1, <1>3 DEF Fair, SameQueues, SameChart, n
<1>4. CASE out = Outcome(Closed(n), FALSE, terminal)
  <2>1. out.gate = Closed(n) /\ out.ok = FALSE /\ out.terminal = terminal
    BY <1>4, Zenon DEF Outcome
  <2> QED BY <2>1, <1>1, ClosedFacts DEF Fair, SameChart, n
<1> QED BY <1>2, <1>3, <1>4

\* The chart and the Director are made once, for the account of the gate.
LEMMA ChartFacts ==
    ASSUME SessionTyped, Reported, NEW e \in Engine, NEW cmd,
           NEW out \in ChartOutcomes(cmd, engines[e])
    PROVE  /\ Fair(out, engines[e]) /\ out.terminal = terminal
           /\ out.gate.account = engines[e].account /\ out.gate.report = engines[e].report
           /\ out.gate.chart \in {engines[e].chart, Keep(engines[e].chart, engines[e].account)}
           /\ out.gate.director
                \in {engines[e].director, Keep(engines[e].director, engines[e].account)}
<1> DEFINE n == engines[e]
           m == IF cmd = "subscribe" THEN WithChart(n) ELSE n
           d == IF m.chart # NoAccount THEN WithDirector(m) ELSE m
<1>1. n \in EngineSet /\ terminal \in Account /\ (n.report # "none" => n.account # NoAccount)
  BY EngineFacts DEF Reported, SessionTyped
<1>2. \/ out = Outcome(n, FALSE, terminal)
      \/ out = Outcome(m, FALSE, terminal)
      \/ out = Outcome(d, TRUE, terminal)
  BY DEF ChartOutcomes, Unharmed
<1> HIDE DEF n
<1>3. /\ SameQueues(m, n) /\ m.account = n.account /\ m.report = n.report
      /\ m.chart \in {n.chart, Keep(n.chart, n.account)} /\ m.director = n.director
  BY <1>1, ChartChanges DEF SameQueues
<1> HIDE DEF m
<1>4. /\ SameQueues(d, m) /\ d.account = m.account /\ d.report = m.report
      /\ d.chart = m.chart /\ d.director \in {m.director, Keep(m.director, m.account)}
  BY <1>3, DirectorChanges DEF SameQueues
<1> HIDE DEF d
<1>5. /\ out.gate = n \/ out.gate = m \/ out.gate = d
      /\ out.ok \in BOOLEAN /\ out.terminal = terminal
  <2>1. CASE out = Outcome(n, FALSE, terminal)
    BY <2>1, Zenon DEF Outcome
  <2>2. CASE out = Outcome(m, FALSE, terminal)
    BY <2>2, Zenon DEF Outcome
  <2>3. CASE out = Outcome(d, TRUE, terminal)
    BY <2>3, Zenon DEF Outcome
  <2> QED BY <1>2, <2>1, <2>2, <2>3
<1> QED BY <1>1, <1>3, <1>4, <1>5 DEF Fair, SameQueues, n

\* What serving `request` with the gate of `out` may do.
Served(e, request, out) ==
    /\ Fair(out, engines[e])
    /\ request.cmd # "connect" =>
         /\ out.terminal = terminal
         /\ out.gate.account \in {engines[e].account, NoAccount}
    /\ request.cmd = "connect" =>
         \/ out.gate.account = NoAccount
         \/ out.terminal = out.gate.account
         \/ out.gate = engines[e] /\ out.terminal = terminal
    /\ request.cmd \notin Chart => SameChart(out.gate, engines[e])
    /\ request.cmd \in Chart =>
         /\ out.gate.account = engines[e].account /\ out.gate.report = engines[e].report
         /\ out.gate.chart \in {engines[e].chart, Keep(engines[e].chart, engines[e].account)}
         /\ out.gate.director
              \in {engines[e].director, Keep(engines[e].director, engines[e].account)}
    /\ request.cmd = "enter" /\ out.ok => out.gate = engines[e] /\ Entitled(engines[e])

LEMMA OutcomeFacts ==
    ASSUME SessionTyped, Reported, NEW e \in Engine, NEW request \in RequestSet,
           NEW out \in Outcomes(e, request)
    PROVE  Served(e, request, out)
<1>1. request.cmd \in LoginCmds \cup Chart /\ request.account \in Account
      /\ (request.cmd = "connect" => request.account \in Accounts)
  BY DEF RequestSet, Account
<1>2. CASE request.cmd = "connect"
  <2>0. Outcomes(e, request) = ConnectOutcomes(e, engines[e], request.account)
    BY <1>2 DEF Outcomes, Chart
  <2>1. out \in ConnectOutcomes(e, engines[e], request.account)
    BY <2>0
  <2> QED BY <1>1, <1>2, <2>1, ConnectFacts DEF Served, Chart
<1>3. CASE request.cmd = "preflight"
  <2>0. Outcomes(e, request) = PreflightOutcomes(engines[e])
    BY <1>3 DEF Outcomes, Chart
  <2>1. out \in PreflightOutcomes(engines[e])
    BY <2>0
  <2>2. request.cmd # "connect" /\ request.cmd # "enter" /\ request.cmd \notin Chart
    BY <1>3 DEF Chart
  <2> QED BY <2>1, <2>2, PreflightFacts, Zenon DEF Served
<1>4. CASE request.cmd = "enter"
  <2>0. Outcomes(e, request) = EnterOutcomes(engines[e])
    BY <1>4 DEF Outcomes, Chart
  <2>1. out \in EnterOutcomes(engines[e])
    BY <2>0
  <2>2. request.cmd # "connect" /\ request.cmd \notin Chart
    BY <1>4 DEF Chart
  <2> QED BY <2>1, <2>2, EnterFacts, Zenon DEF Served
<1>5. CASE request.cmd \in Chart
  <2>0. Outcomes(e, request) = ChartOutcomes(request.cmd, engines[e])
    BY <1>5 DEF Outcomes, Chart
  <2>1. out \in ChartOutcomes(request.cmd, engines[e])
    BY <2>0
  <2>2. request.cmd # "connect" /\ request.cmd # "enter"
    BY <1>5 DEF Chart
  <2>3. out.gate.account = engines[e].account
        => out.gate.account \in {engines[e].account, NoAccount}
    OBVIOUS
  <2> QED BY <1>5, <2>1, <2>2, <2>3, ChartFacts, Zenon DEF Served
<1> QED BY <1>1, <1>2, <1>3, <1>4, <1>5 DEF LoginCmds

\* The engine e has served the first of its requests.
Handled(e, out, reply) ==
    LET n == engines[e]  m == engines'[e] IN
    /\ n.inbox \in Seq(RequestSet) /\ Len(n.inbox) \in Nat /\ Len(n.inbox) > 0
    /\ n.outbox \in Seq(ReplySet) /\ Len(n.outbox) \in Nat
    /\ Served(e, n.inbox[1], out) /\ n.inbox[1] \in RequestSet
    /\ reply \in ReplySet /\ reply.request = n.inbox[1]
    /\ reply.ok = out.ok /\ reply.account = out.gate.account
    /\ engines' \in [Engine -> EngineSet] /\ \A f \in Engine \ {e} : engines'[f] = engines[f]
    /\ n.phase = "running" /\ m.phase = "running" /\ m.stdin = n.stdin
    /\ m.account = out.gate.account /\ m.report = out.gate.report
    /\ m.chart = out.gate.chart /\ m.director = out.gate.director
    /\ m.inbox = Tail(n.inbox)
    /\ m.outbox = IF e = child THEN Append(n.outbox, reply) ELSE n.outbox
    /\ terminal' = out.terminal
    /\ strayed' = (strayed \/ (e # child /\ n.inbox[1].cmd = "connect"))
    /\ UNCHANGED <<child, sequence, unsettled, session, login, studio, leaving, quitting, raced>>

LEMMA HandleFacts ==
    ASSUME SessionTyped, Reported, NEW e \in Engine, Handle(e)
    PROVE  \E out, reply : Handled(e, out, reply)
<1> DEFINE n == engines[e]
           request == Head(n.inbox)
           reply(out) == [request |-> request, ok |-> out.ok, account |-> out.gate.account]
           outbox(out) == IF e = child THEN Append(n.outbox, reply(out)) ELSE n.outbox
<1>1. PICK out \in Outcomes(e, request) :
        /\ engines' = [engines EXCEPT ![e] =
                          [out.gate EXCEPT !.inbox = Tail(@),
                                           !.outbox = IF e = child THEN Append(@, reply(out)) ELSE @]]
        /\ terminal' = out.terminal
  BY DEF Handle
<1>2. /\ n \in EngineSet /\ n.inbox \in Seq(RequestSet) /\ n.outbox \in Seq(ReplySet)
      /\ n.inbox # <<>> /\ n.phase = "running"
      /\ strayed' = (strayed \/ (e # child /\ request.cmd = "connect"))
      /\ UNCHANGED <<child, sequence, unsettled, desktop, leaving, quitting, raced>>
  BY EngineFacts DEF Handle, Phase
<1>3. /\ Len(n.inbox) \in Nat /\ Len(n.inbox) > 0 /\ Len(n.outbox) \in Nat
      /\ request = n.inbox[1] /\ request \in RequestSet /\ Tail(n.inbox) \in Seq(RequestSet)
  BY <1>2
<1>4. Served(e, request, out)
  BY <1>1, <1>3, OutcomeFacts
<1>5. out.gate \in EngineSet /\ out.ok \in BOOLEAN /\ out.gate.account \in Account
      /\ out.gate.phase = n.phase /\ out.gate.stdin = n.stdin /\ out.gate.inbox = n.inbox
      /\ out.gate.outbox = n.outbox
  BY <1>4 DEF Served, Fair, SameQueues, EngineSet
<1>6. reply(out) \in ReplySet /\ reply(out).request = request
      /\ reply(out).ok = out.ok /\ reply(out).account = out.gate.account
  BY <1>3, <1>5, Zenon DEF ReplySet
<1> DEFINE gate == out.gate
           k == [gate EXCEPT !.inbox = Tail(n.inbox)]
           m == [k EXCEPT !.outbox = outbox(out)]
<1>7. outbox(out) \in Seq(ReplySet)
  <2>1. Append(n.outbox, reply(out)) \in Seq(ReplySet)
    BY <1>2, <1>6
  <2> QED BY <1>2, <2>1
<1>8. engines' = [engines EXCEPT ![e] = m]
  <2> HIDE DEF n
  <2>1. [gate EXCEPT !.inbox = Tail(@),
                     !.outbox = IF e = child THEN Append(@, reply(out)) ELSE @] = m
    BY <1>5 DEF EngineSet
  <2> QED BY <1>1, <2>1
<1> HIDE DEF outbox, reply, request, gate, n
<1>9. gate \in EngineSet /\ Tail(n.inbox) \in Seq(RequestSet)
  BY <1>3, <1>5 DEF gate
<1>10. /\ k \in EngineSet /\ k.inbox = Tail(n.inbox) /\ k.phase = gate.phase
       /\ k.stdin = gate.stdin /\ k.account = gate.account /\ k.report = gate.report
       /\ k.chart = gate.chart /\ k.director = gate.director
  BY <1>9 DEF EngineSet
<1> HIDE DEF k
<1>11. /\ m \in EngineSet /\ m.inbox = k.inbox /\ m.phase = k.phase /\ m.outbox = outbox(out)
       /\ m.stdin = k.stdin /\ m.account = k.account /\ m.report = k.report
       /\ m.chart = k.chart /\ m.director = k.director
  BY <1>7, <1>10 DEF EngineSet
<1> HIDE DEF m
<1>12. /\ engines' \in [Engine -> EngineSet] /\ engines'[e] = m
       /\ \A f \in Engine \ {e} : engines'[f] = engines[f]
  BY <1>8, <1>11, EngineChanges
<1>13. /\ engines'[e].phase = "running" /\ engines'[e].stdin = n.stdin
       /\ engines'[e].account = out.gate.account /\ engines'[e].report = out.gate.report
       /\ engines'[e].chart = out.gate.chart /\ engines'[e].director = out.gate.director
       /\ engines'[e].inbox = Tail(n.inbox) /\ engines'[e].outbox = outbox(out)
  BY <1>2, <1>5, <1>10, <1>11, <1>12 DEF gate
<1>14. outbox(out) = IF e = child THEN Append(n.outbox, reply(out)) ELSE n.outbox
  BY DEF outbox
<1>15. UNCHANGED <<child, sequence, unsettled, session, login, studio, leaving, quitting, raced>>
  BY <1>2 DEF desktop
<1>16. Handled(e, out, reply(out))
  BY <1>1, <1>2, <1>3, <1>4, <1>6, <1>12, <1>13, <1>14, <1>15 DEF Handled, n
<1> QED BY <1>16

LEMMA HandleEngine ==
    ASSUME EngineInv, NEW e \in Engine, NEW out, NEW reply, Handled(e, out, reply)
    PROVE  EngineInv'
<1> USE DEF EngineInv
<1> DEFINE n == engines[e]
           m == engines'[e]
<1>1. /\ Len(n.inbox) \in Nat /\ Len(n.inbox) > 0 /\ n.inbox \in Seq(RequestSet)
      /\ n.outbox \in Seq(ReplySet) /\ Len(n.outbox) \in Nat
      /\ Fair(out, n) /\ n.inbox[1] \in RequestSet
      /\ reply.request = n.inbox[1]
      /\ m.inbox = Tail(n.inbox)
      /\ m.outbox = IF e = child THEN Append(n.outbox, reply) ELSE n.outbox
  BY DEF Handled, Served
<1>2. SessionTyped'
  BY <1>1 DEF Handled, SessionTyped, Fair
<1>3. Births'
  <2>1. \A f \in Engine : /\ Phase(f)' = Phase(f)
                          /\ engines'[f].stdin = engines[f].stdin
    BY DEF Handled, Phase
  <2>2. \A f \in Engine : Phase(f) = "unborn" => f # e /\ engines'[f] = engines[f]
    BY DEF Handled, Phase
  <2>3. child # 0 => child \in Engine
    BY ChildFacts
  <2> QED BY <2>1, <2>2, <2>3 DEF Handled, Births
<1>4. Reported'
  <2>1. m.report = out.gate.report /\ m.account = out.gate.account
        /\ \A f \in Engine \ {e} : engines'[f] = engines[f]
    BY DEF Handled
  <2> QED BY <1>1, <2>1 DEF Reported, Fair
<1>5. QueueInv'
  <2>1. CASE e # child
    <3>1. /\ child' = child /\ unsettled' = unsettled /\ sequence' = sequence
          /\ child # 0 => engines'[child] = engines[child]
      BY <2>1, ChildFacts DEF Handled
    <3>2. Numbered' /\ Owned' /\ Ordered'
      BY <3>1 DEF QueueInv, Numbered, Owned, Ordered
    <3>3. PendingIsTheChilds'
      BY <3>1 DEF QueueInv, PendingIsTheChilds, Alive, Phase
    <3> QED BY <3>2, <3>3 DEF QueueInv
  <2>2. CASE e = child
    <3> DEFINE I == Len(n.inbox)  O == Len(n.outbox)
    <3>1. /\ e # 0 /\ child' = child /\ unsettled' = unsettled /\ sequence' = sequence
          /\ child # 0
      BY <2>2, EngineFacts DEF Handled
    <3>2. /\ Len(m.inbox) = I - 1 /\ Len(m.outbox) = O + 1
          /\ \A i \in 1 .. I - 1 : m.inbox[i] = n.inbox[i + 1]
          /\ \A i \in 1 .. O : m.outbox[i] = n.outbox[i]
          /\ m.outbox[O + 1] = reply
      BY <1>1, <2>2
    <3>3. /\ \A i \in 1 .. I : n.inbox[i] \in unsettled
          /\ \A i \in 1 .. O : n.outbox[i].request \in unsettled
          /\ \A i, j \in 1 .. I : i < j => n.inbox[i].id < n.inbox[j].id
          /\ \A i, j \in 1 .. O : i < j => n.outbox[i].request.id < n.outbox[j].request.id
          /\ \A i \in 1 .. O, j \in 1 .. I : n.outbox[i].request.id < n.inbox[j].id
      BY <2>2, <3>1 DEF QueueInv, Owned, Ordered
    <3> HIDE DEF n, m
    <3>4. I \in Nat /\ I > 0 /\ O \in Nat /\ reply.request = n.inbox[1]
      BY <1>1
    <3> HIDE DEF I, O
    <3>5. \A i \in 1 .. I - 1 : i + 1 \in 1 .. I
      BY <3>4
    <3>6. \A i \in 1 .. O + 1 : i \in 1 .. O \/ i = O + 1
      BY <3>4
    <3>7. 1 \in 1 .. I
      BY <3>4
    <3>8. /\ \A i \in 1 .. I - 1 : m.inbox[i] \in unsettled
          /\ \A i \in 1 .. O + 1 : m.outbox[i].request \in unsettled
      BY <3>2, <3>3, <3>4, <3>5, <3>6, <3>7
    <3>9. \A i, j \in 1 .. I - 1 : i < j => m.inbox[i].id < m.inbox[j].id
      <4>1. \A i, j \in 1 .. I - 1 : i < j => i + 1 < j + 1
        BY <3>4
      <4> QED BY <3>2, <3>3, <3>5, <4>1
    <3>10. \A i, j \in 1 .. O + 1 : i < j => m.outbox[i].request.id < m.outbox[j].request.id
      <4> TAKE i, j \in 1 .. O + 1
      <4> HAVE i < j
      <4>1. i \in 1 .. O
        BY <3>4
      <4>2. CASE j = O + 1
        BY <3>2, <3>3, <3>4, <3>7, <4>1, <4>2
      <4>3. CASE j \in 1 .. O
        BY <3>2, <3>3, <4>1, <4>3
      <4> QED BY <3>6, <4>2, <4>3
    <3>11. \A i \in 1 .. O + 1, j \in 1 .. I - 1 : m.outbox[i].request.id < m.inbox[j].id
      <4> TAKE i \in 1 .. O + 1, j \in 1 .. I - 1
      <4>1. j + 1 \in 1 .. I /\ 1 < j + 1 /\ m.inbox[j] = n.inbox[j + 1]
        BY <3>2, <3>4, <3>5
      <4>2. CASE i = O + 1
        BY <3>2, <3>3, <3>4, <3>7, <4>1, <4>2
      <4>3. CASE i \in 1 .. O
        BY <3>2, <3>3, <4>1, <4>3
      <4> QED BY <3>6, <4>2, <4>3
    <3>12. Owned' /\ Ordered'
      BY <2>2, <3>1, <3>2, <3>8, <3>9, <3>10, <3>11 DEF Owned, Ordered, I, O, m
    <3>13. PendingIsTheChilds'
      <4> SUFFICES ASSUME NEW r \in unsettled
                   PROVE  \/ \E i \in 1 .. I - 1 : m.inbox[i] = r
                          \/ \E i \in 1 .. O + 1 : m.outbox[i].request = r
        BY <2>2, <3>1, <3>2 DEF PendingIsTheChilds, m
      <4>1. \/ \E i \in 1 .. I : n.inbox[i] = r
            \/ \E i \in 1 .. O : n.outbox[i].request = r
        BY <2>2 DEF QueueInv, PendingIsTheChilds, Handled, Alive, Phase, I, O, n
      <4>2. CASE \E i \in 1 .. O : n.outbox[i].request = r
        <5>1. \A i \in 1 .. O : i \in 1 .. O + 1
          BY <3>4
        <5> QED BY <4>2, <5>1, <3>2
      <4>3. ASSUME NEW i \in 1 .. I, n.inbox[i] = r
            PROVE  \/ \E j \in 1 .. I - 1 : m.inbox[j] = r
                   \/ \E j \in 1 .. O + 1 : m.outbox[j].request = r
        <5>1. CASE i = 1
          <6>1. O + 1 \in 1 .. O + 1
            BY <3>4
          <6> QED BY <5>1, <6>1, <4>3, <3>2, <3>4
        <5>2. CASE i # 1
          <6>1. i - 1 \in 1 .. I - 1 /\ (i - 1) + 1 = i
            BY <5>2, <3>4
          <6> QED BY <6>1, <4>3, <3>2
        <5> QED BY <5>1, <5>2
      <4> QED BY <4>1, <4>2, <4>3
    <3> QED BY <3>1, <3>12, <3>13 DEF QueueInv, Numbered
  <2> QED BY <2>1, <2>2
<1>6. TerminalIsTheAccounts'
  <2>1. /\ terminal' = out.terminal /\ child' = child
        /\ strayed' = (strayed \/ (e # child /\ n.inbox[1].cmd = "connect"))
        /\ m.account = out.gate.account
    BY DEF Handled
  <2>2. Served(e, n.inbox[1], out)
    BY DEF Handled
  <2>3. CASE e = child
    <3>1. CASE n.inbox[1].cmd = "connect"
      BY <2>1, <2>2, <2>3, <3>1 DEF Served, TerminalIsTheAccounts
    <3>2. CASE n.inbox[1].cmd # "connect"
      BY <2>1, <2>2, <2>3, <3>2 DEF Served, TerminalIsTheAccounts
    <3> QED BY <3>1, <3>2
  <2>4. CASE e # child
    <3>1. child # 0 => engines'[child] = engines[child]
      BY <2>4, ChildFacts DEF Handled
    <3>2. CASE n.inbox[1].cmd = "connect"
      <4>1. strayed'
        BY <2>1, <2>4, <3>2
      <4> QED BY <4>1 DEF TerminalIsTheAccounts
    <3>3. CASE n.inbox[1].cmd # "connect"
      <4>1. terminal' = terminal /\ (strayed => strayed')
        BY <2>1, <2>2, <3>3 DEF Served
      <4> QED BY <2>1, <3>1, <4>1 DEF TerminalIsTheAccounts
    <3> QED BY <3>2, <3>3
  <2> QED BY <2>3, <2>4
<1> QED BY <1>2, <1>3, <1>4, <1>5, <1>6

\* The first reply of the attached engine e is taken.
Delivered(e, reply) ==
    LET n == engines[e]  m == engines'[e] IN
    /\ e = child /\ quitting # "exited"
    /\ n.inbox \in Seq(RequestSet) /\ Len(n.inbox) \in Nat
    /\ n.outbox \in Seq(ReplySet) /\ Len(n.outbox) \in Nat /\ Len(n.outbox) > 0
    /\ reply = n.outbox[1] /\ reply \in ReplySet /\ reply.account \in Account
    /\ reply.request \in RequestSet
    /\ engines' \in [Engine -> EngineSet] /\ \A f \in Engine \ {e} : engines'[f] = engines[f]
    /\ m.phase = n.phase /\ m.stdin = n.stdin /\ m.inbox = n.inbox
    /\ m.account = n.account /\ m.report = n.report
    /\ m.chart = n.chart /\ m.director = n.director
    /\ Len(m.outbox) = Len(n.outbox) - 1
    /\ \A i \in 1 .. Len(n.outbox) - 1 : i + 1 \in 1 .. Len(n.outbox)
                                         /\ m.outbox[i] = n.outbox[i + 1]
    /\ unsettled' = unsettled \ {reply.request}
    /\ UNCHANGED <<child, sequence, leaving, quitting, terminal, strayed, raced>>

LEMMA DeliverFacts ==
    ASSUME SessionTyped, NEW e \in Engine, Deliver(e)
    PROVE  Delivered(e, Head(engines[e].outbox))
<1> DEFINE n == engines[e]
           m == [n EXCEPT !.outbox = Tail(n.outbox)]
<1>1. /\ n \in EngineSet /\ n.inbox \in Seq(RequestSet) /\ n.outbox \in Seq(ReplySet)
      /\ n.outbox # <<>> /\ engines' = [engines EXCEPT ![e] = m]
      /\ e = child /\ quitting # "exited"
      /\ unsettled' = unsettled \ {Head(n.outbox).request}
      /\ UNCHANGED <<child, sequence, leaving, quitting, terminal, strayed, raced>>
  BY EngineFacts DEF Deliver, histories
<1>2. /\ Len(n.outbox) \in Nat /\ Len(n.outbox) > 0 /\ Len(n.inbox) \in Nat
      /\ Head(n.outbox) = n.outbox[1] /\ Head(n.outbox) \in ReplySet
      /\ Tail(n.outbox) \in Seq(ReplySet) /\ Len(Tail(n.outbox)) = Len(n.outbox) - 1
      /\ \A i \in 1 .. Len(n.outbox) - 1 : i + 1 \in 1 .. Len(n.outbox)
                                           /\ Tail(n.outbox)[i] = n.outbox[i + 1]
  BY <1>1
<1>3. Head(n.outbox).account \in Account /\ Head(n.outbox).request \in RequestSet
  BY <1>2 DEF ReplySet
<1> HIDE DEF n
<1>4. /\ m \in EngineSet /\ m.outbox = Tail(n.outbox)
      /\ m.phase = n.phase /\ m.stdin = n.stdin /\ m.inbox = n.inbox
      /\ m.account = n.account /\ m.report = n.report
      /\ m.chart = n.chart /\ m.director = n.director
  BY <1>1, <1>2 DEF EngineSet
<1> HIDE DEF m
<1>5. /\ engines' \in [Engine -> EngineSet] /\ engines'[e] = m
      /\ \A f \in Engine \ {e} : engines'[f] = engines[f]
  BY <1>1, <1>4, EngineChanges
<1> QED BY <1>1, <1>2, <1>3, <1>4, <1>5 DEF Delivered, n

LEMMA DeliverEngine ==
    ASSUME EngineInv, NEW e \in Engine, NEW reply, Delivered(e, reply),
           session' \in Account, login' \in BOOLEAN
    PROVE  EngineInv'
<1> USE DEF EngineInv
<1> DEFINE n == engines[e]
           m == engines'[e]
<1>1. SessionTyped'
  BY DEF Delivered, SessionTyped
<1>2. Births'
  <2>1. \A f \in Engine : /\ Phase(f)' = Phase(f)
                          /\ engines'[f].stdin = engines[f].stdin
    BY DEF Delivered, Phase
  <2>2. Phase(e) # "unborn"
    BY EngineFacts DEF Births, Delivered
  <2>3. \A f \in Engine : Phase(f) = "unborn" => engines'[f] = engines[f]
    BY <2>2 DEF Delivered
  <2>4. child \in Engine
    BY DEF Delivered
  <2> QED BY <2>1, <2>3, <2>4 DEF Delivered, Births
<1>3. Reported' /\ TerminalIsTheAccounts'
  BY DEF Delivered, Reported, TerminalIsTheAccounts
<1>4. QueueInv'
  <2> DEFINE I == Len(n.inbox)  O == Len(n.outbox)
  <2>1. /\ e # 0 /\ child' = child /\ e = child /\ sequence' = sequence
        /\ unsettled' = unsettled \ {reply.request} /\ child # 0 /\ reply = n.outbox[1]
        /\ Alive(e)' = Alive(e)
    BY EngineFacts DEF Delivered, Alive, Phase
  <2>2. /\ Len(m.outbox) = O - 1 /\ m.inbox = n.inbox
        /\ \A i \in 1 .. O - 1 : i + 1 \in 1 .. O /\ m.outbox[i] = n.outbox[i + 1]
    BY DEF Delivered
  <2>3. /\ \A i \in 1 .. I : n.inbox[i] \in unsettled
        /\ \A i \in 1 .. O : n.outbox[i].request \in unsettled
        /\ \A i, j \in 1 .. I : i < j => n.inbox[i].id < n.inbox[j].id
        /\ \A i, j \in 1 .. O : i < j => n.outbox[i].request.id < n.outbox[j].request.id
        /\ \A i \in 1 .. O, j \in 1 .. I : n.outbox[i].request.id < n.inbox[j].id
    BY <2>1 DEF QueueInv, Owned, Ordered
  <2>4. I \in Nat /\ O > 0 /\ O \in Nat
    BY DEF Delivered
  <2> HIDE DEF I, O, n, m
  <2>5. 1 \in 1 .. O /\ n.outbox[1].request.id \in Nat
    <3>1. reply.request \in RequestSet
      BY DEF Delivered
    <3> QED BY <2>1, <2>4, <3>1 DEF RequestSet
  <2>6. \A i \in 1 .. I : n.inbox[i] \in unsettled'
    <3> TAKE i \in 1 .. I
    <3>1. n.outbox[1].request.id < n.inbox[i].id
      BY <2>3, <2>5
    <3> QED BY <3>1, <2>1, <2>3, <2>5
  <2>7. \A i \in 1 .. O - 1 : m.outbox[i].request \in unsettled'
    <3> TAKE i \in 1 .. O - 1
    <3>1. i + 1 \in 1 .. O /\ m.outbox[i] = n.outbox[i + 1] /\ 1 < i + 1
      BY <2>2, <2>4
    <3>2. n.outbox[1].request.id < n.outbox[i + 1].request.id
      BY <2>3, <2>5, <3>1
    <3> QED BY <3>1, <3>2, <2>1, <2>3, <2>5
  <2>8. Owned'
    BY <2>1, <2>2, <2>6, <2>7 DEF Owned, I, m
  <2>9. \A i, j \in 1 .. O - 1 : i < j => m.outbox[i].request.id < m.outbox[j].request.id
    <3>1. \A i, j \in 1 .. O - 1 : i < j => i + 1 < j + 1
      BY <2>4
    <3> QED BY <2>2, <2>3, <3>1
  <2>10. \A i \in 1 .. O - 1, j \in 1 .. I : m.outbox[i].request.id < n.inbox[j].id
    BY <2>2, <2>3
  <2>11. Ordered'
    BY <2>1, <2>2, <2>3, <2>9, <2>10 DEF Ordered, I, m
  <2>12. PendingIsTheChilds'
    <3> SUFFICES ASSUME NEW r \in unsettled, r # reply.request
                 PROVE  \/ \E i \in 1 .. I : n.inbox[i] = r
                        \/ \E i \in 1 .. O - 1 : m.outbox[i].request = r
                        \/ ~Alive(e)
      BY <2>1, <2>2 DEF PendingIsTheChilds, I, m
    <3>1. \/ \E i \in 1 .. I : n.inbox[i] = r
          \/ \E i \in 1 .. O : n.outbox[i].request = r
          \/ ~Alive(e)
      BY <2>1 DEF QueueInv, PendingIsTheChilds, I, O, n
    <3>2. ASSUME NEW i \in 1 .. O, n.outbox[i].request = r
          PROVE  \E j \in 1 .. O - 1 : m.outbox[j].request = r
      <4>1. i # 1
        BY <2>1, <3>2
      <4>2. i - 1 \in 1 .. O - 1 /\ (i - 1) + 1 = i
        BY <4>1, <2>4
      <4> QED BY <3>2, <4>2, <2>2
    <3> QED BY <3>1, <3>2
  <2> QED BY <2>1, <2>8, <2>11, <2>12 DEF QueueInv, Numbered
<1> QED BY <1>1, <1>2, <1>3, <1>4

\* The attached engine has ended and is let go of.
LEMMA LostEngine ==
    ASSUME EngineInv, NEW e \in Engine, Lost(e)
    PROVE  EngineInv'
<1> USE DEF EngineInv
<1>1. /\ child' = 0 /\ unsettled' = {} /\ session' \in Account /\ login' \in BOOLEAN
      /\ UNCHANGED <<engines, sequence, leaving, quitting, terminal, strayed, raced>>
  <2>1. session' \in {NoAccount, session}
    BY DEF Lost
  <2>2. login' = (login \/ (quitting = "no" /\ session # NoAccount))
    BY DEF Lost
  <2> QED BY <2>1, <2>2 DEF Lost, Rejects, histories, SessionTyped, Account
<1>2. SessionTyped'
  BY <1>1, SessionAssumption DEF SessionTyped, SessionAssumption
<1>3. Births' /\ Reported' /\ TerminalIsTheAccounts'
  BY <1>1 DEF Births, Reported, TerminalIsTheAccounts, Phase
<1>4. QueueInv'
  BY <1>1 DEF QueueInv, Numbered, Owned, Ordered, PendingIsTheChilds
<1> QED BY <1>2, <1>3, <1>4

\* The engine e stops serving; only a reply may still be on its way.
Stopped(e) ==
    LET n == engines[e]  m == engines'[e] IN
    /\ n.phase \in {"running", "hung"}
    /\ engines' \in [Engine -> EngineSet] /\ \A f \in Engine \ {e} : engines'[f] = engines[f]
    /\ m.phase \in {"ended", "hung"} /\ m.stdin = n.stdin /\ m.outbox = n.outbox
    /\ m.phase = "ended" =>
         /\ m.inbox = <<>> /\ m.account = NoAccount /\ m.report = "none"
         /\ m.chart = NoAccount /\ m.director = NoAccount
    /\ m.phase = "hung" =>
         /\ m.inbox = n.inbox /\ m.account = n.account /\ m.report = n.report
         /\ m.chart = n.chart /\ m.director = n.director
    /\ UNCHANGED <<child, sequence, unsettled, session, login, leaving, quitting, terminal,
                   strayed, raced>>

LEMMA UnbornFacts ==
    /\ Unborn \in EngineSet /\ Unborn.inbox = <<>>
    /\ Unborn.account = NoAccount /\ Unborn.report = "none"
    /\ Unborn.chart = NoAccount /\ Unborn.director = NoAccount
<1> DEFINE none == <<>>
<1>1. none \in Seq(RequestSet) /\ none \in Seq(ReplySet) /\ none = <<>>
  OBVIOUS
<1>2. TRUE \in BOOLEAN /\ NoAccount \in Account /\ "none" \in {"none", "clean", "halt"}
      /\ "unborn" \in {"unborn", "running", "hung", "ended"}
  BY DEF Account
<1>3. Unborn = [phase |-> "unborn", stdin |-> TRUE, inbox |-> none, outbox |-> none,
                account |-> NoAccount, report |-> "none",
                chart |-> NoAccount, director |-> NoAccount]
  BY DEF Unborn
<1> HIDE DEF none
<1>4. Unborn \in EngineSet
  BY <1>1, <1>2, <1>3, Zenon DEF EngineSet
<1>5. /\ Unborn.inbox = none /\ Unborn.account = NoAccount /\ Unborn.report = "none"
      /\ Unborn.chart = NoAccount /\ Unborn.director = NoAccount
  BY <1>3, Zenon
<1> QED BY <1>1, <1>4, <1>5

LEMMA EndingFacts ==
    ASSUME SessionTyped, NEW e \in Engine, Alive(e), engines' = Ending(e),
           UNCHANGED <<child, sequence, unsettled, desktop, leaving, quitting, terminal,
                       strayed, raced>>
    PROVE  Stopped(e) /\ engines'[e].phase = "ended"
<1> DEFINE n == engines[e]
           u == Unborn
           j == [u EXCEPT !.phase = "ended"]
           k == [j EXCEPT !.stdin = n.stdin]
           m == [k EXCEPT !.outbox = n.outbox]
<1>1. /\ n \in EngineSet /\ n.stdin \in BOOLEAN /\ n.outbox \in Seq(ReplySet)
      /\ n.phase \in {"running", "hung"}
  BY EngineFacts DEF Alive, Phase
<1>2. /\ u \in EngineSet /\ u.inbox = <<>> /\ u.account = NoAccount /\ u.report = "none"
      /\ u.chart = NoAccount /\ u.director = NoAccount
  BY UnbornFacts
<1>3. engines' = [engines EXCEPT ![e] = [u EXCEPT !.phase = "ended", !.stdin = n.stdin,
                                                  !.outbox = n.outbox]]
  BY DEF Ending
<1> HIDE DEF u, n
<1>4. [u EXCEPT !.phase = "ended", !.stdin = n.stdin, !.outbox = n.outbox] = m
  BY <1>2 DEF EngineSet
<1>5. /\ j \in EngineSet /\ j.phase = "ended" /\ j.inbox = u.inbox /\ j.account = u.account
      /\ j.report = u.report /\ j.chart = u.chart /\ j.director = u.director
  BY <1>2 DEF EngineSet
<1> HIDE DEF j
<1>6. /\ k \in EngineSet /\ k.phase = j.phase /\ k.inbox = j.inbox /\ k.account = j.account
      /\ k.report = j.report /\ k.chart = j.chart /\ k.director = j.director
      /\ k.stdin = n.stdin
  BY <1>1, <1>5 DEF EngineSet
<1> HIDE DEF k
<1>7. /\ m \in EngineSet /\ m.phase = k.phase /\ m.inbox = k.inbox /\ m.account = k.account
      /\ m.report = k.report /\ m.chart = k.chart /\ m.director = k.director
      /\ m.stdin = k.stdin /\ m.outbox = n.outbox
  BY <1>1, <1>6 DEF EngineSet
<1> HIDE DEF m
<1>8. /\ engines' \in [Engine -> EngineSet] /\ engines'[e] = m
      /\ \A f \in Engine \ {e} : engines'[f] = engines[f]
  BY <1>3, <1>4, <1>7, EngineChanges
<1> QED BY <1>1, <1>2, <1>5, <1>6, <1>7, <1>8 DEF Stopped, desktop, n

LEMMA HangFacts ==
    ASSUME SessionTyped, NEW e \in Engine, Hang(e)
    PROVE  Stopped(e) /\ engines'[e].phase = "hung"
<1> DEFINE n == engines[e]
           m == [n EXCEPT !.phase = "hung"]
<1>1. n \in EngineSet /\ n.phase = "running" /\ engines' = [engines EXCEPT ![e] = m]
      /\ UNCHANGED <<child, sequence, unsettled, desktop, leaving, quitting, terminal, strayed,
                     raced>>
  BY EngineFacts DEF Hang, Phase
<1> HIDE DEF n
<1>2. /\ m \in EngineSet /\ m.phase = "hung" /\ m.stdin = n.stdin /\ m.outbox = n.outbox
      /\ m.inbox = n.inbox /\ m.account = n.account /\ m.report = n.report
      /\ m.chart = n.chart /\ m.director = n.director
  BY <1>1 DEF EngineSet
<1> HIDE DEF m
<1>3. /\ engines' \in [Engine -> EngineSet] /\ engines'[e] = m
      /\ \A f \in Engine \ {e} : engines'[f] = engines[f]
  BY <1>1, <1>2, EngineChanges
<1> QED BY <1>1, <1>2, <1>3 DEF Stopped, desktop, n

LEMMA StoppedEngine ==
    ASSUME EngineInv, NEW e \in Engine, Stopped(e)
    PROVE  EngineInv'
<1> USE DEF EngineInv
<1> DEFINE n == engines[e]
           m == engines'[e]
<1>1. SessionTyped'
  BY DEF Stopped, SessionTyped
<1>2. Births'
  <2>1. \A f \in Engine : /\ Phase(f)' = "unborn" <=> Phase(f) = "unborn"
                          /\ engines'[f].stdin = engines[f].stdin
                          /\ Phase(f) = "unborn" => engines'[f] = engines[f]
    BY DEF Stopped, Phase
  <2>2. child # 0 => child \in Engine
    BY ChildFacts
  <2> QED BY <2>1, <2>2 DEF Stopped, Births
<1>3. Reported'
  BY DEF Reported, Stopped
<1>4. /\ child' = child /\ unsettled' = unsettled /\ sequence' = sequence
      /\ terminal' = terminal /\ strayed' = strayed
  BY DEF Stopped
<1>5. TerminalIsTheAccounts'
  <2>1. child # 0 => child \in Engine
    BY ChildFacts
  <2>2. child # 0 => engines'[child].account \in {engines[child].account, NoAccount}
    BY <2>1 DEF Stopped
  <2> QED BY <1>4, <2>2 DEF TerminalIsTheAccounts
<1>6. QueueInv'
  <2>1. CASE e # child
    <3>1. child # 0 => engines'[child] = engines[child]
      BY <2>1, ChildFacts DEF Stopped
    <3>2. Numbered' /\ Owned' /\ Ordered'
      BY <1>4, <3>1 DEF QueueInv, Numbered, Owned, Ordered
    <3>3. PendingIsTheChilds'
      BY <1>4, <3>1 DEF QueueInv, PendingIsTheChilds, Alive, Phase
    <3> QED BY <3>2, <3>3 DEF QueueInv
  <2>2. CASE e = child
    <3>1. /\ m.outbox = n.outbox
          /\ \/ m.phase = "ended" /\ m.inbox = <<>>
             \/ m.phase = "hung" /\ m.inbox = n.inbox
      BY DEF Stopped
    <3>2. child # 0
      BY <2>2, EngineFacts
    <3>3. Numbered'
      BY <1>4 DEF QueueInv, Numbered
    <3>4. CASE m.phase = "ended" /\ m.inbox = <<>>
      <4>1. Owned' /\ Ordered'
        BY <1>4, <2>2, <3>1, <3>2, <3>4 DEF QueueInv, Owned, Ordered
      <4>2. PendingIsTheChilds'
        BY <1>4, <2>2, <3>2, <3>4 DEF PendingIsTheChilds, Alive, Phase
      <4> QED BY <3>3, <4>1, <4>2 DEF QueueInv
    <3>5. CASE m.phase = "hung" /\ m.inbox = n.inbox
      <4>1. Owned' /\ Ordered'
        BY <1>4, <2>2, <3>1, <3>2, <3>5 DEF QueueInv, Owned, Ordered
      <4>2. n.phase \in {"running", "hung"}
        BY DEF Stopped
      <4>3. PendingIsTheChilds'
        BY <1>4, <2>2, <3>1, <3>2, <3>5, <4>2 DEF QueueInv, PendingIsTheChilds, Alive, Phase
      <4> QED BY <3>3, <4>1, <4>3 DEF QueueInv
    <3> QED BY <3>1, <3>4, <3>5
  <2> QED BY <2>1, <2>2
<1> QED BY <1>1, <1>2, <1>3, <1>5, <1>6

-----------------------------------------------------------------------------
(* The steps, for the part that holds however the switch is pressed.       *)

LEMMA LoginSent ==
    ASSUME EngineInv, NEW cmd \in LoginCmds, NEW acct \in Account,
           cmd = "connect" => acct # NoAccount, FromLogin(cmd, acct)
    PROVE  EngineInv' /\ \E r : r.cmd = cmd /\ Sent(child', r)
<1>1. Send(cmd, acct) /\ quitting # "exited"
      /\ UNCHANGED <<session, login, leaving, quitting, terminal, strayed>>
  BY DEF FromLogin, Open
<1>2. raced' \in BOOLEAN
  <2>1. raced' = (raced \/ Opening)
    BY DEF FromLogin
  <2> QED BY <2>1, Zenon DEF EngineInv, SessionTyped
<1>3. PICK r : r.cmd = cmd /\ Sent(child', r)
  BY <1>1, SendFacts DEF EngineInv
<1>4. EngineInv'
  BY <1>1, <1>2, <1>3, SendEngine
<1> QED BY <1>3, <1>4

LEMMA ChartSent ==
    ASSUME EngineInv, Subscribe \/ Poll
    PROVE  /\ EngineInv'
           /\ \E r : r.cmd \in Chart /\ (~Open => r.cmd = "poll") /\ Sent(child', r)
<1>0. NoAccount \in Account
  BY DEF Account
<1>1. PICK cmd \in Chart : Send(cmd, NoAccount) /\ (~Open => cmd = "poll")
  BY DEF Subscribe, Poll, Chart
<1>2. /\ quitting # "exited" /\ raced' = raced
      /\ UNCHANGED <<session, login, leaving, quitting, terminal, strayed>>
  BY DEF Subscribe, Poll, Open, histories
<1>3. cmd # "connect"
  BY DEF Chart
<1>4. PICK r : r.cmd = cmd /\ Sent(child', r)
  BY <1>0, <1>1, <1>3, SendFacts DEF EngineInv
<1>5. EngineInv'
  BY <1>2, <1>4, SendEngine DEF EngineInv, SessionTyped
<1> QED BY <1>1, <1>4, <1>5

LEMMA LoginFacts ==
    ASSUME \/ \E account \in Accounts : Connect(account)
           \/ Preflight \/ Enter
    PROVE  \E cmd \in LoginCmds, acct \in Account :
              (cmd = "connect" => acct # NoAccount) /\ FromLogin(cmd, acct)
<1>1. ASSUME NEW account \in Accounts, Connect(account)
      PROVE  FromLogin("connect", account) /\ account # NoAccount /\ account \in Account
  BY <1>1, SessionAssumption DEF Connect, SessionAssumption, Account
<1>2. CASE Preflight
  BY <1>2 DEF Preflight, LoginCmds, Account
<1>3. CASE Enter
  BY <1>3 DEF Enter, LoginCmds, Account
<1> QED BY <1>1, <1>2, <1>3 DEF LoginCmds

\* What Switch, Timeout and Quit share.
LEMMA DropsAre ==
    ASSUME EngineInv, Switch \/ Timeout \/ Quit
    PROVE  /\ child' = 0 /\ engines' = Dropped /\ unsettled' = {} /\ quitting # "exited"
           /\ UNCHANGED <<sequence, terminal, strayed, raced>>
           /\ EngineInv'
<1> USE DEF EngineInv
<1>1. child # 0 => child \in Engine
  BY ChildFacts
<1>2. CASE Switch
  <2>1. /\ child' = 0 /\ engines' = Dropped /\ unsettled' = {} /\ quitting = "no"
        /\ UNCHANGED <<sequence, terminal, strayed, raced>>
        /\ session' = NoAccount /\ login' = (login \/ child = 0) /\ quitting' = quitting
        /\ leaving' = IF child = 0 THEN leaving ELSE leaving \cup {child}
    BY <1>2 DEF Switch, Reconnect, Rejects, Open, histories
  <2>2. session' \in Account /\ leaving' \in SUBSET Engine
    BY <1>1, <2>1 DEF SessionTyped, Account
  <2>3. login' \in BOOLEAN
    BY <2>1, Zenon DEF SessionTyped
  <2> QED BY <2>1, <2>2, <2>3, DropEngine
<1>3. CASE Timeout
  BY <1>3, DropEngine DEF Timeout, Rejects, histories, SessionTyped
<1>4. CASE Quit
  BY <1>1, <1>4, DropEngine DEF Quit, Rejects, Open, histories, SessionTyped
<1> QED BY <1>2, <1>3, <1>4

LEMMA EngineStep ==
    ASSUME EngineInv, SessionNext
    PROVE  EngineInv'
<1>1. CASE \/ \E account \in Accounts : Connect(account)
           \/ Preflight \/ Enter
  BY <1>1, LoginFacts, LoginSent
<1>2. CASE Subscribe \/ Poll
  BY <1>2, ChartSent
<1>3. CASE Switch \/ Quit \/ Timeout
  BY <1>3, DropsAre
<1>4. CASE ExitDesktop
  BY <1>4, ExitEngine
<1>5. ASSUME NEW e \in Engine, ShowLogin(e)
      PROVE  EngineInv'
  BY <1>5, WindowEngine DEF ShowLogin, histories, EngineInv, SessionTyped
<1>6. ASSUME NEW e \in Engine, Deliver(e)
      PROVE  EngineInv'
  <2> DEFINE reply == Head(engines[e].outbox)
             entered == reply.request.cmd = "enter" /\ reply.ok
  <2>1. Delivered(e, reply)
    BY <1>6, DeliverFacts DEF EngineInv
  <2>2. session' = IF entered THEN reply.account ELSE session
    BY <1>6 DEF Deliver
  <2>3. login' = (login /\ ~entered)
    BY <1>6, Zenon DEF Deliver
  <2> HIDE DEF entered, reply
  <2>4. session' \in Account
    BY <2>1, <2>2 DEF Delivered, EngineInv, SessionTyped
  <2>5. login' \in BOOLEAN
    BY <2>3, Zenon DEF EngineInv, SessionTyped
  <2> QED BY <2>1, <2>4, <2>5, DeliverEngine
<1>7. ASSUME NEW e \in Engine, Lost(e)
      PROVE  EngineInv'
  BY <1>7, LostEngine
<1>8. ASSUME NEW e \in Engine, Handle(e)
      PROVE  EngineInv'
  BY <1>8, HandleFacts, HandleEngine DEF EngineInv
<1>9. ASSUME NEW e \in Engine, EndEngine(e) \/ Kill(e) \/ Die(e)
      PROVE  EngineInv'
  <2>1. Alive(e) /\ engines' = Ending(e)
        /\ UNCHANGED <<child, sequence, unsettled, desktop, leaving, quitting, terminal,
                       strayed, raced>>
    BY <1>9 DEF EndEngine, Kill, Die, histories, Alive
  <2> QED BY <2>1, EndingFacts, StoppedEngine DEF EngineInv
<1>10. ASSUME NEW e \in Engine, Hang(e)
       PROVE  EngineInv'
  BY <1>10, HangFacts, StoppedEngine DEF EngineInv
<1> QED BY <1>1, <1>2, <1>3, <1>4, <1>5, <1>6, <1>7, <1>8, <1>9, <1>10
        DEF SessionNext, Process

LEMMA EngineStutters ==
    ASSUME EngineInv, UNCHANGED sessionVars
    PROVE  EngineInv'
<1>1. UNCHANGED <<child, engines, sequence, unsettled, session, login, leaving, quitting, terminal,
                  strayed, raced>>
  BY DEF sessionVars, desktop, histories
<1> QED BY <1>1, WindowEngine DEF EngineInv, SessionTyped

-----------------------------------------------------------------------------
(* The steps, for the windows and the accounts: no switch during a switch. *)

WindowInv == StudioInv /\ ChartInv

LEMMA WriteFacts ==
    ASSUME EngineInv, WindowInv, NEW r, NEW to, Sent(to, r), quitting # "exited",
           raced => raced', quitting' = quitting
    PROVE  /\ ChartIsTheAccounts' /\ Entering'
           /\ \A f \in Engine : engines'[f].stdin = engines[f].stdin
           /\ Len(engines[to].inbox) \in Nat
           /\ Len(engines'[to].inbox) = Len(engines[to].inbox) + 1
           /\ \A i \in 1 .. Len(engines[to].inbox) : engines'[to].inbox[i] = engines[to].inbox[i]
           /\ engines'[to].inbox[Len(engines[to].inbox) + 1] = r
           /\ child = 0 => /\ Len(engines[to].inbox) = 0
                           /\ engines[to].chart = NoAccount
                           /\ engines[to].director = NoAccount
<1> USE DEF EngineInv, WindowInv, StudioInv, ChartInv
<1>1. ChartIsTheAccounts' /\ \A f \in Engine : engines'[f].stdin = engines[f].stdin
  BY DEF ChartIsTheAccounts, Sent
<1>2. engines[to].inbox \in Seq(RequestSet) /\ engines[to].outbox \in Seq(ReplySet)
  BY EngineFacts DEF Sent
<1>3. Entering'
  <2>1. CASE child = 0
    <3>1. child' = to /\ engines'[to].outbox = <<>>
      BY <2>1 DEF Sent
    <3> QED BY <3>1 DEF Entering
  <2>2. CASE child # 0
    <3>1. /\ child' = to /\ to = child /\ engines'[to].outbox = engines[to].outbox
          /\ engines'[to].account = engines[to].account
          /\ engines'[to].report = engines[to].report
      BY <2>2 DEF Sent
    <3>2. Alive(child)' => Alive(child)
      BY <2>2 DEF Births, Sent, Alive, Phase
    <3> QED BY <2>2, <3>1, <3>2 DEF Entering, Entitled
  <2> QED BY <2>1, <2>2
<1>4. child = 0 => /\ Len(engines[to].inbox) = 0
                   /\ engines[to].chart = NoAccount /\ engines[to].director = NoAccount
  BY DEF Sent, Births
<1> QED BY <1>1, <1>2, <1>3, <1>4 DEF Sent

LEMMA LoginWindow ==
    ASSUME EngineInv, WindowInv, NEW cmd \in LoginCmds, NEW acct \in Account,
           FromLogin(cmd, acct), NEW r, r.cmd = cmd, Sent(child', r)
    PROVE  WindowInv'
<1> USE DEF WindowInv, StudioInv, ChartInv
<1> DEFINE to == child'
           n == engines[to]
           m == engines'[to]
           I == Len(n.inbox)
<1>1. /\ quitting = "no" /\ login /\ ~Busy /\ raced' = (raced \/ Opening)
      /\ UNCHANGED <<session, login, leaving, quitting, terminal, strayed>>
  BY DEF FromLogin, Open
<1>2. session = NoAccount /\ leaving = {}
  BY <1>1 DEF Windows, Open
<1>3. /\ to \in Engine /\ to # 0 /\ \A f \in Engine \ {to} : engines'[f] = engines[f]
      /\ m.chart = n.chart /\ m.director = n.director
      /\ unsettled' = unsettled \cup {r} /\ (child # 0 => to = child)
      /\ r.cmd \notin Chart
  BY DEF Sent, LoginCmds, Chart
<1>4. /\ ChartIsTheAccounts' /\ Entering'
      /\ I \in Nat /\ Len(m.inbox) = I + 1 /\ m.inbox[I + 1] = r
      /\ \A i \in 1 .. I : m.inbox[i] = n.inbox[i]
      /\ child = 0 => I = 0 /\ n.chart = NoAccount /\ n.director = NoAccount
  <2>1. quitting # "exited" /\ quitting' = quitting
    BY <1>1
  <2>2. raced => raced'
    BY <1>1, Zenon
  <2> QED BY <2>1, <2>2, WriteFacts
<1>5. /\ n.chart = NoAccount /\ n.director = NoAccount
      /\ \A i \in 1 .. I : n.inbox[i].cmd \notin Chart
  BY <1>1, <1>3, <1>4 DEF Fresh, Open
<1> HIDE DEF n, m, I, to
<1>6. \A i \in 1 .. I + 1 : i \in 1 .. I \/ i = I + 1
  BY <1>4
<1>7. \A i \in 1 .. I + 1 : m.inbox[i].cmd \notin Chart
  BY <1>3, <1>4, <1>5, <1>6
<1>8. Windows'
  BY <1>1, <1>2 DEF Windows, Open
<1>9. Fresh'
  <2>1. /\ m.chart = NoAccount /\ m.director = NoAccount
        /\ \A i \in 1 .. Len(m.inbox) : m.inbox[i].cmd \notin Chart
    BY <1>3, <1>4, <1>5, <1>7
  <2> QED BY <2>1 DEF Fresh, m, to
<1>10. LoginFirst'
  <2>1. ASSUME NEW f \in Engine
        PROVE  /\ {engines'[f].chart, engines'[f].director} # {NoAccount} =>
                    \A i \in 1 .. Len(engines'[f].inbox) : engines'[f].inbox[i].cmd # "connect"
               /\ \A i, j \in 1 .. Len(engines'[f].inbox) :
                    i < j /\ engines'[f].inbox[i].cmd \in Chart
                      => engines'[f].inbox[j].cmd # "connect"
    <3>1. CASE f = to
      BY <3>1, <1>3, <1>4, <1>5, <1>7 DEF m
    <3>2. CASE f # to
      <4>1. engines'[f] = engines[f]
        BY <3>2, <1>3
      <4> QED BY <4>1 DEF LoginFirst
    <3> QED BY <3>1, <3>2
  <2> QED BY <2>1 DEF LoginFirst
<1>11. OnlyPolls' /\ NoLogin' /\ Replaced' /\ SessionIsAuthorized'
  BY <1>1, <1>2 DEF OnlyPolls, NoLogin, Replaced, SessionIsAuthorized, Open
<1>12. OneLogin'
  <2>1. ~raced' => \A s \in unsettled : s.cmd \notin LoginCmds
    BY <1>1 DEF Busy, Opening, OfKind, LoginCmds
  <2> QED BY <1>3, <2>1 DEF OneLogin
<1> QED BY <1>4, <1>8, <1>9, <1>10, <1>11, <1>12

LEMMA ChartWindow ==
    ASSUME EngineInv, WindowInv, Subscribe \/ Poll, NEW r, r.cmd \in Chart,
           ~Open => r.cmd = "poll", Sent(child', r)
    PROVE  WindowInv'
<1> USE DEF WindowInv, StudioInv, ChartInv
<1> DEFINE to == child'
           n == engines[to]
           m == engines'[to]
           I == Len(n.inbox)
<1>1. /\ quitting # "exited" /\ session # NoAccount
      /\ UNCHANGED <<session, login, leaving, quitting, terminal, strayed, raced>>
  BY DEF Subscribe, Poll, Open, histories
<1>2. Open => ~login /\ leaving = {}
  BY <1>1 DEF Windows
<1>3. /\ to \in Engine /\ to # 0 /\ \A f \in Engine \ {to} : engines'[f] = engines[f]
      /\ m.chart = n.chart /\ m.director = n.director
      /\ m.account = n.account /\ m.report = n.report
      /\ unsettled' = unsettled \cup {r} /\ (child # 0 => to = child)
      /\ r.cmd \notin LoginCmds /\ r.cmd # "connect"
  BY DEF Sent, LoginCmds, Chart
<1>4. /\ ChartIsTheAccounts' /\ Entering'
      /\ \A f \in Engine : engines'[f].stdin = engines[f].stdin
      /\ I \in Nat /\ Len(m.inbox) = I + 1 /\ m.inbox[I + 1] = r
      /\ \A i \in 1 .. I : m.inbox[i] = n.inbox[i]
  BY <1>1, WriteFacts
<1>5. Windows' /\ Fresh'
  BY <1>1, <1>2 DEF Windows, Fresh, Open
<1>6. LoginFirst'
  <2>1. ASSUME NEW f \in Engine
        PROVE  /\ {engines'[f].chart, engines'[f].director} # {NoAccount} =>
                    \A i \in 1 .. Len(engines'[f].inbox) : engines'[f].inbox[i].cmd # "connect"
               /\ \A i, j \in 1 .. Len(engines'[f].inbox) :
                    i < j /\ engines'[f].inbox[i].cmd \in Chart
                      => engines'[f].inbox[j].cmd # "connect"
    <3>1. CASE f = to
      <4>1. /\ {n.chart, n.director} # {NoAccount} =>
                 \A i \in 1 .. I : n.inbox[i].cmd # "connect"
            /\ \A i, j \in 1 .. I :
                 i < j /\ n.inbox[i].cmd \in Chart => n.inbox[j].cmd # "connect"
        BY <1>3 DEF LoginFirst
      <4> HIDE DEF n, m, I
      <4>2. \A i \in 1 .. I + 1 : i \in 1 .. I \/ i = I + 1
        BY <1>4
      <4>3. {m.chart, m.director} # {NoAccount} =>
                 \A i \in 1 .. I + 1 : m.inbox[i].cmd # "connect"
        BY <1>3, <1>4, <4>1, <4>2
      <4>4. ASSUME NEW i \in 1 .. I + 1, NEW j \in 1 .. I + 1, i < j, m.inbox[i].cmd \in Chart
            PROVE  m.inbox[j].cmd # "connect"
        <5>1. i \in 1 .. I
          BY <1>4, <4>4
        <5> QED BY <1>3, <1>4, <4>1, <4>2, <4>4, <5>1
      <4> QED BY <3>1, <1>4, <4>3, <4>4 DEF m
    <3>2. CASE f # to
      <4>1. engines'[f] = engines[f]
        BY <3>2, <1>3
      <4> QED BY <4>1 DEF LoginFirst
    <3> QED BY <3>1, <3>2
  <2> QED BY <2>1 DEF LoginFirst
<1>7. OnlyPolls' /\ OneLogin' /\ NoLogin'
  BY <1>1, <1>3 DEF OnlyPolls, OneLogin, NoLogin, Open
<1>8. Replaced'
  BY <1>1, <1>3, <1>4 DEF Replaced, Open
<1>9. SessionIsAuthorized'
  <2>1. CASE child # 0
    <3>1. to = child /\ (Alive(child)' => Alive(child))
      BY <1>3, <2>1 DEF EngineInv, Births, Sent, Alive, Phase
    <3>2. \A f \in 1 .. child - 1 : engines'[f].stdin = engines[f].stdin
      BY <1>3, <1>4, <3>1, SessionAssumption DEF Engine, SessionAssumption
    <3> QED BY <1>1, <1>3, <2>1, <3>1, <3>2 DEF SessionIsAuthorized, Entitled
  <2>2. CASE child = 0
    <3>1. PICK f \in Engine : ~engines[f].stdin
      BY <1>1, <2>2 DEF Replaced
    <3>2. Phase(f) # "unborn" /\ Phase(to) = "unborn"
      BY <1>1, <2>2, <3>1 DEF EngineInv, Births, Sent
    <3>3. ~(to < f) /\ f # to
      <4>1. to \in Engine
        BY <1>3
      <4>2. to < f => Phase(to) # "unborn"
        BY <3>2, <4>1 DEF EngineInv, Births
      <4> QED BY <3>2, <4>2
    <3>4. f \in 1 .. to - 1
      <4>1. f \in Engine /\ to \in Engine /\ MaxEngines \in Nat
        BY <1>3, SessionAssumption DEF SessionAssumption
      <4> HIDE DEF to
      <4> QED BY <3>3, <4>1 DEF Engine
    <3>5. ~engines'[f].stdin
      BY <1>4, <3>1
    <3> QED BY <3>4, <3>5 DEF SessionIsAuthorized
  <2> QED BY <2>1, <2>2
<1> QED BY <1>4, <1>5, <1>6, <1>7, <1>8, <1>9

LEMMA DropWindow ==
    ASSUME EngineInv, WindowInv, ~Hurried, Switch \/ Timeout \/ Quit
    PROVE  WindowInv'
<1> USE DEF EngineInv, WindowInv, StudioInv, ChartInv
<1>1. /\ child' = 0 /\ engines' = Dropped /\ unsettled' = {} /\ quitting # "exited"
      /\ raced' = raced
  BY DropsAre
<1>2. \A f \in Engine : /\ engines'[f].inbox = engines[f].inbox
                        /\ engines'[f].account = engines[f].account
                        /\ engines'[f].chart = engines[f].chart
                        /\ engines'[f].director = engines[f].director
                        /\ ~engines[f].stdin => ~engines'[f].stdin
                        /\ f = child => ~engines'[f].stdin
  BY <1>1, DropFacts
<1>3. OnlyPolls' /\ OneLogin' /\ NoLogin'
  BY <1>1 DEF OnlyPolls, OneLogin, NoLogin
<1>4. Entering' /\ SessionIsAuthorized' /\ Fresh'
  BY <1>1 DEF Entering, SessionIsAuthorized, Fresh
<1>5. ChartIsTheAccounts'
  BY <1>2 DEF ChartIsTheAccounts
<1>6. LoginFirst'
  BY <1>2 DEF LoginFirst
<1>7. Windows' /\ Replaced'
  <2>1. CASE Switch
    <3>1. /\ quitting = "no" /\ session # NoAccount /\ session' = NoAccount
          /\ leaving' = (IF child = 0 THEN leaving ELSE leaving \cup {child})
          /\ (login' <=> (login \/ child = 0))
      BY <2>1 DEF Switch, Reconnect, Open
    <3>2. ~login /\ leaving = {}
      BY <3>1 DEF Windows, Open
    <3> QED BY <1>1, <3>1, <3>2 DEF Windows, Replaced
  <2>2. CASE Timeout
    <3>1. unsettled # {} /\ UNCHANGED <<session, login, leaving, quitting>>
      BY <2>2 DEF Timeout
    <3>2. child # 0 /\ child \in Engine
      BY <3>1, ChildFacts DEF QueueInv, PendingIsTheChilds
    <3>3. Windows'
      BY <1>1, <3>1 DEF Windows, Open
    <3> QED BY <1>2, <3>2, <3>3 DEF Replaced
  <2>3. CASE Quit
    <3>1. quitting = "no" /\ quitting' = "stopping" /\ session' = session
      BY <2>3 DEF Quit, Open
    <3>2. CASE child # 0
      <4>1. child \in Engine
        BY <3>2, ChildFacts
      <4> QED BY <1>2, <3>1, <4>1 DEF Replaced, Windows, Open
    <3>3. CASE child = 0
      BY <1>2, <3>1, <3>3 DEF Replaced, Windows, Open
    <3> QED BY <3>2, <3>3
  <2> QED BY <2>1, <2>2, <2>3
<1> QED BY <1>3, <1>4, <1>5, <1>6, <1>7

\* The windows and the requests alone decide these.
LEMMA ShowWindow ==
    ASSUME EngineInv, WindowInv, NEW e \in Engine, ShowLogin(e)
    PROVE  WindowInv'
<1> USE DEF WindowInv, StudioInv, ChartInv
<1>1. /\ e \in leaving /\ leaving' = leaving \ {e} /\ login' = TRUE
      /\ UNCHANGED <<child, engines, unsettled, session, quitting, raced>>
  BY DEF ShowLogin, histories
<1>2. OnlyPolls' /\ OneLogin' /\ NoLogin' /\ Replaced' /\ LoginFirst' /\ ChartIsTheAccounts'
  BY <1>1 DEF OnlyPolls, OneLogin, NoLogin, Replaced, LoginFirst, ChartIsTheAccounts, Open
<1>3. Entering' /\ SessionIsAuthorized'
  BY <1>1 DEF Entering, SessionIsAuthorized, Alive, Phase
<1>4. Open => session = NoAccount /\ child = 0 /\ leaving' = {}
  BY <1>1 DEF Windows
<1>5. Windows' /\ Fresh'
  BY <1>1, <1>4 DEF Windows, Fresh, Open
<1> QED BY <1>2, <1>3, <1>5

LEMMA ExitWindow ==
    ASSUME EngineInv, WindowInv, ExitDesktop
    PROVE  WindowInv'
<1> USE DEF WindowInv, StudioInv, ChartInv
<1>1. /\ quitting = "stopping" /\ quitting' = "exited"
      /\ UNCHANGED <<child, unsettled, session, raced>>
  BY DEF ExitDesktop, desktop, histories
<1>2. \A f \in Engine :
         /\ Phase(f)' = Phase(f) /\ engines'[f].inbox = engines[f].inbox
         /\ engines'[f].outbox = engines[f].outbox
         /\ engines'[f].account = engines[f].account
         /\ engines'[f].report = engines[f].report
         /\ engines'[f].chart = engines[f].chart
         /\ engines'[f].director = engines[f].director
         /\ ~engines'[f].stdin
  BY ExitEngine
<1>3. Windows' /\ Fresh' /\ Replaced'
  BY <1>1 DEF Windows, Fresh, Replaced, Open
<1>4. OnlyPolls' /\ OneLogin' /\ NoLogin'
  BY <1>1 DEF OnlyPolls, OneLogin, NoLogin, Open
<1>5. LoginFirst' /\ ChartIsTheAccounts'
  <2>1. LoginFirst'
    BY <1>2 DEF LoginFirst
  <2>2. ChartIsTheAccounts'
    BY <1>2 DEF ChartIsTheAccounts
  <2> QED BY <2>1, <2>2
<1>6. child # 0 => child \in Engine
  BY ChildFacts DEF EngineInv
<1>7. Entering' /\ SessionIsAuthorized'
  <2>1. child # 0 => /\ Phase(child)' = Phase(child)
                     /\ engines'[child].outbox = engines[child].outbox
                     /\ engines'[child].account = engines[child].account
                     /\ engines'[child].report = engines[child].report
    BY <1>1, <1>2, <1>6 DEF Phase
  <2>2. Entering'
    BY <1>1, <2>1 DEF Entering, Entitled, Alive, Phase
  <2>3. child # 0 => \A f \in 1 .. child - 1 : f \in Engine
    BY <1>6, SessionAssumption DEF Engine, SessionAssumption
  <2>4. SessionIsAuthorized'
    <3> SUFFICES ASSUME session # NoAccount, child # 0, Alive(child)
                 PROVE  \/ engines'[child].account = session /\ engines'[child].report = "clean"
                        \/ raced
                        \/ \E f \in 1 .. child - 1 : ~engines'[f].stdin
      BY <1>1, <2>1 DEF SessionIsAuthorized, Entitled, Alive, Phase
    <3>1. CASE \E f \in 1 .. child - 1 : ~engines[f].stdin
      BY <1>2, <2>3, <3>1
    <3> QED BY <2>1, <3>1 DEF SessionIsAuthorized, Entitled
  <2> QED BY <2>2, <2>4
<1> QED BY <1>3, <1>4, <1>5, <1>7

LEMMA DeliverWindow ==
    ASSUME EngineInv, WindowInv, NEW e \in Engine, Deliver(e)
    PROVE  WindowInv'
<1> USE DEF EngineInv, WindowInv, StudioInv, ChartInv
<1> DEFINE reply == Head(engines[e].outbox)
           n == engines[e]
           m == engines'[e]
<1>1. Delivered(e, reply)
  BY DeliverFacts
<1>2. PICK entered \in BOOLEAN :
        /\ entered = (reply.request.cmd = "enter" /\ reply.ok)
        /\ session' = IF entered THEN reply.account ELSE session
        /\ login' = (login /\ ~entered)
  <2>1. /\ session' = IF reply.request.cmd = "enter" /\ reply.ok THEN reply.account ELSE session
        /\ login' = (login /\ ~(reply.request.cmd = "enter" /\ reply.ok))
    BY DEF Deliver
  <2>2. (reply.request.cmd = "enter" /\ reply.ok) \in BOOLEAN
    BY Zenon
  <2> QED BY <2>1, <2>2, Zenon
<1> HIDE DEF reply
<1>3. /\ e # 0 /\ child' = e /\ child = e /\ unsettled' = unsettled \ {reply.request}
      /\ UNCHANGED <<leaving, quitting, raced>>
      /\ reply = n.outbox[1] /\ 1 \in 1 .. Len(n.outbox)
      /\ \A f \in Engine \ {e} : engines'[f] = engines[f]
      /\ m.phase = n.phase /\ m.stdin = n.stdin /\ m.inbox = n.inbox
      /\ m.account = n.account /\ m.report = n.report
      /\ m.chart = n.chart /\ m.director = n.director
      /\ \A i \in 1 .. Len(m.outbox) : i + 1 \in 1 .. Len(n.outbox)
                                       /\ m.outbox[i] = n.outbox[i + 1]
  BY <1>1, EngineFacts DEF Delivered
<1>4. reply.request \in unsettled
  BY <1>3 DEF QueueInv, Owned
<1>5. entered => reply.request.cmd = "enter" /\ Open /\ login' = FALSE /\ leaving = {}
  <2>1. entered => reply.request.cmd = "enter"
    BY <1>2, Zenon
  <2>2. entered => login' = FALSE
    BY <1>2, Zenon
  <2>3. entered => Open
    BY <1>4, <2>1 DEF OnlyPolls
  <2>4. Open => leaving = {}
    BY <1>3 DEF Windows
  <2> QED BY <2>1, <2>2, <2>3, <2>4
<1>6. ~entered => session' = session /\ (login' => login)
  BY <1>2, Zenon
<1>7. Windows'
  <2>1. CASE entered
    BY <1>3, <1>5, <2>1 DEF Windows
  <2>2. CASE ~entered
    BY <1>3, <1>6, <2>2 DEF Windows, Open
  <2> QED BY <1>2, <2>1, <2>2
<1>8. Fresh'
  <2>1. CASE entered
    BY <1>5, <2>1 DEF Fresh
  <2>2. CASE ~entered
    BY <1>3, <1>6, <2>2 DEF Fresh, Open
  <2> QED BY <1>2, <2>1, <2>2
<1>9. LoginFirst' /\ ChartIsTheAccounts'
  <2>1. \A f \in Engine : /\ engines'[f].inbox = engines[f].inbox
                          /\ engines'[f].account = engines[f].account
                          /\ engines'[f].chart = engines[f].chart
                          /\ engines'[f].director = engines[f].director
    BY <1>3
  <2>2. LoginFirst'
    BY <2>1 DEF LoginFirst
  <2>3. ChartIsTheAccounts'
    BY <2>1 DEF ChartIsTheAccounts
  <2> QED BY <2>2, <2>3
<1>10. OnlyPolls' /\ OneLogin'
  BY <1>3 DEF OnlyPolls, OneLogin, Open
<1>11. NoLogin'
  <2>1. CASE entered
    <3>1. \A s \in unsettled : s.cmd \in LoginCmds \cup Chart
      BY DEF SessionTyped, RequestSet
    <3>2. ~raced => \A s \in unsettled : s.cmd \in LoginCmds => s = reply.request
      BY <1>4, <1>5, <2>1 DEF OneLogin, LoginCmds
    <3> QED BY <1>3, <3>1, <3>2 DEF NoLogin
  <2>2. CASE ~entered
    BY <1>3, <1>6, <2>2 DEF NoLogin
  <2> QED BY <1>2, <2>1, <2>2
<1>12. Alive(child)' = Alive(child)
  BY <1>3 DEF Alive, Phase
<1>13. Entering'
  <2> SUFFICES ASSUME ~raced, Alive(child), NEW i \in 1 .. Len(m.outbox),
                      m.outbox[i].request.cmd = "enter", m.outbox[i].ok
               PROVE  m.account = m.outbox[i].account /\ m.report = "clean"
    BY <1>3, <1>12 DEF Entering, Entitled
  <2>1. i + 1 \in 1 .. Len(n.outbox) /\ m.outbox[i] = n.outbox[i + 1]
    BY <1>3
  <2>2. n.outbox[i + 1].request.cmd = "enter" /\ n.outbox[i + 1].ok
    BY <2>1
  <2>3. n.account = n.outbox[i + 1].account /\ Entitled(n)
    BY <1>3, <2>1, <2>2 DEF Entering
  <2> QED BY <1>3, <2>1, <2>3 DEF Entitled
<1>14. \A f \in Engine : engines'[f].stdin = engines[f].stdin
  BY <1>3
<1>15. Replaced'
  <2>1. CASE entered
    BY <1>3, <1>5, <2>1 DEF Replaced, Open
  <2>2. CASE ~entered
    BY <1>3, <1>6, <1>14, <2>2 DEF Replaced, Open
  <2> QED BY <1>2, <2>1, <2>2
<1>16. SessionIsAuthorized'
  <2>1. CASE entered
    <3>1. session' = reply.account
      BY <1>2, <2>1
    <3>2. reply.request.cmd = "enter" /\ reply.ok
      BY <1>2, <2>1, Zenon
    <3>3. ~raced /\ Alive(child) => n.account = reply.account /\ Entitled(n)
      BY <1>3, <3>2 DEF Entering
    <3> QED BY <1>3, <1>12, <3>1, <3>3 DEF SessionIsAuthorized, Entitled
  <2>2. CASE ~entered
    <3>1. \A f \in 1 .. child - 1 : f \in Engine
      BY <1>3, SessionAssumption DEF Engine, SessionAssumption
    <3> QED BY <1>3, <1>6, <1>12, <1>14, <2>2, <3>1 DEF SessionIsAuthorized, Entitled
  <2> QED BY <1>2, <2>1, <2>2
<1> QED BY <1>7, <1>8, <1>9, <1>10, <1>11, <1>13, <1>15, <1>16

LEMMA LostWindow ==
    ASSUME EngineInv, WindowInv, NEW e \in Engine, Lost(e)
    PROVE  WindowInv'
<1> USE DEF EngineInv, WindowInv, StudioInv, ChartInv
<1>1. /\ child' = 0 /\ unsettled' = {} /\ quitting # "exited" /\ e = child /\ e # 0
      /\ session' = IF quitting = "no" THEN NoAccount ELSE session
      /\ UNCHANGED <<engines, leaving, quitting, raced>>
  BY EngineFacts DEF Lost, Rejects, histories
<1>2. Windows'
  <2>1. Open => leaving' = {} /\ session' = NoAccount
    BY <1>1 DEF Windows, Open
  <2> QED BY <1>1, <2>1 DEF Windows, Open
<1>3. Replaced'
  BY <1>1 DEF Replaced, Open
<1>4. LoginFirst' /\ ChartIsTheAccounts'
  BY <1>1 DEF LoginFirst, ChartIsTheAccounts
<1>5. Fresh' /\ Entering' /\ SessionIsAuthorized'
  BY <1>1 DEF Fresh, Entering, SessionIsAuthorized
<1>6. OnlyPolls' /\ OneLogin' /\ NoLogin'
  BY <1>1 DEF OnlyPolls, OneLogin, NoLogin
<1> QED BY <1>2, <1>3, <1>4, <1>5, <1>6

LEMMA StoppedWindow ==
    ASSUME EngineInv, WindowInv, NEW e \in Engine, Stopped(e)
    PROVE  WindowInv'
<1> USE DEF EngineInv, WindowInv, StudioInv, ChartInv
<1>1. UNCHANGED <<child, unsettled, session, login, leaving, quitting, raced>>
  BY DEF Stopped
<1>2. \A f \in Engine :
        /\ engines'[f].stdin = engines[f].stdin
        /\ engines'[f].outbox = engines[f].outbox
        /\ \/ /\ engines'[f].inbox = <<>> /\ engines'[f].account = NoAccount
              /\ engines'[f].chart = NoAccount /\ engines'[f].director = NoAccount
              /\ engines'[f].phase = "ended"
           \/ /\ engines'[f].inbox = engines[f].inbox /\ engines'[f].chart = engines[f].chart
              /\ engines'[f].director = engines[f].director
              /\ engines'[f].account = engines[f].account
              /\ engines'[f].report = engines[f].report
              /\ engines'[f].phase \in {"running", "hung"}
                   => engines[f].phase \in {"running", "hung"}
  BY DEF Stopped
<1>3. child # 0 => child \in Engine
  BY ChildFacts
<1>4. Windows' /\ OnlyPolls' /\ OneLogin' /\ NoLogin'
  BY <1>1 DEF Windows, OnlyPolls, OneLogin, NoLogin, Open
<1>5. Replaced'
  BY <1>1, <1>2 DEF Replaced, Open
<1>6. Fresh'
  <2> SUFFICES ASSUME Open, login, child # 0
               PROVE  /\ engines'[child].chart = NoAccount /\ engines'[child].director = NoAccount
                      /\ \A i \in 1 .. Len(engines'[child].inbox) :
                            engines'[child].inbox[i].cmd \notin Chart
    BY <1>1 DEF Fresh, Open
  <2>1. CASE engines'[child].inbox = <<>> /\ engines'[child].chart = NoAccount
             /\ engines'[child].director = NoAccount
    BY <2>1
  <2>2. CASE engines'[child].inbox = engines[child].inbox
             /\ engines'[child].chart = engines[child].chart
             /\ engines'[child].director = engines[child].director
    BY <2>2 DEF Fresh
  <2> QED BY <1>2, <1>3, <2>1, <2>2
<1>7. LoginFirst'
  <2> SUFFICES ASSUME NEW f \in Engine
               PROVE  /\ {engines'[f].chart, engines'[f].director} # {NoAccount} =>
                           \A i \in 1 .. Len(engines'[f].inbox) :
                              engines'[f].inbox[i].cmd # "connect"
                      /\ \A i, j \in 1 .. Len(engines'[f].inbox) :
                           i < j /\ engines'[f].inbox[i].cmd \in Chart
                             => engines'[f].inbox[j].cmd # "connect"
    BY DEF LoginFirst
  <2>1. CASE engines'[f].inbox = <<>>
    BY <2>1
  <2>2. CASE engines'[f].inbox = engines[f].inbox
             /\ engines'[f].chart = engines[f].chart
             /\ engines'[f].director = engines[f].director
    BY <2>2 DEF LoginFirst
  <2> QED BY <1>2, <2>1, <2>2
<1>8. ChartIsTheAccounts'
  BY <1>2 DEF ChartIsTheAccounts
<1>9. Entering'
  <2> SUFFICES ASSUME ~raced, child # 0, Alive(child)'
               PROVE  \A i \in 1 .. Len(engines'[child].outbox) :
                         LET reply == engines'[child].outbox[i] IN
                         reply.request.cmd = "enter" /\ reply.ok =>
                            engines'[child].account = reply.account
                            /\ engines'[child].report = "clean"
    BY <1>1 DEF Entering, Entitled
  <2>1. /\ engines'[child].outbox = engines[child].outbox
        /\ engines'[child].account = engines[child].account
        /\ engines'[child].report = engines[child].report /\ Alive(child)
    BY <1>1, <1>2, <1>3 DEF Alive, Phase
  <2> QED BY <2>1 DEF Entering, Entitled
<1>10. SessionIsAuthorized'
  <2> SUFFICES ASSUME session # NoAccount, child # 0, Alive(child)'
               PROVE  \/ engines'[child].account = session /\ engines'[child].report = "clean"
                      \/ raced
                      \/ \E f \in 1 .. child - 1 : ~engines'[f].stdin
    BY <1>1 DEF SessionIsAuthorized, Entitled
  <2>1. /\ engines'[child].account = engines[child].account
        /\ engines'[child].report = engines[child].report /\ Alive(child)
    BY <1>1, <1>2, <1>3 DEF Alive, Phase
  <2>2. \A f \in 1 .. child - 1 : f \in Engine
    BY <1>3, SessionAssumption DEF Engine, SessionAssumption
  <2>3. CASE \E f \in 1 .. child - 1 : ~engines[f].stdin
    BY <1>2, <2>2, <2>3
  <2> QED BY <2>1, <2>3 DEF SessionIsAuthorized, Entitled
<1> QED BY <1>4, <1>5, <1>6, <1>7, <1>8, <1>9, <1>10

LEMMA HandleWindow ==
    ASSUME EngineInv, WindowInv, NEW e \in Engine, NEW out, NEW reply, Handled(e, out, reply)
    PROVE  WindowInv'
<1> USE DEF EngineInv, WindowInv, StudioInv, ChartInv
<1> DEFINE n == engines[e]
           m == engines'[e]
           request == n.inbox[1]
           I == Len(n.inbox)
<1>1. /\ UNCHANGED <<child, unsettled, session, login, leaving, quitting, raced>>
      /\ \A f \in Engine \ {e} : engines'[f] = engines[f]
      /\ n.phase = "running" /\ m.phase = "running" /\ m.stdin = n.stdin
      /\ m.account = out.gate.account /\ m.report = out.gate.report
      /\ m.chart = out.gate.chart /\ m.director = out.gate.director
      /\ reply.request = request /\ reply.ok = out.ok /\ reply.account = out.gate.account
      /\ request \in RequestSet
  BY DEF Handled
<1>2. /\ I \in Nat /\ I > 0 /\ Len(m.inbox) = I - 1
      /\ \A i \in 1 .. I - 1 : i + 1 \in 1 .. I /\ m.inbox[i] = n.inbox[i + 1]
  BY DEF Handled
<1>3. Served(e, request, out)
  BY DEF Handled
<1>4. child # 0 => child \in Engine
  BY ChildFacts
<1>5. /\ 1 \in 1 .. I /\ request.cmd \in LoginCmds \cup Chart
  BY <1>1, <1>2 DEF RequestSet
<1>6. /\ request.cmd \notin Chart => m.chart = n.chart /\ m.director = n.director
      /\ request.cmd \in Chart =>
           /\ m.account = n.account /\ m.report = n.report /\ out.gate.account = n.account
           /\ m.chart \in {n.chart, Keep(n.chart, n.account)}
           /\ m.director \in {n.director, Keep(n.director, n.account)}
      /\ request.cmd # "connect" => m.account \in {n.account, NoAccount}
  BY <1>1, <1>3 DEF Served, SameChart
<1>7. request.cmd = "enter" /\ reply.ok =>
         m.account = reply.account /\ m.report = "clean"
  <2>1. request.cmd = "enter" /\ out.ok => out.gate = n /\ Entitled(n)
    BY <1>3 DEF Served
  <2> QED BY <1>1, <2>1 DEF Entitled
<1>8. \A f \in Engine : engines'[f].stdin = engines[f].stdin
  BY <1>1
<1>9. Windows' /\ OnlyPolls' /\ OneLogin' /\ NoLogin' /\ Replaced'
  BY <1>1, <1>8 DEF Windows, OnlyPolls, OneLogin, NoLogin, Replaced, Open
<1>10. /\ {n.chart, n.director} # {NoAccount} => \A i \in 1 .. I : n.inbox[i].cmd # "connect"
       /\ \A i, j \in 1 .. I : i < j /\ n.inbox[i].cmd \in Chart => n.inbox[j].cmd # "connect"
  BY DEF LoginFirst
<1>11. Fresh'
  <2> SUFFICES ASSUME Open, login, child # 0
               PROVE  /\ engines'[child].chart = NoAccount /\ engines'[child].director = NoAccount
                      /\ \A i \in 1 .. Len(engines'[child].inbox) :
                            engines'[child].inbox[i].cmd \notin Chart
    BY <1>1 DEF Fresh, Open
  <2>1. /\ engines[child].chart = NoAccount /\ engines[child].director = NoAccount
        /\ \A i \in 1 .. Len(engines[child].inbox) : engines[child].inbox[i].cmd \notin Chart
    BY DEF Fresh
  <2>2. CASE e = child
    <3>1. request.cmd \notin Chart /\ n.chart = NoAccount /\ n.director = NoAccount
          /\ \A i \in 1 .. I : n.inbox[i].cmd \notin Chart
      BY <1>5, <2>1, <2>2
    <3>2. \A i \in 1 .. I - 1 : m.inbox[i].cmd \notin Chart
      BY <1>2, <3>1
    <3> QED BY <1>2, <1>6, <2>2, <3>1, <3>2
  <2>3. CASE e # child
    <3>1. engines'[child] = engines[child]
      BY <1>1, <1>4, <2>3
    <3> QED BY <2>1, <3>1
  <2> QED BY <2>2, <2>3
<1>12. LoginFirst'
  <2>1. {m.chart, m.director} # {NoAccount} => \A i \in 1 .. I - 1 : m.inbox[i].cmd # "connect"
    <3>1. CASE request.cmd \in Chart
      <4>1. \A i \in 1 .. I - 1 : 1 < i + 1
        BY <1>2
      <4> QED BY <1>2, <1>5, <1>10, <3>1, <4>1
    <3>2. CASE request.cmd \notin Chart
      BY <1>2, <1>6, <1>10, <3>2
    <3> QED BY <3>1, <3>2
  <2>2. \A i, j \in 1 .. I - 1 : i < j /\ m.inbox[i].cmd \in Chart => m.inbox[j].cmd # "connect"
    <3>1. \A i, j \in 1 .. I - 1 : i < j => i + 1 < j + 1
      BY <1>2
    <3> QED BY <1>2, <1>10, <3>1
  <2> SUFFICES ASSUME NEW f \in Engine
               PROVE  /\ {engines'[f].chart, engines'[f].director} # {NoAccount} =>
                           \A i \in 1 .. Len(engines'[f].inbox) :
                              engines'[f].inbox[i].cmd # "connect"
                      /\ \A i, j \in 1 .. Len(engines'[f].inbox) :
                           i < j /\ engines'[f].inbox[i].cmd \in Chart
                             => engines'[f].inbox[j].cmd # "connect"
    BY DEF LoginFirst
  <2>3. CASE f = e
    BY <1>2, <2>1, <2>2, <2>3
  <2>4. CASE f # e
    <3>1. engines'[f] = engines[f]
      BY <1>1, <2>4
    <3> QED BY <3>1 DEF LoginFirst
  <2> QED BY <2>3, <2>4
<1>13. ChartIsTheAccounts'
  <2>1. n.account # NoAccount => n.chart \in {n.account, NoAccount}
                                 /\ n.director \in {n.account, NoAccount}
    BY DEF ChartIsTheAccounts
  <2>2. m.account # NoAccount => m.chart \in {m.account, NoAccount}
                                 /\ m.director \in {m.account, NoAccount}
    <3>1. CASE request.cmd = "connect"
      <4>1. n.chart = NoAccount /\ n.director = NoAccount
        BY <1>5, <1>10, <3>1
      <4>2. request.cmd \notin Chart
        BY <3>1 DEF Chart
      <4> QED BY <1>6, <4>1, <4>2
    <3>2. CASE request.cmd # "connect" /\ request.cmd \notin Chart
      BY <1>6, <2>1, <3>2
    <3>3. CASE request.cmd \in Chart
      BY <1>6, <2>1, <3>3 DEF Keep
    <3> QED BY <3>1, <3>2, <3>3
  <2>3. \A f \in Engine \ {e} : engines'[f] = engines[f]
    BY <1>1
  <2> QED BY <2>2, <2>3 DEF ChartIsTheAccounts
<1>14. Entering'
  <2> SUFFICES ASSUME ~raced, child # 0, Alive(child)', NEW i \in 1 .. Len(engines'[child].outbox),
                      engines'[child].outbox[i].request.cmd = "enter",
                      engines'[child].outbox[i].ok
               PROVE  /\ engines'[child].account = engines'[child].outbox[i].account
                      /\ engines'[child].report = "clean"
    BY <1>1 DEF Entering, Entitled
  <2>1. CASE e # child
    <3>1. engines'[child] = engines[child]
      BY <1>1, <1>4, <2>1
    <3>2. Alive(child)
      BY <1>1, <3>1 DEF Alive, Phase
    <3> QED BY <3>1, <3>2 DEF Entering, Entitled
  <2>2. CASE e = child
    <3> DEFINE O == Len(n.outbox)
    <3>1. /\ O \in Nat /\ Len(m.outbox) = O + 1 /\ m.outbox[O + 1] = reply
          /\ \A k \in 1 .. O : m.outbox[k] = n.outbox[k]
      BY <2>2 DEF Handled
    <3>2. i \in 1 .. O \/ i = O + 1
      BY <2>2, <3>1
    <3>3. CASE i = O + 1
      BY <1>1, <1>7, <2>2, <3>1, <3>3
    <3>4. CASE i \in 1 .. O
      <4>1. /\ m.outbox[i] = n.outbox[i] /\ n.outbox[i].request.cmd = "enter" /\ n.outbox[i].ok
        BY <2>2, <3>1, <3>4
      <4>2. /\ n.outbox[i].request \in unsettled /\ request \in unsettled
            /\ n.outbox[i].request.id < request.id
        BY <1>5, <2>2, <3>4 DEF QueueInv, Owned, Ordered
      <4>3. n.outbox[i].request # request
        <5>1. request.id \in Nat
          BY <1>1 DEF RequestSet
        <5> QED BY <4>2, <5>1
      <4>4. request.cmd \in Chart
        BY <1>5, <4>1, <4>2, <4>3 DEF OneLogin, LoginCmds
      <4>5. Alive(child)
        BY <1>1, <2>2 DEF Alive, Phase
      <4>6. n.account = n.outbox[i].account /\ n.report = "clean"
        BY <2>2, <3>4, <4>1, <4>5 DEF Entering, Entitled
      <4> QED BY <1>6, <2>2, <4>1, <4>4, <4>6
    <3> QED BY <3>2, <3>3, <3>4
  <2> QED BY <2>1, <2>2
<1>15. SessionIsAuthorized'
  <2> SUFFICES ASSUME session # NoAccount, child # 0, Alive(child)'
               PROVE  \/ engines'[child].account = session /\ engines'[child].report = "clean"
                      \/ raced
                      \/ \E f \in 1 .. child - 1 : ~engines'[f].stdin
    BY <1>1 DEF SessionIsAuthorized, Entitled
  <2>1. \A f \in 1 .. child - 1 : f \in Engine
    BY <1>4, SessionAssumption DEF Engine, SessionAssumption
  <2>2. Alive(child)
    BY <1>1, <1>4 DEF Alive, Phase
  <2>3. CASE \E f \in 1 .. child - 1 : ~engines[f].stdin
    BY <1>8, <2>1, <2>3
  <2>4. CASE raced
    BY <2>4
  <2>5. CASE ~raced /\ engines[child].account = session /\ Entitled(engines[child])
    <3>1. CASE e # child
      <4>1. engines'[child] = engines[child]
        BY <1>1, <1>4, <3>1
      <4> QED BY <2>5, <4>1 DEF Entitled
    <3>2. CASE e = child
      <4>1. request \in unsettled
        BY <1>5, <3>2 DEF QueueInv, Owned
      <4>2. request.cmd \in Chart
        BY <2>5, <4>1 DEF NoLogin
      <4> QED BY <1>6, <2>5, <3>2, <4>2 DEF Entitled
    <3> QED BY <3>1, <3>2
  <2> QED BY <2>2, <2>3, <2>4, <2>5 DEF SessionIsAuthorized
<1> QED BY <1>9, <1>11, <1>12, <1>13, <1>14, <1>15

LEMMA WindowStep ==
    ASSUME EngineInv, WindowInv, ~Hurried, SessionNext
    PROVE  WindowInv'
<1>1. CASE \/ \E account \in Accounts : Connect(account)
           \/ Preflight \/ Enter
  BY <1>1, LoginFacts, LoginSent, LoginWindow
<1>2. CASE Subscribe \/ Poll
  BY <1>2, ChartSent, ChartWindow
<1>3. CASE Switch \/ Quit \/ Timeout
  BY <1>3, DropWindow
<1>4. CASE ExitDesktop
  BY <1>4, ExitWindow
<1>5. ASSUME NEW e \in Engine, ShowLogin(e)
      PROVE  WindowInv'
  BY <1>5, ShowWindow
<1>6. ASSUME NEW e \in Engine, Deliver(e)
      PROVE  WindowInv'
  BY <1>6, DeliverWindow
<1>7. ASSUME NEW e \in Engine, Lost(e)
      PROVE  WindowInv'
  BY <1>7, LostWindow
<1>8. ASSUME NEW e \in Engine, Handle(e)
      PROVE  WindowInv'
  BY <1>8, HandleFacts, HandleWindow DEF EngineInv
<1>9. ASSUME NEW e \in Engine, EndEngine(e) \/ Kill(e) \/ Die(e)
      PROVE  WindowInv'
  <2>1. Alive(e) /\ engines' = Ending(e)
        /\ UNCHANGED <<child, sequence, unsettled, desktop, leaving, quitting, terminal,
                       strayed, raced>>
    BY <1>9 DEF EndEngine, Kill, Die, histories, Alive
  <2> QED BY <2>1, EndingFacts, StoppedWindow DEF EngineInv
<1>10. ASSUME NEW e \in Engine, Hang(e)
       PROVE  WindowInv'
  BY <1>10, HangFacts, StoppedWindow DEF EngineInv
<1> QED BY <1>1, <1>2, <1>3, <1>4, <1>5, <1>6, <1>7, <1>8, <1>9, <1>10
        DEF SessionNext, Process

LEMMA WindowStutters ==
    ASSUME WindowInv, UNCHANGED sessionVars
    PROVE  WindowInv'
<1>1. UNCHANGED <<child, engines, unsettled, session, login, leaving, quitting, raced>>
  BY DEF sessionVars, desktop, histories
<1>2. StudioInv'
  BY <1>1 DEF WindowInv, StudioInv, OnlyPolls, OneLogin, NoLogin, Entering, Replaced,
             SessionIsAuthorized, Open, Alive, Phase
<1>3. ChartInv'
  BY <1>1 DEF WindowInv, ChartInv, Windows, Fresh, LoginFirst, ChartIsTheAccounts, Open
<1> QED BY <1>2, <1>3 DEF WindowInv

LEMMA SessionBegins ==
    ASSUME SessionInit
    PROVE  EngineInv /\ WindowInv
<1>1. \A e \in Engine : engines[e] = Unborn
  BY DEF SessionInit
<1>2. /\ Unborn \in EngineSet /\ Unborn.inbox = <<>> /\ Unborn.outbox = <<>>
      /\ Unborn.account = NoAccount /\ Unborn.report = "none" /\ Unborn.stdin
      /\ Unborn.phase = "unborn" /\ Unborn.chart = NoAccount /\ Unborn.director = NoAccount
  <2>1. Unborn.stdin /\ Unborn.phase = "unborn" /\ Unborn.outbox = <<>>
    BY Zenon DEF Unborn
  <2> QED BY <2>1, UnbornFacts
<1>3. child = 0 /\ unsettled = {} /\ session = NoAccount /\ leaving = {} /\ quitting = "no"
  BY DEF SessionInit
<1>4. SessionTyped
  <2>1. engines \in [Engine -> EngineSet]
    BY <1>2 DEF SessionInit
  <2>2. login \in BOOLEAN /\ strayed \in BOOLEAN /\ raced \in BOOLEAN
    BY Zenon DEF SessionInit
  <2>3. child \in 0 .. MaxEngines /\ sequence \in Nat
    BY SessionAssumption DEF SessionInit, SessionAssumption
  <2>4. terminal = NoAccount
    BY DEF SessionInit
  <2> QED BY <1>3, <2>1, <2>2, <2>3, <2>4 DEF SessionTyped, Account
<1>5. Births /\ Reported /\ LoginFirst /\ ChartIsTheAccounts
  BY <1>1, <1>2, <1>3 DEF Births, Reported, LoginFirst, ChartIsTheAccounts, Phase
<1>6. QueueInv /\ TerminalIsTheAccounts
  BY <1>3 DEF QueueInv, Numbered, Owned, Ordered, PendingIsTheChilds, TerminalIsTheAccounts
<1>7. StudioInv
  BY <1>3 DEF StudioInv, OnlyPolls, OneLogin, NoLogin, Entering, Replaced, SessionIsAuthorized
<1>8. Windows /\ Fresh
  BY <1>3 DEF Windows, Fresh
<1> QED BY <1>4, <1>5, <1>6, <1>7, <1>8 DEF EngineInv, WindowInv, ChartInv

LEMMA SessionInvariant == SessionSpec => []SessionIInv
<1>1. SessionInit => SessionIInv
  BY SessionBegins DEF SessionIInv, WindowInv
<1>2. SessionIInv /\ [SessionNext]_sessionVars => SessionIInv'
  <2> SUFFICES ASSUME SessionIInv, [SessionNext]_sessionVars
               PROVE  SessionIInv'
    OBVIOUS
  <2>1. EngineInv /\ (~Hurried => WindowInv)
    BY DEF SessionIInv, WindowInv
  <2>2. EngineInv'
    BY <2>1, EngineStep, EngineStutters
  <2>3. ~Hurried => WindowInv'
    BY <2>1, WindowStep, WindowStutters
  <2> QED BY <2>2, <2>3 DEF SessionIInv, WindowInv
<1> QED BY <1>1, <1>2, PTL DEF SessionSpec

-----------------------------------------------------------------------------
(* The theorems.                                                           *)

\* Every request of engine.ts that is not settled lies with the engine attached to, with
\* its reply at most on the way: no reply of an engine that stop(), a timer or a switch
\* dropped can settle a request written to its successor.  It holds for every account,
\* every number of engines and requests, and whenever the switch is pressed.
THEOREM PendingStaysWithTheChild == SessionSpec => []PendingIsTheChilds
<1>1. SessionIInv => PendingIsTheChilds
  BY DEF SessionIInv, EngineInv, QueueInv
<1> QED BY <1>1, SessionInvariant, PTL

\* While the operator does not press the switch during a switch, terminal, engine, chart,
\* Director and studio are of one account (auth_session.py, worker.py, main.ts), but for
\* the logins named in the definitions: one sent while the studio was opening, one of an
\* engine already dropped, an engine replaced after a timeout.
THEOREM AccountsStayTogether == ASSUME ~Hurried PROVE SessionSpec => []AccountsAgree
<1>1. SessionIInv => AccountsAgree
  BY DEF SessionIInv, EngineInv, StudioInv, ChartInv, AccountsAgree
<1> QED BY <1>1, SessionInvariant, PTL

\* The terminal belongs to the account the attached engine holds authorized, after every
\* refused login, hang and kill, however the switch is pressed, unless an engine that was
\* dropped with a login still to serve logged the terminal in afterwards.
THEOREM TerminalStaysTheAccounts == SessionSpec => []TerminalIsTheAccounts
<1>1. SessionIInv => TerminalIsTheAccounts
  BY DEF SessionIInv, EngineInv
<1> QED BY <1>1, SessionInvariant, PTL

\* The types SessionTypeOK states, and a report only with an account.
THEOREM SessionTyping == SessionSpec => []SessionTypeOK
<1>1. SessionIInv => SessionTypeOK
  <2> SUFFICES ASSUME SessionIInv
               PROVE  SessionTypeOK
    OBVIOUS
  <2>1. SessionTyped /\ Reported /\ Numbered
    BY DEF SessionIInv, EngineInv, QueueInv
  <2>2. \A e \in Engine : /\ Phase(e) \in {"unborn", "running", "hung", "ended"}
                          /\ engines[e].report \in {"none", "clean", "halt"}
                          /\ engines[e].account \in Account /\ engines[e].chart \in Account
                          /\ engines[e].director \in Account
    BY <2>1 DEF SessionTyped, EngineSet, Phase
  <2>3. \A r \in unsettled : r.id \in 1 .. sequence
    BY <2>1 DEF SessionTyped, RequestSet, Numbered
  <2> QED BY <2>1, <2>2, <2>3 DEF SessionTyped, Reported, SessionTypeOK, Account
<1> QED BY <1>1, SessionInvariant, PTL
-----------------------------------------------------------------------------
(* The desktop beside the file.                                            *)

LEMMA DesktopMoves == [MCNext]_MCVars => [Next]_vars /\ [SessionNext]_sessionVars
<1> SUFFICES ASSUME [MCNext]_MCVars
             PROVE  [Next]_vars /\ [SessionNext]_sessionVars
  OBVIOUS
<1>1. CASE FilePart
  BY <1>1 DEF FilePart
<1>2. CASE SessionPart
  BY <1>2 DEF SessionPart
<1>3. CASE UNCHANGED MCVars
  BY <1>3 DEF MCVars
<1> QED BY <1>1, <1>2, <1>3 DEF MCNext

LEMMA DesktopParts == MCSpec => Spec /\ SessionSpec
<1>1. MCInit => Init /\ SessionInit
  BY DEF MCInit
<1> QED BY <1>1, DesktopMoves, PTL DEF MCSpec, Spec, SessionSpec

\* Every variable of the desktop and of the file has its type, whichever of the two moves
\* (MCDesktop).
THEOREM DesktopTyped == MCSpec => []DesktopTypeOK
<1>1. FileTypeOK /\ SessionTypeOK => DesktopTypeOK
  BY DEF DesktopTypeOK
<1> QED BY <1>1, DesktopParts, FileTyping, SessionTyping, PTL

\* What the file and the desktop keep alone they keep beside each other (MCDesktop).
THEOREM DesktopHolds ==
    MCSpec => ImplementsLedger /\ [](FileIsSound /\ PendingIsTheChilds) /\ (~Hurried => []AccountsAgree)
<1>1. MCSpec => ImplementsLedger
  BY DesktopParts, FileImplementsLedger
<1>2. MCSpec => [](FileIsSound /\ PendingIsTheChilds)
  BY DesktopParts, FilesAreSound, PendingStaysWithTheChild, PTL
<1>3. ~Hurried => (MCSpec => []AccountsAgree)
  BY DesktopParts, AccountsStayTogether
<1> QED BY <1>1, <1>2, <1>3
=============================================================================
