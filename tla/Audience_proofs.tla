--------------------------- MODULE Audience_proofs ---------------------------
(***************************************************************************)
(* The parts of MCStudy the audience meets, which share no state, each for *)
(* every value of its constants: what it sees of the calls (Scoreboard),   *)
(* the show (Audience), the log it comes in by (AudienceTail) and the sink *)
(* of the frames that go out (SpeakerSink).  One section per part, each    *)
(* headed by the argument of its proof; a section uses nothing of          *)
(* another's.                                                              *)
(***************************************************************************)
EXTENDS Scoreboard, Audience, AudienceTail, SpeakerSink, CallLedger_proofs, NatSetFacts,
        FiniteSetTheorems, SequenceTheorems, TLAPS

-----------------------------------------------------------------------------
(* Boards (Scoreboard).  Every copy of the rows that is held anywhere was  *)
(* the ledger's once, so it is in the past of the ledger's rows, and stays *)
(* there because rows only evolve.  A copy that is as old as the file's    *)
(* modification time is the file's, and while no two views overlapped the  *)
(* copy on the screen is at least as new as the time remembered for it.    *)

(* A copy in the past of the rows.                                         *)

HeldOnce(copy) ==
    \A c \in Calls :
        /\ copy[c].state \in Terminal => copy[c] = rows[c]
        /\ copy[c].state = "ACTIVE" => rows[c].state \notin {"NONE", "PENDING", "CANCELLED"}
        /\ copy[c].covered <= rows[c].covered

\* A call that was never created has the blank row.
Blank == \A c \in Calls : rows[c].state = "NONE" => rows[c] = NoRow

LEMMA ServiceEventIsRowStep ==
    ASSUME LedgerTypeOK, NEW c \in Calls, ServiceEvent(c)
    PROVE  LedgerTypeOK' /\ RowStep
<1>1. rows[c].covered + 1 \in Nat
  BY RowTyped DEF Row
<1>2. CASE Create(c)
  BY <1>2, CreateIsRowStep
<1>3. CASE Cancel(c, "CANCEL_REASON", rows[c].covered + 1)
  BY <1>1, <1>3, CancelIsRowStep
<1>4. ASSUME NEW state \in {"PENDING", "ACTIVE", "WIN", "LOSS"}, NEW at, at = rows[c].covered + 1,
             Advance(c, AdvanceEvent(state, at, at, "ROUTINE", FALSE, FALSE, FALSE))
      PROVE  LedgerTypeOK' /\ RowStep
  <2>1. state \in Open \cup Terminal /\ at \in Nat
    BY <1>1, <1>4 DEF Open, Terminal
  <2>2. Event(AdvanceEvent(state, at, at, "ROUTINE", FALSE, FALSE, FALSE))
    BY <2>1, AdvanceEventTyped
  <2> QED BY <1>4, <2>2, AppendIsRowStep DEF Advance
<1> QED BY <1>2, <1>3, <1>4 DEF ServiceEvent

LEMMA RowStepFacts ==
    ASSUME LedgerTypeOK, Blank, RowStep, NEW c \in Calls
    PROVE  /\ rows[c].state \in Terminal => rows'[c] = rows[c]
           /\ rows[c].state = "ACTIVE" =>
                rows'[c].state \notin {"NONE", "PENDING", "CANCELLED"}
           /\ rows[c].covered <= rows'[c].covered
           /\ rows'[c].state = "NONE" => rows'[c] = NoRow
<1>1. rows[c] \in Row
  BY RowTyped
<1>2. CASE rows'[c] = rows[c]
  BY <1>1, <1>2 DEF Blank, Row
<1>3. CASE Published(c)
  BY <1>1, <1>3, CreatedIsNat DEF Published, Blank, NoRow, Terminal
<1>4. CASE Evolved(c)
  <2>1. PICK e : Event(e) /\ StampOk(c, e) /\ Valid(c, e) /\ rows'[c] = Applied(c, e)
    BY <1>4 DEF Evolved
  <2>2. rows'[c].state = e.state /\ rows'[c].covered = e.covered
    BY <2>1 DEF Applied
  <2>3. rows[c].state \notin Terminal /\ rows'[c].state # "NONE"
    BY <2>1, <2>2 DEF Valid, OpenOnly, IsOpen, Open, Terminal, Event
  <2>4. rows[c].covered <= rows'[c].covered
    BY <1>1, <2>1, <2>2 DEF Valid, ForwardOnly, Event, Row
  <2>5. rows[c].state = "ACTIVE" => rows'[c].state \notin {"NONE", "PENDING", "CANCELLED"}
    BY <2>1, <2>2, <2>3 DEF Valid, ActiveHolds, CancelOnlyPending
  <2> QED BY <2>3, <2>4, <2>5
<1> QED BY <1>2, <1>3, <1>4 DEF RowStep

LEMMA HeldOnceStays ==
    ASSUME LedgerTypeOK, LedgerTypeOK', Blank, RowStep, NEW copy \in [Calls -> Row], HeldOnce(copy)
    PROVE  HeldOnce(copy)'
<1> SUFFICES ASSUME NEW c \in Calls
             PROVE  /\ copy[c].state \in Terminal => copy[c] = rows'[c]
                    /\ copy[c].state = "ACTIVE" =>
                         rows'[c].state \notin {"NONE", "PENDING", "CANCELLED"}
                    /\ copy[c].covered <= rows'[c].covered
  BY DEF HeldOnce
<1>1. rows[c] \in Row /\ rows'[c] \in Row /\ copy[c] \in Row
  BY DEF LedgerTypeOK
<1>2. /\ copy[c].state \in Terminal => copy[c] = rows[c]
      /\ copy[c].state = "ACTIVE" => rows[c].state \notin {"NONE", "PENDING", "CANCELLED"}
      /\ copy[c].covered <= rows[c].covered
  BY DEF HeldOnce
<1>3. copy[c].covered \in Nat /\ rows[c].covered \in Nat /\ rows'[c].covered \in Nat
      /\ rows[c].state \in {"NONE", "PENDING", "ACTIVE"} \cup Terminal
  BY <1>1 DEF Row, Open
<1>4. /\ rows[c].state \in Terminal => rows'[c] = rows[c]
      /\ rows[c].state = "ACTIVE" => rows'[c].state \notin {"NONE", "PENDING", "CANCELLED"}
      /\ rows[c].covered <= rows'[c].covered
  BY RowStepFacts
<1>5. copy[c].state \in Terminal => copy[c] = rows'[c]
  BY <1>2, <1>4
<1>6. copy[c].state = "ACTIVE" => rows'[c].state \notin {"NONE", "PENDING", "CANCELLED"}
  BY <1>2, <1>3, <1>4
<1>7. copy[c].covered <= rows'[c].covered
  BY <1>2, <1>3, <1>4
<1> QED BY <1>5, <1>6, <1>7

LEMMA RowsArePast == ASSUME LedgerTypeOK PROVE HeldOnce(rows)
<1>1. ASSUME NEW c \in Calls
      PROVE  /\ rows[c].state = "ACTIVE" => rows[c].state \notin {"NONE", "PENDING", "CANCELLED"}
             /\ rows[c].covered <= rows[c].covered
  <2>1. rows[c].covered \in Nat
    BY RowTyped DEF Row
  <2>2. rows[c].covered <= rows[c].covered
    BY <2>1
  <2>3. rows[c].state = "ACTIVE" => rows[c].state \notin {"NONE", "PENDING", "CANCELLED"}
    OBVIOUS
  <2> QED BY <2>2, <2>3
<1> QED BY <1>1, Zenon DEF HeldOnce

-----------------------------------------------------------------------------
(* The inductive invariant.                                                *)

Waiting == [at |-> "waiting"]

AllWaiting == viewer = [t \in Threads |-> Waiting]

ViewerTyped(v) ==
    \/ v = Waiting
    \/ v = Idle
    \/ v \in [at : {"checked", "published"}, stat : Nat]
    \/ v \in [at : {"loaded"}, stat : Nat, copy : [Calls -> Row]]

BoardTyped ==
    /\ LedgerTypeOK /\ Blank
    /\ mtime \in Nat /\ stamp \in Nat /\ raced \in BOOLEAN
    /\ shown \in [Calls -> Row]
    /\ DOMAIN viewer = Threads
    /\ \A t \in Threads : ViewerTyped(viewer[t])

\* Before the Director is built nobody asks for a view, and then nobody waits.
Attached == AllWaiting \/ \A t \in Threads : viewer[t].at # "waiting"

\* Every copy was the ledger's.
CopiesArePast ==
    /\ HeldOnce(shown)
    /\ \A t \in Threads : viewer[t].at = "loaded" => HeldOnce(viewer[t].copy)

\* No time remembered or about to be is ahead of the file's.
TimesArePast ==
    /\ stamp <= mtime
    /\ \A t \in Threads : t \in Busy => viewer[t].stat <= mtime

\* A copy whose time is the file's is the file's.
FreshIsCurrent ==
    ~raced /\ ~AllWaiting =>
        /\ \A s, t \in Busy : s = t
        /\ \A t \in Threads :
             /\ viewer[t].at = "loaded" /\ viewer[t].stat = mtime => viewer[t].copy = rows
             /\ viewer[t].at = "published" /\ viewer[t].stat = mtime => shown = rows
        /\ (\A t \in Threads : viewer[t].at # "published") /\ stamp = mtime => shown = rows

BoardIInv == BoardTyped /\ Attached /\ CopiesArePast /\ TimesArePast /\ FreshIsCurrent

\* What a thread's step leaves of the others.
LEMMA ViewerFacts ==
    ASSUME BoardTyped, NEW t \in Threads
    PROVE  /\ viewer[t].at \in {"waiting", "idle", "checked", "loaded", "published"}
           /\ viewer[t].at = "idle" <=> viewer[t] = Idle
           /\ t \in Busy <=> viewer[t].at \in {"checked", "loaded", "published"}
           /\ t \in Busy => viewer[t].stat \in Nat
           /\ viewer[t].at = "loaded" => viewer[t].copy \in [Calls -> Row]
  BY DEF BoardTyped, ViewerTyped, Waiting, Idle, Busy

LEMMA EventStep ==
    ASSUME BoardIInv, LedgerEvent
    PROVE  BoardIInv'
<1>1. /\ mtime' = mtime + 1 /\ shown' = shown /\ stamp' = stamp /\ viewer' = viewer
      /\ raced' = raced
  BY DEF LedgerEvent
<1>2. BoardTyped /\ LedgerTypeOK /\ Blank
  BY DEF BoardIInv, BoardTyped
<1>3. LedgerTypeOK' /\ RowStep
  BY <1>2, ServiceEventIsRowStep DEF LedgerEvent
<1>4. Blank'
  BY <1>2, <1>3, RowStepFacts DEF Blank
<1>5. BoardTyped'
  BY <1>1, <1>2, <1>3, <1>4 DEF BoardTyped, ViewerTyped
<1>6. Attached'
  BY <1>1 DEF BoardIInv, Attached, AllWaiting
<1>7. CopiesArePast'
  <2>1. HeldOnce(shown)'
    BY <1>1, <1>2, <1>3, HeldOnceStays DEF BoardIInv, BoardTyped, CopiesArePast, HeldOnce
  <2>2. ASSUME NEW t \in Threads, viewer[t].at = "loaded"
        PROVE  HeldOnce(viewer[t].copy)'
    <3> DEFINE copy == viewer[t].copy
    <3>1. copy \in [Calls -> Row] /\ HeldOnce(copy) /\ viewer'[t].copy = copy
      BY <1>1, <1>2, <2>2, ViewerFacts DEF BoardIInv, CopiesArePast
    <3> QED BY <1>2, <1>3, <3>1, HeldOnceStays DEF HeldOnce
  <2> QED BY <1>1, <2>1, <2>2 DEF CopiesArePast
<1>8. TimesArePast'
  BY <1>1, <1>2, ViewerFacts DEF BoardIInv, BoardTyped, TimesArePast, Busy
<1>9. FreshIsCurrent'
  <2>1. ASSUME NEW t \in Threads, viewer[t].at \in {"loaded", "published"}
        PROVE  viewer[t].stat # mtime + 1
    <3>1. t \in Busy
      BY <1>2, <2>1, ViewerFacts
    <3> QED BY <1>2, <3>1, ViewerFacts DEF BoardIInv, BoardTyped, TimesArePast
  <2>2. stamp # mtime + 1
    BY <1>2 DEF BoardIInv, BoardTyped, TimesArePast
  <2> QED BY <1>1, <2>1, <2>2 DEF BoardIInv, FreshIsCurrent, AllWaiting, Busy
<1> QED BY <1>5, <1>6, <1>7, <1>8, <1>9 DEF BoardIInv

LEMMA AttachStep ==
    ASSUME BoardIInv, Attach
    PROVE  BoardIInv'
<1>1. /\ viewer' = [t \in Threads |-> Idle] /\ stamp' = mtime /\ raced' = (rows # shown)
      /\ rows' = rows /\ book' = book /\ mtime' = mtime /\ shown' = shown
  BY DEF Attach
<1>2. BoardTyped'
  BY <1>1 DEF BoardIInv, BoardTyped, ViewerTyped, LedgerTypeOK, Blank
<1>3. \A t \in Threads : viewer'[t].at = "idle"
  BY <1>1 DEF Idle
<1>4. Busy' = {}
  BY <1>3 DEF Busy
<1>5. Attached' /\ TimesArePast'
  BY <1>1, <1>3, <1>4 DEF BoardIInv, BoardTyped, Attached, TimesArePast
<1>6. CopiesArePast'
  BY <1>1, <1>3 DEF BoardIInv, CopiesArePast, HeldOnce
<1>7. FreshIsCurrent'
  BY <1>1, <1>3, <1>4 DEF FreshIsCurrent
<1> QED BY <1>2, <1>5, <1>6, <1>7 DEF BoardIInv

\* A step of view() concerns one thread, and leaves the ledger alone.
ThreadStep(t, v) ==
    /\ viewer' = [viewer EXCEPT ![t] = v]
    /\ UNCHANGED <<rows, book, mtime>>

LEMMA StepFrame ==
    ASSUME BoardIInv, NEW t \in Threads, NEW v, ThreadStep(t, v), ViewerTyped(v),
           v.at # "waiting", viewer[t].at # "waiting",
           shown' \in [Calls -> Row], stamp' \in Nat, raced' \in BOOLEAN
    PROVE  /\ BoardTyped' /\ Attached'
           /\ ~AllWaiting /\ ~AllWaiting'
           /\ viewer'[t] = v
           /\ \A s \in Threads \ {t} : viewer'[s] = viewer[s] /\ (s \in Busy' <=> s \in Busy)
<1>1. /\ DOMAIN viewer' = Threads /\ viewer'[t] = v
      /\ \A s \in Threads \ {t} : viewer'[s] = viewer[s]
  BY DEF ThreadStep, BoardIInv, BoardTyped
<1>2. BoardTyped'
  <2>1. \A s \in Threads : ViewerTyped(viewer'[s])
    BY <1>1 DEF BoardIInv, BoardTyped
  <2>2. LedgerTypeOK' /\ Blank'
    BY DEF ThreadStep, BoardIInv, BoardTyped, LedgerTypeOK, Blank
  <2>3. mtime' \in Nat
    BY DEF ThreadStep, BoardIInv, BoardTyped
  <2> QED BY <1>1, <2>1, <2>2, <2>3 DEF BoardTyped, ViewerTyped
<1>3. ~AllWaiting
  BY DEF AllWaiting, Waiting
<1>4. ~AllWaiting'
  BY <1>1 DEF AllWaiting, Waiting
<1>5. Attached'
  BY <1>1, <1>3 DEF BoardIInv, Attached
<1>6. \A s \in Threads \ {t} : s \in Busy' <=> s \in Busy
  BY <1>1 DEF Busy
<1> QED BY <1>1, <1>2, <1>3, <1>4, <1>5, <1>6

LEMMA CheckStep ==
    ASSUME BoardIInv, NEW t \in Threads, Check(t)
    PROVE  BoardIInv'
<1> DEFINE v == [at |-> "checked", stat |-> mtime]
<1>1. /\ ThreadStep(t, v) /\ viewer[t].at = "idle" /\ stamp # mtime
      /\ shown' = shown /\ stamp' = stamp /\ raced' = (raced \/ Busy # {})
      /\ rows' = rows /\ mtime' = mtime
  BY DEF Check, ThreadStep, Idle
<1>2. ViewerTyped(v) /\ v.at = "checked" /\ v.stat = mtime
  BY DEF BoardIInv, BoardTyped, ViewerTyped
<1> HIDE DEF v
<1>3. /\ BoardTyped' /\ Attached' /\ ~AllWaiting /\ ~AllWaiting' /\ viewer'[t] = v
      /\ \A s \in Threads \ {t} : viewer'[s] = viewer[s] /\ (s \in Busy' <=> s \in Busy)
  BY <1>1, <1>2, StepFrame DEF BoardIInv, BoardTyped
<1>4. CopiesArePast'
  BY <1>1, <1>2, <1>3 DEF BoardIInv, CopiesArePast, HeldOnce
<1>5. TimesArePast'
  BY <1>1, <1>2, <1>3 DEF BoardIInv, BoardTyped, TimesArePast
<1>6. FreshIsCurrent'
  <2> SUFFICES ASSUME ~raced, Busy = {}
               PROVE  FreshIsCurrent'
    BY <1>1 DEF FreshIsCurrent
  <2>1. \A s \in Threads \ {t} : s \notin Busy' /\ viewer'[s].at \notin {"loaded", "published"}
    BY <1>3 DEF Busy
  <2>2. Busy' \subseteq {t}
    BY <2>1 DEF Busy
  <2> QED BY <1>1, <1>2, <1>3, <2>1, <2>2 DEF FreshIsCurrent
<1> QED BY <1>3, <1>4, <1>5, <1>6 DEF BoardIInv

LEMMA LoadStep ==
    ASSUME BoardIInv, NEW t \in Threads, Load(t)
    PROVE  BoardIInv'
<1> DEFINE v == [at |-> "loaded", stat |-> viewer[t].stat, copy |-> rows]
<1>1. /\ ThreadStep(t, v) /\ viewer[t].at = "checked"
      /\ shown' = shown /\ stamp' = stamp /\ raced' = raced
      /\ rows' = rows /\ mtime' = mtime
  BY DEF Load, Loaded, ThreadStep
<1>2. t \in Busy /\ viewer[t].stat \in Nat /\ rows \in [Calls -> Row]
  BY <1>1, ViewerFacts DEF BoardIInv, BoardTyped, LedgerTypeOK
<1>3. ViewerTyped(v) /\ v.at = "loaded" /\ v.stat = viewer[t].stat /\ v.copy = rows
  BY <1>2 DEF ViewerTyped
<1> HIDE DEF v
<1>4. /\ BoardTyped' /\ Attached' /\ ~AllWaiting /\ ~AllWaiting' /\ viewer'[t] = v
      /\ \A s \in Threads \ {t} : viewer'[s] = viewer[s] /\ (s \in Busy' <=> s \in Busy)
  BY <1>1, <1>3, StepFrame DEF BoardIInv, BoardTyped
<1>5. CopiesArePast'
  <2>1. HeldOnce(rows)
    BY RowsArePast DEF BoardIInv, BoardTyped
  <2>2. ASSUME NEW s \in Threads, viewer'[s].at = "loaded"
        PROVE  HeldOnce(viewer'[s].copy)
    BY <1>3, <1>4, <2>1, <2>2 DEF BoardIInv, CopiesArePast
  <2> QED BY <1>1, <2>2 DEF BoardIInv, CopiesArePast, HeldOnce
<1>6. TimesArePast'
  BY <1>1, <1>2, <1>3, <1>4 DEF BoardIInv, BoardTyped, TimesArePast
<1>7. FreshIsCurrent'
  <2>1. Busy' \subseteq Busy
    BY <1>2, <1>4 DEF Busy
  <2> QED BY <1>1, <1>3, <1>4, <2>1 DEF BoardIInv, FreshIsCurrent
<1> QED BY <1>4, <1>5, <1>6, <1>7 DEF BoardIInv

LEMMA LoadFailsStep ==
    ASSUME BoardIInv, NEW t \in Threads, LoadFails(t)
    PROVE  BoardIInv'
<1>1. /\ ThreadStep(t, Idle) /\ viewer[t].at = "checked"
      /\ shown' = shown /\ stamp' = stamp /\ raced' = raced
      /\ rows' = rows /\ mtime' = mtime
  BY DEF LoadFails, ThreadStep
<1>2. ViewerTyped(Idle) /\ Idle.at = "idle"
  BY DEF ViewerTyped, Idle
<1>3. /\ BoardTyped' /\ Attached' /\ ~AllWaiting /\ ~AllWaiting' /\ viewer'[t] = Idle
      /\ \A s \in Threads \ {t} : viewer'[s] = viewer[s] /\ (s \in Busy' <=> s \in Busy)
  BY <1>1, <1>2, StepFrame DEF BoardIInv, BoardTyped
<1>4. CopiesArePast'
  BY <1>1, <1>2, <1>3 DEF BoardIInv, CopiesArePast, HeldOnce
<1>5. Busy' \subseteq Busy /\ t \notin Busy'
  BY <1>2, <1>3 DEF Busy
<1>6. TimesArePast'
  BY <1>1, <1>3, <1>5 DEF BoardIInv, TimesArePast
<1>7. FreshIsCurrent'
  BY <1>1, <1>2, <1>3, <1>5 DEF BoardIInv, FreshIsCurrent
<1> QED BY <1>3, <1>4, <1>6, <1>7 DEF BoardIInv

LEMMA PublishStep ==
    ASSUME BoardIInv, NEW t \in Threads, Publish(t)
    PROVE  BoardIInv'
<1> DEFINE v == [at |-> "published", stat |-> viewer[t].stat]
<1>1. /\ ThreadStep(t, v) /\ viewer[t].at = "loaded"
      /\ shown' = viewer[t].copy /\ stamp' = stamp /\ raced' = raced
      /\ rows' = rows /\ mtime' = mtime
  BY DEF Publish, ThreadStep
<1>2. t \in Busy /\ viewer[t].stat \in Nat /\ shown' \in [Calls -> Row]
  BY <1>1, ViewerFacts DEF BoardIInv
<1>3. ViewerTyped(v) /\ v.at = "published" /\ v.stat = viewer[t].stat
  BY <1>2 DEF ViewerTyped
<1> HIDE DEF v
<1>4. /\ BoardTyped' /\ Attached' /\ ~AllWaiting /\ ~AllWaiting' /\ viewer'[t] = v
      /\ \A s \in Threads \ {t} : viewer'[s] = viewer[s] /\ (s \in Busy' <=> s \in Busy)
  BY <1>1, <1>2, <1>3, StepFrame DEF BoardIInv, BoardTyped
<1>5. CopiesArePast'
  BY <1>1, <1>3, <1>4 DEF BoardIInv, CopiesArePast, HeldOnce
<1>6. TimesArePast'
  BY <1>1, <1>2, <1>3, <1>4 DEF BoardIInv, BoardTyped, TimesArePast
<1>7. FreshIsCurrent'
  <2>1. Busy' \subseteq Busy
    BY <1>2, <1>4 DEF Busy
  <2> SUFFICES ASSUME ~raced
               PROVE  FreshIsCurrent'
    BY <1>1 DEF FreshIsCurrent
  <2>2. \A s \in Threads \ {t} : s \notin Busy' /\ viewer'[s].at \notin {"loaded", "published"}
    BY <1>2, <1>4 DEF BoardIInv, FreshIsCurrent, Busy
  <2>3. viewer[t].stat = mtime => viewer[t].copy = rows
    BY <1>1, <1>4 DEF BoardIInv, FreshIsCurrent
  <2> QED BY <1>1, <1>2, <1>3, <1>4, <2>1, <2>2, <2>3 DEF BoardIInv, FreshIsCurrent
<1> QED BY <1>4, <1>5, <1>6, <1>7 DEF BoardIInv

LEMMA RememberStep ==
    ASSUME BoardIInv, NEW t \in Threads, Remember(t)
    PROVE  BoardIInv'
<1>1. /\ ThreadStep(t, Idle) /\ viewer[t].at = "published"
      /\ shown' = shown /\ stamp' = viewer[t].stat /\ raced' = raced
      /\ rows' = rows /\ mtime' = mtime
  BY DEF Remember, Seen, ThreadStep
<1>2. t \in Busy /\ viewer[t].stat \in Nat /\ viewer[t].stat <= mtime
  BY <1>1, ViewerFacts DEF BoardIInv, TimesArePast
<1>3. ViewerTyped(Idle) /\ Idle.at = "idle"
  BY DEF ViewerTyped, Idle
<1>4. /\ BoardTyped' /\ Attached' /\ ~AllWaiting /\ ~AllWaiting' /\ viewer'[t] = Idle
      /\ \A s \in Threads \ {t} : viewer'[s] = viewer[s] /\ (s \in Busy' <=> s \in Busy)
  BY <1>1, <1>2, <1>3, StepFrame DEF BoardIInv, BoardTyped
<1>5. CopiesArePast'
  BY <1>1, <1>3, <1>4 DEF BoardIInv, CopiesArePast, HeldOnce
<1>6. Busy' \subseteq Busy /\ t \notin Busy'
  BY <1>3, <1>4 DEF Busy
<1>7. TimesArePast'
  BY <1>1, <1>2, <1>4, <1>6 DEF BoardIInv, TimesArePast
<1>8. FreshIsCurrent'
  <2> SUFFICES ASSUME ~raced
               PROVE  FreshIsCurrent'
    BY <1>1 DEF FreshIsCurrent
  <2>1. \A s \in Threads \ {t} : viewer'[s].at \notin {"loaded", "published"}
    BY <1>2, <1>4 DEF BoardIInv, FreshIsCurrent, Busy
  <2>2. viewer[t].stat = mtime => shown = rows
    BY <1>1, <1>4 DEF BoardIInv, FreshIsCurrent
  <2>3. Busy' = {}
    BY <1>2, <1>4, <1>6 DEF BoardIInv, FreshIsCurrent
  <2> QED BY <1>1, <1>3, <1>4, <2>1, <2>2, <2>3 DEF FreshIsCurrent
<1> QED BY <1>4, <1>5, <1>7, <1>8 DEF BoardIInv

-----------------------------------------------------------------------------
LEMMA BoardStarts == BoardInit => BoardIInv
<1> SUFFICES ASSUME BoardInit
             PROVE  BoardIInv
  OBVIOUS
<1>1. LedgerTypeOK /\ Blank
  BY LedgerInitInv DEF BoardInit, LedgerIInv, Blank
<1>2. /\ mtime = 0 /\ stamp = 0 /\ shown = rows /\ raced = FALSE /\ AllWaiting
      /\ \A t \in Threads : viewer[t] = Waiting
  BY DEF BoardInit, AllWaiting, Waiting
<1>3. Busy = {} /\ \A t \in Threads : viewer[t].at = "waiting"
  BY <1>2 DEF Busy, Waiting
<1>4. BoardTyped
  BY <1>1, <1>2 DEF BoardTyped, ViewerTyped, AllWaiting, LedgerTypeOK
<1>5. CopiesArePast
  BY <1>1, <1>2, <1>3, RowsArePast DEF CopiesArePast
<1> QED BY <1>2, <1>3, <1>4, <1>5 DEF BoardIInv, Attached, TimesArePast, FreshIsCurrent

LEMMA BoardMoves == BoardIInv /\ [BoardNext]_boardVars => BoardIInv'
<1> SUFFICES ASSUME BoardIInv, [BoardNext]_boardVars
             PROVE  BoardIInv'
  OBVIOUS
<1>1. CASE BoardNext
  BY <1>1, EventStep, AttachStep, CheckStep, LoadStep, LoadFailsStep, PublishStep, RememberStep
     DEF BoardNext, View
<1>2. CASE UNCHANGED boardVars
  <2>1. BoardTyped' /\ Attached'
    BY <1>2 DEF boardVars, BoardIInv, BoardTyped, Attached, AllWaiting, LedgerTypeOK, Blank,
                ViewerTyped
  <2>2. CopiesArePast' /\ TimesArePast' /\ FreshIsCurrent'
    BY <1>2 DEF boardVars, BoardIInv, CopiesArePast, HeldOnce, TimesArePast, FreshIsCurrent, Busy,
                AllWaiting
  <2> QED BY <2>1, <2>2 DEF BoardIInv
<1> QED BY <1>1, <1>2

\* The file grows by the service alone, an event at a time.
LEMMA BoardRows == LedgerTypeOK /\ BoardNext => RowStep \/ UNCHANGED <<rows, book>>
<1> SUFFICES ASSUME LedgerTypeOK, BoardNext
             PROVE  RowStep \/ UNCHANGED <<rows, book>>
  OBVIOUS
<1>1. CASE LedgerEvent
  BY <1>1, ServiceEventIsRowStep DEF LedgerEvent
<1>2. CASE Attach \/ \E t \in Threads : View(t)
  BY <1>2 DEF Attach, View, Check, Load, LoadFails, Publish, Remember
<1> QED BY <1>1, <1>2 DEF BoardNext

LEMMA BoardInvariant == BoardSpec => []BoardIInv
  BY BoardStarts, BoardMoves, PTL DEF BoardSpec

LEMMA BoardHonesty == BoardIInv => BoardIsHonest
<1> SUFFICES ASSUME BoardIInv
             PROVE  BoardIsHonest
  OBVIOUS
<1>1. ShownIsPast
  BY DEF BoardIInv, CopiesArePast, HeldOnce, ShownIsPast
<1>2. StaleOnlyIfRaced
  <2> SUFFICES ASSUME Busy = {}, stamp = mtime, shown # rows,
                      viewer # [t \in Threads |-> [at |-> "waiting"]], ~raced
               PROVE  FALSE
    BY DEF StaleOnlyIfRaced
  <2>1. ~AllWaiting
    BY DEF AllWaiting, Waiting
  <2>2. \A t \in Threads : viewer[t].at # "published"
    BY DEF Busy
  <2> QED BY <2>1, <2>2 DEF BoardIInv, FreshIsCurrent
<1> QED BY <1>1, <1>2 DEF BoardIsHonest

\* What the audience sees of the calls was in the file, whichever thread put it there
\* last; and it is behind the file for good only where two views overlapped, or where an
\* event fell into the constructor's gap.
THEOREM BoardsAreHonest == BoardSpec => []BoardIsHonest
  BY BoardInvariant, BoardHonesty, PTL
-----------------------------------------------------------------------------
(* The show (Audience). The time of a step lies between the clock and Lag  *)
(* before it. Nothing on a track began later than the clock, nor its last  *)
(* beat ended later, so what a later step starts or ends is at most Lag    *)
(* before either; a shout, a card and an answer wait for the time of their *)
(* predecessor, whatever the clock; hooks and segments leave nothing       *)
(* between.                                                                *)

ShowTyped ==
    /\ clock \in Nat
    /\ card.start \in Nat /\ card.ends \in Nat /\ card.start <= card.ends /\ card.start <= clock
    /\ shoutUntil.at \in Nat
    /\ hook.start \in Nat \cup {-1} /\ hook.start <= clock
    /\ segment.start \in Nat \cup {-1} /\ segment.start <= clock
    /\ DOMAIN beats = Tracks
    /\ \A track \in Tracks : beats[track].end \in Nat \cup {-1}

\* A track's last beat is over before what is on the track began, or Lag after at most.
BeatsAreBehind ==
    /\ beats["card"].end <= clock
    /\ Shown(card) => beats["card"].end - Lag <= card.start
    /\ beats["shout"].end <= shoutUntil.at
    /\ shoutUntil.shown => beats["shout"].end <= shoutUntil.at - ThanksTime
    /\ hook = None => beats["hook"] = NoBeat
    /\ segment = None => beats["segment"] = NoBeat

ShowIInv == ShowTyped /\ BeatsAreBehind /\ BeatsTile

\* A card that comes does so now, and one that goes has had its time.
CardStep(now) ==
    /\ card'.start \in Nat /\ card'.ends \in Nat /\ card'.start <= card'.ends
    /\ card' = card \/ card' = NoCard \/ (card'.start = now /\ card' # NoCard)
    /\ Shown(card) /\ card' # card => now >= card.ends
    /\ card'.kind = "ANSWER" /\ card' # card => lastAnswer' - lastAnswer >= AnswerGap

CardSteps == \E now \in TimesRead : CardStep(now)

Advances(track) ==
    beats'[track] # beats[track] =>
      /\ beats'[track].start >= beats[track].end - Overlap(track)
      /\ beats'[track].end >= beats'[track].start - Setback(track)

LEMMA ShowSizes ==
    /\ \A n \in {AnswerGap, CommandGap, CardTime, ThanksTime, HookTime} : n \in Nat /\ n > 0
    /\ Lag \in Nat
  BY AudienceConstants DEF AudienceConstants

LEMMA TimeFacts ==
    ASSUME clock \in Nat, NEW now \in TimesRead
    PROVE  now \in Nat /\ now <= clock /\ now >= clock - Lag
  BY DEF TimesRead

LEMMA ClockIsRead ==
    ASSUME clock \in Nat
    PROVE  clock \in TimesRead
  BY ShowSizes DEF TimesRead

LEMMA AnswerIsCardStep ==
    ASSUME ShowTyped, NEW now \in TimesRead, NEW current, NEW queue,
           AnswerNext(current, queue, now), current = card \/ (current = NoCard /\ CardOver(now))
    PROVE  CardStep(now)
<1> now \in Nat
  BY TimeFacts DEF ShowTyped
<1>1. CASE MayAnswer(current, queue, now)
  <2>1. card' = [kind |-> "ANSWER", start |-> now, ends |-> now + CardTime] /\ lastAnswer' = now
    BY <1>1 DEF AnswerNext, Card
  <2>2. now - lastAnswer >= AnswerGap /\ ~(Shown(current) /\ current.ends > now)
    BY <1>1 DEF MayAnswer
  <2>3. card'.start = now /\ card'.ends = now + CardTime /\ card' # NoCard
    BY <2>1 DEF NoCard
  <2>4. Shown(card) => now >= card.ends
    BY <2>2 DEF CardOver, ShowTyped
  <2> QED BY <2>1, <2>2, <2>3, <2>4, ShowSizes DEF CardStep, ShowTyped
<1>2. CASE ~MayAnswer(current, queue, now)
  <2>1. card' = current
    BY <1>2 DEF AnswerNext
  <2>2. CASE card' = card
    BY <2>2 DEF CardStep, ShowTyped
  <2>3. CASE card' = NoCard /\ CardOver(now)
    BY <2>3 DEF CardStep, CardOver, NoCard
  <2> QED BY <2>1, <2>2, <2>3
<1> QED BY <1>1, <1>2

LEMMA IngestIsCardStep ==
    ASSUME ShowTyped, Ingest
    PROVE  CardSteps
<1>1. ASSUME NEW now \in TimesRead, Gift(now)
      PROVE  CardStep(now)
  <2> now \in Nat
    BY TimeFacts DEF ShowTyped
  <2>1. CASE ThanksMayShow(now)
    <3>1. card' = [kind |-> "THANKS", start |-> now, ends |-> now + ThanksTime]
      BY <1>1, <2>1 DEF Gift, Card
    <3>2. card'.start = now /\ card'.ends = now + ThanksTime /\ card'.kind = "THANKS" /\ card' # NoCard
      BY <3>1 DEF NoCard
    <3>3. Shown(card) => now >= card.ends
      BY <2>1 DEF ThanksMayShow, ShowTyped
    <3> QED BY <3>2, <3>3, ShowSizes DEF CardStep, ShowTyped
  <2>2. CASE ~ThanksMayShow(now)
    BY <1>1, <2>2 DEF Gift, CardStep, ShowTyped
  <2> QED BY <2>1, <2>2
<1>2. ASSUME NEW now \in TimesRead, UNCHANGED card
      PROVE  CardStep(now)
  BY <1>2 DEF CardStep, ShowTyped
<1>3. ASSUME NEW now \in TimesRead,
             NEW h \in Handles, NEW asks \in BOOLEAN, NEW urgent \in BOOLEAN, Comment(h, asks, urgent, now)
      PROVE  CardStep(now)
  <2>1. CASE UNCHANGED card
    BY <1>2, <2>1
  <2>2. CASE AnswerNext(card, Queued([by |-> h, urgent |-> urgent]), now)
    BY <2>2, AnswerIsCardStep
  <2> QED BY <1>3, <2>1, <2>2 DEF Comment
<1>4. PICK now \in TimesRead :
        \/ Gift(now)
        \/ Follow
        \/ \E h \in Handles, asks, urgent \in BOOLEAN : Comment(h, asks, urgent, now)
  BY DEF Ingest
<1>5. Follow => UNCHANGED card
  BY DEF Follow
<1> QED BY <1>1, <1>2, <1>3, <1>4, <1>5 DEF CardSteps

\* What a view does to a track that always has something on it.
LEMMA TrackFacts ==
    ASSUME ShowTyped, NEW now \in TimesRead, NEW track \in Tracks, NEW old, NEW id,
           old.start \in Nat \cup {-1}, old.start <= clock,
           old = None => beats[track] = NoBeat,
           beats[track] # NoBeat => old.start = beats[track].end
    PROVE  LET new == Successor(old, id, now)
               beat == BeatOf(track, old, id, now)
           IN /\ new.start \in Nat \cup {-1} /\ new.start <= clock
              /\ new = None => beat = NoBeat
              /\ beat # NoBeat => new.start = beat.end
              /\ beat.end \in Nat \cup {-1}
              /\ beat # beats[track] => beat.start >= beats[track].end /\ beat.end >= beat.start - Lag
<1>1. /\ clock \in Nat /\ beats[track].end \in Nat \cup {-1}
      /\ now \in Nat /\ now <= clock /\ now >= clock - Lag /\ Lag \in Nat
  BY TimeFacts, ShowSizes DEF ShowTyped
<1>2. CASE old.id = id
  BY <1>1, <1>2 DEF Successor, BeatOf
<1>3. CASE old.id # id
  <2>1. Successor(old, id, now) = [id |-> id, start |-> now]
    BY <1>3 DEF Successor
  <2>2. Successor(old, id, now).start = now /\ Successor(old, id, now) # None
    BY <1>1, <2>1 DEF None
  <2>3. CASE old = None
    <3>1. BeatOf(track, old, id, now) = beats[track]
      BY <2>3 DEF BeatOf
    <3> QED BY <1>1, <2>2, <2>3, <3>1
  <2>4. CASE old # None
    <3>1. BeatOf(track, old, id, now) = [start |-> old.start, end |-> now]
      BY <1>3, <2>4 DEF BeatOf, Beat
    <3>2. BeatOf(track, old, id, now).start = old.start /\ BeatOf(track, old, id, now).end = now
      BY <3>1
    <3>3. old.start >= beats[track].end
      <4>1. NoBeat.end = -1
        BY DEF NoBeat
      <4> QED BY <1>1, <4>1
    <3> QED BY <1>1, <2>2, <3>2, <3>3
  <2> QED BY <2>3, <2>4
<1> QED BY <1>2, <1>3

\* A view: every track goes on from where its last beat ended.
LEMMA LookKeeps ==
    ASSUME ShowIInv, Look
    PROVE  ShowIInv' /\ CardSteps /\ \A track \in Tracks : Advances(track)
<1> USE DEF ShowIInv
<1>0. PICK now \in TimesRead : ViewAt(now)
  BY DEF Look
<1>1. CardStep(now)
  <2>1. AnswerNext(IF CardOver(now) THEN NoCard ELSE card, questions, now)
    BY <1>0 DEF ViewAt
  <2> QED BY <2>1, AnswerIsCardStep
<1>2. /\ clock' = clock /\ clock \in Nat
      /\ now \in Nat /\ now <= clock /\ now >= clock - Lag /\ Lag \in Nat
  BY TimeFacts, ShowSizes DEF Look, ShowTyped
<1>3. /\ DOMAIN beats' = Tracks
      /\ beats'["card"] = IF CardOver(now) THEN Beat(card.start, card.ends) ELSE beats["card"]
      /\ beats'["shout"] = IF ShoutOver(now) THEN ShoutBeat ELSE beats["shout"]
      /\ beats'["hook"] = BeatOf("hook", hook, NextHook(now), now)
      /\ beats'["segment"] = BeatOf("segment", segment, NextSegment, now)
  BY <1>0 DEF ViewAt, Tracks
<1>4. hook' = Successor(hook, NextHook(now), now) /\ segment' = Successor(segment, NextSegment, now)
  BY <1>0 DEF ViewAt
<1>slack. /\ Overlap("card") = Lag /\ Overlap("shout") = 0 /\ Overlap("hook") = 0 /\ Overlap("segment") = 0
          /\ Setback("card") = 0 /\ Setback("shout") = 0 /\ Setback("hook") = Lag /\ Setback("segment") = Lag
  BY DEF Overlap, Setback
<1>5. /\ hook'.start \in Nat \cup {-1} /\ hook'.start <= clock
      /\ hook' = None => beats'["hook"] = NoBeat
      /\ beats'["hook"] # NoBeat => hook'.start = beats'["hook"].end
      /\ beats'["hook"].end \in Nat \cup {-1}
      /\ Advances("hook")
  <2>1. "hook" \in Tracks /\ beats["hook"].end \in Int
    BY DEF Tracks, ShowTyped
  <2>2. /\ hook'.start \in Nat \cup {-1} /\ hook'.start <= clock
        /\ hook' = None => beats'["hook"] = NoBeat
        /\ beats'["hook"] # NoBeat => hook'.start = beats'["hook"].end
        /\ beats'["hook"].end \in Nat \cup {-1}
        /\ beats'["hook"] # beats["hook"] =>
             /\ beats'["hook"].start >= beats["hook"].end
             /\ beats'["hook"].end >= beats'["hook"].start - Lag
    BY <1>3, <1>4, <2>1, TrackFacts DEF ShowTyped, BeatsAreBehind, BeatsTile
  <2> QED BY <1>slack, <2>1, <2>2 DEF Advances
<1>6. /\ segment'.start \in Nat \cup {-1} /\ segment'.start <= clock
      /\ segment' = None => beats'["segment"] = NoBeat
      /\ beats'["segment"] # NoBeat => segment'.start = beats'["segment"].end
      /\ beats'["segment"].end \in Nat \cup {-1}
      /\ Advances("segment")
  <2>1. "segment" \in Tracks /\ beats["segment"].end \in Int
    BY DEF Tracks, ShowTyped
  <2>2. /\ segment'.start \in Nat \cup {-1} /\ segment'.start <= clock
        /\ segment' = None => beats'["segment"] = NoBeat
        /\ beats'["segment"] # NoBeat => segment'.start = beats'["segment"].end
        /\ beats'["segment"].end \in Nat \cup {-1}
        /\ beats'["segment"] # beats["segment"] =>
             /\ beats'["segment"].start >= beats["segment"].end
             /\ beats'["segment"].end >= beats'["segment"].start - Lag
    BY <1>3, <1>4, <2>1, TrackFacts DEF ShowTyped, BeatsAreBehind, BeatsTile
  <2> QED BY <1>slack, <2>1, <2>2 DEF Advances
<1>7. /\ beats'["card"].end \in Nat \cup {-1} /\ beats'["card"].end <= clock
      /\ Shown(card') => beats'["card"].end - Lag <= card'.start
      /\ Advances("card")
  <2>1. "card" \in Tracks /\ beats["card"].end \in Nat \cup {-1}
    BY DEF Tracks, ShowTyped
  <2>2. CASE CardOver(now)
    <3>1. beats'["card"].end = card.ends /\ beats'["card"].start = card.start /\ Shown(card) /\ now >= card.ends
      BY <1>3, <2>2 DEF Beat, CardOver
    <3>2. card' # card
      BY <1>0, <1>2, <2>2, <3>1, ShowSizes DEF ViewAt, AnswerNext, Card, Shown, ShowTyped
    <3> QED BY <1>1, <1>2, <1>slack, <2>1, <3>1, <3>2 DEF Advances, CardStep, Shown, ShowTyped, BeatsAreBehind
  <2>3. CASE ~CardOver(now)
    BY <1>1, <1>2, <1>3, <2>1, <2>3 DEF Advances, CardStep, Shown, ShowTyped, BeatsAreBehind
  <2> QED BY <2>2, <2>3
<1>8. /\ shoutUntil'.at \in Nat
      /\ beats'["shout"].end \in Nat \cup {-1} /\ beats'["shout"].end <= shoutUntil'.at
      /\ shoutUntil'.shown => beats'["shout"].end <= shoutUntil'.at - ThanksTime
      /\ Advances("shout")
  <2>1. "shout" \in Tracks /\ beats["shout"].end \in Nat \cup {-1} /\ shoutUntil.at \in Nat
    BY DEF Tracks, ShowTyped
  <2>2. ThanksTime \in Nat
    BY ShowSizes
  <2>3. shoutUntil' = IF now < shoutUntil.at THEN shoutUntil
                      ELSE [shown |-> shouts > 0,
                            at |-> IF shouts > 0 THEN now + ThanksTime ELSE shoutUntil.at]
    BY <1>0 DEF ViewAt
  <2>4. CASE now < shoutUntil.at
    <3>1. shoutUntil' = shoutUntil /\ ~ShoutOver(now)
      BY <1>2, <2>1, <2>3, <2>4 DEF ShoutOver
    <3> QED BY <1>3, <2>1, <3>1 DEF BeatsAreBehind, Advances
  <2>5. CASE ~(now < shoutUntil.at)
    <3>1. /\ shoutUntil'.at \in Nat /\ shoutUntil'.at >= shoutUntil.at
          /\ shoutUntil'.shown => shoutUntil'.at - ThanksTime >= shoutUntil.at
      <4>1. CASE shouts > 0
        <5>1. shoutUntil'.at = now + ThanksTime
          BY <2>3, <2>5, <4>1
        <5> QED BY <1>2, <2>1, <2>2, <2>5, <5>1
      <4>2. CASE ~(shouts > 0)
        <5>1. shoutUntil'.at = shoutUntil.at /\ ~shoutUntil'.shown
          BY <2>3, <2>5, <4>2
        <5> QED BY <2>1, <5>1
      <4> QED BY <4>1, <4>2
    <3>2. ShoutOver(now) => beats'["shout"].start = shoutUntil.at - ThanksTime /\ beats'["shout"].end = shoutUntil.at
      BY <1>3 DEF ShoutBeat, Beat
    <3>3. ShoutOver(now) => shoutUntil.shown
      BY DEF ShoutOver
    <3>4. CASE ShoutOver(now)
      BY <1>2, <1>slack, <2>1, <2>2, <2>5, <3>1, <3>2, <3>3, <3>4 DEF BeatsAreBehind, Advances
    <3>5. CASE ~ShoutOver(now)
      BY <1>2, <1>3, <2>1, <2>2, <2>5, <3>1, <3>5 DEF BeatsAreBehind, Advances
    <3> QED BY <3>4, <3>5
  <2> QED BY <2>4, <2>5
<1>9. ShowTyped'
  <2>1. \A track \in Tracks : beats'[track].end \in Nat \cup {-1}
    BY <1>5, <1>6, <1>7, <1>8 DEF Tracks
  <2>2. card'.start <= clock
    BY <1>1, <1>2 DEF CardStep, NoCard, ShowTyped
  <2> QED BY <1>1, <1>2, <1>3, <1>5, <1>6, <1>8, <2>1, <2>2 DEF ShowTyped, CardStep
<1>10. BeatsAreBehind' /\ BeatsTile'
  BY <1>2, <1>5, <1>6, <1>7, <1>8 DEF BeatsAreBehind, BeatsTile
<1>11. \A track \in Tracks : Advances(track)
  BY <1>5, <1>6, <1>7, <1>8 DEF Tracks
<1> QED BY <1>1, <1>9, <1>10, <1>11 DEF CardSteps

LEMMA OtherStepsKeep ==
    ASSUME ShowIInv, Ingest \/ SetSession \/ ClockTick
    PROVE  ShowIInv' /\ CardSteps /\ clock' >= clock /\ beats' = beats
<1> USE DEF ShowIInv
<1>1. CASE Ingest
  <2>0. CardSteps
    BY <1>1, IngestIsCardStep
  <2>1. PICK now \in TimesRead : CardStep(now)
    BY <2>0 DEF CardSteps
  <2>6. now \in Nat /\ now <= clock /\ now >= clock - Lag /\ Lag \in Nat
    BY TimeFacts, ShowSizes DEF ShowTyped
  <2>2. UNCHANGED <<clock, shoutUntil, hook, segment, beats>>
    BY <1>1 DEF Ingest
  <2>3. card'.start <= clock
    BY <2>1, <2>6 DEF CardStep, NoCard, ShowTyped
  <2>4. ShowTyped' /\ BeatsTile'
    BY <2>1, <2>2, <2>3 DEF ShowTyped, CardStep, BeatsTile
  <2>5. Shown(card') => beats["card"].end - Lag <= card'.start
    <3>1. beats["card"].end \in Int /\ beats["card"].end <= clock /\ clock \in Nat
      BY DEF BeatsAreBehind, ShowTyped, Tracks
    <3> QED BY <2>1, <2>6, <3>1 DEF CardStep, BeatsAreBehind, Shown
  <2> QED BY <2>0, <2>2, <2>4, <2>5 DEF ShowTyped, BeatsAreBehind, Shown
<1>2. CASE SetSession \/ ClockTick
  <2>1. UNCHANGED <<card, shoutUntil, hook, segment, beats>> /\ (clock' = clock \/ clock' = clock + 1)
    BY <1>2 DEF SetSession, ClockTick
  <2>2. CardSteps
    BY <2>1, ClockIsRead DEF CardStep, CardSteps, ShowTyped
  <2> QED BY <2>1, <2>2 DEF ShowTyped, BeatsAreBehind, BeatsTile, Shown, Tracks
<1> QED BY <1>1, <1>2

LEMMA ShowInitial == AudienceInit => ShowIInv
<1> SUFFICES ASSUME AudienceInit PROVE ShowIInv
  OBVIOUS
<1>1. \A track \in Tracks : beats[track] = NoBeat
  BY DEF AudienceInit
<1>2. NoBeat.end = -1 /\ None.start = -1 /\ NoCard.start = 0 /\ NoCard.ends = 0
  BY DEF NoBeat, None, NoCard
<1>3. beats["card"] = NoBeat /\ beats["shout"] = NoBeat /\ beats["hook"] = NoBeat /\ beats["segment"] = NoBeat
  BY <1>1 DEF Tracks
<1>4. ShowTyped
  BY <1>1, <1>2 DEF AudienceInit, ShowTyped
<1>5. BeatsAreBehind
  BY <1>2, <1>3 DEF AudienceInit, BeatsAreBehind, Shown
<1> QED BY <1>3, <1>4, <1>5 DEF ShowIInv, BeatsTile

LEMMA ShowStep == ShowIInv /\ [AudienceNext]_audienceVars => ShowIInv'
<1>1. CASE UNCHANGED audienceVars
  BY <1>1 DEF audienceVars, ShowIInv, ShowTyped, BeatsAreBehind, BeatsTile, Shown
<1> QED BY <1>1, LookKeeps, OtherStepsKeep DEF AudienceNext

LEMMA ShowInvariant == AudienceSpec => []ShowIInv
  BY ShowInitial, ShowStep, PTL DEF AudienceSpec

\* For any viewers, messages and lengths of cards: hooks and segments tile the stream
\* (Director.view).
THEOREM HooksAndSegmentsTile == AudienceSpec => []BeatsTile
<1>1. ShowIInv => BeatsTile
  BY DEF ShowIInv
<1> QED BY ShowInvariant, <1>1, PTL

\* For any time that threads are late to the lock: no card is cut, no two answers are closer
\* than the gap, a shout's beats never overlap, and those of the other tracks no more than a
\* thread was late (Director.ingest, view, _answer_next).
THEOREM ShowsKeepTheirWord == AudienceSpec => ShowKeepsItsWord
<1>1. ShowIInv /\ [AudienceNext]_audienceVars =>
        /\ [Shown(card) /\ card' # card => clock' >= card.ends]_audienceVars
        /\ [card'.kind = "ANSWER" /\ card' # card => lastAnswer' - lastAnswer >= AnswerGap]_audienceVars
        /\ [\A track \in Tracks : Advances(track)]_audienceVars
  <2> SUFFICES ASSUME ShowIInv, AudienceNext
               PROVE  /\ Shown(card) /\ card' # card => clock' >= card.ends
                      /\ card'.kind = "ANSWER" /\ card' # card => lastAnswer' - lastAnswer >= AnswerGap
                      /\ \A track \in Tracks : Advances(track)
    OBVIOUS
  <2>1. CardSteps /\ clock' >= clock
    BY LookKeeps, OtherStepsKeep DEF AudienceNext, Look, ShowIInv, ShowTyped
  <2>2. \A track \in Tracks : Advances(track)
    BY LookKeeps, OtherStepsKeep DEF AudienceNext, Advances
  <2>3. PICK now \in TimesRead : CardStep(now)
    BY <2>1 DEF CardSteps
  <2>4. now \in Nat /\ now <= clock /\ clock \in Nat /\ card.ends \in Nat
    BY TimeFacts DEF ShowIInv, ShowTyped
  <2>5. clock' \in Nat
    BY LookKeeps, OtherStepsKeep DEF AudienceNext, ShowIInv, ShowTyped
  <2> QED BY <2>1, <2>2, <2>3, <2>4, <2>5 DEF CardStep
<1> QED BY ShowInvariant, <1>1, PTL DEF AudienceSpec, ShowKeepsItsWord, CardsAreNotCut, AnswersAreSpaced,
           BeatsAdvance, Advances

\* The queue, the counters and the kind of card.
Asked == [by : Handles, urgent : BOOLEAN]

Kinds == {"NONE", "ANSWER", "THANKS"}

QueueHeld(q) == q \in Seq(Asked) /\ Len(q) <= MaxQuestions

CrowdTyped ==
    /\ clock \in 0 .. MaxClock /\ received \in 0 .. MaxMessages
    /\ QueueHeld(questions) /\ shouts \in 0 .. MaxShouts /\ card.kind \in Kinds

LEMMA BestIs ==
    ASSUME NEW queue \in Seq(Asked), queue # <<>>
    PROVE  Best(queue) \in 1 .. Len(queue)
<1> DEFINE D == 1 .. Len(queue)
           loud == {i \in D : queue[i].urgent}
           First(i) == \A j \in D : \/ queue[i].urgent /\ ~queue[j].urgent
                                    \/ queue[i].urgent = queue[j].urgent /\ i <= j
<1>1. DOMAIN queue = D /\ D \in SUBSET Nat /\ 1 \in D /\ \A i \in D : 1 <= i
  OBVIOUS
<1>2. \A i \in D : queue[i].urgent \in BOOLEAN
  <2> SUFFICES ASSUME NEW i \in D PROVE queue[i].urgent \in BOOLEAN
    OBVIOUS
  <2>1. queue[i] \in Asked
    OBVIOUS
  <2> QED BY ONLY <2>1, Zenon DEF Asked
<1>3. \E i \in D : First(i)
  <2>1. CASE loud # {}
    <3>1. loud \in SUBSET Nat
      BY <1>1
    <3>2. PICK i \in loud : \A j \in loud : i <= j
      BY <2>1, <3>1, LeastElement
    <3>3. i \in D /\ queue[i].urgent /\ \A j \in D : ~queue[j].urgent \/ i <= j
      BY <3>2
    <3> HIDE DEF D, loud
    <3> QED BY <1>2, <3>3
  <2>2. CASE loud = {}
    <3>1. \A i \in D : ~queue[i].urgent
      BY <2>2
    <3> HIDE DEF D, loud
    <3> QED BY <1>1, <1>2, <3>1
  <2> QED BY <2>1, <2>2
<1>4. Best(queue) = CHOOSE i \in D : First(i)
  BY <1>1 DEF Best
<1> HIDE DEF First
<1> QED BY <1>3, <1>4

LEMMA RemovedIs ==
    ASSUME NEW queue \in Seq(Asked), NEW i \in 1 .. Len(queue)
    PROVE  RemoveAt(queue, i) \in Seq(Asked) /\ Len(RemoveAt(queue, i)) <= Len(queue)
<1> DEFINE before == SubSeq(queue, 1, i - 1)
           after == SubSeq(queue, i + 1, Len(queue))
<1>1. i \in Nat /\ 1 <= i /\ i <= Len(queue) /\ Len(queue) \in Nat
  OBVIOUS
<1>2. before \in Seq(Asked) /\ Len(before) = i - 1
  BY <1>1
<1>3. after \in Seq(Asked) /\ Len(after) = Len(queue) - i
  BY <1>1
<1>4. RemoveAt(queue, i) = before \o after
  BY DEF RemoveAt
<1> HIDE DEF before, after
<1>5. before \o after \in Seq(Asked) /\ Len(before \o after) = Len(before) + Len(after)
  BY <1>2, <1>3
<1> QED BY <1>1, <1>2, <1>3, <1>4, <1>5

LEMMA AnswerTyped ==
    ASSUME NEW current, NEW queue, current.kind \in Kinds, QueueHeld(queue), NEW now,
           AnswerNext(current, queue, now)
    PROVE  card'.kind \in Kinds /\ QueueHeld(questions')
<1>1. MaxQuestions \in Nat
  BY AudienceConstants DEF AudienceConstants
<1>2. CASE MayAnswer(current, queue, now)
  <2>1. card'.kind = "ANSWER" /\ questions' = RemoveAt(queue, Best(queue)) /\ queue # <<>>
    BY <1>2 DEF AnswerNext, Card, MayAnswer
  <2>2. queue \in Seq(Asked) /\ Len(queue) <= MaxQuestions /\ Best(queue) \in 1 .. Len(queue)
    BY <2>1, BestIs DEF QueueHeld
  <2>3. questions' \in Seq(Asked) /\ Len(questions') <= Len(queue)
    BY <2>1, <2>2, RemovedIs
  <2>4. Len(questions') \in Nat /\ Len(queue) \in Nat
    BY <2>2, <2>3
  <2> QED BY <1>1, <2>1, <2>2, <2>3, <2>4 DEF QueueHeld, Kinds
<1>3. CASE ~MayAnswer(current, queue, now)
  BY <1>3 DEF AnswerNext
<1> QED BY <1>2, <1>3

LEMMA QueuedHeld ==
    ASSUME QueueHeld(questions), NEW q \in Asked
    PROVE  QueueHeld(Queued(q))
<1> DEFINE longer == Append(questions, q)
<1>1. /\ longer \in Seq(Asked) /\ Len(longer) = Len(questions) + 1 /\ Len(questions) \in Nat
      /\ Len(questions) <= MaxQuestions
  BY DEF QueueHeld
<1>2. MaxQuestions \in Nat
  BY AudienceConstants DEF AudienceConstants
<1>3. Queued(q) = IF Len(longer) > MaxQuestions THEN Tail(longer) ELSE longer
  BY DEF Queued
<1> HIDE DEF longer
<1>4. CASE Len(longer) > MaxQuestions
  <2>1. longer # <<>>
    BY <1>1
  <2>2. Tail(longer) \in Seq(Asked) /\ Len(Tail(longer)) = Len(longer) - 1
    BY <1>1, <2>1
  <2> QED BY <1>1, <1>2, <1>3, <1>4, <2>2 DEF QueueHeld
<1>5. CASE ~(Len(longer) > MaxQuestions)
  BY <1>1, <1>2, <1>3, <1>5 DEF QueueHeld
<1> QED BY <1>4, <1>5

LEMMA CappedIs ==
    ASSUME NEW n \in 0 .. MaxShouts
    PROVE  Capped(n + 1) \in 0 .. MaxShouts
<1>1. MaxShouts \in Nat
  BY AudienceConstants DEF AudienceConstants
<1> QED BY <1>1 DEF Capped

LEMMA CrowdStep == CrowdTyped /\ [AudienceNext]_audienceVars => CrowdTyped'
<1> SUFFICES ASSUME CrowdTyped, [AudienceNext]_audienceVars PROVE CrowdTyped'
  OBVIOUS
<1>1. /\ clock \in 0 .. MaxClock /\ received \in 0 .. MaxMessages
      /\ QueueHeld(questions) /\ shouts \in 0 .. MaxShouts /\ card.kind \in Kinds
      /\ MaxClock \in Nat /\ MaxMessages \in Nat /\ MaxShouts \in Nat
  BY AudienceConstants DEF AudienceConstants, CrowdTyped
<1>2. CASE UNCHANGED audienceVars
  BY <1>1, <1>2 DEF audienceVars, CrowdTyped
<1>3. CASE Ingest
  <2>1. received' \in 0 .. MaxMessages /\ clock' = clock
    BY <1>1, <1>3 DEF Ingest
  <2>2. ASSUME NEW now \in TimesRead, Gift(now) \/ Follow
        PROVE  CrowdTyped'
    <3>1. /\ shouts' = Capped(shouts + 1) /\ questions' = questions
          /\ card' = card \/ card' = Card("THANKS", ThanksTime, now)
      BY <2>2 DEF Gift, Follow
    <3>2. Card("THANKS", ThanksTime, now).kind = "THANKS"
      BY DEF Card
    <3> QED BY <1>1, <2>1, <3>1, <3>2, CappedIs DEF CrowdTyped, Kinds
  <2>3. ASSUME NEW now \in TimesRead, NEW h \in Handles, NEW asks \in BOOLEAN, NEW urgent \in BOOLEAN,
               Comment(h, asks, urgent, now)
        PROVE  CrowdTyped'
    <3> DEFINE q == [by |-> h, urgent |-> urgent]
    <3>1. q \in Asked
      BY DEF Asked
    <3>2. UNCHANGED <<card, questions>> \/ AnswerNext(card, Queued(q), now)
      BY <2>3 DEF Comment
    <3> HIDE DEF q
    <3>3. card'.kind \in Kinds /\ QueueHeld(questions')
      BY <1>1, <3>1, <3>2, QueuedHeld, AnswerTyped
    <3>4. shouts' \in 0 .. MaxShouts
      BY <1>1, <2>3, CappedIs DEF Comment
    <3> QED BY <1>1, <2>1, <3>3, <3>4 DEF CrowdTyped
  <2> QED BY <1>3, <2>2, <2>3 DEF Ingest
<1>4. CASE Look
  <2>0. PICK now \in TimesRead : ViewAt(now)
    BY <1>4 DEF Look
  <2> DEFINE current == IF CardOver(now) THEN NoCard ELSE card
  <2>1. AnswerNext(current, questions, now) /\ UNCHANGED <<clock, received>>
    BY <1>4, <2>0 DEF Look, ViewAt
  <2>2. current.kind \in Kinds
    BY <1>1 DEF NoCard, Kinds
  <2>3. shouts' \in 0 .. MaxShouts
    BY <1>1, <2>0 DEF ViewAt
  <2> HIDE DEF current
  <2>4. card'.kind \in Kinds /\ QueueHeld(questions')
    BY <1>1, <2>1, <2>2, AnswerTyped
  <2> QED BY <1>1, <2>1, <2>3, <2>4 DEF CrowdTyped
<1>5. CASE SetSession
  BY <1>1, <1>5 DEF SetSession, CrowdTyped
<1>6. CASE ClockTick
  BY <1>1, <1>6 DEF ClockTick, CrowdTyped
<1> QED BY <1>2, <1>3, <1>4, <1>5, <1>6 DEF AudienceNext

\* For any audience: the queues keep their bounds and nothing on the screen began later than
\* now (Director: questions, shouts).
THEOREM ShowTyping == AudienceSpec => []AudienceTypeOK
<1>1. AudienceInit => CrowdTyped
  <2> SUFFICES ASSUME AudienceInit PROVE CrowdTyped
    OBVIOUS
  <2>1. MaxClock \in Nat /\ MaxMessages \in Nat /\ MaxQuestions \in Nat /\ MaxShouts \in Nat
    BY AudienceConstants DEF AudienceConstants
  <2>2. QueueHeld(<<>>)
    BY <2>1 DEF QueueHeld
  <2> QED BY <2>1, <2>2 DEF AudienceInit, CrowdTyped, NoCard, Kinds
<1>2. CrowdTyped /\ ShowIInv => AudienceTypeOK
  BY DEF CrowdTyped, QueueHeld, Kinds, ShowIInv, ShowTyped, AudienceTypeOK
<1> QED BY <1>1, <1>2, CrowdStep, ShowInvariant, PTL DEF AudienceSpec
-----------------------------------------------------------------------------
(* Tail (AudienceTail).  While no more events with an id counted than the  *)
(* window is wide, it holds every one of them, so a line read again is     *)
(* known.  Of the file it follows the tail counted every line up to its    *)
(* position but the old, the overlong and those its reading began behind;  *)
(* the one line such a beginning cuts is never completed, since its first  *)
(* half was not kept.  A file is seen shorter than the position only       *)
(* before a line of its generation is read, and then none of them counted. *)

TailTyped ==
    /\ halves \in [Logs -> 0 .. 2 * MaxLines] /\ newest \in Logs
    /\ generation \in [Logs -> 0 .. MaxTruncations]
    /\ following \in Logs \cup {NoFile}
    /\ position \in Nat /\ kept \in BOOLEAN
    /\ initial = (following = NoFile)
    /\ passed \in [Logs -> Nat]
    /\ initial => \A f \in Logs : passed[f] = 0

\* The window and the counts, before or in the middle of a chunk.
Remembers(ids, counts) ==
    LET taken == {e \in Events : HasId(e) /\ counts[e] > 0} IN
    /\ ids \in Seq(Events) /\ counts \in [Events -> Nat]
    /\ \A i \in 1 .. Len(ids) : counts[ids[i]] > 0
    /\ IsFiniteSet(taken)
    /\ Cardinality(taken) <= MaxIds =>
         /\ \A e \in taken : counts[e] = 1 /\ \E i \in 1 .. Len(ids) : ids[i] = e
         /\ Len(ids) <= Cardinality(taken)

\* A line that may be missing though the reading has passed it.
Excused(f, i) ==
    \/ 2 * i - 1 <= passed[f]
    \/ <<f, i>> \in Overlong
    \/ <<f, generation[f], i>> \in tooOld

\* The lines the position has passed.
ReadUpTo ==
    following \in Logs =>
        /\ \A i \in 1 .. MaxLines :
              2 * i <= position /\ ~Excused(following, i) => counted[EventOf(i)] > 0
        /\ position % 2 = 1 /\ ~kept =>
              position = passed[following] \/ <<following, (position + 1) \div 2>> \in Overlong

\* The generations to come, and one the tail has not begun to read.
NothingAhead ==
    /\ \A e \in Events : e[2] > generation[e[1]] => counted[e] = 0
    /\ following \in Logs /\ halves[following] < position =>
          \A k \in 1 .. MaxLines : counted[EventOf(k)] = 0

TailIInv == /\ TailTyped /\ Remembers(eventIds, counted) /\ ReadUpTo
            /\ NoLineIsSkipped /\ NothingAhead

LEMMA TailNats == /\ MaxLines \in Nat \ {0} /\ MaxIds \in Nat /\ Chunk \in Nat \ {0}
                  /\ MaxTruncations \in Nat /\ NoFile \notin Logs
  BY TailConstants DEF TailConstants

LEMMA EventFacts ==
    ASSUME NEW f \in Logs, NEW g \in 0 .. MaxTruncations, NEW k \in 1 .. MaxLines
    PROVE  /\ <<f, g, k>> \in Events
           /\ HasId(<<f, g, k>>) <=> <<f, k>> \in WithId
  BY DEF Events, HasId

LEMMA ThisEvent ==
    ASSUME TailTyped, following \in Logs, NEW k \in 1 .. MaxLines
    PROVE  /\ EventOf(k) \in Events
           /\ HasId(EventOf(k)) <=> <<following, k>> \in WithId
  BY EventFacts DEF EventOf, TailTyped

\* One line: known, or remembered and counted once more, or without an id and counted.
LEMMA LineTaken ==
    ASSUME TailTyped, following \in Logs, NEW ids, NEW counts, NEW k \in 1 .. MaxLines,
           Remembers(ids, counts)
    PROVE  LET s == TakeLine([ids |-> ids, counts |-> counts], k) IN
           /\ s = [ids |-> s.ids, counts |-> s.counts]
           /\ Remembers(s.ids, s.counts)
           /\ s.counts[EventOf(k)] > 0
           /\ \A d \in Events \ {EventOf(k)} : s.counts[d] = counts[d]
           /\ \A d \in Events : s.counts[d] >= counts[d]
<1> DEFINE e == EventOf(k)
           s == TakeLine([ids |-> ids, counts |-> counts], k)
           T == {d \in Events : HasId(d) /\ counts[d] > 0}
<1>0. e \in Events /\ (HasId(e) <=> <<following, k>> \in WithId)
  BY ThisEvent
<1>1. ids \in Seq(Events) /\ counts \in [Events -> Nat] /\ Len(ids) \in Nat
  BY DEF Remembers
<1>2. CASE <<following, k>> \in WithId /\ Contains(ids, e)
  <2>1. s = [ids |-> ids, counts |-> counts]
    BY <1>2 DEF TakeLine
  <2>2. counts[e] > 0
    BY <1>1, <1>2 DEF Contains, Remembers
  <2> HIDE DEF s, e
  <2> QED BY <1>1, <2>1, <2>2 DEF e, s
<1>4. CASE <<following, k>> \notin WithId
  <2> DEFINE n == [counts EXCEPT ![e] = @ + 1]
  <2>1. s = [ids |-> ids, counts |-> n]
    BY <1>4 DEF TakeLine
  <2> HIDE DEF s, e
  <2>2. /\ n \in [Events -> Nat] /\ n[e] = counts[e] + 1 /\ counts[e] \in Nat
        /\ \A d \in Events \ {e} : n[d] = counts[d]
    BY <1>0, <1>1
  <2> HIDE DEF n
  <2>3. \A d \in Events : n[d] >= counts[d] /\ counts[d] \in Nat /\ n[d] \in Nat
    BY <1>1, <2>2
  <2>4. {d \in Events : HasId(d) /\ n[d] > 0} = T /\ \A d \in T : n[d] = counts[d]
    BY <1>0, <1>4, <2>2
  <2>5. \A i \in 1 .. Len(ids) : n[ids[i]] > 0
    <3> TAKE i \in 1 .. Len(ids)
    <3>1. ids[i] \in Events /\ counts[ids[i]] > 0
      BY <1>1 DEF Remembers
    <3> QED BY <2>3, <3>1
  <2>6. Remembers(ids, n)
    <3>1. /\ IsFiniteSet(T)
          /\ Cardinality(T) <= MaxIds =>
               /\ \A d \in T : counts[d] = 1 /\ \E i \in 1 .. Len(ids) : ids[i] = d
               /\ Len(ids) <= Cardinality(T)
      BY DEF Remembers
    <3> HIDE DEF T
    <3> QED BY <1>1, <2>2, <2>4, <2>5, <3>1 DEF Remembers
  <2> QED BY <2>1, <2>2, <2>3, <2>6 DEF e, s
<1>3. CASE <<following, k>> \in WithId /\ ~Contains(ids, e)
  <2> DEFINE q == Append(ids, e)
             w == Window(q)
             n == [counts EXCEPT ![e] = @ + 1]
             U == {d \in Events : HasId(d) /\ n[d] > 0}
  <2>1. s = [ids |-> w, counts |-> n]
    BY <1>3 DEF TakeLine
  <2> HIDE DEF s, e
  <2>2. /\ n \in [Events -> Nat] /\ n[e] = counts[e] + 1 /\ counts[e] \in Nat
        /\ \A d \in Events \ {e} : n[d] = counts[d]
    BY <1>0, <1>1
  <2>3. /\ q \in Seq(Events) /\ Len(q) = Len(ids) + 1 /\ q[Len(ids) + 1] = e
        /\ \A i \in 1 .. Len(ids) : q[i] = ids[i]
    BY <1>0, <1>1
  <2>4. U = T \cup {e}
    BY <1>0, <1>3, <2>2
  <2>5. IsFiniteSet(T)
    BY DEF Remembers
  <2>6. IsFiniteSet(U) /\ Cardinality(T) \in Nat /\ Cardinality(U) \in Nat
        /\ Cardinality(U) = (IF e \in T THEN Cardinality(T) ELSE Cardinality(T) + 1)
    <3> HIDE DEF T, U
    <3> QED BY <2>4, <2>5, FS_AddElement, FS_CardinalityType
  <2> HIDE DEF n, U
  <2>7. \A i \in 1 .. Len(q) : n[q[i]] > 0
    <3> TAKE i \in 1 .. Len(q)
    <3>1. CASE i = Len(ids) + 1
      BY <2>2, <2>3, <3>1
    <3>2. CASE i # Len(ids) + 1
      <4>1. i \in 1 .. Len(ids) /\ q[i] = ids[i] /\ ids[i] \in Events
        BY <1>1, <2>3, <3>2
      <4>2. counts[ids[i]] > 0
        BY <4>1 DEF Remembers
      <4> HIDE DEF q
      <4>3. n[ids[i]] > 0
        <5>1. CASE ids[i] = e
          BY <2>2, <5>1
        <5>2. CASE ids[i] # e
          BY <2>2, <4>1, <4>2, <5>2
        <5> QED BY <5>1, <5>2
      <4> QED BY <4>1, <4>3
    <3> QED BY <3>1, <3>2
  <2> HIDE DEF q
  <2>8. /\ w \in Seq(Events)
        /\ \A i \in 1 .. Len(w) : n[w[i]] > 0
    <3>1. CASE Len(q) > MaxIds
      <4>1. w = Tail(q) /\ q # <<>>
        BY <1>1, <2>3, <3>1, TailNats DEF Window
      <4>2. Tail(q) \in Seq(Events) /\ Len(Tail(q)) = Len(q) - 1
            /\ \A i \in 1 .. Len(Tail(q)) : Tail(q)[i] = q[i + 1]
        BY <2>3, <4>1, HeadTailProperties
      <4>3. \A i \in 1 .. Len(w) : i + 1 \in 1 .. Len(q) /\ w[i] = q[i + 1]
        BY <1>1, <2>3, <4>1, <4>2
      <4> QED BY <2>7, <4>1, <4>2, <4>3
    <3>2. CASE ~(Len(q) > MaxIds)
      BY <2>3, <2>7, <3>2 DEF Window
    <3> QED BY <3>1, <3>2
  <2>9. ASSUME Cardinality(U) <= MaxIds
        PROVE  /\ \A d \in U : n[d] = 1 /\ \E i \in 1 .. Len(w) : w[i] = d
               /\ Len(w) <= Cardinality(U)
    <3>1. Cardinality(T) <= MaxIds
      BY <2>6, <2>9, TailNats
    <3>2. /\ \A d \in T : counts[d] = 1 /\ \E i \in 1 .. Len(ids) : ids[i] = d
          /\ Len(ids) <= Cardinality(T)
      BY <3>1 DEF Remembers
    <3>3. e \notin T
      BY <1>1, <1>3, <3>2 DEF Contains
    <3>4. Len(q) <= Cardinality(U)
      BY <1>1, <2>3, <2>6, <3>2, <3>3
    <3>5. w = q
      BY <1>1, <2>3, <2>6, <2>9, <3>4, TailNats DEF Window
    <3>6. ASSUME NEW d \in U
          PROVE  n[d] = 1 /\ \E i \in 1 .. Len(q) : q[i] = d
      <4>1. CASE d = e
        <5>1. counts[e] = 0
          BY <1>0, <1>3, <2>2, <3>3
        <5>2. Len(ids) + 1 \in 1 .. Len(q)
          BY <1>1, <2>3
        <5> QED BY <2>2, <2>3, <4>1, <5>1, <5>2
      <4>2. CASE d # e
        <5>1. d \in T /\ d \in Events
          BY <2>4, <3>6, <4>2
        <5>2. PICK i \in 1 .. Len(ids) : ids[i] = d
          BY <3>2, <5>1
        <5>3. i \in 1 .. Len(q) /\ q[i] = d
          BY <1>1, <2>3, <5>2
        <5> QED BY <2>2, <3>2, <4>2, <5>1, <5>3
      <4> QED BY <4>1, <4>2
    <3> QED BY <3>4, <3>5, <3>6
  <2>10. Remembers(w, n)
    BY <2>2, <2>6, <2>8, <2>9 DEF Remembers, U
  <2>11. ASSUME NEW d \in Events
         PROVE  n[d] >= counts[d]
    <3>1. counts[d] \in Nat
      BY <1>1
    <3> QED BY <2>2, <3>1
  <2> HIDE DEF w
  <2> QED BY <2>1, <2>2, <2>10, <2>11 DEF e, s
<1> QED BY <1>2, <1>3, <1>4

\* The definition of ChunkTaken, as far as line n: f is the sequence of what was taken.
Taking(n, f) ==
    f = [k \in 0 .. n |-> IF k = 0 THEN [ids |-> eventIds, counts |-> counted]
                          ELSE IF IsTaken(k) THEN TakeLine(f[k - 1], k)
                          ELSE f[k - 1]]

LEMMA TakingExists ==
    ASSUME NEW n \in Nat
    PROVE  \E f : Taking(n, f)
<1> DEFINE S == {m \in Nat : \E f : Taking(m, f)}
           first == [ids |-> eventIds, counts |-> counted]
<1>1. 0 \in S
  <2> DEFINE f == [k \in 0 .. 0 |-> first]
  <2>1. Taking(0, f)
    BY DEF Taking
  <2> QED BY <2>1
<1>2. ASSUME NEW m \in S
      PROVE  m + 1 \in S
  <2>1. PICK f : Taking(m, f)
    OBVIOUS
  <2> DEFINE next == IF IsTaken(m + 1) THEN TakeLine(f[m], m + 1) ELSE f[m]
             g == [k \in 0 .. m + 1 |-> IF k = m + 1 THEN next ELSE f[k]]
  <2>2. ASSUME NEW k \in 0 .. m + 1
        PROVE  g[k] = IF k = 0 THEN first
                      ELSE IF IsTaken(k) THEN TakeLine(g[k - 1], k)
                      ELSE g[k - 1]
    <3>1. CASE k = m + 1
      <4>1. g[k] = next /\ g[k - 1] = f[m]
        BY <3>1
      <4> QED BY <3>1, <4>1
    <3>2. CASE k \in 1 .. m
      <4>1. f[k] = IF IsTaken(k) THEN TakeLine(f[k - 1], k) ELSE f[k - 1]
        BY <2>1, <3>2 DEF Taking
      <4>2. g[k] = f[k] /\ g[k - 1] = f[k - 1]
        BY <3>2
      <4> QED BY <3>2, <4>1, <4>2
    <3>3. CASE k = 0
      <4>1. f[0] = first
        BY <2>1 DEF Taking
      <4> QED BY <3>3, <4>1
    <3> QED BY <3>1, <3>2, <3>3
  <2>3. Taking(m + 1, g)
    BY <2>2 DEF Taking
  <2> QED BY <2>3
<1> HIDE DEF S
<1>3. S = Nat
  BY <1>1, <1>2, SetInduction DEF S
<1> QED BY <1>3 DEF S

\* After k lines of the chunk.
TakenWell(s, k) ==
    /\ s = [ids |-> s.ids, counts |-> s.counts]
    /\ Remembers(s.ids, s.counts)
    /\ \A j \in 1 .. k : IsTaken(j) => s.counts[EventOf(j)] > 0
    /\ \A d \in Events : s.counts[d] >= counted[d]
    /\ \A d \in Events : s.counts[d] # counted[d] =>
           \E j \in 1 .. k : d = EventOf(j) /\ IsTaken(j)

LEMMA LineTakenWell ==
    ASSUME TailTyped, following \in Logs, NEW s, NEW k \in Nat, TakenWell(s, k),
           counted \in [Events -> Nat],
           k + 1 \in 1 .. MaxLines
    PROVE  TakenWell(IF IsTaken(k + 1) THEN TakeLine(s, k + 1) ELSE s, k + 1)
<1>1. \A j \in 1 .. k + 1 : j \in 1 .. k \/ j = k + 1
  OBVIOUS
<1>2. 1 .. k \subseteq 1 .. k + 1
  OBVIOUS
<1>3. CASE ~IsTaken(k + 1)
  BY <1>1, <1>2, <1>3 DEF TakenWell
<1>4. CASE IsTaken(k + 1)
  <2> DEFINE e == EventOf(k + 1)  r == TakeLine(s, k + 1)
  <2>1. e \in Events
    BY ThisEvent
  <2>2. s = [ids |-> s.ids, counts |-> s.counts] /\ Remembers(s.ids, s.counts)
    BY DEF TakenWell
  <2>3. /\ r = [ids |-> r.ids, counts |-> r.counts]
        /\ Remembers(r.ids, r.counts)
        /\ r.counts[e] > 0
        /\ \A d \in Events \ {e} : r.counts[d] = s.counts[d]
        /\ \A d \in Events : r.counts[d] >= s.counts[d]
    BY <2>1, <2>2, LineTaken
  <2>4. s.counts \in [Events -> Nat] /\ r.counts \in [Events -> Nat]
    BY <2>2, <2>3 DEF Remembers
  <2> HIDE DEF r
  <2>5. ASSUME NEW j \in 1 .. k + 1, IsTaken(j)
        PROVE  r.counts[EventOf(j)] > 0
    <3>1. CASE j = k + 1
      BY <2>3, <3>1
    <3>2. CASE j \in 1 .. k
      <4>1. EventOf(j) \in Events
        <5>1. j \in 1 .. MaxLines
          BY <3>2, TailNats
        <5> QED BY <5>1, ThisEvent
      <4>2. s.counts[EventOf(j)] > 0
        BY <2>5, <3>2 DEF TakenWell
      <4> QED BY <2>3, <2>4, <4>1, <4>2
    <3> QED BY <1>1, <3>1, <3>2
  <2>6. \A d \in Events : r.counts[d] >= counted[d]
    BY <2>3, <2>4 DEF TakenWell
  <2>7. ASSUME NEW d \in Events, r.counts[d] # counted[d]
        PROVE  \E j \in 1 .. k + 1 : d = EventOf(j) /\ IsTaken(j)
    <3>1. CASE d = e
      BY <1>4, <3>1
    <3>2. CASE d # e
      <4>1. s.counts[d] # counted[d]
        BY <2>3, <2>7, <3>2
      <4> QED BY <1>2, <4>1 DEF TakenWell
    <3> QED BY <3>1, <3>2
  <2>8. TakenWell(r, k + 1)
    BY <2>3, <2>5, <2>6, <2>7 DEF TakenWell
  <2> QED BY <1>4, <2>8 DEF r
<1> QED BY <1>3, <1>4

\* A chunk, line by line: what its lines do to the counts.
LEMMA ChunkFacts ==
    ASSUME TailTyped, Remembers(eventIds, counted), following \in Logs
    PROVE  TakenWell(ChunkTaken, MaxLines)
<1> DEFINE n == MaxLines
           f == CHOOSE g : Taking(n, g)
<1>1. n \in Nat
  BY TailNats
<1>2. ChunkTaken = f[n]
  BY DEF ChunkTaken, Taking
<1>3. Taking(n, f)
  BY <1>1, TakingExists
<1> HIDE DEF n, f
<1> DEFINE first == [ids |-> eventIds, counts |-> counted]
<1>4. /\ f[0] = first
      /\ \A k \in 1 .. n : f[k] = IF IsTaken(k) THEN TakeLine(f[k - 1], k)
                                  ELSE f[k - 1]
  BY <1>1, <1>3 DEF Taking
<1> DEFINE S == {k \in Nat : k <= n => TakenWell(f[k], k)}
<1>5. counted \in [Events -> Nat]
  BY DEF Remembers
<1>6. 0 \in S
  <2>1. first = [ids |-> first.ids, counts |-> first.counts] /\ first.ids = eventIds
        /\ first.counts = counted
    OBVIOUS
  <2> HIDE DEF first
  <2>2. TakenWell(first, 0)
    BY <1>5, <2>1 DEF TakenWell
  <2> QED BY <1>4, <2>2
<1>7. ASSUME NEW k \in S
      PROVE  k + 1 \in S
  <2>1. CASE k + 1 <= n
    <3>1. k \in Nat /\ TakenWell(f[k], k) /\ k + 1 \in 1 .. n /\ (k + 1) - 1 = k
      BY <1>1, <2>1
    <3>2. f[k + 1] = IF IsTaken(k + 1) THEN TakeLine(f[k], k + 1) ELSE f[k]
      BY <1>4, <3>1
    <3>3. TakenWell(IF IsTaken(k + 1) THEN TakeLine(f[k], k + 1) ELSE f[k], k + 1)
      BY <1>5, <3>1, LineTakenWell DEF n
    <3> QED BY <3>1, <3>2, <3>3
  <2>2. CASE ~(k + 1 <= n)
    BY <2>2
  <2> QED BY <2>1, <2>2
<1> HIDE DEF S
<1>8. S = Nat
  BY <1>6, <1>7, SetInduction DEF S
<1> QED BY <1>1, <1>2, <1>8 DEF S, n

LEMMA UntilFacts ==
    ASSUME TailTyped, following \in Logs, position # halves[following]
    PROVE  /\ From \in Nat /\ Until \in Nat /\ halves[following] \in 0 .. 2 * MaxLines
           /\ From <= Until /\ Until <= halves[following]
           /\ Until > 0 => From < Until
           /\ ~Shorter => From = position /\ (StillKept <=> kept)
           /\ Shorter => From = 0 /\ halves[following] < position
<1>1. halves[following] \in 0 .. 2 * MaxLines /\ position \in Nat /\ 2 * MaxLines \in Nat
  BY TailNats DEF TailTyped
<1>2. From \in Nat /\ From <= halves[following]
  BY <1>1 DEF From, Shorter
<1>3. Until = IF From + Chunk < halves[following] THEN From + Chunk ELSE halves[following]
  BY DEF Until
<1>4. /\ ~Shorter => From = position /\ (StillKept <=> kept) /\ From < halves[following]
      /\ Shorter => From = 0 /\ halves[following] < position
  BY <1>1 DEF From, Shorter, StillKept
<1> QED BY <1>1, <1>2, <1>3, <1>4, TailNats

LEMMA TailOfRead ==
    ASSUME TailIInv, Read
    PROVE  TailIInv'
<1> DEFINE n == MaxLines
<1>1. /\ following \in Logs /\ position # halves[following]
      /\ eventIds' = ChunkTaken.ids /\ counted' = ChunkTaken.counts
      /\ tooOld' = tooOld \union {EventOf(k) : k \in {i \in 1 .. n : Complete(i) /\ TooOld(i)}}
      /\ position' = Until
      /\ kept' = KeepsHalf
      /\ passed' = [passed EXCEPT ![following] = IF Shorter THEN 0 ELSE @]
      /\ UNCHANGED <<halves, generation, newest, following, initial>>
  BY DEF Read, logVars, TailIInv, TailTyped
<1>2. /\ From \in Nat /\ Until \in Nat /\ position \in Nat /\ halves[following] \in 0 .. 2 * n
      /\ From <= Until /\ Until <= halves[following]
      /\ Until > 0 => From < Until
      /\ ~Shorter => From = position /\ (StillKept <=> kept)
      /\ Shorter => From = 0 /\ halves[following] < position
  BY <1>1, UntilFacts DEF TailIInv, TailTyped
<1>3. TakenWell(ChunkTaken, n)
  BY <1>1, ChunkFacts DEF TailIInv
<1>4. Remembers(eventIds, counted)'
  BY <1>1, <1>3 DEF TakenWell, Remembers, HasId
<1>5. passed' \in [Logs -> Nat] /\ passed'[following] = (IF Shorter THEN 0 ELSE passed[following])
      /\ \A f \in Logs : f # following => passed'[f] = passed[f]
  BY <1>1 DEF TailIInv, TailTyped
<1>6. TailTyped'
  <2>1. kept' \in BOOLEAN /\ following # NoFile
    BY <1>1, TailNats DEF KeepsHalf
  <2> QED BY <1>1, <1>2, <1>5, <2>1 DEF TailIInv, TailTyped
<1>7. counted \in [Events -> Nat] /\ counted' \in [Events -> Nat]
  BY <1>4 DEF TailIInv, Remembers
<1>8. \A k \in 1 .. n : EventOf(k)' = EventOf(k) /\ EventOf(k) \in Events
  BY <1>1, ThisEvent DEF EventOf, TailIInv
<1>9. ASSUME NEW f \in Logs, NEW i \in 1 .. n, ~Excused(f, i)', f # following \/ ~Shorter
      PROVE  ~Excused(f, i)
  BY <1>1, <1>5, <1>9 DEF Excused
<1>10. ASSUME NEW i \in 1 .. n, 2 * i <= Until, ~Excused(following, i)'
       PROVE  counted'[EventOf(i)] > 0
  <2>1. EventOf(i) \in Events /\ i \in Nat /\ 1 <= i
    BY <1>8
  <2>2. CASE 2 * i <= From
    <3>1. ~Shorter /\ From = position
      BY <1>2, <2>1, <2>2
    <3>2. ~Excused(following, i)
      BY <1>1, <1>9, <1>10, <3>1
    <3>3. counted[EventOf(i)] > 0
      BY <1>1, <2>2, <3>1, <3>2 DEF TailIInv, ReadUpTo
    <3> QED BY <1>1, <1>3, <1>7, <2>1, <3>3 DEF TakenWell
  <2>3. CASE ~(2 * i <= From)
    <3>1. 2 * i - 1 > From \/ StillKept
      <4>1. ASSUME ~(2 * i - 1 > From), ~StillKept
            PROVE  FALSE
        <5>1. From = 2 * i - 1 /\ From # 0
          BY <1>2, <2>1, <2>3, <4>1
        <5>2. ~Shorter /\ From = position /\ ~kept
          BY <1>2, <4>1, <5>1
        <5>3. position % 2 = 1 /\ (position + 1) \div 2 = i
          BY <2>1, <5>1, <5>2
        <5>4. position = passed[following] \/ <<following, i>> \in Overlong
          BY <1>1, <5>2, <5>3 DEF TailIInv, ReadUpTo
        <5>5. ~Excused(following, i)
          BY <1>1, <1>9, <1>10, <5>2
        <5> QED BY <2>1, <5>1, <5>2, <5>4, <5>5 DEF Excused
      <4> QED BY <4>1
    <3>2. Complete(i)
      BY <1>2, <1>10, <2>1, <2>3, <3>1 DEF Complete
    <3>3. ~TooOld(i)
      <4>1. EventOf(i) \notin tooOld'
        BY <1>8, <1>10 DEF Excused, EventOf
      <4> QED BY <1>1, <3>2, <4>1
    <3> QED BY <1>1, <1>3, <3>2, <3>3 DEF TakenWell, IsTaken
  <2> QED BY <2>2, <2>3
<1>11. ReadUpTo'
  <2>1. ASSUME Until % 2 = 1, ~KeepsHalf
        PROVE  <<following, (Until + 1) \div 2>> \in Overlong
    <3>1. Until - 1 >= From
      BY <1>2, <2>1
    <3> QED BY <2>1, <3>1 DEF KeepsHalf
  <2> QED BY <1>1, <1>8, <1>10, <2>1 DEF ReadUpTo
<1>12. NoLineIsSkipped'
  <2>1. ASSUME NEW f \in Logs, NEW i \in 1 .. n, NEW j \in 1 .. n, i < j,
               counted'[<<f, generation[f], j>>] > 0, ~Excused(f, i)'
        PROVE  counted'[<<f, generation[f], i>>] > 0
    <3> DEFINE ei == <<f, generation[f], i>>  ej == <<f, generation[f], j>>
    <3>1. ei \in Events /\ ej \in Events
      BY EventFacts DEF TailIInv, TailTyped
    <3>2. CASE counted[ej] > 0
      <4>1. f # following \/ ~Shorter
        BY <1>1, <1>2, <1>7, <3>2 DEF TailIInv, NothingAhead, EventOf
      <4>2. ~Excused(f, i)
        BY <1>9, <2>1, <4>1
      <4>3. counted[ei] > 0
        <5>1. 2 * i - 1 > passed[f] /\ <<f, i>> \notin Overlong /\ ei \notin tooOld
          <6>1. passed[f] \in Nat /\ i \in Nat
            BY DEF TailIInv, TailTyped
          <6> QED BY <4>2, <6>1 DEF Excused
        <5> QED BY <2>1, <3>2, <5>1 DEF TailIInv, NoLineIsSkipped
      <4> QED BY <1>1, <1>3, <1>7, <3>1, <4>3 DEF TakenWell
    <3>3. CASE ~(counted[ej] > 0)
      <4>1. counted'[ej] # counted[ej]
        BY <2>1, <3>3
      <4>2. PICK k \in 1 .. n : ej = EventOf(k) /\ IsTaken(k)
        BY <1>1, <1>3, <3>1, <4>1 DEF TakenWell
      <4>3. f = following /\ 2 * i <= Until
        BY <1>2, <2>1, <4>2 DEF Complete, IsTaken, EventOf
      <4>4. ~Excused(following, i)'
        BY <1>1, <2>1, <4>3 DEF Excused
      <4>5. counted'[EventOf(i)] > 0
        BY <1>10, <4>3, <4>4
      <4> QED BY <4>3, <4>5 DEF EventOf
    <3> QED BY <3>2, <3>3
  <2>2. \A f \in Logs, i \in 1 .. n : passed'[f] \in Nat /\ i \in Nat
    BY <1>5
  <2> QED BY <1>1, <2>1, <2>2 DEF NoLineIsSkipped, Excused
<1>13. NothingAhead'
  <2>1. ~(halves'[following'] < position')
    BY <1>1, <1>2
  <2>2. ASSUME NEW e \in Events, e[2] > generation[e[1]]
        PROVE  counted'[e] = 0
    <3>1. counted[e] = 0
      BY <2>2 DEF TailIInv, NothingAhead
    <3>2. ASSUME NEW k \in 1 .. n
          PROVE  e # EventOf(k)
      <4>1. EventOf(k)[1] = following /\ EventOf(k)[2] = generation[following]
        BY DEF EventOf
      <4>2. generation[following] \in Nat
        BY <1>1 DEF TailIInv, TailTyped
      <4> QED BY <2>2, <4>1, <4>2
    <3> QED BY <1>1, <1>3, <3>1, <3>2 DEF TakenWell
  <2> QED BY <1>1, <2>1, <2>2 DEF NothingAhead
<1> QED BY <1>4, <1>6, <1>11, <1>12, <1>13 DEF TailIInv

\* A new file is followed from its start, the first one from its end.
LEMMA TailOfScan ==
    ASSUME TailIInv, Scan
    PROVE  TailIInv'
<1>1. /\ following # newest /\ following' = newest /\ position' = Start(newest)
      /\ kept' = FALSE /\ initial' = FALSE
      /\ passed' = IF initial THEN [passed EXCEPT ![newest] = halves[newest]] ELSE passed
      /\ UNCHANGED <<halves, generation, newest, eventIds, counted, tooOld>>
  BY DEF Scan, Newer, logVars
<1>2. TailTyped
  BY DEF TailIInv
<1>3. newest \in Logs /\ halves[newest] \in 0 .. 2 * MaxLines /\ newest # NoFile /\ 2 * MaxLines \in Nat
  BY <1>2, TailNats DEF TailTyped
<1>4. position' \in Nat /\ position' <= halves[newest]
  BY <1>1, <1>3 DEF Start
<1>5. passed' \in [Logs -> Nat]
  BY <1>1, <1>2, <1>3 DEF TailTyped
<1>6. TailTyped'
  BY <1>1, <1>2, <1>3, <1>4, <1>5 DEF TailTyped
<1>7. Remembers(eventIds, counted)'
  BY <1>1 DEF TailIInv, Remembers, HasId
<1>9. initial => position' = halves[newest] /\ passed'[newest] = halves[newest]
  BY <1>1, <1>2, <1>3 DEF Start, TailTyped
<1>10. ~initial => position' = 0
  BY <1>1 DEF Start
<1>11. ReadUpTo'
  <2>1. ASSUME NEW i \in 1 .. MaxLines, 2 * i <= position', ~Excused(newest, i)'
        PROVE  FALSE
    <3>1. i \in Nat /\ i >= 1 /\ ~(2 * i - 1 <= passed'[newest])
      BY <1>1, <2>1 DEF Excused
    <3> QED BY <1>3, <1>4, <1>9, <1>10, <2>1, <3>1
  <2>2. position' % 2 = 1 => position' = passed'[newest]
    BY <1>9, <1>10
  <2> QED BY <1>1, <2>1, <2>2 DEF ReadUpTo
<1>12. NoLineIsSkipped'
  <2>1. CASE ~initial
    BY <1>1, <2>1 DEF TailIInv, NoLineIsSkipped
  <2>2. CASE initial
    <3>1. \A f \in Logs : passed[f] = 0 /\ passed'[f] \in Nat
      BY <1>2, <1>5, <2>2 DEF TailTyped
    <3>2. ASSUME NEW f \in Logs, NEW i \in 1 .. MaxLines, 2 * i - 1 > passed'[f]
          PROVE  2 * i - 1 > passed[f]
      <4>1. passed[f] = 0 /\ i \in Nat /\ i >= 1
        BY <3>1
      <4> QED BY <4>1
    <3> QED BY <1>1, <3>2 DEF TailIInv, NoLineIsSkipped
  <2> QED BY <2>1, <2>2
<1>13. NothingAhead'
  <2>1. ~(halves'[following'] < position')
    BY <1>1, <1>3, <1>4
  <2> QED BY <1>1, <2>1 DEF TailIInv, NothingAhead
<1> QED BY <1>6, <1>7, <1>11, <1>12, <1>13 DEF TailIInv

\* A line written makes the files longer and nothing else.
LEMMA TailOfWrite ==
    ASSUME TailIInv, Write
    PROVE  TailIInv'
<1>1. /\ halves' = [halves EXCEPT ![newest] = @ + 1] /\ halves[newest] < 2 * MaxLines
      /\ UNCHANGED <<generation, newest, following, position, kept, initial, eventIds, counted,
                     tooOld, passed>>
  BY DEF Write, pollVars
<1>2. \A f \in Logs : halves[f] \in 0 .. 2 * MaxLines
  BY DEF TailIInv, TailTyped
<1>3. halves' \in [Logs -> 0 .. 2 * MaxLines] /\ \A f \in Logs : halves'[f] >= halves[f]
  BY <1>1, <1>2, TailNats DEF TailIInv, TailTyped
<1>4. following \in Logs /\ halves'[following] < position => halves[following] < position
  BY <1>2, <1>3 DEF TailIInv, TailTyped
<1>5. NothingAhead'
  BY <1>1, <1>4 DEF TailIInv, NothingAhead, EventOf
<1> QED BY <1>1, <1>3, <1>5
        DEF TailIInv, TailTyped, Remembers, ReadUpTo, NoLineIsSkipped, Excused, EventOf, HasId

\* A file emptied: no line of its new generation has counted, and of the file it follows the
\* tail reads none of them before its position.
LEMMA TailOfTruncate ==
    ASSUME TailIInv, Truncate
    PROVE  TailIInv'
<1>1. /\ generation[newest] < MaxTruncations
      /\ generation' = [generation EXCEPT ![newest] = @ + 1]
      /\ halves' = [halves EXCEPT ![newest] = 0]
      /\ kept' = (kept /\ following # newest)
      /\ passed' = [passed EXCEPT ![newest] = IF following = newest THEN position ELSE 0]
      /\ UNCHANGED <<newest, following, position, initial, eventIds, counted, tooOld>>
  BY DEF Truncate
<1>2. /\ newest \in Logs /\ position \in Nat /\ newest # NoFile
      /\ generation \in [Logs -> 0 .. MaxTruncations] /\ halves \in [Logs -> 0 .. 2 * MaxLines]
      /\ passed \in [Logs -> Nat]
  BY TailNats DEF TailIInv, TailTyped
<1>3. /\ generation'[newest] = generation[newest] + 1 /\ halves'[newest] = 0
      /\ passed'[newest] = (IF following = newest THEN position ELSE 0)
      /\ \A f \in Logs : f # newest =>
            generation'[f] = generation[f] /\ halves'[f] = halves[f] /\ passed'[f] = passed[f]
  BY <1>1, <1>2
<1>4. \A f \in Logs : generation[f] \in 0 .. MaxTruncations
  BY <1>2
<1>5. /\ generation' \in [Logs -> 0 .. MaxTruncations] /\ halves' \in [Logs -> 0 .. 2 * MaxLines]
      /\ passed' \in [Logs -> Nat]
  BY <1>1, <1>2, <1>4, TailNats
<1>6. TailTyped'
  <2>1. kept' \in BOOLEAN
    BY <1>1
  <2>2. ASSUME initial, NEW f \in Logs
        PROVE  passed'[f] = 0
    BY <1>2, <1>3, <2>2 DEF TailIInv, TailTyped
  <2> QED BY <1>1, <1>5, <2>1, <2>2 DEF TailIInv, TailTyped
<1>7. Remembers(eventIds, counted)'
  BY <1>1 DEF TailIInv, Remembers, HasId
<1>8. ASSUME NEW k \in 1 .. MaxLines
      PROVE  counted[<<newest, generation'[newest], k>>] = 0
  <2> DEFINE e == <<newest, generation'[newest], k>>
  <2>1. e \in Events /\ e[2] = generation[newest] + 1 /\ e[1] = newest
    BY <1>2, <1>3, <1>5, EventFacts
  <2>2. e[2] > generation[e[1]]
    BY <1>2, <1>4, <2>1
  <2> HIDE DEF e
  <2>3. counted[e] = 0
    BY <2>1, <2>2 DEF TailIInv, NothingAhead
  <2> QED BY <2>3 DEF e
<1>9. ReadUpTo'
  <2>1. CASE following = newest
    <3>1. ASSUME NEW i \in 1 .. MaxLines, 2 * i <= position, ~Excused(newest, i)'
          PROVE  FALSE
      <4>1. ~(2 * i - 1 <= position) /\ i \in Nat
        BY <1>1, <1>3, <2>1, <3>1 DEF Excused
      <4> QED BY <1>2, <3>1, <4>1
    <3> QED BY <1>1, <1>3, <2>1, <3>1 DEF ReadUpTo
  <2>2. CASE following # newest
    <3>1. kept' = kept
      BY <1>1, <2>2 DEF TailIInv, TailTyped
    <3>2. ASSUME following \in Logs
          PROVE  /\ passed'[following] = passed[following]
                 /\ generation'[following] = generation[following]
      BY <1>3, <2>2, <3>2
    <3>3. ASSUME following \in Logs, NEW i \in 1 .. MaxLines
          PROVE  (Excused(following, i)' <=> Excused(following, i)) /\ EventOf(i)' = EventOf(i)
      BY <1>1, <3>2, <3>3 DEF Excused, EventOf
    <3> QED BY <1>1, <3>1, <3>2, <3>3 DEF TailIInv, ReadUpTo
  <2> QED BY <2>1, <2>2
<1>10. NoLineIsSkipped'
  <2>1. ASSUME NEW f \in Logs, NEW i \in 1 .. MaxLines, NEW j \in 1 .. MaxLines, i < j,
               counted[<<f, generation'[f], j>>] > 0, 2 * i - 1 > passed'[f],
               <<f, i>> \notin Overlong, <<f, generation'[f], i>> \notin tooOld
        PROVE  counted[<<f, generation'[f], i>>] > 0
    <3>1. f # newest
      BY <1>8, <2>1
    <3>2. generation'[f] = generation[f] /\ passed'[f] = passed[f]
      BY <1>3, <3>1
    <3> QED BY <2>1, <3>2 DEF TailIInv, NoLineIsSkipped
  <2> QED BY <1>1, <2>1 DEF NoLineIsSkipped
<1>11. NothingAhead'
  <2>1. ASSUME NEW e \in Events, e[2] > generation'[e[1]]
        PROVE  counted[e] = 0
    <3>1. e[1] \in Logs /\ e[2] \in Nat
      BY DEF Events
    <3>2. generation[e[1]] \in Nat /\ generation'[e[1]] >= generation[e[1]]
      BY <1>2, <1>3, <3>1
    <3>3. generation'[e[1]] \in Nat
      BY <1>5, <3>1
    <3> QED BY <2>1, <3>1, <3>2, <3>3 DEF TailIInv, NothingAhead
  <2>2. ASSUME following \in Logs, halves'[following] < position, NEW k \in 1 .. MaxLines
        PROVE  counted[EventOf(k)'] = 0
    <3>1. CASE following = newest
      BY <1>1, <1>8, <3>1 DEF EventOf
    <3>2. CASE following # newest
      BY <1>1, <1>3, <2>2, <3>2 DEF TailIInv, NothingAhead, EventOf
    <3> QED BY <3>1, <3>2
  <2> QED BY <1>1, <2>1, <2>2 DEF NothingAhead
<1> QED BY <1>6, <1>7, <1>9, <1>10, <1>11 DEF TailIInv

LEMMA TailStep == TailIInv /\ [TailNext]_tailVars => TailIInv'
<1> SUFFICES ASSUME TailIInv, [TailNext]_tailVars
             PROVE  TailIInv'
  OBVIOUS
<1>1. CASE Write
  BY <1>1, TailOfWrite
<1>2. CASE Scan
  BY <1>2, TailOfScan
<1>3. CASE Read
  BY <1>3, TailOfRead
<1>4. CASE Truncate
  BY <1>4, TailOfTruncate
<1>5. CASE UNCHANGED tailVars \/ \E f \in Logs : Rotate(f) \/ Age(f)
  <2>1. /\ newest' \in Logs
        /\ UNCHANGED <<halves, generation, following, position, kept, initial, eventIds, counted,
                       tooOld, passed>>
    BY <1>5 DEF Rotate, Age, tailVars, logVars, pollVars, TailIInv, TailTyped
  <2> QED BY <2>1 DEF TailIInv, TailTyped, Remembers, ReadUpTo, NoLineIsSkipped, NothingAhead,
                      Excused, EventOf, HasId
<1> QED BY <1>1, <1>2, <1>3, <1>4, <1>5 DEF TailNext

\* The audience's log, whatever is written, emptied, rotated and read when: no line is skipped
\* but the old, the overlong and those passed over, and none with an id counts twice while the
\* window is as wide as what counted (GamechangerTail.poll, Director.ingest).
THEOREM LinesCountOnce == TailSpec => []EveryLineOnce
<1>1. ASSUME TailInit
      PROVE  TailIInv
  <2>1. /\ halves \in [Logs -> 0 .. 1] /\ newest \in Logs
        /\ generation = [f \in Logs |-> 0]
        /\ following = NoFile /\ position = 0 /\ kept = FALSE /\ initial = TRUE
        /\ eventIds = <<>> /\ counted = [e \in Events |-> 0]
        /\ passed = [f \in Logs |-> 0]
    BY <1>1 DEF TailInit
  <2>2. TailTyped
    <3>1. \A f \in Logs : halves[f] \in 0 .. 2 * MaxLines
      BY <2>1, TailNats
    <3>2. halves \in [Logs -> 0 .. 2 * MaxLines] /\ generation \in [Logs -> 0 .. MaxTruncations]
      BY <2>1, <3>1, TailNats
    <3>3. following \notin Logs /\ kept \in BOOLEAN /\ initial \in BOOLEAN
      BY <2>1, TailNats
    <3> QED BY <2>1, <3>2, <3>3 DEF TailTyped
  <2>3. {e \in Events : HasId(e) /\ counted[e] > 0} = {}
    BY <2>1
  <2>4. Remembers(eventIds, counted)
    BY <2>1, <2>3, FS_EmptySet DEF Remembers
  <2>5. ReadUpTo
    BY <2>1, TailNats DEF ReadUpTo
  <2>6. NoLineIsSkipped
    <3>1. \A f \in Logs, k \in 1 .. MaxLines : counted[<<f, generation[f], k>>] = 0
      BY <2>1, <2>2, EventFacts DEF TailTyped
    <3> QED BY <3>1 DEF NoLineIsSkipped
  <2>7. NothingAhead
    BY <2>1, TailNats DEF NothingAhead
  <2> QED BY <2>2, <2>4, <2>5, <2>6, <2>7 DEF TailIInv
<1>2. ASSUME TailIInv
      PROVE  EveryLineOnce
  <2>1. ASSUME Cardinality(Counted) <= MaxIds, NEW e \in Events, HasId(e)
        PROVE  counted[e] <= 1
    <3>1. counted[e] \in Nat /\ (counted[e] > 0 => counted[e] = 1)
      BY <1>2, <2>1 DEF TailIInv, Remembers, Counted
    <3> QED BY <3>1
  <2> QED BY <1>2, <2>1 DEF TailIInv, EveryLineOnce, NothingCountsTwice
<1> QED BY <1>1, <1>2, TailStep, PTL DEF TailSpec
-----------------------------------------------------------------------------
(* The sink of frames (SpeakerSink). Frames are numbered as they come and  *)
(* wait in that order, and the rows on disk are of earlier frames: so a    *)
(* row that is written comes after all of them. The newest frame is the    *)
(* last that waits, or the one held, or on disk. While the file is open    *)
(* its counter is at least the whole rows in it, and the files were        *)
(* counted before it was opened, unless an unlink failed.                  *)

RowSet == [life : Nat, frame : Nat, whole : BOOLEAN]
Disk   == Seq(Seq(RowSet))

SinkTyped ==
    /\ frame \in Nat /\ held \in Nat /\ inFile \in Nat /\ spared \in Nat /\ life \in Nat
    /\ producer \in {"ready", "signals"}
    /\ writer \in {"waits", "clears", "drains", "writes", "ended"}
    /\ wake \in BOOLEAN /\ stopped \in BOOLEAN /\ final \in BOOLEAN /\ path \in BOOLEAN
    /\ open \in BOOLEAN /\ cut \in BOOLEAN /\ pruned \in BOOLEAN
    /\ backlog \in Seq(Nat \ {0}) /\ Len(backlog) <= QueueSize
    /\ files \in Disk
    /\ stats \in [written : Nat, dropped : Nat, errors : Nat]
    /\ held # 0 <=> writer = "writes"
    /\ open => files # <<>>

LEMMA SinkSizes ==
    /\ QueueSize \in Nat /\ FileRows \in Nat /\ KeepFiles \in Nat
    /\ QueueSize > 0 /\ FileRows > 0 /\ KeepFiles > 0
  BY SinkConstants DEF SinkConstants

\* A file with one more row.
LEMMA LongerFile ==
    ASSUME NEW f \in Seq(RowSet), NEW r \in RowSet
    PROVE  /\ f \o <<r>> \in Seq(RowSet)
           /\ DOMAIN f = 1 .. Len(f) /\ Len(f) \in Nat
           /\ DOMAIN (f \o <<r>>) = 1 .. Len(f) + 1
           /\ \A a \in 1 .. Len(f) : (f \o <<r>>)[a] = f[a]
           /\ (f \o <<r>>)[Len(f) + 1] = r
           /\ ToSet(f \o <<r>>) = ToSet(f) \cup {r}
<1>1. <<r>> \in Seq(RowSet) /\ Len(<<r>>) = 1 /\ <<r>>[1] = r
  OBVIOUS
<1>2. /\ f \o <<r>> \in Seq(RowSet)
      /\ Len(f) \in Nat /\ DOMAIN f = 1 .. Len(f)
      /\ Len(f \o <<r>>) = Len(f) + 1
      /\ DOMAIN (f \o <<r>>) = 1 .. Len(f) + 1
  BY <1>1
<1>3. \A a \in 1 .. Len(f) + 1 : (f \o <<r>>)[a] = IF a <= Len(f) THEN f[a] ELSE r
  BY <1>1
<1>4. /\ \A a \in 1 .. Len(f) : (f \o <<r>>)[a] = f[a]
      /\ (f \o <<r>>)[Len(f) + 1] = r
  BY <1>2, <1>3
<1>5. ToSet(f \o <<r>>) = ToSet(f) \cup {r}
  BY <1>2, <1>4 DEF ToSet
<1> QED
  BY <1>2, <1>4, <1>5

\* The whole rows of a file, of a new one and of one with one more row.
LEMMA WholeCounts ==
    ASSUME NEW f \in Seq(RowSet)
    PROVE  /\ IsFiniteSet(WholeRows(f)) /\ Cardinality(WholeRows(f)) \in Nat
           /\ \A r \in RowSet :
                 Cardinality(WholeRows(f \o <<r>>)) = Cardinality(WholeRows(f)) + (IF r.whole THEN 1 ELSE 0)
<1>1. WholeRows(f) \subseteq 1 .. Len(f) /\ Len(f) \in Nat
  BY DEF WholeRows
<1>2. IsFiniteSet(WholeRows(f))
  <2>1. IsFiniteSet(1 .. Len(f))
    BY <1>1, FS_Interval
  <2> QED
    BY <1>1, <2>1, FS_Subset
<1>3. SUFFICES ASSUME NEW r \in RowSet
               PROVE Cardinality(WholeRows(f \o <<r>>)) = Cardinality(WholeRows(f)) + (IF r.whole THEN 1 ELSE 0)
  BY <1>2, FS_CardinalityType
<1>4. Len(f) + 1 \notin WholeRows(f)
  BY <1>1
<1>5. CASE r.whole
  <2>1. WholeRows(f \o <<r>>) = WholeRows(f) \cup {Len(f) + 1}
    BY <1>5, LongerFile DEF WholeRows
  <2>2. Cardinality(WholeRows(f) \cup {Len(f) + 1}) = Cardinality(WholeRows(f)) + 1
    BY <1>2, <1>4, FS_AddElement
  <2> QED
    BY <1>5, <2>1, <2>2
<1>6. CASE ~r.whole
  <2>1. WholeRows(f \o <<r>>) = WholeRows(f)
    BY <1>6, LongerFile DEF WholeRows
  <2> QED
    BY <1>2, <1>6, <2>1, FS_CardinalityType
<1> QED
  BY <1>5, <1>6

LEMMA EmptyFile ==
    /\ <<>> \in Seq(RowSet) /\ ToSet(<<>>) = {} /\ WholeRows(<<>>) = {} /\ Cardinality(WholeRows(<<>>)) = 0
    /\ \A r \in RowSet : <<>> \o <<r>> = <<r>>
<1>1. <<>> \in Seq(RowSet) /\ ToSet(<<>>) = {} /\ WholeRows(<<>>) = {}
  BY DEF ToSet, WholeRows
<1> QED
  BY <1>1, FS_EmptySet, ConcatEmptySeq

\* What a rotation leaves are files that were there, in their order.
LEMMA SuffixFacts ==
    ASSUME NEW fs \in Disk, NEW n \in 0 .. Len(fs)
    PROVE  LET left == SubSeq(fs, n + 1, Len(fs)) IN
           /\ left \in Disk /\ Len(left) = Len(fs) - n
           /\ \A i \in DOMAIN left : i + n \in DOMAIN fs /\ left[i] = fs[i + n]
           /\ RowsOf(left) \subseteq RowsOf(fs)
           /\ InOrder(fs) => InOrder(left)
<1> DEFINE left == SubSeq(fs, n + 1, Len(fs))
<1>1. Len(fs) \in Nat /\ DOMAIN fs = 1 .. Len(fs) /\ \A i \in 1 .. Len(fs) : fs[i] \in Seq(RowSet)
  BY DEF Disk
<1>2. left \in Seq(Seq(RowSet)) /\ Len(left) = Len(fs) - n
  <2>1. \A i \in n + 1 .. Len(fs) : fs[i] \in Seq(RowSet)
    BY <1>1
  <2>2. /\ left \in Seq(Seq(RowSet))
        /\ Len(left) = IF n + 1 <= Len(fs) THEN (Len(fs) - (n + 1)) + 1 ELSE 0
    <3>1. n + 1 \in Int /\ Len(fs) \in Int
      BY <1>1
    <3> HIDE DEF left
    <3>2. left = SubSeq(fs, n + 1, Len(fs))
      BY DEF left
    <3>3. SubSeq(fs, n + 1, Len(fs)) \in Seq(Seq(RowSet))
      BY <2>1, <3>1, SubSeqProperties
    <3>4. Len(SubSeq(fs, n + 1, Len(fs))) = IF n + 1 <= Len(fs) THEN (Len(fs) - (n + 1)) + 1 ELSE 0
      BY <2>1, <3>1, SubSeqProperties, Z3
    <3> QED
      BY <3>2, <3>3, <3>4
  <2> HIDE DEF left
  <2>3. n \in Int /\ n <= Len(fs)
    BY <1>1
  <2>4. Len(left) = Len(fs) - n
    <3> DEFINE m == Len(fs)
    <3>1. m \in Int /\ n \in Int /\ n <= m
      BY <1>1, <2>3
    <3>2. Len(left) = IF n + 1 <= m THEN (m - (n + 1)) + 1 ELSE 0
      BY <2>2
    <3> HIDE DEF m
    <3>3. Len(left) = m - n
      BY <3>1, <3>2
    <3> QED
      BY <3>3 DEF m
  <2> QED
    BY <2>2, <2>4
<1>3. DOMAIN left = 1 .. Len(fs) - n
  BY <1>2
<1>4. \A i \in 1 .. Len(fs) - n : left[i] = fs[i + n]
  <2>1. \A i \in 1 .. (Len(fs) - (n + 1)) + 1 : left[i] = fs[((n + 1) + i) - 1]
    BY <1>1, SubSeqProperties
  <2> QED
    BY <1>1, <2>1
<1>5. \A i \in DOMAIN left : i + n \in DOMAIN fs /\ left[i] = fs[i + n]
  BY <1>1, <1>3, <1>4
<1>6. RowsOf(left) \subseteq RowsOf(fs)
  BY <1>5 DEF RowsOf, ToSet
<1>7. ASSUME InOrder(fs) PROVE InOrder(left)
  <2>1. SUFFICES ASSUME NEW i \in DOMAIN left, NEW j \in DOMAIN left,
                        NEW a \in DOMAIN left[i], NEW b \in DOMAIN left[j],
                        i < j \/ (i = j /\ a < b)
                 PROVE  Earlier(left[i][a], left[j][b])
    BY DEF InOrder
  <2>2. /\ i + n \in DOMAIN fs /\ j + n \in DOMAIN fs
        /\ left[i] = fs[i + n] /\ left[j] = fs[j + n]
    BY <1>5
  <2>3. i + n < j + n \/ (i + n = j + n /\ a < b)
    BY <2>1, <1>3
  <2> QED
    BY <1>7, <2>1, <2>2, <2>3 DEF InOrder
<1> QED
  BY <1>2, <1>5, <1>6, <1>7 DEF Disk

\* What a rotation may leave.
LEMMA LeftFacts ==
    ASSUME SinkTyped, NEW left \in Leftovers
    PROVE  /\ left.files \in Disk /\ left.errors \in {0, 1}
           /\ ~Rotates => left.files = files /\ left.errors = 0
           /\ Rotates /\ left.errors = 0 => Len(left.files) <= KeepFiles
           /\ RowsOf(left.files) \subseteq RowsOf(files)
           /\ InOrder(files) => InOrder(left.files)
           /\ \A i \in DOMAIN left.files : \E j \in DOMAIN files : left.files[i] = files[j]
<1>1. files \in Disk /\ Len(files) \in Nat
  BY DEF SinkTyped, Disk
<1>2. CASE left.files = files /\ left.errors = 0 /\ (Rotates => Len(files) <= KeepFiles)
  BY <1>1, <1>2
<1>3. ASSUME NEW n \in 0 .. Len(files), left.files = SubSeq(files, n + 1, Len(files)),
             left.errors \in {0, 1}, Rotates, left.errors = 0 => n = Excess
      PROVE  /\ left.files \in Disk /\ left.errors \in {0, 1}
             /\ ~Rotates => left.files = files /\ left.errors = 0
             /\ Rotates /\ left.errors = 0 => Len(left.files) <= KeepFiles
             /\ RowsOf(left.files) \subseteq RowsOf(files)
             /\ InOrder(files) => InOrder(left.files)
             /\ \A i \in DOMAIN left.files : \E j \in DOMAIN files : left.files[i] = files[j]
  <2>1. /\ left.files \in Disk /\ Len(left.files) = Len(files) - n
        /\ \A i \in DOMAIN left.files : i + n \in DOMAIN files /\ left.files[i] = files[i + n]
        /\ RowsOf(left.files) \subseteq RowsOf(files)
        /\ InOrder(files) => InOrder(left.files)
    BY <1>1, <1>3, SuffixFacts
  <2>2. left.errors = 0 => Len(left.files) <= KeepFiles
    BY <1>1, <1>3, <2>1, SinkSizes DEF Excess
  <2> QED
    BY <1>3, <2>1, <2>2
<1>4. CASE ~Rotates
  <2>1. left = [files |-> files, errors |-> 0]
    BY <1>4 DEF Leftovers
  <2> QED
    BY <1>2, <1>4, <2>1
<1>5. CASE Rotates
  <2>1. Excess \in Int /\ Excess = Len(files) - KeepFiles /\ Excess <= Len(files)
    BY <1>1, SinkSizes DEF Excess
  <2>2. \/ left = [files |-> IF Excess > 0 THEN SubSeq(files, Excess + 1, Len(files)) ELSE files, errors |-> 0]
        \/ \E n \in 0 .. (Excess - 1) : left = [files |-> SubSeq(files, n + 1, Len(files)), errors |-> 1]
    BY <1>5 DEF Leftovers
  <2>3. CASE left = [files |-> IF Excess > 0 THEN SubSeq(files, Excess + 1, Len(files)) ELSE files, errors |-> 0]
    <3>1. CASE Excess > 0
      <4>1. Excess \in 0 .. Len(files) /\ left.files = SubSeq(files, Excess + 1, Len(files)) /\ left.errors = 0
        BY <2>1, <2>3, <3>1
      <4> QED
        BY <1>3, <1>5, <4>1
    <3>2. CASE ~(Excess > 0)
      <4>1. left.files = files /\ left.errors = 0 /\ Len(files) <= KeepFiles
        BY <1>1, <2>1, <2>3, <3>2, SinkSizes
      <4> QED
        BY <1>2, <4>1
    <3> QED
      BY <3>1, <3>2
  <2>4. CASE \E n \in 0 .. (Excess - 1) : left = [files |-> SubSeq(files, n + 1, Len(files)), errors |-> 1]
    <3>1. PICK n \in 0 .. (Excess - 1) : left = [files |-> SubSeq(files, n + 1, Len(files)), errors |-> 1]
      BY <2>4
    <3>2. n \in 0 .. Len(files) /\ left.files = SubSeq(files, n + 1, Len(files)) /\ left.errors = 1
      BY <1>1, <2>1, <3>1
    <3> QED
      BY <1>3, <1>5, <3>2
  <2> QED
    BY <2>2, <2>3, <2>4
<1> QED
  BY <1>4, <1>5

\* A directory that gets one more file.
LEMMA OneMoreFile ==
    ASSUME NEW fs \in Disk, NEW f \in Seq(RowSet)
    PROVE  LET more == Append(fs, f) IN
           /\ more \in Disk /\ more # <<>> /\ Len(more) = Len(fs) + 1 /\ Last(more) = f
           /\ RowsOf(more) = RowsOf(fs) \cup ToSet(f)
           /\ \A i \in DOMAIN more : more[i] = f \/ (i \in DOMAIN fs /\ more[i] = fs[i])
           /\ (InOrder(fs) /\ Len(f) <= 1 /\ \A r \in RowsOf(fs), s \in ToSet(f) : Earlier(r, s)) => InOrder(more)
<1> DEFINE more == Append(fs, f)
<1>1. Len(fs) \in Nat /\ DOMAIN fs = 1 .. Len(fs)
  BY DEF Disk
<1>2. /\ more \in Seq(Seq(RowSet)) /\ Len(more) = Len(fs) + 1 /\ DOMAIN more = 1 .. Len(fs) + 1
      /\ \A i \in 1 .. Len(fs) : more[i] = fs[i]
      /\ more[Len(fs) + 1] = f
  BY <1>1 DEF Disk
<1> HIDE DEF more
<1>3. more # <<>> /\ Last(more) = f
  BY <1>1, <1>2 DEF Last
<1>4. \A i \in DOMAIN more : (i = Len(fs) + 1 /\ more[i] = f) \/ (i \in DOMAIN fs /\ more[i] = fs[i])
  BY <1>1, <1>2
<1>5. RowsOf(more) = RowsOf(fs) \cup ToSet(f)
  <2>1. ToSet(more) = ToSet(fs) \cup {f}
    <3>1. \A i \in DOMAIN more : more[i] \in ToSet(fs) \cup {f}
      BY <1>4 DEF ToSet
    <3>2. f \in ToSet(more)
      BY <1>1, <1>2 DEF ToSet
    <3>3. \A i \in DOMAIN fs : fs[i] \in ToSet(more)
      BY <1>1, <1>2 DEF ToSet
    <3> QED
      BY <3>1, <3>2, <3>3 DEF ToSet
  <2> QED
    BY <2>1 DEF RowsOf
<1>6. ASSUME InOrder(fs), Len(f) <= 1, \A r \in RowsOf(fs), s \in ToSet(f) : Earlier(r, s)
      PROVE  InOrder(more)
  <2>1. SUFFICES ASSUME NEW i \in DOMAIN more, NEW j \in DOMAIN more,
                        NEW a \in DOMAIN more[i], NEW b \in DOMAIN more[j],
                        i < j \/ (i = j /\ a < b)
                 PROVE  Earlier(more[i][a], more[j][b])
    BY DEF InOrder
  <2>2. CASE j \in DOMAIN fs
    <3>1. i \in DOMAIN fs /\ more[i] = fs[i] /\ more[j] = fs[j]
      BY <1>1, <1>2, <2>1, <2>2
    <3> QED
      BY <1>6, <2>1, <2>2, <3>1 DEF InOrder
  <2>3. CASE j \notin DOMAIN fs
    <3>1. j = Len(fs) + 1 /\ more[j] = f /\ DOMAIN f = 1 .. Len(f) /\ Len(f) \in Nat
      BY <1>4, <2>3
    <3>2. i # j
      BY <1>6, <2>1, <3>1
    <3>3. i \in DOMAIN fs /\ more[i] = fs[i]
      BY <1>4, <3>1, <3>2
    <3>4. more[i][a] \in RowsOf(fs) /\ more[j][b] \in ToSet(f)
      BY <2>1, <3>1, <3>3 DEF RowsOf, ToSet
    <3> QED
      BY <1>6, <3>4
  <2> QED
    BY <2>2, <2>3
<1> QED
  BY <1>2, <1>3, <1>4, <1>5, <1>6 DEF more, Disk

\* A directory whose last file gets one more row.
LEMMA OneMoreRow ==
    ASSUME NEW fs \in Disk, fs # <<>>, NEW r \in RowSet
    PROVE  LET more == Append(Front(fs), Last(fs) \o <<r>>) IN
           /\ more \in Disk /\ more # <<>> /\ Len(more) = Len(fs)
           /\ Last(fs) \in Seq(RowSet) /\ Last(more) = Last(fs) \o <<r>>
           /\ RowsOf(more) = RowsOf(fs) \cup {r}
           /\ \A i \in DOMAIN more : more[i] = Last(fs) \o <<r>> \/ (i \in DOMAIN fs /\ more[i] = fs[i])
           /\ (InOrder(fs) /\ \A q \in RowsOf(fs) : Earlier(q, r)) => InOrder(more)
<1> DEFINE g == Last(fs) \o <<r>>
           more == Append(Front(fs), g)
           n == Len(fs)
<1>1. n \in Nat /\ n > 0 /\ DOMAIN fs = 1 .. n /\ \A i \in 1 .. n : fs[i] \in Seq(RowSet)
  BY DEF Disk
<1>2. Last(fs) = fs[n] /\ Last(fs) \in Seq(RowSet)
  BY <1>1 DEF Last
<1>3. /\ g \in Seq(RowSet) /\ ToSet(g) = ToSet(fs[n]) \cup {r}
      /\ DOMAIN fs[n] = 1 .. Len(fs[n]) /\ Len(fs[n]) \in Nat /\ DOMAIN g = 1 .. Len(fs[n]) + 1
      /\ \A a \in 1 .. Len(fs[n]) : g[a] = fs[n][a]
      /\ g[Len(fs[n]) + 1] = r
  <2>1. g = fs[n] \o <<r>> /\ fs[n] \in Seq(RowSet)
    BY <1>2
  <2> HIDE DEF g, n
  <2> QED
    BY <2>1, LongerFile
<1>4. Front(fs) \in Seq(Seq(RowSet)) /\ Len(Front(fs)) = n - 1 /\ \A i \in 1 .. n - 1 : Front(fs)[i] = fs[i]
  BY <1>1 DEF Front, Disk
<1> HIDE DEF g, n
<1>5. /\ more \in Seq(Seq(RowSet)) /\ Len(more) = n /\ DOMAIN more = 1 .. n
      /\ \A i \in 1 .. n - 1 : more[i] = fs[i]
      /\ more[n] = g
  BY <1>1, <1>3, <1>4
<1> HIDE DEF more
<1>6. more # <<>> /\ Last(more) = g
  BY <1>1, <1>5 DEF Last
<1>7. \A i \in DOMAIN more : (i = n /\ more[i] = g) \/ (i \in DOMAIN fs /\ i < n /\ more[i] = fs[i])
  BY <1>1, <1>5
<1>8. RowsOf(more) = RowsOf(fs) \cup {r}
  <2>1. \A q \in RowsOf(more) : q \in RowsOf(fs) \cup {r}
    <3>1. SUFFICES ASSUME NEW i \in DOMAIN more, NEW q \in ToSet(more[i]) PROVE q \in RowsOf(fs) \cup {r}
      BY DEF RowsOf, ToSet
    <3>2. CASE i = n
      <4>1. q \in ToSet(fs[n]) \cup {r}
        BY <1>3, <1>5, <3>1, <3>2
      <4>2. fs[n] \in ToSet(fs)
        BY <1>1 DEF ToSet
      <4> QED
        BY <4>1, <4>2 DEF RowsOf
    <3>3. CASE i # n
      BY <1>7, <3>1, <3>3 DEF RowsOf, ToSet
    <3> QED
      BY <3>2, <3>3
  <2>2. \A i \in DOMAIN fs : ToSet(fs[i]) \subseteq ToSet(more[i])
    <3>1. SUFFICES ASSUME NEW i \in DOMAIN fs PROVE ToSet(fs[i]) \subseteq ToSet(more[i])
      OBVIOUS
    <3>2. CASE i = n
      BY <1>3, <1>5, <3>2
    <3>3. CASE i # n
      BY <1>1, <1>5, <3>3
    <3> QED
      BY <3>2, <3>3
  <2>3. RowsOf(fs) \subseteq RowsOf(more)
    <3>1. SUFFICES ASSUME NEW i \in DOMAIN fs, NEW q \in ToSet(fs[i]) PROVE q \in RowsOf(more)
      BY DEF RowsOf, ToSet
    <3>2. i \in DOMAIN more /\ q \in ToSet(more[i])
      BY <1>1, <1>5, <2>2, <3>1
    <3>3. more[i] \in ToSet(more)
      BY <3>2 DEF ToSet
    <3> QED
      BY <3>2, <3>3 DEF RowsOf
  <2>4. r \in RowsOf(more)
    BY <1>1, <1>3, <1>5 DEF RowsOf, ToSet
  <2> QED
    BY <2>1, <2>3, <2>4
<1>9. ASSUME InOrder(fs), \A q \in RowsOf(fs) : Earlier(q, r)
      PROVE  InOrder(more)
  <2>1. SUFFICES ASSUME NEW i \in DOMAIN more, NEW j \in DOMAIN more,
                        NEW a \in DOMAIN more[i], NEW b \in DOMAIN more[j],
                        i < j \/ (i = j /\ a < b)
                 PROVE  Earlier(more[i][a], more[j][b])
    BY DEF InOrder
  <2>2. i \in 1 .. n /\ j \in 1 .. n
    BY <1>5
  <2>3. i = j => a \in Nat /\ b \in Nat
    <3>1. more[i] \in Seq(RowSet)
      BY <1>5
    <3> QED
      BY <2>1, <3>1
  <2>4. (i < n \/ a # Len(fs[n]) + 1) => a \in DOMAIN fs[i] /\ more[i][a] = fs[i][a]
    <3>1. CASE i < n
      BY <1>5, <2>1, <2>2, <3>1
    <3>2. CASE i = n /\ a # Len(fs[n]) + 1
      <4>1. more[i] = g /\ fs[i] = fs[n]
        BY <1>5, <3>2
      <4>2. a \in DOMAIN g /\ a \in 1 .. Len(fs[n]) + 1
        BY <1>3, <2>1, <4>1
      <4>3. a \in 1 .. Len(fs[n])
        BY <1>3, <3>2, <4>2
      <4> QED
        BY <1>3, <4>1, <4>3
    <3> QED
      BY <1>1, <2>2, <3>1, <3>2
  <2>5. CASE j = n /\ b = Len(fs[n]) + 1
    <3>1. more[j][b] = r
      BY <1>3, <1>5, <2>5
    <3>2. i < n \/ a # Len(fs[n]) + 1
      BY <1>1, <1>3, <2>1, <2>2, <2>3, <2>5
    <3>3. more[i][a] \in RowsOf(fs)
      <4>1. fs[i] \in ToSet(fs) /\ fs[i][a] \in ToSet(fs[i])
        BY <1>1, <2>2, <2>4, <3>2 DEF ToSet
      <4> QED
        BY <2>4, <3>2, <4>1 DEF RowsOf
    <3> QED
      BY <1>9, <3>1, <3>3
  <2>6. CASE ~(j = n /\ b = Len(fs[n]) + 1)
    <3>1. b \in DOMAIN fs[j] /\ more[j][b] = fs[j][b]
      <4>1. CASE j < n
        <5>1. more[j] = fs[j]
          BY <1>1, <1>5, <2>2, <4>1
        <5> QED
          BY <2>1, <5>1
      <4>2. CASE j = n
        <5>1. more[j] = g /\ fs[j] = fs[n]
          BY <1>5, <4>2
        <5>2. b \in DOMAIN g /\ b \in 1 .. Len(fs[n]) + 1
          BY <1>3, <2>1, <5>1
        <5>3. b \in 1 .. Len(fs[n])
          BY <1>3, <2>6, <4>2, <5>2
        <5> QED
          BY <1>3, <5>1, <5>3
      <4> QED
        BY <1>1, <2>2, <4>1, <4>2
    <3>2. i < n \/ a # Len(fs[n]) + 1
      <4>1. SUFFICES ASSUME i = n, a = Len(fs[n]) + 1 PROVE FALSE
        BY <1>1, <2>2
      <4>2. j = n /\ a < b
        BY <1>1, <2>1, <2>2, <4>1
      <4>3. b \in 1 .. Len(fs[n]) + 1
        BY <1>3, <1>5, <4>2
      <4> QED
        BY <1>3, <4>1, <4>2, <4>3
    <3>3. a \in DOMAIN fs[i] /\ more[i][a] = fs[i][a]
      BY <2>4, <3>2
    <3> QED
      BY <1>1, <1>9, <2>1, <2>2, <3>1, <3>3 DEF InOrder
  <2> QED
    BY <2>5, <2>6
<1> QED
  BY <1>2, <1>5, <1>6, <1>7, <1>8, <1>9 DEF more, g, n, Disk

LEMMA SameFiles ==
    ASSUME NEW fs \in Disk, fs # <<>>
    PROVE  Append(Front(fs), Last(fs) \o <<>>) = fs
<1>1. Len(fs) \in Nat /\ Len(fs) > 0 /\ Last(fs) = fs[Len(fs)]
        /\ \A i \in 1 .. Len(fs) : fs[i] \in Seq(RowSet)
  BY DEF Disk, Last
<1>2. Last(fs) \o <<>> = Last(fs)
  BY <1>1, ConcatEmptySeq
<1>3. Front(fs) \in Seq(Seq(RowSet)) /\ Len(Front(fs)) = Len(fs) - 1
        /\ \A i \in 1 .. Len(fs) - 1 : Front(fs)[i] = fs[i]
  <2>1. fs \in Seq(Seq(RowSet)) /\ Front(fs) = SubSeq(fs, 1, Len(fs) - 1)
    BY DEF Front, Disk
  <2> DEFINE n == Len(fs) - 1
  <2>2. n \in Nat /\ \A i \in 1 .. n : fs[i] \in Seq(RowSet)
    BY <1>1
  <2> HIDE DEF n
  <2>3. SubSeq(fs, 1, n) \in Seq(Seq(RowSet)) /\ Len(SubSeq(fs, 1, n)) = n
    BY <2>2
  <2>4. \A i \in 1 .. n : SubSeq(fs, 1, n)[i] = fs[i]
    BY <2>2
  <2> QED
    BY <2>1, <2>3, <2>4 DEF n
<1> DEFINE more == Append(Front(fs), Last(fs))
<1>4. /\ more \in Seq(Seq(RowSet)) /\ Len(more) = Len(fs)
      /\ \A i \in 1 .. Len(fs) : more[i] = fs[i]
  BY <1>1, <1>3
<1>5. more = fs
  <2>1. fs \in Seq(Seq(RowSet))
    BY DEF Disk
  <2> HIDE DEF more
  <2> QED
    BY <1>4, <2>1, SeqEqual
<1> QED
  BY <1>2, <1>5

DiskIInv ==
    /\ \A i \in DOMAIN files : Cardinality(WholeRows(files[i])) <= FileRows
    /\ open => Cardinality(WholeRows(Last(files))) <= inFile
    /\ ~open => inFile = 0 /\ ~pruned
    /\ pruned => Len(files) <= KeepFiles + 1

\* What a write leaves, whole or in part.
LEMMA GrownFacts ==
    ASSUME SinkTyped, DiskIInv, NEW left \in Leftovers, NEW r \in RowSet, NEW wrote \in {<<>>, <<r>>}
    PROVE  LET fs == Grown(left.files, wrote)
               n  == IF wrote = <<r>> /\ r.whole THEN 1 ELSE 0
           IN  /\ fs \in Disk /\ fs # <<>>
               /\ RowsOf(fs) \subseteq RowsOf(files) \cup {r}
               /\ wrote = <<r>> => r \in RowsOf(fs)
               /\ (InOrder(files) /\ \A q \in RowsOf(files) : Earlier(q, r)) => InOrder(fs)
               /\ \A i \in DOMAIN fs : Cardinality(WholeRows(fs[i])) <= FileRows
               /\ Cardinality(WholeRows(Last(fs))) <= (IF Rotates THEN 0 ELSE inFile) + n
               /\ Rotates /\ left.errors = 0 => Len(fs) <= KeepFiles + 1
               /\ open /\ ~Rotates => Len(fs) = Len(files)
<1> DEFINE fs == Grown(left.files, wrote)
           n  == IF wrote = <<r>> /\ r.whole THEN 1 ELSE 0
           was == IF Rotates THEN 0 ELSE inFile
<1>1. /\ left.files \in Disk /\ left.errors \in {0, 1}
      /\ ~Rotates => left.files = files /\ left.errors = 0
      /\ Rotates /\ left.errors = 0 => Len(left.files) <= KeepFiles
      /\ RowsOf(left.files) \subseteq RowsOf(files)
      /\ InOrder(files) => InOrder(left.files)
      /\ \A i \in DOMAIN left.files : \E j \in DOMAIN files : left.files[i] = files[j]
  BY LeftFacts
<1>2. \A i \in DOMAIN left.files : Cardinality(WholeRows(left.files[i])) <= FileRows
  BY <1>1 DEF DiskIInv
<1>3. inFile \in Nat /\ FileRows \in Nat /\ FileRows > 0 /\ was \in Nat /\ was + 1 <= FileRows /\ was + 0 <= FileRows
      /\ n \in {0, 1} /\ KeepFiles \in Nat /\ Len(left.files) \in Nat
  <2>1. inFile \in Nat /\ Len(left.files) \in Nat
    BY <1>1 DEF SinkTyped, Disk
  <2> QED
    BY <2>1, SinkSizes DEF Rotates
<1>4. CASE open /\ ~Rotates
  <2>1. left.files = files /\ files # <<>> /\ was = inFile /\ Cardinality(WholeRows(Last(files))) <= inFile
    BY <1>1, <1>4 DEF SinkTyped, DiskIInv
  <2>2. CASE wrote = <<>>
    <3>1. n = 0
      BY <2>2
    <3>2. fs = files
      BY <1>1, <1>4, <2>1, <2>2, SameFiles DEF Grown
    <3> QED
      BY <1>1, <1>2, <1>3, <1>4, <2>1, <2>2, <3>1, <3>2
  <2>3. CASE wrote = <<r>>
    <3>1. fs = Append(Front(files), Last(files) \o <<r>>)
      BY <1>4, <2>1, <2>3 DEF Grown
    <3> HIDE DEF fs
    <3>2. /\ fs \in Disk /\ fs # <<>> /\ Len(fs) = Len(files)
          /\ Last(files) \in Seq(RowSet) /\ Last(fs) = Last(files) \o <<r>>
          /\ RowsOf(fs) = RowsOf(files) \cup {r}
          /\ \A i \in DOMAIN fs : fs[i] = Last(files) \o <<r>> \/ (i \in DOMAIN files /\ fs[i] = files[i])
          /\ (InOrder(files) /\ \A q \in RowsOf(files) : Earlier(q, r)) => InOrder(fs)
      BY <1>1, <2>1, <3>1, OneMoreRow
    <3>3. Cardinality(WholeRows(Last(fs))) <= was + n
      BY <1>3, <2>1, <2>3, <3>2, WholeCounts
    <3>4. \A i \in DOMAIN fs : Cardinality(WholeRows(fs[i])) <= FileRows
      <4>1. SUFFICES ASSUME NEW i \in DOMAIN fs PROVE Cardinality(WholeRows(fs[i])) <= FileRows
        OBVIOUS
      <4>2. CASE fs[i] = Last(files) \o <<r>>
        <5>1. Cardinality(WholeRows(Last(files) \o <<r>>)) \in Nat
          BY <3>2, LongerFile, WholeCounts
        <5> QED
          BY <1>3, <3>2, <3>3, <4>2, <5>1
      <4>3. CASE i \in DOMAIN files /\ fs[i] = files[i]
        BY <1>2, <2>1, <4>3
      <4> QED
        BY <3>2, <4>2, <4>3
    <3> QED
      BY <1>1, <1>4, <2>3, <3>2, <3>3, <3>4 DEF fs
  <2> QED
    BY <2>2, <2>3
<1>5. CASE ~(open /\ ~Rotates)
  <2>1. fs = Append(left.files, wrote)
    BY <1>5 DEF Grown
  <2>2. wrote \in Seq(RowSet) /\ Len(wrote) <= 1 /\ ToSet(wrote) \subseteq {r} /\ (wrote = <<r>> => ToSet(wrote) = {r})
    <3>1. CASE wrote = <<>>
      BY <3>1, EmptyFile
    <3>2. CASE wrote = <<r>>
      <4>1. <<r>> \in Seq(RowSet) /\ Len(<<r>>) = 1 /\ DOMAIN <<r>> = {1} /\ <<r>>[1] = r
        OBVIOUS
      <4>2. ToSet(<<r>>) = {r}
        BY <4>1 DEF ToSet
      <4> QED
        BY <3>2, <4>1, <4>2
    <3> QED
      BY <3>1, <3>2
  <2>3. Cardinality(WholeRows(wrote)) <= n /\ Cardinality(WholeRows(wrote)) \in Nat
    <3>1. CASE wrote = <<>>
      BY <1>3, <3>1, EmptyFile
    <3>2. CASE wrote = <<r>>
      <4>1. Cardinality(WholeRows(<<>> \o <<r>>)) = 0 + (IF r.whole THEN 1 ELSE 0)
        BY EmptyFile, WholeCounts
      <4>2. <<>> \o <<r>> = wrote /\ n = IF r.whole THEN 1 ELSE 0
        BY <3>2, EmptyFile
      <4> QED
        BY <4>1, <4>2
    <3> QED
      BY <3>1, <3>2
  <2> HIDE DEF fs
  <2>4. /\ fs \in Disk /\ fs # <<>> /\ Len(fs) = Len(left.files) + 1 /\ Last(fs) = wrote
        /\ RowsOf(fs) = RowsOf(left.files) \cup ToSet(wrote)
        /\ \A i \in DOMAIN fs : fs[i] = wrote \/ (i \in DOMAIN left.files /\ fs[i] = left.files[i])
        /\ (InOrder(left.files) /\ Len(wrote) <= 1
              /\ \A q \in RowsOf(left.files), s \in ToSet(wrote) : Earlier(q, s)) => InOrder(fs)
    BY <1>1, <2>1, <2>2, OneMoreFile
  <2>5. Cardinality(WholeRows(Last(fs))) <= was + n
    BY <1>3, <2>3, <2>4
  <2>6. \A i \in DOMAIN fs : Cardinality(WholeRows(fs[i])) <= FileRows
    BY <1>2, <1>3, <2>3, <2>4
  <2>7. ASSUME InOrder(files), \A q \in RowsOf(files) : Earlier(q, r)
        PROVE  InOrder(fs)
    BY <1>1, <2>2, <2>4, <2>7
  <2>8. Rotates /\ left.errors = 0 => Len(fs) <= KeepFiles + 1
    BY <1>1, <1>3, <2>4
  <2> QED
    BY <1>1, <1>5, <2>2, <2>4, <2>5, <2>6, <2>7, <2>8 DEF fs
<1> QED
  BY <1>4, <1>5

\* Rows of this process hold frames that were numbered, and so do the queue and the hand.
OrderIInv ==
    /\ RowsInOrder
    /\ \A r \in RowsOf(files) : r.life <= life /\ (r.life = life => r.frame <= frame)
    /\ held <= frame
    /\ \A i \in DOMAIN backlog : backlog[i] <= frame

\* With no error the newest frame is the last that waits, or the one held, or on disk.
NewestIInv ==
    (stats.errors = 0 /\ frame > 0) =>
        \/ backlog # <<>> /\ backlog[Len(backlog)] = frame
        \/ backlog = <<>> /\ held = frame
        \/ /\ backlog = <<>> /\ held = 0
           /\ [life |-> life, frame |-> frame, whole |-> TRUE] \in RowsOf(files)

SinkIInv == /\ SinkTyped /\ FramesAreAccounted /\ OrderIInv /\ NewestIInv
            /\ DiskIInv /\ NoFrameWaits

\* A row is of the frame held.
LEMMA LineFacts ==
    ASSUME SinkTyped, NEW w \in BOOLEAN
    PROVE  /\ Line(w) \in RowSet
           /\ Line(w).life = life /\ Line(w).frame = held /\ Line(w).whole = w
  BY DEF SinkTyped, Line, RowSet

\* The row to come is later than every row on disk.
LEMMA LineIsLast ==
    ASSUME SinkTyped, OrderIInv, writer = "writes", NEW w \in BOOLEAN
    PROVE  \A q \in RowsOf(files) : Earlier(q, Line(w))
<1>1. SUFFICES ASSUME NEW q \in RowsOf(files) PROVE Earlier(q, Line(w))
  OBVIOUS
<1>2. held \in {held} \ {0}
  BY DEF SinkTyped
<1>3. q.life = life => q.frame < held
  BY <1>2 DEF OrderIInv, RowsInOrder
<1>4. q \in RowSet
  BY DEF SinkTyped, Disk, RowsOf, ToSet
<1>5. q.life \in Nat /\ life \in Nat /\ q.life <= life
  BY <1>4 DEF OrderIInv, SinkTyped, RowSet
<1>6. Line(w).life = life /\ Line(w).frame = held
  BY LineFacts
<1> HIDE DEF Line
<1> QED
  BY <1>3, <1>5, <1>6 DEF Earlier

\* A write of this process, whole or in part.
LEMMA WriteFacts ==
    ASSUME SinkIInv, writer = "writes", NEW left \in Leftovers, NEW w \in BOOLEAN,
           NEW wrote \in {<<>>, <<Line(w)>>}
    PROVE  LET fs == Grown(left.files, wrote)
               n  == IF wrote = <<Line(w)>> /\ w THEN 1 ELSE 0
           IN  /\ fs \in Disk /\ fs # <<>> /\ InOrder(fs) /\ left.errors \in {0, 1}
               /\ ~Rotates => left.errors = 0
               /\ \A q \in RowsOf(fs) :
                    q \in RowsOf(files) \/ (q.life = life /\ q.frame = held)
               /\ wrote = <<Line(w)>> => [life |-> life, frame |-> held, whole |-> w] \in RowsOf(fs)
               /\ \A i \in DOMAIN fs : Cardinality(WholeRows(fs[i])) <= FileRows
               /\ Cardinality(WholeRows(Last(fs))) <= (IF Rotates THEN 0 ELSE inFile) + n
               /\ Rotates /\ left.errors = 0 => Len(fs) <= KeepFiles + 1
               /\ open /\ ~Rotates => Len(fs) = Len(files)
<1> DEFINE fs == Grown(left.files, wrote)
           n  == IF wrote = <<Line(w)>> /\ w THEN 1 ELSE 0
           r  == Line(w)
<1>1. SinkTyped /\ DiskIInv /\ OrderIInv /\ InOrder(files)
  BY DEF SinkIInv, OrderIInv, RowsInOrder
<1>2. r \in RowSet /\ r.life = life /\ r.frame = held /\ r.whole = w
  BY <1>1, LineFacts
<1>3. r = [life |-> life, frame |-> held, whole |-> w]
  BY DEF Line
<1>4. \A q \in RowsOf(files) : Earlier(q, r)
  BY <1>1, LineIsLast
<1>5. left.errors \in {0, 1} /\ (~Rotates => left.errors = 0)
  BY <1>1, LeftFacts
<1>6. wrote \in {<<>>, <<r>>}
  OBVIOUS
<1>7. n = IF wrote = <<r>> /\ r.whole THEN 1 ELSE 0
  BY <1>2
<1> HIDE DEF n, r
<1>8. /\ fs \in Disk /\ fs # <<>>
      /\ RowsOf(fs) \subseteq RowsOf(files) \cup {r}
      /\ wrote = <<r>> => r \in RowsOf(fs)
      /\ InOrder(fs)
      /\ \A i \in DOMAIN fs : Cardinality(WholeRows(fs[i])) <= FileRows
      /\ Cardinality(WholeRows(Last(fs))) <= (IF Rotates THEN 0 ELSE inFile)
                                               + (IF wrote = <<r>> /\ r.whole THEN 1 ELSE 0)
      /\ Rotates /\ left.errors = 0 => Len(fs) <= KeepFiles + 1
      /\ open /\ ~Rotates => Len(fs) = Len(files)
  <2>1. /\ fs \in Disk /\ fs # <<>>
        /\ RowsOf(fs) \subseteq RowsOf(files) \cup {r}
        /\ wrote = <<r>> => r \in RowsOf(fs)
        /\ InOrder(fs)
    BY <1>1, <1>2, <1>4, <1>6, GrownFacts
  <2>2. /\ \A i \in DOMAIN fs : Cardinality(WholeRows(fs[i])) <= FileRows
        /\ Rotates /\ left.errors = 0 => Len(fs) <= KeepFiles + 1
        /\ open /\ ~Rotates => Len(fs) = Len(files)
    <3>1. \A i \in DOMAIN fs : Cardinality(WholeRows(fs[i])) <= FileRows
      BY <1>1, <1>2, <1>6, GrownFacts
    <3>2. Rotates /\ left.errors = 0 => Len(fs) <= KeepFiles + 1
      BY <1>1, <1>2, <1>6, GrownFacts
    <3>3. ASSUME open, ~Rotates PROVE Len(fs) = Len(files)
      <4>1. left.files = files /\ files # <<>> /\ files \in Disk
        BY <1>1, <3>3, LeftFacts DEF SinkTyped
      <4>2. Len(Append(Front(files), Last(files) \o <<r>>)) = Len(files)
        BY <1>2, <4>1, OneMoreRow
      <4>3. Len(Append(Front(files), Last(files) \o <<>>)) = Len(files)
        BY <4>1, SameFiles
      <4>4. fs = Append(Front(files), Last(files) \o wrote)
        BY <3>3, <4>1 DEF Grown
      <4> HIDE DEF fs
      <4> QED
        BY <1>6, <4>2, <4>3, <4>4
    <3> QED
      BY <3>1, <3>2, <3>3
  <2>3. Cardinality(WholeRows(Last(fs))) <= (IF Rotates THEN 0 ELSE inFile)
                                               + (IF wrote = <<r>> /\ r.whole THEN 1 ELSE 0)
    BY <1>1, <1>2, <1>6, GrownFacts
  <2> QED
    BY <2>1, <2>2, <2>3
<1> HIDE DEF fs
<1>9. \A q \in RowsOf(fs) : q \in RowsOf(files) \/ (q.life = life /\ q.frame = held)
  BY <1>2, <1>8
<1>10. wrote = <<r>> => [life |-> life, frame |-> held, whole |-> w] \in RowsOf(fs)
  BY <1>3, <1>8
<1>11. Cardinality(WholeRows(Last(fs))) <= (IF Rotates THEN 0 ELSE inFile) + n
  BY <1>7, <1>8
<1> QED
  BY <1>1, <1>5, <1>8, <1>9, <1>10, <1>11 DEF fs, n, r

\* The queue with room for one more, and without its oldest.
LEMMA RoomFacts ==
    ASSUME SinkTyped
    PROVE  /\ Room \in Seq(Nat \ {0}) /\ Len(Room) < QueueSize
           /\ Len(Room) = Len(backlog) - (IF Full THEN 1 ELSE 0)
           /\ \E k \in {0, 1} : \A i \in 1 .. Len(Room) : i + k \in 1 .. Len(backlog) /\ Room[i] = backlog[i + k]
<1>1. backlog \in Seq(Nat \ {0}) /\ Len(backlog) \in Nat /\ Len(backlog) <= QueueSize /\ QueueSize \in Nat /\ QueueSize > 0
  BY SinkSizes DEF SinkTyped
<1>2. CASE Full
  <2>1. Room = Tail(backlog) /\ backlog # <<>> /\ Len(backlog) = QueueSize
    BY <1>1, <1>2 DEF Room, Full
  <2>2. /\ Tail(backlog) \in Seq(Nat \ {0}) /\ Len(Tail(backlog)) = Len(backlog) - 1
        /\ \A i \in 1 .. Len(backlog) - 1 : Tail(backlog)[i] = backlog[i + 1]
    BY <1>1, <2>1
  <2> QED
    BY <1>1, <1>2, <2>1, <2>2
<1>3. CASE ~Full
  <2>1. Room = backlog /\ Len(backlog) < QueueSize
    BY <1>1, <1>3 DEF Room, Full
  <2> QED
    BY <1>1, <1>3, <2>1
<1> QED
  BY <1>2, <1>3

\* Neither a frame nor the disk.
LEMMA SameSink ==
    ASSUME SinkIInv, UNCHANGED <<frame, held, backlog, diskVars, countVars, life>>
    PROVE  FramesAreAccounted' /\ OrderIInv' /\ NewestIInv' /\ DiskIInv'
<1> USE DEF SinkIInv, diskVars, countVars
<1>1. FramesAreAccounted'
  BY DEF FramesAreAccounted
<1>2. OrderIInv'
  BY DEF OrderIInv, RowsInOrder
<1>3. NewestIInv'
  BY DEF NewestIInv
<1>4. DiskIInv'
  BY DEF DiskIInv
<1> QED
  BY <1>1, <1>2, <1>3, <1>4

\* The frame held becomes a row, or none.
LEMMA HandEmptied ==
    ASSUME SinkIInv, writer = "writes", UNCHANGED <<frame, backlog, life>>, held' = 0, InOrder(files'),
           \A q \in RowsOf(files') : q \in RowsOf(files) \/ (q.life = life /\ q.frame = held)
    PROVE  OrderIInv'
<1> USE DEF SinkIInv
<1>1. \A r \in RowsOf(files') : r.life <= life /\ (r.life = life => r.frame <= frame)
  BY DEF OrderIInv, SinkTyped
<1>2. ASSUME NEW r \in RowsOf(files'), NEW k \in ToSet(backlog), r.life = life PROVE r.frame < k
  <2>1. CASE r \in RowsOf(files)
    BY <1>2, <2>1 DEF OrderIInv, RowsInOrder
  <2>2. CASE r.life = life /\ r.frame = held
    <3>1. PICK i \in DOMAIN backlog : k = backlog[i]
      BY <1>2 DEF ToSet
    <3> QED
      BY <2>2, <3>1 DEF OrderIInv, RowsInOrder
  <2> QED
    BY <1>2, <2>1, <2>2
<1>3. \A r \in RowsOf(files'), k \in ToSet(backlog') \cup ({held'} \ {0}) : r.life = life' => r.frame < k
  <2>1. ToSet(backlog') \cup ({held'} \ {0}) = ToSet(backlog) /\ life' = life
    BY DEF ToSet
  <2> QED
    BY <1>2, <2>1
<1>4. \A i \in DOMAIN backlog : held' < backlog[i]
  BY DEF SinkTyped
<1>5. RowsInOrder'
  BY <1>3, <1>4 DEF OrderIInv, RowsInOrder
<1>6. held' <= frame'
  BY DEF SinkTyped
<1> QED
  BY <1>1, <1>5, <1>6 DEF OrderIInv

LEMMA RowTypes ==
    ASSUME SinkTyped
    PROVE  \A r \in RowsOf(files) : r \in RowSet /\ r.life \in Nat /\ r.frame \in Nat
<1>1. \A r \in RowsOf(files) : r \in RowSet
  BY DEF SinkTyped, Disk, RowsOf, ToSet
<1> QED
  BY <1>1 DEF RowSet

LEMMA SinkInitially == SinkInit => SinkIInv
<1> SUFFICES ASSUME SinkInit PROVE SinkIInv
  OBVIOUS
<1> USE SinkSizes DEF SinkInit
<1>1. SinkTyped
  <2>1. <<>> \in Disk /\ <<>> \in Seq(Nat \ {0}) /\ Len(<<>>) = 0
    BY DEF Disk
  <2>2. stats \in [written : Nat, dropped : Nat, errors : Nat] /\ spared \in Nat
    <3>1. (IF path THEN 0 ELSE 1) \in Nat
      OBVIOUS
    <3> QED
      BY <3>1
  <2>3. files \in Disk /\ backlog \in Seq(Nat \ {0}) /\ Len(backlog) <= QueueSize
    BY <2>1
  <2> QED
    BY <2>2, <2>3 DEF SinkTyped
<1>2. FramesAreAccounted
  <2>1. stats.errors - spared = 0 /\ stats.written = 0 /\ stats.dropped = 0 /\ Len(backlog) = 0
    BY DEF SinkInit
  <2> QED
    BY <2>1 DEF FramesAreAccounted
<1>3. RowsOf(files) = {} /\ InOrder(files) /\ DOMAIN backlog = {} /\ ToSet(backlog) = {} /\ DOMAIN files = {}
  BY DEF RowsOf, ToSet, InOrder
<1>4. OrderIInv
  BY <1>3 DEF OrderIInv, RowsInOrder
<1>5. NewestIInv /\ DiskIInv /\ NoFrameWaits
  BY <1>3 DEF NewestIInv, DiskIInv, NoFrameWaits
<1> QED
  BY <1>1, <1>2, <1>4, <1>5 DEF SinkIInv

LEMMA OfferKeeps == SinkIInv /\ Offer => SinkIInv'
<1> SUFFICES ASSUME SinkIInv, Offer PROVE SinkIInv'
  OBVIOUS
<1> USE DEF SinkIInv
<1> DEFINE room == Room
           next == frame + 1
           pushed == IF Full THEN 1 ELSE 0
<1>1. PICK k \in {0, 1} :
        /\ room \in Seq(Nat \ {0}) /\ Len(room) < QueueSize
        /\ Len(room) = Len(backlog) - pushed
        /\ \A i \in 1 .. Len(room) : i + k \in 1 .. Len(backlog) /\ room[i] = backlog[i + k]
  BY RoomFacts
<1>2. /\ frame' = next /\ backlog' = Append(room, next) /\ producer' = "signals"
      /\ stats' = [stats EXCEPT !.dropped = @ + pushed]
      /\ UNCHANGED <<wake, stopped, writer, final, held, diskVars, spared, life, cut>>
  <2>1. stats' = [stats EXCEPT !.dropped = IF Full THEN @ + 1 ELSE @] /\ stats.dropped \in Nat
    BY DEF Offer, SinkTyped
  <2>2. stats' = [stats EXCEPT !.dropped = @ + pushed]
    BY <2>1
  <2> QED
    BY <2>2 DEF Offer
<1>3. /\ frame \in Nat /\ next = frame + 1 /\ next \in Nat \ {0} /\ pushed \in {0, 1}
      /\ Len(backlog) \in Nat /\ DOMAIN backlog = 1 .. Len(backlog)
      /\ \A i \in DOMAIN backlog : backlog[i] \in Nat
  BY DEF SinkTyped
<1> HIDE DEF room, next, pushed
<1>4. /\ Len(room) \in Nat /\ backlog' \in Seq(Nat \ {0}) /\ Len(backlog') = Len(room) + 1
      /\ DOMAIN backlog' = 1 .. Len(room) + 1
      /\ \A i \in 1 .. Len(room) : backlog'[i] = room[i]
      /\ backlog'[Len(room) + 1] = next /\ backlog' # <<>>
  BY <1>1, <1>2, <1>3
<1>5. SinkTyped'
  <2>1. Len(backlog') <= QueueSize
    BY <1>1, <1>3, <1>4, SinkSizes
  <2>2. stats' \in [written : Nat, dropped : Nat, errors : Nat]
    <3>1. stats.dropped \in Nat /\ stats.dropped + pushed \in Nat
      BY <1>3 DEF SinkTyped
    <3> QED
      BY <1>2, <3>1 DEF SinkTyped
  <2> QED
    BY <1>2, <1>3, <1>4, <2>1, <2>2 DEF SinkTyped, diskVars
<1>6. FramesAreAccounted'
  <2>1. /\ stats'.written = stats.written /\ stats'.errors = stats.errors
        /\ stats'.dropped = stats.dropped + pushed
        /\ stats.written \in Nat /\ stats.dropped \in Nat /\ stats.errors \in Nat /\ spared \in Nat
    BY <1>2 DEF SinkTyped
  <2>2. Len(backlog') = (Len(backlog) + 1) - pushed
    BY <1>1, <1>3, <1>4
  <2> DEFINE hand == IF held = 0 THEN 0 ELSE 1
  <2>3. hand \in {0, 1} /\ hand = IF held' = 0 THEN 0 ELSE 1
    BY <1>2
  <2>4. frame = stats.written + stats.dropped + (stats.errors - spared) + Len(backlog) + hand
    BY DEF FramesAreAccounted
  <2>5. frame' = next /\ spared' = spared
    BY <1>2
  <2> HIDE DEF hand
  <2>6. frame' = stats'.written + stats'.dropped + (stats'.errors - spared') + Len(backlog') + hand
    <3> DEFINE w == stats.written
               d == stats.dropped
               e == stats.errors
               l == Len(backlog)
    <3>1. w \in Nat /\ d \in Nat /\ e \in Nat /\ l \in Nat /\ spared \in Nat
      BY <1>3, <2>1
    <3>2. frame = w + d + (e - spared) + l + hand
      BY <2>4
    <3>3. stats'.written = w /\ stats'.errors = e /\ stats'.dropped = d + pushed /\ Len(backlog') = (l + 1) - pushed
      BY <2>1, <2>2
    <3> HIDE DEF w, d, e, l
    <3>4. frame + 1 = w + (d + pushed) + (e - spared) + ((l + 1) - pushed) + hand
      BY <1>3, <2>3, <3>1, <3>2
    <3> QED
      BY <1>3, <2>5, <3>3, <3>4
  <2> QED
    BY <2>3, <2>6 DEF FramesAreAccounted
<1>7. \A i \in DOMAIN backlog' : (i = Len(room) + 1 /\ backlog'[i] = next)
          \/ (i \in 1 .. Len(room) /\ i + k \in DOMAIN backlog /\ backlog'[i] = backlog[i + k])
  <2>1. SUFFICES ASSUME NEW i \in DOMAIN backlog'
                 PROVE  (i = Len(room) + 1 /\ backlog'[i] = next)
                          \/ (i \in 1 .. Len(room) /\ i + k \in DOMAIN backlog /\ backlog'[i] = backlog[i + k])
    OBVIOUS
  <2>2. i = Len(room) + 1 \/ i \in 1 .. Len(room)
    BY <1>4
  <2>3. i \in 1 .. Len(room) => i + k \in DOMAIN backlog /\ room[i] = backlog[i + k]
    BY <1>1, <1>3
  <2> QED
    BY <1>4, <2>2, <2>3
<1>8. OrderIInv'
  <2>1. \A r \in RowsOf(files') : r.life <= life' /\ (r.life = life' => r.frame <= frame')
    <3>1. SUFFICES ASSUME NEW r \in RowsOf(files) PROVE r.life <= life /\ (r.life = life => r.frame <= next)
      BY <1>2 DEF diskVars
    <3>2. r.frame \in Nat
      BY <3>1, RowTypes
    <3> QED
      BY <1>3, <3>2 DEF OrderIInv
  <2>2. held' <= frame' /\ \A i \in DOMAIN backlog' : backlog'[i] <= frame' /\ held' < backlog'[i]
    <3>1. held <= frame /\ held \in Nat /\ held' = held /\ frame' = frame + 1
      BY <1>2, <1>3 DEF OrderIInv, SinkTyped
    <3>2. \A i \in DOMAIN backlog : backlog[i] <= frame /\ held < backlog[i]
      BY DEF OrderIInv, RowsInOrder
    <3>3. \A i \in DOMAIN backlog' : backlog'[i] = frame + 1 \/ \E j \in DOMAIN backlog : backlog'[i] = backlog[j]
      BY <1>3, <1>7
    <3>4. SUFFICES ASSUME NEW i \in DOMAIN backlog' PROVE backlog'[i] <= frame' /\ held' < backlog'[i]
      BY <1>3, <3>1
    <3> QED
      BY <1>3, <3>1, <3>2, <3>3
  <2>3. \A i, j \in DOMAIN backlog' : i < j => backlog'[i] < backlog'[j]
    <3>1. SUFFICES ASSUME NEW i \in DOMAIN backlog', NEW j \in DOMAIN backlog', i < j
                   PROVE  backlog'[i] < backlog'[j]
      OBVIOUS
    <3>2. i \in 1 .. Len(room) /\ i + k \in DOMAIN backlog /\ backlog'[i] = backlog[i + k]
      BY <1>3, <1>4, <1>7, <3>1
    <3>3. CASE j = Len(room) + 1 /\ backlog'[j] = next
      BY <1>3, <3>2, <3>3 DEF OrderIInv
    <3>4. CASE j + k \in DOMAIN backlog /\ backlog'[j] = backlog[j + k]
      <4>1. i + k < j + k
        BY <1>4, <3>1
      <4> QED
        BY <3>2, <3>4, <4>1 DEF OrderIInv, RowsInOrder
    <3> QED
      BY <1>7, <3>3, <3>4
  <2>4. \A r \in RowsOf(files'), n \in ToSet(backlog') \cup ({held'} \ {0}) : r.life = life' => r.frame < n
    <3>1. SUFFICES ASSUME NEW r \in RowsOf(files), NEW n \in ToSet(backlog') \cup ({held} \ {0}), r.life = life
                   PROVE  r.frame < n
      BY <1>2 DEF diskVars
    <3>2. r.frame \in Nat /\ r.frame <= frame
      BY <3>1, RowTypes DEF OrderIInv
    <3>3. CASE n \in {held} \ {0}
      BY <3>1, <3>3 DEF OrderIInv, RowsInOrder
    <3>4. CASE n \in ToSet(backlog')
      <4>1. PICK i \in DOMAIN backlog' : n = backlog'[i]
        BY <3>4 DEF ToSet
      <4>2. n = next \/ n \in ToSet(backlog)
        BY <1>7, <4>1 DEF ToSet
      <4> QED
        BY <1>3, <3>1, <3>2, <4>2 DEF OrderIInv, RowsInOrder
    <3> QED
      BY <3>1, <3>3, <3>4
  <2>5. InOrder(files')
    BY <1>2 DEF diskVars, OrderIInv, RowsInOrder
  <2> QED
    BY <2>1, <2>2, <2>3, <2>4, <2>5 DEF OrderIInv, RowsInOrder
<1>9. NewestIInv'
  BY <1>2, <1>4 DEF NewestIInv
<1>10. DiskIInv' /\ NoFrameWaits'
  BY <1>2 DEF DiskIInv, NoFrameWaits, diskVars
<1> QED
  BY <1>5, <1>6, <1>8, <1>9, <1>10

LEMMA TakesKeeps == SinkIInv /\ Takes => SinkIInv'
<1> SUFFICES ASSUME SinkIInv, Takes PROVE SinkIInv'
  OBVIOUS
<1> USE DEF SinkIInv
<1>1. /\ writer = "drains" /\ writer' = "writes" /\ held = 0 /\ backlog # <<>>
      /\ held' = Head(backlog) /\ backlog' = Tail(backlog)
      /\ UNCHANGED <<frame, producer, wake, stopped, final, diskVars, countVars, life, cut>>
  BY DEF Takes, SinkTyped
<1>2. backlog \in Seq(Nat \ {0}) /\ Len(backlog) \in Nat /\ Len(backlog) > 0 /\ DOMAIN backlog = 1 .. Len(backlog)
  BY <1>1 DEF SinkTyped
<1>3. /\ held' = backlog[1] /\ held' \in Nat /\ held' # 0
      /\ backlog' \in Seq(Nat \ {0}) /\ Len(backlog') = Len(backlog) - 1
      /\ DOMAIN backlog' = 1 .. Len(backlog) - 1
      /\ \A i \in DOMAIN backlog' : i + 1 \in DOMAIN backlog /\ backlog'[i] = backlog[i + 1]
  BY <1>1, <1>2
<1>4. SinkTyped'
  BY <1>1, <1>2, <1>3, SinkSizes DEF SinkTyped, diskVars, countVars
<1>5. FramesAreAccounted'
  <2>1. /\ stats.written \in Nat /\ stats.dropped \in Nat /\ stats.errors \in Nat /\ spared \in Nat /\ frame \in Nat
        /\ stats' = stats /\ spared' = spared /\ frame' = frame
    BY <1>1 DEF SinkTyped, countVars
  <2> QED
    BY <1>1, <1>2, <1>3, <2>1 DEF FramesAreAccounted
<1>6. OrderIInv'
  <2>1. held' <= frame' /\ \A i \in DOMAIN backlog' : backlog'[i] <= frame'
    BY <1>1, <1>2, <1>3 DEF OrderIInv
  <2>2. \A i \in DOMAIN backlog' : held' < backlog'[i]
    <3>1. SUFFICES ASSUME NEW i \in DOMAIN backlog' PROVE held' < backlog'[i]
      OBVIOUS
    <3>2. 1 < i + 1 /\ 1 \in DOMAIN backlog /\ i + 1 \in DOMAIN backlog
      BY <1>2, <1>3
    <3> QED
      BY <1>3, <3>2 DEF OrderIInv, RowsInOrder
  <2>3. \A i, j \in DOMAIN backlog' : i < j => backlog'[i] < backlog'[j]
    <3>1. SUFFICES ASSUME NEW i \in DOMAIN backlog', NEW j \in DOMAIN backlog', i < j
                   PROVE  backlog'[i] < backlog'[j]
      OBVIOUS
    <3>2. i + 1 < j + 1
      BY <1>2, <1>3, <3>1
    <3> QED
      BY <1>3, <3>2 DEF OrderIInv, RowsInOrder
  <2>4. ToSet(backlog') \cup ({held'} \ {0}) \subseteq ToSet(backlog)
    BY <1>2, <1>3 DEF ToSet
  <2>5. \A r \in RowsOf(files'), n \in ToSet(backlog') \cup ({held'} \ {0}) : r.life = life' => r.frame < n
    BY <1>1, <2>4 DEF OrderIInv, RowsInOrder, diskVars
  <2>6. InOrder(files') /\ \A r \in RowsOf(files') : r.life <= life' /\ (r.life = life' => r.frame <= frame')
    BY <1>1 DEF OrderIInv, RowsInOrder, diskVars
  <2> QED
    BY <2>1, <2>2, <2>3, <2>5, <2>6 DEF OrderIInv, RowsInOrder
<1>7. NewestIInv'
  <2>1. SUFFICES ASSUME stats.errors = 0, frame > 0
                 PROVE  \/ backlog' # <<>> /\ backlog'[Len(backlog')] = frame
                        \/ backlog' = <<>> /\ held' = frame
    BY <1>1 DEF NewestIInv, countVars
  <2>2. backlog[Len(backlog)] = frame
    BY <1>1, <2>1 DEF NewestIInv
  <2>3. CASE Len(backlog) = 1
    BY <1>2, <1>3, <2>2, <2>3
  <2>4. CASE Len(backlog) # 1
    <3>1. Len(backlog') \in DOMAIN backlog' /\ backlog' # <<>>
      BY <1>2, <1>3, <2>4
    <3>2. backlog'[Len(backlog')] = backlog[Len(backlog') + 1] /\ Len(backlog') + 1 = Len(backlog)
      <4> DEFINE m == Len(backlog')
      <4>1. m = Len(backlog) - 1 /\ m \in DOMAIN backlog'
        BY <1>3, <3>1
      <4>2. backlog'[m] = backlog[m + 1]
        BY <1>3, <4>1
      <4> HIDE DEF m
      <4>3. m + 1 = Len(backlog)
        BY <1>2, <4>1
      <4> QED
        BY <4>2, <4>3 DEF m
    <3> QED
      BY <2>2, <3>1, <3>2
  <2> QED
    BY <2>3, <2>4
<1>8. DiskIInv' /\ NoFrameWaits'
  BY <1>1 DEF DiskIInv, NoFrameWaits, diskVars
<1> QED
  BY <1>4, <1>5, <1>6, <1>7, <1>8

LEMMA WriteSucceedsKeeps == SinkIInv /\ WriteSucceeds => SinkIInv'
<1> SUFFICES ASSUME SinkIInv, WriteSucceeds PROVE SinkIInv'
  OBVIOUS
<1> USE DEF SinkIInv
<1> DEFINE r == Line(TRUE)
<1>1. PICK left \in Leftovers :
        /\ Opened(left, <<r>>)
        /\ stats' = [stats EXCEPT !.written = @ + 1, !.errors = @ + left.errors]
  BY DEF WriteSucceeds
<1> DEFINE fs == Grown(left.files, <<r>>)
           was == IF Rotates THEN 0 ELSE inFile
<1>2. /\ writer = "writes" /\ held' = 0 /\ writer' = "drains"
      /\ inFile' = IF Rotates THEN 1 ELSE inFile + 1
      /\ UNCHANGED <<frame, producer, backlog, wake, stopped, final, path, life, cut>>
  BY DEF WriteSucceeds
<1>3. /\ files' = fs /\ open' = TRUE /\ spared' = spared + left.errors
      /\ pruned' = IF Rotates THEN left.errors = 0 ELSE pruned
  BY <1>1 DEF Opened
<1>4. /\ fs \in Disk /\ fs # <<>> /\ InOrder(fs) /\ left.errors \in {0, 1}
      /\ ~Rotates => left.errors = 0
      /\ \A q \in RowsOf(fs) : q \in RowsOf(files) \/ (q.life = life /\ q.frame = held)
      /\ [life |-> life, frame |-> held, whole |-> TRUE] \in RowsOf(fs)
      /\ \A i \in DOMAIN fs : Cardinality(WholeRows(fs[i])) <= FileRows
      /\ Cardinality(WholeRows(Last(fs))) <= was + 1
      /\ Rotates /\ left.errors = 0 => Len(fs) <= KeepFiles + 1
      /\ open /\ ~Rotates => Len(fs) = Len(files)
  <2>1. <<r>> \in {<<>>, <<r>>} /\ TRUE \in BOOLEAN /\ (IF <<r>> = <<r>> /\ TRUE THEN 1 ELSE 0) = 1
    OBVIOUS
  <2> HIDE DEF Line
  <2> QED
    BY <1>2, <2>1, WriteFacts, Zenon
<1>5. /\ stats'.written = stats.written + 1 /\ stats'.errors = stats.errors + left.errors
      /\ stats'.dropped = stats.dropped
      /\ stats.written \in Nat /\ stats.dropped \in Nat /\ stats.errors \in Nat /\ spared \in Nat
      /\ stats' \in [written : Nat, dropped : Nat, errors : Nat]
  <2>1. stats.written + 1 \in Nat /\ stats.errors + left.errors \in Nat
    BY <1>4 DEF SinkTyped
  <2> QED
    BY <1>1, <1>4, <2>1 DEF SinkTyped
<1>6. inFile \in Nat /\ inFile' = was + 1
  BY <1>2 DEF SinkTyped
<1>7. pruned' \in BOOLEAN /\ (pruned' => Len(files') <= KeepFiles + 1)
  BY <1>3, <1>4 DEF DiskIInv, SinkTyped
<1> HIDE DEF fs, r, was
<1>8. SinkTyped'
  BY <1>2, <1>3, <1>4, <1>5, <1>6, <1>7 DEF SinkTyped
<1>9. FramesAreAccounted'
  <2>1. held # 0
    BY <1>2 DEF SinkTyped
  <2>2. frame = stats.written + stats.dropped + (stats.errors - spared) + Len(backlog) + 1
    BY <2>1 DEF FramesAreAccounted
  <2>3. Len(backlog) \in Nat
    BY DEF SinkTyped
  <2>4. frame = (stats.written + 1) + stats.dropped
                 + ((stats.errors + left.errors) - (spared + left.errors)) + Len(backlog) + 0
    <3> DEFINE w == stats.written
               d == stats.dropped
               e == stats.errors
               l == Len(backlog)
               x == left.errors
    <3>1. w \in Nat /\ d \in Nat /\ e \in Nat /\ l \in Nat /\ x \in Nat /\ spared \in Nat
      BY <1>4, <1>5, <2>3
    <3>2. frame = w + d + (e - spared) + l + 1
      BY <2>2
    <3> HIDE DEF w, d, e, l, x
    <3>3. frame = (w + 1) + d + ((e + x) - (spared + x)) + l + 0
      BY <3>1, <3>2
    <3> QED
      BY <3>3 DEF w, d, e, l, x
  <2> QED
    BY <1>2, <1>3, <1>5, <2>4 DEF FramesAreAccounted
<1>10. OrderIInv'
  BY <1>2, <1>3, <1>4, HandEmptied
<1>11. NewestIInv'
  <2>1. SUFFICES ASSUME stats'.errors = 0, frame > 0
                 PROVE  \/ backlog # <<>> /\ backlog[Len(backlog)] = frame
                        \/ backlog = <<>> /\ [life |-> life, frame |-> frame, whole |-> TRUE] \in RowsOf(fs)
    BY <1>2, <1>3 DEF NewestIInv
  <2>2. stats.errors = 0
    BY <1>4, <1>5, <2>1
  <2>3. held # 0
    BY <1>2 DEF SinkTyped
  <2>4. (backlog # <<>> /\ backlog[Len(backlog)] = frame) \/ (backlog = <<>> /\ held = frame)
    BY <2>1, <2>2, <2>3 DEF NewestIInv
  <2> QED
    BY <1>4, <2>4
<1>12. DiskIInv'
  BY <1>3, <1>4, <1>6, <1>7 DEF DiskIInv
<1>13. NoFrameWaits'
  BY <1>2 DEF NoFrameWaits
<1> QED
  BY <1>8, <1>9, <1>10, <1>11, <1>12, <1>13

LEMMA WriteFailsKeeps == SinkIInv /\ WriteFails => SinkIInv'
<1> SUFFICES ASSUME SinkIInv, WriteFails PROVE SinkIInv'
  OBVIOUS
<1> USE DEF SinkIInv
<1>1. /\ writer = "writes" /\ held' = 0 /\ backlog' = backlog /\ cut' = TRUE
      /\ writer' \in {"ended", "drains", "waits"} /\ final' \in BOOLEAN
      /\ UNCHANGED <<frame, producer, wake, stopped, life>>
  <2>1. final' = (final \/ stopped)
    BY DEF WriteFails, Returns
  <2> QED
    BY <2>1 DEF WriteFails, AfterError, Returns
<1>2. held # 0 /\ Len(backlog) \in Nat /\ stats.written \in Nat /\ stats.dropped \in Nat
        /\ stats.errors \in Nat /\ spared \in Nat
        /\ frame = stats.written + stats.dropped + (stats.errors - spared) + Len(backlog) + 1
  <2>1. held # 0
    BY <1>1 DEF SinkTyped
  <2> QED
    BY <2>1 DEF SinkTyped, FramesAreAccounted
<1>3. NoFrameWaits'
  BY <1>1 DEF NoFrameWaits
<1>4. ASSUME NEW e \in {0, 1}, stats' = [stats EXCEPT !.errors = @ + e + 1], spared' = spared + e
      PROVE  /\ stats' \in [written : Nat, dropped : Nat, errors : Nat] /\ spared' \in Nat
             /\ FramesAreAccounted' /\ NewestIInv'
  <2>1. /\ stats'.written = stats.written /\ stats'.dropped = stats.dropped
        /\ stats'.errors = stats.errors + e + 1 /\ stats.errors + e + 1 \in Nat /\ spared + e \in Nat
        /\ stats' \in [written : Nat, dropped : Nat, errors : Nat]
    <3>1. stats.errors + e + 1 \in Nat /\ spared + e \in Nat
      BY <1>2, <1>4
    <3> QED
      BY <1>4, <3>1 DEF SinkTyped
  <2>2. frame = stats.written + stats.dropped + ((stats.errors + e + 1) - (spared + e)) + Len(backlog) + 0
    <3> DEFINE w == stats.written
               d == stats.dropped
               u == stats.errors
               l == Len(backlog)
    <3>1. w \in Nat /\ d \in Nat /\ u \in Nat /\ l \in Nat /\ spared \in Nat
      BY <1>2
    <3>2. frame = w + d + (u - spared) + l + 1
      BY <1>2
    <3> HIDE DEF w, d, u, l
    <3>3. frame = w + d + ((u + e + 1) - (spared + e)) + l + 0
      BY <1>4, <3>1, <3>2
    <3> QED
      BY <3>3 DEF w, d, u, l
  <2>3. FramesAreAccounted'
    BY <1>1, <1>4, <2>1, <2>2 DEF FramesAreAccounted
  <2>4. stats'.errors # 0
    BY <1>2, <1>4, <2>1
  <2> QED
    BY <1>4, <2>1, <2>3, <2>4 DEF NewestIInv
<1>5. CASE Error /\ UNCHANGED <<diskVars, spared>>
  <2>1. stats' = [stats EXCEPT !.errors = @ + 0 + 1] /\ spared' = spared + 0
    BY <1>2, <1>5 DEF Error
  <2>2. /\ stats' \in [written : Nat, dropped : Nat, errors : Nat] /\ spared' \in Nat
        /\ FramesAreAccounted' /\ NewestIInv'
    BY <1>4, <2>1
  <2>3. SinkTyped'
    BY <1>1, <1>5, <2>2 DEF SinkTyped, diskVars
  <2>4. OrderIInv'
    <3>1. InOrder(files) /\ files' = files
      BY <1>5 DEF OrderIInv, RowsInOrder, diskVars
    <3> QED
      BY <1>1, <3>1, HandEmptied
  <2>5. DiskIInv'
    BY <1>5 DEF DiskIInv, diskVars
  <2> QED
    BY <1>3, <2>2, <2>3, <2>4, <2>5
<1>6. CASE \E left \in Leftovers, wrote \in {<<>>, <<Line(FALSE)>>} :
             /\ Opened(left, wrote)
             /\ stats' = [stats EXCEPT !.errors = @ + left.errors + 1]
             /\ inFile' = IF Rotates THEN 0 ELSE inFile
             /\ UNCHANGED path
  <2>1. PICK left \in Leftovers, wrote \in {<<>>, <<Line(FALSE)>>} :
             /\ Opened(left, wrote)
             /\ stats' = [stats EXCEPT !.errors = @ + left.errors + 1]
             /\ inFile' = IF Rotates THEN 0 ELSE inFile
             /\ UNCHANGED path
    BY <1>6
  <2> DEFINE fs == Grown(left.files, wrote)
             was == IF Rotates THEN 0 ELSE inFile
  <2>2. /\ files' = fs /\ open' = TRUE /\ spared' = spared + left.errors
        /\ pruned' = IF Rotates THEN left.errors = 0 ELSE pruned
    BY <2>1 DEF Opened
  <2>3. /\ fs \in Disk /\ fs # <<>> /\ InOrder(fs) /\ left.errors \in {0, 1}
        /\ ~Rotates => left.errors = 0
        /\ \A q \in RowsOf(fs) : q \in RowsOf(files) \/ (q.life = life /\ q.frame = held)
        /\ \A i \in DOMAIN fs : Cardinality(WholeRows(fs[i])) <= FileRows
        /\ Cardinality(WholeRows(Last(fs))) <= was + 0
        /\ Rotates /\ left.errors = 0 => Len(fs) <= KeepFiles + 1
        /\ open /\ ~Rotates => Len(fs) = Len(files)
    <3>1. FALSE \in BOOLEAN /\ (IF wrote = <<Line(FALSE)>> /\ FALSE THEN 1 ELSE 0) = 0
      OBVIOUS
    <3> HIDE DEF Line
    <3> QED
      BY <1>1, <3>1, WriteFacts, Zenon
  <2>4. /\ stats' \in [written : Nat, dropped : Nat, errors : Nat] /\ spared' \in Nat
        /\ FramesAreAccounted' /\ NewestIInv'
    BY <1>4, <2>1, <2>2, <2>3
  <2>5. inFile' \in Nat /\ inFile' = was /\ was + 0 = was
    BY <2>1 DEF SinkTyped
  <2>6. pruned' \in BOOLEAN /\ (pruned' => Len(files') <= KeepFiles + 1)
    BY <2>2, <2>3 DEF DiskIInv, SinkTyped
  <2> HIDE DEF fs, was
  <2>7. SinkTyped'
    BY <1>1, <2>1, <2>2, <2>3, <2>4, <2>5, <2>6 DEF SinkTyped
  <2>8. OrderIInv'
    BY <1>1, <2>2, <2>3, HandEmptied
  <2>9. DiskIInv'
    BY <2>2, <2>3, <2>5, <2>6 DEF DiskIInv
  <2> QED
    BY <1>3, <2>4, <2>7, <2>8, <2>9
<1> QED
  BY <1>5, <1>6 DEF WriteFails

LEMMA RestartsKeep == SinkIInv /\ Restarts => SinkIInv'
<1> SUFFICES ASSUME SinkIInv, Restarts PROVE SinkIInv'
  OBVIOUS
<1> USE DEF SinkIInv
<1>1. /\ life' = life + 1 /\ path' \in BOOLEAN
      /\ stats' = [written |-> 0, dropped |-> 0, errors |-> IF path' THEN 0 ELSE 1]
      /\ spared' = stats'.errors
      /\ frame' = 0 /\ producer' = "ready" /\ backlog' = <<>> /\ held' = 0
      /\ wake' = FALSE /\ stopped' = FALSE /\ writer' = "waits" /\ final' = FALSE
      /\ open' = FALSE /\ inFile' = 0 /\ pruned' = FALSE /\ cut' = FALSE
  BY DEF Restarts
<1>2. /\ files' \in Disk /\ InOrder(files')
      /\ \A q \in RowsOf(files') : q.life <= life
      /\ \A i \in DOMAIN files' : Cardinality(WholeRows(files'[i])) <= FileRows
  <2>1. CASE files' = files
    BY <2>1 DEF SinkTyped, OrderIInv, RowsInOrder, DiskIInv
  <2>2. ASSUME writer = "writes", NEW left \in Leftovers, NEW w \in BOOLEAN, NEW wrote \in {<<>>, <<Line(w)>>},
               files' = Grown(left.files, wrote)
        PROVE  /\ files' \in Disk /\ InOrder(files')
               /\ \A q \in RowsOf(files') : q.life <= life
               /\ \A i \in DOMAIN files' : Cardinality(WholeRows(files'[i])) <= FileRows
    <3>1. /\ files' \in Disk /\ InOrder(files')
          /\ \A q \in RowsOf(files') : q \in RowsOf(files) \/ (q.life = life /\ q.frame = held)
          /\ \A i \in DOMAIN files' : Cardinality(WholeRows(files'[i])) <= FileRows
      <4> HIDE DEF SinkIInv, Line
      <4> QED
        BY <2>2, WriteFacts, Zenon
    <3> QED
      BY <3>1 DEF OrderIInv, SinkTyped
  <2>3. CASE files' # files
    <3>1. writer = "writes"
      BY <2>3 DEF Restarts
    <3>2. PICK left \in Leftovers, wrote \in {<<>>, <<Line(FALSE)>>, <<Line(TRUE)>>} : files' = Grown(left.files, wrote)
      BY <2>3 DEF Restarts, Line
    <3>3. \E w \in BOOLEAN : wrote \in {<<>>, <<Line(w)>>}
      <4> HIDE DEF Line
      <4>1. wrote = <<>> \/ wrote = <<Line(FALSE)>> \/ wrote = <<Line(TRUE)>>
        BY Zenon
      <4>2. TRUE \in BOOLEAN /\ FALSE \in BOOLEAN
        OBVIOUS
      <4> QED
        BY <4>1, <4>2, Zenon
    <3>4. PICK w \in BOOLEAN : wrote \in {<<>>, <<Line(w)>>}
      BY <3>3, Zenon
    <3> HIDE DEF Line
    <3> QED
      BY <2>2, <3>1, <3>2, <3>4, Zenon
  <2> QED
    BY <2>1, <2>3
<1>3. life \in Nat /\ life + 1 \in Nat
  BY DEF SinkTyped
<1>4. stats' \in [written : Nat, dropped : Nat, errors : Nat] /\ spared' \in Nat
        /\ stats'.written = 0 /\ stats'.dropped = 0 /\ stats'.errors - spared' = 0
  <2>1. (IF path' THEN 0 ELSE 1) \in Nat
    OBVIOUS
  <2> QED
    BY <1>1, <2>1
<1>5. backlog' \in Seq(Nat \ {0}) /\ Len(backlog') = 0 /\ DOMAIN backlog' = {} /\ ToSet(backlog') = {}
  BY <1>1 DEF ToSet
<1>6. SinkTyped'
  <2>1. Len(backlog') <= QueueSize
    BY <1>5, SinkSizes
  <2> QED
    BY <1>1, <1>2, <1>3, <1>4, <1>5, <2>1 DEF SinkTyped
<1>7. FramesAreAccounted'
  BY <1>1, <1>4, <1>5 DEF FramesAreAccounted
<1>8. OrderIInv'
  <2>1. \A q \in RowsOf(files') : q.life <= life' /\ q.life # life'
    <3>1. SUFFICES ASSUME NEW q \in RowsOf(files') PROVE q.life <= life + 1 /\ q.life # life + 1
      BY <1>1
    <3>2. q.life \in Nat
      <4>1. q \in RowSet
        BY <1>2 DEF Disk, RowsOf, ToSet
      <4> QED
        BY <4>1 DEF RowSet
    <3> QED
      BY <1>2, <1>3, <3>2
  <2> QED
    BY <1>1, <1>2, <1>5, <2>1 DEF OrderIInv, RowsInOrder
<1>9. NewestIInv' /\ DiskIInv' /\ NoFrameWaits'
  BY <1>1, <1>2 DEF NewestIInv, DiskIInv, NoFrameWaits
<1> QED
  BY <1>6, <1>7, <1>8, <1>9

\* An error that takes the number of a frame, or the frame held.
LEMMA ErrorsKeep ==
    ASSUME SinkIInv, Error, UNCHANGED <<backlog, diskVars, spared, life>>,
           (frame' = frame + 1 /\ held' = held)
             \/ (frame' = frame /\ held # 0 /\ held' = 0)
    PROVE  /\ stats' \in [written : Nat, dropped : Nat, errors : Nat]
           /\ FramesAreAccounted' /\ OrderIInv' /\ NewestIInv' /\ DiskIInv'
<1> USE DEF SinkIInv
<1>1. /\ stats'.written = stats.written /\ stats'.dropped = stats.dropped
      /\ stats'.errors = stats.errors + 1
      /\ stats' \in [written : Nat, dropped : Nat, errors : Nat]
      /\ stats.written \in Nat /\ stats.dropped \in Nat /\ stats.errors \in Nat /\ spared \in Nat
      /\ Len(backlog) \in Nat /\ frame \in Nat /\ held \in Nat /\ spared' = spared /\ files' = files
  <2>1. stats' = [stats EXCEPT !.errors = @ + 1] /\ spared' = spared /\ files' = files
    BY DEF Error, diskVars
  <2>2. /\ stats.written \in Nat /\ stats.dropped \in Nat /\ stats.errors \in Nat /\ stats.errors + 1 \in Nat
        /\ spared \in Nat /\ Len(backlog) \in Nat /\ frame \in Nat /\ held \in Nat
    BY DEF SinkTyped
  <2> QED
    BY <2>1, <2>2 DEF SinkTyped
<1>2. FramesAreAccounted'
  <2> DEFINE w == stats.written
             d == stats.dropped
             e == stats.errors
             l == Len(backlog)
  <2>1. frame = w + d + (e - spared) + l + (IF held = 0 THEN 0 ELSE 1)
    BY DEF FramesAreAccounted
  <2>2. w \in Nat /\ d \in Nat /\ e \in Nat /\ l \in Nat
    BY <1>1
  <2>3. stats'.written = w /\ stats'.dropped = d /\ stats'.errors = e + 1 /\ Len(backlog') = l
    BY <1>1
  <2> HIDE DEF w, d, e, l
  <2>4. frame' = w + d + ((e + 1) - spared) + l + (IF held' = 0 THEN 0 ELSE 1)
    BY <1>1, <2>1, <2>2
  <2> QED
    BY <1>1, <2>3, <2>4 DEF FramesAreAccounted
<1>3. OrderIInv'
  <2>1. \A r \in RowsOf(files') : r.life <= life' /\ (r.life = life' => r.frame <= frame')
    <3>1. SUFFICES ASSUME NEW r \in RowsOf(files) PROVE r.life <= life /\ (r.life = life => r.frame <= frame')
      BY <1>1
    <3>2. r.frame \in Nat
      BY <3>1, RowTypes
    <3> QED
      BY <1>1, <3>2 DEF OrderIInv
  <2>2. held' <= frame' /\ held' <= held
    BY <1>1 DEF OrderIInv
  <2>3. \A i \in DOMAIN backlog : backlog[i] <= frame' /\ held' < backlog[i]
    <3>1. SUFFICES ASSUME NEW i \in DOMAIN backlog PROVE backlog[i] <= frame' /\ held' < backlog[i]
      OBVIOUS
    <3>2. backlog[i] \in Nat /\ backlog[i] > 0
      BY <3>1 DEF SinkTyped
    <3> QED
      BY <1>1, <3>2 DEF OrderIInv, RowsInOrder
  <2>4. ({held'} \ {0}) \subseteq ({held} \ {0})
    OBVIOUS
  <2>5. RowsInOrder'
    BY <1>1, <2>3, <2>4 DEF OrderIInv, RowsInOrder
  <2> QED
    BY <2>1, <2>2, <2>3, <2>5 DEF OrderIInv
<1>4. NewestIInv' /\ DiskIInv'
  BY <1>1 DEF NewestIInv, DiskIInv, diskVars
<1> QED
  BY <1>1, <1>2, <1>3, <1>4

LEMMA SinkSteps == SinkIInv /\ [SinkNext]_sinkVars => SinkIInv'
<1> SUFFICES ASSUME SinkIInv, [SinkNext]_sinkVars PROVE SinkIInv'
  OBVIOUS
<1> USE DEF SinkIInv
<1>1. CASE BuildFails
  <2> USE <1>1 DEF BuildFails
  <2>1. /\ stats' \in [written : Nat, dropped : Nat, errors : Nat]
        /\ FramesAreAccounted' /\ OrderIInv' /\ NewestIInv' /\ DiskIInv'
    BY ErrorsKeep
  <2>2. SinkTyped' /\ NoFrameWaits'
    BY <2>1 DEF SinkTyped, NoFrameWaits, diskVars
  <2> QED
    BY <2>1, <2>2
<1>2. CASE WritesNowhere
  <2> USE <1>2 DEF WritesNowhere
  <2>1. held # 0
    BY DEF SinkTyped
  <2>2. /\ stats' \in [written : Nat, dropped : Nat, errors : Nat]
        /\ FramesAreAccounted' /\ OrderIInv' /\ NewestIInv' /\ DiskIInv'
    BY <2>1, ErrorsKeep
  <2>3. SinkTyped' /\ NoFrameWaits'
    BY <2>2 DEF SinkTyped, NoFrameWaits, diskVars
  <2> QED
    BY <2>2, <2>3
<1>3. CASE Signal \/ Stop \/ Flush \/ Wakes \/ Clears \/ Drained \/ UNCHANGED sinkVars
  <2>1. UNCHANGED <<frame, held, backlog, diskVars, countVars, life>>
    BY <1>3 DEF Signal, Stop, Flush, Wakes, Clears, Drained, sinkVars
  <2>2. FramesAreAccounted' /\ OrderIInv' /\ NewestIInv' /\ DiskIInv'
    BY <2>1, SameSink
  <2>3. SinkTyped' /\ NoFrameWaits'
    <3> USE <2>1 DEF SinkTyped, NoFrameWaits, diskVars, countVars
    <3>1. CASE Signal
      BY <3>1 DEF Signal
    <3>2. CASE Stop
      BY <3>2 DEF Stop
    <3>3. CASE Flush
      BY <3>3 DEF Flush
    <3>4. CASE Wakes
      BY <3>4 DEF Wakes
    <3>5. CASE Clears
      <4>1. writer' = "drains" /\ wake' = FALSE /\ cut' = FALSE
              /\ UNCHANGED <<frame, producer, backlog, stopped, final, held, life>>
        BY <3>5 DEF Clears
      <4>2. held = 0
        BY <3>5 DEF Clears
      <4> QED
        BY <4>1, <4>2
    <3>6. CASE Drained
      <4>1. final' \in BOOLEAN
        <5>1. final' = (final \/ stopped)
          BY <3>6 DEF Drained, Returns
        <5> QED
          BY <5>1
      <4> QED
        BY <3>6, <4>1 DEF Drained, Returns
    <3>7. CASE UNCHANGED sinkVars
      BY <3>7 DEF sinkVars
    <3> QED
      BY <1>3, <3>1, <3>2, <3>3, <3>4, <3>5, <3>6, <3>7
  <2> QED
    BY <2>2, <2>3
<1> HIDE DEF SinkIInv
<1> QED
  BY <1>1, <1>2, <1>3, OfferKeeps, TakesKeeps, WriteSucceedsKeeps, WriteFailsKeeps, RestartsKeep DEF SinkNext

LEMMA SinkTypes == SinkTyped => SinkTypeOK
  BY DEF SinkTyped, SinkTypeOK

LEMMA SinkHonesty == SinkIInv => SinkIsHonest
<1> SUFFICES ASSUME SinkIInv PROVE SinkIsHonest
  OBVIOUS
<1> USE DEF SinkIInv
<1>1. NewestIsWritten
  BY DEF NewestIInv, NewestIsWritten
<1>2. DirectoryIsBounded
  BY DEF DiskIInv, DirectoryIsBounded
<1> QED
  BY <1>1, <1>2 DEF OrderIInv, SinkIsHonest

\* Every reachable state has the sink's types.
THEOREM SinkTyping == SinkSpec => []SinkTypeOK
<1>1. SinkIInv => SinkTypeOK
  BY SinkTypes DEF SinkIInv
<1> QED
  BY SinkInitially, SinkSteps, <1>1, PTL DEF SinkSpec

\* The counters add up, the rows are in order, the newest frame gets through, the directory
\* is bounded and no wake-up is lost, whatever the queue's size and the files' bounds and
\* wherever the process ends.
THEOREM SinksAreHonest == SinkSpec => []SinkIsHonest
  BY SinkInitially, SinkSteps, SinkHonesty, PTL DEF SinkSpec
=============================================================================
