----------------------------- MODULE Scoreboard -----------------------------
(***************************************************************************)
(* The Director's copy of the call ledger (oracle.director.director, view  *)
(* and __init__; oracle.auth.worker, the threads that call it).            *)
(*                                                                         *)
(* The service appends to the file through CallLedger.  view() compares    *)
(* the file's modification time with the one it remembers, loads the file  *)
(* when they differ, publishes the copy and remembers the time: four steps *)
(* outside the Director's lock, taken by every thread that asks for a view.*)
(* The modification time is the number of events in the file.              *)
(***************************************************************************)
EXTENDS CallLedger

CONSTANTS
    Threads,        \* callers of view(): requests, retention updates, speaker frames
    MaxEvents       \* bound: events of the ledger

ASSUME ScoreboardConstants == MaxEvents \in Nat

VARIABLES
    mtime,          \* modification time of the ledger file
    shown,          \* rows of self.ledger
    stamp,          \* self._ledger_mtime_ns
    viewer,         \* where each thread is inside view()
    raced           \* history: two threads were between load and stamp, or an event
                    \* fell between the constructor's load and its stat

boardVars == <<rows, book, mtime, shown, stamp, viewer, raced>>

Idle == [at |-> "idle"]
Busy == {t \in Threads : viewer[t].at \in {"checked", "loaded", "published"}}

\* The events of a resolver that reads on, one stamp after the other.
ServiceEvent(c) ==
    \/ ~Known(c) /\ Create(c)
    \/ Cancel(c, "CANCEL_REASON", rows[c].covered + 1)
    \/ \E state \in {"PENDING", "ACTIVE", "WIN", "LOSS"} :
         LET at == rows[c].covered + 1 IN
         Advance(c, AdvanceEvent(state, at, at, "ROUTINE", FALSE, FALSE, FALSE))

LedgerEvent ==
    /\ mtime < MaxEvents
    /\ \E c \in Calls : ServiceEvent(c)
    /\ mtime' = mtime + 1
    /\ UNCHANGED <<shown, stamp, viewer, raced>>

\* view(): stat, and nothing more when the time is the remembered one.
Check(t) ==
    /\ viewer[t] = Idle /\ stamp # mtime
    /\ viewer' = [viewer EXCEPT ![t] = [at |-> "checked", stat |-> mtime]]
    /\ raced' = (raced \/ Busy # {})
    /\ UNCHANGED <<rows, book, mtime, shown, stamp>>

Loaded == rows

Load(t) ==
    /\ viewer[t].at = "checked"
    /\ viewer' = [viewer EXCEPT ![t] = [at |-> "loaded", stat |-> @.stat, copy |-> Loaded]]
    /\ UNCHANGED <<rows, book, mtime, shown, stamp, raced>>

\* The append is in progress: the load raises and the caller goes on without a view.
LoadFails(t) ==
    /\ viewer[t].at = "checked" /\ mtime < MaxEvents
    /\ viewer' = [viewer EXCEPT ![t] = Idle]
    /\ UNCHANGED <<rows, book, mtime, shown, stamp, raced>>

Publish(t) ==
    /\ viewer[t].at = "loaded"
    /\ shown' = viewer[t].copy
    /\ viewer' = [viewer EXCEPT ![t] = [at |-> "published", stat |-> @.stat]]
    /\ UNCHANGED <<rows, book, mtime, stamp, raced>>

\* Fault: the time remembered is read again, after the load.
FaultSeen(t) == mtime

Seen(t) == viewer[t].stat

Remember(t) ==
    /\ viewer[t].at = "published"
    /\ stamp' = Seen(t)
    /\ viewer' = [viewer EXCEPT ![t] = Idle]
    /\ UNCHANGED <<rows, book, mtime, shown, raced>>

\* The worker loads the ledger, then the Director is built and looks at the file.
Attach ==
    /\ \A t \in Threads : viewer[t].at = "waiting"
    /\ viewer' = [t \in Threads |-> Idle]
    /\ stamp' = mtime
    /\ raced' = (rows # shown)
    /\ UNCHANGED <<rows, book, mtime, shown>>

BoardInit ==
    /\ LedgerInit
    /\ mtime = 0 /\ shown = rows /\ stamp = 0 /\ raced = FALSE
    /\ viewer = [t \in Threads |-> [at |-> "waiting"]]

View(t) == Check(t) \/ Load(t) \/ LoadFails(t) \/ Publish(t) \/ Remember(t)

BoardNext == LedgerEvent \/ Attach \/ \E t \in Threads : View(t)

BoardSpec == BoardInit /\ [][BoardNext]_boardVars
-----------------------------------------------------------------------------
(* Properties.                                                             *)

\* What is on the screen was in the file: a resolved call shows the outcome the file
\* has, an active one was triggered, and no coverage is ahead of the file's.
ShownIsPast ==
    \A c \in Calls :
        /\ shown[c].state \in Terminal => shown[c] = rows[c]
        /\ shown[c].state = "ACTIVE" => rows[c].state \notin {"NONE", "PENDING", "CANCELLED"}
        /\ shown[c].covered <= rows[c].covered

\* The screen is behind the file and nobody will look again only where two views
\* overlapped, or where an event fell into the constructor's gap.
StaleOnlyIfRaced ==
    (Busy = {} /\ stamp = mtime /\ shown # rows /\ viewer # [t \in Threads |-> [at |-> "waiting"]])
        => raced

\* What the audience sees of the calls.
BoardIsHonest == ShownIsPast /\ StaleOnlyIfRaced
=============================================================================
