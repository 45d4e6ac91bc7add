----------------------------- MODULE CallLedger -----------------------------
(***************************************************************************)
(* The append-only ledger of analysis calls (oracle.analysis.ledger).      *)
(*                                                                         *)
(* A call is a model value: its id is the digest of its immutable terms,   *)
(* so its terms are constant functions of it and "Call terms cannot be     *)
(* edited" is the shape of the model.  What changes is its row: lifecycle  *)
(* state, resolution stamp, coverage and the two sticky marks.             *)
(*                                                                         *)
(* The specification lets any caller ask for anything, in any order: the   *)
(* producers, the resolver, the stale-call sweep and the Director all use  *)
(* the three operations below, and the ledger alone decides what is        *)
(* appended.  A refused request raises in the code and changes no row.     *)
(***************************************************************************)
EXTENDS Integers, Sequences

CONSTANTS
    Calls,      \* the calls that can be published
    Created,    \* created_ms of each call
    Expires,    \* expires_ms of each call
    MinLife,    \* retention.min_call_life_ms
    MaxTime     \* bound: no request is stamped later

Time == 0 .. MaxTime

ASSUME LedgerConstants ==
    /\ MaxTime \in Nat
    /\ MinLife \in Nat
    /\ Created \in [Calls -> Time]
    /\ Expires \in [Calls -> Time]
    /\ \A c \in Calls : Created[c] < Expires[c]

VARIABLES
    rows,       \* CallLedger._rows and _covered, by call
    book        \* the calls in the order of their CREATE events

ledgerVars == <<rows, book>>

-----------------------------------------------------------------------------
Open     == {"PENDING", "ACTIVE"}
Terminal == {"WIN", "LOSS", "SCRATCH", "NEVER_TRIGGERED", "VOID_DATA", "CANCELLED"}
Reasons  == {"ROUTINE", "CANCEL_REASON", "DATA_QUALITY"}
Unset    == -1

\* The row of a call that was never created.
NoRow == [state |-> "NONE", resolved |-> Unset, covered |-> 0,
          ambiguous |-> FALSE, gap |-> FALSE, triggered |-> FALSE]

Row == [state : Open \cup Terminal \cup {"NONE"}, resolved : Nat \cup {Unset},
        covered : Nat, ambiguous : BOOLEAN, gap : BOOLEAN, triggered : BOOLEAN]

Known(c) == rows[c].state # "NONE"
IsOpen(c) == rows[c].state \in Open

-----------------------------------------------------------------------------
(* Validation of a lifecycle event against the row it would replace, and   *)
(* the row it leaves.                                                      *)

\* Call.validate_call: a terminal snapshot cannot precede the creation.
StampOk(c, e) == e.state \in Terminal => e.at >= Created[c]

\* Fault: a resolved row still takes events.
FaultOpenOnly(c) == TRUE

\* "Terminal or cancelled call cannot advance".
OpenOnly(c) == IsOpen(c)

\* "Coverage cannot move backwards".
ForwardOnly(c, e) ==
    /\ e.at >= Created[c]
    /\ e.covered >= rows[c].covered

\* Only a pending call is cancelled, with a reason of the closed list.
CancelOnlyPending(c, e) ==
    IF e.action = "CANCEL"
      THEN /\ rows[c].state = "PENDING"
           /\ e.state = "CANCELLED"
           /\ e.reason = "CANCEL_REASON"
      ELSE e.state # "CANCELLED"

\* Fault: an active call may be put back to pending.
FaultActiveHolds(c, e) == TRUE

\* "Active calls cannot return to pending".
ActiveHolds(c, e) ==
    rows[c].state = "ACTIVE" => e.state \notin {"PENDING", "NEVER_TRIGGERED"}

\* "Ambiguous resolution must be a loss".
AmbiguousLoses(e) == e.ambiguous => e.state = "LOSS"

Valid(c, e) ==
    /\ OpenOnly(c)
    /\ ForwardOnly(c, e)
    /\ CancelOnlyPending(c, e)
    /\ e.state = "VOID_DATA" => e.reason = "DATA_QUALITY"
    /\ ActiveHolds(c, e)
    /\ AmbiguousLoses(e)

\* Fault: the coverage of an open call stops one short of what was evaluated.
FaultApplied(c, e) ==
    [state     |-> e.state,
     resolved  |-> IF e.state \in Terminal THEN e.at ELSE Unset,
     covered   |-> IF e.state \in Open THEN e.covered - 1 ELSE e.covered,
     ambiguous |-> rows[c].ambiguous \/ e.ambiguous,
     gap       |-> rows[c].gap \/ e.gap,
     triggered |-> rows[c].triggered \/ e.trigger]

Applied(c, e) ==
    [state     |-> e.state,
     resolved  |-> IF e.state \in Terminal THEN e.at ELSE Unset,
     covered   |-> e.covered,
     ambiguous |-> rows[c].ambiguous \/ e.ambiguous,
     gap       |-> rows[c].gap \/ e.gap,
     triggered |-> rows[c].triggered \/ e.trigger]

AppendEvent(c, e) ==
    /\ StampOk(c, e)
    /\ Valid(c, e)
    /\ rows' = [rows EXCEPT ![c] = Applied(c, e)]
    /\ UNCHANGED book

-----------------------------------------------------------------------------
(* The three operations.                                                   *)

LongEnough(c) == Expires[c] > Created[c] + MinLife

\* create(): a known id is answered with the existing call, nothing written.
Create(c) ==
    /\ LongEnough(c)
    /\ IF Known(c)
         THEN UNCHANGED ledgerVars
         ELSE /\ rows' = [rows EXCEPT ![c] = [NoRow EXCEPT !.state = "PENDING",
                                                           !.covered = Created[c]]]
              /\ book' = Append(book, c)

CancelEvent(c, reason, at) ==
    [action |-> "CANCEL", state |-> "CANCELLED", at |-> at,
     covered |-> rows[c].covered, reason |-> reason,
     ambiguous |-> FALSE, gap |-> FALSE, trigger |-> FALSE]

Cancel(c, reason, at) ==
    /\ rows[c].state = "PENDING"
    /\ reason = "CANCEL_REASON"
    /\ AppendEvent(c, CancelEvent(c, reason, at))

AdvanceEvent(state, at, covered, reason, ambiguous, gap, trigger) ==
    [action |-> IF ambiguous THEN "AMBIGUOUS" ELSE "ADVANCE",
     state |-> state, at |-> at, covered |-> covered, reason |-> reason,
     ambiguous |-> ambiguous, gap |-> gap, trigger |-> trigger]

Advance(c, e) ==
    /\ Known(c)
    /\ AppendEvent(c, e)

-----------------------------------------------------------------------------
LedgerInit ==
    /\ rows = [c \in Calls |-> NoRow]
    /\ book = <<>>

AnyCreate  == \E c \in Calls : Create(c)
AnyCancel  == \E c \in Calls, reason \in Reasons, at \in Time : Cancel(c, reason, at)
AnyAdvance ==
    \E c \in Calls, state \in Open \cup Terminal, at, covered \in Time,
       reason \in {"ROUTINE", "DATA_QUALITY"}, ambiguous, gap, trigger \in BOOLEAN :
         Advance(c, AdvanceEvent(state, at, covered, reason, ambiguous, gap, trigger))

LedgerNext == AnyCreate \/ AnyCancel \/ AnyAdvance

LedgerSpec == LedgerInit /\ [][LedgerNext]_ledgerVars

-----------------------------------------------------------------------------
(* Properties.                                                             *)

\* Every row has its type and the book lists calls.
LedgerTypeOK ==
    /\ rows \in [Calls -> Row]
    /\ book \in Seq(Calls)

\* Scoreboard honesty: once a call is resolved or cancelled its row never
\* changes again, whatever is asked of the ledger (_validate, "Terminal or
\* cancelled call cannot advance").
TerminalIsFinal ==
    [][\A c \in Calls : rows[c].state \in Terminal => rows'[c] = rows[c]]_ledgerVars

\* A call that became ACTIVE can only be resolved: it is never withdrawn
\* (CANCELLED), never un-triggered, and a published call never disappears.
ActiveIsIrrevocable ==
    [][\A c \in Calls :
         /\ Known(c) => rows'[c].state # "NONE"
         /\ rows[c].state = "ACTIVE" =>
              rows'[c].state \in {"ACTIVE", "WIN", "LOSS", "SCRATCH", "VOID_DATA"}]_ledgerVars

\* Evidence once counted stays counted: coverage, the gap mark and the trigger
\* never go back, so a restarted evaluation cannot re-read a minute.
EvidenceNeverShrinks ==
    [][\A c \in Calls :
         /\ rows'[c].covered >= rows[c].covered
         /\ rows[c].gap => rows'[c].gap
         /\ rows[c].triggered => rows'[c].triggered]_ledgerVars

\* An ambiguous bar is scored against the call: the ambiguity mark is carried
\* by losses only, at every later time, and a resolved row keeps a stamp that
\* does not precede its creation.
AmbiguityIsALoss ==
    \A c \in Calls :
        /\ rows[c].ambiguous => rows[c].state = "LOSS"
        /\ rows[c].state \in Terminal <=> rows[c].resolved # Unset
        /\ rows[c].resolved # Unset => rows[c].resolved >= Created[c]
=============================================================================
