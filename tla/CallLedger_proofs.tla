-------------------------- MODULE CallLedger_proofs --------------------------
(***************************************************************************)
(* What the ledger guarantees for any set of calls, whatever is asked of   *)
(* it: its type, the finality of resolved calls, the irrevocability of     *)
(* active ones and the scoring of ambiguous bars.                          *)
(***************************************************************************)
EXTENDS CallLedger, TLAPS

-----------------------------------------------------------------------------
(* A row is only ever replaced by Applied(c, e) of a valid event.          *)

LEMMA RowTyped ==
    ASSUME LedgerTypeOK, NEW c \in Calls
    PROVE  /\ rows[c] \in Row
           /\ DOMAIN rows = Calls
  BY DEF LedgerTypeOK

LEMMA CreatedIsNat == ASSUME NEW c \in Calls PROVE Created[c] \in Nat
  BY LedgerConstants DEF LedgerConstants, Time

\* Shape of a request: what every caller passes.
Event(e) ==
    /\ e.action \in {"CANCEL", "ADVANCE", "AMBIGUOUS"}
    /\ e.state \in Open \cup Terminal
    /\ e.at \in Nat /\ e.covered \in Nat
    /\ e.ambiguous \in BOOLEAN /\ e.gap \in BOOLEAN /\ e.trigger \in BOOLEAN

LEMMA AppliedTyped ==
    ASSUME LedgerTypeOK, NEW c \in Calls, NEW e, Event(e)
    PROVE  Applied(c, e) \in Row
  BY RowTyped DEF Applied, Row, Event, Unset

LEMMA AppendTyped ==
    ASSUME LedgerTypeOK, NEW c \in Calls, NEW e, Event(e), AppendEvent(c, e)
    PROVE  LedgerTypeOK'
  BY AppliedTyped DEF AppendEvent, LedgerTypeOK

LEMMA CancelEventTyped ==
    ASSUME LedgerTypeOK, NEW c \in Calls, NEW at \in Nat, NEW reason
    PROVE  Event(CancelEvent(c, reason, at))
  BY RowTyped DEF Event, CancelEvent, Row, Terminal

LEMMA AdvanceEventTyped ==
    ASSUME NEW state \in Open \cup Terminal, NEW at \in Nat, NEW covered \in Nat,
           NEW reason, NEW ambiguous \in BOOLEAN, NEW gap \in BOOLEAN,
           NEW trigger \in BOOLEAN
    PROVE  Event(AdvanceEvent(state, at, covered, reason, ambiguous, gap, trigger))
  BY DEF Event, AdvanceEvent

-----------------------------------------------------------------------------
(* Every step changes each row in one of three ways.                       *)

Published(c) == /\ rows[c].state = "NONE"
                /\ rows'[c] = [NoRow EXCEPT !.state = "PENDING", !.covered = Created[c]]

Evolved(c) == \E e : /\ Event(e) /\ StampOk(c, e) /\ Valid(c, e)
                     /\ rows'[c] = Applied(c, e)

RowStep == \A c \in Calls : rows'[c] = rows[c] \/ Published(c) \/ Evolved(c)

LEMMA AppendIsRowStep ==
    ASSUME LedgerTypeOK, NEW c \in Calls, NEW e, Event(e), AppendEvent(c, e)
    PROVE  LedgerTypeOK' /\ RowStep
<1>1. LedgerTypeOK'
  BY AppendTyped
<1>2. Evolved(c)
  BY RowTyped DEF AppendEvent, Evolved
<1>3. \A d \in Calls \ {c} : rows'[d] = rows[d]
  BY RowTyped DEF AppendEvent
<1> QED BY <1>1, <1>2, <1>3 DEF RowStep

LEMMA CreateIsRowStep ==
    ASSUME LedgerTypeOK, NEW c \in Calls, Create(c)
    PROVE  LedgerTypeOK' /\ RowStep
<1>1. CASE Known(c)
  BY <1>1 DEF Create, ledgerVars, LedgerTypeOK, RowStep
<1>2. CASE ~Known(c)
  <2> DEFINE new == [NoRow EXCEPT !.state = "PENDING", !.covered = Created[c]]
  <2>1. /\ rows' = [rows EXCEPT ![c] = new]
        /\ book' = Append(book, c)
    BY <1>2 DEF Create
  <2>2. new \in Row
    BY CreatedIsNat DEF NoRow, Row, Open, Unset
  <2>3. LedgerTypeOK'
    BY <2>1, <2>2 DEF LedgerTypeOK
  <2>4. Published(c)
    BY <1>2, <2>1, RowTyped DEF Published, Known
  <2>5. \A d \in Calls \ {c} : rows'[d] = rows[d]
    BY <2>1, RowTyped
  <2> QED BY <2>3, <2>4, <2>5 DEF RowStep
<1> QED BY <1>1, <1>2

LEMMA CancelIsRowStep ==
    ASSUME LedgerTypeOK, NEW c \in Calls, NEW reason, NEW at \in Nat, Cancel(c, reason, at)
    PROVE  LedgerTypeOK' /\ RowStep
  BY CancelEventTyped, AppendIsRowStep DEF Cancel

LEMMA LedgerStep == LedgerTypeOK /\ LedgerNext => LedgerTypeOK' /\ RowStep
<1> SUFFICES ASSUME LedgerTypeOK, LedgerNext
             PROVE  LedgerTypeOK' /\ RowStep
  OBVIOUS
<1>1. CASE AnyCreate
  BY <1>1, CreateIsRowStep DEF AnyCreate
<1>2. CASE AnyCancel
  BY <1>2, CancelIsRowStep, LedgerConstants DEF AnyCancel, Time, LedgerConstants
<1>3. CASE AnyAdvance
  <2>1. PICK c \in Calls, state \in Open \cup Terminal, at \in Time, covered \in Time,
             reason \in {"ROUTINE", "DATA_QUALITY"}, ambiguous \in BOOLEAN,
             gap \in BOOLEAN, trigger \in BOOLEAN :
                Advance(c, AdvanceEvent(state, at, covered, reason, ambiguous, gap, trigger))
    BY <1>3 DEF AnyAdvance
  <2>2. at \in Nat /\ covered \in Nat
    BY <2>1, LedgerConstants DEF Time, LedgerConstants
  <2> QED BY <2>1, <2>2, AdvanceEventTyped, AppendIsRowStep DEF Advance
<1> QED BY <1>1, <1>2, <1>3 DEF LedgerNext

\* The inductive invariant: a call that was never created has the blank row, and
\* the marks agree with the state.
LedgerIInv ==
    /\ LedgerTypeOK
    /\ \A c \in Calls : rows[c].state = "NONE" => rows[c] = NoRow
    /\ AmbiguityIsALoss

\* A stuttering step is a row step, too.
LEMMA LedgerBoxStep ==
    LedgerTypeOK /\ [LedgerNext]_ledgerVars => LedgerTypeOK' /\ RowStep
<1> SUFFICES ASSUME LedgerTypeOK, [LedgerNext]_ledgerVars
             PROVE  LedgerTypeOK' /\ RowStep
  OBVIOUS
<1>1. CASE UNCHANGED ledgerVars
  BY <1>1 DEF ledgerVars, LedgerTypeOK, RowStep
<1> QED BY <1>1, LedgerStep

LEMMA LedgerInitInv == LedgerInit => LedgerIInv
  BY DEF LedgerInit, LedgerIInv, LedgerTypeOK, AmbiguityIsALoss, NoRow, Row, Unset, Terminal

LEMMA LedgerNextInv == LedgerIInv /\ [LedgerNext]_ledgerVars => LedgerIInv'
<1> SUFFICES ASSUME LedgerIInv, [LedgerNext]_ledgerVars
             PROVE  LedgerIInv'
  OBVIOUS
<1>1. LedgerTypeOK' /\ RowStep
  BY LedgerBoxStep DEF LedgerIInv
<1>2. ASSUME NEW c \in Calls
      PROVE  /\ rows'[c].state = "NONE" => rows'[c] = NoRow
             /\ rows'[c].ambiguous => rows'[c].state = "LOSS"
             /\ rows'[c].state \in Terminal <=> rows'[c].resolved # Unset
             /\ rows'[c].resolved # Unset => rows'[c].resolved >= Created[c]
  <2>1. CASE rows'[c] = rows[c]
    BY <2>1 DEF LedgerIInv, AmbiguityIsALoss
  <2>2. CASE Published(c)
    BY <2>2 DEF Published, NoRow, Terminal
  <2>3. CASE Evolved(c)
    <3>1. PICK e : Event(e) /\ StampOk(c, e) /\ Valid(c, e) /\ rows'[c] = Applied(c, e)
      BY <2>3 DEF Evolved
    <3>2. ~rows[c].ambiguous
      BY <3>1 DEF LedgerIInv, AmbiguityIsALoss, Valid, OpenOnly, IsOpen, Open
    <3>3. rows'[c].state = e.state /\ rows'[c].ambiguous = (rows[c].ambiguous \/ e.ambiguous)
      BY <3>1 DEF Applied
    <3>4. rows'[c].state # "NONE"
      BY <3>1, <3>3 DEF Event, Open, Terminal
    <3>5. e.ambiguous => e.state = "LOSS"
      BY <3>1 DEF Valid, AmbiguousLoses
    <3>6. rows'[c].ambiguous => rows'[c].state = "LOSS"
      BY <3>2, <3>3, <3>5
    <3>7. /\ rows'[c].state \in Terminal <=> rows'[c].resolved # Unset
          /\ rows'[c].resolved # Unset => rows'[c].resolved >= Created[c]
      BY <3>1 DEF Applied, Event, StampOk, Unset
    <3> QED BY <3>4, <3>6, <3>7
  <2> QED BY <1>1, <2>1, <2>2, <2>3 DEF RowStep
<1> QED BY <1>1, <1>2 DEF LedgerIInv, AmbiguityIsALoss

LEMMA LedgerInvariant == LedgerSpec => []LedgerIInv
  BY LedgerInitInv, LedgerNextInv, PTL DEF LedgerSpec

\* The ledger holds a well-formed row for every call, whatever is asked of it.
THEOREM LedgerTyped == LedgerSpec => []LedgerTypeOK
  BY LedgerInvariant, PTL DEF LedgerIInv

\* Ambiguity is only ever scored as a loss, and a call carries a resolution stamp,
\* not before its creation, exactly when it is resolved.
THEOREM AmbiguityLoses == LedgerSpec => []AmbiguityIsALoss
  BY LedgerInvariant, PTL DEF LedgerIInv

\* A resolved or cancelled call is never touched again (_validate's first check).
THEOREM TerminalCallsAreFinal == LedgerSpec => TerminalIsFinal
<1>1. LedgerTypeOK /\ [LedgerNext]_ledgerVars
        => [\A c \in Calls : rows[c].state \in Terminal => rows'[c] = rows[c]]_ledgerVars
  BY LedgerBoxStep DEF RowStep, Published, Evolved, Valid, OpenOnly, IsOpen, Open, Terminal
<1> QED BY <1>1, LedgerTyped, PTL DEF LedgerSpec, TerminalIsFinal

\* An active call is never withdrawn or un-triggered, and no call disappears.
THEOREM ActiveCallsAreIrrevocable == LedgerSpec => ActiveIsIrrevocable
<1>1. ASSUME LedgerTypeOK, [LedgerNext]_ledgerVars, NEW c \in Calls
      PROVE  /\ Known(c) => rows'[c].state # "NONE"
             /\ rows[c].state = "ACTIVE" =>
                  rows'[c].state \in {"ACTIVE", "WIN", "LOSS", "SCRATCH", "VOID_DATA"}
  <2>1. rows'[c] = rows[c] \/ Published(c) \/ Evolved(c)
    BY <1>1, LedgerBoxStep DEF RowStep
  <2>2. CASE rows'[c] = rows[c]
    BY <2>2 DEF Known
  <2>3. CASE Published(c)
    BY <2>3 DEF Published, Known
  <2>4. CASE Evolved(c)
    BY <2>4 DEF Evolved, Applied, Event, Valid, CancelOnlyPending, ActiveHolds, Open, Terminal
  <2> QED BY <2>1, <2>2, <2>3, <2>4
<1>2. LedgerTypeOK /\ [LedgerNext]_ledgerVars
        => [\A c \in Calls :
             /\ Known(c) => rows'[c].state # "NONE"
             /\ rows[c].state = "ACTIVE" =>
                  rows'[c].state \in {"ACTIVE", "WIN", "LOSS", "SCRATCH", "VOID_DATA"}]_ledgerVars
  BY <1>1
<1> QED BY <1>2, LedgerTyped, PTL DEF LedgerSpec, ActiveIsIrrevocable

\* Coverage, the gap mark and the trigger never go back.
THEOREM EvidenceIsKept == LedgerSpec => EvidenceNeverShrinks
<1>1. ASSUME LedgerIInv, [LedgerNext]_ledgerVars, NEW c \in Calls
      PROVE  /\ rows'[c].covered >= rows[c].covered
             /\ rows[c].gap => rows'[c].gap
             /\ rows[c].triggered => rows'[c].triggered
  <2>1. rows'[c] = rows[c] \/ Published(c) \/ Evolved(c)
    BY <1>1, LedgerBoxStep DEF RowStep, LedgerIInv
  <2>2. CASE rows'[c] = rows[c]
    BY <2>2, <1>1, RowTyped DEF Row, LedgerIInv
  <2>3. CASE Published(c)
    BY <2>3, <1>1, CreatedIsNat DEF Published, LedgerIInv, NoRow
  <2>4. CASE Evolved(c)
    <3>1. PICK e : Valid(c, e) /\ rows'[c] = Applied(c, e)
      BY <2>4 DEF Evolved
    <3>2. rows'[c].covered >= rows[c].covered
      BY <3>1 DEF Applied, Valid, ForwardOnly
    <3>3. rows'[c].gap = (rows[c].gap \/ e.gap)
      BY <3>1 DEF Applied
    <3>4. rows'[c].triggered = (rows[c].triggered \/ e.trigger)
      BY <3>1 DEF Applied
    <3> QED BY <3>2, <3>3, <3>4
  <2> QED BY <2>1, <2>2, <2>3, <2>4
<1>2. LedgerIInv /\ [LedgerNext]_ledgerVars
        => [\A c \in Calls : /\ rows'[c].covered >= rows[c].covered
                             /\ rows[c].gap => rows'[c].gap
                             /\ rows[c].triggered => rows'[c].triggered]_ledgerVars
  BY <1>1
<1> QED BY <1>2, LedgerInvariant, PTL DEF LedgerSpec, EvidenceNeverShrinks
=============================================================================
