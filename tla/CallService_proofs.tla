-------------------------- MODULE CallService_proofs --------------------------
(***************************************************************************)
(* The worker thread for any calls, timeframes, feed, holes and restarts:  *)
(* how much it exposes and publishes, and that what it writes to the       *)
(* ledger is what the market showed.                                       *)
(*                                                                         *)
(* Exposure: only one transition makes a call ACTIVE, the minute whose bar *)
(* enters it (ConsumeBar), under can_activate.  Everything else shrinks    *)
(* the set of active calls or leaves it alone.                             *)
(*                                                                         *)
(* Evidence: the clock first (a job never ends after now, and what a pass  *)
(* may read is stored and past), then one invariant of each call that      *)
(* relates its row to the minutes that were read for it.                   *)
(*                                                                         *)
(* Waiting: the sweep before a pass leaves no pending call too old at the  *)
(* close, and no bar the pass may still read begins after that close.      *)
(***************************************************************************)
EXTENDS CallService, CallLedger_proofs, NatSetFacts, FiniteSetTheorems

-----------------------------------------------------------------------------
(* Exposure as a property of a set of calls.                               *)

Lane(S, c) == {d \in S : SameLane(c, d)}

Exposed(S) ==
    /\ Cardinality(S) <= MaxConcurrent
    /\ \A c \in S : Cardinality(Lane(S, c)) <= MaxPerDirectionPerTf
    /\ \A c, d \in S : Terms[c].direction = Terms[d].direction

LEMMA ExposureOfActive == ExposureWithinLimits <=> Exposed(Active)
  BY DEF ExposureWithinLimits, Exposed, Lane

LEMMA CallSetsAreFinite == \A S \in SUBSET Calls : IsFiniteSet(S) /\ Cardinality(S) \in Nat
  BY ResolverConstants, FS_Subset, FS_CardinalityType DEF ResolverConstants

\* Fewer calls expose less.
LEMMA SubsetExposed ==
    ASSUME NEW S \in SUBSET Calls, Exposed(S), NEW T \in SUBSET S
    PROVE  Exposed(T)
<1>1. Cardinality(T) <= Cardinality(S)
  BY CallSetsAreFinite, FS_Subset
<1>2. ASSUME NEW c \in T
      PROVE  Cardinality(Lane(T, c)) <= MaxPerDirectionPerTf
  <2>1. Lane(T, c) \subseteq Lane(S, c) /\ Lane(S, c) \in SUBSET Calls
    BY DEF Lane
  <2>2. Cardinality(Lane(T, c)) <= Cardinality(Lane(S, c))
    BY <2>1, CallSetsAreFinite, FS_Subset
  <2>3. Cardinality(Lane(S, c)) <= MaxPerDirectionPerTf
    BY DEF Exposed
  <2>4. Cardinality(Lane(T, c)) \in Nat /\ Cardinality(Lane(S, c)) \in Nat
    BY <2>1, CallSetsAreFinite
  <2> QED BY <2>2, <2>3, <2>4, ResolverConstants DEF ResolverConstants
<1>3. Cardinality(T) \in Nat /\ Cardinality(S) \in Nat
  BY CallSetsAreFinite
<1> QED BY <1>1, <1>2, <1>3, ResolverConstants DEF Exposed, ResolverConstants

\* What can_activate checks of the other active calls.
Admits(S, c) ==
    /\ Cardinality(S) < MaxConcurrent
    /\ Cardinality(Lane(S, c)) < MaxPerDirectionPerTf
    /\ \A d \in S : Terms[d].direction = Terms[c].direction

\* A call admitted to a set keeps it within the limits.
LEMMA AdmittedExposed ==
    ASSUME NEW S \in SUBSET Calls, Exposed(S), NEW c \in Calls \ S, Admits(S, c)
    PROVE  Exposed(S \cup {c})
<1> DEFINE T == S \cup {c}
<1>1. Cardinality(T) = Cardinality(S) + 1
  BY CallSetsAreFinite, FS_AddElement
<1>2. Cardinality(T) <= MaxConcurrent
  BY <1>1, CallSetsAreFinite, ResolverConstants DEF Admits, ResolverConstants
<1>3. ASSUME NEW d \in T
      PROVE  Cardinality(Lane(T, d)) <= MaxPerDirectionPerTf
  <2>1. CASE SameLane(d, c)
    <3>1. Lane(T, d) = Lane(S, c) \cup {c}
      BY <2>1 DEF Lane, SameLane
    <3>2. Lane(S, c) \in SUBSET Calls /\ c \notin Lane(S, c)
      BY DEF Lane
    <3>3. Cardinality(Lane(S, c) \cup {c}) = Cardinality(Lane(S, c)) + 1
      BY <3>2, CallSetsAreFinite, FS_AddElement
    <3>4. Cardinality(Lane(S, c)) \in Nat
      BY <3>2, CallSetsAreFinite
    <3>5. Cardinality(Lane(S, c)) < MaxPerDirectionPerTf
      BY DEF Admits
    <3>6. MaxPerDirectionPerTf \in Nat
      BY ResolverConstants DEF ResolverConstants
    <3>7. Cardinality(Lane(S, c)) + 1 <= MaxPerDirectionPerTf
      BY <3>4, <3>5, <3>6
    <3> QED BY <3>1, <3>3, <3>7
  <2>2. CASE ~SameLane(d, c)
    <3>1. d # c
      BY <2>2 DEF SameLane
    <3>2. Lane(T, d) = Lane(S, d)
      BY <2>2 DEF Lane
    <3> QED BY <3>1, <3>2 DEF Exposed
  <2> QED BY <2>1, <2>2
<1>4. \A x, y \in T : Terms[x].direction = Terms[y].direction
  BY DEF Exposed, Admits
<1> QED BY <1>2, <1>3, <1>4 DEF Exposed

-----------------------------------------------------------------------------
(* The inductive invariant, and the two ways a step keeps it.              *)

RowsTotal == rows = [c \in Calls |-> rows[c]]

ExposureInv == RowsTotal /\ ExposureWithinLimits

LEMMA ActiveAreCalls == Active \in SUBSET Calls /\ Active' \in SUBSET Calls
  BY DEF Active

LEMMA NoNewActive ==
    ASSUME ExposureInv, RowsTotal', Active' \subseteq Active
    PROVE  ExposureInv'
<1>1. Exposed(Active')
  BY ActiveAreCalls, ExposureOfActive, SubsetExposed DEF ExposureInv
<1> QED BY <1>1 DEF ExposureInv, ExposureWithinLimits, Exposed, Lane, SameLane

LEMMA OneAdmitted ==
    ASSUME ExposureInv, RowsTotal', NEW c \in Calls, CanActivate(c),
           Active' \subseteq Active \cup {c}
    PROVE  ExposureInv'
<1> DEFINE others == Active \ {c}
<1>1. others \in SUBSET Calls /\ Exposed(others)
  BY ActiveAreCalls, ExposureOfActive, SubsetExposed DEF ExposureInv
<1>2. Admits(others, c)
  BY DEF CanActivate, Admits, Lane
<1>3. Exposed(others \cup {c})
  BY <1>1, <1>2, AdmittedExposed
<1>4. Active' \subseteq others \cup {c}
  OBVIOUS
<1>5. Exposed(Active')
  BY <1>1, <1>3, <1>4, SubsetExposed
<1> QED BY <1>5 DEF ExposureInv, ExposureWithinLimits, Exposed, Lane, SameLane

-----------------------------------------------------------------------------
(* What the ledger's operations do to the active calls.                    *)

LEMMA AppendOneRow ==
    ASSUME RowsTotal, NEW c, NEW e, AppendEvent(c, e)
    PROVE  /\ RowsTotal'
           /\ \A d \in Calls : rows'[d] = rows[d] \/ (d = c /\ rows'[d].state = e.state)
<1>1. rows' = [rows EXCEPT ![c] = Applied(c, e)]
  BY DEF AppendEvent
<1>2. Applied(c, e).state = e.state
  BY DEF Applied
<1>3. rows' = [d \in Calls |-> IF d = c THEN Applied(c, e) ELSE rows[d]]
  BY <1>1 DEF RowsTotal
<1> QED BY <1>2, <1>3 DEF RowsTotal

LEMMA AppendInactive ==
    ASSUME ExposureInv, NEW c, NEW e, AppendEvent(c, e), e.state # "ACTIVE"
    PROVE  ExposureInv'
<1>1. RowsTotal' /\ Active' \subseteq Active
  BY AppendOneRow DEF ExposureInv, Active
<1> QED BY <1>1, NoNewActive

LEMMA AppendSame ==
    ASSUME ExposureInv, NEW c, NEW e, AppendEvent(c, e), e.state = rows[c].state
    PROVE  ExposureInv'
<1>1. RowsTotal' /\ Active' \subseteq Active
  BY AppendOneRow DEF ExposureInv, Active
<1> QED BY <1>1, NoNewActive

LEMMA AppendAdmitted ==
    ASSUME ExposureInv, NEW c \in Calls, NEW e, AppendEvent(c, e), CanActivate(c)
    PROVE  ExposureInv'
<1>1. RowsTotal' /\ Active' \subseteq Active \cup {c}
  BY AppendOneRow DEF ExposureInv, Active
<1> QED BY <1>1, OneAdmitted

LEMMA RowsUnchanged == ASSUME ExposureInv, rows' = rows PROVE ExposureInv'
<1>1. RowsTotal' /\ Active' \subseteq Active
  BY DEF ExposureInv, RowsTotal, Active
<1> QED BY <1>1, NoNewActive

LEMMA CreateKeeps == ASSUME ExposureInv, NEW c, Create(c) PROVE ExposureInv'
<1>1. CASE Known(c)
  BY <1>1, RowsUnchanged DEF Create, ledgerVars
<1>2. CASE ~Known(c)
  <2> DEFINE new == [NoRow EXCEPT !.state = "PENDING", !.covered = Created[c]]
  <2>1. new.state = "PENDING"
    BY DEF NoRow
  <2>2. rows' = [rows EXCEPT ![c] = new]
    BY <1>2 DEF Create
  <2>3. rows' = [d \in Calls |-> IF d = c THEN new ELSE rows[d]]
    BY <2>2 DEF ExposureInv, RowsTotal
  <2>4. RowsTotal' /\ Active' \subseteq Active
    BY <2>1, <2>3 DEF RowsTotal, Active
  <2> QED BY <2>4, NoNewActive
<1> QED BY <1>1, <1>2

LEMMA CancelKeeps ==
    ASSUME ExposureInv, NEW c, NEW why, NEW at, Cancel(c, why, at) PROVE ExposureInv'
  BY AppendInactive DEF Cancel, CancelEvent

LEMMA SweepKeeps ==
    ASSUME ExposureInv, NEW at, NEW price, SweepOne(at, price) PROVE ExposureInv'
  BY CancelKeeps, RowsUnchanged DEF SweepOne, ledgerVars

-----------------------------------------------------------------------------
(* One evaluated minute.                                                   *)

LEMMA ConsumeKeeps ==
    ASSUME ExposureInv, NEW c \in Calls, NEW view, ConsumeBar(c, view) PROVE ExposureInv'
<1> DEFINE m == CursorMinute(c)
           e == AdvanceEvent(StateAfter(c, m), CursorEnd(c), CursorEnd(c), "ROUTINE",
                             Ambiguous(c, m), SkipsZone(c, m), Entering(c, m))
<1>1. AppendEvent(c, e)
  BY DEF ConsumeBar, Advance
<1>2. e.state = StateAfter(c, m)
  BY DEF AdvanceEvent
<1>3. CASE e.state # "ACTIVE"
  BY <1>1, <1>3, AppendInactive
<1>4. CASE e.state = "ACTIVE" /\ rows[c].state = "ACTIVE"
  BY <1>1, <1>4, AppendSame
<1>5. CASE e.state = "ACTIVE" /\ rows[c].state # "ACTIVE"
  <2>1. Entering(c, m)
    BY <1>2, <1>5 DEF StateAfter
  <2>2. CanActivate(c)
    BY <2>1 DEF Entering
  <2> QED BY <1>1, <2>2, AppendAdmitted
<1> QED BY <1>3, <1>4, <1>5

LEMMA MinuteKeeps ==
    ASSUME ExposureInv, NEW c \in Calls, NEW view, NEW at, EvaluateMinute(c, view, at)
    PROVE  ExposureInv'
<1>1. CASE SkipClosure(c, view)
  BY <1>1, AppendSame DEF SkipClosure, Advance, AdvanceEvent
<1>2. CASE VoidGap(c, view)
  BY <1>2, AppendInactive DEF VoidGap, Advance, AdvanceEvent
<1>3. CASE ConsumeBar(c, view)
  BY <1>3, ConsumeKeeps
<1> QED BY <1>1, <1>2, <1>3 DEF EvaluateMinute

LEMMA DeadlineKeeps ==
    ASSUME ExposureInv, NEW c, NEW view, NEW at, Deadline(c, view, at)
    PROVE  ExposureInv'
<1> DEFINE e == AdvanceEvent(IF rows[c].state = "ACTIVE" THEN "SCRATCH" ELSE "NEVER_TRIGGERED",
                             Expires[c], Limit(c, view, at), "ROUTINE", FALSE, FALSE, FALSE)
<1>1. AppendEvent(c, e)
  BY DEF Deadline, Advance
<1>2. e.state # "ACTIVE"
  BY DEF AdvanceEvent
<1> QED BY <1>1, <1>2, AppendInactive

-----------------------------------------------------------------------------
(* Every step of the service.                                              *)

LEMMA InitKeeps == Init => ExposureInv
<1> SUFFICES ASSUME Init PROVE ExposureInv
  OBVIOUS
<1>1. RowsTotal /\ Active = {}
  BY DEF Init, LedgerInit, NoRow, RowsTotal, Active
<1>2. Cardinality({}) = 0
  BY FS_EmptySet
<1>3. Exposed({})
  BY <1>2, ResolverConstants DEF Exposed, ResolverConstants
<1> QED BY <1>1, <1>3, ExposureOfActive DEF ExposureInv

LEMMA FeedKeeps == ExposureInv /\ Feed => ExposureInv'
  BY RowsUnchanged DEF Feed, Store, Tick, ledgerVars

LEMMA ResolveKeeps == ExposureInv /\ Resolve => ExposureInv'
<1> SUFFICES ASSUME ExposureInv, NEW c \in Calls,
                    \/ MarkResolution(c) \/ ResolveMinute(c)
                    \/ ResolveDeadline(c) \/ ResolveLater(c)
             PROVE  ExposureInv'
  BY DEF Resolve
<1>1. CASE MarkResolution(c)
  BY <1>1, RowsUnchanged DEF MarkResolution, ledgerVars
<1>2. CASE ResolveMinute(c)
  BY <1>2, MinuteKeeps DEF ResolveMinute
<1>3. CASE ResolveDeadline(c)
  BY <1>3, DeadlineKeeps DEF ResolveDeadline
<1>4. CASE ResolveLater(c)
  BY <1>4, RowsUnchanged DEF ResolveLater, ledgerVars
<1> QED BY <1>1, <1>2, <1>3, <1>4

LEMMA ConstructKeeps == ExposureInv /\ Construct => ExposureInv'
<1> SUFFICES ASSUME ExposureInv, Construct PROVE ExposureInv'
  OBVIOUS
<1>1. CASE \E S \in SUBSET Calls : StartConstructing(S)
  BY <1>1, RowsUnchanged DEF StartConstructing, ledgerVars
<1>2. CASE \E c \in Calls : ConstructRejects(c)
  BY <1>2, RowsUnchanged DEF ConstructRejects, ledgerVars
<1>3. CASE \E c \in Calls : ConstructPublishes(c)
  BY <1>3, CreateKeeps, RowsUnchanged DEF ConstructPublishes, ledgerVars
<1>4. CASE EndConstructing
  BY <1>4, RowsUnchanged DEF EndConstructing, ledgerVars
<1> QED BY <1>1, <1>2, <1>3, <1>4 DEF Construct

LEMMA ScalpKeeps == ExposureInv /\ ScalpPass => ExposureInv'
<1> SUFFICES ASSUME ExposureInv, ScalpPass PROVE ExposureInv'
  OBVIOUS
<1>1. CASE ScalpNone
  BY <1>1, RowsUnchanged DEF ScalpNone, ledgerVars
<1>2. CASE \E c \in Calls : ScalpPublishes(c)
  BY <1>2, CreateKeeps, RowsUnchanged DEF ScalpPublishes, ledgerVars
<1> QED BY <1>1, <1>2 DEF ScalpPass

LEMMA WorkKeeps == ExposureInv /\ Work => ExposureInv'
<1> SUFFICES ASSUME ExposureInv, Work PROVE ExposureInv'
  OBVIOUS
<1>1. CASE SweepTick \/ SweepClose
  BY <1>1, SweepKeeps DEF SweepTick, SweepClose
<1>2. CASE Refresh
  BY <1>2, RowsUnchanged DEF Refresh, ledgerVars
<1>3. CASE PlanAny
  BY <1>3, RowsUnchanged DEF PlanAny, Plan, ledgerVars
<1>4. CASE EndTick \/ StartPass \/ StartResolving
  BY <1>4, RowsUnchanged DEF EndTick, StartPass, StartResolving, ledgerVars
<1>5. CASE Resolve \/ Construct \/ ScalpPass
  BY <1>5, ResolveKeeps, ConstructKeeps, ScalpKeeps
<1> QED BY <1>1, <1>2, <1>3, <1>4, <1>5 DEF Work

LEMMA NextKeeps == ExposureInv /\ [Next]_vars => ExposureInv'
<1> SUFFICES ASSUME ExposureInv, [Next]_vars PROVE ExposureInv'
  OBVIOUS
<1>1. CASE Feed \/ Work
  BY <1>1, FeedKeeps, WorkKeeps
<1>2. CASE Restart
  BY <1>2, RowsUnchanged DEF Restart, ledgerVars
<1>3. CASE UNCHANGED vars
  BY <1>3, RowsUnchanged DEF vars
<1> QED BY <1>1, <1>2, <1>3 DEF Next

\* For any calls, market, limits and interleaving, and across any number of
\* restarts, the calls ACTIVE on the ledger respect max_concurrent,
\* max_per_direction_per_tf and the ban on opposing directions (can_activate).
THEOREM ExposureHolds == Spec => []ExposureWithinLimits
<1>1. ExposureInv => ExposureWithinLimits
  BY DEF ExposureInv
<1> QED BY InitKeeps, NextKeeps, <1>1, PTL DEF Spec

-----------------------------------------------------------------------------
(* Publishing.  A setup's zone is reserved from the moment it is tried,    *)
(* and a restart reserves the zones of everything on the ledger.           *)

PublishInv ==
    /\ RowsTotal
    /\ offers \subseteq {c \in Calls : ~Scalp(c)}
    /\ \A c \in Calls : Known(c) /\ ~Scalp(c) => Zone(c) \in used
    /\ PublishingIsBounded

Setups == {c \in Pending : ~Scalp(c)}

\* A step that publishes nothing.
Withdraws ==
    /\ RowsTotal'
    /\ \A c \in Calls : /\ Known(c)' => Known(c)
                        /\ IsOpen(c)' => IsOpen(c)
                        /\ rows'[c].state = "PENDING" => rows[c].state = "PENDING"

LEMMA WithdrawalKeeps ==
    ASSUME PublishInv, Withdraws, offers' \subseteq {c \in Calls : ~Scalp(c)},
           \A c \in Calls : Known(c) /\ ~Scalp(c) => Zone(c) \in used'
    PROVE  PublishInv'
<1>1. Cardinality(Setups') <= Cardinality(Setups)
  <2>1. Setups' \subseteq Setups /\ Setups \in SUBSET Calls
    BY DEF Setups, Pending, Withdraws, Scalp
  <2> QED BY <2>1, CallSetsAreFinite, FS_Subset
<1>2. Cardinality(Setups') <= MaxPending
  <2>1. Setups \in SUBSET Calls /\ Setups' \in SUBSET Calls
    BY DEF Setups, Pending
  <2>2. Cardinality(Setups) <= MaxPending
    BY DEF PublishInv, PublishingIsBounded, PendingIsBounded, Setups
  <2> QED BY <1>1, <2>1, <2>2, CallSetsAreFinite, ServiceConstants DEF ServiceConstants
<1>3. PendingIsBounded'
  BY <1>2 DEF PublishInv, PublishingIsBounded, PendingIsBounded, Withdraws, Setups, Scalp, Pending
<1>4. OneSetupPerZone'
  BY DEF PublishInv, PublishingIsBounded, OneSetupPerZone, Withdraws, Scalp, Zone
<1> QED BY <1>3, <1>4 DEF PublishInv, PublishingIsBounded, Withdraws, Zone, Scalp

\* Whatever is appended to an existing row publishes nothing.
LEMMA AppendWithdraws ==
    ASSUME RowsTotal, NEW c, NEW e, AppendEvent(c, e)
    PROVE  Withdraws
<1>1. /\ RowsTotal'
      /\ \A d \in Calls : rows'[d] = rows[d] \/ (d = c /\ rows'[d].state = e.state)
  BY AppendOneRow
<1>2. rows[c].state \in Open /\ (rows[c].state = "ACTIVE" => e.state # "PENDING")
  BY DEF AppendEvent, Valid, OpenOnly, IsOpen, ActiveHolds
<1> QED BY <1>1, <1>2 DEF Withdraws, Known, IsOpen, Open

LEMMA StillWithdraws == ASSUME RowsTotal, rows' = rows PROVE Withdraws
  BY DEF Withdraws, RowsTotal, Known, IsOpen

LEMMA OtherStepKeeps ==
    ASSUME PublishInv, Withdraws, UNCHANGED <<offers, used>>
    PROVE  PublishInv'
<1>1. offers' \subseteq {c \in Calls : ~Scalp(c)}
  BY DEF PublishInv
<1>2. \A c \in Calls : Known(c) /\ ~Scalp(c) => Zone(c) \in used'
  BY DEF PublishInv
<1> QED BY <1>1, <1>2, WithdrawalKeeps

\* A call that is new on the ledger.
LEMMA NewRow ==
    ASSUME RowsTotal, NEW c \in Calls, Create(c), ~Known(c)
    PROVE  /\ RowsTotal'
           /\ rows'[c].state = "PENDING"
           /\ \A d \in Calls \ {c} : rows'[d] = rows[d]
<1> DEFINE new == [NoRow EXCEPT !.state = "PENDING", !.covered = Created[c]]
<1>1. rows' = [rows EXCEPT ![c] = new]
  BY DEF Create
<1>2. new.state = "PENDING"
  BY DEF NoRow
<1> HIDE DEF new
<1>3. rows' = [d \in Calls |-> IF d = c THEN new ELSE rows[d]]
  BY <1>1 DEF RowsTotal
<1> QED BY <1>2, <1>3 DEF RowsTotal

LEMMA SetupKeeps ==
    ASSUME PublishInv, NEW c \in Calls, ConstructPublishes(c)
    PROVE  PublishInv'
<1>1. /\ c \in offers /\ ~Scalp(c)
      /\ Zone(c) \notin used /\ Cardinality(Pending) < MaxPending
      /\ used' = used \cup {Zone(c)} /\ offers' = offers \ {c}
  BY DEF ConstructPublishes, ConstructGates, PendingGate, PublishInv
<1>2. offers' \subseteq {d \in Calls : ~Scalp(d)}
  BY <1>1 DEF PublishInv
<1>3. \A d \in Calls : Known(d) /\ ~Scalp(d) => Zone(d) \in used'
  BY <1>1 DEF PublishInv
<1>4. CASE ~LongEnough(c)
  <2>1. rows' = rows
    BY <1>4 DEF ConstructPublishes, ledgerVars
  <2> QED BY <1>2, <1>3, <2>1, StillWithdraws, WithdrawalKeeps DEF PublishInv
<1>5. CASE LongEnough(c)
  <2>1. ~Known(c) /\ Create(c)
    BY <1>1, <1>5 DEF PublishInv, ConstructPublishes
  <2>2. /\ RowsTotal'
        /\ rows'[c].state = "PENDING"
        /\ \A d \in Calls \ {c} : rows'[d] = rows[d]
    BY <2>1, NewRow DEF PublishInv
  <2>3. Cardinality(Setups') <= MaxPending
    <3>1. Setups' \subseteq Pending \cup {c}
      BY <2>2 DEF Setups, Pending
    <3>2. Pending \in SUBSET Calls /\ Setups' \in SUBSET Calls /\ Pending \cup {c} \in SUBSET Calls
      BY DEF Setups, Pending
    <3>3. c \notin Pending
      BY <2>1 DEF Pending, Known
    <3>4. Cardinality(Pending \cup {c}) = Cardinality(Pending) + 1
      BY <3>2, <3>3, CallSetsAreFinite, FS_AddElement
    <3>5. Cardinality(Setups') <= Cardinality(Pending \cup {c})
      BY <3>1, <3>2, CallSetsAreFinite, FS_Subset
    <3>6. /\ Cardinality(Pending) \in Nat /\ Cardinality(Setups') \in Nat
          /\ MaxPending \in Nat
      BY <3>2, CallSetsAreFinite, ServiceConstants DEF ServiceConstants
    <3> QED BY <1>1, <3>4, <3>5, <3>6
  <2>4. \A d \in Calls : IsOpen(d)' /\ Scalp(d) => IsOpen(d)
    BY <1>1, <2>2 DEF IsOpen
  <2>5. PendingIsBounded'
    BY <2>3, <2>4 DEF PublishInv, PublishingIsBounded, PendingIsBounded, Setups, Scalp, Pending
  <2>6. \A d \in Calls \ {c} : Known(d)' /\ ~Scalp(d) => Known(d) /\ Zone(d) # Zone(c)
    BY <1>1, <2>2 DEF Known, PublishInv
  <2>7. OneSetupPerZone'
    BY <2>6 DEF PublishInv, PublishingIsBounded, OneSetupPerZone, Scalp, Zone
  <2>8. \A d \in Calls : Known(d)' /\ ~Scalp(d) => Zone(d) \in used'
    BY <1>1, <1>3, <2>2 DEF Known
  <2> QED BY <1>2, <2>2, <2>5, <2>7, <2>8 DEF PublishInv, PublishingIsBounded, Zone, Scalp
<1> QED BY <1>4, <1>5

LEMMA ScalpCallKeeps ==
    ASSUME PublishInv, NEW c \in Calls, ScalpPublishes(c)
    PROVE  PublishInv'
<1>1. /\ Scalp(c)
      /\ ~ \E d \in Calls : IsOpen(d) /\ Scalp(d) /\ Terms[d].tf = Terms[c].tf
      /\ UNCHANGED <<used, offers>>
  BY DEF ScalpPublishes, ScalpGates, EndPass, producerVars
<1>2. CASE ~LongEnough(c) \/ Known(c)
  <2>1. rows' = rows
    BY <1>2 DEF ScalpPublishes, Create, ledgerVars
  <2> QED BY <1>1, <2>1, StillWithdraws, OtherStepKeeps DEF PublishInv
<1>3. CASE LongEnough(c) /\ ~Known(c)
  <2>1. /\ RowsTotal'
        /\ rows'[c].state = "PENDING"
        /\ \A d \in Calls \ {c} : rows'[d] = rows[d]
    BY <1>3, NewRow DEF PublishInv, ScalpPublishes
  <2>2. Setups' = Setups
    <3>1. \A d \in Calls : ~Scalp(d) => rows'[d] = rows[d]
      BY <1>1, <2>1
    <3> QED BY <3>1 DEF Setups, Pending, Scalp
  <2>3. \A d \in Calls \ {c} : IsOpen(d)' => IsOpen(d)
    BY <2>1 DEF IsOpen
  <2>4. PendingIsBounded'
    BY <1>1, <2>2, <2>3
       DEF PublishInv, PublishingIsBounded, PendingIsBounded, Setups, Scalp, Pending
  <2>5. \A d \in Calls : Known(d)' /\ ~Scalp(d) => Known(d)
    BY <1>1, <2>1 DEF Known
  <2>6. OneSetupPerZone'
    BY <2>5 DEF PublishInv, PublishingIsBounded, OneSetupPerZone, Scalp, Zone
  <2> QED BY <1>1, <2>1, <2>4, <2>5, <2>6 DEF PublishInv, PublishingIsBounded, Zone, Scalp
<1> QED BY <1>2, <1>3

LEMMA PublishWork == PublishInv /\ Work => PublishInv'
<1> SUFFICES ASSUME PublishInv, Work PROVE PublishInv'
  OBVIOUS
<1>0. RowsTotal
  BY DEF PublishInv
<1>1. CASE SweepTick \/ SweepClose
  <2>1. PICK at, price : SweepOne(at, price)
    BY <1>1 DEF SweepTick, SweepClose
  <2>2. (rows' = rows \/ \E c, e : AppendEvent(c, e)) /\ UNCHANGED <<offers, used>>
    BY <2>1 DEF SweepOne, Cancel, ledgerVars
  <2> QED BY <1>0, <2>2, StillWithdraws, AppendWithdraws, OtherStepKeeps
<1>2. CASE Refresh \/ PlanAny \/ EndTick \/ StartPass \/ StartResolving
  <2>1. UNCHANGED <<rows, offers, used>>
    BY <1>2 DEF Refresh, PlanAny, Plan, EndTick, StartPass, StartResolving, ledgerVars,
                passVars, producerVars
  <2> QED BY <1>0, <2>1, StillWithdraws, OtherStepKeeps
<1>3. CASE Resolve
  <2>1. PICK c \in Calls : \/ MarkResolution(c) \/ ResolveMinute(c)
                           \/ ResolveDeadline(c) \/ ResolveLater(c)
    BY <1>3 DEF Resolve
  <2>2. rows' = rows \/ \E e : AppendEvent(c, e)
    BY <2>1 DEF MarkResolution, ResolveMinute, ResolveDeadline, ResolveLater, EvaluateMinute,
                SkipClosure, VoidGap, ConsumeBar, Deadline, Advance, ledgerVars
  <2>3. UNCHANGED <<offers, used>>
    BY <2>1 DEF MarkResolution, ResolveMinute, ResolveDeadline, ResolveLater, resolveFrame,
                producerVars
  <2> QED BY <1>0, <2>2, <2>3, StillWithdraws, AppendWithdraws, OtherStepKeeps
<1>4. CASE Construct
  <2>1. CASE \E c \in Calls : ConstructPublishes(c)
    BY <2>1, SetupKeeps
  <2>2. CASE \/ \E S \in SUBSET Calls : StartConstructing(S)
             \/ \E c \in Calls : ConstructRejects(c)
             \/ EndConstructing
    <3>1. rows' = rows /\ used' = used
      BY <2>2 DEF StartConstructing, ConstructRejects, EndConstructing, ledgerVars, producerVars
    <3>2. offers' \subseteq {c \in Calls : ~Scalp(c)}
      BY <2>2 DEF StartConstructing, ConstructRejects, EndConstructing, PublishInv
    <3> QED BY <1>0, <3>1, <3>2, StillWithdraws, WithdrawalKeeps DEF PublishInv
  <2> QED BY <1>4, <2>1, <2>2 DEF Construct
<1>5. CASE ScalpPass
  <2>1. CASE ScalpNone
    <3>1. UNCHANGED <<rows, offers, used>>
      BY <2>1 DEF ScalpNone, EndPass, ledgerVars, producerVars
    <3> QED BY <1>0, <3>1, StillWithdraws, OtherStepKeeps
  <2> QED BY <1>5, <2>1, ScalpCallKeeps DEF ScalpPass
<1> QED BY <1>1, <1>2, <1>3, <1>4, <1>5 DEF Work

LEMMA PublishStep == PublishInv /\ [Next]_vars => PublishInv'
<1> SUFFICES ASSUME PublishInv, [Next]_vars PROVE PublishInv'
  OBVIOUS
<1>1. CASE Work
  BY <1>1, PublishWork
<1>2. CASE Feed \/ UNCHANGED vars
  <2>1. UNCHANGED <<rows, offers, used>>
    BY <1>2 DEF Feed, Store, Tick, ledgerVars, passVars, producerVars, vars
  <2> QED BY <2>1, StillWithdraws, OtherStepKeeps DEF PublishInv
<1>3. CASE Restart
  <2>1. rows' = rows /\ offers' = {} /\ used' = PublishedZones
    BY <1>3 DEF Restart, ledgerVars
  <2>2. \A c \in Calls : Known(c) /\ ~Scalp(c) => Zone(c) \in used'
    BY <2>1 DEF PublishedZones
  <2> QED BY <2>1, <2>2, StillWithdraws, WithdrawalKeeps DEF PublishInv
<1> QED BY <1>1, <1>2, <1>3 DEF Next

LEMMA PublishInit == Init => PublishInv
<1> SUFFICES ASSUME Init PROVE PublishInv
  OBVIOUS
<1>1. RowsTotal /\ \A c \in Calls : rows[c].state = "NONE"
  BY DEF Init, LedgerInit, NoRow, RowsTotal
<1>2. {c \in Pending : ~Scalp(c)} = {}
  BY <1>1 DEF Pending
<1>3. Cardinality({}) = 0 /\ MaxPending \in Nat
  BY FS_EmptySet, ServiceConstants DEF ServiceConstants
<1>4. PendingIsBounded
  BY <1>1, <1>2, <1>3 DEF PendingIsBounded, IsOpen, Open
<1>5. OneSetupPerZone
  BY <1>1 DEF OneSetupPerZone, Known
<1>6. offers = {}
  BY DEF Init
<1> QED BY <1>1, <1>4, <1>5, <1>6 DEF PublishInv, PublishingIsBounded, Known

\* A confirmed zone yields one published setup ever, setups wait in numbers up to
\* max_pending and scalps one per timeframe: for any calls, and although every
\* restart replays the closes that constructed them.
THEOREM PublishingBounded == Spec => []PublishingIsBounded
<1>1. PublishInv => PublishingIsBounded
  BY DEF PublishInv
<1> QED BY PublishInit, PublishStep, <1>1, PTL DEF Spec

-----------------------------------------------------------------------------
(* The clock and the jobs.                                                 *)

JobType == [tf : TFs, from : Nat, to : Nat, replay : BOOLEAN]

InPass == {"stale", "resolve", "construct", "scalp"}

\* Bars open at multiples of their length and not after now.
OpeningsPast ==
    /\ opening \in [TFs -> Nat \cup {Unset}]
    /\ \A tf \in TFs : opening[tf] # Unset =>
           opening[tf] \in MultipleOf(BarSpan(tf)) /\ opening[tf] <= now

JobsPast ==
    /\ jobs \subseteq JobType
    /\ \A j \in jobs : j.to <= now
    /\ worker \in InPass => jobs # {}

\* What a pass may read has been stored, and what is stored lies in the past.
StorePast ==
    /\ stored \subseteq Minutes
    /\ \A m \in stored : m <= now \div Minute
    /\ recent \subseteq stored /\ history \subseteq stored

ClockIInv ==
    /\ now \in 0 .. MaxNow
    /\ worker \in Controls
    /\ OpeningsPast /\ JobsPast /\ StorePast

LEMMA MinuteIsNat == Minute \in Nat \ {0} /\ LastMinute \in Nat /\ Minutes \subseteq Nat
  BY ResolverConstants DEF ResolverConstants, Minutes

LEMMA SpanIsNat == ASSUME NEW tf \in TFs PROVE BarSpan(tf) \in Nat \ {0}
<1>1. BarMinutes[tf] \in Nat \ {0}
  BY ServiceConstants DEF ServiceConstants
<1>2. \A a, b \in Nat \ {0} : a * b \in Nat \ {0}
  OBVIOUS
<1> QED BY <1>1, <1>2, MinuteIsNat DEF BarSpan

LEMMA OpeningFacts ==
    ASSUME NEW tf \in TFs, NEW t \in Nat
    PROVE  /\ Opening(tf, t) \in MultipleOf(BarSpan(tf))
           /\ Opening(tf, t) \in Nat
           /\ Opening(tf, t) <= t
           /\ t < Opening(tf, t) + BarSpan(tf)
  BY SpanIsNat, FloorFacts DEF Opening

\* A bar that opened at a multiple, and is not the bar of now, has closed.
LEMMA ClosedByNow ==
    ASSUME NEW tf \in TFs, NEW t \in Nat, NEW o \in MultipleOf(BarSpan(tf)), o <= t,
           o # Opening(tf, t)
    PROVE  o + BarSpan(tf) <= Opening(tf, t)
<1> DEFINE p == Opening(tf, t)
<1>1. p \in MultipleOf(BarSpan(tf)) /\ p \in Nat /\ t < p + BarSpan(tf)
  BY OpeningFacts
<1>2. o \in Nat /\ BarSpan(tf) \in Nat \ {0}
  BY SpanIsNat, MultipleFacts
<1> HIDE DEF p
<1>3. ~(p < o)
  <2> SUFFICES ASSUME p < o PROVE FALSE
    OBVIOUS
  <2>1. p + BarSpan(tf) <= o
    BY <1>1, <1>2, MultiplesApart
  <2> QED BY <1>1, <1>2, <2>1
<1>4. o < p
  BY <1>1, <1>2, <1>3 DEF p
<1> QED BY <1>1, <1>2, <1>4, MultiplesApart DEF p

LEMMA PositionFacts ==
    ASSUME NEW tf \in TFs
    PROVE  Position(tf) \in Nat /\ TfOrder[Position(tf)] = tf
<1>1. \E i \in DOMAIN TfOrder : TfOrder[i] = tf
  BY ServiceConstants DEF ServiceConstants
<1>2. DOMAIN TfOrder \subseteq Nat
  BY ServiceConstants DEF ServiceConstants
<1> QED BY <1>1, <1>2 DEF Position

\* There is a next job: of the first timeframe, the oldest.
LEMMA JobIsAJob ==
    ASSUME jobs \subseteq JobType, jobs # {}
    PROVE  job \in jobs
<1> DEFINE P == {Position(j.tf) : j \in jobs}
<1>1. P \in SUBSET Nat /\ P # {}
  BY PositionFacts DEF JobType
<1>2. PICK p \in P : \A q \in P : p <= q
  BY <1>1, LeastElement
<1> DEFINE F == {j.from : j \in {k \in jobs : Position(k.tf) = p}}
<1>3. F \in SUBSET Nat /\ F # {}
  BY DEF JobType
<1>4. PICK f \in F : \A g \in F : f <= g
  BY <1>3, LeastElement
<1>5. PICK j \in jobs : Position(j.tf) = p /\ j.from = f
  OBVIOUS
<1>6. ASSUME NEW k \in jobs
      PROVE  Precedes(j, k)
  <2>1. Position(k.tf) \in P /\ p \in Nat /\ Position(k.tf) \in Nat
    BY <1>1
  <2>2. CASE Position(k.tf) = p
    <3>1. j.tf = k.tf
      BY <1>5, <2>2, PositionFacts DEF JobType
    <3>2. k.from \in F
      BY <2>2
    <3> QED BY <1>4, <1>5, <3>1, <3>2 DEF Precedes
  <2>3. CASE Position(k.tf) # p
    BY <1>2, <1>5, <2>1, <2>3 DEF Precedes
  <2> QED BY <2>2, <2>3
<1> QED BY <1>6 DEF job

LEMMA JobFacts ==
    ASSUME ClockIInv, worker \in InPass
    PROVE  /\ job \in JobType /\ job.to <= now
           /\ JobNow \in Nat /\ JobNow <= now
           /\ JobView \subseteq stored
<1>1. job \in jobs
  BY JobIsAJob DEF ClockIInv, JobsPast
<1>2. job \in JobType /\ job.to <= now /\ now \in Nat
  BY <1>1 DEF ClockIInv, JobsPast
<1>3. JobView \subseteq stored
  BY DEF JobView, ClockIInv, StorePast
<1> QED BY <1>2, <1>3 DEF JobNow, JobType

\* A minute that began by a time is at most the minute of that time.
LEMMA MinuteOf ==
    ASSUME NEW m \in Nat, NEW t \in Nat, m * Minute <= t
    PROVE  m <= t \div Minute
<1> DEFINE q == t \div Minute
<1>1. q \in Nat /\ t < q * Minute + Minute
  BY MinuteIsNat, FloorFacts
<1> HIDE DEF q
<1>2. ASSUME q < m
      PROVE  FALSE
  <2>1. q * Minute \in Nat /\ m * Minute \in Nat /\ q * Minute + Minute <= m * Minute
    BY <1>1, <1>2, TimesGrow, MinuteIsNat
  <2> QED BY <1>1, <2>1, MinuteIsNat
<1> QED BY <1>1, <1>2 DEF q

LEMMA MinutesGrow ==
    ASSUME NEW t \in Nat, NEW u \in Nat, t <= u
    PROVE  t \div Minute <= u \div Minute
<1>1. t \div Minute \in Nat /\ (t \div Minute) * Minute <= t /\ (t \div Minute) * Minute \in Nat
  BY MinuteIsNat, FloorFacts
<1> QED BY <1>1, MinuteOf

LEMMA ClockFramed ==
    ASSUME ClockIInv, UNCHANGED <<now, opening, jobs, stored, recent, history>>,
           worker' \in Controls, worker' \in InPass => jobs # {}
    PROVE  ClockIInv'
  BY DEF ClockIInv, OpeningsPast, JobsPast, StorePast

LEMMA ClockInit == Init => ClockIInv
<1> SUFFICES ASSUME Init
             PROVE  ClockIInv
  OBVIOUS
<1>1. StartMinute \in Nat \ {0} /\ StartMinute <= LastMinute
  BY ServiceConstants, MinuteIsNat DEF ServiceConstants, Minutes
<1> DEFINE open == StartMinute * Minute  end == (LastMinute + 1) * Minute
<1>0. now = open - 1 /\ stored = 0 .. StartMinute - 1 /\ recent = {} /\ history = stored
  BY DEF Init
<1>2. open \in Nat /\ end \in Nat /\ open + Minute <= end
  BY <1>1, TimesGrow, MinuteIsNat
<1>3. open \in Nat \ {0}
  <2>1. 0 * Minute = 0 /\ 0 * Minute + Minute <= open
    BY <1>1, TimesGrow, MinuteIsNat
  <2> QED BY <1>2, <2>1, MinuteIsNat
<1>4. MaxNow = end - 1
  BY DEF MaxNow
<1>5. StorePast
  <2>1. ASSUME NEW m \in 0 .. StartMinute - 1
        PROVE  m \in Minutes /\ m <= now \div Minute
    <3>1. m \in Nat /\ m < StartMinute
      BY <1>1
    <3>2. m * Minute \in Nat /\ m * Minute + Minute <= open
      BY <1>1, <3>1, TimesGrow, MinuteIsNat
    <3> HIDE DEF open
    <3>3. m * Minute <= now /\ now \in Nat
      BY <1>0, <1>3, <3>2, MinuteIsNat
    <3> QED BY <1>1, <3>1, <3>3, MinuteOf, MinuteIsNat DEF Minutes
  <2> QED BY <1>0, <2>1 DEF StorePast
<1>6. OpeningsPast /\ JobsPast
  BY DEF Init, OpeningsPast, JobsPast, InPass, Unset
<1>7. now \in 0 .. MaxNow
  <2> HIDE DEF open, end
  <2> QED BY <1>0, <1>2, <1>3, <1>4, MinuteIsNat
<1>8. worker \in Controls
  BY DEF Init, Controls
<1> QED BY <1>5, <1>6, <1>7, <1>8 DEF ClockIInv

LEMMA ClockOfFeed ==
    ASSUME ClockIInv, Feed
    PROVE  ClockIInv'
<1>1. ASSUME NEW m \in Minutes, Store(m)
      PROVE  ClockIInv'
  <2>1. m \in Nat /\ m * Minute <= now /\ now \in Nat
    <3>1. m \in Nat /\ now \in Nat /\ (m + 1) * Minute <= now
      BY <1>1, MinuteIsNat DEF Store, ClockIInv
    <3>2. (m + 1) * Minute = m * Minute + Minute /\ m * Minute \in Nat
      BY <3>1, MinuteIsNat
    <3> QED BY <3>1, <3>2, MinuteIsNat
  <2>2. m <= now \div Minute
    BY <2>1, MinuteOf
  <2>3. stored' = stored \cup {m} /\ UNCHANGED <<now, opening, jobs, recent, history, worker>>
    BY <1>1 DEF Store, tickVars, viewVars, barVars, passVars
  <2> QED BY <2>2, <2>3 DEF ClockIInv, OpeningsPast, JobsPast, StorePast
<1>2. ASSUME NEW t \in 0 .. MaxNow, NEW shape, NEW price, Tick(t, shape, price)
      PROVE  ClockIInv'
  <2>1. /\ now' = t /\ t > now /\ worker' = "sweep"
        /\ UNCHANGED <<stored, opening, jobs, recent, history>>
    BY <1>2 DEF Tick, viewVars, barVars, passVars
  <2>2. now \in Nat /\ t \in Nat /\ MaxNow \in Int
    BY MinuteIsNat DEF ClockIInv, MaxNow
  <2>3. now \div Minute <= t \div Minute /\ now \div Minute \in Nat /\ t \div Minute \in Nat
    BY <2>1, <2>2, MinutesGrow, MinuteIsNat, FloorFacts
  <2>4. OpeningsPast'
    <3>1. ASSUME NEW tf \in TFs, opening[tf] # Unset
          PROVE  opening[tf] \in MultipleOf(BarSpan(tf)) /\ opening[tf] <= t
      BY <2>1, <2>2, <3>1 DEF ClockIInv, OpeningsPast
    <3> QED BY <2>1, <3>1 DEF ClockIInv, OpeningsPast
  <2>5. JobsPast'
    BY <2>1, <2>2 DEF ClockIInv, JobsPast, JobType, InPass
  <2>6. StorePast'
    <3>1. \A m \in stored : m \in Nat /\ m <= t \div Minute
      BY <2>3, MinuteIsNat DEF ClockIInv, StorePast
    <3> QED BY <2>1, <3>1 DEF ClockIInv, StorePast
  <2> QED BY <2>1, <2>4, <2>5, <2>6 DEF ClockIInv, Controls
<1> QED BY <1>1, <1>2 DEF Feed

LEMMA ClockOfPlan ==
    ASSUME ClockIInv, PlanAny
    PROVE  ClockIInv'
<1>1. PICK ready, lost : Plan(ready, lost)
  BY DEF PlanAny
<1>2. /\ jobs' = UNION {JobsOf(tf, ready, lost) : tf \in Reached}
      /\ worker' = "jobs"
      /\ UNCHANGED <<stored, now, recent, history>>
  BY <1>1 DEF Plan, feedVars, tickVars, viewVars
<1>3. ASSUME NEW tf \in TFs
      PROVE  /\ opening'[tf] = opening[tf] \/ opening'[tf] = Opening(tf, now)
             /\ DOMAIN opening' = TFs
  BY <1>1 DEF Plan
<1>4. now \in Nat
  BY DEF ClockIInv
<1>5. OpeningsPast'
  <2>1. \A tf \in TFs : opening'[tf] \in Nat \cup {Unset}
    BY <1>3, <1>4, OpeningFacts DEF ClockIInv, OpeningsPast
  <2>2. opening' \in [TFs -> Nat \cup {Unset}]
    BY <1>1, <2>1 DEF Plan
  <2>3. \A tf \in TFs : opening'[tf] # Unset =>
            opening'[tf] \in MultipleOf(BarSpan(tf)) /\ opening'[tf] <= now
    BY <1>3, <1>4, OpeningFacts DEF ClockIInv, OpeningsPast
  <2> QED BY <1>2, <2>2, <2>3 DEF OpeningsPast
<1>6. ASSUME NEW tf \in TFs, NEW j \in JobsOf(tf, ready, lost)
      PROVE  j \in JobType /\ j.to <= now
  <2>1. ASSUME NEW f \in Nat, NEW r \in BOOLEAN, f + BarSpan(tf) <= Opening(tf, now)
        PROVE  Job(tf, f, r) \in JobType /\ Job(tf, f, r).to <= now
    <3>1. f + BarSpan(tf) \in Nat /\ f + BarSpan(tf) <= now
      BY <1>4, <2>1, SpanIsNat, OpeningFacts
    <3> QED BY <3>1 DEF Job, JobType
  <2>2. CASE j \in ReplayJobs(tf)
    <3>1. PICK k \in Minutes : /\ k * BarSpan(tf) + BarSpan(tf) <= Opening(tf, now)
                               /\ j = Job(tf, k * BarSpan(tf), TRUE)
      BY <2>2 DEF ReplayJobs, Newest
    <3>2. k * BarSpan(tf) \in Nat
      BY <3>1, SpanIsNat, MinuteIsNat
    <3> QED BY <2>1, <3>1, <3>2
  <2>3. CASE j = Job(tf, opening[tf], FALSE) /\ opening[tf] # Unset
             /\ opening[tf] # Opening(tf, now)
    <3>1. opening[tf] \in MultipleOf(BarSpan(tf)) /\ opening[tf] <= now /\ opening[tf] \in Nat
      BY <2>3 DEF ClockIInv, OpeningsPast
    <3> QED BY <1>4, <2>1, <2>3, <3>1, ClosedByNow
  <2> QED BY <2>2, <2>3 DEF JobsOf
<1>7. JobsPast'
  <2>1. \A j \in jobs' : \E tf \in TFs : j \in JobsOf(tf, ready, lost)
    BY <1>2, ServiceConstants DEF Reached, ServiceConstants
  <2>2. \A j \in jobs' : j \in JobType /\ j.to <= now
    BY <1>6, <2>1
  <2> QED BY <1>2, <2>2 DEF JobsPast, InPass
<1> QED BY <1>2, <1>5, <1>7 DEF ClockIInv, StorePast, Controls

LEMMA SweepFrame ==
    ASSUME NEW at, NEW price, SweepOne(at, price)
    PROVE  /\ UNCHANGED <<market, consumed, refused, stored, now, recent, history, opening,
                          sequence, jobs, index, offers, used, spent>>
           /\ worker' \in {worker, "failed"}
  BY DEF SweepOne, Fails

LEMMA ClockOfWork ==
    ASSUME ClockIInv, Work
    PROVE  ClockIInv'
<1> DEFINE frame == <<now, opening, jobs, stored, recent, history>>
<1>1. CASE SweepTick \/ SweepClose
  <2>1. UNCHANGED frame /\ worker' \in {worker, "failed"}
    BY <1>1, SweepFrame DEF SweepTick, SweepClose
  <2>2. worker' \in Controls /\ (worker' \in InPass => jobs # {})
    BY <2>1 DEF ClockIInv, JobsPast, InPass, Controls
  <2> QED BY <2>1, <2>2, ClockFramed
<1>2. CASE Refresh
  <2>1. /\ UNCHANGED <<now, opening, jobs, stored, history>>
        /\ recent' = recent \/ recent' = Newest(stored, RecentCap)
        /\ worker' \in {"plan", "failed"}
    BY <1>2 DEF Refresh, Fails, feedVars, barVars, passVars
  <2> QED BY <2>1 DEF ClockIInv, OpeningsPast, JobsPast, StorePast, Newest, Controls, InPass
<1>3. CASE PlanAny
  BY <1>3, ClockOfPlan
<1>4. CASE EndTick
  <2>1. UNCHANGED frame /\ worker' \in {"idle", "failed"}
    BY <1>4 DEF EndTick, Fails, feedVars, tickVars, viewVars, barVars, passVars
  <2> QED BY <2>1, ClockFramed DEF Controls, InPass
<1>5. CASE StartPass
  <2>1. UNCHANGED frame /\ worker' = "stale" /\ jobs # {}
    BY <1>5 DEF StartPass, feedVars, tickVars, viewVars, barVars, passVars
  <2> QED BY <2>1, ClockFramed DEF Controls, InPass
<1>6. CASE StartResolving
  <2>1. UNCHANGED frame /\ worker = "stale" /\ worker' = "resolve"
    BY <1>6 DEF StartResolving, feedVars, tickVars, viewVars, barVars
  <2> QED BY <2>1, ClockFramed DEF Controls, InPass, ClockIInv, JobsPast
<1>7. CASE Resolve
  <2>1. UNCHANGED <<now, opening, jobs, stored, recent, history, worker>>
    BY <1>7 DEF Resolve, MarkResolution, ResolveMinute, ResolveDeadline, ResolveLater,
                resolveFrame, feedVars, tickVars, viewVars, barVars
  <2> QED BY <2>1, ClockFramed DEF ClockIInv, JobsPast
<1>8. CASE Construct
  <2>1. UNCHANGED frame /\ worker \in {"resolve", "construct"}
        /\ worker' \in {"construct", "scalp", "failed"}
    BY <1>8 DEF Construct, StartConstructing, ConstructRejects, ConstructPublishes,
                EndConstructing, Fails, constructFrame, feedVars, tickVars, viewVars, barVars
  <2> QED BY <2>1, ClockFramed DEF Controls, InPass, ClockIInv, JobsPast
<1>9. CASE ScalpPass
  <2>1. /\ UNCHANGED <<now, opening, stored, recent, history>>
        /\ jobs' = jobs \ {job} /\ worker' \in {"jobs", "failed"}
    BY <1>9 DEF ScalpPass, ScalpNone, ScalpPublishes, EndPass, Fails, feedVars, tickVars,
                viewVars, barVars
  <2> QED BY <2>1 DEF ClockIInv, OpeningsPast, JobsPast, StorePast, Controls, InPass
<1> QED BY <1>1, <1>2, <1>3, <1>4, <1>5, <1>6, <1>7, <1>8, <1>9 DEF Work

LEMMA ClockStep == ClockIInv /\ [Next]_vars => ClockIInv'
<1> SUFFICES ASSUME ClockIInv, [Next]_vars
             PROVE  ClockIInv'
  OBVIOUS
<1>1. CASE Feed \/ Work
  BY <1>1, ClockOfFeed, ClockOfWork
<1>2. CASE Restart
  <2>1. /\ UNCHANGED <<now, stored>> /\ worker' = "idle" /\ recent' = {} /\ history' = stored
        /\ opening' = [tf \in TFs |-> Unset] /\ jobs' = {}
    BY <1>2 DEF Restart, feedVars
  <2> QED BY <2>1 DEF ClockIInv, OpeningsPast, JobsPast, StorePast, Controls, InPass
<1>3. CASE UNCHANGED vars
  BY <1>3, ClockFramed DEF vars, ClockIInv, JobsPast
<1> QED BY <1>1, <1>2, <1>3 DEF Next

LEMMA ClockAlways == Spec => []ClockIInv
  BY ClockInit, ClockStep, PTL DEF Spec
-----------------------------------------------------------------------------
(* The times of a pass: it evaluates whole minutes of a life, none beyond  *)
(* its clock.                                                              *)

LEMMA CallTimes ==
    ASSUME NEW c \in Calls
    PROVE  /\ Created[c] \in Nat /\ Expires[c] \in Nat /\ Expires[c] <= MaxTime
           /\ EvalFrom(c) \in MultipleOf(Minute) /\ EvalFrom(c) \in Nat
           /\ Created[c] <= EvalFrom(c)
           /\ EvalTo(c) \in MultipleOf(Minute) /\ EvalTo(c) \in Nat
           /\ EvalTo(c) <= Expires[c]
<1>1. Created[c] \in Nat /\ Expires[c] \in Nat /\ Expires[c] <= MaxTime /\ MaxTime \in Nat
  BY LedgerConstants DEF LedgerConstants, Time
<1>2. Created[c] + Minute - 1 \in Nat
  BY <1>1, MinuteIsNat
<1>3. /\ EvalFrom(c) \in MultipleOf(Minute) /\ EvalFrom(c) \in Nat
      /\ Created[c] + Minute - 1 < EvalFrom(c) + Minute
  BY <1>2, MinuteIsNat, FloorFacts DEF EvalFrom, FloorMinute
<1>4. EvalTo(c) \in MultipleOf(Minute) /\ EvalTo(c) \in Nat /\ EvalTo(c) <= Expires[c]
  BY <1>1, MinuteIsNat, FloorFacts DEF EvalTo, FloorMinute
<1>5. Created[c] <= EvalFrom(c)
  BY <1>1, <1>3, MinuteIsNat
<1> QED BY <1>1, <1>3, <1>4, <1>5

LEMMA CoverageFacts ==
    ASSUME NEW c \in Calls, NEW view \in SUBSET Minutes
    PROVE  /\ CoverageThrough(c, view) \in Nat
           /\ \/ CoverageThrough(c, view) = EvalFrom(c)
              \/ \E m \in Relevant(c, view) : CoverageThrough(c, view) = m * Minute + Minute
<1>1. CASE Relevant(c, view) = {}
  BY <1>1, CallTimes DEF CoverageThrough
<1>2. CASE Relevant(c, view) # {}
  <2> DEFINE m == Max(Relevant(c, view))
  <2>1. Relevant(c, view) \in SUBSET Nat /\ \A k \in Relevant(c, view) : k <= LastMinute
    <3>1. \A k \in Minutes : k \in Nat /\ k <= LastMinute
      BY MinuteIsNat DEF Minutes
    <3>2. Relevant(c, view) \subseteq Minutes
      BY DEF Relevant
    <3> QED BY <3>1, <3>2
  <2>2. m \in Relevant(c, view) /\ m \in Nat
    BY <1>2, <2>1, MaxOfNats, MinuteIsNat
  <2>3. CoverageThrough(c, view) = (m + 1) * Minute
    BY <1>2 DEF CoverageThrough
  <2> HIDE DEF m
  <2>4. (m + 1) * Minute = m * Minute + Minute /\ m * Minute \in Nat
    BY <2>2, MinuteIsNat
  <2> QED BY <2>2, <2>3, <2>4, MinuteIsNat
<1> QED BY <1>1, <1>2

\* A pass ends within the life, within its clock and within what it read.
LEMMA LimitFacts ==
    ASSUME NEW c \in Calls, NEW view \in SUBSET Minutes, NEW at \in Nat
    PROVE  /\ Limit(c, view, at) \in MultipleOf(Minute) /\ Limit(c, view, at) \in Nat
           /\ Limit(c, view, at) <= EvalTo(c)
           /\ Limit(c, view, at) <= at
           /\ Limit(c, view, at) <= CoverageThrough(c, view)
<1> DEFINE through == CoverageThrough(c, view)
           clock == Smaller(at, through)
<1>1. through \in Nat
  BY CoverageFacts
<1>2. clock \in Nat /\ clock <= at /\ clock <= through
  BY <1>1 DEF Smaller
<1>3. /\ FloorMinute(clock) \in MultipleOf(Minute) /\ FloorMinute(clock) \in Nat
      /\ FloorMinute(clock) <= clock
  BY <1>2, MinuteIsNat, FloorFacts DEF FloorMinute
<1>4. Limit(c, view, at) = Smaller(EvalTo(c), FloorMinute(clock))
  BY DEF Limit
<1>5. Limit(c, view, at) \in {EvalTo(c), FloorMinute(clock)}
  BY <1>4 DEF Smaller
<1>6. Limit(c, view, at) <= EvalTo(c) /\ Limit(c, view, at) <= FloorMinute(clock)
  BY <1>3, <1>4, CallTimes DEF Smaller
<1> HIDE DEF clock
<1>7. Limit(c, view, at) <= at /\ Limit(c, view, at) <= through
  BY <1>1, <1>2, <1>3, <1>5, <1>6, CallTimes
<1> QED BY <1>3, <1>5, <1>6, <1>7, CallTimes

-----------------------------------------------------------------------------
(* Every step of the service does one of five things to the ledger and the *)
(* evidence.                                                               *)

EvidenceTyped ==
    /\ market \in [Minutes -> Shapes \cup {"NO_TRADE", "FUTURE"}]
    /\ consumed \in [Calls -> SUBSET Minutes]
    /\ refused \in [Calls -> SUBSET Minutes]

\* A stored minute keeps its bar.
QuietStep ==
    /\ UNCHANGED <<ledgerVars, evidence>>
    /\ stored \subseteq stored'
    /\ \A m \in stored : market'[m] = market[m]
    /\ market' \in [Minutes -> Shapes \cup {"NO_TRADE", "FUTURE"}]

CreateStep == /\ \E c \in Calls : Create(c)
              /\ worker \in {"construct", "scalp"}
              /\ UNCHANGED <<evidence, market, stored>>

CancelStep == /\ \E c \in Calls, at \in 0 .. MaxNow : Cancel(c, "CANCEL_REASON", at)
              /\ worker \in {"sweep", "stale"}
              /\ UNCHANGED <<evidence, market, stored>>

MinuteStep == /\ \E c \in Calls : EvaluateMinute(c, JobView, JobNow)
              /\ worker = "resolve"
              /\ UNCHANGED <<market, stored>>

DeadlineStep == /\ \E c \in Calls : Deadline(c, JobView, JobNow)
                /\ worker = "resolve"
                /\ UNCHANGED <<market, stored>>

LEMMA FeedIsQuiet ==
    ASSUME ClockIInv, EvidenceTyped, Feed
    PROVE  QuietStep
<1>1. ASSUME NEW m \in Minutes, Store(m)
      PROVE  QuietStep
  BY <1>1 DEF Store, QuietStep, EvidenceTyped
<1>2. ASSUME NEW t \in 0 .. MaxNow, NEW shape \in Shapes, NEW price, Tick(t, shape, price)
      PROVE  QuietStep
  <2> DEFINE m == t \div Minute  last == now \div Minute
  <2>1. now \in Nat /\ t \in Nat /\ now <= t
    BY <1>2, MinuteIsNat DEF ClockIInv, Tick, MaxNow
  <2>2. m \in Nat /\ last \in Nat /\ last <= m
    BY <2>1, MinutesGrow, FloorFacts, MinuteIsNat
  <2>3. /\ market' = [k \in Minutes |-> CASE k = m -> shape
                                          [] last < k /\ k < m -> "NO_TRADE"
                                          [] OTHER -> market[k]]
        /\ m = last => shape = market[m]
        /\ UNCHANGED <<ledgerVars, evidence, stored>>
    BY <1>2 DEF Tick
  <2> HIDE DEF m, last
  <2>4. market' \in [Minutes -> Shapes \cup {"NO_TRADE", "FUTURE"}]
    BY <2>3 DEF EvidenceTyped
  <2>5. ASSUME NEW k \in stored
        PROVE  market'[k] = market[k]
    <3>1. k \in Minutes /\ k \in Nat /\ k <= last
      BY MinuteIsNat DEF ClockIInv, StorePast, last
    <3>2. CASE k = m
      BY <2>2, <2>3, <3>1, <3>2
    <3>3. CASE k # m
      BY <2>2, <2>3, <3>1, <3>3
    <3> QED BY <3>2, <3>3
  <2> QED BY <2>3, <2>4, <2>5 DEF QuietStep
<1> QED BY <1>1, <1>2 DEF Feed

\* A step of the thread that leaves ledger, evidence and feed alone.
LEMMA StillIsQuiet ==
    ASSUME EvidenceTyped, UNCHANGED <<ledgerVars, evidence, market, stored>>
    PROVE  QuietStep
  BY DEF QuietStep, EvidenceTyped

LEMMA SweepKind ==
    ASSUME ClockIInv, EvidenceTyped, NEW at \in 0 .. MaxNow, NEW price, SweepOne(at, price),
           worker \in {"sweep", "stale"}, LedgerTypeOK
    PROVE  QuietStep \/ CancelStep
<1>1. PICK c \in FirstStale(at, price) :
        IF at >= Created[c]
          THEN Cancel(c, "CANCEL_REASON", at)
          ELSE UNCHANGED ledgerVars
  BY DEF SweepOne
<1>2. UNCHANGED <<evidence, market, stored>>
  BY DEF SweepOne, evidence
<1>3. c \in Calls
  <2> DEFINE hits == {i \in 1 .. Len(book) : Stale(book[i], at, price)}
  <2>1. hits \in SUBSET Nat /\ hits # {} /\ c = book[Min(hits)]
    BY <1>1 DEF FirstStale
  <2>2. Min(hits) \in hits
    <3> HIDE DEF hits
    <3> QED BY <2>1, MinOfNats
  <2> QED BY <2>1, <2>2 DEF LedgerTypeOK
<1>4. CASE at >= Created[c]
  BY <1>1, <1>2, <1>3, <1>4 DEF CancelStep
<1>5. CASE ~(at >= Created[c])
  BY <1>1, <1>2, <1>5, StillIsQuiet
<1> QED BY <1>4, <1>5

LEMMA StepKind ==
    ASSUME ClockIInv, EvidenceTyped, LedgerTypeOK, [Next]_vars
    PROVE  QuietStep \/ CreateStep \/ CancelStep \/ MinuteStep \/ DeadlineStep
<1> DEFINE still == UNCHANGED <<ledgerVars, evidence, market, stored>>
<1>1. CASE Feed
  BY <1>1, FeedIsQuiet
<1>2. CASE SweepTick
  <2>1. now \in 0 .. MaxNow
    BY DEF ClockIInv
  <2> QED BY <1>2, <2>1, SweepKind DEF SweepTick
<1>3. CASE SweepClose
  <2>1. job \in JobType /\ job.to <= now
    BY <1>3, JobFacts DEF SweepClose, InPass
  <2>2. job.to \in 0 .. MaxNow
    BY <2>1, MinuteIsNat DEF JobType, ClockIInv, MaxNow
  <2> QED BY <1>3, <2>2, SweepKind DEF SweepClose
<1>4. CASE Refresh \/ PlanAny \/ EndTick \/ StartPass \/ StartResolving \/ ScalpNone
           \/ Restart \/ UNCHANGED vars
  <2>1. still
    BY <1>4 DEF Refresh, PlanAny, Plan, EndTick, StartPass, StartResolving, ScalpNone, EndPass,
                Restart, vars, feedVars, ledgerVars, evidence
  <2> QED BY <2>1, StillIsQuiet
<1>5. CASE Resolve
  <2>1. PICK c \in Calls : \/ MarkResolution(c) \/ ResolveLater(c)
                           \/ ResolveMinute(c) \/ ResolveDeadline(c)
    BY <1>5 DEF Resolve
  <2>2. CASE MarkResolution(c) \/ ResolveLater(c)
    <3>1. still
      BY <2>2 DEF MarkResolution, ResolveLater, resolveFrame, feedVars
    <3> QED BY <3>1, StillIsQuiet
  <2>3. CASE ResolveMinute(c)
    BY <2>3 DEF ResolveMinute, MinuteStep, Resolving, resolveFrame, feedVars
  <2>4. CASE ResolveDeadline(c)
    BY <2>4 DEF ResolveDeadline, DeadlineStep, Resolving, resolveFrame, feedVars
  <2> QED BY <2>1, <2>2, <2>3, <2>4
<1>6. CASE Construct
  <2>1. CASE \/ \E S \in SUBSET Calls : StartConstructing(S)
             \/ \E c \in Calls : ConstructRejects(c)
             \/ EndConstructing
    <3>1. still
      BY <2>1 DEF StartConstructing, ConstructRejects, EndConstructing, constructFrame, feedVars
    <3> QED BY <3>1, StillIsQuiet
  <2>2. CASE \E c \in Calls : ConstructPublishes(c)
    <3>1. PICK c \in Calls : ConstructPublishes(c)
      BY <2>2
    <3>2. CASE LongEnough(c)
      BY <3>1, <3>2 DEF ConstructPublishes, CreateStep, constructFrame, feedVars
    <3>3. CASE ~LongEnough(c)
      <4>1. still
        BY <3>1, <3>3 DEF ConstructPublishes, constructFrame, feedVars
      <4> QED BY <4>1, StillIsQuiet
    <3> QED BY <3>2, <3>3
  <2> QED BY <1>6, <2>1, <2>2 DEF Construct
<1>7. CASE \E c \in Calls : ScalpPublishes(c)
  <2>1. PICK c \in Calls : ScalpPublishes(c)
    BY <1>7
  <2>2. CASE LongEnough(c)
    BY <2>1, <2>2 DEF ScalpPublishes, EndPass, CreateStep, feedVars
  <2>3. CASE ~LongEnough(c)
    <3>1. still
      BY <2>1, <2>3 DEF ScalpPublishes, EndPass, feedVars
    <3> QED BY <3>1, StillIsQuiet
  <2> QED BY <2>2, <2>3
<1> QED BY <1>1, <1>2, <1>3, <1>4, <1>5, <1>6, <1>7 DEF Next, Work, ScalpPass
-----------------------------------------------------------------------------
(* The evidence of one call.                                               *)

\* Coverage resumes at a whole minute, everything before it was read or lay in a
\* closure, and nothing outside the life or beyond the coverage was read.
Covered(c) ==
    /\ Cursor(c) \in MultipleOf(Minute)
    /\ Within(EvalFrom(c), rows[c].covered) \subseteq consumed[c] \cup ClosedMinutes
    /\ \A m \in consumed[c] : /\ EvalFrom(c) <= m * Minute /\ m * Minute < EvalTo(c)
                              /\ m * Minute < rows[c].covered

Judged(c) ==
    LET state == rows[c].state  last == Max(consumed[c]) IN
    /\ rows[c].triggered <=> Fills(c) # {}
    /\ state \in {"PENDING", "NEVER_TRIGGERED", "CANCELLED"} => Fills(c) = {}
    /\ state \in {"ACTIVE", "SCRATCH"} => Fills(c) # {}
    /\ state \in {"WIN", "LOSS"} =>
         /\ Exits(c) = {last}
         /\ state = "LOSS" <=> TouchesInvalidation(c, last)
         /\ rows[c].ambiguous <=> TouchesInvalidation(c, last) /\ TouchesTarget(c, last)
    /\ state \notin {"WIN", "LOSS"} => Exits(c) = {}

Voided(c) ==
    rows[c].state = "VOID_DATA" =>
        /\ CursorMinute(c) \notin consumed[c] \cup ClosedMinutes
        /\ \E m \in stored : m > CursorMinute(c) /\ m * Minute < EvalTo(c)

CallInv(c) ==
    /\ refused[c] \subseteq consumed[c] /\ consumed[c] \subseteq stored
    /\ IF Known(c) THEN Covered(c) /\ Judged(c) /\ Voided(c)
                   ELSE consumed[c] = {}

EvidenceIInv ==
    /\ ClockIInv
    /\ LedgerIInv
    /\ EvidenceTyped
    /\ \A c \in Calls : CallInv(c)

LEMMA RowFacts ==
    ASSUME EvidenceIInv, NEW c \in Calls
    PROVE  /\ rows[c] \in Row /\ rows[c].covered \in Nat
           /\ consumed[c] \in SUBSET Minutes /\ refused[c] \in SUBSET Minutes
           /\ consumed[c] \in SUBSET Nat
           /\ \A m \in consumed[c] : m <= LastMinute
  BY RowTyped, MinuteIsNat DEF EvidenceIInv, LedgerIInv, EvidenceTyped, Row, Minutes

LEMMA CursorFacts ==
    ASSUME EvidenceIInv, NEW c \in Calls, Known(c)
    PROVE  /\ Cursor(c) \in MultipleOf(Minute) /\ Cursor(c) \in Nat
           /\ CursorMinute(c) \in Nat /\ CursorMinute(c) * Minute = Cursor(c)
           /\ CursorEnd(c) \in MultipleOf(Minute) /\ CursorEnd(c) \in Nat
           /\ EvalFrom(c) <= Cursor(c) /\ rows[c].covered <= Cursor(c)
           /\ Cursor(c) = EvalFrom(c) \/ Cursor(c) = rows[c].covered
<1>1. Cursor(c) \in MultipleOf(Minute)
  BY DEF EvidenceIInv, CallInv, Covered
<1>2. rows[c].covered \in Nat /\ EvalFrom(c) \in Nat
  BY RowFacts, CallTimes
<1>3. /\ EvalFrom(c) <= Cursor(c) /\ rows[c].covered <= Cursor(c)
      /\ Cursor(c) = EvalFrom(c) \/ Cursor(c) = rows[c].covered
  BY <1>2 DEF Cursor, Larger
<1>4. /\ Cursor(c) \in Nat
      /\ CursorMinute(c) \in Nat /\ CursorMinute(c) * Minute = Cursor(c)
      /\ CursorEnd(c) \in MultipleOf(Minute)
  BY <1>1, MultipleFacts, MinuteIsNat DEF CursorMinute, CursorEnd
<1>5. CursorEnd(c) \in Nat
  BY <1>4, MinuteIsNat DEF CursorEnd
<1> QED BY <1>1, <1>3, <1>4, <1>5

\* What is before the end of the cursor's minute is covered already or is it.
LEMMA WithinCursorEnd ==
    ASSUME EvidenceIInv, NEW c \in Calls, Known(c), NEW m \in Within(EvalFrom(c), CursorEnd(c))
    PROVE  m \in Within(EvalFrom(c), rows[c].covered) \/ m = CursorMinute(c)
<1>1. m \in Minutes /\ m \in Nat /\ EvalFrom(c) <= m * Minute /\ m * Minute < Cursor(c) + Minute
  BY MinuteIsNat DEF Within, CursorEnd
<1>2. m * Minute \in MultipleOf(Minute) /\ m * Minute \in Nat
  BY <1>1, MinuteIsNat DEF MultipleOf
<1> DEFINE q == CursorMinute(c)
<1>3. q \in Nat /\ q * Minute = Cursor(c) /\ Cursor(c) \in Nat
  BY CursorFacts
<1>4. CASE m * Minute < Cursor(c)
  <2>1. Cursor(c) # EvalFrom(c)
    BY <1>1, <1>2, <1>3, <1>4, CallTimes
  <2>2. m * Minute < rows[c].covered
    BY <1>4, <2>1, CursorFacts
  <2> QED BY <1>1, <2>2 DEF Within
<1>5. CASE ~(m * Minute < Cursor(c))
  <2> HIDE DEF q
  <2>1. ~(q < m)
    <3>1. ASSUME q < m PROVE FALSE
      <4>1. q * Minute + Minute <= m * Minute
        BY <1>1, <1>3, <3>1, TimesGrow, MinuteIsNat
      <4> QED BY <1>1, <1>2, <1>3, <4>1, MinuteIsNat
    <3> QED BY <3>1
  <2>2. ~(m < q)
    <3>1. ASSUME m < q PROVE FALSE
      <4>1. m * Minute + Minute <= q * Minute
        BY <1>1, <1>3, <3>1, TimesGrow, MinuteIsNat
      <4> QED BY <1>2, <1>3, <1>5, <4>1, MinuteIsNat
    <3> QED BY <3>1
  <2>3. m = q
    BY <1>1, <1>3, <2>1, <2>2
  <2> QED BY <2>3 DEF q
<1> QED BY <1>4, <1>5

\* Every evaluated minute lies before the cursor's.
LEMMA ReadBefore ==
    ASSUME EvidenceIInv, NEW c \in Calls, Known(c), NEW k \in consumed[c]
    PROVE  k \in Nat /\ k < CursorMinute(c)
<1> DEFINE q == CursorMinute(c)
<1>1. k \in Nat /\ q \in Nat /\ q * Minute = Cursor(c) /\ rows[c].covered <= Cursor(c)
      /\ Cursor(c) \in Nat /\ rows[c].covered \in Nat
  BY RowFacts, CursorFacts
<1>2. k * Minute < rows[c].covered /\ k * Minute \in Nat
  BY <1>1, MinuteIsNat DEF EvidenceIInv, CallInv, Covered
<1> HIDE DEF q
<1>3. ASSUME q < k PROVE FALSE
  <2>1. q * Minute + Minute <= k * Minute
    BY <1>1, <1>3, TimesGrow, MinuteIsNat
  <2> QED BY <1>1, <1>2, <2>1, MinuteIsNat
<1>4. q # k
  BY <1>1, <1>2
<1> QED BY <1>1, <1>3, <1>4 DEF q

-----------------------------------------------------------------------------
(* The calls a step does not touch.                                        *)

Untouched(c) ==
    /\ rows'[c] = rows[c] /\ consumed'[c] = consumed[c] /\ refused'[c] = refused[c]
    /\ \A m \in consumed[c] : market'[m] = market[m]
    /\ stored \subseteq stored'

LEMMA UntouchedKeeps ==
    ASSUME EvidenceIInv, NEW c \in Calls, Untouched(c)
    PROVE  CallInv(c)'
<1>1. CASE ~Known(c)
  BY <1>1 DEF EvidenceIInv, CallInv, Untouched, Known
<1>2. CASE Known(c)
  <2>1. CallInv(c)
    BY DEF EvidenceIInv
  <2>2. Cursor(c)' = Cursor(c) /\ CursorMinute(c)' = CursorMinute(c)
    BY DEF Untouched, Cursor, CursorMinute
  <2>3. Covered(c)' /\ Voided(c)'
    BY <1>2, <2>1, <2>2 DEF CallInv, Covered, Voided, Untouched
  <2>4. \A m \in consumed[c] : Bar(m)' = Bar(m)
    BY DEF Untouched, Bar
  <2>5. ASSUME NEW m \in consumed[c]
        PROVE  /\ TouchesEntry(c, m)' <=> TouchesEntry(c, m)
               /\ TouchesTarget(c, m)' <=> TouchesTarget(c, m)
               /\ TouchesInvalidation(c, m)' <=> TouchesInvalidation(c, m)
    BY <2>4 DEF TouchesEntry, TouchesTarget, TouchesInvalidation
  <2>6. Fills(c)' = Fills(c)
    BY <2>5 DEF Fills, Untouched
  <2>7. InTrade(c)' = InTrade(c) /\ InTrade(c) \subseteq consumed[c]
    BY <2>6 DEF InTrade, Untouched
  <2>8. Exits(c)' = Exits(c)
    BY <2>5, <2>7 DEF Exits
  <2>9. Exits(c) = {Max(consumed[c])} => Max(consumed[c]) \in consumed[c]
    BY <2>7 DEF Exits
  <2>10. Judged(c)'
    BY <1>2, <2>1, <2>5, <2>6, <2>8, <2>9 DEF CallInv, Judged, Untouched
  <2> QED BY <1>2, <2>1, <2>3, <2>10 DEF CallInv, Untouched, Known
<1> QED BY <1>1, <1>2

\* One row may change, all the bars stay.
OthersUntouched(c) == \A d \in Calls \ {c} : Untouched(d)

LEMMA OthersKept ==
    ASSUME EvidenceIInv, NEW c \in Calls, OthersUntouched(c), CallInv(c)'
    PROVE  \A d \in Calls : CallInv(d)'
  BY UntouchedKeeps DEF OthersUntouched

LEMMA AppendRows ==
    ASSUME EvidenceIInv, NEW c \in Calls, NEW e, AppendEvent(c, e)
    PROVE  /\ rows'[c] = Applied(c, e)
           /\ \A d \in Calls \ {c} : rows'[d] = rows[d]
  BY RowTyped DEF EvidenceIInv, LedgerIInv, AppendEvent

\* A step that appends to a row and reads no bar.
LEMMA AppendOnly ==
    ASSUME EvidenceIInv, NEW c \in Calls, NEW e, AppendEvent(c, e),
           UNCHANGED <<evidence, market, stored>>
    PROVE  OthersUntouched(c)
  BY AppendRows DEF OthersUntouched, Untouched, evidence

-----------------------------------------------------------------------------
(* The call a step is about.                                               *)

LEMMA SameReading ==
    ASSUME NEW c \in Calls, UNCHANGED <<evidence, market>>
    PROVE  /\ Fills(c)' = Fills(c) /\ Exits(c)' = Exits(c)
           /\ \A m : /\ TouchesTarget(c, m)' <=> TouchesTarget(c, m)
                     /\ TouchesInvalidation(c, m)' <=> TouchesInvalidation(c, m)
<1>1. \A m : /\ TouchesEntry(c, m)' <=> TouchesEntry(c, m)
             /\ TouchesTarget(c, m)' <=> TouchesTarget(c, m)
             /\ TouchesInvalidation(c, m)' <=> TouchesInvalidation(c, m)
  BY DEF TouchesEntry, TouchesTarget, TouchesInvalidation, Bar
<1>2. Fills(c)' = Fills(c)
  BY <1>1 DEF Fills, evidence
<1>3. InTrade(c)' = InTrade(c)
  BY <1>2 DEF InTrade, evidence
<1> QED BY <1>1, <1>2, <1>3 DEF Exits

\* An open call has no exit behind it, and its row is not ambiguous.
LEMMA OpenFacts ==
    ASSUME EvidenceIInv, NEW c \in Calls, IsOpen(c)
    PROVE  /\ Known(c) /\ ~rows[c].ambiguous /\ Exits(c) = {}
           /\ rows[c].state = "PENDING" => Fills(c) = {}
           /\ rows[c].state = "ACTIVE" => Fills(c) # {}
           /\ rows[c].triggered <=> Fills(c) # {}
<1>1. Known(c)
  BY DEF IsOpen, Open, Known
<1>2. Judged(c)
  BY <1>1 DEF EvidenceIInv, CallInv
<1>3. ~rows[c].ambiguous
  BY DEF EvidenceIInv, LedgerIInv, AmbiguityIsALoss, IsOpen, Open
<1> QED BY <1>1, <1>2, <1>3 DEF Judged, IsOpen, Open

LEMMA CreateKeepsEvidence ==
    ASSUME EvidenceIInv, NEW c \in Calls, Create(c), UNCHANGED <<evidence, market, stored>>
    PROVE  \A d \in Calls : CallInv(d)'
<1>1. CASE Known(c)
  <2>1. \A d \in Calls : Untouched(d)
    BY <1>1 DEF Create, ledgerVars, Untouched, evidence
  <2> QED BY <2>1, UntouchedKeeps
<1>2. CASE ~Known(c)
  <2> DEFINE new == [NoRow EXCEPT !.state = "PENDING", !.covered = Created[c]]
  <2>1. /\ rows'[c] = new
        /\ \A d \in Calls \ {c} : rows'[d] = rows[d]
    BY <1>2, RowTyped DEF Create, EvidenceIInv, LedgerIInv
  <2>2. /\ rows'[c].state = "PENDING" /\ rows'[c].covered = Created[c]
        /\ rows'[c].triggered = FALSE
    BY <2>1 DEF NoRow
  <2>3. consumed[c] = {} /\ refused[c] = {}
    BY <1>2 DEF EvidenceIInv, CallInv
  <2>4. OthersUntouched(c)
    BY <2>1 DEF OthersUntouched, Untouched, evidence
  <2>5. Fills(c) = {} /\ Exits(c) = {}
    BY <2>3 DEF Fills, Exits, InTrade
  <2>6. Judged(c)'
    BY <2>2, <2>5, SameReading DEF Judged
  <2>7. Cursor(c)' = EvalFrom(c)
    BY <2>2, CallTimes DEF Cursor, Larger
  <2>8. Within(EvalFrom(c), Created[c]) = {}
    <3>1. ASSUME NEW m \in Within(EvalFrom(c), Created[c])
          PROVE  FALSE
      <4>1. m * Minute \in Nat /\ EvalFrom(c) <= m * Minute /\ m * Minute < Created[c]
        BY MinuteIsNat DEF Within
      <4> QED BY <4>1, CallTimes
    <3> QED BY <3>1
  <2>9. Covered(c)'
    BY <2>2, <2>3, <2>7, <2>8, CallTimes DEF Covered, evidence
  <2>10. CallInv(c)'
    BY <2>2, <2>3, <2>6, <2>9 DEF CallInv, Known, Voided, evidence
  <2> QED BY <2>4, <2>10, OthersKept
<1> QED BY <1>1, <1>2

LEMMA CancelKeepsEvidence ==
    ASSUME EvidenceIInv, NEW c \in Calls, NEW at \in Nat, Cancel(c, "CANCEL_REASON", at),
           UNCHANGED <<evidence, market, stored>>
    PROVE  \A d \in Calls : CallInv(d)'
<1> DEFINE e == CancelEvent(c, "CANCEL_REASON", at)
<1>1. AppendEvent(c, e) /\ rows[c].state = "PENDING"
  BY DEF Cancel
<1>2. /\ rows'[c].state = "CANCELLED" /\ rows'[c].covered = rows[c].covered
      /\ rows'[c].triggered <=> rows[c].triggered
  <2>1. rows'[c] = Applied(c, e)
    BY <1>1, AppendRows
  <2>2. e.state = "CANCELLED" /\ e.covered = rows[c].covered /\ e.trigger = FALSE
    BY DEF CancelEvent
  <2> HIDE DEF e
  <2>3. rows'[c].triggered = (rows[c].triggered \/ e.trigger)
    BY <2>1 DEF Applied
  <2>4. rows'[c].triggered <=> rows[c].triggered
    BY <2>2, <2>3
  <2> QED BY <2>1, <2>2, <2>4 DEF Applied
<1>3. OthersUntouched(c)
  BY <1>1, AppendOnly
<1>4. IsOpen(c) /\ Known(c)
  BY <1>1 DEF IsOpen, Open, Known
<1>5. Judged(c)'
  BY <1>1, <1>2, <1>4, SameReading, OpenFacts DEF Judged
<1>6. CallInv(c) /\ Cursor(c)' = Cursor(c)
  BY <1>2 DEF EvidenceIInv, Cursor
<1>7. CallInv(c)'
  BY <1>2, <1>4, <1>5, <1>6 DEF CallInv, Known, Covered, Voided, evidence
<1> QED BY <1>3, <1>7, OthersKept

\* Evaluation events of an open row.
LEMMA AdvanceRow ==
    ASSUME EvidenceIInv, NEW c \in Calls, NEW state, NEW at, NEW covered, NEW why,
           NEW ambiguous, NEW gap, NEW trigger,
           Advance(c, AdvanceEvent(state, at, covered, why, ambiguous, gap, trigger))
    PROVE  /\ rows'[c].state = state /\ rows'[c].covered = covered
           /\ rows'[c].ambiguous = (rows[c].ambiguous \/ ambiguous)
           /\ rows'[c].triggered <=> rows[c].triggered \/ trigger
           /\ \A d \in Calls \ {c} : rows'[d] = rows[d]
           /\ covered >= rows[c].covered
           /\ IsOpen(c)
<1> DEFINE e == AdvanceEvent(state, at, covered, why, ambiguous, gap, trigger)
<1>1. AppendEvent(c, e)
  BY DEF Advance
<1>2. rows'[c] = Applied(c, e) /\ \A d \in Calls \ {c} : rows'[d] = rows[d]
  BY <1>1, AppendRows
<1>3. OpenOnly(c) /\ ForwardOnly(c, e)
  BY <1>1 DEF AppendEvent, Valid
<1>4. /\ e.state = state /\ e.covered = covered
      /\ e.ambiguous = ambiguous /\ e.trigger = trigger
  BY DEF AdvanceEvent
<1>5. /\ rows'[c].state = state /\ rows'[c].covered = covered
      /\ rows'[c].ambiguous = (rows[c].ambiguous \/ ambiguous)
      /\ rows'[c].triggered = (rows[c].triggered \/ trigger)
  <2> HIDE DEF e
  <2> QED BY <1>2, <1>4 DEF Applied
<1> QED BY <1>2, <1>3, <1>4, <1>5 DEF ForwardOnly, OpenOnly

LEMMA SkipKeepsEvidence ==
    ASSUME EvidenceIInv, NEW c \in Calls, IsOpen(c), NEW view, SkipClosure(c, view),
           UNCHANGED <<market, stored>>
    PROVE  \A d \in Calls : CallInv(d)'
<1>1. /\ Advance(c, AdvanceEvent(rows[c].state, CursorEnd(c), CursorEnd(c),
                                 "ROUTINE", FALSE, FALSE, FALSE))
      /\ CursorMinute(c) \in ClosedMinutes /\ UNCHANGED evidence
  BY DEF SkipClosure, Closed
<1>2. /\ rows'[c].state = rows[c].state /\ rows'[c].covered = CursorEnd(c)
      /\ rows'[c].triggered <=> rows[c].triggered
      /\ \A d \in Calls \ {c} : rows'[d] = rows[d]
      /\ CursorEnd(c) >= rows[c].covered
  BY <1>1, AdvanceRow
<1>3. OthersUntouched(c)
  BY <1>1, <1>2 DEF OthersUntouched, Untouched, evidence
<1>4. Known(c) /\ rows[c].state \in {"PENDING", "ACTIVE"}
  BY DEF IsOpen, Open, Known
<1>5. Judged(c)'
  BY <1>1, <1>2, <1>4, SameReading, OpenFacts DEF Judged
<1>6. Covered(c)'
  <2>1. CallInv(c) /\ Covered(c)
    BY <1>4 DEF EvidenceIInv, CallInv
  <2>2. Cursor(c)' = CursorEnd(c) \/ Cursor(c)' = EvalFrom(c)
    BY <1>2 DEF Cursor, Larger
  <2>3. Cursor(c)' \in MultipleOf(Minute)
    BY <1>4, <2>2, CursorFacts, CallTimes
  <2>4. Within(EvalFrom(c), CursorEnd(c)) \subseteq consumed[c] \cup ClosedMinutes
    BY <1>1, <1>4, <2>1, WithinCursorEnd DEF Covered
  <2>5. \A m \in consumed[c] : m * Minute < CursorEnd(c)
    <3>1. \A m \in consumed[c] : m * Minute \in Nat /\ m * Minute < rows[c].covered
      BY <2>1, RowFacts, MinuteIsNat DEF Covered
    <3>2. rows[c].covered \in Nat /\ CursorEnd(c) \in Nat
      BY <1>4, RowFacts, CursorFacts
    <3> QED BY <1>2, <3>1, <3>2
  <2> QED BY <1>1, <1>2, <2>1, <2>3, <2>4, <2>5 DEF Covered, evidence
<1>7. CallInv(c)'
  BY <1>1, <1>2, <1>4, <1>5, <1>6 DEF EvidenceIInv, CallInv, Known, Voided, evidence
<1> QED BY <1>3, <1>7, OthersKept

LEMMA VoidKeepsEvidence ==
    ASSUME EvidenceIInv, NEW c \in Calls, NEW view \in SUBSET stored, NEW at \in Nat,
           HasMinute(c, view, at), VoidGap(c, view), UNCHANGED <<market, stored>>
    PROVE  \A d \in Calls : CallInv(d)'
<1>1. /\ Advance(c, AdvanceEvent("VOID_DATA", CursorEnd(c), Cursor(c),
                                 "DATA_QUALITY", FALSE, FALSE, FALSE))
      /\ CursorMinute(c) \notin ClosedMinutes /\ CursorMinute(c) \notin Relevant(c, view)
      /\ UNCHANGED evidence
  BY DEF VoidGap, Closed
<1>2. /\ rows'[c].state = "VOID_DATA" /\ rows'[c].covered = Cursor(c)
      /\ rows'[c].triggered <=> rows[c].triggered
      /\ \A d \in Calls \ {c} : rows'[d] = rows[d]
      /\ IsOpen(c)
  BY <1>1, AdvanceRow
<1>3. OthersUntouched(c)
  BY <1>1, <1>2 DEF OthersUntouched, Untouched, evidence
<1>4. Known(c) /\ CallInv(c) /\ Covered(c)
  BY <1>2 DEF IsOpen, Open, Known, EvidenceIInv, CallInv
<1>5. Judged(c)'
  BY <1>1, <1>2, SameReading, OpenFacts DEF Judged
<1>6. Cursor(c)' = Cursor(c)
  <2>1. Cursor(c)' = Larger(EvalFrom(c), Cursor(c))
    BY <1>2 DEF Cursor
  <2> QED BY <1>4, <2>1, CursorFacts, CallTimes DEF Larger
<1>7. Covered(c)'
  <2>1. \/ Cursor(c) = rows[c].covered
        \/ Cursor(c) = EvalFrom(c) /\ Within(EvalFrom(c), Cursor(c)) = {}
    <3>1. CASE Cursor(c) = EvalFrom(c)
      <4>1. \A m \in Minutes : m * Minute \in Nat
        BY MinuteIsNat
      <4> QED BY <3>1, <4>1, CallTimes DEF Within
    <3> QED BY <1>4, <3>1, CursorFacts
  <2>2. Within(EvalFrom(c), Cursor(c)) \subseteq consumed[c] \cup ClosedMinutes
    BY <1>4, <2>1 DEF Covered
  <2>3. \A m \in consumed[c] : m * Minute < Cursor(c)
    <3>1. \A m \in consumed[c] : m * Minute \in Nat /\ m * Minute < rows[c].covered
      BY <1>4, RowFacts, MinuteIsNat DEF Covered
    <3>2. rows[c].covered \in Nat /\ Cursor(c) \in Nat /\ rows[c].covered <= Cursor(c)
      BY <1>4, RowFacts, CursorFacts
    <3> QED BY <3>1, <3>2
  <2> QED BY <1>1, <1>2, <1>4, <1>6, <2>2, <2>3 DEF Covered, evidence
<1>8. Voided(c)'
  <2>1. CursorMinute(c) \notin consumed[c]
    BY <1>4, ReadBefore, CursorFacts
  <2>2. view \in SUBSET Minutes
    BY DEF EvidenceIInv, ClockIInv, StorePast
  <2>3. /\ Cursor(c) < Limit(c, view, at)
        /\ Limit(c, view, at) <= CoverageThrough(c, view) /\ Limit(c, view, at) \in Nat
        /\ CoverageThrough(c, view) \in Nat
    BY <2>2, LimitFacts, CoverageFacts DEF HasMinute
  <2>4. CoverageThrough(c, view) # EvalFrom(c)
    BY <1>4, <2>3, CursorFacts, CallTimes
  <2>5. PICK m \in Relevant(c, view) : CoverageThrough(c, view) = m * Minute + Minute
    BY <2>2, <2>4, CoverageFacts
  <2>6. m \in stored /\ m \in Nat /\ m * Minute < EvalTo(c) /\ m # CursorMinute(c)
    BY <1>1, <2>2, MinuteIsNat DEF Relevant
  <2>7. ~(m < CursorMinute(c))
    <3>1. ASSUME m < CursorMinute(c) PROVE FALSE
      <4> DEFINE q == CursorMinute(c)
      <4>1. q \in Nat /\ q * Minute = Cursor(c) /\ Cursor(c) \in Nat
        BY <1>4, CursorFacts
      <4>2. m * Minute \in Nat /\ m * Minute + Minute <= q * Minute
        BY <2>6, <3>1, <4>1, TimesGrow, MinuteIsNat
      <4> HIDE DEF q
      <4> QED BY <2>3, <2>5, <4>1, <4>2, MinuteIsNat
    <3> QED BY <3>1
  <2>8. m > CursorMinute(c)
    BY <1>4, <2>6, <2>7, CursorFacts
  <2>9. CursorMinute(c)' = CursorMinute(c)
    BY <1>6 DEF CursorMinute
  <2> QED BY <1>1, <2>1, <2>6, <2>8, <2>9 DEF Voided, evidence
<1>9. CallInv(c)'
  BY <1>1, <1>2, <1>4, <1>5, <1>7, <1>8 DEF CallInv, Known, evidence
<1> QED BY <1>3, <1>9, OthersKept

LEMMA DeadlineKeepsEvidence ==
    ASSUME EvidenceIInv, NEW c \in Calls, NEW view \in SUBSET stored, NEW at \in Nat,
           Deadline(c, view, at), UNCHANGED <<market, stored>>
    PROVE  \A d \in Calls : CallInv(d)'
<1> DEFINE state == IF rows[c].state = "ACTIVE" THEN "SCRATCH" ELSE "NEVER_TRIGGERED"
           limit == Limit(c, view, at)
<1>1. /\ Advance(c, AdvanceEvent(state, Expires[c], limit, "ROUTINE", FALSE, FALSE, FALSE))
      /\ UNCHANGED evidence
      /\ Cursor(c) >= limit /\ limit >= EvalTo(c)
  BY DEF Deadline, AtDeadline
<1>2. /\ rows'[c].state = state /\ rows'[c].covered = limit
      /\ rows'[c].triggered <=> rows[c].triggered
      /\ \A d \in Calls \ {c} : rows'[d] = rows[d]
      /\ limit >= rows[c].covered
      /\ IsOpen(c)
  <2> HIDE DEF state, limit
  <2> QED BY <1>1, AdvanceRow
<1>3. OthersUntouched(c)
  BY <1>1, <1>2 DEF OthersUntouched, Untouched, evidence
<1>4. Known(c) /\ CallInv(c) /\ Covered(c) /\ rows[c].state \in {"PENDING", "ACTIVE"}
  BY <1>2 DEF IsOpen, Open, Known, EvidenceIInv, CallInv
<1>5. state \in {"SCRATCH", "NEVER_TRIGGERED"}
  OBVIOUS
<1>6. Judged(c)'
  BY <1>1, <1>2, <1>4, SameReading, OpenFacts DEF Judged
<1>7. limit = EvalTo(c)
  <2>1. view \in SUBSET Minutes
    BY DEF EvidenceIInv, ClockIInv, StorePast
  <2>2. limit \in Nat /\ limit <= EvalTo(c)
    BY <2>1, LimitFacts
  <2> HIDE DEF limit
  <2> QED BY <1>1, <2>2, CallTimes
<1>8. Covered(c)'
  <2> HIDE DEF limit
  <2>0. limit \in Nat /\ limit \in MultipleOf(Minute)
    BY <1>7, CallTimes
  <2>1. Cursor(c)' \in MultipleOf(Minute)
    BY <1>2, <2>0, CallTimes DEF Cursor, Larger
  <2>2. Within(EvalFrom(c), limit) \subseteq consumed[c] \cup ClosedMinutes
    <3>1. CASE Cursor(c) = rows[c].covered
      <4>1. rows[c].covered = limit
        BY <1>1, <1>2, <2>0, <3>1, RowFacts
      <4> QED BY <1>4, <4>1 DEF Covered
    <3>2. CASE Cursor(c) = EvalFrom(c)
      <4>1. limit <= EvalFrom(c)
        BY <1>1, <3>2
      <4>2. \A m \in Minutes : m * Minute \in Nat
        BY MinuteIsNat
      <4>3. Within(EvalFrom(c), limit) = {}
        BY <2>0, <4>1, <4>2, CallTimes DEF Within
      <4> QED BY <4>3
    <3> QED BY <1>4, <3>1, <3>2, CursorFacts
  <2>3. \A m \in consumed[c] : m * Minute < limit
    BY <1>4, <1>7 DEF Covered
  <2> QED BY <1>1, <1>2, <1>4, <2>1, <2>2, <2>3 DEF Covered, evidence
<1>9. CallInv(c)'
  BY <1>1, <1>2, <1>4, <1>5, <1>6, <1>8 DEF CallInv, Known, Voided, evidence
<1> QED BY <1>3, <1>9, OthersKept

-----------------------------------------------------------------------------
(* One more bar: the reading so far, and the bar of the cursor's minute.   *)

LEMMA ConsumeFacts ==
    ASSUME EvidenceIInv, NEW c \in Calls, NEW view \in SUBSET stored, NEW m,
           m = CursorMinute(c), ConsumeBar(c, view), UNCHANGED <<market, stored>>
    PROVE  /\ IsOpen(c) /\ Known(c)
           /\ m \in Nat /\ m \in stored /\ m \notin consumed[c]
           /\ EvalFrom(c) <= m * Minute /\ m * Minute < EvalTo(c)
           /\ m * Minute = Cursor(c)
           /\ consumed'[c] = consumed[c] \cup {m}
           /\ refused'[c] = IF Touching(c, m) /\ ~CanActivate(c)
                              THEN refused[c] \cup {m} ELSE refused[c]
           /\ OthersUntouched(c)
           /\ rows'[c].state = StateAfter(c, m) /\ rows'[c].covered = CursorEnd(c)
           /\ rows'[c].ambiguous = (rows[c].ambiguous \/ Ambiguous(c, m))
           /\ rows'[c].triggered <=> rows[c].triggered \/ Entering(c, m)
           /\ CursorEnd(c) >= rows[c].covered
<1>1. /\ m \in Relevant(c, view)
      /\ Advance(c, AdvanceEvent(StateAfter(c, m), CursorEnd(c), CursorEnd(c), "ROUTINE",
                                 Ambiguous(c, m), SkipsZone(c, m), Entering(c, m)))
      /\ consumed' = [consumed EXCEPT ![c] = @ \cup {m}]
      /\ refused' = [refused EXCEPT ![c] = IF Touching(c, m) /\ ~CanActivate(c)
                                             THEN @ \cup {m} ELSE @]
  BY DEF ConsumeBar
<1>2. /\ rows'[c].state = StateAfter(c, m) /\ rows'[c].covered = CursorEnd(c)
      /\ rows'[c].ambiguous = (rows[c].ambiguous \/ Ambiguous(c, m))
      /\ rows'[c].triggered <=> rows[c].triggered \/ Entering(c, m)
      /\ \A d \in Calls \ {c} : rows'[d] = rows[d]
      /\ CursorEnd(c) >= rows[c].covered
      /\ IsOpen(c)
  BY <1>1, AdvanceRow
<1>3. /\ consumed'[c] = consumed[c] \cup {m}
      /\ refused'[c] = IF Touching(c, m) /\ ~CanActivate(c)
                         THEN refused[c] \cup {m} ELSE refused[c]
      /\ \A d \in Calls \ {c} : consumed'[d] = consumed[d] /\ refused'[d] = refused[d]
  BY <1>1 DEF EvidenceIInv, EvidenceTyped
<1>4. OthersUntouched(c)
  BY <1>2, <1>3 DEF OthersUntouched, Untouched
<1>5. Known(c)
  BY <1>2 DEF IsOpen, Open, Known
<1>6. m \in Nat /\ m \notin consumed[c]
  BY <1>5, CursorFacts, ReadBefore
<1>7. m \in stored /\ EvalFrom(c) <= m * Minute /\ m * Minute < EvalTo(c)
  BY <1>1 DEF Relevant
<1>8. m * Minute = Cursor(c)
  BY <1>5, CursorFacts
<1> QED BY <1>2, <1>3, <1>4, <1>5, <1>6, <1>7, <1>8

LEMMA ConsumeCovers ==
    ASSUME EvidenceIInv, NEW c \in Calls, NEW view \in SUBSET stored, NEW m,
           m = CursorMinute(c), ConsumeBar(c, view), UNCHANGED <<market, stored>>
    PROVE  Covered(c)'
<1>1. /\ Known(c) /\ m \in Nat
      /\ EvalFrom(c) <= m * Minute /\ m * Minute < EvalTo(c) /\ m * Minute = Cursor(c)
      /\ consumed'[c] = consumed[c] \cup {m}
      /\ rows'[c].covered = CursorEnd(c)
      /\ CursorEnd(c) >= rows[c].covered
  BY ConsumeFacts, ZenonT(60)
<1>2. Covered(c)
  BY <1>1 DEF EvidenceIInv, CallInv
<1>3. Cursor(c)' = CursorEnd(c) \/ Cursor(c)' = EvalFrom(c)
  BY <1>1 DEF Cursor, Larger
<1>4. Cursor(c)' \in MultipleOf(Minute)
  BY <1>1, <1>3, CursorFacts, CallTimes
<1>5. Within(EvalFrom(c), CursorEnd(c)) \subseteq consumed'[c] \cup ClosedMinutes
  BY <1>1, <1>2, WithinCursorEnd DEF Covered
<1>6. m * Minute < CursorEnd(c)
  BY <1>1, CursorFacts, MinuteIsNat DEF CursorEnd
<1>7. \A k \in consumed[c] : k * Minute < CursorEnd(c)
  <2>1. \A k \in consumed[c] : k * Minute \in Nat /\ k * Minute < rows[c].covered
    BY <1>2, RowFacts, MinuteIsNat DEF Covered
  <2>2. rows[c].covered \in Nat /\ CursorEnd(c) \in Nat
    BY <1>1, RowFacts, CursorFacts
  <2> QED BY <1>1, <2>1, <2>2
<1> QED BY <1>1, <1>2, <1>4, <1>5, <1>6, <1>7 DEF Covered

\* What one more bar adds to the reading: a fill if it touches the entry and was not
\* refused, an exit if the call is then in the trade.
LEMMA ReadingGrows ==
    ASSUME EvidenceIInv, NEW c \in Calls, NEW view \in SUBSET stored, NEW m,
           m = CursorMinute(c), ConsumeBar(c, view), UNCHANGED <<market, stored>>
    PROVE  /\ Max(consumed'[c]) = m
           /\ Fills(c)' = IF TouchesEntry(c, m) /\ m \notin refused'[c]
                            THEN Fills(c) \cup {m} ELSE Fills(c)
           /\ Exits(c)' = IF /\ Fills(c)' # {}
                             /\ TouchesTarget(c, m) \/ TouchesInvalidation(c, m)
                            THEN {m} ELSE {}
           /\ TouchesTarget(c, m)' <=> TouchesTarget(c, m)
           /\ TouchesInvalidation(c, m)' <=> TouchesInvalidation(c, m)
<1>1. /\ IsOpen(c) /\ Known(c) /\ m \in Nat /\ m \notin consumed[c]
      /\ consumed'[c] = consumed[c] \cup {m}
      /\ refused'[c] = IF Touching(c, m) /\ ~CanActivate(c)
                         THEN refused[c] \cup {m} ELSE refused[c]
  BY ConsumeFacts
<1>2. \A k \in consumed[c] : k \in Nat /\ k < m
  BY <1>1, ReadBefore
<1>3. refused[c] \subseteq consumed[c]
  BY DEF EvidenceIInv, CallInv
<1>4. \A k : /\ TouchesEntry(c, k)' <=> TouchesEntry(c, k)
             /\ TouchesTarget(c, k)' <=> TouchesTarget(c, k)
             /\ TouchesInvalidation(c, k)' <=> TouchesInvalidation(c, k)
  BY DEF TouchesEntry, TouchesTarget, TouchesInvalidation, Bar
<1>5. Max(consumed'[c]) = m
  <2>1. consumed'[c] \in SUBSET Int /\ m \in consumed'[c] /\ \A k \in consumed'[c] : k <= m
    BY <1>1, <1>2
  <2> QED BY <2>1, MaxIs
<1>6. Fills(c)' = {k \in consumed'[c] : TouchesEntry(c, k)} \ refused'[c]
  BY <1>4 DEF Fills
<1>7. \A k \in consumed[c] : k \in refused'[c] <=> k \in refused[c]
  BY <1>1
<1>8. Fills(c)' = IF TouchesEntry(c, m) /\ m \notin refused'[c]
                    THEN Fills(c) \cup {m} ELSE Fills(c)
  BY <1>1, <1>6, <1>7 DEF Fills
<1>9. Exits(c) = {}
  BY <1>1, OpenFacts
<1>10. InTrade(c)' = {k \in consumed'[c] : \E f \in Fills(c)' : f <= k}
  BY DEF InTrade
<1>11. Fills(c) \subseteq consumed[c]
  BY DEF Fills
<1>12. m \in InTrade(c)' <=> Fills(c)' # {}
  <2>1. \A f \in Fills(c)' : f <= m
    BY <1>1, <1>2, <1>8, <1>11
  <2> QED BY <1>1, <1>10, <2>1
<1>13. \A k \in consumed[c] : k \in InTrade(c)' => k \in InTrade(c)
  <2>1. ASSUME NEW k \in consumed[c], k \in InTrade(c)'
        PROVE  k \in InTrade(c)
    <3>1. PICK f \in Fills(c)' : f <= k
      BY <1>10, <2>1
    <3>2. f # m
      BY <1>1, <1>2, <3>1
    <3>3. f \in Fills(c)
      BY <1>8, <3>1, <3>2
    <3> QED BY <3>1, <3>3 DEF InTrade
  <2> QED BY <2>1
<1>14. Exits(c)' = {k \in InTrade(c)' : TouchesTarget(c, k) \/ TouchesInvalidation(c, k)}
  BY <1>4 DEF Exits
<1>15. \A k \in consumed[c] : k \notin Exits(c)'
  BY <1>9, <1>13, <1>14 DEF Exits
<1>16. Exits(c)' \subseteq {m}
  BY <1>1, <1>10, <1>14, <1>15
<1>17. m \in Exits(c)' <=> Fills(c)' # {} /\ (TouchesTarget(c, m) \/ TouchesInvalidation(c, m))
  BY <1>12, <1>14
<1> QED BY <1>4, <1>5, <1>8, <1>16, <1>17

LEMMA ConsumeJudges ==
    ASSUME EvidenceIInv, NEW c \in Calls, NEW view \in SUBSET stored, NEW m,
           m = CursorMinute(c), ConsumeBar(c, view), UNCHANGED <<market, stored>>
    PROVE  Judged(c)'
<1> DEFINE in == rows[c].state = "ACTIVE" \/ Entering(c, m)
<1>1. /\ IsOpen(c) /\ m \notin consumed[c]
      /\ refused'[c] = IF Touching(c, m) /\ ~CanActivate(c)
                         THEN refused[c] \cup {m} ELSE refused[c]
      /\ rows'[c].state = StateAfter(c, m)
      /\ rows'[c].ambiguous = (rows[c].ambiguous \/ Ambiguous(c, m))
      /\ rows'[c].triggered <=> rows[c].triggered \/ Entering(c, m)
  BY ConsumeFacts
<1>2. /\ Max(consumed'[c]) = m
      /\ Fills(c)' = IF TouchesEntry(c, m) /\ m \notin refused'[c]
                       THEN Fills(c) \cup {m} ELSE Fills(c)
      /\ Exits(c)' = IF /\ Fills(c)' # {}
                        /\ TouchesTarget(c, m) \/ TouchesInvalidation(c, m)
                       THEN {m} ELSE {}
      /\ TouchesTarget(c, m)' <=> TouchesTarget(c, m)
      /\ TouchesInvalidation(c, m)' <=> TouchesInvalidation(c, m)
  BY ReadingGrows
<1>3. /\ ~rows[c].ambiguous
      /\ rows[c].state = "PENDING" => Fills(c) = {}
      /\ rows[c].state = "ACTIVE" => Fills(c) # {}
      /\ rows[c].triggered <=> Fills(c) # {}
      /\ rows[c].state \in {"PENDING", "ACTIVE"}
  BY <1>1, OpenFacts DEF IsOpen, Open
<1>4. m \notin refused[c]
  BY <1>1 DEF EvidenceIInv, CallInv
<1>5. Fills(c)' # {} <=> in
  <2>1. CASE rows[c].state = "ACTIVE"
    BY <1>2, <1>3, <2>1
  <2>2. CASE rows[c].state = "PENDING"
    <3>1. Fills(c)' # {} <=> TouchesEntry(c, m) /\ m \notin refused'[c]
      BY <1>2, <1>3, <2>2
    <3>2. m \in refused'[c] <=> Touching(c, m) /\ ~CanActivate(c)
      BY <1>1, <1>4
    <3> QED BY <2>2, <3>1, <3>2 DEF Entering, Touching
  <2> QED BY <1>3, <2>1, <2>2
<1>6. rows'[c].triggered <=> in
  BY <1>1, <1>3
<1>7. rows'[c].ambiguous <=> Ambiguous(c, m)
  BY <1>1, <1>3
<1>8. StateAfter(c, m) = IF in /\ TouchesInvalidation(c, m) THEN "LOSS"
                         ELSE IF in /\ TouchesTarget(c, m) THEN "WIN"
                         ELSE IF in THEN "ACTIVE" ELSE rows[c].state
  BY DEF StateAfter
<1>9. ~in => rows[c].state = "PENDING"
  BY <1>3
<1>10. Judged(c)' <=>
         LET state == rows'[c].state IN
         /\ rows'[c].triggered <=> Fills(c)' # {}
         /\ state \in {"PENDING", "NEVER_TRIGGERED", "CANCELLED"} => Fills(c)' = {}
         /\ state \in {"ACTIVE", "SCRATCH"} => Fills(c)' # {}
         /\ state \in {"WIN", "LOSS"} =>
              /\ Exits(c)' = {m}
              /\ state = "LOSS" <=> TouchesInvalidation(c, m)
              /\ rows'[c].ambiguous <=> TouchesInvalidation(c, m) /\ TouchesTarget(c, m)
         /\ state \notin {"WIN", "LOSS"} => Exits(c)' = {}
  BY <1>2 DEF Judged
<1> HIDE DEF in
<1>11. CASE in /\ TouchesInvalidation(c, m)
  BY <1>1, <1>2, <1>5, <1>6, <1>7, <1>8, <1>10, <1>11 DEF Ambiguous
<1>12. CASE in /\ ~TouchesInvalidation(c, m) /\ TouchesTarget(c, m)
  BY <1>1, <1>2, <1>5, <1>6, <1>7, <1>8, <1>10, <1>12 DEF Ambiguous
<1>13. CASE in /\ ~TouchesInvalidation(c, m) /\ ~TouchesTarget(c, m)
  BY <1>1, <1>2, <1>5, <1>6, <1>7, <1>8, <1>10, <1>13 DEF Ambiguous
<1>14. CASE ~in
  BY <1>1, <1>2, <1>5, <1>6, <1>7, <1>8, <1>9, <1>10, <1>14 DEF Ambiguous
<1> QED BY <1>11, <1>12, <1>13, <1>14

LEMMA ConsumeKeepsEvidence ==
    ASSUME EvidenceIInv, NEW c \in Calls, NEW view \in SUBSET stored,
           ConsumeBar(c, view), UNCHANGED <<market, stored>>
    PROVE  \A d \in Calls : CallInv(d)'
<1> PICK m : m = CursorMinute(c)
  OBVIOUS
<1>1. /\ IsOpen(c) /\ m \in stored
      /\ consumed'[c] = consumed[c] \cup {m}
      /\ refused'[c] = IF Touching(c, m) /\ ~CanActivate(c)
                         THEN refused[c] \cup {m} ELSE refused[c]
      /\ OthersUntouched(c)
      /\ rows'[c].state = StateAfter(c, m)
  BY ConsumeFacts
<1>2. Covered(c)' /\ Judged(c)'
  BY ConsumeCovers, ConsumeJudges
<1>3. StateAfter(c, m) \in {"PENDING", "ACTIVE", "WIN", "LOSS"}
  BY <1>1 DEF StateAfter, IsOpen, Open
<1>4. Known(c)' /\ Voided(c)'
  BY <1>1, <1>3 DEF Known, Voided
<1>5. refused'[c] \subseteq consumed'[c] /\ consumed'[c] \subseteq stored
  BY <1>1 DEF EvidenceIInv, CallInv
<1>6. CallInv(c)'
  BY <1>2, <1>4, <1>5 DEF CallInv
<1> QED BY <1>1, <1>6, OthersKept

-----------------------------------------------------------------------------
(* Every step keeps the evidence, and is a step of the ledger.             *)

LEMMA PassFacts ==
    ASSUME EvidenceIInv, worker = "resolve"
    PROVE  /\ JobView \in SUBSET stored /\ JobView \in SUBSET Minutes
           /\ JobNow \in Nat /\ JobNow <= now
  BY JobFacts DEF EvidenceIInv, ClockIInv, StorePast, InPass

\* A minute before the limit ends by the limit.
LEMMA MinuteInLimit ==
    ASSUME EvidenceIInv, NEW c \in Calls, NEW view \in SUBSET Minutes, NEW at \in Nat,
           HasMinute(c, view, at)
    PROVE  /\ Known(c) /\ Cursor(c) \in Nat /\ CursorEnd(c) \in Nat
           /\ Cursor(c) <= at /\ CursorEnd(c) <= at
           /\ Cursor(c) <= MaxTime /\ CursorEnd(c) <= MaxTime
<1>1. Known(c) /\ Cursor(c) < Limit(c, view, at)
  BY DEF HasMinute, IsOpen, Open, Known
<1>2. CursorEnd(c) <= Limit(c, view, at)
  BY <1>1, CursorFacts, LimitFacts, MultiplesApart, MinuteIsNat DEF CursorEnd
<1>3. MaxTime \in Nat
  BY LedgerConstants DEF LedgerConstants
<1>4. /\ Limit(c, view, at) \in Nat /\ Limit(c, view, at) <= at
      /\ Limit(c, view, at) <= EvalTo(c)
  BY LimitFacts
<1>5. Limit(c, view, at) <= MaxTime
  BY <1>3, <1>4, CallTimes
<1>6. Cursor(c) \in Nat /\ CursorEnd(c) \in Nat
  BY <1>1, CursorFacts
<1> QED BY <1>1, <1>2, <1>3, <1>4, <1>5, <1>6

LEMMA StateAfterTyped ==
    ASSUME NEW c \in Calls, NEW m, IsOpen(c)
    PROVE  /\ StateAfter(c, m) \in Open \cup Terminal
           /\ Ambiguous(c, m) \in BOOLEAN /\ SkipsZone(c, m) \in BOOLEAN
           /\ Entering(c, m) \in BOOLEAN
<1>1. StateAfter(c, m) \in Open \cup Terminal
  BY DEF StateAfter, IsOpen, Open, Terminal
<1>2. Ambiguous(c, m) \in BOOLEAN /\ Entering(c, m) \in BOOLEAN
  BY DEF Ambiguous, Entering
<1>3. SkipsZone(c, m) \in BOOLEAN
  BY DEF SkipsZone
<1> QED BY <1>1, <1>2, <1>3

LEMMA MinuteIsLedgerStep ==
    ASSUME EvidenceIInv, NEW c \in Calls, NEW view \in SUBSET Minutes, NEW at \in Nat,
           EvaluateMinute(c, view, at)
    PROVE  AnyAdvance
<1>1. IsOpen(c) /\ CursorEnd(c) \in Time /\ Cursor(c) \in Time
  BY MinuteInLimit, LedgerConstants DEF EvaluateMinute, HasMinute, Time, LedgerConstants
<1>2. CASE SkipClosure(c, view)
  <2>1. Advance(c, AdvanceEvent(rows[c].state, CursorEnd(c), CursorEnd(c),
                                "ROUTINE", FALSE, FALSE, FALSE))
    BY <1>2 DEF SkipClosure
  <2>2. rows[c].state \in Open \cup Terminal
    BY <1>1 DEF IsOpen
  <2> QED BY <1>1, <2>1, <2>2 DEF AnyAdvance
<1>3. CASE VoidGap(c, view)
  <2>1. Advance(c, AdvanceEvent("VOID_DATA", CursorEnd(c), Cursor(c),
                                "DATA_QUALITY", FALSE, FALSE, FALSE))
    BY <1>3 DEF VoidGap
  <2>2. "VOID_DATA" \in Open \cup Terminal
    BY DEF Terminal
  <2> QED BY <1>1, <2>1, <2>2 DEF AnyAdvance
<1>4. CASE ConsumeBar(c, view)
  <2> DEFINE m == CursorMinute(c)
  <2>1. Advance(c, AdvanceEvent(StateAfter(c, m), CursorEnd(c), CursorEnd(c), "ROUTINE",
                                Ambiguous(c, m), SkipsZone(c, m), Entering(c, m)))
    BY <1>4 DEF ConsumeBar
  <2>2. /\ StateAfter(c, m) \in Open \cup Terminal
        /\ Ambiguous(c, m) \in BOOLEAN /\ SkipsZone(c, m) \in BOOLEAN
        /\ Entering(c, m) \in BOOLEAN
    BY <1>1, StateAfterTyped
  <2> HIDE DEF m
  <2> QED BY <1>1, <2>1, <2>2 DEF AnyAdvance
<1> QED BY <1>2, <1>3, <1>4 DEF EvaluateMinute

LEMMA DeadlineIsLedgerStep ==
    ASSUME EvidenceIInv, NEW c \in Calls, NEW view \in SUBSET Minutes, NEW at \in Nat,
           Deadline(c, view, at)
    PROVE  AnyAdvance
<1> DEFINE state == IF rows[c].state = "ACTIVE" THEN "SCRATCH" ELSE "NEVER_TRIGGERED"
           limit == Limit(c, view, at)
<1>1. Advance(c, AdvanceEvent(state, Expires[c], limit, "ROUTINE", FALSE, FALSE, FALSE))
  BY DEF Deadline
<1>2. state \in Open \cup Terminal
  BY DEF Terminal
<1>3. limit \in Nat /\ limit <= EvalTo(c)
  BY LimitFacts
<1> HIDE DEF state, limit
<1>4. Expires[c] \in Time /\ limit \in Time
  BY <1>3, CallTimes, LedgerConstants DEF Time, LedgerConstants
<1> QED BY <1>1, <1>2, <1>4 DEF AnyAdvance

LEMMA ServiceIsLedgerStep ==
    ASSUME EvidenceIInv, [Next]_vars
    PROVE  [LedgerNext]_ledgerVars
<1>1. QuietStep \/ CreateStep \/ CancelStep \/ MinuteStep \/ DeadlineStep
  BY StepKind DEF EvidenceIInv, LedgerIInv
<1>2. CASE QuietStep
  BY <1>2 DEF QuietStep
<1>3. CASE CreateStep
  BY <1>3 DEF CreateStep, LedgerNext, AnyCreate
<1>4. CASE CancelStep
  <2>1. PICK c \in Calls, at \in 0 .. MaxNow : Cancel(c, "CANCEL_REASON", at)
    BY <1>4 DEF CancelStep
  <2>2. at \in Time
    BY ServiceConstants, LedgerConstants, MinuteIsNat
       DEF Time, ServiceConstants, LedgerConstants, MaxNow
  <2> QED BY <2>1, <2>2 DEF LedgerNext, AnyCancel, Reasons
<1>5. CASE MinuteStep
  BY <1>5, PassFacts, MinuteIsLedgerStep DEF MinuteStep, LedgerNext
<1>6. CASE DeadlineStep
  BY <1>6, PassFacts, DeadlineIsLedgerStep DEF DeadlineStep, LedgerNext
<1> QED BY <1>1, <1>2, <1>3, <1>4, <1>5, <1>6

LEMMA EvidenceStaysTyped ==
    ASSUME EvidenceIInv, [Next]_vars
    PROVE  EvidenceTyped'
<1>1. QuietStep \/ CreateStep \/ CancelStep \/ MinuteStep \/ DeadlineStep
  BY StepKind DEF EvidenceIInv, LedgerIInv
<1>2. CASE QuietStep \/ CreateStep \/ CancelStep \/ DeadlineStep
  BY <1>2 DEF QuietStep, CreateStep, CancelStep, DeadlineStep, Deadline, evidence,
              EvidenceIInv, EvidenceTyped
<1>3. CASE MinuteStep
  <2>1. PICK c \in Calls : EvaluateMinute(c, JobView, JobNow)
    BY <1>3 DEF MinuteStep
  <2>2. CASE UNCHANGED evidence
    BY <1>3, <2>2 DEF MinuteStep, evidence, EvidenceIInv, EvidenceTyped
  <2>3. CASE ConsumeBar(c, JobView)
    <3>1. CursorMinute(c) \in Minutes
      BY <1>3, <2>3, PassFacts DEF ConsumeBar, Relevant, MinuteStep
    <3> QED BY <1>3, <2>3, <3>1 DEF MinuteStep, ConsumeBar, EvidenceIInv, EvidenceTyped
  <2> QED BY <2>1, <2>2, <2>3 DEF EvaluateMinute, SkipClosure, VoidGap
<1> QED BY <1>1, <1>2, <1>3

LEMMA EvidenceInit == Init => EvidenceIInv
<1> SUFFICES ASSUME Init
             PROVE  EvidenceIInv
  OBVIOUS
<1>1. ClockIInv /\ LedgerIInv
  BY ClockInit, LedgerInitInv DEF Init
<1>2. EvidenceTyped
  <2>1. PICK past \in [0 .. StartMinute - 1 -> PastShapes] :
          market = [m \in Minutes |-> IF m < StartMinute THEN past[m] ELSE "FUTURE"]
    BY DEF Init
  <2>2. \A m \in Minutes : m < StartMinute => past[m] \in Shapes
    BY ServiceConstants, MinuteIsNat DEF ServiceConstants, Minutes
  <2>3. market \in [Minutes -> Shapes \cup {"NO_TRADE", "FUTURE"}]
    BY <2>1, <2>2
  <2> QED BY <2>3 DEF Init, EvidenceTyped
<1>3. \A c \in Calls : CallInv(c)
  BY DEF Init, LedgerInit, NoRow, CallInv, Known
<1> QED BY <1>1, <1>2, <1>3 DEF EvidenceIInv

LEMMA EvidenceStep == EvidenceIInv /\ [Next]_vars => EvidenceIInv'
<1> SUFFICES ASSUME EvidenceIInv, [Next]_vars
             PROVE  EvidenceIInv'
  OBVIOUS
<1>1. ClockIInv' /\ LedgerIInv' /\ EvidenceTyped'
  BY ClockStep, ServiceIsLedgerStep, LedgerNextInv, EvidenceStaysTyped DEF EvidenceIInv
<1>2. QuietStep \/ CreateStep \/ CancelStep \/ MinuteStep \/ DeadlineStep
  BY StepKind DEF EvidenceIInv, LedgerIInv
<1>3. CASE QuietStep
  <2>1. \A c \in Calls : Untouched(c)
    BY <1>3 DEF QuietStep, Untouched, ledgerVars, evidence, EvidenceIInv, CallInv
  <2> QED BY <1>1, <2>1, UntouchedKeeps DEF EvidenceIInv
<1>4. CASE CreateStep
  BY <1>1, <1>4, CreateKeepsEvidence DEF CreateStep, EvidenceIInv
<1>5. CASE CancelStep
  <2>1. PICK c \in Calls, at \in 0 .. MaxNow : Cancel(c, "CANCEL_REASON", at)
    BY <1>5 DEF CancelStep
  <2>2. at \in Nat
    OBVIOUS
  <2> QED BY <1>1, <1>5, <2>1, <2>2, CancelKeepsEvidence DEF CancelStep, EvidenceIInv
<1>6. CASE MinuteStep
  <2>1. PICK c \in Calls : EvaluateMinute(c, JobView, JobNow)
    BY <1>6 DEF MinuteStep
  <2>2. UNCHANGED <<market, stored>> /\ JobView \in SUBSET stored /\ JobNow \in Nat
        /\ HasMinute(c, JobView, JobNow) /\ IsOpen(c)
    BY <1>6, <2>1, PassFacts DEF MinuteStep, EvaluateMinute, HasMinute
  <2>3. \A d \in Calls : CallInv(d)'
    BY <2>1, <2>2, SkipKeepsEvidence, VoidKeepsEvidence, ConsumeKeepsEvidence
       DEF EvaluateMinute
  <2> QED BY <1>1, <2>3 DEF EvidenceIInv
<1>7. CASE DeadlineStep
  BY <1>1, <1>7, PassFacts, DeadlineKeepsEvidence DEF DeadlineStep, EvidenceIInv
<1> QED BY <1>2, <1>3, <1>4, <1>5, <1>6, <1>7

LEMMA EvidenceAlways == Spec => []EvidenceIInv
  BY EvidenceInit, EvidenceStep, PTL DEF Spec

-----------------------------------------------------------------------------
(* What the runs check, for every value of the constants.                  *)

\* The service uses the ledger as the ledger's own specification allows: whatever
\* the feed, the holes and the restarts do, a step appends one valid event or none.
THEOREM ServiceImplementsLedger == Spec => LedgerSpec
<1>1. Init => LedgerInit
  BY DEF Init
<1>2. EvidenceIInv /\ [Next]_vars => [LedgerNext]_ledgerVars
  BY ServiceIsLedgerStep
<1> QED BY <1>1, <1>2, EvidenceAlways, PTL DEF Spec, LedgerSpec

\* A row says what one reading of its bars in order would say, however the evaluation
\* was cut into passes and restarts.
THEOREM OutcomesMatchEvidence == Spec => []OutcomeMatchesEvidence
<1>1. EvidenceIInv => OutcomeMatchesEvidence
  BY DEF EvidenceIInv, CallInv, Judged, OutcomeMatchesEvidence
<1> QED BY <1>1, EvidenceAlways, PTL

\* No minute of a life is skipped or read in part.
THEOREM NoMinuteIsSkipped == Spec => []NoMinuteSkipped
<1>1. ASSUME EvidenceIInv
      PROVE  NoMinuteSkipped
  <2>1. ASSUME NEW c \in Calls, Known(c)
        PROVE  /\ Within(EvalFrom(c), rows[c].covered) \subseteq consumed[c] \cup ClosedMinutes
               /\ \A m \in consumed[c] : /\ Created[c] <= m * Minute
                                         /\ (m + 1) * Minute <= Expires[c]
    <3>1. Covered(c)
      BY <1>1, <2>1 DEF EvidenceIInv, CallInv
    <3>2. ASSUME NEW m \in consumed[c]
          PROVE  Created[c] <= m * Minute /\ (m + 1) * Minute <= Expires[c]
      <4>1. m \in Nat /\ m * Minute \in Nat /\ m * Minute \in MultipleOf(Minute)
            /\ (m + 1) * Minute = m * Minute + Minute
        BY <1>1, RowFacts, MinuteIsNat DEF MultipleOf
      <4>2. EvalFrom(c) <= m * Minute /\ m * Minute < EvalTo(c)
        BY <3>1 DEF Covered
      <4>3. m * Minute + Minute <= EvalTo(c)
        BY <4>1, <4>2, CallTimes, MultiplesApart, MinuteIsNat
      <4> QED BY <4>1, <4>2, <4>3, CallTimes, MinuteIsNat
    <3> QED BY <3>1, <3>2 DEF Covered
  <2> QED BY <2>1 DEF NoMinuteSkipped
<1> QED BY <1>1, EvidenceAlways, PTL

\* A call is voided for a hole the store can show, and for nothing else.
THEOREM VoidsNameAHole == Spec => []VoidNamesAHole
<1>1. EvidenceIInv => VoidNamesAHole
  BY DEF EvidenceIInv, CallInv, Voided, Judged, Known, VoidNamesAHole
<1> QED BY <1>1, EvidenceAlways, PTL

\* A pass neither covers nor stamps a row beyond the clock it runs at.
THEOREM EvaluationsAreInTime == Spec => EvaluatesInTime
<1>1. ASSUME EvidenceIInv, [Next]_vars, NEW c \in Calls, worker = "resolve",
             rows'[c] # rows[c]
      PROVE  rows'[c].covered <= JobNow /\ rows'[c].resolved <= JobNow
  <2>1. QuietStep \/ CreateStep \/ CancelStep \/ MinuteStep \/ DeadlineStep
    BY <1>1, StepKind DEF EvidenceIInv, LedgerIInv
  <2>2. MinuteStep \/ DeadlineStep
    BY <1>1, <2>1 DEF QuietStep, CreateStep, CancelStep, ledgerVars
  <2>3. JobView \in SUBSET Minutes /\ JobNow \in Nat
    BY <1>1, PassFacts
  <2>4. ASSUME NEW e, NEW d \in Calls, AppendEvent(d, e), e.at <= JobNow, e.covered <= JobNow
        PROVE  rows'[c].covered <= JobNow /\ rows'[c].resolved <= JobNow
    <3>1. c = d /\ rows'[c] = Applied(c, e)
      BY <1>1, <2>4, AppendRows
    <3> QED BY <2>3, <2>4, <3>1 DEF Applied, Unset
  <2>5. CASE MinuteStep
    <3>1. PICK d \in Calls : EvaluateMinute(d, JobView, JobNow)
      BY <2>5 DEF MinuteStep
    <3>2. Cursor(d) <= JobNow /\ CursorEnd(d) <= JobNow
      BY <1>1, <2>3, <3>1, MinuteInLimit DEF EvaluateMinute
    <3>3. \E e : AppendEvent(d, e) /\ e.at <= JobNow /\ e.covered <= JobNow
      <4>1. CASE SkipClosure(d, JobView)
        BY <3>2, <4>1 DEF SkipClosure, Advance, AdvanceEvent
      <4>2. CASE VoidGap(d, JobView)
        BY <3>2, <4>2 DEF VoidGap, Advance, AdvanceEvent
      <4>3. CASE ConsumeBar(d, JobView)
        BY <3>2, <4>3 DEF ConsumeBar, Advance, AdvanceEvent
      <4> QED BY <3>1, <4>1, <4>2, <4>3 DEF EvaluateMinute
    <3> QED BY <2>4, <3>3
  <2>6. CASE DeadlineStep
    <3>1. PICK d \in Calls : Deadline(d, JobView, JobNow)
      BY <2>6 DEF DeadlineStep
    <3>2. Limit(d, JobView, JobNow) <= JobNow /\ Expires[d] <= JobNow
      BY <2>3, <3>1, LimitFacts, CallTimes DEF Deadline, AtDeadline
    <3>3. \E e : AppendEvent(d, e) /\ e.at <= JobNow /\ e.covered <= JobNow
      BY <3>1, <3>2 DEF Deadline, Advance, AdvanceEvent
    <3> QED BY <2>4, <3>3
  <2> QED BY <2>2, <2>5, <2>6
<1>2. EvidenceIInv /\ [Next]_vars =>
        [\A c \in Calls : worker = "resolve" /\ rows'[c] # rows[c] =>
           rows'[c].covered <= JobNow /\ rows'[c].resolved <= JobNow]_vars
  BY <1>1
<1> QED BY <1>2, EvidenceAlways, PTL DEF Spec, EvaluatesInTime

\* The rest of the thread's variables.
ThreadTyped ==
    /\ sequence \in [TFs -> {"CONTINUES", "REPLAYED", "REUSED"}]
    /\ index \in Nat \ {0}
    /\ offers \subseteq Calls

LEMMA ThreadStep == ThreadTyped /\ [Next]_vars => ThreadTyped'
<1> SUFFICES ASSUME ThreadTyped, [Next]_vars
             PROVE  ThreadTyped'
  OBVIOUS
<1>1. CASE UNCHANGED <<sequence, index, offers>>
  BY <1>1 DEF ThreadTyped
<1>2. CASE Feed \/ SweepTick \/ SweepClose \/ Refresh \/ EndTick \/ StartPass \/ ScalpPass
           \/ UNCHANGED vars
  <2>1. UNCHANGED <<sequence, index, offers>>
    BY <1>2 DEF Feed, Store, Tick, SweepTick, SweepClose, SweepOne, Refresh, EndTick, StartPass,
                ScalpPass, ScalpNone, ScalpPublishes, EndPass, barVars, passVars, vars
  <2> QED BY <1>1, <2>1
<1>3. CASE PlanAny
  BY <1>3 DEF PlanAny, Plan, ThreadTyped
<1>4. CASE StartResolving
  BY <1>4 DEF StartResolving, barVars, ThreadTyped
<1>5. CASE Resolve
  <2>1. /\ index' \in {index, index + 1}
        /\ UNCHANGED <<sequence, offers>>
    BY <1>5 DEF Resolve, MarkResolution, ResolveMinute, ResolveDeadline, ResolveLater,
                resolveFrame, barVars
  <2> QED BY <2>1 DEF ThreadTyped
<1>6. CASE Construct
  <2>1. /\ offers' \subseteq Calls
        /\ UNCHANGED <<sequence, index>>
    BY <1>6 DEF Construct, StartConstructing, ConstructRejects, ConstructPublishes,
                EndConstructing, constructFrame, barVars, ThreadTyped
  <2> QED BY <2>1 DEF ThreadTyped
<1>7. CASE Restart
  <2>1. sequence' = [tf \in TFs |-> "CONTINUES"] /\ index' = 1 /\ offers' = {}
    BY <1>7 DEF Restart
  <2> QED BY <2>1 DEF ThreadTyped
<1> QED BY <1>2, <1>3, <1>4, <1>5, <1>6, <1>7 DEF Next, Work

LEMMA ThreadAlways == Spec => []ThreadTyped
<1>1. Init => ThreadTyped
  <2> SUFFICES ASSUME Init
               PROVE  ThreadTyped
    OBVIOUS
  <2>1. sequence = [tf \in TFs |-> "CONTINUES"] /\ index = 1 /\ offers = {}
    BY DEF Init
  <2> QED BY <2>1 DEF ThreadTyped
<1> QED BY <1>1, ThreadStep, PTL DEF Spec

\* Every variable of the service has its type.
THEOREM ServiceTyped == Spec => []ServiceTypeOK
<1>1. EvidenceIInv /\ ThreadTyped => ServiceTypeOK
  <2> SUFFICES ASSUME EvidenceIInv, ThreadTyped
               PROVE  ServiceTypeOK
    OBVIOUS
  <2>1. now \in -1 .. MaxNow
    BY MinuteIsNat DEF EvidenceIInv, ClockIInv, MaxNow
  <2> QED BY <2>1 DEF EvidenceIInv, LedgerIInv, EvidenceTyped, ClockIInv, OpeningsPast, StorePast,
                      ThreadTyped, ServiceTypeOK
<1> QED BY <1>1, EvidenceAlways, ThreadAlways, PTL
-----------------------------------------------------------------------------
(* Waiting.  A call is looked at before every pass, so what is PENDING in  *)
(* a pass is young at the close the pass is for.  It could still fill too  *)
(* late on a bar after that close: a replay reads none, and at a live      *)
(* close there is none.  The bar in progress of a timeframe the thread     *)
(* still reaches contains now between two ticks, so the next tick leaves   *)
(* no formed traded minute behind its end.                                 *)

PastMinute(m) == (m + 1) * Minute <= now

\* What is stored was traded, and before the first tick is all there is.
StoreFormed ==
    \A m \in stored :
        /\ Traded(m)
        /\ \/ PastMinute(m)
           \/ worker = "idle" /\ m < StartMinute /\ StartMinute * Minute <= now + 1

NoBarAhead == \A m \in Minutes : Traded(m) => m * Minute <= now

\* No traded minute formed from time t on.
QuietSince(t) == \A m \in Minutes : Traded(m) /\ PastMinute(m) => m * Minute < t

BarsInProgress ==
    \A tf \in Reached : opening[tf] # Unset =>
        /\ worker \in {"sweep", "plan"} => QuietSince(opening[tf] + BarSpan(tf))
        /\ worker \notin {"sweep", "plan", "failed"} => now < opening[tf] + BarSpan(tf)

JobsQuiet ==
    /\ worker = "idle" => jobs = {}
    /\ \A j \in jobs : ~j.replay => QuietSince(j.to)

MarketInv == StoreFormed /\ NoBarAhead /\ BarsInProgress /\ JobsQuiet

BookIsFull == \A c \in Calls : Known(c) => \E i \in 1 .. Len(book) : book[i] = c

SweptBefore ==
    worker = "resolve" => \A c \in Calls :
        rows[c].state = "PENDING" => job.to < Created[c] + MaxPendingAge

FilledInAge(c) ==
    Fills(c) # {} => \E f \in Fills(c) : f * Minute < Created[c] + MaxPendingAge

WaitInv == MarketInv /\ BookIsFull /\ SweptBefore /\ \A c \in Calls : FilledInAge(c)

LEMMA ReachedAreTimeframes == Reached \subseteq TFs
  BY ServiceConstants DEF Reached, ServiceConstants

\* The steps that leave the clock, the bars and the jobs alone.
LEMMA MarketFramed ==
    ASSUME MarketInv, UNCHANGED <<now, market, stored, opening, sequence, jobs>>,
           worker' = worker \/ /\ worker' \notin {"sweep", "idle"}
                               /\ worker # "idle"
                               /\ worker' = "plan" => worker = "sweep"
                               /\ worker \in {"sweep", "plan"} => worker' \in {"plan", "failed"}
                               /\ worker # "failed"
    PROVE  MarketInv'
<1>1. \A m : (Traded(m)' <=> Traded(m)) /\ (PastMinute(m)' <=> PastMinute(m))
  BY DEF Traded, PastMinute
<1>2. \A t : QuietSince(t)' <=> QuietSince(t)
  BY <1>1 DEF QuietSince
<1>3. Reached' = Reached
  BY DEF Reached
<1>4. StoreFormed' /\ NoBarAhead'
  BY <1>1 DEF MarketInv, StoreFormed, NoBarAhead
<1>5. BarsInProgress'
  BY <1>2, <1>3 DEF MarketInv, BarsInProgress
<1>6. JobsQuiet'
  BY <1>2 DEF MarketInv, JobsQuiet
<1> QED BY <1>4, <1>5, <1>6 DEF MarketInv

LEMMA MarketOfStore ==
    ASSUME MarketInv, NEW m \in Minutes, Store(m)
    PROVE  MarketInv'
<1>1. /\ Traded(m) /\ PastMinute(m) /\ stored' = stored \cup {m}
      /\ UNCHANGED <<now, market, worker, opening, sequence, jobs>>
  BY DEF Store, tickVars, barVars, passVars, PastMinute
<1>2. \A k : (Traded(k)' <=> Traded(k)) /\ (PastMinute(k)' <=> PastMinute(k))
  BY <1>1 DEF Traded, PastMinute
<1>3. \A t : QuietSince(t)' <=> QuietSince(t)
  BY <1>2 DEF QuietSince
<1>4. Reached' = Reached
  BY <1>1 DEF Reached
<1>5. StoreFormed' /\ NoBarAhead'
  BY <1>1, <1>2 DEF MarketInv, StoreFormed, NoBarAhead
<1>6. BarsInProgress' /\ JobsQuiet'
  BY <1>1, <1>3, <1>4 DEF MarketInv, BarsInProgress, JobsQuiet
<1> QED BY <1>5, <1>6 DEF MarketInv

\* The minutes a tick finds: the ones before it are as they were or had no trade.
LEMMA TickFacts ==
    ASSUME EvidenceIInv, NEW t \in 0 .. MaxNow, NEW shape \in Shapes, NEW price,
           Tick(t, shape, price)
    PROVE  /\ now \in Nat /\ t \in Nat /\ now < t
           /\ t \div Minute \in Nat
           /\ (t \div Minute) * Minute <= t /\ t < (t \div Minute) * Minute + Minute
           /\ \A k \in Minutes : k # t \div Minute /\ Traded(k)' => Traded(k)
           /\ \A k \in stored : Traded(k) => Traded(k)'
           /\ now' = t /\ worker = "idle" /\ worker' = "sweep"
           /\ UNCHANGED <<stored, opening, sequence, jobs>>
<1> DEFINE m == t \div Minute  last == now \div Minute
<1>1. now \in Nat /\ t \in Nat /\ now < t
  BY MinuteIsNat DEF EvidenceIInv, ClockIInv, Tick, MaxNow
<1>2. m \in Nat /\ last \in Nat /\ m * Minute <= t /\ t < m * Minute + Minute
  BY <1>1, FloorFacts, MinuteIsNat
<1>3. /\ market' = [k \in Minutes |-> CASE k = m -> shape
                                        [] last < k /\ k < m -> "NO_TRADE"
                                        [] OTHER -> market[k]]
      /\ now' = t /\ worker = "idle" /\ worker' = "sweep"
      /\ UNCHANGED <<stored, opening, sequence, jobs>>
  BY DEF Tick, barVars, passVars
<1>4. "NO_TRADE" \notin Shapes
  BY ServiceConstants DEF ServiceConstants
<1> HIDE DEF m, last
<1>5. ASSUME NEW k \in Minutes, k # m, Traded(k)'
      PROVE  Traded(k)
  <2>1. market'[k] = IF last < k /\ k < m THEN "NO_TRADE" ELSE market[k]
    BY <1>3, <1>5
  <2> QED BY <1>4, <1>5, <2>1 DEF Traded
<1>6. ASSUME NEW k \in stored, Traded(k)
      PROVE  Traded(k)'
  <2>1. QuietStep
    BY FeedIsQuiet DEF EvidenceIInv, Feed, Tick
  <2> QED BY <1>6, <2>1 DEF QuietStep, Traded
<1> QED BY <1>1, <1>2, <1>3, <1>5, <1>6 DEF m

LEMMA MarketOfTick ==
    ASSUME EvidenceIInv, MarketInv, NEW t \in 0 .. MaxNow, NEW shape \in Shapes, NEW price,
           Tick(t, shape, price)
    PROVE  MarketInv'
<1> DEFINE m == t \div Minute
<1>1. /\ now \in Nat /\ t \in Nat /\ now < t
      /\ m \in Nat /\ m * Minute \in Nat /\ m * Minute <= t /\ t < m * Minute + Minute
      /\ \A k \in Minutes : k # m /\ Traded(k)' => Traded(k)
      /\ \A k \in stored : Traded(k) => Traded(k)'
      /\ now' = t /\ worker = "idle" /\ worker' = "sweep"
      /\ UNCHANGED <<stored, opening, sequence, jobs>>
  BY TickFacts, MinuteIsNat
<1> HIDE DEF m
<1>2. stored \subseteq Minutes /\ StartMinute \in Nat
  BY ServiceConstants, MinuteIsNat DEF EvidenceIInv, ClockIInv, StorePast, ServiceConstants
<1>3. ASSUME NEW k \in Nat
      PROVE  k * Minute \in Nat /\ (k + 1) * Minute = k * Minute + Minute
  BY MinuteIsNat
<1>4. StoreFormed'
  <2>1. ASSUME NEW k \in stored
        PROVE  PastMinute(k)'
    <3>1. k \in Nat /\ Minute \in Nat
      BY <1>2, MinuteIsNat
    <3>2. CASE PastMinute(k)
      BY <1>1, <1>3, <3>1, <3>2 DEF PastMinute
    <3>3. CASE k < StartMinute /\ StartMinute * Minute <= now + 1
      <4>1. k * Minute + Minute <= StartMinute * Minute /\ StartMinute * Minute \in Nat
        BY <1>2, <3>1, <3>3, TimesGrow
      <4> QED BY <1>1, <1>3, <3>1, <3>3, <4>1 DEF PastMinute
    <3> QED BY <3>2, <3>3 DEF MarketInv, StoreFormed
  <2> QED BY <1>1, <2>1 DEF MarketInv, StoreFormed
<1>5. NoBarAhead'
  <2>1. ASSUME NEW k \in Minutes, Traded(k)'
        PROVE  k * Minute <= t
    <3>1. k \in Nat
      BY MinuteIsNat
    <3>2. CASE k = m
      BY <1>1, <3>2
    <3>3. CASE k # m
      <4>1. k * Minute <= now
        BY <1>1, <2>1, <3>3 DEF MarketInv, NoBarAhead
      <4> QED BY <1>1, <1>3, <3>1, <4>1
    <3> QED BY <3>2, <3>3
  <2> QED BY <1>1, <2>1 DEF NoBarAhead
<1>6. BarsInProgress'
  <2>1. ASSUME NEW tf \in Reached, opening[tf] # Unset
        PROVE  QuietSince(opening[tf] + BarSpan(tf))'
    <3> DEFINE e == opening[tf] + BarSpan(tf)
    <3>1. now < e
      BY <1>1, <2>1 DEF MarketInv, BarsInProgress
    <3>2. tf \in TFs /\ BarSpan(tf) \in Nat /\ opening[tf] \in Nat
      BY <2>1, ReachedAreTimeframes, SpanIsNat DEF EvidenceIInv, ClockIInv, OpeningsPast
    <3>3. e \in Nat
      BY <3>2
    <3> HIDE DEF e
    <3>4. ASSUME NEW k \in Minutes, Traded(k)', PastMinute(k)'
          PROVE  k * Minute < e
      <4>1. k \in Nat /\ k * Minute + Minute <= t /\ k * Minute \in Nat /\ Minute \in Nat \ {0}
        BY <1>1, <1>3, <3>4, MinuteIsNat DEF PastMinute
      <4>2. k # m
        BY <1>1, <4>1
      <4>3. k * Minute <= now
        BY <1>1, <3>4, <4>2 DEF MarketInv, NoBarAhead
      <4> QED BY <1>1, <3>1, <3>3, <4>1, <4>3
    <3>5. QuietSince(e)'
      <4>1. e' = e
        BY <1>1 DEF e, BarSpan
      <4> QED BY <3>4, <4>1 DEF QuietSince
    <3> QED BY <3>5 DEF e
  <2>2. Reached' = Reached
    BY <1>1 DEF Reached
  <2>3. ASSUME NEW tf \in Reached', opening'[tf] # Unset
        PROVE  QuietSince(opening[tf] + BarSpan(tf))'
    BY <1>1, <2>1, <2>2, <2>3
  <2> QED BY <1>1, <2>3 DEF BarsInProgress
<1>7. JobsQuiet'
  BY <1>1 DEF MarketInv, JobsQuiet
<1> QED BY <1>4, <1>5, <1>6, <1>7 DEF MarketInv

\* A plan takes over the bars that ended and opens the ones of now.
LEMMA MarketOfPlan ==
    ASSUME EvidenceIInv, MarketInv, PlanAny
    PROVE  MarketInv'
<1>1. PICK ready, lost : Plan(ready, lost)
  BY DEF PlanAny
<1>2. /\ worker = "plan" /\ worker' = "jobs"
      /\ jobs' = UNION {JobsOf(tf, ready, lost) : tf \in Reached}
      /\ UNCHANGED <<now, market, stored>>
      /\ now \in Nat
  BY <1>1 DEF Plan, feedVars, tickVars, EvidenceIInv, ClockIInv
<1>3. \A m : (Traded(m)' <=> Traded(m)) /\ (PastMinute(m)' <=> PastMinute(m))
  BY <1>2 DEF Traded, PastMinute
<1>4. \A t : QuietSince(t)' <=> QuietSince(t)
  BY <1>3 DEF QuietSince
<1>5. StoreFormed' /\ NoBarAhead'
  BY <1>2, <1>3 DEF MarketInv, StoreFormed, NoBarAhead
<1>6. Reached' \subseteq Reached
  <2>1. \A tf \in TFs : sequence'[tf] = "CONTINUES" => sequence[tf] = "CONTINUES"
    BY <1>1 DEF Plan
  <2>2. \A k \in 1 .. Len(TfOrder) : TfOrder[k] \in TFs
    BY ServiceConstants DEF ServiceConstants
  <2> QED BY <2>1, <2>2 DEF Reached
<1>7. BarsInProgress'
  <2>1. ASSUME NEW tf \in Reached', opening'[tf] # Unset
        PROVE  now < opening'[tf] + BarSpan(tf)
    <3>1. tf \in Reached /\ tf \in TFs
      BY <1>6, ReachedAreTimeframes
    <3>2. opening'[tf] = Opening(tf, now)
      BY <1>1, <2>1, <3>1 DEF Plan
    <3> QED BY <1>2, <3>1, <3>2, OpeningFacts
  <2>2. ASSUME NEW tf
        PROVE  BarSpan(tf)' = BarSpan(tf)
    BY DEF BarSpan
  <2> QED BY <1>2, <2>1, <2>2 DEF BarsInProgress
<1>8. JobsQuiet'
  <2>1. ASSUME NEW tf \in Reached, NEW j \in JobsOf(tf, ready, lost), ~j.replay
        PROVE  QuietSince(j.to)
    <3>1. j \notin ReplayJobs(tf)
      <4>1. \A f : Job(tf, f, TRUE).replay
        BY DEF Job
      <4>2. \A k \in ReplayJobs(tf) : \E f : k = Job(tf, f, TRUE)
        BY DEF ReplayJobs
      <4> QED BY <2>1, <4>1, <4>2
    <3>2. j = Job(tf, opening[tf], FALSE) /\ opening[tf] # Unset
      BY <3>1 DEF JobsOf
    <3> QED BY <1>2, <3>2 DEF Job, MarketInv, BarsInProgress
  <2> QED BY <1>2, <1>4, <2>1 DEF JobsQuiet
<1> QED BY <1>5, <1>7, <1>8 DEF MarketInv

LEMMA MarketStep ==
    ASSUME EvidenceIInv, MarketInv, [Next]_vars
    PROVE  MarketInv'
<1> DEFINE frame == UNCHANGED <<now, market, stored, opening, sequence, jobs>>
<1>1. CASE Feed
  BY <1>1, MarketOfStore, MarketOfTick DEF Feed
<1>2. CASE SweepTick \/ SweepClose
  <2>1. frame /\ worker' \in {worker, "failed"} /\ worker \in {"sweep", "stale"}
    BY <1>2, SweepFrame DEF SweepTick, SweepClose
  <2> QED BY <2>1, MarketFramed
<1>3. CASE Refresh
  <2>1. frame /\ worker = "sweep" /\ worker' \in {"plan", "failed"}
    BY <1>3 DEF Refresh, Fails, feedVars, barVars, passVars
  <2> QED BY <2>1, MarketFramed
<1>4. CASE PlanAny
  BY <1>4, MarketOfPlan
<1>5. CASE EndTick
  <2>1. frame /\ worker = "jobs" /\ worker' \in {"idle", "failed"} /\ jobs = {}
    BY <1>5 DEF EndTick, Fails, feedVars, tickVars, viewVars, barVars, passVars
  <2>2. \A m : (Traded(m)' <=> Traded(m)) /\ (PastMinute(m)' <=> PastMinute(m))
    BY <2>1 DEF Traded, PastMinute
  <2>3. Reached' = Reached
    BY <2>1 DEF Reached
  <2>4. StoreFormed' /\ NoBarAhead'
    BY <2>1, <2>2 DEF MarketInv, StoreFormed, NoBarAhead
  <2>5. BarsInProgress' /\ JobsQuiet'
    BY <2>1, <2>3 DEF MarketInv, BarsInProgress, JobsQuiet
  <2> QED BY <2>4, <2>5 DEF MarketInv
<1>6. CASE StartPass \/ StartResolving \/ Resolve \/ Construct
  <2>1. /\ frame /\ worker \in {"jobs", "stale", "resolve", "construct"}
        /\ worker' \in {"stale", "resolve", "construct", "scalp", "failed"}
    BY <1>6 DEF StartPass, StartResolving, Resolve, MarkResolution, ResolveMinute,
                ResolveDeadline, ResolveLater, Resolving, resolveFrame, Construct,
                StartConstructing, ConstructRejects, ConstructPublishes, EndConstructing, Fails,
                constructFrame, feedVars, tickVars, barVars, passVars
  <2> QED BY <2>1, MarketFramed
<1>7. CASE ScalpPass
  <2>1. /\ UNCHANGED <<now, market, stored, opening, sequence>> /\ jobs' \subseteq jobs
        /\ worker = "scalp" /\ worker' \in {"jobs", "failed"}
    BY <1>7 DEF ScalpPass, ScalpNone, ScalpPublishes, EndPass, Fails, feedVars, tickVars, barVars
  <2>2. \A m : (Traded(m)' <=> Traded(m)) /\ (PastMinute(m)' <=> PastMinute(m))
    BY <2>1 DEF Traded, PastMinute
  <2>3. \A t : QuietSince(t)' <=> QuietSince(t)
    BY <2>2 DEF QuietSince
  <2>4. Reached' = Reached
    BY <2>1 DEF Reached
  <2>5. StoreFormed' /\ NoBarAhead'
    BY <2>1, <2>2 DEF MarketInv, StoreFormed, NoBarAhead
  <2>6. BarsInProgress'
    BY <2>1, <2>4 DEF MarketInv, BarsInProgress
  <2>7. JobsQuiet'
    BY <2>1, <2>3 DEF MarketInv, JobsQuiet
  <2> QED BY <2>5, <2>6, <2>7 DEF MarketInv
<1>8. CASE Restart
  <2>1. /\ UNCHANGED <<now, market, stored>> /\ worker' = "idle" /\ jobs' = {}
        /\ opening' = [tf \in TFs |-> Unset]
    BY <1>8 DEF Restart, feedVars
  <2>2. \A m : (Traded(m)' <=> Traded(m)) /\ (PastMinute(m)' <=> PastMinute(m))
    BY <2>1 DEF Traded, PastMinute
  <2>3. StoreFormed' /\ NoBarAhead'
    BY <2>1, <2>2 DEF MarketInv, StoreFormed, NoBarAhead
  <2>4. Reached' \subseteq TFs
    BY ServiceConstants DEF Reached, ServiceConstants
  <2>5. BarsInProgress' /\ JobsQuiet'
    BY <2>1, <2>4 DEF BarsInProgress, JobsQuiet
  <2> QED BY <2>3, <2>5 DEF MarketInv
<1>9. CASE UNCHANGED vars
  BY <1>9, MarketFramed DEF vars
<1> QED BY <1>1, <1>2, <1>3, <1>4, <1>5, <1>6, <1>7, <1>8, <1>9 DEF Next, Work

LEMMA MarketInit == Init => MarketInv
<1> SUFFICES ASSUME Init
             PROVE  MarketInv
  OBVIOUS
<1>1. StartMinute \in Nat \ {0} /\ StartMinute <= LastMinute
  BY ServiceConstants, MinuteIsNat DEF ServiceConstants, Minutes
<1>2. PICK past \in [0 .. StartMinute - 1 -> PastShapes] :
        market = [m \in Minutes |-> IF m < StartMinute THEN past[m] ELSE "FUTURE"]
  BY DEF Init
<1>3. ASSUME NEW m \in Minutes
      PROVE  Traded(m) <=> m < StartMinute
  <2>1. m \in Nat /\ (m < StartMinute => past[m] \in Shapes) /\ "FUTURE" \notin Shapes
    BY <1>1, MinuteIsNat, ServiceConstants DEF ServiceConstants
  <2> QED BY <1>2, <2>1 DEF Traded
<1>4. /\ now = StartMinute * Minute - 1 /\ stored = 0 .. StartMinute - 1 /\ worker = "idle"
      /\ jobs = {} /\ opening = [tf \in TFs |-> Unset]
  BY DEF Init
<1>5. StartMinute * Minute \in Nat
  BY <1>1, MinuteIsNat
<1>6. StoreFormed
  <2>1. \A m \in stored : m \in Minutes /\ m < StartMinute
    BY <1>1, <1>4, MinuteIsNat DEF Minutes
  <2> QED BY <1>3, <1>4, <1>5, <2>1 DEF StoreFormed
<1>7. NoBarAhead
  <2>1. ASSUME NEW m \in Minutes, Traded(m)
        PROVE  m * Minute <= now
    <3>1. m \in Nat /\ m < StartMinute /\ Minute \in Nat \ {0}
      BY <1>3, <2>1, MinuteIsNat
    <3>2. m * Minute \in Nat /\ m * Minute + Minute <= StartMinute * Minute
      BY <1>1, <3>1, TimesGrow
    <3> QED BY <1>4, <1>5, <3>1, <3>2
  <2> QED BY <2>1 DEF NoBarAhead
<1>8. BarsInProgress /\ JobsQuiet
  BY <1>4, ReachedAreTimeframes DEF BarsInProgress, JobsQuiet
<1> QED BY <1>6, <1>7, <1>8 DEF MarketInv

\* Every published call is in the book a sweep goes through.
LEMMA BookStep ==
    ASSUME EvidenceIInv, BookIsFull, [Next]_vars
    PROVE  BookIsFull'
<1>1. QuietStep \/ CreateStep \/ CancelStep \/ MinuteStep \/ DeadlineStep
  BY StepKind DEF EvidenceIInv, LedgerIInv
<1>2. CASE QuietStep
  BY <1>2 DEF QuietStep, ledgerVars, BookIsFull, Known
<1>3. CASE CreateStep
  <2>1. PICK c \in Calls : Create(c)
    BY <1>3 DEF CreateStep
  <2>2. CASE Known(c)
    BY <2>1, <2>2 DEF Create, ledgerVars, BookIsFull, Known
  <2>3. CASE ~Known(c)
    <3>1. /\ book' = Append(book, c) /\ book \in Seq(Calls)
          /\ \A d \in Calls \ {c} : rows'[d] = rows[d]
      BY <2>1, <2>3, RowTyped DEF Create, EvidenceIInv, LedgerIInv, LedgerTypeOK
    <3>2. /\ Len(book') = Len(book) + 1 /\ Len(book) \in Nat /\ book'[Len(book) + 1] = c
          /\ \A i \in 1 .. Len(book) : book'[i] = book[i]
      BY <3>1
    <3>3. ASSUME NEW d \in Calls, Known(d)'
          PROVE  \E i \in 1 .. Len(book') : book'[i] = d
      <4>1. CASE d = c
        BY <3>2, <4>1
      <4>2. CASE d # c
        <5>1. PICK i \in 1 .. Len(book) : book[i] = d
          BY <3>1, <3>3, <4>2 DEF BookIsFull, Known
        <5>2. i \in 1 .. Len(book') /\ book'[i] = d
          BY <3>2, <5>1
        <5> QED BY <5>2
      <4> QED BY <4>1, <4>2
    <3> QED BY <3>3 DEF BookIsFull
  <2> QED BY <2>2, <2>3
<1>4. CASE CancelStep \/ MinuteStep \/ DeadlineStep
  <2>1. \E c \in Calls : \E e : AppendEvent(c, e) /\ rows[c].state \in Open
    BY <1>4 DEF CancelStep, MinuteStep, DeadlineStep, Cancel, EvaluateMinute, SkipClosure,
                VoidGap, ConsumeBar, Deadline, Advance, AppendEvent, Valid, OpenOnly, IsOpen
  <2>2. PICK c \in Calls : \E e : AppendEvent(c, e) /\ rows[c].state \in Open
    BY <2>1
  <2>3. UNCHANGED book /\ (\A d \in Calls \ {c} : rows'[d] = rows[d]) /\ Known(c)
    BY <2>2, AppendRows DEF AppendEvent, Open, Known
  <2> QED BY <2>3 DEF BookIsFull, Known
<1> QED BY <1>1, <1>2, <1>3, <1>4

\* A pass makes nothing PENDING.
LEMMA PendingShrinks ==
    ASSUME EvidenceIInv, NEW c \in Calls, NEW d \in Calls, NEW e, AppendEvent(d, e),
           rows'[c].state = "PENDING"
    PROVE  rows[c].state = "PENDING"
<1>1. CASE c # d
  BY <1>1, AppendRows
<1>2. CASE c = d
  <2>1. Applied(c, e).state = e.state
    BY DEF Applied
  <2>2. rows'[c] = Applied(c, e)
    BY <1>2, AppendRows
  <2>3. rows[c].state \in {"PENDING", "ACTIVE"}
    BY <1>2 DEF AppendEvent, Valid, OpenOnly, IsOpen, Open
  <2> QED BY <1>2, <2>1, <2>2, <2>3 DEF AppendEvent, Valid, ActiveHolds
<1> QED BY <1>1, <1>2

LEMMA SweptStep ==
    ASSUME EvidenceIInv, BookIsFull, SweptBefore, [Next]_vars
    PROVE  SweptBefore'
<1> SUFFICES ASSUME worker' = "resolve"
             PROVE  SweptBefore'
  BY DEF SweptBefore
<1>1. StartResolving \/ Resolve \/ (\E m \in Minutes : Store(m)) \/ UNCHANGED vars
  <2>1. CASE Feed
    BY <2>1 DEF Feed, Tick
  <2>2. CASE SweepTick \/ SweepClose
    BY <2>2, SweepFrame DEF SweepTick, SweepClose
  <2>3. CASE Refresh \/ PlanAny \/ EndTick \/ StartPass \/ Construct \/ ScalpPass \/ Restart
    BY <2>3 DEF Refresh, PlanAny, Plan, EndTick, StartPass, Construct, StartConstructing,
                ConstructRejects, ConstructPublishes, EndConstructing, ScalpPass, ScalpNone,
                ScalpPublishes, Restart, Fails, constructFrame
  <2> QED BY <2>1, <2>2, <2>3 DEF Next, Work
<1>2. CASE StartResolving
  <2>1. FirstStale(job.to, JobClose) = {} /\ UNCHANGED <<rows, book, jobs>>
        /\ worker = "stale"
    BY <1>2 DEF StartResolving, ledgerVars
  <2>2. job' = job
    BY <2>1 DEF job
  <2>3. job.to \in Nat
    BY <2>1, JobFacts DEF EvidenceIInv, InPass, JobType
  <2>4. ASSUME NEW c \in Calls, rows[c].state = "PENDING"
        PROVE  job.to < Created[c] + MaxPendingAge
    <3>1. Known(c)
      BY <2>4 DEF Known
    <3>2. PICK i \in 1 .. Len(book) : book[i] = c
      BY <3>1 DEF BookIsFull
    <3>3. ~Stale(c, job.to, JobClose)
      BY <2>1, <3>2 DEF FirstStale
    <3>4. ~(job.to - Created[c] >= MaxPendingAge)
      BY <2>4, <3>3 DEF Stale
    <3>5. Created[c] \in Nat /\ MaxPendingAge \in Nat
      BY CreatedIsNat, ServiceConstants DEF ServiceConstants
    <3> QED BY <2>3, <3>4, <3>5
  <2> QED BY <2>1, <2>2, <2>4 DEF SweptBefore
<1>3. CASE Resolve
  <2>1. worker = "resolve" /\ UNCHANGED jobs
    BY <1>3 DEF Resolve, MarkResolution, ResolveMinute, ResolveDeadline, ResolveLater, Resolving,
                resolveFrame
  <2>2. job' = job
    BY <2>1 DEF job
  <2>3. UNCHANGED rows \/ \E d \in Calls : \E e : AppendEvent(d, e)
    BY <1>3 DEF Resolve, MarkResolution, ResolveMinute, ResolveDeadline, ResolveLater,
                EvaluateMinute, SkipClosure, VoidGap, ConsumeBar, Deadline, Advance, ledgerVars
  <2>4. \A c \in Calls : rows'[c].state = "PENDING" => rows[c].state = "PENDING"
    BY <2>3, PendingShrinks
  <2> QED BY <2>1, <2>2, <2>4 DEF SweptBefore
<1>4. CASE (\E m \in Minutes : Store(m)) \/ UNCHANGED vars
  <2>1. UNCHANGED <<worker, rows, jobs>>
    BY <1>4 DEF Store, vars, ledgerVars, passVars
  <2>2. job' = job
    BY <2>1 DEF job
  <2> QED BY <2>1, <2>2 DEF SweptBefore
<1> QED BY <1>1, <1>2, <1>3, <1>4

\* The bar a pass reads for a pending call began before the call was too old.
LEMMA ViewIsYoung ==
    ASSUME EvidenceIInv, MarketInv, worker = "resolve", NEW m \in JobView
    PROVE  m \in Nat /\ m * Minute < job.to
<1>1. job \in jobs /\ job.to \in Nat /\ m \in stored /\ m \in Minutes
  BY JobFacts, JobIsAJob, PassFacts DEF EvidenceIInv, ClockIInv, JobsPast, InPass, JobType
<1>2. m \in Nat /\ Minute \in Nat \ {0}
  BY <1>1, MinuteIsNat
<1>3. m * Minute \in Nat /\ (m + 1) * Minute = m * Minute + Minute
  BY <1>2
<1>4. CASE job.replay
  <2>1. (m + 1) * Minute <= job.to
    BY <1>4 DEF JobView
  <2> QED BY <1>1, <1>2, <1>3, <2>1
<1>5. CASE ~job.replay
  <2>1. QuietSince(job.to)
    BY <1>1, <1>5 DEF MarketInv, JobsQuiet
  <2>2. Traded(m) /\ PastMinute(m)
    BY <1>1 DEF MarketInv, StoreFormed
  <2> QED BY <1>1, <1>2, <2>1, <2>2 DEF QuietSince
<1> QED BY <1>4, <1>5

LEMMA FilledStep ==
    ASSUME EvidenceIInv, MarketInv, SweptBefore, [Next]_vars, \A c \in Calls : FilledInAge(c)
    PROVE  \A c \in Calls : FilledInAge(c)'
<1>1. QuietStep \/ CreateStep \/ CancelStep \/ MinuteStep \/ DeadlineStep
  BY StepKind DEF EvidenceIInv, LedgerIInv
<1>2. ASSUME NEW c \in Calls, consumed'[c] = consumed[c], refused'[c] = refused[c],
             \A m \in consumed[c] : market'[m] = market[m]
      PROVE  FilledInAge(c)'
  <2>1. \A m \in consumed[c] : TouchesEntry(c, m)' <=> TouchesEntry(c, m)
    BY <1>2 DEF TouchesEntry, Bar
  <2>2. Fills(c)' = Fills(c)
    BY <1>2, <2>1 DEF Fills
  <2>3. FilledInAge(c)
    OBVIOUS
  <2> QED BY <2>2, <2>3 DEF FilledInAge
<1>3. CASE QuietStep
  BY <1>2, <1>3 DEF QuietStep, evidence, EvidenceIInv, CallInv
<1>4. CASE CreateStep \/ CancelStep \/ DeadlineStep
  BY <1>2, <1>4 DEF CreateStep, CancelStep, DeadlineStep, Deadline, evidence
<1>5. CASE MinuteStep
  <2>1. PICK d \in Calls : EvaluateMinute(d, JobView, JobNow)
    BY <1>5 DEF MinuteStep
  <2>2. UNCHANGED <<market, stored>> /\ worker = "resolve" /\ JobView \in SUBSET stored
    BY <1>5, PassFacts DEF MinuteStep
  <2>3. CASE SkipClosure(d, JobView) \/ VoidGap(d, JobView)
    BY <1>2, <2>2, <2>3 DEF SkipClosure, VoidGap, evidence
  <2>4. CASE ConsumeBar(d, JobView)
    <3> DEFINE m == CursorMinute(d)
    <3>1. OthersUntouched(d) /\ IsOpen(d)
      BY <2>2, <2>4, ConsumeFacts
    <3>2. Fills(d)' = Fills(d) \cup {m} \/ Fills(d)' = Fills(d)
      BY <2>2, <2>4, ReadingGrows
    <3>3. m \in JobView
      BY <2>4 DEF ConsumeBar, Relevant
    <3>4. m * Minute < job.to /\ m \in Nat
      BY <2>2, <3>3, ViewIsYoung
    <3> HIDE DEF m
    <3>5. FilledInAge(d)'
      <4>1. CASE Fills(d) # {}
        BY <3>2, <4>1 DEF FilledInAge
      <4>2. CASE Fills(d) = {}
        <5>1. rows[d].state = "PENDING"
          BY <3>1, <4>2, OpenFacts DEF IsOpen, Open
        <5>2. job.to < Created[d] + MaxPendingAge
          BY <2>2, <5>1 DEF SweptBefore
        <5>3. job.to \in Nat /\ Created[d] \in Nat /\ MaxPendingAge \in Nat
          BY <2>2, JobFacts, CreatedIsNat, ServiceConstants
             DEF EvidenceIInv, InPass, JobType, ServiceConstants
        <5>4. m * Minute \in Nat
          BY <3>4, MinuteIsNat
        <5>5. m * Minute < Created[d] + MaxPendingAge
          BY <3>4, <5>2, <5>3, <5>4
        <5> QED BY <3>2, <4>2, <5>5 DEF FilledInAge
      <4> QED BY <4>1, <4>2
    <3>6. \A c \in Calls \ {d} : FilledInAge(c)'
      BY <1>2, <3>1 DEF OthersUntouched, Untouched
    <3> QED BY <3>5, <3>6
  <2> QED BY <2>1, <2>3, <2>4 DEF EvaluateMinute
<1> QED BY <1>1, <1>3, <1>4, <1>5

LEMMA WaitAlways == Spec => []WaitInv
<1>1. Init => WaitInv
  <2> SUFFICES ASSUME Init
               PROVE  WaitInv
    OBVIOUS
  <2>1. BookIsFull /\ SweptBefore
    BY DEF Init, LedgerInit, NoRow, BookIsFull, SweptBefore, Known
  <2>2. \A c \in Calls : FilledInAge(c)
    BY DEF Init, FilledInAge, Fills
  <2> QED BY <2>1, <2>2, MarketInit DEF WaitInv
<1>2. EvidenceIInv /\ WaitInv /\ [Next]_vars => WaitInv'
  BY MarketStep, BookStep, SweptStep, FilledStep DEF WaitInv
<1> QED BY <1>1, <1>2, EvidenceAlways, PTL DEF Spec

\* No setup fills on a bar that began max_pending_age_ms or more after its creation.
THEOREM FillsAreInTime == Spec => []FillsWithinPendingAge
<1>1. ASSUME EvidenceIInv, WaitInv
      PROVE  FillsWithinPendingAge
  <2>1. ASSUME NEW c \in Calls, Fills(c) # {}
        PROVE  Min(Fills(c)) * Minute < Created[c] + MaxPendingAge
    <3>1. PICK f \in Fills(c) : f * Minute < Created[c] + MaxPendingAge
      BY <1>1, <2>1 DEF WaitInv, FilledInAge
    <3>2. Fills(c) \in SUBSET Nat
      BY <1>1, RowFacts DEF Fills
    <3> DEFINE p == Min(Fills(c))
    <3>3. p \in Nat /\ p <= f /\ f \in Nat
      BY <2>1, <3>1, <3>2, MinOfNats
    <3> HIDE DEF p
    <3>4. p * Minute <= f * Minute /\ p * Minute \in Nat /\ f * Minute \in Nat
      <4>1. CASE p = f
        BY <3>3, <4>1, MinuteIsNat
      <4>2. CASE p < f
        BY <3>3, <4>2, TimesGrow, MinuteIsNat
      <4> QED BY <3>3, <4>1, <4>2
    <3>5. Created[c] \in Nat /\ MaxPendingAge \in Nat
      BY CreatedIsNat, ServiceConstants DEF ServiceConstants
    <3>6. p * Minute < Created[c] + MaxPendingAge
      BY <3>1, <3>4, <3>5
    <3> QED BY <3>6 DEF p
  <2> QED BY <2>1 DEF FillsWithinPendingAge
<1> QED BY <1>1, EvidenceAlways, WaitAlways, PTL
=============================================================================
