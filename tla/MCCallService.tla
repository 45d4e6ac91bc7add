--------------------------- MODULE MCCallService ----------------------------
(***************************************************************************)
(* A small market for CallService: prices 0..6, two timeframes, a long and *)
(* a short setup on the slow one and scalps on the fast one.               *)
(***************************************************************************)
EXTENDS CallService, TLC

CONSTANTS long, short, scalp, again, retest, brief

MCOHLC ==
    [quiet |-> [h |-> 3, l |-> 3, c |-> 3],     \* between both zones
     dip   |-> [h |-> 3, l |-> 2, c |-> 3],     \* into the long zone
     crash |-> [h |-> 3, l |-> 0, c |-> 0],     \* through it, to its invalidation
     rally |-> [h |-> 5, l |-> 3, c |-> 5],     \* the long target, through the short zone
     span  |-> [h |-> 4, l |-> 2, c |-> 3],     \* into both zones, through neither
     wide  |-> [h |-> 5, l |-> 1, c |-> 3]]     \* everything

LongTerms(tf, zone, grade) ==
    [tf |-> tf, direction |-> "LONG", zone |-> zone, grade |-> grade,
     lo |-> 2, hi |-> 2, ref |-> 2, invalidation |-> 1, target |-> 5]

ShortTerms(tf, zone, grade) ==
    [tf |-> tf, direction |-> "SHORT", zone |-> zone, grade |-> grade,
     lo |-> 4, hi |-> 4, ref |-> 4, invalidation |-> 5, target |-> 1]

MCBarMinutes == [M15 |-> 2, M1 |-> 1]
MCReplayCap  == [M15 |-> 3, M1 |-> 3]
OrderBoth    == <<"M15", "M1">>
OrderM1      == <<"M1">>

\* A long and a short setup confirmed at the same close.
DuelTerms   == (long :> LongTerms("M1", "demand", "A")) @@
               (short :> ShortTerms("M1", "supply", "A"))
DuelCreated == (long :> 2) @@ (short :> 2)
DuelExpires == (long :> 4) @@ (short :> 4)

\* The same two, with a minute left when they are too old to wait.
LiveExpires == (long :> 5) @@ (short :> 5)

\* On the slow timeframe two setups of one close and a second one from the
\* first zone; on the fast one a setup too short-lived to publish, and two
\* scalps, the second too short-lived as well.
PendingTerms   == (long :> LongTerms("M15", "demand", "A")) @@
                  (short :> LongTerms("M15", "supply", "A")) @@
                  (retest :> LongTerms("M15", "demand", "A")) @@
                  (brief :> LongTerms("M1", "deeper", "A")) @@
                  (scalp :> LongTerms("M1", "leg", "C")) @@
                  (again :> LongTerms("M1", "leg", "C"))
PendingCreated == (long :> 2) @@ (short :> 2) @@ (retest :> 4) @@ (brief :> 3) @@
                  (scalp :> 3) @@ (again :> 4)
PendingExpires == (long :> 6) @@ (short :> 6) @@ (retest :> 6) @@ (brief :> 4) @@
                  (scalp :> 5) @@ (again :> 5)

\* One setup whose life spans a closure, in half-minute units.
GapCreated == (long :> 4)
GapExpires == (long :> 10)

\* One setup of two minutes, on the fast or on the slow timeframe.
OneCreated == (long :> 2)
OneExpires == (long :> 4)
SlowTerms  == (long :> LongTerms("M15", "demand", "A"))
=============================================================================
