--------------------------- MODULE MCOrderBlocks ---------------------------
(***************************************************************************)
(* Four bars to choose from: one that falls, two that rise out of it and   *)
(* leave a gap, and one that falls through everything.                     *)
(***************************************************************************)
EXTENDS OrderBlocks

Bar(h, l, c) == [h |-> h, l |-> l, c |-> c]
LegBar(o, h, l, c, half) == [o |-> o, h |-> h, l |-> l, c |-> c, half |-> half]
MCLegs == {LegBar(3, 3, 1, 2, Bar(3, 2, 2)), LegBar(2, 6, 2, 6, Bar(4, 2, 4)),
           LegBar(6, 8, 5, 7, Bar(7, 6, 7)), LegBar(6, 6, 0, 0, Bar(6, 2, 2))}
=============================================================================
