----------------------------- MODULE ZoneUnion -----------------------------
(***************************************************************************)
(* What gaps and order blocks share when they merge (smc/zone_union.py):   *)
(* two live zones of one direction and state join when they overlap by     *)
(* more than a share, of a hundred, of the smaller, and joining is         *)
(* transitive.                                                             *)
(***************************************************************************)
EXTENDS Integers, FiniteSetsExt

Size(g) == g.hi - g.lo

Joined(g, h, share) ==
    /\ g.dir = h.dir /\ g.state = h.state
    /\ 100 * (Min({g.hi, h.hi}) - Max({g.lo, h.lo})) > share * Min({Size(g), Size(h)})

\* The connected components, order-independent.
Components(zones, share) ==
    LET Grow[S \in SUBSET zones] ==
            LET more == {h \in zones : \E g \in S : Joined(g, h, share)}
            IN IF more \subseteq S THEN S ELSE Grow[S \cup more]
    IN {Grow[{g}] : g \in zones}

Span(group) == Max({g.hi : g \in group}) - Min({g.lo : g \in group})
============================================================================
