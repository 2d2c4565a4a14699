--------------------------- MODULE LotRefinement ---------------------------
(***************************************************************************)
(* LotMatching implements UnitQueue.  A lot stands for as many queued      *)
(* units as it has remaining; while a sale is being matched the queue is   *)
(* still the one the sale found (held), so the steps of matchFIFO's loop   *)
(* are stutters and the sale happens when its disposal is recorded.        *)
(***************************************************************************)
EXTENDS LotMatching, SequencesExt

Unit(lot) == [acquired |-> lot.acquired, cost |-> unitCost(lot)]

UnitsOf(ls) == FlattenSeq([i \in DOMAIN ls |-> [k \in 1..ls[i].remaining |-> Unit(ls[i])]])

units == UnitsOf(IF pc = "take" \/ reason = "oversell" THEN held ELSE lots)

outcome == CASE pc = "done" -> "closed"
             [] reason = "oversell" -> "short"
             [] reason \in {"rate", "type"} -> "rejected"
             [] OTHER -> "open"

EuroPrices == {p * r : p \in Prices, r \in {EuroRate[d] : d \in Dates} \union {1}}

Queue == INSTANCE UnitQueue WITH sales <- disposals

(***************************************************************************)
(* Every call to matchDisposalsFIFO behaves like the queue: the units a    *)
(* sale consumes, their cost basis and the failure of a sale that finds    *)
(* too few units are those of first-in-first-out, whatever the loop does   *)
(* in between.                                                             *)
(***************************************************************************)
ImplementsUnitQueue == Queue!Spec

=============================================================================
