----------------------------- MODULE UnitQueue -----------------------------
(***************************************************************************)
(* What FIFO matching promises, with no lots and no loop: a holding is a   *)
(* queue of single units.  Buying puts units at the back, each with its    *)
(* day and its euro cost; selling takes units from the front, all at once, *)
(* and its cost basis is the sum of theirs.  A sale of more units than the *)
(* queue holds fails the holding and takes nothing.                        *)
(***************************************************************************)
EXTENDS Integers, Sequences, FiniteSetsExt

CONSTANTS Dates, Quantities, EuroPrices

VARIABLES
  units,    (* The units held, oldest first: [acquired, cost].              *)
  sales,    (* The sales made, oldest first.                                *)
  outcome   (* "open", "closed", "short" or "rejected".                     *)

vars == <<units, sales, outcome>>

CostOf(us) == SumFunction([i \in DOMAIN us |-> us[i].cost])

Init == units = << >> /\ sales = << >> /\ outcome = "open"

Buy(day, q, price) ==
  /\ outcome = "open"
  /\ units' = units \o [i \in 1..q |-> [acquired |-> day, cost |-> price]]
  /\ UNCHANGED <<sales, outcome>>

Sell(day, q, price) ==
  /\ outcome = "open"
  /\ q <= Len(units)
  /\ \A i \in DOMAIN units : units[i].acquired <= day
  /\ units' = SubSeq(units, q + 1, Len(units))
  /\ sales' = Append(sales, [date      |-> day,
                             quantity  |-> q,
                             proceeds  |-> q * price,
                             costBasis |-> CostOf(SubSeq(units, 1, q))])
  /\ UNCHANGED outcome

(* A sale of more units than are held. *)
FallShort(q) ==
  /\ outcome = "open"
  /\ q > Len(units)
  /\ outcome' = "short"
  /\ UNCHANGED <<units, sales>>

(* Input that cannot be computed on: a missing rate, an unknown type. *)
Reject ==
  /\ outcome = "open"
  /\ outcome' = "rejected"
  /\ UNCHANGED <<units, sales>>

Close ==
  /\ outcome = "open"
  /\ outcome' = "closed"
  /\ UNCHANGED <<units, sales>>

Next ==
  \/ \E day \in Dates, q \in Quantities, price \in EuroPrices :
       Buy(day, q, price) \/ Sell(day, q, price)
  \/ \E q \in Quantities : FallShort(q)
  \/ Reject
  \/ Close

Spec == Init /\ [][Next]_vars

=============================================================================
