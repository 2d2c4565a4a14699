------------------------------ MODULE Holdings ------------------------------
(***************************************************************************)
(* What the engine's calls on one holding have in common: its transactions *)
(* as the ledger hands them over, their restatement in euro (toEURPrices), *)
(* the stable sort by date, and the lots an acquisition builds.            *)
(*                                                                         *)
(* Quantities, prices and exchange rates are natural numbers; a date is a  *)
(* number of instants since the calendar's first.                          *)
(***************************************************************************)
EXTENDS Integers, Sequences

CONSTANTS
  Dates,       (* The dates a transaction can have.                        *)
  Quantities,  (* The quantities bought and sold.                          *)
  Prices,      (* Prices per unit, in the transaction's own currency.      *)
  EuroRate,    (* EuroRate[d]: euro per unit of foreign currency at d,     *)
               (* 0 where fx.Rate returns an error.                        *)
  Ledgers      (* The transaction sequences a call can be made with.       *)

Acquisitions == {"buy", "rsu_vest"}
Types        == Acquisitions \union {"sell", "interest"}
Currencies   == {"EUR", "foreign"}

Transaction == [type : Types, date : Dates, quantity : Quantities,
                price : Nat, currency : Currencies]

Lot == [acquired : Dates, quantity : Nat, remaining : Nat, costBasis : Nat]

(***************************************************************************)
(* Every entry into the ledger takes a positive quantity: the manual forms *)
(* check it and the broker parsers take the absolute value of a signed,    *)
(* non-zero one.                                                           *)
(***************************************************************************)
ASSUME DatesAssumption    == Dates \subseteq Nat
ASSUME QuantityAssumption == Quantities \subseteq Nat \ {0}
ASSUME PriceAssumption    == Prices \subseteq Nat
ASSUME RateAssumption     == EuroRate \in [Dates -> Nat]
ASSUME LedgerAssumption   == /\ Ledgers \subseteq Seq(Transaction)
                             /\ \A s \in Ledgers : \A i \in DOMAIN s : s[i].price \in Prices

minimum(a, b) == IF a <= b THEN a ELSE b

(* Mutant: the cost is spread over the units left, not those bought. *)
PerUnitLeft(lot) == IF lot.remaining = 0 THEN 0 ELSE lot.costBasis \div lot.remaining

(* Lot.unitCost. *)
unitCost(lot) == IF lot.quantity = 0 THEN 0 ELSE lot.costBasis \div lot.quantity

NewLot(tx) == [acquired  |-> tx.date,     quantity  |-> tx.quantity,
               remaining |-> tx.quantity, costBasis |-> tx.quantity * tx.price]

Unresolvable(tx) == tx.currency # "EUR" /\ EuroRate[tx.date] = 0

InEUR(tx) ==
  IF tx.currency = "EUR" THEN tx
  ELSE [tx EXCEPT !.price = @ * EuroRate[tx.date], !.currency = "EUR"]

(***************************************************************************)
(* sort.SliceStable by date.  A stable order places i before j if its date *)
(* is earlier, or the same and i came first; exactly one arrangement does. *)
(***************************************************************************)
AsListed(s, i, j) == i < j     (* Mutant: the sort is forgotten. *)

ComesBefore(s, i, j) == s[i].date < s[j].date \/ (s[i].date = s[j].date /\ i < j)

StableOrders(s) ==
  {p \in [DOMAIN s -> DOMAIN s] :
     \A i, j \in DOMAIN s : i < j => ComesBefore(s, p[i], p[j])}

=============================================================================
