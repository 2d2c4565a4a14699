------------------------------ MODULE Exports ------------------------------
(***************************************************************************)
(* What the parsers of internal/ingest have in common: the cells of a row  *)
(* of a broker's export, and the transaction a row becomes where nothing   *)
(* but the row decides it.                                                 *)
(*                                                                         *)
(* A file is a function from the places its rows have in the account's     *)
(* whole list, and a parser gives a transaction for some of these places.  *)
(***************************************************************************)
EXTENDS Integers, Sequences, FiniteSets, FiniteSetsExt, Functions

CONSTANTS
  Days,        (* The dates of rows.                                       *)
  Times,       (* Times of day, 0 being midnight.                          *)
  ISINs,       (* What is traded.                                          *)
  Ticker,      (* The symbol each ISIN is listed under.                    *)
  NoISIN,      (* An empty ISIN column: a row that moves cash only.        *)
  Currencies,  (* What it is traded in.                                    *)
  EUR,         (* The account's own currency.                              *)
  Rates,       (* Euro per unit of a currency, at the broker's.            *)
  Quantities,  (* Of a row: a buy's is positive, a sell's negative.        *)
  Prices,      (* Per unit.                                                *)
  OrderIds,    (* The broker's references.                                 *)
  NoOrder      (* An empty reference.                                      *)

ASSUME DayAssumption      == Days \subseteq Nat /\ Times \subseteq Nat
ASSUME InstrumentAssumption == NoISIN \notin ISINs /\ DOMAIN Ticker = ISINs
ASSUME CurrencyAssumption == EUR \in Currencies /\ Rates \subseteq Nat \ {0}
ASSUME QuantityAssumption == Quantities \subseteq Int \ {0}
ASSUME PriceAssumption    == Prices \subseteq Nat
ASSUME OrderAssumption    == NoOrder \notin OrderIds

abs(n) == IF n < 0 THEN - n ELSE n

Direction(qty) == IF qty < 0 THEN "sell" ELSE "buy"

(* Direction lives in the type, and a bare date is midnight. *)
tradeOf(row) ==
  [type       |-> Direction(row.qty),
   date       |-> row.date,
   time       |-> 0,
   instrument |-> row.isin,
   currency   |-> row.currency,
   quantity   |-> abs(row.qty),
   price      |-> row.price]

(* The transactions of a file, each at its row's place, one after another. *)
InRowOrder(parsed) ==
  LET places   == DOMAIN parsed
      place(k) == CHOOSE i \in places : Cardinality({j \in places : j < i}) = k - 1
  IN [k \in 1..Cardinality(places) |-> parsed[place(k)]]

=============================================================================
