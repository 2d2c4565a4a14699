--------------------------- MODULE MCLotMatching ---------------------------
(* LotMatching and its refinement on every ledger of at most MaxLength     *)
(* transactions drawn from a small set.                                    *)
EXTENDS LotRefinement

CONSTANT MaxLength

Tx(type, date, quantity, price, currency) ==
  [type |-> type, date |-> date, quantity |-> quantity, price |-> price, currency |-> currency]

MCDates       == 1..3
MCQuantities == 1..3
MCPrices     == 1..5
MCEuroRate   == [d \in MCDates |-> IF d = 3 THEN 0 ELSE 2]

Candidates ==
  {Tx("buy", 1, 1, 1, "EUR"), Tx("buy", 1, 2, 3, "EUR"),
   Tx("buy", 2, 1, 2, "EUR"), Tx("buy", 3, 2, 1, "EUR"),
   Tx("rsu_vest", 2, 2, 4, "foreign"),
   Tx("sell", 1, 2, 5, "EUR"), Tx("sell", 2, 1, 5, "EUR"),
   Tx("sell", 2, 3, 5, "EUR"), Tx("sell", 3, 3, 5, "EUR"),
   Tx("sell", 3, 1, 5, "foreign"), Tx("interest", 1, 1, 1, "EUR")}

MCLedgers == UNION {[1..n -> Candidates] : n \in 0..MaxLength}

=============================================================================
