---------------------------- MODULE MCFundYears ----------------------------
(* FundYears on every ledger of at most MaxLength transactions drawn from  *)
(* a small set, over five years of two days each and a cycle of two years. *)
EXTENDS FundSchedule, TLC

CONSTANTS MaxLength, Candidates

Tx(type, date, quantity, price, currency) ==
  [type |-> type, date |-> date, quantity |-> quantity, price |-> price, currency |-> currency]

MCDates      == 0..19
MCYears      == 0..4
MCQuantities == 1..3
MCPrices     == 1..9
MCEuroRate   == [d \in MCDates |-> IF d = 10 THEN 0 ELSE 2]
MCExitRate   == [d \in MCDates |-> IF d < 12 THEN 41 ELSE 38]
MCAsOfs      == {yearEndDate(y) : y \in Years}
AnyLedger    == UNION {[1..n -> Candidates] : n \in 0..MaxLength}
TimelyLedgers == {s \in AnyLedger : \A asof \in MCAsOfs : Timely(s, asof)}

(* Bought on the first day of year 0, at midnight and in the afternoon,    *)
(* and on its last; sold between, on and after the anniversaries at 8 and  *)
(* 16, at 9 and 17, and at 10 and 18.                                      *)
Trades ==
  {Tx("buy", 0, 2, 2, "EUR"), Tx("buy", 1, 1, 4, "EUR"), Tx("buy", 2, 2, 3, "foreign"),
   Tx("sell", 6, 1, 5, "EUR"), Tx("sell", 8, 1, 3, "EUR"), Tx("sell", 9, 2, 4, "EUR"), Tx("sell", 12, 2, 9, "EUR"),
   Tx("sell", 18, 3, 1, "EUR"), Tx("buy", 14, 1, 1, "foreign"), Tx("rsu_vest", 10, 1, 1, "foreign"),
   Tx("interest", 4, 1, 1, "EUR")}

(* Two purchases in the afternoon, the second on 31 December of year 0,    *)
(* and a sale in the morning of the first one's anniversary.               *)
AfternoonTrades == {Tx("buy", 1, 1, 2, "EUR"), Tx("buy", 3, 1, 2, "EUR"), Tx("sell", 8, 1, 5, "EUR")}

AllTogether == {s \in [1..MaxLength -> Candidates] : \A t \in Candidates : \E i \in 1..MaxLength : s[i] = t}

Value(v, currency) == [value |-> v, currency |-> currency]

MCValuations ==
  {8 :> Value(5, "EUR") @@ 10 :> Value(6, "EUR") @@ 16 :> Value(9, "EUR") @@ 18 :> Value(9, "EUR"),
   8 :> Value(7, "EUR") @@ 10 :> Value(8, "EUR") @@ 16 :> Value(3, "foreign") @@ 18 :> Value(4, "foreign"),
   8 :> Value(9, "EUR") @@ 10 :> Value(9, "foreign") @@ 16 :> Value(2, "EUR"),
   8 :> Value(5, "EUR") @@ 16 :> Value(6, "EUR")}

AfternoonValuations == {(8 :> Value(4, "EUR") @@ 10 :> Value(5, "EUR") @@ 16 :> Value(9, "EUR") @@ 18 :> Value(9, "EUR"))}

=============================================================================
