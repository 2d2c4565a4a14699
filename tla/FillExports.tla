---------------------------- MODULE FillExports ----------------------------
(***************************************************************************)
(* The exports of IBKR (internal/ingest/ibkr) and E*TRADE                  *)
(* (internal/ingest/etrade): every fill is a transaction of its own,       *)
(* without a reference that identifies it.  IBKR has three layouts of the  *)
(* same account, which agree neither on what names an instrument nor on    *)
(* its currency nor on the time of a fill.                                 *)
(***************************************************************************)
EXTENDS Exports

(* The kinds of rows the parsers know; a dividend stands for any other. *)
historySkipTypes == {"Forex Trade Component", "Adjustment", "Deposit", "Withdrawal"}
historyTradeTypes == {"Buy", "Sell"}
transactionTypes == {"Vest", "Sell"}

Kinds == historySkipTypes \union historyTradeTypes \union transactionTypes \union {"Dividend"}

fillRow == [kind : Kinds, date : Days, time : Times, isin : ISINs \union {NoISIN},
            currency : Currencies, rate : Rates, qty : Quantities, price : Prices,
            order : OrderIds \union {NoOrder}]

HasISIN(row) == row.isin # NoISIN

(* Mutant: the time of day in OrderTime is left out. *)
parseFlatDate(row) == [key |-> [tradeOf(row) EXCEPT !.currency = EUR, !.price = @ * row.rate],
                       ref |-> NoOrder]

(* In euro at the rate of the fill, to the second. *)
parseFlatRow(row) ==
  [key |-> [tradeOf(row) EXCEPT !.time = row.time, !.currency = EUR, !.price = @ * row.rate],
   ref |-> NoOrder]

parseFlat(rs) == [i \in {j \in DOMAIN rs : HasISIN(rs[j])} |-> parseFlatRow(rs[i])]

(* By its symbol, in its own currency. *)
parseHistoryRow(row) ==
  [key |-> [tradeOf(row) EXCEPT !.type = IF row.kind = "Buy" THEN "buy" ELSE "sell",
                                !.instrument = Ticker[row.isin]],
   ref |-> NoOrder]

parseTransactionHistory(rs) ==
  [i \in {j \in DOMAIN rs : rs[j].kind \in historyTradeTypes} |-> parseHistoryRow(rs[i])]

UnknownType(rs) == \E i \in DOMAIN rs : rs[i].kind \notin historyTradeTypes \union historySkipTypes

parseTradesRow(row) == [key |-> tradeOf(row), ref |-> NoOrder]

parseActivityStatement(rs) == [i \in DOMAIN rs |-> parseTradesRow(rs[i])]

EmptyISIN(rs) == \E i \in DOMAIN rs : ~ HasISIN(rs[i])

(* E*TRADE: vests are lots, and the reference is kept. *)
parseRow(row) ==
  [key |-> [tradeOf(row) EXCEPT !.type = IF row.kind = "Vest" THEN "rsu_vest" ELSE "sell",
                                !.instrument = Ticker[row.isin]],
   ref |-> row.order]

parseEtrade(rs) == [i \in DOMAIN rs |-> parseRow(rs[i])]

NotVestOrSell(rs) == \E i \in DOMAIN rs : rs[i].kind \notin transactionTypes

(* A vest or a sale typed in on the dashboard: without its reference.      *)
NewByHand(row) == [parseRow(row) EXCEPT !.ref = NoOrder]

----------------------------------------------------------------------------

FillLayouts == {"flat", "history", "statement", "etrade"}

(* The trades reports list trades and the conversions that pay for them,   *)
(* the others everything the account did.                                  *)
Lists(layout, row) ==
  layout \in {"flat", "statement"} => row.kind \in historyTradeTypes \union {"Forex Trade Component"}

(* By the header of the file, or of a section in it. *)
ParseFills(rs, layout) ==
  CASE layout = "flat"      -> parseFlat(rs)
    [] layout = "history"   -> parseTransactionHistory(rs)
    [] layout = "statement" -> parseActivityStatement(rs)
    [] layout = "etrade"    -> parseEtrade(rs)

(* A row that cannot be read refuses the whole file. *)
RefusedFills(rs, layout) ==
  \/ layout = "history" /\ UnknownType(rs)
  \/ layout = "statement" /\ EmptyISIN(rs)
  \/ layout = "etrade" /\ NotVestOrSell(rs)

=============================================================================
