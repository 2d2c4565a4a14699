--------------------------- MODULE MCBrokerImport ---------------------------
(* Small accounts over three days, two writers, one interest form. *)
EXTENDS BrokerImport, TLC

CONSTANTS w1, w2, o1, o2, none, fund, sym, euro, USD

MCWriters == {w1, w2}
MCSymmetry == Permutations(MCWriters)
MCDays == 1..3
MCQuantities == {-1, 1}
MCPrices == {1}
MCLocalValues == -2..2
MCOrderIds == {o1, o2}
MCISINs == {fund}
MCTicker == [isin \in {fund} |-> sym]
MCCurrencies == {euro, USD}
MCTimes == 0..1
MCRates == {1, 2}

(* Between day 1 and day 2 an export was taken, between 2 and 3 none. *)
MCWindows == {{1}, {1, 2, 3}}

(* What consolidation can make of three rows. *)
MCTrades == [type : {"buy", "sell", "rsu_vest"}, date : MCDays, time : MCTimes,
             instrument : {fund, sym}, currency : MCCurrencies, quantity : 1..6, price : 0..4]
Credit(amount) ==
  [type |-> "interest", date |-> 1, time |-> 0, instrument |-> fund, currency |-> euro, quantity |-> 1, price |-> amount]
MCCredits == {Credit(1), Credit(2)}
MCRefs == MCOrderIds \union {none}
MCBatches == {<<[key |-> Credit(1), ref |-> none], [key |-> Credit(2), ref |-> none]>>}

In(layouts, as) == {[rows |-> a, layouts |-> layouts] : a \in as}

InDateOrder(a) == \A i, j \in DOMAIN a : i < j => a[i].date <= a[j].date

(* The third day is there for orders that take two. *)
DaysMatter(a) ==
  \A i \in DOMAIN a : a[i].date = 3 =>
    \E j \in DOMAIN a : a[j].date = 2 /\ a[j].order = a[i].order /\ a[j].order # none

(* No two transactions are alike in all that identifies them. *)
Distinct(given) == \A i, j \in DOMAIN given : given[i].key = given[j].key => i = j

(* A third row is there to be consolidated: more transactions than two add *)
(* nothing.                                                                *)
Small(a) ==
  LET given == consolidate(a) IN
  /\ Len(a) = 3 => Cardinality(DOMAIN given) = 1
  /\ DOMAIN given # {}
  /\ Distinct(given)

(* All in euro, or an order in two currencies, or a buy in the one and a   *)
(* sale in the other that cancel.                                          *)
FewCurrencies(a) ==
  \/ \A i \in DOMAIN a : a[i].currency = euro
  \/ /\ Len(a) = 3 /\ {i \in DOMAIN a : a[i].currency = USD} = {2}
     /\ a[1].order = a[2].order /\ a[3].order = none

AsPriced(row) == row.value = - row.qty * row.price

(* The first row can have settled at twice its own price.                  *)
Settled(a) ==
  /\ AsPriced(a[1]) \/ a[1].value = - 2 * a[1].qty * a[1].price
  /\ \A i \in DOMAIN a \ {1} : AsPriced(a[i])

(* What a row settled at is there for the orders netted. *)
ValueMatters(a) == AsPriced(a[1]) \/ (a[1].order # none /\ Bookings(a, a[1].order) # {1})

Rows(orders, described) == {row \in rawRow : row.order \in orders /\ row.described = described}
Listings(n, candidates) == UNION {[1..k -> candidates] : k \in 1..n}

ByTransactions ==
  {a \in Listings(3, {row \in Rows({o1, none}, "trade") : row.value * row.qty < 0}) :
     /\ InDateOrder(a) /\ DaysMatter(a) /\ FewCurrencies(a) /\ Settled(a) /\ ValueMatters(a)
     /\ Uncut(a) /\ Small(a)}

PurchaseFirst(a) == a[1].qty > 0

(* A position moved on day 2, out of one venue and into another. *)
Transfer(qty) ==
  [date |-> 2, isin |-> fund, currency |-> euro, qty |-> qty, price |-> 1, value |-> - qty,
   described |-> "transfer", order |-> none]

(* An order filled in parts stays in its parts, on one day or on several,  *)
(* and they are distinct.                                                  *)
ByAccount ==
  LET bookings ==
        {a \in Listings(2, Rows({o1, none}, "trade")) :
           /\ InDateOrder(a) /\ DaysMatter(a) /\ FewCurrencies(a) /\ Settled(a) /\ PurchaseFirst(a)
           /\ Distinct(parseAccountRows(a))}
  IN bookings \union {a \o <<Transfer(-1), Transfer(1)>> : a \in {b \in bookings : Len(b) = 1}}

(* Fills of one unit, a purchase or vest first; trade and cash rows.       *)
FillOf(kind, day, time, qty) ==
  [kind |-> kind, date |-> day, time |-> time, isin |-> fund, currency |-> USD, rate |-> 2,
   qty |-> qty, price |-> 1, order |-> o1]
CashRow(kind, day) == [FillOf(kind, day, 0, 1) EXCEPT !.isin = none]

Fills(first, times) ==
  {<<FillOf(first, d1, t1, 1), FillOf(kind, d2, t2, IF kind = "Sell" THEN -1 ELSE 1)>> :
     d1 \in 1..2, d2 \in 1..2, t1 \in times, t2 \in times, kind \in {first, "Sell"}}

(* The time of day is there to tell two fills of one day apart. *)
TimesMatter(a) == a[1].time = 0 /\ (a[2].time # 0 => a[1].date = a[2].date)

WithCash(kinds, as) ==
  as \union {Append(a, CashRow(kind, 2)) : a \in {b \in as : b[2].qty > 0}, kind \in kinds}

Filled(layout, cash, as) ==
  In({layout}, WithCash(cash, {a \in as : InDateOrder(a) /\ TimesMatter(a) /\ a[1] # a[2]}))

ByFills ==
  UNION {Filled("flat", {"Forex Trade Component"}, Fills("Buy", MCTimes)),
         Filled("statement", {"Forex Trade Component"}, Fills("Buy", {0})),
         Filled("history", {"Deposit", "Dividend"}, Fills("Buy", {0})),
         Filled("etrade", {"Dividend"}, Fills("Vest", {0}))}

MCAccounts ==
  UNION {In({"transactions"}, ByTransactions), In({"account"}, ByAccount), ByFills}

(* An order filled within one day in parts of different sizes, in both     *)
(* layouts.                                                                *)
MCPartSizes == {1, 2}
MCAccountsInBoth ==
  In(DegiroLayouts, {a \in [1..2 -> Rows({o1}, "trade")] :
                 /\ a[1].date = a[2].date /\ a[1].qty # a[2].qty
                 /\ \A i \in 1..2 : a[i].currency = euro /\ AsPriced(a[i])})
=============================================================================
