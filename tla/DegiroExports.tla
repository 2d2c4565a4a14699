--------------------------- MODULE DegiroExports ---------------------------
(***************************************************************************)
(* The two exports of a Degiro account as internal/ingest/degiro reads     *)
(* them.  Transactions (parser.go): the rows of an order are netted into   *)
(* one transaction, rows without an order that cancel each other are       *)
(* dropped, the rest is taken over.  Account (account.go): each row that   *)
(* is described as a Buy or Sell is a transaction of its own.              *)
(*                                                                         *)
(* A row has a date without a time of day.                                 *)
(***************************************************************************)
EXTENDS Exports

CONSTANT LocalValues   (* The cash a booking can move, a buy's negative.   *)

ASSUME ValueAssumption == LocalValues \subseteq Int

(* A booking: Transactions shows its price and value, Account its value    *)
(* (as Change) and how it is described.  Price and value are rounded each  *)
(* in its own way, so neither is the other times the quantity.             *)
rawRow == [date : Days, isin : ISINs, currency : Currencies,
           qty : Quantities, price : Prices, value : LocalValues,
           described : {"trade", "transfer"}, order : OrderIds \union {NoOrder}]

(* Degiro always fills the column. *)
localValue(row) == row.value

rawRowToTx(row) == [key |-> tradeOf(row), ref |-> row.order]

(* The places of an order's rows, and the rows. *)
Bookings(rs, order) == {i \in DOMAIN rs : rs[i].order = order}

byOrder(rs, order) == Restrict(rs, Bookings(rs, order))

netQty(grp) == SumFunction([i \in DOMAIN grp |-> grp[i].qty])

netValue(grp) == SumFunction([i \in DOMAIN grp |-> localValue(grp[i])])

(* A single row as it stands, several at their netted price. *)
netOrder(grp) ==
  LET first == grp[Min(DOMAIN grp)]
      qty   == netQty(grp)
  IN IF Cardinality(DOMAIN grp) = 1 THEN rawRowToTx(first)
     ELSE [key |-> [tradeOf(first) EXCEPT !.type = Direction(qty),
                                          !.date = Min({grp[i].date : i \in DOMAIN grp}),
                                          !.quantity = abs(qty),
                                          !.price = abs(netValue(grp)) \div abs(qty)],
           ref |-> first.order]

(* An order in two instruments or currencies refuses the whole file. *)
MixedOrder(rs) ==
  \E i, j \in DOMAIN rs : /\ rs[i].order = rs[j].order /\ rs[i].order # NoOrder
                          /\ <<rs[i].isin, rs[i].currency>> # <<rs[j].isin, rs[j].currency>>

(* Mutant: the rows of a pair need not be of one day. *)
cancelAcrossDays(rs) ==
  LET Alike(i, qty) == {j \in Bookings(rs, NoOrder) :
                          /\ rs[j].isin = rs[i].isin
                          /\ rs[j].qty = qty /\ rs[j].price = rs[i].price} IN
  {i \in Bookings(rs, NoOrder) :
     Cardinality({j \in Alike(i, rs[i].qty) : j <= i}) > Cardinality(Alike(i, - rs[i].qty))}

(* Of the rows without an order that agree in date, instrument, size and   *)
(* price, whatever the currency, as many buys as sells cancel, the first   *)
(* ones of each; the rows left over.                                       *)
cancelTransferPairs(rs) ==
  LET Alike(i, qty) == {j \in Bookings(rs, NoOrder) :
                          /\ rs[j].date = rs[i].date /\ rs[j].isin = rs[i].isin
                          /\ rs[j].qty = qty /\ rs[j].price = rs[i].price} IN
  {i \in Bookings(rs, NoOrder) :
     Cardinality({j \in Alike(i, rs[i].qty) : j <= i}) > Cardinality(Alike(i, - rs[i].qty))}

(* Each order's transaction is at the place of its earliest row. *)
consolidate(rs) ==
  LET orders == {o \in OrderIds : Bookings(rs, o) # {} /\ netQty(byOrder(rs, o)) # 0}
  IN [i \in {Min(Bookings(rs, o)) : o \in orders} \union cancelTransferPairs(rs) |->
        IF rs[i].order = NoOrder THEN rawRowToTx(rs[i]) ELSE netOrder(byOrder(rs, rs[i].order))]

(* The settled value decides the price, not the one in the description.    *)
parseAccountRow(row) ==
  [key |-> [tradeOf(row) EXCEPT !.price = abs(row.value) \div abs(row.qty)], ref |-> row.order]

(* The rows described as a Buy or Sell; a transfer is warned about and     *)
(* passed over.                                                            *)
parseAccountRows(rs) ==
  [i \in {j \in DOMAIN rs : rs[j].described = "trade"} |-> parseAccountRow(rs[i])]

DegiroLayouts == {"transactions", "account"}

(* By the header of the file. *)
ParseDegiro(rs, layout) == IF layout = "account" THEN parseAccountRows(rs) ELSE consolidate(rs)

RefusedDegiro(rs, layout) == layout = "transactions" /\ MixedOrder(rs)

=============================================================================
