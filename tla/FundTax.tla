------------------------------ MODULE FundTax ------------------------------
(***************************************************************************)
(* ComputeFundTax of internal/engine/deemeddisposal.go: exit tax on one    *)
(* fund holding, over its sales and over the deemed disposal of each lot   *)
(* at every eighth anniversary of its purchase.                            *)
(*                                                                         *)
(* One behaviour is one call.  buildFundEvents sorts the transactions,     *)
(* opens every lot and lays out all events; the walk takes the events in   *)
(* order: a deemed disposal taxes the units the lot still holds and leaves *)
(* the tax attached to each of them, a sale consumes lots first in, first  *)
(* out and takes the attached tax along as a credit.                       *)
(*                                                                         *)
(* A lot is known by the position of its purchase among the sorted         *)
(* transactions.  A date is an instant: an even number is a midnight, the  *)
(* odd number after it a later time of the same day, which a trade has     *)
(* when its export gives one.  Amounts are euro, tax is euro times a       *)
(* percentage, so in cents, and nothing is rounded before the end, as in   *)
(* the code.                                                               *)
(***************************************************************************)
EXTENDS Holdings, FiniteSetsExt

CONSTANTS
  CycleLength,  (* Time between deemed disposals: eight years.             *)
  ExitRate,     (* ExitRate[d]: percent of a gain charged at d (Lookup).   *)
  Valuations,   (* The tables of anniversary values a call can find.       *)
  AsOfs         (* The dates a call can compute to.                        *)

(* One unit's value on the dates the user entered one for. *)
Valuation == [value : Nat, currency : Currencies]

ASSUME CycleAssumption     == CycleLength \in Nat \ {0}
ASSUME ExitRateAssumption  == ExitRate \in [Dates -> Nat]
ASSUME ValuationAssumption == \A table \in Valuations :
                                /\ DOMAIN table \subseteq Dates
                                /\ \A d \in DOMAIN table : table[d] \in Valuation
ASSUME AsOfAssumption      == AsOfs \subseteq Dates
(* The calendar has no gaps before the dates computed to. *)
ASSUME CalendarAssumption  == \A asof \in AsOfs : 0..asof \subseteq Dates

VARIABLES
  txs,        (* The holding's transactions, in ledger order.              *)
  values,     (* The valuation table.                                      *)
  asOf,       (* Anniversaries up to here are charged.                     *)
  pc,         (* "convert", "build", "walk", "sale", "done" or "error".    *)
  sorted,     (* The transactions in euro, then in date order.             *)
  lots,       (* The lots, by the position of their purchase in sorted.    *)
  pending,    (* The events still to come.                                 *)
  sale,       (* The position in sorted of the sale being matched.         *)
  wanted, cost, credit,   (* The sale's units, cost and credit so far.     *)
  deemed,     (* The deemed disposals charged so far.                      *)
  disposals,  (* The sales charged so far.                                 *)
  reason,     (* Why the call failed.                                      *)
  account     (* History: the tax each lot was charged when deemed sold,   *)
              (* and what of it sales have been credited with.             *)

inputs   == <<txs, values, asOf>>
saleVars == <<sale, wanted, cost, credit>>
results  == <<deemed, disposals, account>>
vars     == <<inputs, pc, sorted, lots, pending, saleVars, results, reason>>

Event == [date : Nat, kind : 0..2, index : Nat]

(* fundEventKind's order. *)
eventBuy            == 0
eventDeemedDisposal == 1
eventSell           == 2

FundLot == [acquired : Dates, quantity : Nat, remaining : Nat, costBasis : Nat,
            deemedTaxPerUnit : Nat]

ChargeableEvent == [lot : Nat, date : Nat, quantity : Nat, gain : Int,
                    tax : Nat, credit : Nat, due : Int]

----------------------------------------------------------------------------

positive(n) == IF n < 0 THEN 0 ELSE n

Purchases(s) == {i \in DOMAIN s : s[i].type \in Acquisitions}

NewFundLot(tx) ==
  [acquired  |-> tx.date,     quantity  |-> tx.quantity,
   remaining |-> tx.quantity, costBasis |-> tx.quantity * tx.price,
   deemedTaxPerUnit |-> 0]

(* Mutant: an anniversary on asOf itself is not reached. *)
AnniversariesBefore(acquired, asof) ==
  {acquired + k * CycleLength : k \in 1..((asof - 1 - acquired) \div CycleLength)}

deemedDisposalAnniversaries(acquired, asof) ==
  {acquired + k * CycleLength : k \in 1..((asof - acquired) \div CycleLength)}

fundEvents(s, asof) ==
  {[date |-> s[i].date, kind |-> eventBuy, index |-> i] : i \in Purchases(s)}
    \union
  {[date |-> s[i].date, kind |-> eventSell, index |-> i] : i \in DOMAIN s \ Purchases(s)}
    \union
  UNION {{[date |-> d, kind |-> eventDeemedDisposal, index |-> i] :
            d \in deemedDisposalAnniversaries(s[i].date, asof)} : i \in Purchases(s)}

(* Mutant: a sale comes before a deemed disposal of the same date. *)
SalesFirst(e, f) ==
  \/ e.date < f.date
  \/ e.date = f.date /\ e.kind > f.kind
  \/ e.date = f.date /\ e.kind = f.kind /\ e.index < f.index

(* The stable sort of the events: within a date and kind, as they were     *)
(* appended, that is in the order of their transactions.                   *)
Precedes(e, f) ==
  \/ e.date < f.date
  \/ e.date = f.date /\ e.kind < f.kind
  \/ e.date = f.date /\ e.kind = f.kind /\ e.index < f.index

Init ==
  /\ txs \in Ledgers /\ values \in Valuations /\ asOf \in AsOfs
  /\ pc = "convert"
  /\ sorted = << >> /\ lots = << >> /\ pending = {}
  /\ sale = 0 /\ wanted = 0 /\ cost = 0 /\ credit = 0
  /\ deemed = << >> /\ disposals = << >> /\ account = << >>
  /\ reason = "none"

Fail(why) ==
  /\ pc' = "error" /\ reason' = why
  /\ UNCHANGED <<inputs, sorted, lots, pending, saleVars, results>>

ToEURPrices ==
  /\ pc = "convert"
  /\ \A i \in DOMAIN txs : ~ Unresolvable(txs[i])
  /\ sorted' = [i \in DOMAIN txs |-> InEUR(txs[i])]
  /\ pc' = "build"
  /\ UNCHANGED <<inputs, lots, pending, saleVars, results, reason>>

RateUnavailable ==
  /\ pc = "convert"
  /\ \E i \in DOMAIN txs : Unresolvable(txs[i])
  /\ Fail("rate")

buildFundEvents ==
  /\ pc = "build"
  /\ \A i \in DOMAIN sorted : sorted[i].type \in Acquisitions \union {"sell"}
  /\ \E p \in StableOrders(sorted) : sorted' = [i \in DOMAIN sorted |-> sorted[p[i]]]
  /\ lots'    = [i \in Purchases(sorted') |-> NewFundLot(sorted'[i])]
  /\ account' = [i \in Purchases(sorted') |-> [charged |-> 0, credited |-> 0]]
  /\ pending' = fundEvents(sorted', asOf)
  /\ pc' = "walk"
  /\ UNCHANGED <<inputs, saleVars, deemed, disposals, reason>>

UnsupportedType ==
  /\ pc = "build"
  /\ \E i \in DOMAIN sorted : sorted[i].type \notin Acquisitions \union {"sell"}
  /\ Fail("type")

(* The event the walk is at. *)
Reached(e) ==
  /\ pc = "walk"
  /\ \A f \in pending : f = e \/ Precedes(e, f)

(* Every lot was opened by buildFundEvents: nothing more to do. *)
PassBuy(e) ==
  /\ Reached(e) /\ e.kind = eventBuy
  /\ pending' = pending \ {e}
  /\ UNCHANGED <<inputs, pc, sorted, lots, saleVars, results, reason>>

AtAnniversary(e) == Reached(e) /\ e.kind = eventDeemedDisposal

(* Units sold before the anniversary had a real disposal instead. *)
PassSoldLot(e) ==
  /\ AtAnniversary(e)
  /\ lots[e.index].remaining = 0
  /\ pending' = pending \ {e}
  /\ UNCHANGED <<inputs, pc, sorted, lots, saleVars, results, reason>>

(* The store is keyed by calendar day. *)
Day(d) == d - (d % 2)

OnRecord(d) == Day(d) \in DOMAIN values

HasValue(d) == OnRecord(d) /\ (values[Day(d)].currency = "EUR" \/ EuroRate[d] # 0)

anniversaryValueEUR(d) ==
  values[Day(d)].value * (IF values[Day(d)].currency = "EUR" THEN 1 ELSE EuroRate[d])

(* Mutant: the tax of earlier anniversaries stays attached as well. *)
accumulateDeemedTax(e) ==
  LET lot      == lots[e.index]
      quantity == lot.remaining
      gain     == quantity * anniversaryValueEUR(e.date) - quantity * unitCost(lot)
      tax      == positive(gain) * ExitRate[e.date]
      used     == quantity * lot.deemedTaxPerUnit
  IN
  /\ AtAnniversary(e)
  /\ quantity # 0 /\ HasValue(e.date)
  /\ lots'    = [lots EXCEPT ![e.index].deemedTaxPerUnit = @ + tax \div quantity]
  /\ deemed'  = Append(deemed, [lot |-> e.index, date |-> e.date, quantity |-> quantity,
                                gain |-> gain, tax |-> tax, credit |-> used,
                                due |-> tax - used])
  /\ account' = [account EXCEPT ![e.index].charged = @ + tax - used]
  /\ pending' = pending \ {e}
  /\ UNCHANGED <<inputs, pc, sorted, saleVars, disposals, reason>>

chargeDeemedDisposal(e) ==
  LET lot      == lots[e.index]
      quantity == lot.remaining
      gain     == quantity * anniversaryValueEUR(e.date) - quantity * unitCost(lot)
      tax      == positive(gain) * ExitRate[e.date]
      used     == quantity * lot.deemedTaxPerUnit
  IN
  /\ AtAnniversary(e)
  /\ quantity # 0 /\ HasValue(e.date)
  /\ lots'    = [lots EXCEPT ![e.index].deemedTaxPerUnit = tax \div quantity]
  /\ deemed'  = Append(deemed, [lot |-> e.index, date |-> e.date, quantity |-> quantity,
                                gain |-> gain, tax |-> tax, credit |-> used,
                                due |-> tax - used])
  /\ account' = [account EXCEPT ![e.index].charged = @ + tax - used]
  /\ pending' = pending \ {e}
  /\ UNCHANGED <<inputs, pc, sorted, saleVars, disposals, reason>>

MissingValuation(e) ==
  /\ AtAnniversary(e)
  /\ lots[e.index].remaining # 0 /\ ~ HasValue(e.date)
  /\ Fail(IF OnRecord(e.date) THEN "rate" ELSE "valuation")

(* chargeFundDisposal, up to its loop over the lots. *)
BeginSale(e) ==
  /\ Reached(e) /\ e.kind = eventSell
  /\ pending' = pending \ {e}
  /\ pc' = "sale" /\ sale' = e.index
  /\ wanted' = sorted[e.index].quantity /\ cost' = 0 /\ credit' = 0
  /\ UNCHANGED <<inputs, sorted, lots, results, reason>>

(* Mutant: only the last lot's attached tax is credited. *)
CreditLastLot(i) ==
  LET take == minimum(wanted, lots[i].remaining) IN
  /\ pc = "sale" /\ wanted # 0
  /\ lots[i].remaining # 0
  /\ \A j \in DOMAIN lots : j < i => lots[j].remaining = 0
  /\ cost'    = cost + take * unitCost(lots[i])
  /\ credit'  = take * lots[i].deemedTaxPerUnit
  /\ lots'    = [lots EXCEPT ![i].remaining = @ - take]
  /\ wanted'  = wanted - take
  /\ account' = [account EXCEPT ![i].credited = @ + take * lots[i].deemedTaxPerUnit]
  /\ UNCHANGED <<inputs, pc, sorted, pending, sale, deemed, disposals, reason>>

(* The loop reaches a lot that still has units with all before it empty. *)
TakeFromLot(i) ==
  LET take == minimum(wanted, lots[i].remaining) IN
  /\ pc = "sale" /\ wanted # 0
  /\ lots[i].remaining # 0
  /\ \A j \in DOMAIN lots : j < i => lots[j].remaining = 0
  /\ cost'    = cost + take * unitCost(lots[i])
  /\ credit'  = credit + take * lots[i].deemedTaxPerUnit
  /\ lots'    = [lots EXCEPT ![i].remaining = @ - take]
  /\ wanted'  = wanted - take
  /\ account' = [account EXCEPT ![i].credited = @ + take * lots[i].deemedTaxPerUnit]
  /\ UNCHANGED <<inputs, pc, sorted, pending, sale, deemed, disposals, reason>>

Oversell ==
  /\ pc = "sale" /\ wanted # 0
  /\ \A i \in DOMAIN lots : lots[i].remaining = 0
  /\ Fail("oversell")

(* chargeFundDisposal, from its loop on. *)
RecordDisposal ==
  LET sell == sorted[sale]
      gain == sell.quantity * sell.price - cost
      tax  == positive(gain) * ExitRate[sell.date]
  IN
  /\ pc = "sale" /\ wanted = 0
  /\ disposals' = Append(disposals, [lot |-> 0, date |-> sell.date,
                                     quantity |-> sell.quantity, gain |-> gain,
                                     tax |-> tax, credit |-> credit,
                                     due |-> tax - credit])
  /\ pc' = "walk"
  /\ UNCHANGED <<inputs, sorted, lots, pending, saleVars, deemed, account, reason>>

Return ==
  /\ pc = "walk" /\ pending = {}
  /\ pc' = "done"
  /\ UNCHANGED <<inputs, sorted, lots, pending, saleVars, results, reason>>

Next ==
  \/ ToEURPrices \/ RateUnavailable \/ buildFundEvents \/ UnsupportedType
  \/ \E e \in pending : \/ PassBuy(e) \/ PassSoldLot(e) \/ chargeDeemedDisposal(e)
                        \/ MissingValuation(e) \/ BeginSale(e)
  \/ \E i \in DOMAIN lots : TakeFromLot(i)
  \/ Oversell \/ RecordDisposal \/ Return

Spec == Init /\ [][Next]_vars

----------------------------------------------------------------------------

TypeOK ==
  /\ txs \in Seq(Transaction) /\ values \in Valuations /\ asOf \in AsOfs
  /\ pc \in {"convert", "build", "walk", "sale", "done", "error"}
  /\ sorted \in Seq(Transaction)
  /\ DOMAIN lots \subseteq DOMAIN sorted
  /\ \A i \in DOMAIN lots : lots[i] \in FundLot
  /\ DOMAIN account = DOMAIN lots
  /\ \A i \in DOMAIN lots : account[i] \in [charged : Int, credited : Nat]
  /\ pending \subseteq Event
  /\ sale \in Nat /\ wanted \in Nat /\ cost \in Nat /\ credit \in Nat
  /\ deemed \in Seq(ChargeableEvent) /\ disposals \in Seq(ChargeableEvent)
  /\ reason \in {"none", "rate", "type", "valuation", "oversell"}

(***************************************************************************)
(* No tax is charged twice and no credit is lost: what a lot was charged   *)
(* on its anniversaries, less what sales were credited with, is the tax    *)
(* still attached to the units it has left.  Of a lot wholly sold all the  *)
(* deemed tax has come back as credit, which is how the code keeps to "the *)
(* total tax liability ... should not exceed the tax liability that arises *)
(* on the actual disposal".                                                *)
(***************************************************************************)
CreditFollowsUnits ==
  \A i \in DOMAIN lots :
    account[i].charged - account[i].credited = lots[i].remaining * lots[i].deemedTaxPerUnit

(* The units of lot i that first-in-first-out leaves unsold before date d: *)
(* what is bought up to and with lot i, less all that is sold before d.    *)
UnitsHeld(i, d) ==
  LET bought == SumFunction([j \in {k \in Purchases(sorted) : k <= i} |-> sorted[j].quantity])
      sold   == SumFunction([j \in {k \in DOMAIN sorted \ Purchases(sorted) :
                                       sorted[k].date < d} |-> sorted[j].quantity])
  IN minimum(positive(bought - sold), sorted[i].quantity)

Anniversaries ==
  {a \in Purchases(sorted) \X (0..asOf) :
     a[2] > sorted[a[1]].date /\ (a[2] - sorted[a[1]].date) % CycleLength = 0}

(* The anniversaries of the days up to asOf's own.                         *)
AnniversaryDays(s, asof) ==
  {a \in Purchases(s) \X (0..(asof + 1)) :
     /\ a[2] > s[a[1]].date /\ (a[2] - s[a[1]].date) % CycleLength = 0
     /\ Day(a[2]) <= Day(asof)}

(***************************************************************************)
(* "An anniversary is a date, not an instant" (valuations.go:36), and "a   *)
(* deemed disposal comes before a same-day sale" (fundEventKind): each lot *)
(* is charged on the day of every anniversary up to asOf's day, once, on   *)
(* exactly the units held when that day begins and at the value entered    *)
(* for that day.  The events are sorted by instant, though, and a lot      *)
(* bought in the afternoon has its anniversaries in the afternoon: this    *)
(* holds of Timely histories, and not of others.                           *)
(***************************************************************************)
EveryAnniversaryCharged ==
  pc = "done" =>
    /\ \A a \in AnniversaryDays(sorted, asOf) :
         LET charges == {k \in DOMAIN deemed : deemed[k].lot = a[1] /\ deemed[k].date = a[2]}
             units   == UnitsHeld(a[1], Day(a[2]))
         IN
         IF units = 0 THEN charges = {}
         ELSE /\ Cardinality(charges) = 1
              /\ \A k \in charges :
                   /\ deemed[k].quantity = units
                   /\ deemed[k].gain = units * (anniversaryValueEUR(a[2]) - sorted[a[1]].price)
    /\ \A k \in DOMAIN deemed : <<deemed[k].lot, deemed[k].date>> \in AnniversaryDays(sorted, asOf)

(* No anniversary comes later in its day than a sale, nor than asOf.       *)
Timely(s, asof) ==
  \A a \in AnniversaryDays(s, asof) :
    /\ a[2] <= asof
    /\ \A j \in DOMAIN s \ Purchases(s) : Day(s[j].date) = Day(a[2]) => a[2] <= s[j].date

(***************************************************************************)
(* A missing value blocks the holding exactly when it is needed: the call  *)
(* fails for one only if an anniversary that finds units still held, at    *)
(* its own time of day, has none, and returns only if no such anniversary  *)
(* is without one.                                                         *)
(***************************************************************************)
GapBlocks ==
  LET gaps == {a \in Anniversaries : UnitsHeld(a[1], a[2]) # 0 /\ ~ OnRecord(a[2])} IN
  /\ reason = "valuation" => gaps # {}
  /\ pc = "done" => gaps = {}

(***************************************************************************)
(* "A buy is processed before anything that could consume it" (the comment *)
(* on fundEventKind): a lot that has lost units was bought by the date of  *)
(* the sale being matched.                                                 *)
(***************************************************************************)
OnlyUnitsHeldAreSold ==
  pc = "sale" => \A i \in DOMAIN lots :
    lots[i].remaining < lots[i].quantity => lots[i].acquired <= sorted[sale].date

=============================================================================
