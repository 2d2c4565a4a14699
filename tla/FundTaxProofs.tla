--------------------------- MODULE FundTaxProofs ---------------------------
(***************************************************************************)
(* Proofs about FundTax, for every holding, valuation table and rate.      *)
(*                                                                         *)
(* CreditFollowsUnits is inductive once every event still to come is known *)
(* to name a lot or a transaction (EventsPlaced): a charge replaces what   *)
(* is attached to a unit by exactly what was charged per unit, the tax     *)
(* being a multiple of the units, and a sale takes away as much attached   *)
(* tax as it is credited.                                                  *)
(*                                                                         *)
(* That every anniversary is charged once, on the units it should find,    *)
(* needs to know where the walk is (WInv): what has been passed precedes   *)
(* what is to come, so the sales passed when an anniversary is reached are *)
(* exactly those before it; and the units left in each lot are what first- *)
(* in-first-out leaves after that many (FirstOut), also in the middle of a *)
(* sale.  The units of a set of transactions are a sum, and the lemmas on  *)
(* sums stand here as they do in the other modules that need them.         *)
(*                                                                         *)
(* Then FundYears and FundSchedule, which go over one history many times.  *)
(* What a walk to one year's end has listed by a date is what a walk to    *)
(* any later end lists up to that date: the events of a date are decided   *)
(* by the sales and anniversaries before it alone (YInv, and ReportRight   *)
(* of each report filed), which makes reports stand.  The dues filed are   *)
(* the sum of what the lots' accounts were charged and credited            *)
(* (AccountsAlike, FiledInv), and those add up to the tax on the sales and *)
(* what is still attached to units.  The schedule's walk is a table over   *)
(* the sets of events; it holds the same units as the computation at every *)
(* event, as both hold what first-in-first-out leaves, and until a sale    *)
(* fails no more is consumed than was bought (WithinBought).               *)
(***************************************************************************)
EXTENDS FundSchedule, SequenceTheorems, FiniteSetTheorems, WellFoundedInduction, TLAPS

EventsPlaced ==
  \A e \in pending :
    /\ e.kind = eventSell => e.index \in DOMAIN sorted
    /\ e.kind # eventSell => e.index \in DOMAIN lots
    /\ e.kind = eventDeemedDisposal => e.date \in Dates

SalePlaced == pc = "sale" => sale \in DOMAIN sorted

NothingBuilt == pc \in {"convert", "build"} => DOMAIN lots = {} /\ pending = {}

IInv == TypeOK /\ EventsPlaced /\ SalePlaced /\ NothingBuilt /\ CreditFollowsUnits

----------------------------------------------------------------------------

(* The tax on q units of value v and cost u at rate r. *)
TaxOn(q, v, u, r) == positive(q * v - q * u) * r

(* The tax on q units is q times a whole number of cents per unit, which   *)
(* is what the division by the quantity gives back.                        *)
LEMMA TaxPerUnit ==
  ASSUME NEW q \in Nat \ {0}, NEW v \in Nat, NEW u \in Nat, NEW r \in Nat
  PROVE  /\ TaxOn(q, v, u, r) \in Nat /\ TaxOn(q, v, u, r) \div q \in Nat
         /\ q * (TaxOn(q, v, u, r) \div q) = TaxOn(q, v, u, r)
         /\ TaxOn(q, v, u, r) \div q = positive(v - u) * r
<1> DEFINE per == positive(v - u) * r
<1>1. positive(v - u) \in Nat /\ per \in Nat
  BY DEF positive
<1>2. positive(q * v - q * u) = q * positive(v - u)
  <2>1. q * v - q * u = q * (v - u)
    OBVIOUS
  <2>2. CASE v - u < 0
    <3>1. q * (v - u) < 0
      BY <2>2
    <3> QED
      BY <2>1, <2>2, <3>1 DEF positive
  <2>3. CASE ~ (v - u < 0)
    <3>1. ~ (q * (v - u) < 0)
      BY <2>3
    <3> QED
      BY <2>1, <2>3, <3>1 DEF positive
  <2> QED
    BY <2>2, <2>3
<1>3. TaxOn(q, v, u, r) = q * per
  BY <1>1, <1>2 DEF TaxOn
<1>4. (q * per) \div q = per /\ q * per \in Nat
  BY <1>1
<1>5. TaxOn(q, v, u, r) \div q = positive(v - u) * r
  BY <1>3, <1>4
<1> HIDE DEF per
<1> QED
  BY <1>1, <1>3, <1>4, <1>5

(* An anniversary falls after the purchase and no later than asof.         *)
LEMMA AnniversaryDate ==
  ASSUME NEW acquired \in Nat, NEW asof \in Nat,
         NEW d \in deemedDisposalAnniversaries(acquired, asof)
  PROVE  d \in acquired..asof
<1>1. PICK k \in 1..((asof - acquired) \div CycleLength) : d = acquired + k * CycleLength
  BY DEF deemedDisposalAnniversaries
<1>2. CycleLength \in Nat /\ CycleLength > 0
  BY CycleAssumption
<1> DEFINE years == (asof - acquired) \div CycleLength
<1>3. years \in Int /\ years * CycleLength <= asof - acquired
  BY <1>2
<1> HIDE DEF years
<1>4. k \in Nat /\ k <= years
  BY <1>1, <1>3 DEF years
<1>5. k * CycleLength \in Nat /\ k * CycleLength <= years * CycleLength
  BY <1>2, <1>3, <1>4
<1> QED
  BY <1>1, <1>2, <1>3, <1>4, <1>5

(* Every event names the purchase or the sale it is about.                 *)
LEMMA FundEventsPlaced ==
  ASSUME NEW s \in Seq(Transaction), NEW asof \in AsOfs, NEW e \in fundEvents(s, asof)
  PROVE  /\ e \in Event
         /\ e.kind = eventSell => e.index \in DOMAIN s
         /\ e.kind # eventSell => e.index \in Purchases(s)
         /\ e.kind = eventDeemedDisposal => e.date \in Dates
<1>1. \A i \in DOMAIN s : s[i].date \in Dates /\ s[i].date \in Nat /\ i \in Nat
  <2>1. \A i \in 1..Len(s) : s[i] \in Transaction
    BY ElementOfSeq
  <2>2. DOMAIN s = 1..Len(s) /\ Len(s) \in Nat
    OBVIOUS
  <2>3. \A i \in 1..Len(s) : s[i].date \in Dates
    BY <2>1 DEF Transaction
  <2>4. \A i \in 1..Len(s) : s[i].date \in Nat
    BY <2>3, DatesAssumption
  <2>5. \A i \in 1..Len(s) : i \in Nat
    BY <2>2
  <2> QED
    BY <2>2, <2>3, <2>4, <2>5
<1>2. Purchases(s) \subseteq DOMAIN s
  BY DEF Purchases
<1>3. CASE \E i \in Purchases(s) : e = [date |-> s[i].date, kind |-> eventBuy, index |-> i]
  BY <1>1, <1>2, <1>3 DEF Event, eventBuy, eventSell, eventDeemedDisposal
<1>4. CASE \E i \in DOMAIN s \ Purchases(s) :
             e = [date |-> s[i].date, kind |-> eventSell, index |-> i]
  BY <1>1, <1>4 DEF Event, eventSell, eventDeemedDisposal
<1>5. CASE \E i \in Purchases(s) : \E d \in deemedDisposalAnniversaries(s[i].date, asof) :
             e = [date |-> d, kind |-> eventDeemedDisposal, index |-> i]
  <2>0. PICK i \in Purchases(s) : \E d \in deemedDisposalAnniversaries(s[i].date, asof) :
               e = [date |-> d, kind |-> eventDeemedDisposal, index |-> i]
    BY <1>5
  <2>1. PICK d \in deemedDisposalAnniversaries(s[i].date, asof) :
               e = [date |-> d, kind |-> eventDeemedDisposal, index |-> i]
    BY <2>0
  <2>2. asof \in Nat /\ 0..asof \subseteq Dates
    BY AsOfAssumption, DatesAssumption, CalendarAssumption
  <2>3. s[i].date \in Nat /\ i \in Nat
    BY <1>1, <1>2
  <2>4. d \in s[i].date..asof
    BY <2>2, <2>3, AnniversaryDate
  <2>5. d \in Nat /\ d \in Dates
    BY <2>2, <2>3, <2>4
  <2> QED
    BY <2>1, <2>3, <2>5 DEF Event, eventSell, eventDeemedDisposal
<1> QED
  BY <1>3, <1>4, <1>5 DEF fundEvents

(* Restating a transaction in euro changes its price and nothing else that *)
(* is looked at.                                                           *)
LEMMA InEURType ==
  ASSUME NEW tx \in Transaction
  PROVE  InEUR(tx) \in Transaction
<1>1. tx.price * EuroRate[tx.date] \in Nat
  BY RateAssumption DEF Transaction
<1> QED
  BY <1>1 DEF InEUR, Transaction, Currencies

(* Sorting transactions gives transactions.                                *)
LEMMA StableOrderType ==
  ASSUME NEW s \in Seq(Transaction), NEW p \in StableOrders(s)
  PROVE  [i \in DOMAIN s |-> s[p[i]]] \in Seq(Transaction)
<1>1. p \in [1..Len(s) -> 1..Len(s)]
  BY DEF StableOrders
<1>2. [i \in DOMAIN s |-> s[p[i]]] \in [1..Len(s) -> Transaction]
  BY <1>1
<1> QED
  BY <1>2, IsASeq

(* A lot opened by a purchase has its type.                                *)
LEMMA NewFundLotType ==
  ASSUME NEW tx \in Transaction
  PROVE  NewFundLot(tx) \in FundLot
<1>1. tx.quantity \in Nat /\ tx.price \in Nat /\ tx.date \in Dates
  BY QuantityAssumption DEF Transaction
<1>2. tx.quantity * tx.price \in Nat
  BY <1>1
<1> QED
  BY <1>1, <1>2 DEF NewFundLot, FundLot

----------------------------------------------------------------------------
(* What each step that changes lots or accounts does to the invariant.     *)

LEMMA BuildStep ==
  ASSUME IInv, buildFundEvents
  PROVE  IInv'
<1>1. PICK p \in StableOrders(sorted) : sorted' = [i \in DOMAIN sorted |-> sorted[p[i]]]
  BY DEF buildFundEvents
<1>2. sorted' \in Seq(Transaction)
  BY <1>1, StableOrderType DEF IInv, TypeOK
<1>3. /\ lots' = [i \in Purchases(sorted') |-> NewFundLot(sorted'[i])]
      /\ account' = [i \in Purchases(sorted') |-> [charged |-> 0, credited |-> 0]]
      /\ pending' = fundEvents(sorted', asOf)
      /\ pc' = "walk"
      /\ UNCHANGED <<txs, values, asOf, sale, wanted, cost, credit, deemed, disposals, reason>>
  BY DEF buildFundEvents, inputs, saleVars
<1>4. \A i \in DOMAIN sorted' : sorted'[i] \in Transaction
  <2>1. \A i \in 1..Len(sorted') : sorted'[i] \in Transaction
    BY <1>2, ElementOfSeq
  <2> QED
    BY <1>2, <2>1
<1>5. DOMAIN lots' = Purchases(sorted') /\ DOMAIN account' = DOMAIN lots'
      /\ DOMAIN lots' \subseteq DOMAIN sorted'
  BY <1>3 DEF Purchases
<1>6. \A i \in DOMAIN lots' : lots'[i] = NewFundLot(sorted'[i]) /\ lots'[i] \in FundLot
  BY <1>3, <1>4, <1>5, NewFundLotType
<1>7. \A i \in DOMAIN lots' : account'[i] = [charged |-> 0, credited |-> 0]
  BY <1>3, <1>5
<1>8. asOf \in AsOfs /\ asOf' = asOf
  BY <1>3 DEF IInv, TypeOK
<1>9. \A e \in pending' :
        /\ e \in Event
        /\ e.kind = eventSell => e.index \in DOMAIN sorted'
        /\ e.kind # eventSell => e.index \in Purchases(sorted')
        /\ e.kind = eventDeemedDisposal => e.date \in Dates
  BY <1>2, <1>3, <1>8, FundEventsPlaced
<1>10. TypeOK'
  <2>1. \A i \in DOMAIN lots' : account'[i] \in [charged : Int, credited : Nat]
    BY <1>7
  <2>2. pending' \subseteq Event
    BY <1>9
  <2> QED
    BY <1>2, <1>3, <1>5, <1>6, <2>1, <2>2 DEF IInv, TypeOK
<1>11. EventsPlaced'
  BY <1>5, <1>9 DEF EventsPlaced
<1>12. CreditFollowsUnits'
  <2>1. ASSUME NEW i \in DOMAIN lots'
        PROVE  account'[i].charged - account'[i].credited
                 = lots'[i].remaining * lots'[i].deemedTaxPerUnit
    <3>1. lots'[i].deemedTaxPerUnit = 0 /\ lots'[i].remaining \in Nat
      BY <1>6, <2>1 DEF NewFundLot, FundLot
    <3>2. account'[i].charged = 0 /\ account'[i].credited = 0
      BY <1>7, <2>1
    <3> QED
      BY <3>1, <3>2
  <2> QED
    BY <2>1 DEF CreditFollowsUnits
<1> QED
  BY <1>3, <1>10, <1>11, <1>12 DEF IInv, SalePlaced, NothingBuilt

LEMMA ChargeStep ==
  ASSUME IInv, NEW e \in pending, chargeDeemedDisposal(e)
  PROVE  IInv'
<1> DEFINE lot      == lots[e.index]
           quantity == lot.remaining
           value    == anniversaryValueEUR(e.date)
           gain     == quantity * value - quantity * unitCost(lot)
           tax      == positive(gain) * ExitRate[e.date]
           used     == quantity * lot.deemedTaxPerUnit
<1>1. /\ e.kind = eventDeemedDisposal /\ quantity # 0 /\ HasValue(e.date) /\ pc = "walk"
      /\ lots' = [lots EXCEPT ![e.index].deemedTaxPerUnit = tax \div quantity]
      /\ deemed' = Append(deemed, [lot |-> e.index, date |-> e.date, quantity |-> quantity,
                                   gain |-> gain, tax |-> tax, credit |-> used,
                                   due |-> tax - used])
      /\ account' = [account EXCEPT ![e.index].charged = @ + tax - used]
      /\ pending' = pending \ {e}
      /\ UNCHANGED <<txs, values, asOf, pc, sorted, sale, wanted, cost, credit, disposals, reason>>
  BY DEF chargeDeemedDisposal, AtAnniversary, Reached, inputs, saleVars
<1>2. /\ e \in Event /\ e.index \in DOMAIN lots /\ e.date \in Dates /\ e.date \in Nat
      /\ e.index \in Nat
  BY <1>1 DEF IInv, TypeOK, EventsPlaced, Event, eventDeemedDisposal, eventSell
<1>3. lot \in FundLot /\ account[e.index] \in [charged : Int, credited : Nat]
  BY <1>2 DEF IInv, TypeOK
<1>4. quantity \in Nat \ {0} /\ lot.deemedTaxPerUnit \in Nat /\ unitCost(lot) \in Nat
  <2>1. lot.quantity \in Nat /\ lot.costBasis \in Nat
    BY <1>3 DEF FundLot
  <2>2. unitCost(lot) \in Nat
    BY <2>1 DEF unitCost
  <2> QED
    BY <1>1, <1>3, <2>2 DEF FundLot
<1>5. value \in Nat
  <2>1. values \in Valuations /\ Day(e.date) \in DOMAIN values
    BY <1>1 DEF IInv, TypeOK, HasValue, OnRecord
  <2>2. values[Day(e.date)] \in Valuation
    BY <2>1, ValuationAssumption
  <2>3. values[Day(e.date)].value \in Nat /\ EuroRate[e.date] \in Nat
    BY <1>2, <2>2, RateAssumption DEF Valuation
  <2> QED
    BY <2>3 DEF anniversaryValueEUR
<1>6. ExitRate[e.date] \in Nat
  BY <1>2, ExitRateAssumption
<1>7. tax \in Nat /\ tax \div quantity \in Nat /\ quantity * (tax \div quantity) = tax
  <2> DEFINE unit == unitCost(lot)
             rate == ExitRate[e.date]
  <2>1. tax = TaxOn(quantity, value, unit, rate)
    BY DEF TaxOn
  <2>2. quantity \in Nat \ {0} /\ value \in Nat /\ unit \in Nat /\ rate \in Nat
    BY <1>4, <1>5, <1>6
  <2> HIDE DEF lot, quantity, value, gain, tax, unit, rate
  <2> QED
    BY <2>1, <2>2, TaxPerUnit
<1>8. gain \in Int /\ used \in Nat
  BY <1>4, <1>5
<1> DEFINE per == tax \div quantity
<1>9. /\ DOMAIN lots' = DOMAIN lots
      /\ \A i \in DOMAIN lots : i # e.index => lots'[i] = lots[i]
      /\ lots'[e.index] = [lot EXCEPT !.deemedTaxPerUnit = per]
  BY <1>1, <1>2
<1>10. /\ DOMAIN account' = DOMAIN account
       /\ \A i \in DOMAIN lots : i # e.index => account'[i] = account[i]
       /\ account'[e.index] = [account[e.index] EXCEPT !.charged = @ + tax - used]
  BY <1>1, <1>2 DEF IInv, TypeOK
<1> HIDE DEF lot, quantity, value, gain, tax, used, per
<1>11. /\ lots'[e.index] \in FundLot
       /\ lots'[e.index].remaining = quantity
       /\ lots'[e.index].deemedTaxPerUnit = per
  BY <1>3, <1>7, <1>9 DEF FundLot, quantity, per
<1>12. /\ account'[e.index] \in [charged : Int, credited : Nat]
       /\ account'[e.index].charged = account[e.index].charged + tax - used
       /\ account'[e.index].credited = account[e.index].credited
  BY <1>3, <1>7, <1>8, <1>10
<1>13. TypeOK'
  <2>1. deemed' \in Seq(ChargeableEvent)
    <3>1. [lot |-> e.index, date |-> e.date, quantity |-> quantity, gain |-> gain, tax |-> tax,
           credit |-> used, due |-> tax - used] \in ChargeableEvent
      BY <1>2, <1>4, <1>7, <1>8 DEF ChargeableEvent
    <3> QED
      BY <1>1, <3>1 DEF IInv, TypeOK
  <2>2. \A i \in DOMAIN lots' : lots'[i] \in FundLot
    BY <1>9, <1>11 DEF IInv, TypeOK
  <2>3. \A i \in DOMAIN lots' : account'[i] \in [charged : Int, credited : Nat]
    BY <1>9, <1>10, <1>12 DEF IInv, TypeOK
  <2> QED
    BY <1>1, <1>9, <1>10, <2>1, <2>2, <2>3 DEF IInv, TypeOK
<1>14. EventsPlaced'
  BY <1>1, <1>9 DEF IInv, EventsPlaced
<1>15. CreditFollowsUnits'
  <2>1. ASSUME NEW i \in DOMAIN lots
        PROVE  account'[i].charged - account'[i].credited
                 = lots'[i].remaining * lots'[i].deemedTaxPerUnit
    <3>1. account[i].charged - account[i].credited
            = lots[i].remaining * lots[i].deemedTaxPerUnit
      BY DEF IInv, CreditFollowsUnits
    <3>2. CASE i # e.index
      BY <1>9, <1>10, <3>1, <3>2
    <3>3. CASE i = e.index
      <4>1. account[i].charged - account[i].credited = used
        BY <3>1, <3>3 DEF lot, quantity, used
      <4>2. account[i].charged \in Int /\ account[i].credited \in Int
        BY <1>3, <3>3
      <4>3. quantity * per = tax
        BY <1>7 DEF per
      <4> QED
        BY <1>7, <1>8, <1>11, <1>12, <3>3, <4>1, <4>2, <4>3
    <3> QED
      BY <3>2, <3>3
  <2> QED
    BY <1>9, <2>1 DEF CreditFollowsUnits
<1> QED
  BY <1>1, <1>13, <1>14, <1>15 DEF IInv, SalePlaced, NothingBuilt

LEMMA TakeStep ==
  ASSUME IInv, NEW i \in DOMAIN lots, TakeFromLot(i)
  PROVE  IInv'
<1> DEFINE lot  == lots[i]
           take == minimum(wanted, lot.remaining)
           per  == lot.deemedTaxPerUnit
<1>1. /\ pc = "sale"
      /\ cost'    = cost + take * unitCost(lot)
      /\ credit'  = credit + take * per
      /\ lots'    = [lots EXCEPT ![i].remaining = @ - take]
      /\ wanted'  = wanted - take
      /\ account' = [account EXCEPT ![i].credited = @ + take * per]
      /\ UNCHANGED <<txs, values, asOf, pc, sorted, pending, sale, deemed, disposals, reason>>
  BY DEF TakeFromLot, inputs
<1>2. lot \in FundLot /\ account[i] \in [charged : Int, credited : Nat]
  BY DEF IInv, TypeOK
<1>3. lot.remaining \in Nat /\ per \in Nat /\ unitCost(lot) \in Nat
  <2>1. lot.quantity \in Nat /\ lot.costBasis \in Nat
    BY <1>2 DEF FundLot
  <2> QED
    BY <1>2, <2>1 DEF FundLot, unitCost
<1>4. wanted \in Nat /\ cost \in Nat /\ credit \in Nat
  BY DEF IInv, TypeOK
<1>5. take \in Nat /\ wanted - take \in Nat /\ lot.remaining - take \in Nat
  <2>1. take \in Nat /\ take <= wanted /\ take <= lot.remaining
    BY <1>3, <1>4 DEF minimum
  <2> HIDE DEF take
  <2> QED
    BY <1>3, <1>4, <2>1
<1>6. take * unitCost(lot) \in Nat /\ take * per \in Nat
  BY <1>3, <1>5
<1>7. /\ DOMAIN lots' = DOMAIN lots
      /\ \A j \in DOMAIN lots : j # i => lots'[j] = lots[j]
      /\ lots'[i] = [lot EXCEPT !.remaining = lot.remaining - take]
  BY <1>1
<1>8. /\ DOMAIN account' = DOMAIN account
      /\ \A j \in DOMAIN lots : j # i => account'[j] = account[j]
      /\ account'[i] = [account[i] EXCEPT !.credited = account[i].credited + take * per]
  BY <1>1 DEF IInv, TypeOK
<1> HIDE DEF take
<1>9. /\ lots'[i] \in FundLot
      /\ lots'[i].remaining = lot.remaining - take
      /\ lots'[i].deemedTaxPerUnit = per
  BY <1>2, <1>5, <1>7 DEF FundLot
<1>10. /\ account'[i] \in [charged : Int, credited : Nat]
       /\ account'[i].charged = account[i].charged
       /\ account'[i].credited = account[i].credited + take * per
  BY <1>2, <1>6, <1>8
<1>11. TypeOK'
  <2>1. cost' \in Nat /\ credit' \in Nat /\ wanted' \in Nat
    BY <1>1, <1>4, <1>5, <1>6
  <2>2. \A j \in DOMAIN lots' : lots'[j] \in FundLot
    BY <1>7, <1>9 DEF IInv, TypeOK
  <2>3. \A j \in DOMAIN lots' : account'[j] \in [charged : Int, credited : Nat]
    BY <1>7, <1>8, <1>10 DEF IInv, TypeOK
  <2> QED
    BY <1>1, <1>7, <1>8, <2>1, <2>2, <2>3 DEF IInv, TypeOK
<1>12. EventsPlaced'
  BY <1>1, <1>7 DEF IInv, EventsPlaced
<1>13. CreditFollowsUnits'
  <2>1. ASSUME NEW j \in DOMAIN lots
        PROVE  account'[j].charged - account'[j].credited
                 = lots'[j].remaining * lots'[j].deemedTaxPerUnit
    <3>1. account[j].charged - account[j].credited
            = lots[j].remaining * lots[j].deemedTaxPerUnit
      BY DEF IInv, CreditFollowsUnits
    <3>2. CASE j # i
      BY <1>7, <1>8, <3>1, <3>2
    <3>3. CASE j = i
      <4>1. account[i].charged - account[i].credited = lot.remaining * per
        BY <3>1, <3>3
      <4>2. account[i].charged \in Int /\ account[i].credited \in Int
        BY <1>2
      <4>3. (lot.remaining - take) * per = lot.remaining * per - take * per
        BY <1>3, <1>5
      <4> QED
        BY <1>3, <1>6, <1>9, <1>10, <3>3, <4>1, <4>2, <4>3
    <3> QED
      BY <3>2, <3>3
  <2> QED
    BY <1>7, <2>1 DEF CreditFollowsUnits
<1> QED
  BY <1>1, <1>11, <1>12, <1>13 DEF IInv, SalePlaced, NothingBuilt

----------------------------------------------------------------------------

LEMMA Step ==
  ASSUME IInv, [Next]_vars
  PROVE  IInv'
<1> USE DEF IInv, SalePlaced, NothingBuilt, inputs, saleVars, results
<1>1. CASE ToEURPrices
  <2>1. \A i \in 1..Len(txs) : InEUR(txs[i]) \in Transaction
    BY ElementOfSeq, InEURType DEF TypeOK
  <2>2. [i \in DOMAIN txs |-> InEUR(txs[i])] \in [1..Len(txs) -> Transaction]
    BY <2>1 DEF TypeOK
  <2>3. sorted' \in Seq(Transaction)
    BY <1>1, <2>2, IsASeq DEF ToEURPrices, TypeOK
  <2> QED
    BY <1>1, <2>3 DEF ToEURPrices, TypeOK, EventsPlaced, CreditFollowsUnits
<1>2. CASE RateUnavailable
  BY <1>2 DEF RateUnavailable, Fail, TypeOK, EventsPlaced, CreditFollowsUnits
<1>3. CASE buildFundEvents
  BY <1>3, BuildStep
<1>4. CASE UnsupportedType
  BY <1>4 DEF UnsupportedType, Fail, TypeOK, EventsPlaced, CreditFollowsUnits
<1>5. CASE \E e \in pending : PassBuy(e) \/ PassSoldLot(e)
  BY <1>5 DEF PassBuy, PassSoldLot, AtAnniversary, Reached, TypeOK, EventsPlaced, CreditFollowsUnits
<1>6. CASE \E e \in pending : chargeDeemedDisposal(e)
  BY <1>6, ChargeStep
<1>7. CASE \E e \in pending : MissingValuation(e)
  BY <1>7 DEF MissingValuation, Fail, TypeOK, EventsPlaced, CreditFollowsUnits
<1>8. CASE \E e \in pending : BeginSale(e)
  <2>1. PICK e \in pending : BeginSale(e)
    BY <1>8
  <2>2. e.index \in DOMAIN sorted /\ e.index \in Nat
    BY <2>1 DEF BeginSale, EventsPlaced, TypeOK, Event
  <2>3. sorted[e.index] \in Transaction
    BY <2>2, ElementOfSeq DEF TypeOK
  <2>4. sorted[e.index].quantity \in Nat
    BY <2>3, QuantityAssumption DEF Transaction
  <2> QED
    BY <2>1, <2>2, <2>4 DEF BeginSale, Reached, TypeOK, EventsPlaced, CreditFollowsUnits
<1>9. CASE \E i \in DOMAIN lots : TakeFromLot(i)
  BY <1>9, TakeStep
<1>10. CASE Oversell
  BY <1>10 DEF Oversell, Fail, TypeOK, EventsPlaced, CreditFollowsUnits
<1>11. CASE RecordDisposal
  <2> DEFINE sell == sorted[sale]
             gain == sell.quantity * sell.price - cost
             tax  == positive(gain) * ExitRate[sell.date]
  <2>1. sell \in Transaction
    BY <1>11, ElementOfSeq DEF RecordDisposal, TypeOK
  <2>2. sell.quantity \in Nat /\ sell.price \in Nat /\ sell.date \in Dates
    BY <2>1, QuantityAssumption DEF Transaction
  <2>3. gain \in Int /\ positive(gain) \in Nat
    <3>1. sell.quantity * sell.price \in Nat
      BY <2>2
    <3> QED
      BY <3>1 DEF TypeOK, positive
  <2>4. tax \in Nat
    BY <2>2, <2>3, ExitRateAssumption
  <2>5. disposals' = Append(disposals, [lot |-> 0, date |-> sell.date, quantity |-> sell.quantity,
                                        gain |-> gain, tax |-> tax, credit |-> credit,
                                        due |-> tax - credit])
    BY <1>11 DEF RecordDisposal
  <2> HIDE DEF gain, tax
  <2>6. disposals' \in Seq(ChargeableEvent)
    <3>1. [lot |-> 0, date |-> sell.date, quantity |-> sell.quantity, gain |-> gain, tax |-> tax,
           credit |-> credit, due |-> tax - credit] \in ChargeableEvent
      <4>1. sell.date \in Nat /\ credit \in Nat
        BY <2>2, DatesAssumption DEF TypeOK
      <4> HIDE DEF sell
      <4> QED
        BY <2>2, <2>3, <2>4, <4>1 DEF ChargeableEvent
    <3> QED
      BY <2>5, <3>1 DEF TypeOK
  <2> QED
    BY <1>11, <2>6 DEF RecordDisposal, TypeOK, EventsPlaced, CreditFollowsUnits
<1>12. CASE Return
  BY <1>12 DEF Return, TypeOK, EventsPlaced, CreditFollowsUnits
<1>13. CASE UNCHANGED vars
  BY <1>13 DEF vars, TypeOK, EventsPlaced, CreditFollowsUnits
<1> QED
  BY <1>1, <1>2, <1>3, <1>4, <1>5, <1>6, <1>7, <1>8, <1>9, <1>10, <1>11, <1>12, <1>13 DEF Next

LEMMA Start == Init => IInv
BY LedgerAssumption DEF Init, IInv, TypeOK, EventsPlaced, SalePlaced, NothingBuilt,
   CreditFollowsUnits

(* The invariant holds throughout every call.                              *)
THEOREM Invariance == Spec => []IInv
<1>1. IInv /\ [Next]_vars => IInv'
  BY Step
<1> QED
  BY Start, <1>1, PTL DEF Spec

(* A call never leaves the states its types describe: the amounts it keeps *)
(* per unit stay whole and no lot goes below zero.                         *)
THEOREM TypeCorrect == Spec => []TypeOK
BY Invariance, PTL DEF IInv

(* What a lot was charged on its anniversaries, less what sales were       *)
(* credited with, is at all times the tax attached to the units it has     *)
(* left (chargeDeemedDisposal, chargeFundDisposal).                        *)
THEOREM NoDoubleCharge == Spec => []CreditFollowsUnits
BY Invariance, PTL DEF IInv

----------------------------------------------------------------------------
(* Sums over finite sets.                                                  *)

(* Induction over finite sets: what holds of a set once it holds of the    *)
(* set without any one element holds of every finite set.                  *)
LEMMA SetInduction ==
  ASSUME NEW S, IsFiniteSet(S), NEW C,
         \A T \in SUBSET S : (\A x \in T : T \ {x} \in C) => T \in C
  PROVE  \A T \in SUBSET S : T \in C
<1> DEFINE R == StrictSubsetOrdering(S)
           B == {T \in SUBSET S : T \notin C}
<1>1. IsWellFoundedOn(R, SUBSET S)
  BY FS_StrictSubsetOrderingWellFounded, FS_FiniteSubsetsOfFinite
<1> SUFFICES ASSUME B # {} PROVE FALSE
  OBVIOUS
<1>2. B \in SUBSET SUBSET S
  OBVIOUS
<1> HIDE DEF R, B
<1>3. PICK T \in B : \A U \in B : ~ (<<U, T>> \in R)
  BY <1>1, <1>2, WFMin, Zenon
<1>4. ASSUME NEW x \in T PROVE T \ {x} \in C
  <2>1. T \in SUBSET S /\ T \ {x} \in SUBSET S
    BY <1>2, <1>3
  <2>2. <<T \ {x}, T>> \in R
    BY <2>1 DEF R, StrictSubsetOrdering
  <2>3. T \ {x} \notin B
    BY <1>3, <2>2
  <2> QED
    BY <2>1, <2>3 DEF B
<1> QED
  BY <1>3, <1>4 DEF B

----------------------------------------------------------------------------
(* SumFunctionOnSet adds the elements of a set in the order in which they  *)
(* are chosen; a fold is its table of the sums over the subsets.           *)
first(s) == CHOOSE x \in s : TRUE

IsFold(g, f, S) ==
  g = [s \in SUBSET S |-> IF s = {} THEN 0 ELSE f[first(s)] + g[s \ {first(s)}]]

LEMMA SumIsFold ==
  ASSUME NEW f, NEW S
  PROVE  SumFunctionOnSet(f, S) = (CHOOSE g : IsFold(g, f, S))[S]
BY DEF SumFunctionOnSet, FoldFunctionOnSet, MapThenFoldSet, IsFold, first

LEMMA First ==
  ASSUME NEW s, s # {}
  PROVE  first(s) \in s
BY DEF first

LEMMA FoldAt ==
  ASSUME NEW f, NEW S, NEW g, IsFold(g, f, S), NEW s \in SUBSET S
  PROVE  g[s] = IF s = {} THEN 0 ELSE f[first(s)] + g[s \ {first(s)}]
<1> DEFINE h == [t \in SUBSET S |-> IF t = {} THEN 0 ELSE f[first(t)] + g[t \ {first(t)}]]
<1>1. g = h
  BY DEF IsFold
<1>2. h[s] = IF s = {} THEN 0 ELSE f[first(s)] + g[s \ {first(s)}]
  OBVIOUS
<1> HIDE DEF h
<1> QED
  BY <1>1, <1>2

(* Two folds agree where both are defined.                                 *)
LEMMA FoldsAgree ==
  ASSUME NEW f, NEW S, IsFiniteSet(S), NEW g, IsFold(g, f, S),
         NEW T \in SUBSET S, NEW h, IsFold(h, f, T)
  PROVE  g[T] = h[T]
<1> DEFINE C == {s \in SUBSET T : g[s] = h[s]}
<1>1. IsFiniteSet(T)
  BY FS_Subset
<1>2. ASSUME NEW s \in SUBSET T, \A x \in s : s \ {x} \in C PROVE s \in C
  <2>1. CASE s = {}
    BY <2>1, FoldAt
  <2>2. CASE s # {}
    <3>1. s \ {first(s)} \in C
      BY <1>2, <2>2, First
    <3> QED
      BY <2>2, <3>1, FoldAt
  <2> QED
    BY <2>1, <2>2
<1> HIDE DEF C
<1>3. T \in C
  BY <1>1, <1>2, SetInduction
<1> QED
  BY <1>3 DEF C

LEMMA FoldExists ==
  ASSUME NEW f, NEW S, IsFiniteSet(S)
  PROVE  \E g : IsFold(g, f, S)
<1> DEFINE C == {T \in SUBSET S : \A U \in SUBSET T : \E g : IsFold(g, f, U)}
           fold(U) == CHOOSE g : IsFold(g, f, U)
<1>1. ASSUME NEW T \in SUBSET S, \A x \in T : T \ {x} \in C PROVE T \in C
  <2> DEFINE h == [s \in SUBSET T |-> IF s = {} THEN 0
                     ELSE f[first(s)] + fold(s \ {first(s)})[s \ {first(s)}]]
  <2>1. ASSUME NEW U \in SUBSET T, U # T PROVE \E g : IsFold(g, f, U)
    <3>1. PICK x \in T : x \notin U
      BY <2>1
    <3>2. T \ {x} \in C /\ U \in SUBSET (T \ {x})
      BY <1>1, <3>1
    <3> QED
      BY <3>2
  <2>2. ASSUME NEW U \in SUBSET T, U # T PROVE IsFold(fold(U), f, U)
    BY <2>1, <2>2
  <2> HIDE DEF fold
  <2>3. ASSUME NEW u \in SUBSET T, u # T PROVE h[u] = fold(u)[u]
    <3>1. IsFold(fold(u), f, u) /\ u \in SUBSET u /\ IsFiniteSet(u)
      BY <2>2, <2>3, FS_Subset
    <3>2. fold(u)[u] = IF u = {} THEN 0 ELSE f[first(u)] + fold(u)[u \ {first(u)}]
      BY <3>1, FoldAt
    <3>3. CASE u = {}
      BY <3>2, <3>3
    <3>4. CASE u # {}
      <4>1. first(u) \in u
        BY <3>4, First
      <4> DEFINE v == u \ {first(u)}
      <4>2. v \in SUBSET T /\ v # T /\ v \in SUBSET u
        BY <2>3, <4>1
      <4>3. IsFold(fold(v), f, v)
        BY <2>2, <4>2
      <4>4. fold(u)[v] = fold(v)[v]
        BY <3>1, <4>2, <4>3, FoldsAgree
      <4> QED
        BY <3>2, <3>4, <4>4
    <3> QED
      BY <3>3, <3>4
  <2>4. ASSUME NEW s \in SUBSET T, s # {}
        PROVE  fold(s \ {first(s)})[s \ {first(s)}] = h[s \ {first(s)}]
    <3>1. first(s) \in s /\ s \ {first(s)} \in SUBSET T /\ s \ {first(s)} # T
      BY <2>4, First
    <3> HIDE DEF h
    <3> QED
      BY <2>3, <3>1
  <2>5. IsFold(h, f, T)
    <3> DEFINE k == [s \in SUBSET T |-> IF s = {} THEN 0
                       ELSE f[first(s)] + h[s \ {first(s)}]]
    <3>1. \A s \in SUBSET T : h[s] = k[s]
      BY <2>4
    <3>2. h = k
      BY <3>1
    <3> QED
      BY <3>2 DEF IsFold
  <2> HIDE DEF h
  <2>6. \A U \in SUBSET T : \E g : IsFold(g, f, U)
    BY <2>1, <2>5
  <2> QED
    BY <2>6
<1> HIDE DEF C
<1>2. S \in C
  BY <1>1, SetInduction, ZenonT(60)
<1> QED
  BY <1>2 DEF C

(* A sum is its chosen element and the sum of the rest.                    *)
LEMMA SumChosen ==
  ASSUME NEW f, NEW S, IsFiniteSet(S)
  PROVE  /\ S = {} => SumFunctionOnSet(f, S) = 0
         /\ S # {} => /\ first(S) \in S
                      /\ SumFunctionOnSet(f, S)
                           = f[first(S)] + SumFunctionOnSet(f, S \ {first(S)})
<1> DEFINE fold(U) == CHOOSE g : IsFold(g, f, U)
           rest    == S \ {first(S)}
<1>1. IsFiniteSet(rest)
  BY FS_Subset
<1>2. IsFold(fold(S), f, S) /\ IsFold(fold(rest), f, rest)
  BY <1>1, FoldExists
<1>3. SumFunctionOnSet(f, S) = fold(S)[S] /\ SumFunctionOnSet(f, rest) = fold(rest)[rest]
  BY SumIsFold
<1> HIDE DEF fold
<1>4. fold(S)[S] = IF S = {} THEN 0 ELSE f[first(S)] + fold(S)[rest]
  BY <1>2, FoldAt
<1>5. fold(S)[rest] = fold(rest)[rest]
  BY <1>2, FoldsAgree
<1> QED
  BY <1>3, <1>4, <1>5, First

(* A sum of integers is one.                                               *)
LEMMA SumType ==
  ASSUME NEW S, IsFiniteSet(S), NEW f, \A x \in S : f[x] \in Int
  PROVE  SumFunctionOnSet(f, S) \in Int
<1> DEFINE C == {T \in SUBSET S : SumFunctionOnSet(f, T) \in Int}
<1>1. ASSUME NEW T \in SUBSET S, \A x \in T : T \ {x} \in C PROVE T \in C
  <2>1. IsFiniteSet(T)
    BY FS_Subset
  <2>2. CASE T = {}
    <3>1. SumFunctionOnSet(f, T) = 0
      BY <2>1, <2>2, SumChosen, Zenon
    <3> QED
      BY <3>1
  <2>3. CASE T # {}
    <3>1. first(T) \in T
      BY <2>1, <2>3, SumChosen
    <3>2. SumFunctionOnSet(f, T) = f[first(T)] + SumFunctionOnSet(f, T \ {first(T)})
      BY <2>1, <2>3, SumChosen
    <3>3. f[first(T)] \in Int /\ SumFunctionOnSet(f, T \ {first(T)}) \in Int
      BY <1>1, <3>1
    <3> QED
      BY <3>2, <3>3
  <2> QED
    BY <2>2, <2>3
<1> HIDE DEF C
<1>a. \A T \in SUBSET S : (\A x \in T : T \ {x} \in C) => T \in C
  BY <1>1
<1>b. \A T \in SUBSET S : T \in C
  BY <1>a, SetInduction, Zenon
<1>2. S \in C
  BY <1>b
<1> QED
  BY <1>2 DEF C

(* Any element may be taken out of a sum first.                            *)
LEMMA SumWithout ==
  ASSUME NEW S, IsFiniteSet(S), NEW f, \A x \in S : f[x] \in Int, NEW a \in S
  PROVE  SumFunctionOnSet(f, S) = f[a] + SumFunctionOnSet(f, S \ {a})
<1> DEFINE sum(T) == SumFunctionOnSet(f, T)
           C == {T \in SUBSET S : \A x \in T : sum(T) = f[x] + sum(T \ {x})}
<1>1. \A T \in SUBSET S : IsFiniteSet(T) /\ sum(T) \in Int
  BY FS_Subset, SumType
<1>2. ASSUME NEW T \in SUBSET S, \A x \in T : T \ {x} \in C PROVE T \in C
  <2>1. ASSUME NEW x \in T PROVE sum(T) = f[x] + sum(T \ {x})
    <3> DEFINE y == first(T)
    <3>1. y \in T /\ sum(T) = f[y] + sum(T \ {y})
      BY <1>1, SumChosen
    <3>2. CASE x = y
      BY <3>1, <3>2
    <3>3. CASE x # y
      <4> HIDE DEF y, sum
      <4>1. sum(T \ {y}) = f[x] + sum((T \ {y}) \ {x})
        BY <1>2, <3>1, <3>3
      <4>2. sum(T \ {x}) = f[y] + sum((T \ {x}) \ {y})
        BY <1>2, <3>1, <3>3
      <4>3. (T \ {y}) \ {x} = (T \ {x}) \ {y}
        OBVIOUS
      <4>4. f[x] \in Int /\ f[y] \in Int /\ sum((T \ {x}) \ {y}) \in Int
        BY <1>1, <3>1
      <4>5. sum(T) = f[y] + sum(T \ {y})
        BY <3>1
      <4> HIDE DEF C
      <4>6. \A p, q, r \in Int : q + (p + r) = p + (q + r)
        OBVIOUS
      <4>7. sum(T) = f[y] + (f[x] + sum((T \ {x}) \ {y}))
        BY <4>1, <4>3, <4>5, Zenon
      <4>8. f[y] + (f[x] + sum((T \ {x}) \ {y})) = f[x] + (f[y] + sum((T \ {x}) \ {y}))
        BY <4>4, <4>6, Zenon
      <4> QED
        BY <4>2, <4>7, <4>8, Zenon
    <3> QED
      BY <3>2, <3>3
  <2> QED
    BY <2>1
<1> HIDE DEF C, sum
<1>a. \A T \in SUBSET S : (\A x \in T : T \ {x} \in C) => T \in C
  BY <1>2
<1>b. \A T \in SUBSET S : T \in C
  BY <1>a, SetInduction, Zenon
<1>3. S \in C
  BY <1>b
<1> QED
  BY <1>3 DEF C, sum

(* Functions that agree on a set have the same sum over it.                *)
LEMMA SumAgree ==
  ASSUME NEW S, IsFiniteSet(S), NEW f, NEW g, \A x \in S : f[x] = g[x]
  PROVE  SumFunctionOnSet(f, S) = SumFunctionOnSet(g, S)
<1> DEFINE C == {T \in SUBSET S : SumFunctionOnSet(f, T) = SumFunctionOnSet(g, T)}
<1>1. ASSUME NEW T \in SUBSET S, \A x \in T : T \ {x} \in C PROVE T \in C
  <2>1. IsFiniteSet(T)
    BY FS_Subset
  <2>2. CASE T = {}
    <3>1. SumFunctionOnSet(f, T) = 0 /\ SumFunctionOnSet(g, T) = 0
      BY <2>1, <2>2, SumChosen, Zenon
    <3> QED
      BY <3>1
  <2>3. CASE T # {}
    <3>1. /\ first(T) \in T
          /\ SumFunctionOnSet(f, T) = f[first(T)] + SumFunctionOnSet(f, T \ {first(T)})
          /\ SumFunctionOnSet(g, T) = g[first(T)] + SumFunctionOnSet(g, T \ {first(T)})
      BY <2>1, <2>3, SumChosen, Zenon
    <3>2. SumFunctionOnSet(f, T \ {first(T)}) = SumFunctionOnSet(g, T \ {first(T)})
      BY <1>1, <3>1
    <3> QED
      BY <3>1, <3>2
  <2> QED
    BY <2>2, <2>3
<1> HIDE DEF C
<1>2. \A T \in SUBSET S : (\A x \in T : T \ {x} \in C) => T \in C
  BY <1>1
<1>3. \A T \in SUBSET S : T \in C
  BY <1>2, SetInduction, Zenon
<1> QED
  BY <1>3 DEF C

(* What the sums below are taken of: finite families of integers.          *)
IsFamily(f, S) == IsFiniteSet(S) /\ f \in [S -> Int]

(* A family with one more member.                                          *)
OneMore(g, f, S, a) ==
  IsFamily(f, S) /\ a \notin S /\ g \in [S \union {a} -> Int] /\ \A x \in S : g[x] = f[x]

LEMMA SumFamily ==
  ASSUME NEW S, NEW f, IsFamily(f, S)
  PROVE  /\ SumFunction(f) \in Int /\ SumFunction(f) = SumFunctionOnSet(f, S)
         /\ S = {} => SumFunction(f) = 0
<1> USE DEF IsFamily
<1>1. SumFunction(f) = SumFunctionOnSet(f, S)
  BY DEF SumFunction
<1>2. SumFunctionOnSet(f, S) \in Int
  BY SumType
<1>3. S = {} => SumFunctionOnSet(f, S) = 0
  BY SumChosen, Zenon
<1> QED
  BY <1>1, <1>2, <1>3

LEMMA SumAdded ==
  ASSUME NEW S, NEW a, NEW f, NEW g, OneMore(g, f, S, a)
  PROVE  SumFunction(g) = SumFunction(f) + g[a]
<1> USE DEF OneMore, IsFamily
<1> DEFINE T == S \union {a}
<1>1. IsFiniteSet(T) /\ a \in T /\ T \ {a} = S
  BY FS_AddElement
<1>2. SumFunctionOnSet(g, T) = g[a] + SumFunctionOnSet(g, T \ {a})
  BY <1>1, SumWithout
<1>3. SumFunctionOnSet(g, S) = SumFunctionOnSet(f, S)
  BY SumAgree
<1>4. SumFunction(f) = SumFunctionOnSet(f, S) /\ SumFunction(f) \in Int
  BY SumFamily
<1>5. SumFunction(g) = SumFunctionOnSet(g, T)
  BY <1>1, SumFamily
<1>6. SumFunction(g) = g[a] + SumFunction(f)
  BY <1>1, <1>2, <1>3, <1>4, <1>5, Zenon
<1>7. g[a] \in Int
  OBVIOUS
<1> QED
  BY <1>4, <1>6, <1>7

----------------------------------------------------------------------------
(* Where the walk is: what has been passed, what that leaves in each lot,  *)
(* and which charges it owes.                                              *)

Walking == pc \in {"walk", "sale", "done"}

Sales(s) == DOMAIN s \ Purchases(s)

Events == fundEvents(sorted, asOf)

SaleEvent(s, i)   == [date |-> s[i].date, kind |-> eventSell, index |-> i]
Anniversary(i, d) == [date |-> d, kind |-> eventDeemedDisposal, index |-> i]

Units(s, T) == SumFunction([j \in T |-> s[j].quantity])

UpTo(s, i)         == {k \in Purchases(s) : k <= i}
SalesBefore(s, d)  == {k \in Sales(s) : s[k].date < d}
SalesPassed(s, es) == {k \in Sales(s) : SaleEvent(s, k) \notin es}

(* What n units sold leave of lot i, first in, first out.                  *)
LeftOf(bought, quantity, n) == minimum(positive(bought - n), quantity)

Left(s, i, n) == LeftOf(Units(s, UpTo(s, i)), s[i].quantity, n)

(* The units sold so far: the sales passed, less what the last still wants. *)
Consumed == Units(sorted, SalesPassed(sorted, pending)) - wanted

----------------------------------------------------------------------------
(* The units of sets of transactions, and what sales leave of a lot.       *)

LEMMA Quantity ==
  ASSUME NEW s \in Seq(Transaction), NEW i \in DOMAIN s
  PROVE  s[i] \in Transaction /\ s[i].quantity \in Nat \ {0} /\ s[i].date \in Nat /\ i \in Nat
<1>1. i \in 1..Len(s) /\ Len(s) \in Nat
  OBVIOUS
<1>2. s[i] \in Transaction
  BY <1>1, ElementOfSeq
<1>3. s[i].quantity \in Quantities /\ s[i].date \in Dates
  BY <1>2 DEF Transaction
<1>4. s[i].quantity \in Nat \ {0} /\ s[i].date \in Nat
  BY <1>3, QuantityAssumption, DatesAssumption
<1>5. i \in Nat
  BY <1>1
<1> QED
  BY <1>2, <1>4, <1>5

LEMMA UnitsFamily ==
  ASSUME NEW s \in Seq(Transaction), NEW T \in SUBSET DOMAIN s
  PROVE  IsFamily([j \in T |-> s[j].quantity], T)
<1>1. IsFiniteSet(DOMAIN s)
  <2>1. DOMAIN s = 1..Len(s) /\ Len(s) \in Nat
    OBVIOUS
  <2> QED
    BY <2>1, FS_Interval
<1>2. IsFiniteSet(T)
  BY <1>1, FS_Subset
<1>3. \A j \in T : s[j].quantity \in Int
  BY Quantity
<1> QED
  BY <1>2, <1>3 DEF IsFamily

LEMMA UnitsOfNone ==
  ASSUME NEW s \in Seq(Transaction)
  PROVE  Units(s, {}) = 0
<1> DEFINE none == {}
           f    == [j \in none |-> s[j].quantity]
<1>1. none \in SUBSET DOMAIN s
  OBVIOUS
<1> HIDE DEF none
<1>2. IsFamily(f, none)
  BY <1>1, UnitsFamily
<1> HIDE DEF f
<1>3. SumFunction(f) = 0
  BY <1>2, SumFamily DEF none
<1> QED
  BY <1>3 DEF Units, f, none

(* One transaction more is its quantity more.                              *)
LEMMA UnitsAdded ==
  ASSUME NEW s \in Seq(Transaction), NEW T \in SUBSET DOMAIN s, NEW a \in DOMAIN s, a \notin T
  PROVE  Units(s, T) \in Int /\ Units(s, T \union {a}) = Units(s, T) + s[a].quantity
<1> DEFINE f == [j \in T |-> s[j].quantity]
           g == [j \in T \union {a} |-> s[j].quantity]
<1>1. IsFamily(f, T) /\ IsFamily(g, T \union {a})
  BY UnitsFamily
<1>2. g[a] = s[a].quantity /\ \A x \in T : g[x] = f[x]
  OBVIOUS
<1> HIDE DEF f, g
<1>3. OneMore(g, f, T, a)
  BY <1>1, <1>2 DEF OneMore, IsFamily
<1>4. SumFunction(g) = SumFunction(f) + g[a] /\ SumFunction(f) \in Int
  BY <1>1, <1>3, SumAdded, SumFamily
<1>5. Units(s, T) = SumFunction(f) /\ Units(s, T \union {a}) = SumFunction(g)
  BY DEF Units, f, g
<1> QED
  BY <1>2, <1>4, <1>5

(* More transactions are no fewer units.                                   *)
LEMMA UnitsMore ==
  ASSUME NEW s \in Seq(Transaction), NEW U \in SUBSET DOMAIN s, NEW T \in SUBSET U
  PROVE  Units(s, T) \in Nat /\ Units(s, U) \in Nat /\ Units(s, T) <= Units(s, U)
<1> DEFINE Grown(B, V) == /\ Units(s, B \union V) \in Int /\ Units(s, B) \in Int
                          /\ Units(s, B) <= Units(s, B \union V)
<1>1. ASSUME NEW B \in SUBSET U, NEW W \in SUBSET U, B \intersect W = {} PROVE Grown(B, W)
  <2> DEFINE C == {V \in SUBSET W : Grown(B, V)}
  <2>0. IsFiniteSet(W)
    <3>1. W \in SUBSET DOMAIN s
      OBVIOUS
    <3> QED
      BY <3>1, UnitsFamily DEF IsFamily
  <2>1. ASSUME NEW V \in SUBSET W, \A x \in V : V \ {x} \in C PROVE V \in C
    <3>0. Units(s, B) \in Int
      <4>1. B \in SUBSET DOMAIN s
        OBVIOUS
      <4> QED
        BY <4>1, UnitsFamily, SumFamily DEF Units
    <3>1. CASE V = {}
      <4>1. B \union V = B
        BY <3>1
      <4>2. Units(s, B \union V) = Units(s, B)
        BY <4>1
      <4>3. Grown(B, V)
        BY <3>0, <4>2
      <4> QED
        BY <4>3
    <3>2. CASE V # {}
      <4>1. PICK x \in V : TRUE
        BY <3>2
      <4> DEFINE R == B \union (V \ {x})
      <4>2. R \in SUBSET DOMAIN s /\ x \in DOMAIN s /\ x \notin R /\ B \union V = R \union {x}
        BY <1>1, <4>1
      <4>3. Units(s, R) \in Int /\ Units(s, R \union {x}) = Units(s, R) + s[x].quantity
        BY <4>2, UnitsAdded
      <4>4. Units(s, B) <= Units(s, R)
        BY <2>1, <4>1
      <4>5. s[x].quantity \in Nat
        BY <4>2, Quantity
      <4> HIDE DEF R
      <4>6. Units(s, B \union V) = Units(s, R) + s[x].quantity
        BY <4>2, <4>3
      <4>7. Units(s, B \union V) \in Int /\ Units(s, B) <= Units(s, B \union V)
        BY <3>0, <4>3, <4>4, <4>5, <4>6
      <4> QED
        BY <3>0, <4>7
    <3> QED
      BY <3>1, <3>2
  <2> HIDE DEF C
  <2>2. \A V \in SUBSET W : (\A x \in V : V \ {x} \in C) => V \in C
    BY <2>1
  <2>3. \A V \in SUBSET W : V \in C
    BY <2>0, <2>2, SetInduction, Zenon
  <2> QED
    BY <2>3 DEF C
<1>2. Units(s, {}) = 0
  BY UnitsOfNone
<1>3. Grown({}, T) /\ Grown(T, U \ T)
  <2>1. {} \in SUBSET U /\ {} \intersect T = {} /\ T \intersect (U \ T) = {} /\ U \ T \in SUBSET U
    OBVIOUS
  <2> HIDE DEF Grown
  <2> QED
    BY <1>1, <2>1
<1>4. {} \union T = T /\ T \union (U \ T) = U
  OBVIOUS
<1>5. Units(s, T) \in Int /\ 0 <= Units(s, T) /\ Units(s, U) \in Int /\ Units(s, T) <= Units(s, U)
  BY <1>2, <1>3, <1>4
<1> QED
  BY <1>5

(* A finite set of numbers has a largest.                                  *)
LEMMA Largest ==
  ASSUME NEW S, IsFiniteSet(S), S # {}, S \subseteq Int
  PROVE  \E m \in S : \A x \in S : x <= m
<1> DEFINE largest(T) == \E m \in T : \A x \in T : x <= m
           C == {T \in SUBSET S : T # {} => largest(T)}
<1>1. ASSUME NEW T \in SUBSET S, \A x \in T : T \ {x} \in C PROVE T \in C
  <2> SUFFICES ASSUME T # {} PROVE largest(T)
    OBVIOUS
  <2>1. PICK a \in T : TRUE
    OBVIOUS
  <2>2. CASE T \ {a} = {}
    <3>1. \A x \in T : x = a /\ a \in Int
      BY <2>1, <2>2
    <3> QED
      BY <2>1, <3>1
  <2>3. CASE T \ {a} # {}
    <3>1. PICK m \in T \ {a} : \A x \in T \ {a} : x <= m
      BY <1>1, <2>1, <2>3
    <3>2. \A x \in T : x \in Int /\ (x = a \/ x <= m)
      BY <3>1
    <3>3. a \in Int /\ m \in Int
      BY <2>1, <3>1
    <3>4. CASE m <= a
      BY <2>1, <3>2, <3>3, <3>4
    <3>5. CASE ~ (m <= a)
      BY <3>1, <3>2, <3>3, <3>5
    <3> QED
      BY <3>4, <3>5
  <2> QED
    BY <2>2, <2>3
<1> HIDE DEF C
<1>2. \A T \in SUBSET S : (\A x \in T : T \ {x} \in C) => T \in C
  BY <1>1
<1>3. \A T \in SUBSET S : T \in C
  BY <1>2, SetInduction, Zenon
<1> QED
  BY <1>3 DEF C

(* What is bought up to and with lot i.                                    *)
LEMMA BoughtUpTo ==
  ASSUME NEW s \in Seq(Transaction), NEW i \in Purchases(s)
  PROVE  /\ Units(s, UpTo(s, i)) \in Nat /\ s[i].quantity \in Nat \ {0}
         /\ s[i].quantity <= Units(s, UpTo(s, i))
<1>1. i \in DOMAIN s /\ i \in Nat /\ UpTo(s, i) \in SUBSET DOMAIN s /\ i \in UpTo(s, i)
  BY Quantity DEF Purchases, UpTo
<1>2. Units(s, {i}) <= Units(s, UpTo(s, i)) /\ Units(s, UpTo(s, i)) \in Nat
  BY <1>1, UnitsMore
<1>3. Units(s, {} \union {i}) = Units(s, {}) + s[i].quantity
  BY <1>1, UnitsAdded
<1>4. {} \union {i} = {i}
  OBVIOUS
<1>5. Units(s, {i}) = s[i].quantity
  BY <1>1, <1>3, <1>4, UnitsOfNone, Quantity
<1> QED
  BY <1>1, <1>2, <1>5, Quantity

LEMMA BoughtLater ==
  ASSUME NEW s \in Seq(Transaction), NEW i \in Purchases(s), NEW k \in Purchases(s), i < k
  PROVE  Units(s, UpTo(s, i)) + s[k].quantity <= Units(s, UpTo(s, k))
<1>1. i \in Nat /\ k \in Nat /\ k \in DOMAIN s /\ Purchases(s) \subseteq DOMAIN s
  BY Quantity DEF Purchases
<1>2. UpTo(s, i) \in SUBSET DOMAIN s /\ k \notin UpTo(s, i) /\ UpTo(s, k) \in SUBSET DOMAIN s
  BY <1>1 DEF UpTo
<1>3. UpTo(s, i) \union {k} \subseteq UpTo(s, k)
  <2>1. \A j \in UpTo(s, i) : j \in UpTo(s, k)
    <3>1. \A j \in Purchases(s) : j \in Nat
      BY <1>1, Quantity
    <3> QED
      BY <1>1, <3>1 DEF UpTo
  <2> QED
    BY <1>1, <2>1 DEF UpTo
<1>4. Units(s, UpTo(s, i) \union {k}) = Units(s, UpTo(s, i)) + s[k].quantity
  BY <1>1, <1>2, UnitsAdded
<1>5. Units(s, UpTo(s, i) \union {k}) <= Units(s, UpTo(s, k))
  BY <1>2, <1>3, UnitsMore
<1> QED
  BY <1>4, <1>5

(* Where no lot before i has units left, what came before i is all sold.   *)
LEMMA BoughtBefore ==
  ASSUME NEW s \in Seq(Transaction), NEW i \in Purchases(s), NEW n \in Nat,
         \A j \in Purchases(s) : j < i => Units(s, UpTo(s, j)) <= n
  PROVE  Units(s, UpTo(s, i)) <= n + s[i].quantity
<1> DEFINE B == {k \in Purchases(s) : k < i}
<1>1. \A j \in Purchases(s) : j \in Nat /\ j \in DOMAIN s
  BY Quantity DEF Purchases
<1>2. B \in SUBSET DOMAIN s /\ i \in DOMAIN s /\ i \notin B /\ B \subseteq Int
  BY <1>1
<1>3. UpTo(s, i) = B \union {i}
  BY <1>1 DEF UpTo
<1>4. Units(s, UpTo(s, i)) = Units(s, B) + s[i].quantity /\ Units(s, B) \in Int
  BY <1>2, <1>3, UnitsAdded
<1>5. Units(s, B) <= n
  <2>1. CASE B = {}
    <3>1. Units(s, B) = 0
      BY <2>1, UnitsOfNone
    <3> HIDE DEF B
    <3> QED
      BY <3>1
  <2>2. CASE B # {}
    <3>1. IsFiniteSet(B)
      BY <1>2, UnitsFamily DEF IsFamily
    <3>2. PICK m \in B : \A x \in B : x <= m
      BY <1>2, <2>2, <3>1, Largest
    <3>3. B = UpTo(s, m)
      <4>1. \A x \in UpTo(s, m) : x \in B
        BY <1>1, <3>2 DEF UpTo
      <4>2. \A x \in B : x \in UpTo(s, m)
        BY <3>2 DEF UpTo
      <4> QED
        BY <4>1, <4>2
    <3>4. Units(s, UpTo(s, m)) <= n
      BY <3>2
    <3> QED
      BY <3>3, <3>4
  <2> QED
    BY <2>1, <2>2
<1>6. s[i].quantity \in Nat
  BY <1>2, Quantity
<1> QED
  BY <1>4, <1>5, <1>6

(* What is left of a lot: nothing, part of it, or all of it.              *)
Bought(b, q, n) == b \in Nat /\ q \in Nat \ {0} /\ n \in Nat /\ q <= b

LEMMA LeftArithmetic ==
  ASSUME NEW b, NEW q, NEW n, Bought(b, q, n)
  PROVE  /\ LeftOf(b, q, n) \in Nat
         /\ (LeftOf(b, q, n) = 0) <=> (b <= n)
BY DEF Bought, LeftOf, minimum, positive

LEMMA LeftInPart ==
  ASSUME NEW b, NEW q, NEW n, Bought(b, q, n), b <= n + q, n <= b
  PROVE  LeftOf(b, q, n) = b - n
BY DEF Bought, LeftOf, minimum, positive

LEMMA LeftWhole ==
  ASSUME NEW b, NEW q, NEW n, Bought(b, q, n), n + q <= b
  PROVE  LeftOf(b, q, n) = q
BY DEF Bought, LeftOf, minimum, positive

(* A lot has nothing left when all that was bought with it is sold; what a *)
(* sale takes of the first lot with units left comes off that lot alone.   *)
LEMMA LeftBounds ==
  ASSUME NEW s \in Seq(Transaction), NEW i \in Purchases(s), NEW n \in Nat
  PROVE  /\ Left(s, i, n) \in Nat
         /\ (Left(s, i, n) = 0) <=> (Units(s, UpTo(s, i)) <= n)
         /\ Left(s, i, 0) = s[i].quantity
<1>1. /\ Units(s, UpTo(s, i)) \in Nat /\ s[i].quantity \in Nat \ {0}
      /\ s[i].quantity <= Units(s, UpTo(s, i))
  BY BoughtUpTo
<1> QED
  <2> DEFINE b == Units(s, UpTo(s, i))
             q == s[i].quantity
  <2>1. Bought(b, q, n) /\ Bought(b, q, 0) /\ 0 + q <= b
    BY <1>1 DEF Bought
  <2>2. Left(s, i, n) = LeftOf(b, q, n) /\ Left(s, i, 0) = LeftOf(b, q, 0)
    BY DEF Left
  <2> HIDE DEF b, q
  <2>3. LeftOf(b, q, n) \in Nat /\ ((LeftOf(b, q, n) = 0) <=> (b <= n))
    BY <2>1, LeftArithmetic
  <2>4. LeftOf(b, q, 0) = q
    BY <2>1, LeftWhole
  <2> QED
    BY <2>2, <2>3, <2>4 DEF b, q

LEMMA LeftAfterTake ==
  ASSUME NEW s \in Seq(Transaction), NEW i \in Purchases(s), NEW n \in Nat,
         \A j \in Purchases(s) : j < i => Left(s, j, n) = 0,
         NEW t \in Nat, t <= Left(s, i, n), Left(s, i, n) # 0,
         NEW j \in Purchases(s)
  PROVE  Left(s, j, n + t) = IF j = i THEN Left(s, i, n) - t ELSE Left(s, j, n)
<1> DEFINE b(k) == Units(s, UpTo(s, k))
           q(k) == s[k].quantity
<1>1. \A k \in Purchases(s) : b(k) \in Nat /\ q(k) \in Nat \ {0} /\ q(k) <= b(k) /\ k \in Nat
  BY BoughtUpTo, Quantity DEF Purchases
<1>2. \A k \in Purchases(s) : k < i => b(k) <= n
  BY LeftBounds
<1>3. b(i) <= n + q(i)
  BY <1>2, BoughtBefore
<1>4. ~ (b(i) <= n)
  BY LeftBounds
<1>5. \A k \in Purchases(s) : Left(s, k, n) = LeftOf(b(k), q(k), n)
                           /\ Left(s, k, n + t) = LeftOf(b(k), q(k), n + t)
  BY DEF Left
<1>6. i < j => b(i) + q(j) <= b(j)
  BY BoughtLater
<1> HIDE DEF b, q
<1>7. n + t \in Nat
  OBVIOUS
<1>8. \A k \in Purchases(s) : Bought(b(k), q(k), n) /\ Bought(b(k), q(k), n + t)
  BY <1>1, <1>7 DEF Bought
<1>9. Left(s, i, n) = b(i) - n
  <2>1. n <= b(i)
    BY <1>1, <1>4
  <2>2. LeftOf(b(i), q(i), n) = b(i) - n
    BY <1>3, <1>8, <2>1, LeftInPart
  <2> QED
    BY <1>5, <2>2
<1>10. b(i) <= (n + t) + q(i) /\ n + t <= b(i)
  BY <1>1, <1>3, <1>9
<1>11. CASE j = i
  <2>1. LeftOf(b(i), q(i), n + t) = b(i) - (n + t)
    BY <1>8, <1>10, LeftInPart
  <2> QED
    BY <1>1, <1>5, <1>9, <1>11, <2>1
<1>12. CASE j < i
  <2>1. b(j) <= n /\ b(j) <= n + t
    BY <1>1, <1>2, <1>12
  <2>2. LeftOf(b(j), q(j), n) = 0 /\ LeftOf(b(j), q(j), n + t) = 0
    BY <1>8, <2>1, LeftArithmetic
  <2> QED
    BY <1>1, <1>5, <1>12, <2>2
<1>13. CASE i < j
  <2>1. n + q(j) <= b(j) /\ (n + t) + q(j) <= b(j)
    BY <1>1, <1>6, <1>10, <1>13
  <2>2. LeftOf(b(j), q(j), n) = q(j) /\ LeftOf(b(j), q(j), n + t) = q(j)
    BY <1>8, <2>1, LeftWhole
  <2> QED
    BY <1>1, <1>5, <1>13, <2>2
<1> QED
  BY <1>1, <1>11, <1>12, <1>13

----------------------------------------------------------------------------
(* The invariant of the walk.                                              *)

NotBegun == pc \in {"convert", "build"} => deemed = << >> /\ wanted = 0

LotsOpened ==
  Walking =>
    /\ DOMAIN lots = Purchases(sorted)
    /\ \A i \in DOMAIN lots :
         /\ lots[i].quantity = sorted[i].quantity
         /\ lots[i].costBasis = sorted[i].quantity * sorted[i].price

(* What has been passed comes before what is still to come.                *)
WalkedInOrder ==
  Walking =>
    /\ pending \subseteq Events
    /\ \A e \in Events \ pending : \A f \in pending : Precedes(e, f)
    /\ pc = "done" => pending = {}

FirstOut ==
  Walking =>
    /\ Consumed \in Nat
    /\ pc # "sale" => wanted = 0
    /\ \A i \in DOMAIN lots : lots[i].remaining = Left(sorted, i, Consumed)

(* A charge of an anniversary that was passed, on the units held then.     *)
RightCharge(c) ==
  /\ Anniversary(c.lot, c.date) \in Events \ pending
  /\ c.quantity = UnitsHeld(c.lot, c.date) /\ c.quantity # 0
  /\ c.gain = c.quantity * (anniversaryValueEUR(c.date) - sorted[c.lot].price)

ChargesRight == Walking => \A k \in DOMAIN deemed : RightCharge(deemed[k])

ChargedOnce ==
  Walking =>
    \A k, l \in DOMAIN deemed :
      deemed[k].lot = deemed[l].lot /\ deemed[k].date = deemed[l].date => k = l

(* Whether an anniversary that was passed left what it should.             *)
Settled(e) ==
  e.kind = eventDeemedDisposal /\ UnitsHeld(e.index, e.date) # 0 =>
    /\ OnRecord(e.date)
    /\ \E k \in DOMAIN deemed : deemed[k].lot = e.index /\ deemed[k].date = e.date

AllSettled == Walking => \A e \in Events \ pending : Settled(e)

GapFound ==
  /\ reason # "none" => pc = "error"
  /\ reason = "valuation" =>
       \E a \in Anniversaries : UnitsHeld(a[1], a[2]) # 0 /\ ~ OnRecord(a[2])

WInv ==
  /\ NotBegun /\ LotsOpened /\ WalkedInOrder /\ FirstOut
  /\ ChargesRight /\ ChargedOnce /\ AllSettled /\ GapFound

----------------------------------------------------------------------------
(* The events of a call.                                                   *)

(* A whole number of cycles c after a, and not after asof: as the code     *)
(* counts them, and as the calendar has them.                              *)
Counted(a, d, asof, c)  == \E k \in 1..((asof - a) \div c) : d = a + k * c
OnCalendar(a, d, asof, c) == d \in 0..asof /\ d > a /\ (d - a) % c = 0

LEMMA CycleArithmetic ==
  ASSUME NEW a \in Nat, NEW d \in Nat, NEW asof \in Nat, NEW c \in Nat \ {0}
  PROVE  Counted(a, d, asof, c) <=> OnCalendar(a, d, asof, c)
<1> DEFINE n == (asof - a) \div c
<1>1. n \in Int /\ c * n <= asof - a /\ asof - a < c * (n + 1)
  OBVIOUS
<1>2. ASSUME NEW k \in 1..n, d = a + k * c
      PROVE  d \in 0..asof /\ d > a /\ (d - a) % c = 0
  <2>1. k \in Nat /\ 1 <= k /\ k <= n
    BY <1>1, <1>2
  <2> HIDE DEF n
  <2>2. k * c <= n * c /\ 1 * c <= k * c /\ n * c = c * n
    BY <1>1, <2>1
  <2>3. d <= asof /\ d > a
    BY <1>1, <1>2, <2>1, <2>2
  <2>4. (k * c) % c = 0
    BY <2>1
  <2>5. d - a = k * c
    BY <1>2, <2>1
  <2> QED
    BY <2>3, <2>4, <2>5
<1>3. ASSUME d \in 0..asof, d > a, (d - a) % c = 0
      PROVE  \E k \in 1..n : d = a + k * c
  <2> DEFINE k == (d - a) \div c
  <2>1. k \in Int /\ d - a = c * k
    BY <1>3
  <2> HIDE DEF k, n
  <2>2. k >= 1
    <3>1. ASSUME k <= 0 PROVE FALSE
      <4>1. c * k <= 0
        BY <2>1, <3>1
      <4> QED
        BY <1>3, <2>1, <4>1
    <3> QED
      BY <2>1, <3>1
  <2>3. k <= n
    <3>1. ASSUME n + 1 <= k PROVE FALSE
      <4>1. c * (n + 1) <= c * k
        BY <1>1, <2>1, <3>1
      <4>2. c * k <= asof - a
        BY <1>3, <2>1
      <4>3. c * (n + 1) \in Int /\ c * k \in Int
        BY <1>1, <2>1
      <4> QED
        BY <1>1, <4>1, <4>2, <4>3
    <3> QED
      BY <1>1, <2>1, <3>1
  <2>4. d = a + k * c /\ k \in 1..n
    BY <1>1, <2>1, <2>2, <2>3
  <2> QED
    BY <2>4
<1> QED
  BY <1>2, <1>3 DEF Counted, OnCalendar

(* The anniversaries of the specification are those the code generates.    *)
LEMMA AnniversaryDates ==
  ASSUME NEW a \in Nat, NEW d \in Nat, NEW asof \in Nat
  PROVE  d \in deemedDisposalAnniversaries(a, asof)
           <=> (d \in 0..asof /\ d > a /\ (d - a) % CycleLength = 0)
<1>1. d \in deemedDisposalAnniversaries(a, asof) <=> Counted(a, d, asof, CycleLength)
  BY DEF deemedDisposalAnniversaries, Counted
<1>2. Counted(a, d, asof, CycleLength) <=> OnCalendar(a, d, asof, CycleLength)
  BY CycleArithmetic, CycleAssumption
<1> QED
  BY <1>1, <1>2 DEF OnCalendar

(* What the events of a call are.                                          *)
LEMMA EventForms ==
  ASSUME NEW s \in Seq(Transaction), NEW asof \in AsOfs
  PROVE  /\ \A k \in Sales(s) : SaleEvent(s, k) \in fundEvents(s, asof)
         /\ \A i \in Purchases(s) : \A d \in deemedDisposalAnniversaries(s[i].date, asof) :
              Anniversary(i, d) \in fundEvents(s, asof)
         /\ \A e \in fundEvents(s, asof) :
              /\ e.kind = eventSell => e.index \in Sales(s) /\ e = SaleEvent(s, e.index)
              /\ e.kind = eventDeemedDisposal =>
                   /\ e.index \in Purchases(s) /\ e = Anniversary(e.index, e.date)
                   /\ e.date \in deemedDisposalAnniversaries(s[e.index].date, asof)
<1>1. \A k \in Sales(s) : SaleEvent(s, k) \in fundEvents(s, asof)
  BY DEF fundEvents, SaleEvent, Sales
<1>2. \A i \in Purchases(s) : \A d \in deemedDisposalAnniversaries(s[i].date, asof) :
        Anniversary(i, d) \in fundEvents(s, asof)
  <2>1. ASSUME NEW i \in Purchases(s), NEW d \in deemedDisposalAnniversaries(s[i].date, asof)
        PROVE  Anniversary(i, d) \in fundEvents(s, asof)
    <3> DEFINE own(j) == {[date |-> x, kind |-> eventDeemedDisposal, index |-> j] :
                            x \in deemedDisposalAnniversaries(s[j].date, asof)}
    <3>1. Anniversary(i, d) \in own(i)
      BY DEF Anniversary
    <3>2. own(i) \subseteq UNION {own(j) : j \in Purchases(s)}
      OBVIOUS
    <3>3. UNION {own(j) : j \in Purchases(s)} \subseteq fundEvents(s, asof)
      BY DEF fundEvents
    <3> HIDE DEF own
    <3> QED
      BY <3>1, <3>2, <3>3
  <2> QED
    BY <2>1
<1>3. ASSUME NEW e \in fundEvents(s, asof)
      PROVE  /\ e.kind = eventSell => e.index \in Sales(s) /\ e = SaleEvent(s, e.index)
             /\ e.kind = eventDeemedDisposal =>
                  /\ e.index \in Purchases(s) /\ e = Anniversary(e.index, e.date)
                  /\ e.date \in deemedDisposalAnniversaries(s[e.index].date, asof)
  <2>1. CASE \E i \in Purchases(s) : e = [date |-> s[i].date, kind |-> eventBuy, index |-> i]
    BY <2>1 DEF eventBuy, eventSell, eventDeemedDisposal
  <2>2. CASE \E i \in Sales(s) : e = SaleEvent(s, i)
    BY <2>2 DEF SaleEvent, eventSell, eventDeemedDisposal
  <2>3. CASE \E i \in Purchases(s) : \E d \in deemedDisposalAnniversaries(s[i].date, asof) :
               e = Anniversary(i, d)
    BY <2>3 DEF Anniversary, eventSell, eventDeemedDisposal
  <2> QED
    BY <2>1, <2>2, <2>3 DEF fundEvents, Sales, SaleEvent, Anniversary
<1> QED
  BY <1>1, <1>2, <1>3

LEMMA PrecedesOneWay ==
  ASSUME NEW e \in Event, NEW f \in Event, Precedes(e, f)
  PROVE  ~ Precedes(f, e) /\ e # f
BY DEF Precedes, Event

(* What sales before the anniversary leave is what the lot was bought with *)
(* and those before it, less those sales.                                  *)
LEMMA HeldIsLeft ==
  ASSUME NEW i, NEW d
  PROVE  UnitsHeld(i, d) = Left(sorted, i, Units(sorted, SalesBefore(sorted, d)))
BY DEF UnitsHeld, Left, LeftOf, Units, UpTo, SalesBefore, Sales

(* The walk finds in a lot what its anniversary should find.               *)
LEMMA HeldAtAnniversary ==
  ASSUME IInv, WInv, NEW e \in pending, AtAnniversary(e)
  PROVE  lots[e.index].remaining = UnitsHeld(e.index, e.date)
<1>1. /\ pc = "walk" /\ Walking /\ e.kind = eventDeemedDisposal
      /\ \A f \in pending : f = e \/ Precedes(e, f)
  BY DEF AtAnniversary, Reached, Walking
<1>2. sorted \in Seq(Transaction) /\ asOf \in AsOfs /\ pending \subseteq Event
  BY DEF IInv, TypeOK
<1>3. e \in Event /\ e.date \in Nat /\ e.index \in DOMAIN lots
  BY <1>1, <1>2 DEF IInv, EventsPlaced, Event, eventDeemedDisposal, eventSell
<1>4. SalesPassed(sorted, pending) = SalesBefore(sorted, e.date)
  <2>1. ASSUME NEW k \in Sales(sorted)
        PROVE  SaleEvent(sorted, k) \notin pending <=> sorted[k].date < e.date
    <3> DEFINE f == SaleEvent(sorted, k)
    <3>1. f \in Events
      BY <1>2, EventForms DEF Events
    <3>2. /\ f.date = sorted[k].date /\ f.kind = eventSell /\ f.date \in Nat
          /\ f.index = k
      <4>1. sorted[k].date \in Nat
        BY <1>2, Quantity DEF Sales
      <4> QED
        BY <4>1 DEF SaleEvent
    <3> HIDE DEF f
    <3>3. ASSUME f \notin pending PROVE f.date < e.date
      <4>1. Precedes(f, e)
        BY <1>1, <3>1, <3>3 DEF WInv, WalkedInOrder
      <4> QED
        BY <1>1, <1>3, <3>2, <4>1 DEF Precedes, eventSell, eventDeemedDisposal
    <3>4. ASSUME f \in pending, f.date < e.date PROVE FALSE
      <4>1. f # e
        BY <1>1, <3>2 DEF eventSell, eventDeemedDisposal
      <4>2. Precedes(e, f)
        BY <1>1, <3>4, <4>1
      <4> QED
        BY <1>3, <3>2, <3>4, <4>2 DEF Precedes
    <3> QED
      BY <3>2, <3>3, <3>4 DEF f
  <2> QED
    BY <2>1 DEF SalesPassed, SalesBefore
<1>5. wanted = 0
  BY <1>1 DEF WInv, FirstOut
<1>6. Consumed = Units(sorted, SalesBefore(sorted, e.date))
  <2>1. SalesBefore(sorted, e.date) \in SUBSET DOMAIN sorted
    BY DEF SalesBefore, Sales
  <2>2. Units(sorted, SalesBefore(sorted, e.date)) \in Nat
    BY <1>2, <2>1, UnitsMore
  <2> QED
    BY <1>4, <1>5, <2>2 DEF Consumed
<1> QED
  BY <1>1, <1>3, <1>6, HeldIsLeft DEF WInv, FirstOut

----------------------------------------------------------------------------
(* What each step does to the invariant of the walk.                       *)

(* Once the transactions are sorted, what is asked of them does not change. *)
LEMMA Frame ==
  ASSUME UNCHANGED <<sorted, values, asOf>>
  PROVE  /\ Events' = Events
         /\ \A i, d : UnitsHeld(i, d)' = UnitsHeld(i, d)
         /\ \A d : OnRecord(d)' <=> OnRecord(d)
         /\ \A d : anniversaryValueEUR(d)' = anniversaryValueEUR(d)
         /\ Anniversaries' = Anniversaries
<1>1. Events' = Events
  BY DEF Events
<1>2. ASSUME NEW i, NEW d PROVE UnitsHeld(i, d)' = UnitsHeld(i, d)
  <2>1. UnitsHeld(i, d)' = Left(sorted', i, Units(sorted', SalesBefore(sorted', d)))
    BY DEF UnitsHeld, Left, LeftOf, Units, UpTo, SalesBefore, Sales
  <2> QED
    BY <2>1, HeldIsLeft
<1>3. \A d : OnRecord(d)' <=> OnRecord(d)
  BY DEF OnRecord
<1>4. \A d : anniversaryValueEUR(d)' = anniversaryValueEUR(d)
  BY DEF anniversaryValueEUR
<1>5. Anniversaries' = Anniversaries
  BY DEF Anniversaries
<1> QED
  BY <1>1, <1>2, <1>3, <1>4, <1>5

LEMMA StaysRight ==
  ASSUME UNCHANGED <<sorted, values, asOf>>, pending' \subseteq pending,
         NEW c, RightCharge(c)
  PROVE  RightCharge(c)'
<1>1. /\ Events' = Events
      /\ UnitsHeld(c.lot, c.date)' = UnitsHeld(c.lot, c.date)
      /\ anniversaryValueEUR(c.date)' = anniversaryValueEUR(c.date)
  BY Frame
<1> QED
  BY <1>1 DEF RightCharge

LEMMA StaysSettled ==
  ASSUME UNCHANGED <<sorted, values, asOf>>,
         \A k \in DOMAIN deemed : k \in DOMAIN deemed' /\ deemed'[k] = deemed[k],
         NEW e, Settled(e)
  PROVE  Settled(e)'
<1>1. /\ UnitsHeld(e.index, e.date)' = UnitsHeld(e.index, e.date)
      /\ OnRecord(e.date)' <=> OnRecord(e.date)
  BY Frame
<1> QED
  BY <1>1 DEF Settled

(* A step that charges nothing and passes no anniversary.                  *)
LEMMA NothingCharged ==
  ASSUME WInv, Walking, UNCHANGED <<sorted, values, asOf, deemed>>,
         pending' \subseteq pending,
         \A e \in pending \ pending' : Settled(e)
  PROVE  ChargesRight' /\ ChargedOnce' /\ AllSettled'
<1>1. ChargesRight'
  BY StaysRight DEF WInv, ChargesRight
<1>2. ChargedOnce'
  BY DEF WInv, ChargedOnce
<1>3. AllSettled'
  <2>1. ASSUME NEW e \in Events' \ pending' PROVE Settled(e)'
    <3>1. e \in Events
      BY <2>1, Frame
    <3>2. Settled(e)
      BY <2>1, <3>1 DEF WInv, AllSettled
    <3> QED
      BY <3>2, StaysSettled
  <2> QED
    BY <2>1 DEF AllSettled
<1> QED
  BY <1>1, <1>2, <1>3

(* The walk goes on past an event it has reached.                          *)
LEMMA OrderKept ==
  ASSUME WInv, NEW e \in pending, Reached(e), pending' = pending \ {e},
         UNCHANGED <<sorted, values, asOf>>, pc' # "done"
  PROVE  WalkedInOrder'
<1>1. Walking /\ Events' = Events
  BY Frame DEF Reached, Walking
<1>2. pending' \subseteq Events'
  BY <1>1 DEF WInv, WalkedInOrder
<1>3. ASSUME NEW g \in Events' \ pending', NEW f \in pending' PROVE Precedes(g, f)
  <2>1. CASE g = e
    BY <1>3, <2>1 DEF Reached
  <2>2. CASE g # e
    BY <1>1, <1>3, <2>2 DEF WInv, WalkedInOrder
  <2> QED
    BY <2>1, <2>2
<1> QED
  BY <1>2, <1>3 DEF WalkedInOrder

(* Passing what is not a sale sells nothing.                               *)
LEMMA NothingSold ==
  ASSUME NEW e \in pending, e.kind # eventSell, pending' = pending \ {e},
         UNCHANGED <<sorted, wanted>>
  PROVE  Consumed' = Consumed
<1>1. ASSUME NEW k \in Sales(sorted)
      PROVE  SaleEvent(sorted, k) \notin pending' <=> SaleEvent(sorted, k) \notin pending
  <2>1. SaleEvent(sorted, k).kind = eventSell
    BY DEF SaleEvent
  <2>2. SaleEvent(sorted, k) # e
    BY <2>1
  <2> QED
    BY <2>2
<1>2. SalesPassed(sorted, pending') = SalesPassed(sorted, pending)
  BY <1>1 DEF SalesPassed
<1> QED
  BY <1>2 DEF Consumed

LEMMA PassWalk ==
  ASSUME IInv, WInv, NEW e \in pending, PassBuy(e) \/ PassSoldLot(e)
  PROVE  WInv'
<1>1. /\ pc = "walk" /\ Walking /\ Reached(e) /\ e.kind # eventSell
      /\ pending' = pending \ {e}
      /\ UNCHANGED <<values, asOf, pc, sorted, lots, wanted, deemed, reason>>
  BY DEF PassBuy, PassSoldLot, AtAnniversary, Reached, Walking, inputs, saleVars, results,
     eventBuy, eventSell, eventDeemedDisposal
<1>2. Settled(e)
  <2>1. CASE PassBuy(e)
    BY <2>1 DEF PassBuy, Settled, eventBuy, eventDeemedDisposal
  <2>2. CASE PassSoldLot(e)
    BY <2>2, HeldAtAnniversary DEF PassSoldLot, Settled
  <2> QED
    BY <2>1, <2>2
<1>3. ChargesRight' /\ ChargedOnce' /\ AllSettled'
  BY <1>1, <1>2, NothingCharged
<1>4. WalkedInOrder'
  BY <1>1, OrderKept
<1>5. Consumed' = Consumed
  BY <1>1, NothingSold
<1>6. FirstOut'
  BY <1>1, <1>5 DEF WInv, FirstOut, Walking
<1>7. NotBegun' /\ LotsOpened'
  BY <1>1 DEF WInv, NotBegun, LotsOpened, Walking
<1>8. GapFound'
  BY <1>1, Frame DEF WInv, GapFound
<1> QED
  BY <1>3, <1>4, <1>6, <1>7, <1>8 DEF WInv

LEMMA ChargeWalk ==
  ASSUME IInv, WInv, NEW e \in pending, chargeDeemedDisposal(e)
  PROVE  WInv'
<1> DEFINE lot      == lots[e.index]
           quantity == lot.remaining
           value    == anniversaryValueEUR(e.date)
           gain     == quantity * value - quantity * unitCost(lot)
           tax      == positive(gain) * ExitRate[e.date]
           used     == quantity * lot.deemedTaxPerUnit
           charge   == [lot |-> e.index, date |-> e.date, quantity |-> quantity, gain |-> gain,
                        tax |-> tax, credit |-> used, due |-> tax - used]
           next     == Len(deemed) + 1
<1>1. /\ pc = "walk" /\ Walking /\ Reached(e) /\ AtAnniversary(e)
      /\ e.kind = eventDeemedDisposal /\ quantity # 0 /\ HasValue(e.date)
      /\ pending' = pending \ {e}
      /\ lots' = [lots EXCEPT ![e.index].deemedTaxPerUnit = tax \div quantity]
      /\ deemed' = Append(deemed, charge)
      /\ UNCHANGED <<values, asOf, pc, sorted, wanted, reason>>
  BY DEF chargeDeemedDisposal, AtAnniversary, Reached, Walking, inputs, saleVars
<1>2. e.kind # eventSell /\ e.index \in DOMAIN lots /\ e \in Event
  BY <1>1 DEF IInv, TypeOK, EventsPlaced, eventSell, eventDeemedDisposal
<1>3. quantity = UnitsHeld(e.index, e.date)
  BY <1>1, HeldAtAnniversary
<1>4. /\ DOMAIN lots' = DOMAIN lots
      /\ \A i \in DOMAIN lots : /\ lots'[i].quantity = lots[i].quantity
                                /\ lots'[i].remaining = lots[i].remaining
                                /\ lots'[i].costBasis = lots[i].costBasis
  <2>1. DOMAIN lots' = DOMAIN lots
    BY <1>1
  <2>2. ASSUME NEW i \in DOMAIN lots
        PROVE  /\ lots'[i].quantity = lots[i].quantity /\ lots'[i].remaining = lots[i].remaining
               /\ lots'[i].costBasis = lots[i].costBasis
    <3>1. lots[i] \in FundLot
      BY DEF IInv, TypeOK
    <3>2. CASE i = e.index
      <4>1. lots'[i] = [lots[i] EXCEPT !.deemedTaxPerUnit = tax \div quantity]
        BY <1>1, <3>2
      <4> QED
        BY <3>1, <4>1 DEF FundLot
    <3>3. CASE i # e.index
      BY <1>1, <3>3
    <3> QED
      BY <3>2, <3>3
  <2> QED
    BY <2>1, <2>2
<1>5. /\ deemed \in Seq(ChargeableEvent)
      /\ DOMAIN deemed' = 1..next /\ DOMAIN deemed = 1..Len(deemed) /\ Len(deemed) \in Nat
      /\ deemed'[next] = charge
      /\ \A k \in DOMAIN deemed : deemed'[k] = deemed[k]
  <2>1. deemed \in Seq(ChargeableEvent)
    BY DEF IInv, TypeOK
  <2> HIDE DEF charge
  <2> QED
    BY <1>1, <2>1
<1>6. gain = quantity * (value - sorted[e.index].price)
  <2> DEFINE price == sorted[e.index].price
             q     == sorted[e.index].quantity
  <2>1. /\ lot.quantity = q /\ lot.costBasis = q * price /\ e.index \in Purchases(sorted)
    BY <1>1, <1>2 DEF WInv, LotsOpened
  <2>2. sorted[e.index] \in Transaction /\ q \in Nat \ {0}
    BY <2>1, Quantity DEF Purchases, IInv, TypeOK
  <2>3. price \in Nat
    BY <2>2 DEF Transaction
  <2>4. unitCost(lot) = price
    <3> HIDE DEF q, price, lot
    <3>1. (q * price) \div q = price
      BY <2>2, <2>3
    <3> QED
      BY <2>1, <2>2, <3>1 DEF unitCost
  <2>5. quantity \in Nat
    BY <1>2 DEF IInv, TypeOK, FundLot
  <2>6. value \in Nat
    <3>1. values \in Valuations /\ Day(e.date) \in DOMAIN values /\ e.date \in Dates
      BY <1>1 DEF IInv, TypeOK, HasValue, OnRecord, EventsPlaced
    <3>2. values[Day(e.date)] \in Valuation
      BY <3>1, ValuationAssumption
    <3>3. values[Day(e.date)].value \in Nat /\ EuroRate[e.date] \in Nat
      BY <3>1, <3>2, RateAssumption DEF Valuation
    <3> QED
      BY <3>3 DEF anniversaryValueEUR
  <2> HIDE DEF quantity, value, price, lot, q
  <2>7. quantity * value - quantity * price = quantity * (value - price)
    BY <2>3, <2>5, <2>6
  <2>8. gain = quantity * value - quantity * price
    BY <2>4 DEF lot
  <2> HIDE DEF gain
  <2> QED
    BY <2>7, <2>8 DEF price
<1>7. ASSUME NEW c, c = charge PROVE RightCharge(c)'
  <2>1. e \in Events /\ e = Anniversary(e.index, e.date)
    <3>1. e \in Events
      BY <1>1 DEF WInv, WalkedInOrder
    <3>2. sorted \in Seq(Transaction) /\ asOf \in AsOfs
      BY DEF IInv, TypeOK
    <3> QED
      BY <1>1, <3>1, <3>2, EventForms DEF Events
  <2>2. Anniversary(e.index, e.date) \in Events' \ pending'
    BY <1>1, <2>1, Frame
  <2>3. c.lot = e.index /\ c.date = e.date /\ c.quantity = quantity /\ c.gain = gain
    BY <1>7
  <2>4. UnitsHeld(c.lot, c.date)' = quantity /\ anniversaryValueEUR(c.date)' = value
    BY <1>1, <1>3, <2>3, Frame
  <2> HIDE DEF charge, quantity, gain, value
  <2> QED
    BY <1>1, <1>6, <2>2, <2>3, <2>4 DEF RightCharge
<1>8. charge.lot = e.index /\ charge.date = e.date
  OBVIOUS
<1> HIDE DEF charge, quantity, gain, tax, used, value, lot
<1>9. ChargesRight'
  <2>1. ASSUME NEW k \in DOMAIN deemed', NEW c, c = deemed'[k] PROVE RightCharge(c)'
    <3>1. CASE k = next
      BY <1>5, <1>7, <2>1, <3>1
    <3>2. CASE k \in DOMAIN deemed
      <4>1. RightCharge(c)
        BY <1>1, <1>5, <2>1, <3>2 DEF WInv, ChargesRight
      <4> QED
        BY <1>1, <4>1, StaysRight
    <3> QED
      BY <1>5, <3>1, <3>2
  <2> QED
    BY <2>1 DEF ChargesRight
<1>10. ASSUME NEW k \in DOMAIN deemed
       PROVE  ~ (deemed[k].lot = e.index /\ deemed[k].date = e.date)
  <2>1. Anniversary(deemed[k].lot, deemed[k].date) \notin pending
    BY <1>1 DEF WInv, ChargesRight, RightCharge
  <2>2. e = Anniversary(e.index, e.date)
    <3>1. e \in Events
      BY <1>1 DEF WInv, WalkedInOrder
    <3>2. sorted \in Seq(Transaction) /\ asOf \in AsOfs
      BY DEF IInv, TypeOK
    <3> QED
      BY <1>1, <3>1, <3>2, EventForms DEF Events
  <2> QED
    BY <2>1, <2>2
<1>11. ChargedOnce'
  <2>1. ASSUME NEW k \in DOMAIN deemed', NEW l \in DOMAIN deemed',
               deemed'[k].lot = deemed'[l].lot, deemed'[k].date = deemed'[l].date
        PROVE  k = l
    <3>1. k \in DOMAIN deemed \/ k = next
      BY <1>5
    <3>2. l \in DOMAIN deemed \/ l = next
      BY <1>5
    <3>3. CASE k = next /\ l = next
      BY <3>3
    <3>4. CASE k \in DOMAIN deemed /\ l \in DOMAIN deemed
      BY <1>1, <1>5, <2>1, <3>4 DEF WInv, ChargedOnce
    <3>5. CASE k \in DOMAIN deemed /\ l = next
      BY <1>5, <1>8, <1>10, <2>1, <3>5
    <3>6. CASE k = next /\ l \in DOMAIN deemed
      BY <1>5, <1>8, <1>10, <2>1, <3>6
    <3> QED
      BY <3>1, <3>2, <3>3, <3>4, <3>5, <3>6
  <2> QED
    BY <2>1 DEF ChargedOnce
<1>12. AllSettled'
  <2>1. ASSUME NEW g \in Events' \ pending' PROVE Settled(g)'
    <3>1. g \in Events
      BY <1>1, Frame
    <3>2. CASE g = e
      <4>1. next \in DOMAIN deemed' /\ deemed'[next].lot = g.index /\ deemed'[next].date = g.date
        BY <1>5, <1>8, <3>2
      <4>2. OnRecord(g.date)'
        BY <1>1, <3>2, Frame DEF HasValue
      <4> QED
        BY <4>1, <4>2 DEF Settled
    <3>3. CASE g # e
      <4>1. Settled(g)
        BY <1>1, <2>1, <3>1, <3>3 DEF WInv, AllSettled
      <4>2. \A k \in DOMAIN deemed : k \in DOMAIN deemed' /\ deemed'[k] = deemed[k]
        BY <1>5
      <4> QED
        BY <1>1, <4>1, <4>2, StaysSettled
    <3> QED
      BY <3>2, <3>3
  <2> QED
    BY <2>1 DEF AllSettled
<1>13. WalkedInOrder'
  BY <1>1, OrderKept
<1>14. Consumed' = Consumed
  BY <1>1, <1>2, NothingSold
<1>15. FirstOut'
  BY <1>1, <1>4, <1>14 DEF WInv, FirstOut, Walking
<1>16. NotBegun' /\ LotsOpened'
  BY <1>1, <1>4 DEF WInv, NotBegun, LotsOpened, Walking
<1>17. GapFound'
  BY <1>1, Frame DEF WInv, GapFound
<1> QED
  BY <1>9, <1>11, <1>12, <1>13, <1>15, <1>16, <1>17 DEF WInv

LEMMA BeginSaleWalk ==
  ASSUME IInv, WInv, NEW e \in pending, BeginSale(e)
  PROVE  WInv'
<1> DEFINE before == SalesPassed(sorted, pending)
           i      == e.index
<1>1. /\ pc = "walk" /\ pc' = "sale" /\ Walking /\ Reached(e) /\ e.kind = eventSell
      /\ pending' = pending \ {e} /\ wanted' = sorted[i].quantity
      /\ UNCHANGED <<values, asOf, sorted, lots, deemed, reason>>
  BY DEF BeginSale, Reached, Walking, inputs, results
<1>2. sorted \in Seq(Transaction) /\ asOf \in AsOfs
  BY DEF IInv, TypeOK
<1>3. e = SaleEvent(sorted, i) /\ i \in Sales(sorted)
  <2>1. e \in fundEvents(sorted, asOf)
    BY <1>1 DEF WInv, WalkedInOrder, Events
  <2> QED
    BY <1>1, <1>2, <2>1, EventForms
<1>4. SalesPassed(sorted, pending') = before \union {i}
  <2>1. ASSUME NEW k \in Sales(sorted)
        PROVE  SaleEvent(sorted, k) \notin pending'
                 <=> (SaleEvent(sorted, k) \notin pending \/ k = i)
    <3>1. SaleEvent(sorted, k) = e <=> k = i
      BY <1>3 DEF SaleEvent
    <3> QED
      BY <1>1, <3>1
  <2> QED
    BY <1>3, <2>1 DEF SalesPassed
<1>5. i \in DOMAIN sorted /\ i \notin before /\ before \in SUBSET DOMAIN sorted
  BY <1>3 DEF SalesPassed, Sales
<1>6. /\ Units(sorted, before) \in Int
      /\ Units(sorted, before \union {i}) = Units(sorted, before) + sorted[i].quantity
  BY <1>2, <1>5, UnitsAdded
<1>7. sorted[i].quantity \in Nat /\ wanted = 0
  BY <1>1, <1>2, <1>5, Quantity DEF WInv, FirstOut
<1>8. Consumed' = Consumed
  <2>1. Consumed' = Units(sorted, before \union {i}) - sorted[i].quantity
    BY <1>1, <1>4 DEF Consumed
  <2>2. Consumed = Units(sorted, before) - 0
    BY <1>7 DEF Consumed
  <2> HIDE DEF before, i
  <2> QED
    BY <1>6, <1>7, <2>1, <2>2
<1>9. ChargesRight' /\ ChargedOnce' /\ AllSettled'
  <2>1. Settled(e)
    BY <1>1 DEF Settled, eventSell, eventDeemedDisposal
  <2> QED
    BY <1>1, <2>1, NothingCharged
<1>10. WalkedInOrder'
  BY <1>1, OrderKept
<1>11. FirstOut'
  BY <1>1, <1>8 DEF WInv, FirstOut
<1>12. NotBegun' /\ LotsOpened'
  BY <1>1 DEF WInv, NotBegun, LotsOpened
<1>13. GapFound'
  BY <1>1 DEF WInv, GapFound
<1> QED
  BY <1>9, <1>10, <1>11, <1>12, <1>13 DEF WInv

LEMMA TakeWalk ==
  ASSUME IInv, WInv, NEW i \in DOMAIN lots, TakeFromLot(i)
  PROVE  WInv'
<1> DEFINE take == minimum(wanted, lots[i].remaining)
<1>1. /\ pc = "sale" /\ Walking /\ lots[i].remaining # 0
      /\ \A j \in DOMAIN lots : j < i => lots[j].remaining = 0
      /\ lots' = [lots EXCEPT ![i].remaining = @ - take] /\ wanted' = wanted - take
      /\ UNCHANGED <<values, asOf, pc, sorted, pending, deemed, reason>>
  BY DEF TakeFromLot, Walking, inputs
<1>2. lots[i] \in FundLot /\ wanted \in Nat /\ sorted \in Seq(Transaction)
  BY DEF IInv, TypeOK
<1>3. take \in Nat /\ take <= wanted /\ take <= lots[i].remaining /\ lots[i].remaining \in Nat
  BY <1>2 DEF minimum, FundLot
<1> HIDE DEF take
<1>4. /\ DOMAIN lots' = DOMAIN lots
      /\ \A j \in DOMAIN lots : j # i => lots'[j] = lots[j]
      /\ lots'[i].quantity = lots[i].quantity /\ lots'[i].costBasis = lots[i].costBasis
      /\ lots'[i].remaining = lots[i].remaining - take
  <2>1. lots'[i] = [lots[i] EXCEPT !.remaining = lots[i].remaining - take]
    BY <1>1
  <2>2. DOMAIN lots' = DOMAIN lots /\ \A j \in DOMAIN lots : j # i => lots'[j] = lots[j]
    BY <1>1
  <2> QED
    BY <1>2, <2>1, <2>2 DEF FundLot
<1>5. Consumed \in Nat /\ DOMAIN lots = Purchases(sorted)
      /\ \A j \in DOMAIN lots : lots[j].remaining = Left(sorted, j, Consumed)
  BY <1>1 DEF WInv, FirstOut, LotsOpened
<1>6. Consumed' = Consumed + take
  <2> DEFINE passed == SalesPassed(sorted, pending)
  <2>1. passed \in SUBSET DOMAIN sorted
    BY DEF SalesPassed, Sales
  <2>2. Units(sorted, passed) \in Nat
    BY <1>2, <2>1, UnitsMore
  <2>3. Consumed' = Units(sorted, passed) - (wanted - take) /\ Consumed = Units(sorted, passed) - wanted
    BY <1>1 DEF Consumed
  <2> HIDE DEF passed
  <2> QED
    BY <1>2, <1>3, <2>2, <2>3
<1>7. ASSUME NEW j \in DOMAIN lots
      PROVE  lots'[j].remaining = Left(sorted, j, Consumed + take)
  <2> DEFINE n == Consumed
  <2>1. n \in Nat /\ i \in Purchases(sorted) /\ j \in Purchases(sorted)
    BY <1>5
  <2>2. \A k \in Purchases(sorted) : k < i => Left(sorted, k, n) = 0
    BY <1>1, <1>5
  <2>3. take <= Left(sorted, i, n) /\ Left(sorted, i, n) # 0
    BY <1>1, <1>3, <1>5
  <2> HIDE DEF n
  <2>4. Left(sorted, j, n + take) = IF j = i THEN Left(sorted, i, n) - take ELSE Left(sorted, j, n)
    BY <1>2, <1>3, <2>1, <2>2, <2>3, LeftAfterTake
  <2> QED
    BY <1>4, <1>5, <2>4 DEF n
<1>8. FirstOut'
  <2>1. Consumed + take \in Nat
    BY <1>3, <1>5
  <2> QED
    BY <1>1, <1>4, <1>6, <1>7, <2>1 DEF FirstOut
<1>9. ChargesRight' /\ ChargedOnce' /\ AllSettled'
  BY <1>1, NothingCharged
<1>10. WalkedInOrder'
  BY <1>1, Frame DEF WInv, WalkedInOrder, Walking
<1>11. NotBegun' /\ LotsOpened'
  BY <1>1, <1>4 DEF WInv, NotBegun, LotsOpened
<1>12. GapFound'
  BY <1>1 DEF WInv, GapFound
<1> QED
  BY <1>8, <1>9, <1>10, <1>11, <1>12 DEF WInv

(* The end of a sale, and of the walk.                                     *)
LEMMA EndWalk ==
  ASSUME IInv, WInv, RecordDisposal \/ Return
  PROVE  WInv'
<1>1. /\ Walking /\ pc' \in {"walk", "done"} /\ wanted = 0
      /\ pc' = "done" => pending = {}
      /\ UNCHANGED <<values, asOf, sorted, lots, pending, wanted, deemed, reason>>
  <2>1. CASE RecordDisposal
    BY <2>1 DEF RecordDisposal, Walking, inputs, saleVars
  <2>2. CASE Return
    BY <2>2 DEF Return, Walking, inputs, saleVars, results, WInv, FirstOut
  <2> QED
    BY <2>1, <2>2
<1>2. ChargesRight' /\ ChargedOnce' /\ AllSettled'
  BY <1>1, NothingCharged
<1>3. WalkedInOrder'
  BY <1>1, Frame DEF WInv, WalkedInOrder
<1>4. FirstOut'
  <2>1. Consumed' = Consumed
    BY <1>1 DEF Consumed
  <2> QED
    BY <1>1, <2>1 DEF WInv, FirstOut
<1>5. NotBegun' /\ LotsOpened'
  BY <1>1 DEF WInv, NotBegun, LotsOpened
<1>6. GapFound'
  <2>1. reason = "none"
    BY <1>1 DEF WInv, GapFound, Walking
  <2> QED
    BY <1>1, <2>1 DEF GapFound
<1> QED
  BY <1>2, <1>3, <1>4, <1>5, <1>6 DEF WInv

(* A call that fails has passed no judgement on the anniversaries, unless  *)
(* it fails for a gap.                                                     *)
LEMMA FailWalk ==
  ASSUME NEW why, Fail(why), why # "valuation"
  PROVE  WInv'
<1>1. pc' = "error" /\ reason' = why
  BY DEF Fail
<1> QED
  BY <1>1 DEF WInv, Walking, NotBegun, LotsOpened, WalkedInOrder, FirstOut, ChargesRight,
     ChargedOnce, AllSettled, GapFound

LEMMA MissingWalk ==
  ASSUME IInv, WInv, NEW e \in pending, MissingValuation(e)
  PROVE  WInv'
<1>1. CASE OnRecord(e.date)
  <2>1. Fail("rate")
    BY <1>1 DEF MissingValuation
  <2> QED
    BY <2>1, FailWalk
<1>2. CASE ~ OnRecord(e.date)
  <2>1. /\ pc = "walk" /\ Walking /\ AtAnniversary(e) /\ e.kind = eventDeemedDisposal
        /\ lots[e.index].remaining # 0 /\ pc' = "error"
        /\ UNCHANGED <<sorted, values, asOf>>
    BY DEF MissingValuation, AtAnniversary, Reached, Fail, Walking, inputs
  <2>2. UnitsHeld(e.index, e.date) # 0
    BY <2>1, HeldAtAnniversary
  <2>3. sorted \in Seq(Transaction) /\ asOf \in AsOfs /\ asOf \in Nat /\ e \in Event
    BY AsOfAssumption, DatesAssumption DEF IInv, TypeOK
  <2>4. /\ e.index \in Purchases(sorted)
        /\ e.date \in deemedDisposalAnniversaries(sorted[e.index].date, asOf)
    <3>1. e \in fundEvents(sorted, asOf)
      BY <2>1 DEF WInv, WalkedInOrder, Events
    <3> QED
      BY <2>1, <2>3, <3>1, EventForms
  <2>5. sorted[e.index].date \in Nat /\ e.date \in Nat
    BY <2>3, <2>4, Quantity DEF Purchases, Event
  <2>6. <<e.index, e.date>> \in Anniversaries
    <3>1. /\ e.date \in 0..asOf /\ e.date > sorted[e.index].date
          /\ (e.date - sorted[e.index].date) % CycleLength = 0
      BY <2>3, <2>4, <2>5, AnniversaryDates
    <3> QED
      BY <2>4, <3>1 DEF Anniversaries
  <2>7. GapFound'
    <3>1. /\ Anniversaries' = Anniversaries /\ UnitsHeld(e.index, e.date)' = UnitsHeld(e.index, e.date)
          /\ OnRecord(e.date)' <=> OnRecord(e.date)
      BY <2>1, Frame
    <3> QED
      BY <1>2, <2>1, <2>2, <2>6, Frame DEF GapFound
  <2> QED
    BY <2>1, <2>7 DEF WInv, Walking, NotBegun, LotsOpened, WalkedInOrder, FirstOut,
       ChargesRight, ChargedOnce, AllSettled
<1> QED
  BY <1>1, <1>2

(* The lots are opened whole, every event is still to come.                *)
LEMMA BuildWalk ==
  ASSUME IInv, WInv, buildFundEvents
  PROVE  WInv'
<1>1. /\ pc = "build" /\ pc' = "walk"
      /\ lots' = [i \in Purchases(sorted') |-> NewFundLot(sorted'[i])]
      /\ pending' = fundEvents(sorted', asOf)
      /\ UNCHANGED <<values, asOf, wanted, deemed, reason>>
  BY DEF buildFundEvents, inputs, saleVars
<1>2. deemed = << >> /\ wanted = 0 /\ reason = "none"
  BY <1>1 DEF WInv, NotBegun, GapFound
<1>3. sorted' \in Seq(Transaction) /\ asOf \in AsOfs
  BY BuildStep DEF IInv, TypeOK
<1>4. Events' = pending'
  BY <1>1 DEF Events
<1>5. SalesPassed(sorted', pending') = {}
  BY <1>1, <1>3, EventForms DEF SalesPassed
<1>6. Consumed' = 0
  <2>1. Consumed' = Units(sorted', SalesPassed(sorted', pending')) - wanted'
    BY DEF Consumed
  <2>2. Units(sorted', {}) = 0
    BY <1>3, UnitsOfNone
  <2> QED
    BY <1>1, <1>2, <1>5, <2>1, <2>2
<1>7. /\ DOMAIN lots' = Purchases(sorted')
      /\ \A i \in DOMAIN lots' :
           /\ lots'[i].quantity = sorted'[i].quantity /\ lots'[i].remaining = sorted'[i].quantity
           /\ lots'[i].costBasis = sorted'[i].quantity * sorted'[i].price
  BY <1>1 DEF NewFundLot
<1>8. LotsOpened'
  BY <1>7 DEF LotsOpened
<1>9. WalkedInOrder'
  BY <1>1, <1>4 DEF WalkedInOrder
<1>10. FirstOut'
  <2>1. \A i \in DOMAIN lots' : lots'[i].remaining = Left(sorted', i, 0)
    BY <1>3, <1>7, LeftBounds
  <2> QED
    BY <1>1, <1>2, <1>6, <2>1 DEF FirstOut
<1>11. ChargesRight' /\ ChargedOnce'
  <2>1. DOMAIN deemed' = {}
    BY <1>1, <1>2
  <2> QED
    BY <2>1 DEF ChargesRight, ChargedOnce
<1>12. AllSettled'
  BY <1>4 DEF AllSettled
<1>13. NotBegun' /\ GapFound'
  BY <1>1, <1>2 DEF NotBegun, GapFound
<1> QED
  BY <1>8, <1>9, <1>10, <1>11, <1>12, <1>13 DEF WInv

LEMMA WalkStep ==
  ASSUME IInv, WInv, [Next]_vars
  PROVE  WInv'
<1>1. CASE ToEURPrices
  <2>1. pc = "convert" /\ pc' = "build" /\ UNCHANGED <<wanted, deemed, reason>>
    BY <1>1 DEF ToEURPrices, saleVars, results
  <2>2. deemed = << >> /\ wanted = 0 /\ reason = "none"
    BY <2>1 DEF WInv, NotBegun, GapFound
  <2> QED
    BY <2>1, <2>2 DEF WInv, Walking, NotBegun, LotsOpened, WalkedInOrder, FirstOut,
       ChargesRight, ChargedOnce, AllSettled, GapFound
<1>2. CASE RateUnavailable \/ UnsupportedType \/ Oversell
  <2>1. \E why \in {"rate", "type", "oversell"} : Fail(why)
    BY <1>2 DEF RateUnavailable, UnsupportedType, Oversell
  <2> QED
    BY <2>1, FailWalk
<1>3. CASE buildFundEvents
  BY <1>3, BuildWalk
<1>4. CASE \E e \in pending : PassBuy(e) \/ PassSoldLot(e)
  BY <1>4, PassWalk
<1>5. CASE \E e \in pending : chargeDeemedDisposal(e)
  BY <1>5, ChargeWalk
<1>6. CASE \E e \in pending : MissingValuation(e)
  BY <1>6, MissingWalk
<1>7. CASE \E e \in pending : BeginSale(e)
  BY <1>7, BeginSaleWalk
<1>8. CASE \E i \in DOMAIN lots : TakeFromLot(i)
  BY <1>8, TakeWalk
<1>9. CASE RecordDisposal \/ Return
  BY <1>9, EndWalk
<1>10. CASE UNCHANGED vars
  <2>1. UNCHANGED <<values, asOf, pc, sorted, lots, pending, wanted, deemed, reason>>
    BY <1>10 DEF vars, inputs, saleVars, results
  <2>2. Consumed' = Consumed
    BY <2>1 DEF Consumed
  <2>3. Walking' <=> Walking
    BY <2>1 DEF Walking
  <2>4. NotBegun' /\ LotsOpened' /\ FirstOut'
    BY <2>1, <2>2, <2>3 DEF WInv, NotBegun, LotsOpened, FirstOut
  <2>5. WalkedInOrder' /\ GapFound'
    BY <2>1, <2>3, Frame DEF WInv, WalkedInOrder, GapFound
  <2>6. ChargesRight' /\ ChargedOnce' /\ AllSettled'
    <3>1. CASE Walking
      BY <2>1, <3>1, NothingCharged
    <3>2. CASE ~ Walking
      BY <2>3, <3>2 DEF ChargesRight, ChargedOnce, AllSettled
    <3> QED
      BY <3>1, <3>2
  <2> QED
    BY <2>4, <2>5, <2>6 DEF WInv
<1> QED
  BY <1>1, <1>2, <1>3, <1>4, <1>5, <1>6, <1>7, <1>8, <1>9, <1>10 DEF Next

(* The walk is where the events passed have brought it.                    *)
THEOREM WalkInvariance == Spec => [](IInv /\ WInv)
<1>1. Init => WInv
  BY DEF Init, WInv, Walking, NotBegun, LotsOpened, WalkedInOrder, FirstOut, ChargesRight,
     ChargedOnce, AllSettled, GapFound
<1>2. (IInv /\ WInv) /\ [Next]_vars => (IInv /\ WInv)'
  BY Step, WalkStep
<1> QED
  BY Start, <1>1, <1>2, PTL DEF Spec

----------------------------------------------------------------------------

(* The anniversaries of the specification are the events of their kind.    *)
LEMMA AnniversaryEvents ==
  ASSUME IInv, NEW i, NEW d
  PROVE  <<i, d>> \in Anniversaries <=> (d \in Nat /\ Anniversary(i, d) \in Events)
<1>1. sorted \in Seq(Transaction) /\ asOf \in AsOfs /\ asOf \in Nat
  BY AsOfAssumption, DatesAssumption DEF IInv, TypeOK
<1>2. ASSUME <<i, d>> \in Anniversaries
      PROVE  d \in Nat /\ Anniversary(i, d) \in Events
  <2>1. /\ i \in Purchases(sorted) /\ d \in 0..asOf /\ d > sorted[i].date
        /\ (d - sorted[i].date) % CycleLength = 0
    BY <1>2 DEF Anniversaries
  <2>2. d \in Nat /\ sorted[i].date \in Nat
    BY <1>1, <2>1, Quantity DEF Purchases
  <2>3. d \in deemedDisposalAnniversaries(sorted[i].date, asOf)
    BY <1>1, <2>1, <2>2, AnniversaryDates
  <2> QED
    BY <1>1, <2>1, <2>2, <2>3, EventForms DEF Events
<1>3. ASSUME d \in Nat, Anniversary(i, d) \in Events
      PROVE  <<i, d>> \in Anniversaries
  <2> DEFINE e == Anniversary(i, d)
  <2>1. e.kind = eventDeemedDisposal /\ e.index = i /\ e.date = d
    BY DEF Anniversary
  <2> HIDE DEF e
  <2>2. e \in fundEvents(sorted, asOf)
    BY <1>3 DEF e, Events
  <2>3. i \in Purchases(sorted) /\ d \in deemedDisposalAnniversaries(sorted[i].date, asOf)
    BY <1>1, <2>1, <2>2, EventForms
  <2>4. sorted[i].date \in Nat
    BY <1>1, <2>3, Quantity DEF Purchases
  <2>5. d \in 0..asOf /\ d > sorted[i].date /\ (d - sorted[i].date) % CycleLength = 0
    BY <1>1, <1>3, <2>3, <2>4, AnniversaryDates
  <2> QED
    BY <2>3, <2>5 DEF Anniversaries
<1> QED
  BY <1>2, <1>3

(* What the walk charges by instants: once on every anniversary up to the  *)
(* date computed to that finds units in its lot, on the units held then.   *)
ChargedByInstant ==
  /\ \A a \in Anniversaries :
       LET charges == {k \in DOMAIN deemed : deemed[k].lot = a[1] /\ deemed[k].date = a[2]} IN
       IF UnitsHeld(a[1], a[2]) = 0 THEN charges = {}
       ELSE /\ Cardinality(charges) = 1
            /\ \A k \in charges :
                 /\ deemed[k].quantity = UnitsHeld(a[1], a[2])
                 /\ deemed[k].gain = deemed[k].quantity
                      * (anniversaryValueEUR(a[2]) - sorted[a[1]].price)
  /\ \A k \in DOMAIN deemed : <<deemed[k].lot, deemed[k].date>> \in Anniversaries

LEMMA InstantsCharged ==
  ASSUME IInv, WInv, pc = "done"
  PROVE  ChargedByInstant
<1>1. Walking /\ pending = {} /\ deemed \in Seq(ChargeableEvent)
  BY DEF WInv, WalkedInOrder, Walking, IInv, TypeOK
<1>2. \A k \in DOMAIN deemed : RightCharge(deemed[k])
  BY <1>1 DEF WInv, ChargesRight
<1>3. ASSUME NEW a \in Anniversaries
      PROVE  LET charges == {k \in DOMAIN deemed :
                               deemed[k].lot = a[1] /\ deemed[k].date = a[2]} IN
             IF UnitsHeld(a[1], a[2]) = 0 THEN charges = {}
             ELSE /\ Cardinality(charges) = 1
                  /\ \A k \in charges :
                       /\ deemed[k].quantity = UnitsHeld(a[1], a[2])
                       /\ deemed[k].gain = deemed[k].quantity
                            * (anniversaryValueEUR(a[2]) - sorted[a[1]].price)
  <2> DEFINE i       == a[1]
             d       == a[2]
             charges == {k \in DOMAIN deemed : deemed[k].lot = i /\ deemed[k].date = d}
  <2>1. \A k \in charges :
          /\ deemed[k].quantity = UnitsHeld(i, d) /\ deemed[k].quantity # 0
          /\ deemed[k].gain = deemed[k].quantity * (anniversaryValueEUR(d) - sorted[i].price)
    BY <1>2 DEF RightCharge
  <2>2. CASE UnitsHeld(i, d) = 0
    BY <2>1, <2>2
  <2>3. CASE UnitsHeld(i, d) # 0
    <3>1. Anniversary(i, d) \in Events
      <4>1. a = <<i, d>>
        BY DEF Anniversaries
      <4> QED
        BY <4>1, AnniversaryEvents
    <3>2. Settled(Anniversary(i, d))
      BY <1>1, <3>1 DEF WInv, AllSettled
    <3>3. PICK k \in DOMAIN deemed : deemed[k].lot = i /\ deemed[k].date = d
      BY <2>3, <3>2 DEF Settled, Anniversary
    <3>4. \A l \in charges : l = k
      BY <1>1, <3>3 DEF WInv, ChargedOnce
    <3>5. charges = {k}
      BY <3>3, <3>4
    <3>6. Cardinality(charges) = 1
      BY <3>5, FS_Singleton
    <3> QED
      BY <2>1, <2>3, <3>6
  <2> QED
    BY <2>2, <2>3
<1>4. ASSUME NEW k \in DOMAIN deemed
      PROVE  <<deemed[k].lot, deemed[k].date>> \in Anniversaries
  <2>1. Anniversary(deemed[k].lot, deemed[k].date) \in Events
    BY <1>2 DEF RightCharge
  <2>2. deemed[k] \in ChargeableEvent
    BY <1>1, ElementOfSeq
  <2>3. deemed[k].date \in Nat
    BY <2>2 DEF ChargeableEvent
  <2> QED
    BY <2>1, <2>3, AnniversaryEvents
<1> QED
  BY <1>3, <1>4 DEF ChargedByInstant

(* A missing value blocks the holding exactly when an anniversary with     *)
(* units still held needs it (chargeDeemedDisposal's lookup).              *)
THEOREM GapsBlock == Spec => []GapBlocks
<1>1. IInv /\ WInv => GapBlocks
  <2> SUFFICES ASSUME IInv, WInv PROVE GapBlocks
    OBVIOUS
  <2>1. ASSUME reason = "valuation"
        PROVE  \E a \in Anniversaries : UnitsHeld(a[1], a[2]) # 0 /\ ~ OnRecord(a[2])
    BY <2>1 DEF WInv, GapFound
  <2>2. ASSUME pc = "done", NEW a \in Anniversaries, UnitsHeld(a[1], a[2]) # 0
        PROVE  OnRecord(a[2])
    <3>1. Walking /\ pending = {}
      BY <2>2 DEF WInv, WalkedInOrder, Walking
    <3>2. a = <<a[1], a[2]>>
      BY <2>2 DEF Anniversaries
    <3>3. Anniversary(a[1], a[2]) \in Events
      BY <2>2, <3>2, AnniversaryEvents
    <3>4. Settled(Anniversary(a[1], a[2]))
      BY <3>1, <3>3 DEF WInv, AllSettled
    <3> QED
      BY <2>2, <3>4 DEF Settled, Anniversary
  <2> QED
    BY <2>1, <2>2 DEF GapBlocks
<1> QED
  BY <1>1, WalkInvariance, PTL


----------------------------------------------------------------------------
(* What holds of 0, and of each number up to n after the one before it.    *)
LEMMA CountUpTo ==
  ASSUME NEW n \in Nat, NEW C, 0 \in C, \A i \in 1..n : i - 1 \in C => i \in C
  PROVE  \A i \in 0..n : i \in C
<1> SUFFICES ASSUME NEW i \in 0..n, i \notin C PROVE FALSE
  OBVIOUS
<1> DEFINE S == {m \in 0..i : m \in C}
<1>1. IsFiniteSet(0..i)
  BY FS_Interval
<1>2. IsFiniteSet(S) /\ S # {} /\ S \subseteq Int
  BY <1>1, FS_Subset
<1> HIDE DEF S
<1>3. PICK m \in S : \A x \in S : x <= m
  BY <1>2, Largest
<1> USE DEF S
<1>4. m \in Nat /\ m <= i /\ m \in C /\ m # i
  BY <1>3
<1>5. m + 1 \in 1..n /\ (m + 1) - 1 = m
  BY <1>4
<1>6. m + 1 \in S
  BY <1>4, <1>5
<1> QED
  BY <1>3, <1>4, <1>6

----------------------------------------------------------------------------
(* A set in its order, and what a larger set has before its other members. *)

Enumerates(at, n, E, R) ==
  /\ n \in Nat /\ at \in [1..n -> E]
  /\ \A e \in E : \E k \in 1..n : at[k] = e
  /\ \A k, l \in 1..n : k < l => <<at[k], at[l]>> \in R

LEMMA SameOrder ==
  ASSUME NEW R, NEW A, NEW B, A \subseteq B,
         \A a, b \in B : <<a, b>> \in R => <<b, a>> \notin R,
         \A a \in A : \A b \in B \ A : <<a, b>> \in R,
         NEW at, NEW m, Enumerates(at, m, A, R), NEW bt, NEW n, Enumerates(bt, n, B, R)
  PROVE  /\ m <= n
         /\ \A k \in 1..m : at[k] = bt[k]
         /\ \A k \in 1..n : k > m => bt[k] \in B \ A
<1> USE DEF Enumerates
<1> DEFINE C == {k \in 0..m : k <= n /\ \A l \in 1..k : at[l] = bt[l]}
<1>1. ASSUME NEW k \in 1..m, k - 1 \in C PROVE k \in C
  <2>1. \A l \in 1..m : l < k => at[l] = bt[l]
    BY <1>1
  <2>2. at[k] \in A /\ at[k] \in B
    OBVIOUS
  <2>3. PICK j \in 1..n : bt[j] = at[k]
    BY <2>2
  <2>4. ~ (j < k)
    <3> SUFFICES ASSUME j < k PROVE FALSE
      OBVIOUS
    <3>1. j \in 1..m /\ at[j] = at[k]
      BY <2>1, <2>3
    <3>2. <<at[j], at[k]>> \in R
      BY <3>1
    <3> QED
      BY <2>2, <3>1, <3>2
  <2>5. ~ (k < j)
    <3> SUFFICES ASSUME k < j PROVE FALSE
      OBVIOUS
    <3>1. k \in 1..n /\ bt[k] \in B /\ <<bt[k], at[k]>> \in R
      BY <2>3
    <3>2. bt[k] \in A
      BY <2>2, <3>1
    <3>3. PICK l \in 1..m : at[l] = bt[k]
      BY <3>2
    <3>4. CASE l < k
      <4>1. bt[l] = bt[k] /\ l \in 1..n
        BY <2>1, <3>1, <3>3, <3>4
      <4>2. <<bt[k], bt[k]>> \in R
        BY <3>1, <3>4, <4>1
      <4> QED
        BY <3>1, <4>2
    <3>5. CASE l = k
      BY <2>2, <3>1, <3>3, <3>5
    <3>6. CASE k < l
      BY <2>2, <3>1, <3>3, <3>6
    <3> QED
      BY <3>4, <3>5, <3>6
  <2>6. j = k
    BY <2>4, <2>5
  <2> QED
    BY <2>1, <2>3, <2>6
<1>2. 0 \in C
  OBVIOUS
<1> HIDE DEF C
<1>3. m \in C
  <2>1. m \in Nat /\ m \in 0..m
    OBVIOUS
  <2> QED
    BY <1>1, <1>2, <2>1, CountUpTo
<1>4. m <= n /\ \A k \in 1..m : at[k] = bt[k]
  BY <1>3 DEF C
<1>5. ASSUME NEW k \in 1..n, k > m, bt[k] \in A PROVE FALSE
  <2>1. PICK l \in 1..m : at[l] = bt[k]
    BY <1>5
  <2>2. l \in 1..n /\ l < k /\ bt[l] = bt[k]
    BY <1>4, <1>5, <2>1
  <2>3. <<bt[k], bt[k]>> \in R /\ bt[k] \in B
    BY <1>5, <2>2
  <2> QED
    BY <2>3
<1> QED
  BY <1>4, <1>5

(* A set has one list in its order.                                        *)
LEMMA SameList ==
  ASSUME NEW R, NEW B, \A a, b \in B : <<a, b>> \in R => <<b, a>> \notin R,
         NEW at, NEW m, Enumerates(at, m, B, R), NEW bt, NEW n, Enumerates(bt, n, B, R)
  PROVE  m = n /\ \A k \in 1..m : at[k] = bt[k]
<1>1. B \subseteq B /\ \A a \in B : \A b \in B \ B : <<a, b>> \in R
  OBVIOUS
<1>2. /\ m <= n
      /\ \A k \in 1..m : at[k] = bt[k]
      /\ \A k \in 1..n : k > m => bt[k] \in B \ B
  BY <1>1, SameOrder
<1>3. m \in Nat /\ n \in Nat
  BY DEF Enumerates
<1>4. ~ (n > m)
  <2> SUFFICES ASSUME n > m PROVE FALSE
    OBVIOUS
  <2>1. n \in 1..n
    BY <1>3
  <2> QED
    BY <1>2, <2>1
<1> QED
  BY <1>2, <1>3, <1>4

----------------------------------------------------------------------------
(* The loop that keeps the events of a year.                               *)

KeptNext(f, s, y, n) ==
  IF n = 0 THEN << >>
  ELSE IF YearOf(s[n].date) = y THEN Append(f[n - 1], s[n]) ELSE f[n - 1]

IsKept(f, s, y, m) == f = [n \in 0..m |-> KeptNext(f, s, y, n)]

LEMMA InYearKept ==
  ASSUME NEW s, NEW y
  PROVE  InYear(s, y) = (CHOOSE f : IsKept(f, s, y, Len(s)))[Len(s)]
BY DEF InYear, IsKept, KeptNext

LEMMA KeptAt ==
  ASSUME NEW s, NEW y, NEW m \in Nat, NEW f, IsKept(f, s, y, m), NEW n \in 0..m
  PROVE  f[n] = KeptNext(f, s, y, n)
<1> DEFINE g == [k \in 0..m |-> KeptNext(f, s, y, k)]
<1>1. f = g
  BY DEF IsKept
<1>2. g[n] = KeptNext(f, s, y, n)
  OBVIOUS
<1> HIDE DEF g
<1> QED
  BY <1>1, <1>2

LEMMA KeptExists ==
  ASSUME NEW s, NEW y, NEW m \in Nat
  PROVE  \E f : IsKept(f, s, y, m)
<1> DEFINE C == {k \in 0..m : \E f : IsKept(f, s, y, k)}
<1>1. 0 \in C
  <2> DEFINE f == [n \in 0..0 |-> << >>]
             g == [n \in 0..0 |-> KeptNext(f, s, y, n)]
  <2>1. \A n \in 0..0 : f[n] = g[n]
    BY DEF KeptNext
  <2>2. f = g
    BY <2>1
  <2> HIDE DEF f
  <2>3. IsKept(f, s, y, 0)
    BY <2>2 DEF IsKept
  <2> QED
    BY <2>3
<1>2. ASSUME NEW k \in 1..m, k - 1 \in C PROVE k \in C
  <2>1. PICK f : IsKept(f, s, y, k - 1)
    BY <1>2
  <2> DEFINE g == [n \in 0..k |-> IF n = k THEN KeptNext(f, s, y, k) ELSE f[n]]
             h == [n \in 0..k |-> KeptNext(g, s, y, n)]
  <2>2. ASSUME NEW n \in 0..k PROVE g[n] = h[n]
    <3>1. n # 0 => n - 1 \in 0..k /\ n - 1 # k
      OBVIOUS
    <3>2. n # 0 => g[n - 1] = f[n - 1]
      BY <3>1
    <3>3. KeptNext(g, s, y, n) = KeptNext(f, s, y, n)
      <4> HIDE DEF g
      <4> QED
        BY <3>2 DEF KeptNext
    <3>4. CASE n = k
      BY <3>3, <3>4
    <3>5. CASE n # k
      <4>1. n \in 0..(k - 1) /\ k - 1 \in Nat
        BY <3>5
      <4>2. f[n] = KeptNext(f, s, y, n)
        BY <2>1, <4>1, KeptAt
      <4> QED
        BY <3>3, <3>5, <4>2
    <3> QED
      BY <3>4, <3>5
  <2>3. g = h
    BY <2>2
  <2> HIDE DEF g
  <2>4. IsKept(g, s, y, k)
    BY <2>3 DEF IsKept
  <2> QED
    BY <2>4
<1> HIDE DEF C
<1>3. m \in C
  <2>1. m \in 0..m
    OBVIOUS
  <2> QED
    BY <1>1, <1>2, <2>1, CountUpTo
<1> QED
  BY <1>3 DEF C

(* Two lists that differ in no event of the year have the same events in   *)
(* that year.                                                              *)
LEMMA SameInYear ==
  ASSUME NEW y, NEW T, NEW s \in Seq(T), NEW t \in Seq(T), Len(s) <= Len(t),
         \A k \in 1..Len(s) : /\ YearOf(s[k].date) = y <=> YearOf(t[k].date) = y
                              /\ YearOf(s[k].date) = y => s[k] = t[k],
         \A k \in 1..Len(t) : k > Len(s) => YearOf(t[k].date) # y
  PROVE  InYear(s, y) = InYear(t, y)
<1> DEFINE m == Len(s)
           n == Len(t)
           f == CHOOSE h : IsKept(h, s, y, m)
           g == CHOOSE h : IsKept(h, t, y, n)
<1>1. m \in Nat /\ n \in Nat /\ m <= n
  OBVIOUS
<1>2. IsKept(f, s, y, m) /\ IsKept(g, t, y, n)
  BY <1>1, KeptExists
<1>3. InYear(s, y) = f[m] /\ InYear(t, y) = g[n]
  BY InYearKept
<1> HIDE DEF m, n, f, g
<1> DEFINE C == {k \in 0..m : f[k] = g[k]}
<1>4. 0 \in C
  <2>1. 0 \in 0..m /\ 0 \in 0..n
    BY <1>1
  <2>2. f[0] = KeptNext(f, s, y, 0) /\ g[0] = KeptNext(g, t, y, 0)
    BY <1>1, <1>2, <2>1, KeptAt
  <2> QED
    BY <2>1, <2>2 DEF KeptNext
<1>5. ASSUME NEW k \in 1..m, k - 1 \in C PROVE k \in C
  <2>1. k \in 0..m /\ k \in 0..n /\ k # 0 /\ f[k - 1] = g[k - 1]
    BY <1>1, <1>5
  <2>2. f[k] = KeptNext(f, s, y, k) /\ g[k] = KeptNext(g, t, y, k)
    BY <1>1, <1>2, <2>1, KeptAt
  <2>3. /\ YearOf(s[k].date) = y <=> YearOf(t[k].date) = y
        /\ YearOf(s[k].date) = y => s[k] = t[k]
    BY DEF m
  <2>4. f[k] = g[k]
    BY <2>1, <2>2, <2>3 DEF KeptNext
  <2> QED
    BY <2>1, <2>4
<1> HIDE DEF C
<1>6. f[m] = g[m]
  <2>1. m \in 0..m
    BY <1>1
  <2>2. m \in C
    BY <1>1, <1>4, <1>5, <2>1, CountUpTo
  <2> QED
    BY <2>2 DEF C
<1> DEFINE D == {k \in 0..n : k >= m => g[k] = g[m]}
<1>7. 0 \in D
  BY <1>1
<1>8. ASSUME NEW k \in 1..n, k - 1 \in D PROVE k \in D
  <2>1. k \in 0..n /\ k # 0
    BY <1>1
  <2>2. CASE k <= m
    BY <1>1, <2>1, <2>2
  <2>3. CASE k > m
    <3>1. g[k - 1] = g[m]
      BY <1>1, <1>8, <2>3
    <3>2. YearOf(t[k].date) # y
      BY <2>3 DEF m, n
    <3>3. g[k] = KeptNext(g, t, y, k)
      BY <1>1, <1>2, <2>1, KeptAt
    <3>4. g[k] = g[m]
      BY <2>1, <3>1, <3>2, <3>3 DEF KeptNext
    <3> QED
      BY <2>1, <3>4
  <2> QED
    BY <1>1, <2>2, <2>3
<1> HIDE DEF D
<1>9. g[n] = g[m]
  <2>1. n \in 0..n
    BY <1>1
  <2>2. n \in D
    BY <1>1, <1>7, <1>8, <2>1, CountUpTo
  <2> QED
    BY <1>1, <2>2 DEF D
<1> QED
  BY <1>3, <1>6, <1>9

----------------------------------------------------------------------------
(* The tax on a unit of lot i deemed sold at d.                            *)
UnitTax(s, i, d) == positive(anniversaryValueEUR(d) - s[i].price) * ExitRate[d]

Latest(S) == CHOOSE m \in S : \A x \in S : x <= m

(* What the anniversaries S leave attached to a unit: the last one's tax.  *)
Attached(s, i, S) == IF S = {} THEN 0 ELSE UnitTax(s, i, Latest(S))

Earlier(s, i, asof, d) == {x \in deemedDisposalAnniversaries(s[i].date, asof) : x < d}

HeldAt(s, i, d) == Left(s, i, Units(s, SalesBefore(s, d)))

(* What is charged for the anniversary e.                                  *)
Charge(s, asof, e) ==
  LET i    == e.index
      q    == HeldAt(s, i, e.date)
      tax  == q * UnitTax(s, i, e.date)
      used == q * Attached(s, i, Earlier(s, i, asof, e.date))
  IN [lot |-> i, date |-> e.date, quantity |-> q,
      gain |-> q * (anniversaryValueEUR(e.date) - s[i].price),
      tax |-> tax, credit |-> used, due |-> tax - used]

(* What a sale of n units takes of each lot when m units were sold before. *)
Taken(s, i, m, n) == Left(s, i, m) - Left(s, i, m + n)

SoldFirst(s, k) == {j \in Sales(s) : Precedes(SaleEvent(s, j), SaleEvent(s, k))}

Cost(s, m, n) == SumFunction([i \in Purchases(s) |-> Taken(s, i, m, n) * s[i].price])

(* Nothing is credited for a lot that is not sold from, whatever its       *)
(* anniversaries would have left attached.                                 *)
Credited(s, asof, d, m, n) ==
  SumFunction([i \in Purchases(s) |->
    IF Taken(s, i, m, n) = 0 THEN 0
    ELSE Taken(s, i, m, n) * Attached(s, i, Earlier(s, i, asof, d + 1))])

(* What is charged for the sale e.                                         *)
Sold(s, asof, e) ==
  LET k    == e.index
      n    == s[k].quantity
      m    == Units(s, SoldFirst(s, k))
      gain == n * s[k].price - Cost(s, m, n)
      tax  == positive(gain) * ExitRate[s[k].date]
      used == Credited(s, asof, s[k].date, m, n)
  IN [lot |-> 0, date |-> s[k].date, quantity |-> n, gain |-> gain,
      tax |-> tax, credit |-> used, due |-> tax - used]

Order == {p \in Event \X Event : Precedes(p[1], p[2])}

----------------------------------------------------------------------------

Matching == IF pc = "sale" THEN {sale} ELSE {}

Passed == Events \ pending

Charged  == {e \in Passed : e.kind = eventDeemedDisposal /\ HeldAt(sorted, e.index, e.date) # 0}
Recorded == {e \in Passed : e.kind = eventSell /\ e.index \notin Matching}

SoldBefore == Units(sorted, SalesPassed(sorted, pending) \ Matching)

PassedOf(i) == {x \in deemedDisposalAnniversaries(sorted[i].date, asOf) : Anniversary(i, x) \notin pending}

SaleInHand ==
  pc = "sale" =>
    /\ sale \in Sales(sorted) /\ SaleEvent(sorted, sale) \in Passed
    /\ \A e \in Passed : e = SaleEvent(sorted, sale) \/ Precedes(e, SaleEvent(sorted, sale))

AttachedRight ==
  Walking =>
    \A i \in DOMAIN lots :
      Left(sorted, i, SoldBefore) # 0 => lots[i].deemedTaxPerUnit = Attached(sorted, i, PassedOf(i))

TakenOf(i) == Left(sorted, i, SoldBefore) - lots[i].remaining

InPart ==
  pc = "sale" =>
    /\ cost   = SumFunction([i \in Purchases(sorted) |-> TakenOf(i) * sorted[i].price])
    /\ credit = SumFunction([i \in Purchases(sorted) |-> TakenOf(i) * lots[i].deemedTaxPerUnit])

ChargesListed ==
  Walking =>
    \E at \in [1..Len(deemed) -> Charged] :
      /\ Enumerates(at, Len(deemed), Charged, Order)
      /\ \A k \in 1..Len(deemed) : deemed[k] = Charge(sorted, asOf, at[k])

SalesListed ==
  Walking =>
    \E at \in [1..Len(disposals) -> Recorded] :
      /\ Enumerates(at, Len(disposals), Recorded, Order)
      /\ \A k \in 1..Len(disposals) : disposals[k] = Sold(sorted, asOf, at[k])

NothingListed == pc \in {"convert", "build"} => deemed = << >> /\ disposals = << >>

EInv == /\ SaleInHand /\ AttachedRight /\ InPart
        /\ ChargesListed /\ SalesListed /\ NothingListed

----------------------------------------------------------------------------
(* A family with one member changed.                                       *)
OneChanged(g, f, S, a) ==
  IsFamily(f, S) /\ IsFamily(g, S) /\ a \in S /\ \A x \in S \ {a} : g[x] = f[x]

LEMMA SumChanged ==
  ASSUME NEW S, NEW a, NEW f, NEW g, OneChanged(g, f, S, a)
  PROVE  SumFunction(g) = SumFunction(f) + g[a] - f[a]
<1> USE DEF OneChanged, IsFamily
<1> DEFINE rest == SumFunctionOnSet(f, S \ {a})
<1>1. IsFiniteSet(S \ {a})
  BY FS_Subset
<1>2. SumFunctionOnSet(f, S) = f[a] + rest /\ SumFunctionOnSet(g, S) = g[a] + SumFunctionOnSet(g, S \ {a})
  BY SumWithout
<1>3. SumFunctionOnSet(g, S \ {a}) = rest
  BY <1>1, SumAgree
<1>4. rest \in Int
  BY <1>1, SumType
<1>5. SumFunction(f) = SumFunctionOnSet(f, S) /\ SumFunction(g) = SumFunctionOnSet(g, S)
  BY SumFamily
<1> HIDE DEF rest
<1> QED
  BY <1>2, <1>3, <1>4, <1>5

LEMMA SumOfZeros ==
  ASSUME NEW S, NEW f, IsFamily(f, S), \A x \in S : f[x] = 0
  PROVE  SumFunction(f) = 0
<1> USE DEF IsFamily
<1> DEFINE g == [x \in {} |-> 0]
           C == {T \in SUBSET S : SumFunctionOnSet(f, T) = 0}
<1>1. ASSUME NEW T \in SUBSET S, \A x \in T : T \ {x} \in C PROVE T \in C
  <2>1. IsFiniteSet(T)
    BY FS_Subset
  <2>2. CASE T = {}
    BY <2>1, <2>2, SumChosen
  <2>3. CASE T # {}
    <3>1. PICK a \in T : TRUE
      BY <2>3
    <3>2. SumFunctionOnSet(f, T) = f[a] + SumFunctionOnSet(f, T \ {a})
      BY <2>1, SumWithout
    <3>3. SumFunctionOnSet(f, T \ {a}) = 0 /\ f[a] = 0
      BY <1>1
    <3> QED
      BY <3>2, <3>3
  <2> QED
    BY <2>2, <2>3
<1> HIDE DEF C
<1>2. S \in C
  BY <1>1, SetInduction
<1> QED
  BY <1>2, SumFamily DEF C

----------------------------------------------------------------------------

(* More sold leaves no more.                                               *)
LEMMA LeftFewer ==
  ASSUME NEW s \in Seq(Transaction), NEW i \in Purchases(s), NEW m \in Nat, NEW n \in Nat, m <= n
  PROVE  Left(s, i, n) <= Left(s, i, m) /\ Left(s, i, n) \in Nat /\ Left(s, i, m) \in Nat
<1> DEFINE b == Units(s, UpTo(s, i))
           q == s[i].quantity
<1>1. b \in Nat /\ q \in Nat \ {0} /\ q <= b
  BY BoughtUpTo
<1>2. Left(s, i, n) = LeftOf(b, q, n) /\ Left(s, i, m) = LeftOf(b, q, m)
  BY DEF Left
<1> HIDE DEF b, q
<1>3. LeftOf(b, q, n) <= LeftOf(b, q, m)
  BY <1>1 DEF LeftOf, minimum, positive
<1>4. Left(s, i, n) \in Nat /\ Left(s, i, m) \in Nat
  BY LeftBounds
<1> QED
  BY <1>2, <1>3, <1>4

(* The latest of a finite set of dates is in it, and nothing is later.     *)
LEMMA LatestIs ==
  ASSUME NEW S, NEW m \in S, \A x \in S : x <= m, S \subseteq Int
  PROVE  Latest(S) = m
<1>1. /\ Latest(S) \in S /\ \A x \in S : x <= Latest(S)
  BY DEF Latest
<1>2. Latest(S) \in Int /\ m \in Int
  BY <1>1
<1>3. m <= Latest(S) /\ Latest(S) <= m
  BY <1>1
<1> HIDE DEF Latest
<1> QED
  BY <1>2, <1>3

(* A list with one more entry, for an element that follows all before it.  *)
Longer(at, n, a) == [k \in 1..(n + 1) |-> IF k = n + 1 THEN a ELSE at[k]]

LEMMA LongerAt ==
  ASSUME NEW at, NEW n \in Nat, NEW a
  PROVE  Longer(at, n, a)[n + 1] = a /\ \A k \in 1..n : Longer(at, n, a)[k] = at[k]
BY DEF Longer

LEMMA EnumerateMore ==
  ASSUME NEW R, NEW E, NEW at, NEW n, Enumerates(at, n, E, R),
         NEW a, \A e \in E : <<e, a>> \in R
  PROVE  Enumerates(Longer(at, n, a), n + 1, E \union {a}, R)
<1> DEFINE bt == Longer(at, n, a)
<1> USE DEF Enumerates
<1>1. n \in Nat /\ n + 1 \in Nat /\ n + 1 \in 1..(n + 1)
  OBVIOUS
<1>2. bt[n + 1] = a /\ \A k \in 1..n : k \in 1..(n + 1) /\ bt[k] = at[k] /\ at[k] \in E
  BY <1>1 DEF Longer
<1>3. bt \in [1..(n + 1) -> E \union {a}]
  BY <1>1 DEF Longer
<1>4. \A k \in 1..(n + 1) : k = n + 1 \/ k \in 1..n
  BY <1>1
<1> HIDE DEF bt
<1>5. \A e \in E \union {a} : \E k \in 1..(n + 1) : bt[k] = e
  <2>1. ASSUME NEW e \in E PROVE \E k \in 1..(n + 1) : bt[k] = e
    <3>1. PICK k \in 1..n : at[k] = e
      OBVIOUS
    <3> QED
      BY <1>2, <3>1
  <2> QED
    BY <1>1, <1>2, <2>1
<1>6. ASSUME NEW k \in 1..(n + 1), NEW l \in 1..(n + 1), k < l PROVE <<bt[k], bt[l]>> \in R
  <2>1. k \in 1..n
    BY <1>1, <1>6
  <2>2. CASE l = n + 1
    BY <1>2, <2>1, <2>2
  <2>3. CASE l \in 1..n
    BY <1>2, <1>6, <2>1, <2>3
  <2> QED
    BY <1>4, <2>2, <2>3
<1>7. Enumerates(bt, n + 1, E \union {a}, R)
  BY <1>1, <1>3, <1>5, <1>6
<1> QED
  BY <1>7 DEF bt

LEMMA EnumerateNone ==
  ASSUME NEW R, NEW E, E = {}
  PROVE  \A at \in [1..0 -> E] : Enumerates(at, 0, E, R)
BY DEF Enumerates

----------------------------------------------------------------------------

(* The types the lemmas below start from.                                  *)
LEMMA InWalk ==
  ASSUME IInv, WInv, Walking
  PROVE  /\ sorted \in Seq(Transaction) /\ asOf \in AsOfs /\ asOf \in Nat
         /\ pending \subseteq Events /\ Events \subseteq Event
         /\ DOMAIN lots = Purchases(sorted)
<1>1. sorted \in Seq(Transaction) /\ asOf \in AsOfs /\ asOf \in Nat
  BY AsOfAssumption, DatesAssumption DEF IInv, TypeOK
<1>2. Events \subseteq Event
  BY <1>1, FundEventsPlaced DEF Events
<1> QED
  BY <1>1, <1>2 DEF WInv, WalkedInOrder, LotsOpened

(* The events passed are those before the event the walk is at.            *)
LEMMA Split ==
  ASSUME IInv, WInv, NEW e \in pending, Reached(e)
  PROVE  \A f \in Events : f # e => /\ f \notin pending <=> Precedes(f, e)
                                    /\ f \in pending <=> Precedes(e, f)
<1>1. Walking /\ pc = "walk"
  BY DEF Reached, Walking
<1>2. e \in Events /\ Events \subseteq Event
  BY <1>1, InWalk
<1> SUFFICES ASSUME NEW f \in Events, f # e
             PROVE  /\ f \notin pending <=> Precedes(f, e)
                    /\ f \in pending <=> Precedes(e, f)
  OBVIOUS
<1>3. f \notin pending => Precedes(f, e)
  BY <1>1 DEF WInv, WalkedInOrder
<1>4. f \in pending => Precedes(e, f)
  BY DEF Reached
<1>5. ~ (Precedes(e, f) /\ Precedes(f, e))
  BY <1>2, PrecedesOneWay
<1> QED
  BY <1>3, <1>4, <1>5

(* While a sale is matched, those before the sale.                         *)
LEMMA SplitAtSale ==
  ASSUME IInv, WInv, SaleInHand, pc = "sale"
  PROVE  LET e == SaleEvent(sorted, sale) IN
         /\ e \in Events /\ e \notin pending
         /\ \A f \in Events : f # e => /\ f \notin pending <=> Precedes(f, e)
                                       /\ f \in pending <=> Precedes(e, f)
<1> DEFINE e == SaleEvent(sorted, sale)
<1>1. Walking
  BY DEF Walking
<1>2. e \in Events /\ e \notin pending /\ Events \subseteq Event
  BY <1>1, InWalk DEF SaleInHand, Passed
<1> SUFFICES ASSUME NEW f \in Events, f # e
             PROVE  /\ f \notin pending <=> Precedes(f, e)
                    /\ f \in pending <=> Precedes(e, f)
  BY <1>2
<1>3. f \notin pending => Precedes(f, e)
  BY DEF SaleInHand, Passed
<1>4. f \in pending => Precedes(e, f)
  BY <1>1, <1>2 DEF WInv, WalkedInOrder
<1> HIDE DEF e
<1>5. ~ (Precedes(e, f) /\ Precedes(f, e))
  BY <1>2, PrecedesOneWay
<1> QED
  BY <1>3, <1>4, <1>5

(* What an event is charged depends on nothing the walk changes.           *)
LEMMA ChargeFrame ==
  ASSUME UNCHANGED <<sorted, values, asOf>>
  PROVE  /\ \A e : Charge(sorted, asOf, e)' = Charge(sorted, asOf, e)
         /\ \A e : Sold(sorted, asOf, e)' = Sold(sorted, asOf, e)
         /\ \A i, d : HeldAt(sorted, i, d)' = HeldAt(sorted, i, d)
         /\ \A i, S : Attached(sorted, i, S)' = Attached(sorted, i, S)
         /\ Events' = Events
<1>1. \A d : anniversaryValueEUR(d)' = anniversaryValueEUR(d)
  BY Frame
<1>2. \A i, d : UnitTax(sorted, i, d)' = UnitTax(sorted, i, d)
  BY <1>1 DEF UnitTax, anniversaryValueEUR, Day
<1>3. \A i, S : Attached(sorted, i, S)' = Attached(sorted, i, S)
  BY <1>2 DEF Attached
<1>4. \A i, d : HeldAt(sorted, i, d)' = HeldAt(sorted, i, d)
  BY DEF HeldAt, Left, Units, UpTo, SalesBefore, Sales, Purchases
<1>5. Events' = Events
  BY Frame
<1>6. \A e : Charge(sorted, asOf, e)' = Charge(sorted, asOf, e)
  BY <1>1, <1>2, <1>3, <1>4
    DEF Charge, Earlier, deemedDisposalAnniversaries
<1>7. \A e : Sold(sorted, asOf, e)' = Sold(sorted, asOf, e)
  <2>1. \A i, m, n : Taken(sorted, i, m, n)' = Taken(sorted, i, m, n)
    BY DEF Taken, Left, Units, UpTo, Purchases
  <2>2. \A m, n : Cost(sorted, m, n)' = Cost(sorted, m, n)
    BY <2>1 DEF Cost, Purchases
  <2>3. \A d, m, n : Credited(sorted, asOf, d, m, n)' = Credited(sorted, asOf, d, m, n)
    <3>1. \A i, d : Earlier(sorted, i, asOf, d)' = Earlier(sorted, i, asOf, d)
      BY DEF Earlier, deemedDisposalAnniversaries
    <3>2. \A i, d : Attached(sorted, i, Earlier(sorted, i, asOf, d))'
                     = Attached(sorted, i, Earlier(sorted, i, asOf, d))
      BY <1>2, <3>1 DEF Attached
    <3> QED
      BY <2>1, <3>2 DEF Credited, Purchases
  <2>4. \A k : Units(sorted, SoldFirst(sorted, k))' = Units(sorted, SoldFirst(sorted, k))
    BY DEF SoldFirst, Units, Sales, Purchases, SaleEvent, Precedes
  <2> QED
    BY <2>2, <2>3, <2>4 DEF Sold
<1> QED
  BY <1>3, <1>4, <1>5, <1>6, <1>7

----------------------------------------------------------------------------
(* What passing an event that is no anniversary of a lot leaves as it was. *)
LEMMA PassedOfKept ==
  ASSUME NEW e, pending' = pending \ {e}, UNCHANGED <<sorted, asOf>>,
         NEW i, e.kind # eventDeemedDisposal \/ e.index # i
  PROVE  PassedOf(i)' = PassedOf(i)
<1>1. \A x : Anniversary(i, x) # e
  BY DEF Anniversary
<1>2. \A x : Anniversary(i, x) \notin pending' <=> Anniversary(i, x) \notin pending
  BY <1>1
<1> QED
  BY <1>2 DEF PassedOf, Anniversary, deemedDisposalAnniversaries

LEMMA SoldKept ==
  ASSUME NEW e, pending' = pending \ {e}, e.kind # eventSell, UNCHANGED <<sorted, pc, sale>>
  PROVE  SoldBefore' = SoldBefore
<1>1. \A k : SaleEvent(sorted, k) # e
  BY DEF SaleEvent
<1>2. SalesPassed(sorted, pending)' = SalesPassed(sorted, pending)
  BY <1>1 DEF SalesPassed, SaleEvent, Sales, Purchases
<1> QED
  BY <1>2 DEF SoldBefore, Matching, Units

(* Between sales, what is sold is what the sales passed have sold.         *)
LEMMA SoldIsConsumed ==
  ASSUME IInv, WInv, Walking, pc # "sale"
  PROVE  SoldBefore = Consumed /\ SoldBefore \in Nat
<1>1. wanted = 0 /\ sorted \in Seq(Transaction)
  BY DEF WInv, FirstOut, IInv, TypeOK
<1>2. SalesPassed(sorted, pending) \in SUBSET DOMAIN sorted
  BY DEF SalesPassed, Sales
<1>3. Units(sorted, SalesPassed(sorted, pending)) \in Nat
  BY <1>1, <1>2, UnitsMore
<1>4. SalesPassed(sorted, pending) \ Matching = SalesPassed(sorted, pending)
  BY DEF Matching
<1> QED
  BY <1>1, <1>3, <1>4 DEF SoldBefore, Consumed

(* A step that leaves the lists, and the events they are of.               *)
LEMMA ListsKept ==
  ASSUME EInv, Walking, UNCHANGED <<sorted, values, asOf, deemed, disposals>>,
         Charged' = Charged, Recorded' = Recorded
  PROVE  ChargesListed' /\ SalesListed'
<1>1. ChargesListed'
  <2>1. PICK at \in [1..Len(deemed) -> Charged] :
          /\ Enumerates(at, Len(deemed), Charged, Order)
          /\ \A k \in 1..Len(deemed) : deemed[k] = Charge(sorted, asOf, at[k])
    BY DEF EInv, ChargesListed
  <2>2. \A k \in 1..Len(deemed') : deemed'[k] = Charge(sorted, asOf, at[k])'
    BY <2>1, ChargeFrame
  <2> QED
    BY <2>1, <2>2 DEF ChargesListed
<1>2. SalesListed'
  <2>1. PICK at \in [1..Len(disposals) -> Recorded] :
          /\ Enumerates(at, Len(disposals), Recorded, Order)
          /\ \A k \in 1..Len(disposals) : disposals[k] = Sold(sorted, asOf, at[k])
    BY DEF EInv, SalesListed
  <2>2. \A k \in 1..Len(disposals') : disposals'[k] = Sold(sorted, asOf, at[k])'
    BY <2>1, ChargeFrame
  <2> QED
    BY <2>1, <2>2 DEF SalesListed
<1> QED
  BY <1>1, <1>2

(* What is charged and recorded once e is passed, and no sale is matched.  *)
LEMMA PassedMore ==
  ASSUME IInv, WInv, Walking, pc = "walk", NEW e \in pending, pending' = pending \ {e},
         UNCHANGED <<sorted, values, asOf>>
  PROVE  /\ Passed' = Passed \union {e}
         /\ Charged' = IF e.kind = eventDeemedDisposal /\ HeldAt(sorted, e.index, e.date) # 0
                       THEN Charged \union {e} ELSE Charged
         /\ e.kind # eventSell /\ pc' # "sale" => Recorded' = Recorded
<1>1. e \in Events
  BY InWalk
<1>2. Passed' = Passed \union {e}
  BY <1>1, ChargeFrame DEF Passed
<1>3. \A i, d : HeldAt(sorted, i, d)' = HeldAt(sorted, i, d)
  BY ChargeFrame
<1>4. Charged' = {f \in Passed \union {e} : f.kind = eventDeemedDisposal /\ HeldAt(sorted, f.index, f.date) # 0}
  BY <1>2, <1>3 DEF Charged
<1>5. Charged' = IF e.kind = eventDeemedDisposal /\ HeldAt(sorted, e.index, e.date) # 0
                 THEN Charged \union {e} ELSE Charged
  BY <1>4 DEF Charged
<1>6. ASSUME e.kind # eventSell, pc' # "sale" PROVE Recorded' = Recorded
  BY <1>2, <1>6 DEF Recorded, Matching
<1> QED
  BY <1>2, <1>5, <1>6

(* The units found at an anniversary, in the words of Charge.              *)
LEMMA HeldAtReached ==
  ASSUME IInv, WInv, NEW e \in pending, AtAnniversary(e)
  PROVE  lots[e.index].remaining = HeldAt(sorted, e.index, e.date)
BY HeldAtAnniversary, HeldIsLeft DEF HeldAt

(* A step that leaves what is attached to the units there are.             *)
LEMMA AttachedKept ==
  ASSUME EInv, Walking, UNCHANGED <<sorted, values, asOf>>, DOMAIN lots' = DOMAIN lots,
         \A i \in DOMAIN lots : Left(sorted, i, SoldBefore') # 0 =>
           /\ Left(sorted, i, SoldBefore) # 0
           /\ lots'[i].deemedTaxPerUnit = lots[i].deemedTaxPerUnit
           /\ PassedOf(i)' = PassedOf(i)
  PROVE  AttachedRight'
<1> SUFFICES ASSUME NEW i \in DOMAIN lots, Left(sorted, i, SoldBefore') # 0
             PROVE  lots'[i].deemedTaxPerUnit = Attached(sorted, i, PassedOf(i))'
  <2>2. \A i : Left(sorted, i, SoldBefore)' = Left(sorted, i, SoldBefore')
    BY DEF Left, Units, UpTo, Purchases
  <2> QED
    BY <2>2 DEF AttachedRight
<1>1. lots[i].deemedTaxPerUnit = Attached(sorted, i, PassedOf(i))
  BY DEF EInv, AttachedRight
<1>2. Attached(sorted, i, PassedOf(i))' = Attached(sorted, i, PassedOf(i)')
  <2>1. \A S : Attached(sorted, i, S)' = Attached(sorted, i, S)
    BY ChargeFrame
  <2>2. \A d : UnitTax(sorted, i, d)' = UnitTax(sorted, i, d)
    BY Frame DEF UnitTax
  <2> QED
    BY <2>2 DEF Attached
<1> QED
  BY <1>1, <1>2

LEMMA PassListed ==
  ASSUME IInv, WInv, EInv, NEW e \in pending, PassBuy(e) \/ PassSoldLot(e)
  PROVE  EInv'
<1>1. /\ pc = "walk" /\ Walking /\ Walking' /\ pending' = pending \ {e} /\ Reached(e)
      /\ UNCHANGED <<values, asOf, pc, sorted, lots, sale, deemed, disposals>>
      /\ \/ e.kind = eventBuy
         \/ AtAnniversary(e) /\ e.kind = eventDeemedDisposal /\ lots[e.index].remaining = 0
  <2>1. CASE PassBuy(e)
    BY <2>1 DEF PassBuy, Reached, Walking, inputs, saleVars, results
  <2>2. CASE PassSoldLot(e)
    BY <2>2 DEF PassSoldLot, AtAnniversary, Reached, Walking, inputs, saleVars, results
  <2> QED
    BY <2>1, <2>2
<1>2. e.kind # eventSell
  BY <1>1 DEF eventBuy, eventSell, eventDeemedDisposal
<1>3. Charged' = Charged /\ Recorded' = Recorded
  <2>1. e.kind = eventDeemedDisposal => HeldAt(sorted, e.index, e.date) = 0
    BY <1>1, HeldAtReached DEF eventBuy, eventDeemedDisposal
  <2> QED
    BY <1>1, <1>2, <2>1, PassedMore
<1>4. ChargesListed' /\ SalesListed'
  BY <1>1, <1>3, ListsKept
<1>5. SoldBefore' = SoldBefore
  BY <1>1, <1>2, SoldKept
<1>6. AttachedRight'
  <2>1. ASSUME NEW i \in DOMAIN lots, Left(sorted, i, SoldBefore) # 0
        PROVE  PassedOf(i)' = PassedOf(i)
    <3>1. e.kind # eventDeemedDisposal \/ e.index # i
      <4> SUFFICES ASSUME e.kind = eventDeemedDisposal, e.index = i PROVE FALSE
        OBVIOUS
      <4>1. lots[i].remaining = 0
        BY <1>1 DEF eventBuy, eventDeemedDisposal
      <4>2. lots[i].remaining = Left(sorted, i, Consumed) /\ SoldBefore = Consumed
        BY <1>1, SoldIsConsumed DEF WInv, FirstOut
      <4> QED
        BY <2>1, <4>1, <4>2
    <3> QED
      BY <1>1, <3>1, PassedOfKept
  <2> QED
    BY <1>1, <1>5, <2>1, AttachedKept
<1> QED
  BY <1>1, <1>4, <1>6 DEF EInv, SaleInHand, InPart, NothingListed

----------------------------------------------------------------------------
(* What is before the anniversary the walk is at.                          *)
LEMMA PassedIsEarlier ==
  ASSUME IInv, WInv, NEW e \in pending, AtAnniversary(e)
  PROVE  /\ PassedOf(e.index) = Earlier(sorted, e.index, asOf, e.date)
         /\ e = Anniversary(e.index, e.date) /\ e.index \in DOMAIN lots
         /\ e.date \in deemedDisposalAnniversaries(sorted[e.index].date, asOf)
         /\ deemedDisposalAnniversaries(sorted[e.index].date, asOf) \subseteq Nat
<1> DEFINE i == e.index
           S == deemedDisposalAnniversaries(sorted[i].date, asOf)
<1>1. Walking /\ Reached(e) /\ e.kind = eventDeemedDisposal
  BY DEF AtAnniversary, Reached, Walking
<1>2. /\ sorted \in Seq(Transaction) /\ asOf \in AsOfs /\ asOf \in Nat /\ e \in Events
      /\ Events \subseteq Event /\ DOMAIN lots = Purchases(sorted)
  BY <1>1, InWalk
<1>3. i \in Purchases(sorted) /\ e = Anniversary(i, e.date) /\ e.date \in S
  BY <1>1, <1>2, EventForms DEF Events
<1>4. S \subseteq Nat
  <2>1. sorted[i].date \in Nat
    BY <1>2, <1>3, Quantity DEF Purchases
  <2> QED
    BY <1>2, <2>1, AnniversaryDate
<1>5. ASSUME NEW x \in S PROVE Anniversary(i, x) \notin pending <=> x < e.date
  <2>1. Anniversary(i, x) \in Events
    BY <1>2, <1>3, EventForms DEF Events
  <2>2. CASE x = e.date
    BY <1>3, <1>4, <2>2
  <2>3. CASE x # e.date
    <3>1. Anniversary(i, x) # e
      BY <1>3, <2>3 DEF Anniversary
    <3>2. Anniversary(i, x) \notin pending <=> Precedes(Anniversary(i, x), e)
      BY <1>1, <2>1, <3>1, Split
    <3>3. Precedes(Anniversary(i, x), Anniversary(i, e.date)) <=> x < e.date
      <4>1. i \in Nat /\ x \in Nat /\ e.date \in Nat
        BY <1>2, <1>3, <1>4, Quantity DEF Purchases
      <4> QED
        BY <2>3, <4>1 DEF Precedes, Anniversary, eventDeemedDisposal
    <3> QED
      BY <1>3, <3>2, <3>3
  <2> QED
    BY <2>2, <2>3
<1>6. PassedOf(i) = Earlier(sorted, i, asOf, e.date)
  BY <1>5 DEF PassedOf, Earlier
<1> QED
  BY <1>2, <1>3, <1>4, <1>6

(* What a unit of a lot cost is the price it was bought at.                *)
LEMMA UnitPrice ==
  ASSUME IInv, WInv, Walking, NEW i \in DOMAIN lots
  PROVE  /\ unitCost(lots[i]) = sorted[i].price /\ sorted[i].price \in Nat
         /\ lots[i].remaining \in Nat /\ lots[i].deemedTaxPerUnit \in Nat
<1> DEFINE price == sorted[i].price
           q     == sorted[i].quantity
<1>1. /\ lots[i].quantity = q /\ lots[i].costBasis = q * price /\ i \in Purchases(sorted)
  BY DEF WInv, LotsOpened
<1>2. sorted[i] \in Transaction /\ q \in Nat \ {0}
  BY <1>1, Quantity DEF Purchases, IInv, TypeOK
<1>3. price \in Nat
  BY <1>2 DEF Transaction
<1>4. unitCost(lots[i]) = price
  <2> HIDE DEF q, price
  <2>1. (q * price) \div q = price
    BY <1>2, <1>3
  <2> QED
    BY <1>1, <1>2, <2>1 DEF unitCost
<1>5. lots[i] \in FundLot
  BY DEF IInv, TypeOK
<1> QED
  BY <1>3, <1>4, <1>5 DEF FundLot

LEMMA ValueType ==
  ASSUME IInv, NEW d \in Dates, HasValue(d)
  PROVE  anniversaryValueEUR(d) \in Nat /\ ExitRate[d] \in Nat
<1>1. values \in Valuations /\ Day(d) \in DOMAIN values
  BY DEF IInv, TypeOK, HasValue, OnRecord
<1>2. values[Day(d)] \in Valuation
  BY <1>1, ValuationAssumption
<1>3. values[Day(d)].value \in Nat /\ EuroRate[d] \in Nat /\ ExitRate[d] \in Nat
  BY <1>2, RateAssumption, ExitRateAssumption DEF Valuation
<1> QED
  BY <1>3 DEF anniversaryValueEUR

LEMMA ChargeListed ==
  ASSUME IInv, WInv, EInv, NEW e \in pending, chargeDeemedDisposal(e)
  PROVE  EInv'
<1> DEFINE i        == e.index
           lot      == lots[i]
           quantity == lot.remaining
           value    == anniversaryValueEUR(e.date)
           gain     == quantity * value - quantity * unitCost(lot)
           tax      == positive(gain) * ExitRate[e.date]
           used     == quantity * lot.deemedTaxPerUnit
           charge   == [lot |-> i, date |-> e.date, quantity |-> quantity, gain |-> gain,
                        tax |-> tax, credit |-> used, due |-> tax - used]
<1>1. /\ pc = "walk" /\ Walking /\ Walking' /\ Reached(e) /\ AtAnniversary(e)
      /\ e.kind = eventDeemedDisposal /\ quantity # 0 /\ HasValue(e.date)
      /\ pending' = pending \ {e}
      /\ lots' = [lots EXCEPT ![i].deemedTaxPerUnit = tax \div quantity]
      /\ deemed' = Append(deemed, charge)
      /\ UNCHANGED <<values, asOf, pc, sorted, sale, wanted, disposals>>
  BY DEF chargeDeemedDisposal, AtAnniversary, Reached, Walking, inputs, saleVars
<1>2. /\ e.kind # eventSell /\ i \in DOMAIN lots /\ e \in Event /\ e.date \in Dates
      /\ deemed \in Seq(ChargeableEvent)
  BY <1>1 DEF IInv, TypeOK, EventsPlaced, eventSell, eventDeemedDisposal
<1>3. /\ sorted \in Seq(Transaction) /\ pending \subseteq Events /\ Events \subseteq Event
      /\ DOMAIN lots = Purchases(sorted)
  BY <1>1, InWalk
<1>4. /\ PassedOf(i) = Earlier(sorted, i, asOf, e.date)
      /\ e = Anniversary(i, e.date)
      /\ e.date \in deemedDisposalAnniversaries(sorted[i].date, asOf)
      /\ deemedDisposalAnniversaries(sorted[i].date, asOf) \subseteq Nat
  BY <1>1, PassedIsEarlier
<1>5. quantity = HeldAt(sorted, i, e.date)
  BY <1>1, HeldAtReached
<1>6. unitCost(lot) = sorted[i].price /\ sorted[i].price \in Nat /\ quantity \in Nat \ {0}
  BY <1>1, <1>2, UnitPrice
<1>7. value \in Nat /\ ExitRate[e.date] \in Nat
  BY <1>1, <1>2, ValueType
<1>8. tax \div quantity = UnitTax(sorted, i, e.date) /\ tax = quantity * UnitTax(sorted, i, e.date)
  <2> DEFINE u == sorted[i].price
             r == ExitRate[e.date]
  <2>1. tax = TaxOn(quantity, value, u, r)
    BY <1>6 DEF TaxOn
  <2>2. UnitTax(sorted, i, e.date) = positive(value - u) * r
    BY DEF UnitTax
  <2>3. quantity \in Nat \ {0} /\ value \in Nat /\ u \in Nat /\ r \in Nat
    BY <1>6, <1>7
  <2> HIDE DEF quantity, value, u, r, tax
  <2> QED
    BY <2>1, <2>2, <2>3, TaxPerUnit
<1>9. gain = quantity * (value - sorted[i].price)
  <2>1. gain = quantity * value - quantity * sorted[i].price
    BY <1>6
  <2> HIDE DEF quantity, value, gain
  <2> QED
    BY <1>6, <1>7, <2>1
<1>10. SoldBefore' = SoldBefore
  BY <1>1, <1>2, SoldKept
<1>11. Left(sorted, i, SoldBefore) # 0
  <2>1. SoldBefore = Consumed
    BY <1>1, SoldIsConsumed
  <2> QED
    BY <1>1, <1>2, <2>1 DEF WInv, FirstOut
<1>12. used = quantity * Attached(sorted, i, Earlier(sorted, i, asOf, e.date))
  BY <1>1, <1>2, <1>4, <1>11 DEF EInv, AttachedRight
<1>13. charge = Charge(sorted, asOf, e)
  <2> HIDE DEF quantity, gain, tax, used, value
  <2> QED
    BY <1>5, <1>8, <1>9, <1>12 DEF Charge, value
<1>14. Charged' = Charged \union {e} /\ Recorded' = Recorded
  BY <1>1, <1>2, <1>5, PassedMore
<1>15. \A f \in Charged : <<f, e>> \in Order
  BY <1>1, <1>3 DEF Charged, Passed, WInv, WalkedInOrder, Order
<1> PICK n \in Nat : n = Len(deemed)
  BY <1>2
<1>16. /\ n = Len(deemed) /\ n \in Nat /\ Len(deemed') = n + 1 /\ deemed'[n + 1] = charge
       /\ \A k \in 1..n : deemed'[k] = deemed[k]
  <2> HIDE DEF charge
  <2> QED
    BY <1>1, <1>2
<1> HIDE DEF quantity, gain, tax, used, value, charge, lot
<1>17. ChargesListed'
  <2>1. PICK at \in [1..n -> Charged] :
          /\ Enumerates(at, n, Charged, Order)
          /\ \A k \in 1..n : deemed[k] = Charge(sorted, asOf, at[k])
    BY <1>1, <1>16 DEF EInv, ChargesListed
  <2> DEFINE bt == Longer(at, n, e)
  <2>2. /\ Enumerates(bt, n + 1, Charged \union {e}, Order)
        /\ bt[n + 1] = e /\ \A k \in 1..n : bt[k] = at[k]
    <3>1. Enumerates(bt, n + 1, Charged \union {e}, Order)
      BY <1>15, <2>1, EnumerateMore
    <3> QED
      BY <3>1, LongerAt
  <2> HIDE DEF bt
  <2>3. bt \in [1..(n + 1) -> Charged']
    BY <1>14, <2>2 DEF Enumerates
  <2>4. \A k \in 1..(n + 1) : deemed'[k] = Charge(sorted, asOf, bt[k])
    <3>1. \A k \in 1..(n + 1) : k = n + 1 \/ k \in 1..n
      BY <1>16
    <3> QED
      BY <1>13, <1>16, <2>1, <2>2, <3>1
  <2>5. \A k \in 1..(n + 1) : deemed'[k] = Charge(sorted, asOf, bt[k])'
    BY <1>1, <2>4, ChargeFrame
  <2> QED
    BY <1>14, <1>16, <2>2, <2>3, <2>5 DEF ChargesListed
<1>18. SalesListed'
  <2>1. PICK at \in [1..Len(disposals) -> Recorded] :
          /\ Enumerates(at, Len(disposals), Recorded, Order)
          /\ \A k \in 1..Len(disposals) : disposals[k] = Sold(sorted, asOf, at[k])
    BY <1>1 DEF EInv, SalesListed
  <2>2. \A k \in 1..Len(disposals') : disposals'[k] = Sold(sorted, asOf, at[k])'
    BY <1>1, <2>1, ChargeFrame
  <2> QED
    BY <1>1, <1>14, <2>1, <2>2 DEF SalesListed
<1>19. AttachedRight'
  <2> SUFFICES ASSUME NEW j \in DOMAIN lots, Left(sorted, j, SoldBefore) # 0
               PROVE  lots'[j].deemedTaxPerUnit = Attached(sorted, j, PassedOf(j)')
    <3>1. \A j : Left(sorted, j, SoldBefore)' = Left(sorted, j, SoldBefore)
      BY <1>1, <1>10 DEF Left, Units, UpTo, Purchases
    <3>2. \A j : Attached(sorted, j, PassedOf(j))' = Attached(sorted, j, PassedOf(j)')
      <4>1. \A x, d : UnitTax(sorted, x, d)' = UnitTax(sorted, x, d)
        BY <1>1, Frame DEF UnitTax
      <4> QED
        BY <1>1, <4>1 DEF Attached
    <3>3. DOMAIN lots' = DOMAIN lots
      BY <1>1
    <3> QED
      BY <3>1, <3>2, <3>3 DEF AttachedRight
  <2>1. CASE j = i
    <3> DEFINE S == PassedOf(i)'
    <3>1. \A x : Anniversary(i, x) \notin pending' <=> Anniversary(i, x) \notin pending \/ x = e.date
      BY <1>1, <1>4 DEF Anniversary
    <3>2. S = PassedOf(i) \union {e.date}
      BY <1>1, <1>4, <3>1 DEF PassedOf, Anniversary, deemedDisposalAnniversaries
    <3>3. e.date \in S /\ S \subseteq Int /\ \A x \in S : x <= e.date
      BY <1>4, <3>2 DEF Earlier
    <3> HIDE DEF S
    <3>4. Latest(S) = e.date
      BY <3>3, LatestIs
    <3>5. Attached(sorted, i, S) = UnitTax(sorted, i, e.date)
      BY <3>3, <3>4 DEF Attached
    <3>6. lots'[i] = [lots[i] EXCEPT !.deemedTaxPerUnit = tax \div quantity]
      BY <1>1, <1>2
    <3>7. lots[i] \in FundLot
      BY <1>2 DEF IInv, TypeOK
    <3>8. lots'[i].deemedTaxPerUnit = tax \div quantity
      BY <3>6, <3>7 DEF FundLot
    <3> QED
      BY <1>8, <2>1, <3>5, <3>8 DEF S
  <2>2. CASE j # i
    <3>1. PassedOf(j)' = PassedOf(j)
      BY <1>1, <2>2, PassedOfKept
    <3>2. lots'[j] = lots[j]
      BY <1>1, <2>2
    <3> QED
      BY <1>1, <3>1, <3>2 DEF EInv, AttachedRight
  <2> QED
    BY <2>1, <2>2
<1> QED
  BY <1>1, <1>17, <1>18, <1>19 DEF EInv, SaleInHand, InPart, NothingListed

----------------------------------------------------------------------------
LEMMA PurchasesFinite ==
  ASSUME NEW s \in Seq(Transaction)
  PROVE  IsFiniteSet(Purchases(s))
<1>1. DOMAIN s = 1..Len(s) /\ Len(s) \in Nat
  OBVIOUS
<1>2. IsFiniteSet(DOMAIN s)
  BY <1>1, FS_Interval
<1>3. Purchases(s) \subseteq DOMAIN s
  BY DEF Purchases
<1> QED
  BY <1>2, <1>3, FS_Subset

(* A sum of parts of lots is a sum of integers.                            *)
LEMMA PartsFamily ==
  ASSUME NEW s \in Seq(Transaction), NEW f, \A i \in Purchases(s) : f[i] \in Int,
         DOMAIN f = Purchases(s), f = [i \in Purchases(s) |-> f[i]]
  PROVE  IsFamily(f, Purchases(s))
BY PurchasesFinite DEF IsFamily

(* When the walk begins a sale, nothing has been taken for it.             *)
LEMMA BeginSaleListed ==
  ASSUME IInv, WInv, EInv, NEW e \in pending, BeginSale(e)
  PROVE  EInv'
<1> DEFINE k == e.index
<1>1. /\ pc = "walk" /\ pc' = "sale" /\ Walking /\ Walking' /\ Reached(e) /\ e.kind = eventSell
      /\ pending' = pending \ {e} /\ sale' = k /\ cost' = 0 /\ credit' = 0
      /\ UNCHANGED <<values, asOf, sorted, lots, deemed, disposals, reason>>
  BY DEF BeginSale, Reached, Walking, inputs, results
<1>2. /\ sorted \in Seq(Transaction) /\ asOf \in AsOfs /\ e \in Events
      /\ Events \subseteq Event /\ DOMAIN lots = Purchases(sorted)
  BY <1>1, InWalk
<1>3. e = SaleEvent(sorted, k) /\ k \in Sales(sorted) /\ e.kind # eventDeemedDisposal
  BY <1>1, <1>2, EventForms DEF Events, eventSell, eventDeemedDisposal
<1>4. Passed' = Passed \union {e} /\ Charged' = Charged
  BY <1>1, <1>3, PassedMore
<1>5. SaleInHand'
  <2>1. \A f \in Passed : Precedes(f, e)
    BY <1>1 DEF Passed, WInv, WalkedInOrder
  <2>2. SaleEvent(sorted, k)' = e
    BY <1>1, <1>3 DEF SaleEvent
  <2>3. Sales(sorted)' = Sales(sorted)
    BY <1>1 DEF Sales, Purchases
  <2>4. SaleEvent(sorted, sale)' = e
    BY <1>1, <1>3 DEF SaleEvent
  <2> QED
    BY <1>1, <1>3, <1>4, <2>1, <2>3, <2>4 DEF SaleInHand
<1>6. Recorded' = Recorded
  <2>1. Matching' = {k} /\ Matching = {}
    BY <1>1 DEF Matching
  <2>2. \A f \in Passed : f.kind = eventSell => f.index # k
    <3> SUFFICES ASSUME NEW f \in Passed, f.kind = eventSell, f.index = k PROVE FALSE
      OBVIOUS
    <3>1. f \in Events /\ f \notin pending
      BY DEF Passed
    <3>2. f = SaleEvent(sorted, f.index)
      BY <1>2, <3>1, EventForms DEF Events
    <3> QED
      BY <1>3, <3>1, <3>2
  <2> QED
    BY <1>1, <1>4, <2>1, <2>2 DEF Recorded
<1>7. ChargesListed' /\ SalesListed'
  BY <1>1, <1>4, <1>6, ListsKept
<1>8. SoldBefore' = SoldBefore
  <2>1. ASSUME NEW j \in Sales(sorted)
        PROVE  SaleEvent(sorted, j) \notin pending' <=> (SaleEvent(sorted, j) \notin pending \/ j = k)
    <3>1. SaleEvent(sorted, j) = e <=> j = k
      BY <1>3 DEF SaleEvent
    <3> QED
      BY <1>1, <3>1
  <2>2. SalesPassed(sorted, pending') \ {k} = SalesPassed(sorted, pending)
    BY <1>3, <2>1 DEF SalesPassed
  <2>3. SalesPassed(sorted, pending)' = SalesPassed(sorted, pending')
    BY <1>1 DEF SalesPassed, Sales, Purchases, SaleEvent
  <2>4. Matching' = {k} /\ Matching = {}
    BY <1>1 DEF Matching
  <2> QED
    BY <1>1, <2>2, <2>3, <2>4 DEF SoldBefore, Units
<1>9. AttachedRight'
  <2>1. \A i : PassedOf(i)' = PassedOf(i)
    BY <1>1, <1>3, PassedOfKept
  <2> QED
    BY <1>1, <1>8, <2>1, AttachedKept
<1>10. InPart'
  <2>1. SoldBefore = Consumed
    BY <1>1, SoldIsConsumed
  <2>2. \A i \in Purchases(sorted) : TakenOf(i)' = 0
    <3>1. \A i \in Purchases(sorted) : lots[i].remaining = Left(sorted, i, SoldBefore) /\ lots[i].remaining \in Nat
      BY <1>1, <1>2, <2>1, UnitPrice DEF WInv, FirstOut
    <3>2. \A i : Left(sorted, i, SoldBefore)' = Left(sorted, i, SoldBefore)
      BY <1>1, <1>8 DEF Left, Units, UpTo, Purchases
    <3> QED
      BY <1>1, <3>1, <3>2 DEF TakenOf
  <2>3. \A i \in Purchases(sorted) : sorted[i].price \in Nat /\ lots[i].deemedTaxPerUnit \in Nat
    BY <1>1, <1>2, UnitPrice
  <2>4. Purchases(sorted)' = Purchases(sorted)
    BY <1>1 DEF Purchases
  <2> DEFINE f == [i \in Purchases(sorted) |-> TakenOf(i)' * sorted'[i].price]
             g == [i \in Purchases(sorted) |-> TakenOf(i)' * lots'[i].deemedTaxPerUnit]
  <2>5. \A i \in Purchases(sorted) : f[i] = 0 /\ g[i] = 0
    BY <1>1, <2>2, <2>3
  <2> HIDE DEF TakenOf
  <2>6. DOMAIN f = Purchases(sorted) /\ DOMAIN g = Purchases(sorted)
    OBVIOUS
  <2>7. f = [i \in Purchases(sorted) |-> f[i]] /\ g = [i \in Purchases(sorted) |-> g[i]]
    OBVIOUS
  <2> HIDE DEF f, g
  <2>8. IsFamily(f, Purchases(sorted)) /\ IsFamily(g, Purchases(sorted))
    BY <1>2, <2>5, <2>6, <2>7, PartsFamily
  <2>9. SumFunction(f) = 0 /\ SumFunction(g) = 0
    BY <2>5, <2>8, SumOfZeros
  <2> QED
    BY <1>1, <2>4, <2>9 DEF InPart, f, g
<1> QED
  BY <1>1, <1>5, <1>7, <1>9, <1>10 DEF EInv, NothingListed

(* What is taken of a lot adds to the cost and the credit of the sale.     *)
LEMMA TakeListed ==
  ASSUME IInv, WInv, EInv, NEW i \in DOMAIN lots, TakeFromLot(i)
  PROVE  EInv'
<1> DEFINE take == minimum(wanted, lots[i].remaining)
<1>1. /\ pc = "sale" /\ Walking /\ Walking'
      /\ cost' = cost + take * unitCost(lots[i])
      /\ credit' = credit + take * lots[i].deemedTaxPerUnit
      /\ lots' = [lots EXCEPT ![i].remaining = @ - take]
      /\ UNCHANGED <<values, asOf, pc, sorted, pending, sale, deemed, disposals>>
  BY DEF TakeFromLot, Walking, inputs
<1>2. lots[i] \in FundLot /\ wanted \in Nat /\ sorted \in Seq(Transaction) /\ DOMAIN lots = Purchases(sorted)
      /\ cost \in Nat /\ credit \in Nat
  BY <1>1, InWalk DEF IInv, TypeOK
<1>3. take \in Nat /\ lots[i].remaining \in Nat
  BY <1>2 DEF minimum, FundLot
<1> HIDE DEF take
<1>4. /\ DOMAIN lots' = DOMAIN lots
      /\ \A j \in DOMAIN lots : j # i => lots'[j] = lots[j]
      /\ \A j \in DOMAIN lots : lots'[j].deemedTaxPerUnit = lots[j].deemedTaxPerUnit
      /\ lots'[i].remaining = lots[i].remaining - take
  <2>1. lots'[i] = [lots[i] EXCEPT !.remaining = lots[i].remaining - take]
    BY <1>1
  <2>2. DOMAIN lots' = DOMAIN lots /\ \A j \in DOMAIN lots : j # i => lots'[j] = lots[j]
    BY <1>1
  <2> QED
    BY <1>2, <2>1, <2>2 DEF FundLot
<1>5. SoldBefore' = SoldBefore /\ \A j : PassedOf(j)' = PassedOf(j)
  <2>1. SoldBefore' = SoldBefore
    BY <1>1 DEF SoldBefore, SalesPassed, Matching, Units, Sales, Purchases, SaleEvent
  <2>2. \A j : PassedOf(j)' = PassedOf(j)
    BY <1>1 DEF PassedOf, Anniversary, deemedDisposalAnniversaries
  <2> QED
    BY <2>1, <2>2
<1>6. AttachedRight'
  BY <1>1, <1>4, <1>5, AttachedKept
<1>7. Charged' = Charged /\ Recorded' = Recorded /\ Passed' = Passed
  <2>1. Passed' = Passed /\ Matching' = Matching
    BY <1>1, ChargeFrame DEF Passed, Matching
  <2>2. \A j, d : HeldAt(sorted, j, d)' = HeldAt(sorted, j, d)
    BY <1>1, ChargeFrame
  <2> QED
    BY <2>1, <2>2 DEF Charged, Recorded
<1>8. ChargesListed' /\ SalesListed'
  BY <1>1, <1>7, ListsKept
<1>9. SaleInHand'
  BY <1>1, <1>7 DEF EInv, SaleInHand, Sales, Purchases, SaleEvent
<1>10. SoldBefore \in Nat
  <2>1. SalesPassed(sorted, pending) \ Matching \in SUBSET DOMAIN sorted
    BY DEF SalesPassed, Sales
  <2> QED
    BY <1>2, <2>1, UnitsMore DEF SoldBefore
<1>11. \A j \in Purchases(sorted) :
         /\ TakenOf(j) \in Int /\ TakenOf(j)' \in Int
         /\ TakenOf(j)' = IF j = i THEN TakenOf(j) + take ELSE TakenOf(j)
         /\ sorted[j].price \in Nat /\ lots[j].deemedTaxPerUnit \in Nat
  <2> SUFFICES ASSUME NEW j \in Purchases(sorted)
               PROVE  /\ TakenOf(j) \in Int /\ TakenOf(j)' \in Int
                      /\ TakenOf(j)' = IF j = i THEN TakenOf(j) + take ELSE TakenOf(j)
                      /\ sorted[j].price \in Nat /\ lots[j].deemedTaxPerUnit \in Nat
    OBVIOUS
  <2>1. sorted[j].price \in Nat /\ lots[j].deemedTaxPerUnit \in Nat /\ lots[j].remaining \in Nat
    BY <1>1, <1>2, UnitPrice
  <2>2. Left(sorted, j, SoldBefore)' = Left(sorted, j, SoldBefore)
    BY <1>1, <1>5 DEF Left, Units, UpTo, Purchases
  <2>3. Left(sorted, j, SoldBefore) \in Nat
    BY <1>2, <1>10, LeftBounds
  <2>4. TakenOf(j)' = Left(sorted, j, SoldBefore) - lots'[j].remaining
    BY <2>2 DEF TakenOf
  <2>5. TakenOf(j) = Left(sorted, j, SoldBefore) - lots[j].remaining
    BY DEF TakenOf
  <2>6. CASE j = i
    BY <1>3, <1>4, <2>1, <2>3, <2>4, <2>5, <2>6
  <2>7. CASE j # i
    <3>1. lots'[j] = lots[j]
      BY <1>2, <1>4, <2>7
    <3> QED
      BY <2>1, <2>3, <2>4, <2>5, <2>7, <3>1
  <2> QED
    BY <2>6, <2>7
<1>12. unitCost(lots[i]) = sorted[i].price /\ i \in Purchases(sorted)
  BY <1>1, <1>2, UnitPrice
<1> DEFINE P  == Purchases(sorted)
           f  == [j \in P |-> TakenOf(j) * sorted[j].price]
           f1 == [j \in P |-> TakenOf(j)' * sorted[j].price]
           g  == [j \in P |-> TakenOf(j) * lots[j].deemedTaxPerUnit]
           g1 == [j \in P |-> TakenOf(j)' * lots[j].deemedTaxPerUnit]
<1>13. OneChanged(f1, f, P, i) /\ OneChanged(g1, g, P, i)
  <2>1. \A j \in P : f[j] \in Int /\ f1[j] \in Int /\ g[j] \in Int /\ g1[j] \in Int
    BY <1>11
  <2>2. \A j \in P \ {i} : f1[j] = f[j] /\ g1[j] = g[j]
    BY <1>11
  <2>3. /\ DOMAIN f = P /\ DOMAIN f1 = P /\ DOMAIN g = P /\ DOMAIN g1 = P
        /\ f = [j \in P |-> f[j]] /\ f1 = [j \in P |-> f1[j]]
        /\ g = [j \in P |-> g[j]] /\ g1 = [j \in P |-> g1[j]]
    OBVIOUS
  <2> HIDE DEF f, f1, g, g1
  <2>4. IsFamily(f, P) /\ IsFamily(f1, P) /\ IsFamily(g, P) /\ IsFamily(g1, P)
    BY <1>2, <2>1, <2>3, PartsFamily
  <2> QED
    BY <1>12, <2>2, <2>4 DEF OneChanged
<1>14. /\ f1[i] - f[i] = take * sorted[i].price /\ f1[i] \in Int /\ f[i] \in Int
       /\ g1[i] - g[i] = take * lots[i].deemedTaxPerUnit /\ g1[i] \in Int /\ g[i] \in Int
  <2> DEFINE t == TakenOf(i)
             t1 == TakenOf(i)'
             u == sorted[i].price
             v == lots[i].deemedTaxPerUnit
  <2>1. t \in Int /\ t1 = t + take /\ u \in Nat /\ v \in Nat
    BY <1>11, <1>12
  <2>2. f1[i] = t1 * u /\ f[i] = t * u /\ g1[i] = t1 * v /\ g[i] = t * v
    BY <1>12
  <2> HIDE DEF t, t1, u, v, f, f1, g, g1
  <2>3. (t + take) * u = t * u + take * u /\ (t + take) * v = t * v + take * v
    BY <1>3, <2>1
  <2>4. t * u \in Int /\ take * u \in Int /\ t * v \in Int /\ take * v \in Int
    BY <1>3, <2>1
  <2>5. f1[i] = t * u + take * u /\ g1[i] = t * v + take * v
    BY <2>1, <2>2, <2>3
  <2> QED
    BY <2>2, <2>4, <2>5 DEF u, v
<1>15. cost = SumFunction(f) /\ credit = SumFunction(g)
  BY <1>1 DEF EInv, InPart
<1>16. SumFunction(f1) = SumFunction(f) + f1[i] - f[i] /\ SumFunction(g1) = SumFunction(g) + g1[i] - g[i]
  BY <1>13, SumChanged
<1>17. InPart'
  <2>1. cost' = SumFunction(f1) /\ credit' = SumFunction(g1)
    <3> HIDE DEF f, f1, g, g1
    <3>1. take * sorted[i].price \in Int /\ take * lots[i].deemedTaxPerUnit \in Int
      BY <1>3, <1>11, <1>12
    <3> QED
      BY <1>1, <1>2, <1>12, <1>14, <1>15, <1>16, <3>1
  <2>2. /\ f1 = [j \in P' |-> TakenOf(j)' * sorted'[j].price]
        /\ g1 = [j \in P' |-> TakenOf(j)' * lots'[j].deemedTaxPerUnit]
    <3>1. P' = P
      BY <1>1 DEF Purchases
    <3> QED
      BY <1>1, <1>2, <1>4, <3>1
  <2> QED
    BY <2>1, <2>2 DEF InPart
<1> QED
  BY <1>1, <1>6, <1>8, <1>9, <1>17 DEF EInv, NothingListed

(* The sale the walk is in, as Sold has it.                                *)
LEMMA RecordListed ==
  ASSUME IInv, WInv, EInv, RecordDisposal
  PROVE  EInv'
<1> DEFINE k    == sale
           sell == sorted[sale]
           gain == sell.quantity * sell.price - cost
           tax  == positive(gain) * ExitRate[sell.date]
           record == [lot |-> 0, date |-> sell.date, quantity |-> sell.quantity, gain |-> gain,
                      tax |-> tax, credit |-> credit, due |-> tax - credit]
           m == SoldBefore
           q == sell.quantity
<1> PICK e : e = SaleEvent(sorted, sale)
  OBVIOUS
<1>1. /\ pc = "sale" /\ pc' = "walk" /\ wanted = 0 /\ Walking /\ Walking'
      /\ disposals' = Append(disposals, record)
      /\ UNCHANGED <<values, asOf, sorted, lots, pending, sale, deemed>>
  BY DEF RecordDisposal, Walking, inputs, saleVars
<1>2. /\ sorted \in Seq(Transaction) /\ asOf \in AsOfs /\ asOf \in Nat
      /\ Events \subseteq Event /\ DOMAIN lots = Purchases(sorted)
      /\ disposals \in Seq(ChargeableEvent)
  BY <1>1, InWalk DEF IInv, TypeOK
<1>3. /\ e \in Events /\ e \notin pending /\ k \in Sales(sorted)
      /\ \A f \in Events : f # e => /\ f \notin pending <=> Precedes(f, e)
                                    /\ f \in pending <=> Precedes(e, f)
  <2>1. SaleInHand
    BY DEF EInv
  <2> QED
    BY <1>1, <2>1, SplitAtSale DEF SaleInHand
<1>4. e.kind = eventSell /\ e.index = k /\ e.date = sell.date /\ k \in DOMAIN sorted
  BY <1>3 DEF SaleEvent, Sales
<1>5. SalesPassed(sorted, pending) \ Matching = SoldFirst(sorted, k)
  <2>1. ASSUME NEW j \in Sales(sorted)
        PROVE  SaleEvent(sorted, j) \notin pending /\ j # k <=> Precedes(SaleEvent(sorted, j), e)
    <3>1. SaleEvent(sorted, j) \in Events
      BY <1>2, EventForms DEF Events
    <3>2. CASE j = k
      BY <1>2, <1>3, <3>1, <3>2, PrecedesOneWay
    <3>3. CASE j # k
      <4>1. SaleEvent(sorted, j) # e
        BY <3>3 DEF SaleEvent
      <4> QED
        BY <1>3, <3>1, <3>3, <4>1
    <3> QED
      BY <3>2, <3>3
  <2>2. Matching = {k}
    BY <1>1 DEF Matching
  <2> QED
    BY <2>1, <2>2 DEF SalesPassed, SoldFirst
<1>6. /\ m = Units(sorted, SoldFirst(sorted, k)) /\ m \in Nat
      /\ Units(sorted, SalesPassed(sorted, pending)) = m + q
      /\ Consumed = m + q /\ q \in Nat \ {0}
  <2> DEFINE T == SalesPassed(sorted, pending) \ Matching
  <2>1. T \in SUBSET DOMAIN sorted /\ k \notin T /\ k \in DOMAIN sorted
        /\ SalesPassed(sorted, pending) = T \union {k}
    BY <1>1, <1>3 DEF SalesPassed, Sales, Matching
  <2>2. Units(sorted, T) \in Nat
    BY <1>2, <2>1, UnitsMore
  <2> HIDE DEF T
  <2>3. Units(sorted, T \union {k}) = Units(sorted, T) + sorted[k].quantity
    BY <1>2, <2>1, UnitsAdded
  <2>4. sorted[k].quantity \in Nat \ {0}
    BY <1>2, <2>1, Quantity
  <2>5. m = Units(sorted, T)
    BY DEF SoldBefore, T
  <2>6. T = SoldFirst(sorted, k)
    BY <1>5 DEF T
  <2>7. Consumed = Units(sorted, SalesPassed(sorted, pending)) - 0
    BY <1>1 DEF Consumed
  <2> QED
    BY <2>1, <2>2, <2>3, <2>4, <2>5, <2>6, <2>7
<1>7. \A i \in Purchases(sorted) :
        /\ TakenOf(i) = Taken(sorted, i, m, q)
        /\ Left(sorted, i, m + q) <= Left(sorted, i, m)
        /\ Left(sorted, i, m + q) \in Nat /\ Left(sorted, i, m) \in Nat
  <2> SUFFICES ASSUME NEW i \in Purchases(sorted)
               PROVE  /\ TakenOf(i) = Taken(sorted, i, m, q)
                      /\ Left(sorted, i, m + q) <= Left(sorted, i, m)
                      /\ Left(sorted, i, m + q) \in Nat /\ Left(sorted, i, m) \in Nat
    OBVIOUS
  <2>1. lots[i].remaining = Left(sorted, i, m + q)
    BY <1>1, <1>2, <1>6 DEF WInv, FirstOut
  <2>2. m + q \in Nat /\ m <= m + q
    BY <1>6
  <2> HIDE DEF m, q
  <2>3. /\ Left(sorted, i, m + q) <= Left(sorted, i, m)
        /\ Left(sorted, i, m + q) \in Nat /\ Left(sorted, i, m) \in Nat
    BY <1>2, <1>6, <2>2, LeftFewer
  <2> QED
    BY <2>1, <2>3 DEF TakenOf, Taken, m
<1>8. cost = Cost(sorted, m, q)
  <2>1. cost = SumFunction([i \in Purchases(sorted) |-> TakenOf(i) * sorted[i].price])
    BY <1>1 DEF EInv, InPart
  <2> HIDE DEF m, q
  <2>2. [i \in Purchases(sorted) |-> TakenOf(i) * sorted[i].price]
          = [i \in Purchases(sorted) |-> Taken(sorted, i, m, q) * sorted[i].price]
    BY <1>7
  <2> QED
    BY <2>1, <2>2 DEF Cost
<1>9. \A i \in Purchases(sorted) : PassedOf(i) = Earlier(sorted, i, asOf, sell.date + 1)
  <2> SUFFICES ASSUME NEW i \in Purchases(sorted),
                      NEW x \in deemedDisposalAnniversaries(sorted[i].date, asOf)
               PROVE  Anniversary(i, x) \notin pending <=> x < sell.date + 1
    BY DEF PassedOf, Earlier
  <2>1. Anniversary(i, x) \in Events
    BY <1>2, EventForms DEF Events
  <2>2. Anniversary(i, x) # e
    BY <1>4 DEF Anniversary, eventSell, eventDeemedDisposal
  <2>3. Anniversary(i, x) \notin pending <=> Precedes(Anniversary(i, x), e)
    BY <1>3, <2>1, <2>2
  <2>4. x \in Nat /\ sell.date \in Nat
    <3>1. i \in DOMAIN sorted
      BY DEF Purchases
    <3>2. sorted[i].date \in Nat /\ sell.date \in Nat
      BY <1>2, <1>4, <3>1, Quantity
    <3>3. x \in sorted[i].date..asOf
      BY <1>2, <3>2, AnniversaryDate
    <3> QED
      BY <3>2, <3>3
  <2>5. Precedes(Anniversary(i, x), e) <=> x <= sell.date
    BY <1>4, <2>4 DEF Precedes, Anniversary, eventSell, eventDeemedDisposal
  <2> HIDE DEF sell
  <2> QED
    BY <2>3, <2>4, <2>5
<1>10. credit = Credited(sorted, asOf, sell.date, m, q)
  <2>1. credit = SumFunction([i \in Purchases(sorted) |-> TakenOf(i) * lots[i].deemedTaxPerUnit])
    BY <1>1 DEF EInv, InPart
  <2> DEFINE A(i) == Attached(sorted, i, Earlier(sorted, i, asOf, sell.date + 1))
             C(i) == IF Taken(sorted, i, m, q) = 0 THEN 0 ELSE Taken(sorted, i, m, q) * A(i)
  <2>2. ASSUME NEW i \in Purchases(sorted)
        PROVE  TakenOf(i) * lots[i].deemedTaxPerUnit = C(i)
    <3>1. TakenOf(i) = Taken(sorted, i, m, q)
      BY <1>7
    <3>2. CASE Taken(sorted, i, m, q) = 0
      <4>1. lots[i].deemedTaxPerUnit \in Nat
        BY <1>1, <1>2, UnitPrice
      <4>2. TakenOf(i) = 0 /\ C(i) = 0
        BY <3>1, <3>2
      <4> QED
        BY <4>1, <4>2
    <3>3. CASE Taken(sorted, i, m, q) # 0
      <4>1. Left(sorted, i, m) # 0
        <5> HIDE DEF m, q
        <5> QED
          BY <1>7, <3>3 DEF Taken
      <4>2. lots[i].deemedTaxPerUnit = Attached(sorted, i, PassedOf(i))
        BY <1>1, <1>2, <4>1 DEF EInv, AttachedRight
      <4>3. lots[i].deemedTaxPerUnit = A(i)
        BY <1>9, <4>2
      <4> HIDE DEF A
      <4> QED
        BY <3>1, <3>3, <4>3
    <3> QED
      BY <3>2, <3>3
  <2>3. [i \in Purchases(sorted) |-> TakenOf(i) * lots[i].deemedTaxPerUnit]
          = [i \in Purchases(sorted) |-> C(i)]
    <3> HIDE DEF C
    <3> QED
      BY <2>2
  <2> QED
    BY <2>1, <2>3 DEF Credited
<1>11. record = Sold(sorted, asOf, e)
  <2> HIDE DEF m, q
  <2>1. m = Units(sorted, SoldFirst(sorted, k)) /\ q = sorted[k].quantity
    BY <1>6 DEF q
  <2> QED
    BY <1>4, <1>8, <1>10, <2>1 DEF Sold, q
<1>12. Charged' = Charged /\ Recorded' = Recorded \union {e} /\ Passed' = Passed
  <2>1. Passed' = Passed /\ Matching' = {} /\ Matching = {k}
    BY <1>1, ChargeFrame DEF Passed, Matching
  <2>2. \A j, d : HeldAt(sorted, j, d)' = HeldAt(sorted, j, d)
    BY <1>1, ChargeFrame
  <2>3. Charged' = Charged
    BY <2>1, <2>2 DEF Charged
  <2>4. \A f \in Passed : f.kind = eventSell /\ f.index = k <=> f = e
    <3>1. \A f \in Passed : f.kind = eventSell => f = SaleEvent(sorted, f.index)
      BY <1>2, EventForms DEF Passed, Events
    <3> QED
      BY <1>4, <3>1
  <2>5. e \in Passed
    BY <1>3 DEF Passed
  <2>6. Recorded' = {f \in Passed : f.kind = eventSell}
    BY <2>1 DEF Recorded
  <2>7. Recorded = {f \in Passed : f.kind = eventSell /\ f.index # k}
    BY <2>1 DEF Recorded
  <2> QED
    BY <1>4, <2>1, <2>3, <2>4, <2>5, <2>6, <2>7
<1>13. \A f \in Recorded : <<f, e>> \in Order
  <2> SUFFICES ASSUME NEW f \in Recorded PROVE <<f, e>> \in Order
    OBVIOUS
  <2>1. f \in Events /\ f \notin pending /\ f # e
    BY <1>1, <1>4 DEF Recorded, Passed, Matching
  <2>2. Precedes(f, e)
    BY <1>3, <2>1
  <2> QED
    BY <1>2, <1>3, <2>1, <2>2 DEF Order
<1> PICK n \in Nat : n = Len(disposals)
  BY <1>2
<1>14. /\ n = Len(disposals) /\ Len(disposals') = n + 1 /\ disposals'[n + 1] = record
       /\ \A j \in 1..n : disposals'[j] = disposals[j]
  <2> HIDE DEF record
  <2> QED
    BY <1>1, <1>2
<1> HIDE DEF record, gain, tax, sell, k, m, q
<1>15. SalesListed'
  <2>1. PICK at \in [1..n -> Recorded] :
          /\ Enumerates(at, n, Recorded, Order)
          /\ \A j \in 1..n : disposals[j] = Sold(sorted, asOf, at[j])
    BY <1>1, <1>14 DEF EInv, SalesListed
  <2> DEFINE bt == Longer(at, n, e)
  <2>2. Enumerates(bt, n + 1, Recorded \union {e}, Order)
    BY <1>13, <2>1, EnumerateMore
  <2>3. bt[n + 1] = e /\ \A j \in 1..n : bt[j] = at[j]
    BY LongerAt
  <2> HIDE DEF bt
  <2>4. bt \in [1..(n + 1) -> Recorded']
    BY <1>12, <2>2 DEF Enumerates
  <2>5. \A j \in 1..(n + 1) : disposals'[j] = Sold(sorted, asOf, bt[j])
    <3>1. \A j \in 1..(n + 1) : j = n + 1 \/ j \in 1..n
      OBVIOUS
    <3> QED
      BY <1>11, <1>14, <2>1, <2>3, <3>1
  <2>6. \A j \in 1..(n + 1) : disposals'[j] = Sold(sorted, asOf, bt[j])'
    BY <1>1, <2>5, ChargeFrame
  <2> QED
    BY <1>12, <1>14, <2>2, <2>4, <2>6 DEF SalesListed
<1>16. ChargesListed'
  <2>1. PICK at \in [1..Len(deemed) -> Charged] :
          /\ Enumerates(at, Len(deemed), Charged, Order)
          /\ \A j \in 1..Len(deemed) : deemed[j] = Charge(sorted, asOf, at[j])
    BY <1>1 DEF EInv, ChargesListed
  <2>2. \A j \in 1..Len(deemed') : deemed'[j] = Charge(sorted, asOf, at[j])'
    BY <1>1, <2>1, ChargeFrame
  <2> QED
    BY <1>1, <1>12, <2>1, <2>2 DEF ChargesListed
<1>17. AttachedRight'
  <2>1. SoldBefore' = m + q
    <3>1. SoldBefore' = Units(sorted, SalesPassed(sorted, pending) \ Matching')
      BY <1>1 DEF SoldBefore, SalesPassed, Sales, Purchases, SaleEvent, Units
    <3>2. Matching' = {}
      BY <1>1 DEF Matching
    <3> QED
      BY <1>6, <3>1, <3>2
  <2>2. \A i \in DOMAIN lots : Left(sorted, i, SoldBefore') # 0 => Left(sorted, i, SoldBefore) # 0
    BY <1>2, <1>7, <2>1 DEF m
  <2>3. \A i : PassedOf(i)' = PassedOf(i)
    BY <1>1 DEF PassedOf, Anniversary, deemedDisposalAnniversaries
  <2> QED
    BY <1>1, <2>2, <2>3, AttachedKept
<1> QED
  BY <1>1, <1>15, <1>16, <1>17 DEF EInv, SaleInHand, InPart, NothingListed

LEMMA ReturnListed ==
  ASSUME IInv, WInv, EInv, Return
  PROVE  EInv'
<1>1. /\ pc = "walk" /\ pc' = "done" /\ Walking /\ Walking'
      /\ UNCHANGED <<values, asOf, sorted, lots, pending, sale, deemed, disposals>>
  BY DEF Return, Walking, inputs, saleVars, results
<1>2. Passed' = Passed /\ Matching' = {} /\ Matching = {}
  BY <1>1, ChargeFrame DEF Passed, Matching
<1>3. \A j, d : HeldAt(sorted, j, d)' = HeldAt(sorted, j, d)
  BY <1>1, ChargeFrame
<1>4. Charged' = Charged /\ Recorded' = Recorded
  BY <1>2, <1>3 DEF Charged, Recorded
<1>5. ChargesListed' /\ SalesListed'
  BY <1>1, <1>4, ListsKept
<1>6. SoldBefore' = SoldBefore /\ \A j : PassedOf(j)' = PassedOf(j)
  <2>1. SoldBefore' = SoldBefore
    BY <1>1, <1>2 DEF SoldBefore, SalesPassed, Units, Sales, Purchases, SaleEvent
  <2>2. \A j : PassedOf(j)' = PassedOf(j)
    BY <1>1 DEF PassedOf, Anniversary, deemedDisposalAnniversaries
  <2> QED
    BY <2>1, <2>2
<1>7. AttachedRight'
  BY <1>1, <1>6, AttachedKept
<1> QED
  BY <1>1, <1>5, <1>7 DEF EInv, SaleInHand, InPart, NothingListed

(* A call that fails lists nothing more that matters.                      *)
LEMMA FailListed ==
  ASSUME pc' = "error"
  PROVE  EInv'
BY DEF EInv, SaleInHand, AttachedRight, InPart, ChargesListed, SalesListed, NothingListed, Walking

(* Nothing is listed when the walk begins, and nothing is attached.        *)
LEMMA BuildListed ==
  ASSUME IInv, WInv, EInv, buildFundEvents
  PROVE  EInv'
<1>1. /\ pc = "build" /\ pc' = "walk"
      /\ \E p \in StableOrders(sorted) : sorted' = [i \in DOMAIN sorted |-> sorted[p[i]]]
      /\ lots' = [i \in Purchases(sorted') |-> NewFundLot(sorted'[i])]
      /\ pending' = fundEvents(sorted', asOf) /\ asOf' = asOf
      /\ UNCHANGED <<deemed, disposals>>
  BY DEF buildFundEvents, inputs
<1>2. deemed = << >> /\ disposals = << >>
  BY <1>1 DEF EInv, NothingListed
<1>3. sorted' \in Seq(Transaction) /\ asOf' \in AsOfs
  BY BuildStep DEF IInv, TypeOK
<1>4. Events' = pending' /\ Passed' = {}
  BY <1>1 DEF Events, Passed
<1>5. Charged' = {} /\ Recorded' = {}
  BY <1>4 DEF Charged, Recorded
<1>6. Len(deemed') = 0 /\ Len(disposals') = 0
  BY <1>1, <1>2
<1> DEFINE none == [x \in 1..0 |-> 0]
<1>7. none \in [1..0 -> {}]
  OBVIOUS
<1> HIDE DEF none
<1>8. ChargesListed'
  <2>1. none \in [1..0 -> Charged'] /\ Enumerates(none, 0, Charged', Order)
    BY <1>5, <1>7, EnumerateNone
  <2>2. \A k \in 1..0 : deemed'[k] = Charge(sorted, asOf, none[k])'
    OBVIOUS
  <2> QED
    BY <1>6, <2>1, <2>2 DEF ChargesListed
<1>9. SalesListed'
  <2>1. none \in [1..0 -> Recorded'] /\ Enumerates(none, 0, Recorded', Order)
    BY <1>5, <1>7, EnumerateNone
  <2>2. \A k \in 1..0 : disposals'[k] = Sold(sorted, asOf, none[k])'
    OBVIOUS
  <2> QED
    BY <1>6, <2>1, <2>2 DEF SalesListed
<1>10. AttachedRight'
  <2> SUFFICES ASSUME NEW i \in DOMAIN lots'
               PROVE  lots'[i].deemedTaxPerUnit = Attached(sorted, i, PassedOf(i))'
    BY DEF AttachedRight
  <2>1. i \in Purchases(sorted')
    BY <1>1
  <2>2. lots'[i].deemedTaxPerUnit = 0
    BY <1>1, <2>1 DEF NewFundLot
  <2>3. PassedOf(i)' = {}
    <3>1. \A x \in deemedDisposalAnniversaries(sorted'[i].date, asOf') : Anniversary(i, x) \in pending'
      BY <1>1, <1>3, <2>1, EventForms
    <3> QED
      BY <3>1 DEF PassedOf
  <2>4. Attached(sorted, i, PassedOf(i))' = 0
    BY <2>3 DEF Attached
  <2> QED
    BY <2>2, <2>4
<1> QED
  BY <1>1, <1>8, <1>9, <1>10 DEF EInv, SaleInHand, InPart, NothingListed

LEMMA ListStep ==
  ASSUME IInv, WInv, EInv, [Next]_vars
  PROVE  EInv'
<1>1. CASE ToEURPrices
  BY <1>1 DEF ToEURPrices, results, EInv, SaleInHand, AttachedRight, InPart, ChargesListed,
              SalesListed, NothingListed, Walking
<1>2. CASE RateUnavailable
  BY <1>2, FailListed DEF RateUnavailable, Fail
<1>3. CASE buildFundEvents
  BY <1>3, BuildListed
<1>4. CASE UnsupportedType
  BY <1>4, FailListed DEF UnsupportedType, Fail
<1>5. ASSUME NEW e \in pending,
             PassBuy(e) \/ PassSoldLot(e) \/ chargeDeemedDisposal(e)
               \/ MissingValuation(e) \/ BeginSale(e)
      PROVE  EInv'
  <2>1. MissingValuation(e) => EInv'
    BY FailListed DEF MissingValuation, Fail
  <2> QED
    BY <1>5, <2>1, PassListed, ChargeListed, BeginSaleListed
<1>6. ASSUME NEW i \in DOMAIN lots, TakeFromLot(i) PROVE EInv'
  BY <1>6, TakeListed
<1>7. CASE Oversell
  BY <1>7, FailListed DEF Oversell, Fail
<1>8. CASE RecordDisposal
  BY <1>8, RecordListed
<1>9. CASE Return
  BY <1>9, ReturnListed
<1>10. CASE UNCHANGED vars
  <2>1. UNCHANGED <<values, asOf, pc, sorted, lots, pending, sale, wanted, cost, credit, deemed, disposals>>
    BY <1>10 DEF vars, inputs, saleVars, results
  <2>2. CASE ~ Walking
    BY <2>1, <2>2 DEF EInv, SaleInHand, AttachedRight, InPart, ChargesListed,
                      SalesListed, NothingListed, Walking
  <2>3. CASE Walking
    <3>1. Passed' = Passed /\ Matching' = Matching
      BY <2>1, ChargeFrame DEF Passed, Matching
    <3>2. \A j, d : HeldAt(sorted, j, d)' = HeldAt(sorted, j, d)
      BY <2>1, ChargeFrame
    <3>3. Charged' = Charged /\ Recorded' = Recorded
      BY <3>1, <3>2 DEF Charged, Recorded
    <3>4. ChargesListed' /\ SalesListed'
      BY <2>1, <2>3, <3>3, ListsKept
    <3>5. SoldBefore' = SoldBefore /\ \A j : PassedOf(j)' = PassedOf(j)
      BY <2>1, <3>1 DEF SoldBefore, SalesPassed, Units, Sales, Purchases, SaleEvent,
                        PassedOf, Anniversary, deemedDisposalAnniversaries
    <3>6. AttachedRight'
      BY <2>1, <2>3, <3>5, AttachedKept
    <3>7. SaleInHand'
      BY <2>1, <3>1 DEF EInv, SaleInHand, Sales, Purchases, SaleEvent
    <3>8. InPart'
      <4>1. \A j : TakenOf(j)' = TakenOf(j)
        BY <2>1, <3>5 DEF TakenOf, Left, Units, UpTo, Purchases
      <4> QED
        BY <2>1, <4>1 DEF EInv, InPart, Purchases
    <3> QED
      BY <2>1, <3>4, <3>6, <3>7, <3>8 DEF EInv, NothingListed
  <2> QED
    BY <2>2, <2>3
<1> QED
  BY <1>1, <1>2, <1>3, <1>4, <1>5, <1>6, <1>7, <1>8, <1>9, <1>10 DEF Next

----------------------------------------------------------------------------
(* There is one stable order: it lists every position, each before those   *)
(* it comes before.                                                        *)
Earliest(s) == {w \in Nat \X Nat : ComesBefore(s, w[1], w[2])}

LEMMA StableLists ==
  ASSUME NEW s \in Seq(Transaction), NEW p \in StableOrders(s)
  PROVE  Enumerates(p, Len(s), DOMAIN s, Earliest(s))
<1> DEFINE D == DOMAIN s
<1>1. D = 1..Len(s) /\ Len(s) \in Nat
  OBVIOUS
<1>2. p \in [D -> D] /\ \A i, j \in D : i < j => ComesBefore(s, p[i], p[j])
  BY DEF StableOrders
<1>3. \A i \in D : ~ ComesBefore(s, i, i)
  <2>1. \A i \in D : s[i].date \in Nat /\ i \in Nat
    BY Quantity
  <2> QED
    BY <2>1 DEF ComesBefore
<1>4. ASSUME NEW i \in D, NEW j \in D, p[i] = p[j] PROVE i = j
  <2>1. i \in Nat /\ j \in Nat /\ p[i] \in D
    BY <1>1, <1>2
  <2>2. ~ (i < j) /\ ~ (j < i)
    BY <1>2, <1>3, <1>4, <2>1
  <2> QED
    BY <2>1, <2>2
<1>5. p \in Injection(D, D)
  BY <1>2, <1>4 DEF Injection, IsInjective
<1>6. IsFiniteSet(D)
  BY <1>1, FS_Interval
<1>7. p \in Surjection(D, D)
  BY <1>5, <1>6, FS_Injection
<1>8. \A e \in D : \E k \in D : p[k] = e
  BY <1>7 DEF Surjection
<1>9. \A k, l \in D : k < l => <<p[k], p[l]>> \in Earliest(s)
  <2> SUFFICES ASSUME NEW k \in D, NEW l \in D, k < l PROVE <<p[k], p[l]>> \in Earliest(s)
    OBVIOUS
  <2>1. p[k] \in D /\ p[l] \in D /\ ComesBefore(s, p[k], p[l])
    BY <1>2
  <2>2. p[k] \in Nat /\ p[l] \in Nat
    BY <2>1
  <2> HIDE DEF D
  <2> QED
    BY <2>1, <2>2 DEF Earliest
<1> QED
  BY <1>1, <1>2, <1>8, <1>9 DEF Enumerates

LEMMA StableUnique ==
  ASSUME NEW s \in Seq(Transaction), NEW p \in StableOrders(s), NEW q \in StableOrders(s)
  PROVE  p = q
<1> DEFINE D == DOMAIN s
           R == Earliest(s)
           n == Len(s)
<1>1. D = 1..Len(s) /\ Len(s) \in Nat
  OBVIOUS
<1>2. Enumerates(p, n, D, R) /\ Enumerates(q, n, D, R)
  BY StableLists
<1>3. \A a, b \in D : <<a, b>> \in R => <<b, a>> \notin R
  <2>1. \A i \in D : s[i].date \in Nat /\ i \in Nat
    BY Quantity
  <2> QED
    BY <2>1 DEF ComesBefore, Earliest
<1>4. p \in [D -> D] /\ q \in [D -> D]
  BY DEF StableOrders
<1> HIDE DEF R, D, n
<1>5. \A k \in 1..n : p[k] = q[k]
  <2>1. D \subseteq D /\ \A a \in D : \A b \in D \ D : <<a, b>> \in R
    OBVIOUS
  <2>2. /\ n <= n
        /\ \A k \in 1..n : p[k] = q[k]
        /\ \A k \in 1..n : k > n => q[k] \in D \ D
    BY <1>2, <1>3, <2>1, SameOrder
  <2> QED
    BY <2>2
<1> QED
  BY <1>1, <1>4, <1>5 DEF n

----------------------------------------------------------------------------
(* What a call that returns has listed.                                    *)

Euros(t) == [i \in DOMAIN t |-> InEUR(t[i])]

Sortings(t) == {[i \in DOMAIN t |-> Euros(t)[p[i]]] : p \in StableOrders(Euros(t))}

ChargedTo(s, asof) ==
  {e \in fundEvents(s, asof) : e.kind = eventDeemedDisposal /\ HeldAt(s, e.index, e.date) # 0}

SoldTo(s, asof) == {e \in fundEvents(s, asof) : e.kind = eventSell}

ListOfCharges(s, asof, ds) ==
  \E at : /\ Enumerates(at, Len(ds), ChargedTo(s, asof), Order)
          /\ \A k \in 1..Len(ds) : ds[k] = Charge(s, asof, at[k])

ListOfSales(s, asof, es) ==
  \E at : /\ Enumerates(at, Len(es), SoldTo(s, asof), Order)
          /\ \A k \in 1..Len(es) : es[k] = Sold(s, asof, at[k])

Outcome(s, asof, ds, es) ==
  /\ ds \in Seq(ChargeableEvent) /\ es \in Seq(ChargeableEvent)
  /\ ListOfCharges(s, asof, ds) /\ ListOfSales(s, asof, es)

(* A call that returns has passed every event.                             *)
LEMMA Done ==
  ASSUME IInv, WInv, EInv, pc = "done"
  PROVE  Outcome(sorted, asOf, deemed, disposals)
<1>1. Walking /\ pending = {}
  BY DEF Walking, WInv, WalkedInOrder
<1>2. Passed = Events /\ Matching = {}
  BY <1>1 DEF Passed, Matching
<1>3. Charged = ChargedTo(sorted, asOf) /\ Recorded = SoldTo(sorted, asOf)
  BY <1>2 DEF Charged, Recorded, ChargedTo, SoldTo, Events
<1>4. ListOfCharges(sorted, asOf, deemed) /\ ListOfSales(sorted, asOf, disposals)
  BY <1>1, <1>3 DEF EInv, ChargesListed, SalesListed, ListOfCharges, ListOfSales
<1>5. deemed \in Seq(ChargeableEvent) /\ disposals \in Seq(ChargeableEvent)
  BY DEF IInv, TypeOK
<1> QED
  BY <1>4, <1>5 DEF Outcome

(* One transactions list has one sorting.                                  *)
LEMMA EurosType ==
  ASSUME NEW t \in Seq(Transaction)
  PROVE  /\ Euros(t) \in Seq(Transaction) /\ DOMAIN Euros(t) = DOMAIN t
         /\ \A i \in DOMAIN t : Euros(t)[i].date = t[i].date
<1>1. \A i \in DOMAIN t : InEUR(t[i]) \in Transaction
  BY InEURType
<1>2. DOMAIN t = 1..Len(t) /\ Len(t) \in Nat
  OBVIOUS
<1>3. Euros(t) \in Seq(Transaction)
  BY <1>1, <1>2 DEF Euros
<1>4. \A i \in DOMAIN t : InEUR(t[i]).date = t[i].date
  <2>1. \A i \in DOMAIN t : t[i] \in Transaction
    BY Quantity
  <2> QED
    BY <2>1 DEF InEUR, Transaction
<1> QED
  BY <1>3, <1>4 DEF Euros

LEMMA OneSorting ==
  ASSUME NEW t \in Seq(Transaction), NEW r \in Sortings(t), NEW s \in Sortings(t)
  PROVE  r = s
<1>1. Euros(t) \in Seq(Transaction)
  BY EurosType
<1>2. PICK p \in StableOrders(Euros(t)) : r = [i \in DOMAIN t |-> Euros(t)[p[i]]]
  BY DEF Sortings
<1>3. PICK q \in StableOrders(Euros(t)) : s = [i \in DOMAIN t |-> Euros(t)[q[i]]]
  BY DEF Sortings
<1>4. p = q
  BY <1>1, StableUnique
<1> QED
  BY <1>2, <1>3, <1>4

----------------------------------------------------------------------------
(* A call to a later date.                                                 *)

LEMMA EarlierCall ==
  ASSUME NEW s \in Seq(Transaction), NEW i \in Purchases(s), NEW m \in Nat, NEW n \in Nat, m <= n,
         NEW d \in Nat
  PROVE  /\ d \in deemedDisposalAnniversaries(s[i].date, m)
              <=> d \in deemedDisposalAnniversaries(s[i].date, n) /\ d <= m
         /\ d <= m + 1 => Earlier(s, i, m, d) = Earlier(s, i, n, d)
<1> DEFINE a == s[i].date
<1>1. a \in Nat
  BY Quantity DEF Purchases
<1> HIDE DEF a
<1>2. ASSUME NEW x \in Nat
      PROVE  x \in deemedDisposalAnniversaries(a, m)
               <=> x \in deemedDisposalAnniversaries(a, n) /\ x <= m
  <2>1. x \in deemedDisposalAnniversaries(a, m)
          <=> (x \in 0..m /\ x > a /\ (x - a) % CycleLength = 0)
    BY <1>1, AnniversaryDates
  <2>2. x \in deemedDisposalAnniversaries(a, n)
          <=> (x \in 0..n /\ x > a /\ (x - a) % CycleLength = 0)
    BY <1>1, AnniversaryDates
  <2> QED
    BY <2>1, <2>2
<1>3. ASSUME NEW k \in {m, n}, NEW x \in deemedDisposalAnniversaries(a, k) PROVE x \in Nat
  <2>1. x \in a..k
    BY <1>1, AnniversaryDate
  <2> QED
    BY <1>1, <2>1
<1>4. d <= m + 1 => Earlier(s, i, m, d) = Earlier(s, i, n, d)
  <2> SUFFICES ASSUME d <= m + 1
               PROVE  \A x : x \in deemedDisposalAnniversaries(a, m) /\ x < d
                               <=> x \in deemedDisposalAnniversaries(a, n) /\ x < d
    BY DEF Earlier, a
  <2> QED
    BY <1>2, <1>3
<1> QED
  BY <1>2, <1>4 DEF a

(* An event of the kind charged up to a date, of either call.              *)
LEMMA ChargedEvent ==
  ASSUME NEW s \in Seq(Transaction), NEW asof \in AsOfs, NEW e \in ChargedTo(s, asof)
  PROVE  /\ e \in Event /\ e.index \in Purchases(s) /\ e = Anniversary(e.index, e.date)
         /\ e.date \in deemedDisposalAnniversaries(s[e.index].date, asof)
         /\ e.date \in Nat /\ e.date <= asof
         /\ (e.date - s[e.index].date) % CycleLength = 0 /\ e.date > s[e.index].date
         /\ s[e.index].date \in Nat
<1>1. e \in fundEvents(s, asof) /\ e.kind = eventDeemedDisposal
  BY DEF ChargedTo
<1>2. asof \in Nat
  BY AsOfAssumption, DatesAssumption
<1>3. /\ e \in Event /\ e.index \in Purchases(s) /\ e = Anniversary(e.index, e.date)
      /\ e.date \in deemedDisposalAnniversaries(s[e.index].date, asof)
  BY <1>1, EventForms, FundEventsPlaced
<1>4. s[e.index].date \in Nat /\ e.date \in Nat
  BY <1>3, Quantity DEF Purchases, Event
<1>5. e.date \in 0..asof /\ e.date > s[e.index].date /\ (e.date - s[e.index].date) % CycleLength = 0
  BY <1>2, <1>3, <1>4, AnniversaryDates
<1> QED
  BY <1>2, <1>3, <1>4, <1>5

LEMMA ChargedEarlier ==
  ASSUME NEW s \in Seq(Transaction), NEW m \in AsOfs, NEW n \in AsOfs, m <= n
  PROVE  /\ ChargedTo(s, m) = {e \in ChargedTo(s, n) : e.date <= m}
         /\ \A e \in ChargedTo(s, m) : Charge(s, m, e) = Charge(s, n, e)
<1>1. m \in Nat /\ n \in Nat
  BY AsOfAssumption, DatesAssumption
<1>2. ASSUME NEW e \in ChargedTo(s, m)
      PROVE  e \in ChargedTo(s, n) /\ e.date <= m /\ Charge(s, m, e) = Charge(s, n, e)
  <2>1. /\ e \in Event /\ e.index \in Purchases(s) /\ e = Anniversary(e.index, e.date)
        /\ e.date \in deemedDisposalAnniversaries(s[e.index].date, m)
        /\ e.date \in Nat /\ e.date <= m
    BY ChargedEvent
  <2>2. /\ e.date \in deemedDisposalAnniversaries(s[e.index].date, n)
        /\ Earlier(s, e.index, m, e.date) = Earlier(s, e.index, n, e.date)
    BY <1>1, <2>1, EarlierCall
  <2>3. e \in fundEvents(s, n)
    BY <2>1, <2>2, EventForms
  <2>4. e \in ChargedTo(s, n)
    BY <2>3 DEF ChargedTo
  <2>5. Charge(s, m, e) = Charge(s, n, e)
    BY <2>2 DEF Charge
  <2> QED
    BY <2>1, <2>4, <2>5
<1>3. ASSUME NEW e \in ChargedTo(s, n), e.date <= m PROVE e \in ChargedTo(s, m)
  <2>1. /\ e.index \in Purchases(s) /\ e = Anniversary(e.index, e.date) /\ e.date \in Nat
        /\ e.date \in deemedDisposalAnniversaries(s[e.index].date, n)
    BY ChargedEvent
  <2>2. e.date \in deemedDisposalAnniversaries(s[e.index].date, m)
    BY <1>1, <1>3, <2>1, EarlierCall
  <2>3. e \in fundEvents(s, m)
    BY <2>1, <2>2, EventForms
  <2> QED
    BY <2>3 DEF ChargedTo
<1> QED
  BY <1>2, <1>3

LEMMA SoldEarlier ==
  ASSUME NEW s \in Seq(Transaction), NEW m \in AsOfs, NEW n \in AsOfs, m <= n
  PROVE  /\ SoldTo(s, m) = SoldTo(s, n)
         /\ \A e \in SoldTo(s, n) :
              /\ e \in Event /\ e.index \in Sales(s) /\ e.date = s[e.index].date
              /\ Sold(s, m, e).date = e.date /\ Sold(s, n, e).date = e.date
              /\ e.date <= m => Sold(s, m, e) = Sold(s, n, e)
<1>1. m \in Nat /\ n \in Nat
  BY AsOfAssumption, DatesAssumption
<1>2. ASSUME NEW asof \in AsOfs, NEW e \in SoldTo(s, asof)
      PROVE  /\ e \in Event /\ e.index \in Sales(s) /\ e = SaleEvent(s, e.index)
             /\ e.date = s[e.index].date
  <2>1. e \in fundEvents(s, asof) /\ e.kind = eventSell
    BY DEF SoldTo
  <2>2. e \in Event /\ e.index \in Sales(s) /\ e = SaleEvent(s, e.index)
    BY <2>1, EventForms, FundEventsPlaced
  <2>3. SaleEvent(s, e.index).date = s[e.index].date
    BY DEF SaleEvent
  <2> QED
    BY <2>2, <2>3
<1>3. \A asof \in AsOfs : \A k \in Sales(s) : SaleEvent(s, k) \in SoldTo(s, asof)
  BY EventForms DEF SoldTo, SaleEvent
<1>4. SoldTo(s, m) = SoldTo(s, n)
  <2>1. \A e \in SoldTo(s, m) : e \in SoldTo(s, n)
    BY <1>2, <1>3
  <2>2. \A e \in SoldTo(s, n) : e \in SoldTo(s, m)
    BY <1>2, <1>3
  <2> QED
    BY <2>1, <2>2
<1>5. ASSUME NEW e \in SoldTo(s, n), e.date <= m PROVE Sold(s, m, e) = Sold(s, n, e)
  <2>1. e.date = s[e.index].date /\ e.date \in Nat
    BY <1>2 DEF Event
  <2>2. \A i \in Purchases(s) : Earlier(s, i, m, e.date + 1) = Earlier(s, i, n, e.date + 1)
    BY <1>1, <1>5, <2>1, EarlierCall
  <2>3. \A u, v : Credited(s, m, e.date, u, v) = Credited(s, n, e.date, u, v)
    BY <2>2 DEF Credited
  <2> QED
    BY <2>1, <2>3 DEF Sold
<1>6. \A e \in SoldTo(s, n) : Sold(s, m, e).date = e.date /\ Sold(s, n, e).date = e.date
  BY <1>2 DEF Sold
<1> QED
  BY <1>2, <1>4, <1>5, <1>6

----------------------------------------------------------------------------
(* The remainder of a sum of a multiple.                                   *)
LEMMA RemainderUnique ==
  ASSUME NEW c \in Nat \ {0}, NEW m \in Int, NEW r \in 0..(c - 1)
  PROVE  (c * m + r) % c = r /\ (c * m + r) \div c = m
<1> DEFINE d == c * m + r
           q == d \div c
           t == d % c
<1>1. d \in Int /\ q \in Int /\ t \in 0..(c - 1) /\ d = c * q + t
  OBVIOUS
<1>2. d = c * m + r /\ c * m \in Int /\ c * q \in Int
  BY <1>1
<1> HIDE DEF d, q, t
<1>3. ~ (q < m)
  <2> SUFFICES ASSUME q <= m - 1 PROVE FALSE
    BY <1>1
  <2>1. c * q <= c * (m - 1)
    BY <1>1
  <2>2. c * (m - 1) = c * m - c
    OBVIOUS
  <2> QED
    BY <1>1, <1>2, <2>1, <2>2
<1>4. ~ (m < q)
  <2> SUFFICES ASSUME m <= q - 1 PROVE FALSE
    BY <1>1
  <2>1. c * m <= c * (q - 1)
    BY <1>1
  <2>2. c * (q - 1) = c * q - c
    BY <1>1
  <2> QED
    BY <1>1, <1>2, <2>1, <2>2
<1>5. q = m
  BY <1>1, <1>3, <1>4
<1>6. t = r
  BY <1>1, <1>2, <1>5
<1> QED
  BY <1>5, <1>6 DEF q, t, d

(* An anniversary falls on the day of the year, and the time of the day,   *)
(* of the purchase.                                                        *)
LEMMA SameDayOfYear ==
  ASSUME NEW a \in Nat, NEW d \in Nat, d > a, (d - a) % CycleLength = 0
  PROVE  d % YearLength = a % YearLength
<1>1. CycleLength \in Nat \ {0} /\ YearLength \in Nat \ {0} /\ CycleLength % YearLength = 0
  BY CycleAssumption, YearLengthAssumption
<1> DEFINE k == (d - a) \div CycleLength
           j == CycleLength \div YearLength
           m == a \div YearLength
           r == a % YearLength
<1>2. k \in Int /\ d - a = CycleLength * k
  BY <1>1
<1>3. j \in Int /\ CycleLength = YearLength * j
  BY <1>1
<1>4. m \in Int /\ r \in 0..(YearLength - 1) /\ a = YearLength * m + r
  BY <1>1
<1> HIDE DEF k, j, m, r
<1>5. d = YearLength * (m + j * k) + r
  <2>1. d = YearLength * m + r + (YearLength * j) * k
    BY <1>2, <1>3, <1>4
  <2>2. YearLength * (m + j * k) = YearLength * m + (YearLength * j) * k
    BY <1>1, <1>2, <1>3, <1>4
  <2> QED
    BY <1>1, <1>2, <1>3, <1>4, <2>1, <2>2
<1>6. m + j * k \in Int
  BY <1>2, <1>3, <1>4
<1>7. (YearLength * (m + j * k) + r) % YearLength = r
  BY <1>1, <1>4, <1>6, RemainderUnique
<1> QED
  BY <1>5, <1>7 DEF r

LEMMA DivideYears ==
  ASSUME NEW d \in Nat, NEW c \in Nat \ {0}
  PROVE  d = c * (d \div c) + (d % c) /\ d % c \in 0..(c - 1)
OBVIOUS

(* What is dated in a year but after its 31 December's midnight is of that *)
(* afternoon.                                                              *)
LEMMA AfterYearEnd ==
  ASSUME NEW y \in Nat, NEW d \in Nat, YearOf(d) = y, d > yearEndDate(y)
  PROVE  d % YearLength = YearLength - 1
<1>1. YearLength \in Nat \ {0}
  BY YearLengthAssumption
<1> DEFINE L == YearLength
           r == d % L
<1>2. d = L * y + (d % L) /\ d % L \in 0..(L - 1)
  <2>1. d = L * (d \div L) + (d % L) /\ d % L \in 0..(L - 1)
    BY <1>1, DivideYears
  <2> QED
    BY <2>1 DEF YearOf
<1>3. d > (y + 1) * L - 2
  BY DEF yearEndDate
<1>4. (y + 1) * L = L * y + L /\ L * y \in Int
  BY <1>1
<1>5. d = L * y + r /\ r \in 0..(L - 1) /\ L \in Nat
  BY <1>1, <1>2
<1> HIDE DEF L, r
<1>6. r = L - 1
  BY <1>3, <1>4, <1>5
<1> QED
  BY <1>6 DEF L, r

(* No transaction takes place on the last afternoon of a year.             *)
NoLateTrade(s) == \A i \in DOMAIN s : s[i].date % YearLength # YearLength - 1

(* Two calls to the end of a year or later list the same of that year.     *)
LEMMA SameCharges ==
  ASSUME NEW s \in Seq(Transaction), NoLateTrade(s), NEW y \in Years, NEW n \in AsOfs,
         yearEndDate(y) <= n,
         NEW ds \in Seq(ChargeableEvent), ListOfCharges(s, yearEndDate(y), ds),
         NEW es \in Seq(ChargeableEvent), ListOfCharges(s, n, es)
  PROVE  InYear(ds, y) = InYear(es, y)
<1> DEFINE m == yearEndDate(y)
           A == ChargedTo(s, m)
           B == ChargedTo(s, n)
<1>1. m \in AsOfs /\ y \in Nat /\ m \in Nat /\ n \in Nat
  BY YearsAssumption, AsOfAssumption, DatesAssumption
<1>2. PICK at : /\ Enumerates(at, Len(ds), A, Order)
                /\ \A k \in 1..Len(ds) : ds[k] = Charge(s, m, at[k])
  BY DEF ListOfCharges
<1>3. PICK bt : /\ Enumerates(bt, Len(es), B, Order)
                /\ \A k \in 1..Len(es) : es[k] = Charge(s, n, bt[k])
  BY DEF ListOfCharges
<1>4. A = {e \in B : e.date <= m} /\ \A e \in A : Charge(s, m, e) = Charge(s, n, e)
  BY <1>1, ChargedEarlier
<1>5. \A e \in B : /\ e \in Event /\ e.date \in Nat /\ e.index \in DOMAIN s
                   /\ e.date % YearLength = s[e.index].date % YearLength
  <2> SUFFICES ASSUME NEW e \in B
               PROVE  /\ e \in Event /\ e.date \in Nat /\ e.index \in DOMAIN s
                      /\ e.date % YearLength = s[e.index].date % YearLength
    OBVIOUS
  <2>1. /\ e \in Event /\ e.index \in Purchases(s) /\ e.date \in Nat
        /\ (e.date - s[e.index].date) % CycleLength = 0 /\ e.date > s[e.index].date
        /\ s[e.index].date \in Nat
    BY ChargedEvent
  <2> QED
    BY <2>1, SameDayOfYear DEF Purchases
<1> HIDE DEF A, B
<1>6. /\ Len(ds) <= Len(es)
      /\ \A k \in 1..Len(ds) : at[k] = bt[k]
      /\ \A k \in 1..Len(es) : k > Len(ds) => bt[k] \in B \ A
  <2>1. A \subseteq B
    BY <1>4
  <2>2. \A a, b \in B : <<a, b>> \in Order => <<b, a>> \notin Order
    BY <1>5, PrecedesOneWay DEF Order
  <2>3. \A a \in A : \A b \in B \ A : <<a, b>> \in Order
    <3> SUFFICES ASSUME NEW a \in A, NEW b \in B \ A PROVE <<a, b>> \in Order
      OBVIOUS
    <3>1. a \in Event /\ b \in Event /\ a.date <= m /\ ~ (b.date <= m) /\ a.date \in Nat /\ b.date \in Nat
      BY <1>4, <1>5
    <3> HIDE DEF m
    <3>2. Precedes(a, b)
      BY <1>1, <3>1 DEF Precedes
    <3> QED
      BY <3>1, <3>2 DEF Order
  <2> QED
    BY <1>2, <1>3, <2>1, <2>2, <2>3, SameOrder
<1>7. \A k \in 1..Len(ds) : ds[k] = es[k]
  <2> SUFFICES ASSUME NEW k \in 1..Len(ds) PROVE ds[k] = es[k]
    OBVIOUS
  <2>1. at[k] \in A
    BY <1>2 DEF Enumerates
  <2>2. at[k] = bt[k] /\ k \in 1..Len(es)
    <3>1. Len(ds) \in Nat /\ Len(es) \in Nat
      OBVIOUS
    <3> QED
      BY <1>6, <3>1
  <2>3. ds[k] = Charge(s, m, at[k]) /\ es[k] = Charge(s, n, bt[k])
    BY <1>2, <1>3, <2>2
  <2> QED
    BY <1>4, <2>1, <2>2, <2>3
<1>8. \A k \in 1..Len(es) : k > Len(ds) => YearOf(es[k].date) # y
  <2> SUFFICES ASSUME NEW k \in 1..Len(es), k > Len(ds), YearOf(es[k].date) = y PROVE FALSE
    OBVIOUS
  <2>1. bt[k] \in B /\ ~ (bt[k].date <= m) /\ bt[k].date \in Nat
    BY <1>4, <1>5, <1>6
  <2>2. es[k].date = bt[k].date
    <3>1. es[k] = Charge(s, n, bt[k])
      BY <1>3
    <3> HIDE DEF m
    <3> QED
      BY <3>1 DEF Charge
  <2>3. bt[k].date % YearLength = YearLength - 1
    BY <1>1, <2>1, <2>2, AfterYearEnd
  <2> QED
    BY <1>5, <2>1, <2>3 DEF NoLateTrade
<1> HIDE DEF m, A, B
<1>9. Len(ds) <= Len(es)
  BY <1>6
<1>10. \A k \in 1..Len(ds) : /\ YearOf(ds[k].date) = y <=> YearOf(es[k].date) = y
                             /\ YearOf(ds[k].date) = y => ds[k] = es[k]
  BY <1>6, <1>7
<1> QED
  BY <1>8, <1>9, <1>10, SameInYear

LEMMA SameSales ==
  ASSUME NEW s \in Seq(Transaction), NoLateTrade(s), NEW y \in Years, NEW n \in AsOfs,
         yearEndDate(y) <= n,
         NEW ds \in Seq(ChargeableEvent), ListOfSales(s, yearEndDate(y), ds),
         NEW es \in Seq(ChargeableEvent), ListOfSales(s, n, es)
  PROVE  InYear(ds, y) = InYear(es, y)
<1> DEFINE m == yearEndDate(y)
           A == SoldTo(s, m)
           B == SoldTo(s, n)
<1>1. m \in AsOfs /\ y \in Nat /\ m \in Nat /\ n \in Nat
  BY YearsAssumption, AsOfAssumption, DatesAssumption
<1>2. /\ A = B
      /\ \A e \in B : /\ e \in Event /\ e.index \in Sales(s) /\ e.date = s[e.index].date
                      /\ Sold(s, m, e).date = e.date /\ Sold(s, n, e).date = e.date
                      /\ e.date <= m => Sold(s, m, e) = Sold(s, n, e)
  BY <1>1, SoldEarlier
<1>3. PICK at : /\ Enumerates(at, Len(ds), A, Order)
                /\ \A k \in 1..Len(ds) : ds[k] = Sold(s, m, at[k])
  BY DEF ListOfSales
<1>4. PICK bt : /\ Enumerates(bt, Len(es), B, Order)
                /\ \A k \in 1..Len(es) : es[k] = Sold(s, n, bt[k])
  BY DEF ListOfSales
<1> HIDE DEF A, B
<1>5. \A a, b \in B : <<a, b>> \in Order => <<b, a>> \notin Order
  BY <1>2, PrecedesOneWay DEF Order
<1>6. Enumerates(at, Len(ds), B, Order)
  BY <1>2, <1>3
<1>7. Len(ds) = Len(es) /\ \A k \in 1..Len(ds) : at[k] = bt[k]
  <2> DEFINE u == Len(ds)
             v == Len(es)
             R == Order
  <2>1. Enumerates(at, u, B, R)
    BY <1>6
  <2>2. Enumerates(bt, v, B, R)
    BY <1>4
  <2>3. \A a, b \in B : <<a, b>> \in R => <<b, a>> \notin R
    BY <1>5
  <2> HIDE DEF u, v, R
  <2>4. u = v
    BY <2>1, <2>2, <2>3, SameList
  <2>5. ASSUME NEW k \in 1..u PROVE at[k] = bt[k]
    BY <2>1, <2>2, <2>3, <2>4, SameList
  <2> QED
    BY <2>4, <2>5 DEF u, v
<1>8. \A k \in 1..Len(es) : ~ (k > Len(ds))
  BY <1>7
<1>9. ASSUME NEW k \in 1..Len(ds)
      PROVE  /\ YearOf(ds[k].date) = y <=> YearOf(es[k].date) = y
             /\ YearOf(ds[k].date) = y => ds[k] = es[k]
  <2> DEFINE e == at[k]
  <2>1. k \in 1..Len(es) /\ bt[k] = e /\ e \in B
    BY <1>2, <1>3, <1>7 DEF Enumerates
  <2>2. ds[k] = Sold(s, m, e) /\ es[k] = Sold(s, n, e)
    BY <1>3, <1>4, <2>1
  <2>3. e.date = s[e.index].date /\ e.index \in DOMAIN s /\ e.date \in Nat
    BY <1>2, <2>1 DEF Sales, Event
  <2>4. ds[k].date = e.date /\ es[k].date = e.date
    BY <1>2, <2>1, <2>2
  <2>5. e.date <= m => ds[k] = es[k]
    BY <1>2, <2>1, <2>2
  <2> HIDE DEF e
  <2>6. YearOf(e.date) = y => e.date <= m
    <3> SUFFICES ASSUME YearOf(e.date) = y, e.date > m PROVE FALSE
      BY <1>1, <2>3
    <3>1. e.date % YearLength = YearLength - 1
      BY <1>1, <2>3, AfterYearEnd
    <3> QED
      BY <2>3, <3>1 DEF NoLateTrade
  <2> QED
    BY <2>4, <2>5, <2>6
<1> HIDE DEF m, A, B
<1>10. Len(ds) \in Nat /\ Len(es) \in Nat /\ Len(ds) <= Len(es)
  BY <1>7
<1>11. \A k \in 1..Len(ds) : /\ YearOf(ds[k].date) = y <=> YearOf(es[k].date) = y
                             /\ YearOf(ds[k].date) = y => ds[k] = es[k]
  BY <1>9
<1>12. \A k \in 1..Len(es) : k > Len(ds) => YearOf(es[k].date) # y
  BY <1>8
<1> QED
  BY <1>10, <1>11, <1>12, SameInYear

----------------------------------------------------------------------------
(* The transactions are sorted alike in every call.                        *)
SortedOnce ==
  /\ pc = "build" => sorted = Euros(txs)
  /\ Walking => sorted \in Sortings(txs)

Scope(ds, es, y) ==
  [deemed    |-> InYear(ds, y),
   disposals |-> InYear(es, y),
   summary   |-> summarizeFundTax(InYear(ds, y), InYear(es, y))]

(* A report is of what some call to its year's end listed.                 *)
ReportRight(y) ==
  reports[y] # Blocked =>
    \E s \in Sortings(txs) : \E ds, es :
      Outcome(s, yearEndDate(y), ds, es) /\ reports[y] = Scope(ds, es, y)

YearsInOrder ==
  /\ year \in Nat /\ DOMAIN reports \subseteq Years
  /\ year \in Years => asOf = yearEndDate(year)
  /\ \A y \in DOMAIN reports : y < year /\ yearEndDate(y) <= asOf

YInv ==
  /\ txs \in Ledgers /\ SortedOnce /\ YearsInOrder
  /\ \A y \in DOMAIN reports : ReportRight(y)

CallInv == IInv /\ WInv /\ EInv

(* No step changes what is computed.                                       *)
LEMMA InputsKept ==
  ASSUME [Next]_vars
  PROVE  UNCHANGED <<txs, values, asOf>>
BY DEF Next, vars, inputs, ToEURPrices, RateUnavailable, Fail, buildFundEvents, UnsupportedType,
       PassBuy, PassSoldLot, chargeDeemedDisposal, MissingValuation, BeginSale, TakeFromLot,
       Oversell, RecordDisposal, Return

(* What the value table lists of a ledger does not change.                 *)
LEMMA OutcomeFrame ==
  ASSUME values' = values, NEW s, NEW asof, NEW ds, NEW es
  PROVE  Outcome(s, asof, ds, es)' <=> Outcome(s, asof, ds, es)
<1>1. \A d : anniversaryValueEUR(d)' = anniversaryValueEUR(d)
  BY DEF anniversaryValueEUR, Day
<1>2. \A i, S : Attached(s, i, S)' = Attached(s, i, S)
  BY <1>1 DEF Attached, UnitTax
<1>3. \A i, d : HeldAt(s, i, d)' = HeldAt(s, i, d)
  BY DEF HeldAt, Left, Units, UpTo, SalesBefore, Sales, Purchases
<1>4. \A e : Charge(s, asof, e)' = Charge(s, asof, e)
  BY <1>1, <1>2, <1>3 DEF Charge, UnitTax, Earlier, deemedDisposalAnniversaries
<1>5. \A e : Sold(s, asof, e)' = Sold(s, asof, e)
  <2>1. \A d, m, n : Credited(s, asof, d, m, n)' = Credited(s, asof, d, m, n)
    <3>1. \A i, d : Attached(s, i, Earlier(s, i, asof, d))' = Attached(s, i, Earlier(s, i, asof, d))
      BY <1>2 DEF Earlier, deemedDisposalAnniversaries
    <3> QED
      BY <3>1 DEF Credited
  <2> QED
    BY <2>1 DEF Sold
<1> QED
  BY <1>4, <1>5 DEF Outcome, ListOfCharges, ListOfSales

LEMMA SortedStep ==
  ASSUME IInv, SortedOnce, [Next]_vars
  PROVE  SortedOnce'
<1>0. txs' = txs
  BY InputsKept
<1>1. CASE ToEURPrices
  BY <1>0, <1>1 DEF ToEURPrices, SortedOnce, Walking, Euros
<1>2. CASE buildFundEvents
  <2>1. sorted = Euros(txs) /\ pc' = "walk"
    BY <1>2 DEF buildFundEvents, SortedOnce
  <2>2. PICK p \in StableOrders(sorted) : sorted' = [i \in DOMAIN sorted |-> sorted[p[i]]]
    BY <1>2 DEF buildFundEvents
  <2>3. DOMAIN Euros(txs) = DOMAIN txs
    BY DEF Euros
  <2>4. sorted' \in Sortings(txs)
    BY <2>1, <2>2, <2>3 DEF Sortings
  <2> QED
    BY <1>0, <2>1, <2>4 DEF SortedOnce
<1>3. CASE RateUnavailable \/ UnsupportedType \/ Oversell
  BY <1>3 DEF RateUnavailable, UnsupportedType, Oversell, Fail, SortedOnce, Walking
<1>4. ASSUME sorted' = sorted, pc' = pc \/ (Walking /\ pc' # "build")
      PROVE  SortedOnce'
  BY <1>0, <1>4 DEF SortedOnce, Walking
<1>5. ASSUME NEW e \in pending,
             PassBuy(e) \/ PassSoldLot(e) \/ chargeDeemedDisposal(e)
               \/ MissingValuation(e) \/ BeginSale(e)
      PROVE  SortedOnce'
  BY <1>4, <1>5 DEF PassBuy, PassSoldLot, chargeDeemedDisposal, MissingValuation, Fail, BeginSale,
                    AtAnniversary, Reached, Walking
<1>6. ASSUME NEW i \in DOMAIN lots, TakeFromLot(i) PROVE SortedOnce'
  BY <1>4, <1>6 DEF TakeFromLot
<1>7. CASE RecordDisposal \/ Return
  BY <1>4, <1>7 DEF RecordDisposal, Return, Walking
<1>8. CASE UNCHANGED vars
  BY <1>4, <1>8 DEF vars
<1> QED
  BY <1>1, <1>2, <1>3, <1>5, <1>6, <1>7, <1>8 DEF Next

(* A call begins as Init does, and its invariants with it.                 *)
Begun ==
  /\ txs \in Seq(Transaction) /\ values \in Valuations /\ asOf \in AsOfs
  /\ pc = "convert"
  /\ sorted = << >> /\ lots = << >> /\ pending = {}
  /\ sale = 0 /\ wanted = 0 /\ cost = 0 /\ credit = 0
  /\ deemed = << >> /\ disposals = << >> /\ account = << >>
  /\ reason = "none"

LEMMA BegunRight ==
  ASSUME Begun
  PROVE  CallInv /\ SortedOnce
<1>1. IInv
  BY DEF Begun, IInv, TypeOK, EventsPlaced, SalePlaced, NothingBuilt, CreditFollowsUnits
<1>2. WInv
  BY DEF Begun, WInv, NotBegun, LotsOpened, WalkedInOrder, FirstOut, ChargesRight, ChargedOnce,
         AllSettled, GapFound, Walking
<1>3. EInv
  BY DEF Begun, EInv, SaleInHand, AttachedRight, InPart, ChargesListed, SalesListed, NothingListed,
         Walking
<1> QED
  BY <1>1, <1>2, <1>3 DEF CallInv, SortedOnce, Begun, Walking

(* A history that is Timely is so in every order it can be sorted into:    *)
(* the sort moves transactions and changes neither their dates nor types.  *)
LEMMA SortedTimely ==
  ASSUME NEW t \in Seq(Transaction), NEW s \in Sortings(t), NEW asof \in AsOfs, Timely(t, asof)
  PROVE  Timely(s, asof)
<1>1. Euros(t) \in Seq(Transaction) /\ DOMAIN Euros(t) = DOMAIN t
      /\ \A i \in DOMAIN t : Euros(t)[i].date = t[i].date
  BY EurosType
<1>2. \A i \in DOMAIN t : Euros(t)[i].type = t[i].type
  <2>1. \A i \in DOMAIN t : t[i] \in Transaction
    BY Quantity
  <2>2. \A i \in DOMAIN t : InEUR(t[i]).type = t[i].type
    BY <2>1 DEF InEUR, Transaction
  <2> QED
    BY <2>2 DEF Euros
<1>3. PICK p \in StableOrders(Euros(t)) : s = [i \in DOMAIN t |-> Euros(t)[p[i]]]
  BY DEF Sortings
<1>4. p \in [DOMAIN t -> DOMAIN t]
  BY <1>1, <1>3 DEF StableOrders
<1>5. \A i \in DOMAIN s : /\ i \in DOMAIN t /\ p[i] \in DOMAIN t
                         /\ s[i].date = t[p[i]].date /\ s[i].type = t[p[i]].type
  BY <1>1, <1>2, <1>3, <1>4
<1>6. ASSUME NEW a \in AnniversaryDays(s, asof)
      PROVE  /\ a[2] <= asof
             /\ \A j \in DOMAIN s \ Purchases(s) : Day(s[j].date) = Day(a[2]) => a[2] <= s[j].date
  <2>1. a \in Purchases(s) \X (0..(asof + 1)) /\ a[1] \in DOMAIN s
    BY <1>6 DEF AnniversaryDays, Purchases
  <2>2. <<p[a[1]], a[2]>> \in AnniversaryDays(t, asof)
    BY <1>5, <1>6, <2>1 DEF AnniversaryDays, Purchases
  <2>3. a[2] <= asof
    BY <2>2 DEF Timely
  <2>4. ASSUME NEW j \in DOMAIN s \ Purchases(s), Day(s[j].date) = Day(a[2])
        PROVE  a[2] <= s[j].date
    <3>1. p[j] \in DOMAIN t \ Purchases(t) /\ t[p[j]].date = s[j].date
      BY <1>5, <2>4 DEF Purchases
    <3>2. Day(t[p[j]].date) = Day(a[2])
      BY <2>4, <3>1
    <3>3. a[2] <= t[p[j]].date
      BY <2>2, <3>1, <3>2 DEF Timely
    <3> QED
      BY <3>1, <3>3
  <2> QED
    BY <2>3, <2>4
<1> QED
  BY <1>6 DEF Timely

(* In a Timely history the units held when the day of an anniversary       *)
(* begins are those held at its instant.                                   *)
LEMMA DaysAreInstants ==
  ASSUME IInv, Timely(sorted, asOf)
  PROVE  /\ AnniversaryDays(sorted, asOf) = Anniversaries
         /\ \A a \in Anniversaries : UnitsHeld(a[1], Day(a[2])) = UnitsHeld(a[1], a[2])
<1>1. sorted \in Seq(Transaction) /\ asOf \in Nat
  BY AsOfAssumption, DatesAssumption DEF IInv, TypeOK
<1>2. \A d, e \in Nat : d <= e => Day(d) <= Day(e)
  BY DEF Day
<1>3. \A d \in Nat : Day(d) \in Nat /\ Day(d) <= d
  BY DEF Day
<1>4. ASSUME NEW a \in AnniversaryDays(sorted, asOf) PROVE a \in Anniversaries
  <2>1. a[2] <= asOf
    BY DEF Timely
  <2> QED
    BY <1>1, <2>1 DEF AnniversaryDays, Anniversaries
<1>5. ASSUME NEW a \in Anniversaries PROVE a \in AnniversaryDays(sorted, asOf)
  <2>1. a[2] \in Nat /\ a[2] <= asOf
    BY <1>1 DEF Anniversaries
  <2>2. Day(a[2]) <= Day(asOf)
    BY <1>1, <1>2, <2>1
  <2> QED
    BY <1>1, <2>1, <2>2 DEF AnniversaryDays, Anniversaries
<1>6. ASSUME NEW a \in Anniversaries PROVE UnitsHeld(a[1], Day(a[2])) = UnitsHeld(a[1], a[2])
  <2>1. a[2] \in Nat
    BY <1>1 DEF Anniversaries
  <2>2. ASSUME NEW k \in DOMAIN sorted \ Purchases(sorted)
        PROVE  sorted[k].date < Day(a[2]) <=> sorted[k].date < a[2]
    <3>1. sorted[k].date \in Nat
      BY <1>1, Quantity
    <3>2. Day(sorted[k].date) = Day(a[2]) => a[2] <= sorted[k].date
      BY <1>5 DEF Timely
    <3>3. ASSUME sorted[k].date < a[2], Day(a[2]) <= sorted[k].date
          PROVE  Day(sorted[k].date) = Day(a[2])
      BY <2>1, <3>1, <3>3 DEF Day
    <3>4. Day(a[2]) \in Nat /\ Day(a[2]) <= a[2]
      BY <1>3, <2>1
    <3> QED
      BY <2>1, <3>1, <3>2, <3>3, <3>4
  <2>3. {k \in DOMAIN sorted \ Purchases(sorted) : sorted[k].date < Day(a[2])}
          = {k \in DOMAIN sorted \ Purchases(sorted) : sorted[k].date < a[2]}
    BY <2>2
  <2> QED
    BY <2>3 DEF UnitsHeld
<1> QED
  BY <1>4, <1>5, <1>6

(* Each lot is charged on the day of every anniversary up to the day       *)
(* computed to, once, on the units held when that day begins and at that   *)
(* day's value, whatever the order of purchases, sales and anniversaries   *)
(* (buildFundEvents, chargeDeemedDisposal), as long as no anniversary      *)
(* falls later in its day than a sale or than the date computed to: a lot  *)
(* bought at midnight, as every import without a time of day has it, never *)
(* does.                                                                   *)
THEOREM AnniversariesCharged ==
  ASSUME \A s \in Ledgers : \A asof \in AsOfs : Timely(s, asof)
  PROVE  Spec => []EveryAnniversaryCharged
<1>1. Init => SortedOnce /\ txs \in Ledgers
  <2> SUFFICES ASSUME Init PROVE Begun /\ txs \in Ledgers
    BY BegunRight
  <2> QED
    BY LedgerAssumption DEF Init, Begun
<1>2. IInv /\ SortedOnce /\ txs \in Ledgers /\ [Next]_vars => (SortedOnce /\ txs \in Ledgers)'
  BY SortedStep, InputsKept
<1>3. IInv /\ WInv /\ SortedOnce /\ txs \in Ledgers => EveryAnniversaryCharged
  <2> SUFFICES ASSUME IInv, WInv, SortedOnce, txs \in Ledgers, pc = "done"
               PROVE  EveryAnniversaryCharged
    BY DEF EveryAnniversaryCharged
  <2>1. txs \in Seq(Transaction) /\ asOf \in AsOfs
    BY DEF IInv, TypeOK
  <2>2. sorted \in Sortings(txs)
    BY DEF SortedOnce, Walking
  <2>3. Timely(sorted, asOf)
    BY <2>1, <2>2, SortedTimely
  <2>4. /\ AnniversaryDays(sorted, asOf) = Anniversaries
        /\ \A a \in Anniversaries : UnitsHeld(a[1], Day(a[2])) = UnitsHeld(a[1], a[2])
    BY <2>3, DaysAreInstants
  <2>5. ChargedByInstant
    BY InstantsCharged
  <2>6. \A k \in DOMAIN deemed : <<deemed[k].lot, deemed[k].date>> \in AnniversaryDays(sorted, asOf)
    BY <2>4, <2>5 DEF ChargedByInstant
  <2>7. ASSUME NEW a \in AnniversaryDays(sorted, asOf)
        PROVE  LET charges == {k \in DOMAIN deemed : deemed[k].lot = a[1] /\ deemed[k].date = a[2]}
                   units   == UnitsHeld(a[1], Day(a[2]))
               IN
               IF units = 0 THEN charges = {}
               ELSE /\ Cardinality(charges) = 1
                    /\ \A k \in charges :
                         /\ deemed[k].quantity = units
                         /\ deemed[k].gain = units * (anniversaryValueEUR(a[2]) - sorted[a[1]].price)
    <3> DEFINE charges == {k \in DOMAIN deemed : deemed[k].lot = a[1] /\ deemed[k].date = a[2]}
               units   == UnitsHeld(a[1], Day(a[2]))
               rise    == anniversaryValueEUR(a[2]) - sorted[a[1]].price
    <3>1. a \in Anniversaries /\ UnitsHeld(a[1], a[2]) = units
      BY <2>4
    <3>2. IF units = 0 THEN charges = {}
          ELSE /\ Cardinality(charges) = 1
               /\ \A k \in charges :
                    deemed[k].quantity = units /\ deemed[k].gain = deemed[k].quantity * rise
      BY <2>5, <3>1 DEF ChargedByInstant
    <3> HIDE DEF charges, units, rise
    <3>3. IF units = 0 THEN charges = {}
          ELSE /\ Cardinality(charges) = 1
               /\ \A k \in charges : deemed[k].quantity = units /\ deemed[k].gain = units * rise
      BY <3>2
    <3> QED
      BY <3>3 DEF charges, units, rise
  <2> QED
    BY <2>6, <2>7 DEF EveryAnniversaryCharged
<1> QED
  BY <1>1, <1>2, <1>3, WalkInvariance, Invariance, PTL DEF Spec

LEMMA YearsStart ==
  ASSUME InitYears
  PROVE  CallInv /\ YInv
<1>1. txs \in Seq(Transaction) /\ txs \in Ledgers
  BY LedgerAssumption DEF InitYears, Init
<1>2. Begun
  BY <1>1 DEF InitYears, Init, Begun
<1>3. YearsInOrder /\ DOMAIN reports = {}
  BY YearsAssumption DEF InitYears, YearsInOrder
<1> QED
  BY <1>1, <1>2, <1>3, BegunRight DEF YInv

LEMMA ComputeYear ==
  ASSUME CallInv, YInv, [Next]_vars, UNCHANGED <<year, reports>>
  PROVE  CallInv' /\ YInv'
<1>1. CallInv'
  BY Step, WalkStep, ListStep DEF CallInv
<1>2. UNCHANGED <<txs, values, asOf>>
  BY InputsKept
<1>3. SortedOnce'
  BY SortedStep DEF CallInv, YInv
<1>4. YearsInOrder'
  BY <1>2 DEF YInv, YearsInOrder
<1>5. ASSUME NEW y \in DOMAIN reports PROVE ReportRight(y)'
  <2>1. ReportRight(y)
    BY DEF YInv
  <2>2. \A s, asof, ds, es : Outcome(s, asof, ds, es)' <=> Outcome(s, asof, ds, es)
    BY <1>2, OutcomeFrame
  <2> QED
    BY <1>2, <2>1, <2>2 DEF ReportRight
<1> QED
  BY <1>1, <1>2, <1>3, <1>4, <1>5 DEF YInv

----------------------------------------------------------------------------
LEMMA YearEnds ==
  ASSUME NEW y \in Nat, NEW z \in Nat, y <= z
  PROVE  yearEndDate(y) <= yearEndDate(z) /\ yearEndDate(y) \in Int /\ yearEndDate(z) \in Int
<1>1. YearLength \in Nat
  BY YearLengthAssumption
<1>2. (y + 1) * YearLength <= (z + 1) * YearLength
  BY <1>1
<1>3. (y + 1) * YearLength \in Int /\ (z + 1) * YearLength \in Int
  BY <1>1
<1> QED
  BY <1>2, <1>3 DEF yearEndDate

LEMMA FileStep ==
  ASSUME CallInv, YInv, FileYear
  PROVE  CallInv' /\ YInv'
<1>1. /\ pc \in {"done", "error"} /\ year \in Years /\ year' = year + 1
      /\ reports' = [y \in DOMAIN reports \union {year} |->
                       IF y # year THEN reports[y]
                       ELSE IF pc = "done" THEN Scoped(year) ELSE Blocked]
      /\ \/ year + 1 \in Years /\ Call(yearEndDate(year + 1))
         \/ year + 1 \notin Years /\ UNCHANGED vars
  BY DEF FileYear
<1>2. /\ year \in Nat /\ asOf = yearEndDate(year) /\ txs \in Seq(Transaction) /\ txs \in Ledgers
      /\ DOMAIN reports \subseteq Years
      /\ \A y \in DOMAIN reports : y < year /\ yearEndDate(y) <= asOf
  BY <1>1 DEF YInv, YearsInOrder, CallInv, IInv, TypeOK
<1>3. txs' = txs /\ values' = values
  BY <1>1 DEF Call, vars, inputs
<1>4. CallInv' /\ SortedOnce'
  <2>1. CASE Call(yearEndDate(year + 1)) /\ year + 1 \in Years
    <3>1. yearEndDate(year + 1) \in AsOfs /\ values \in Valuations
      BY <2>1, YearsAssumption DEF CallInv, IInv, TypeOK
    <3>2. Begun'
      BY <1>2, <2>1, <3>1 DEF Call, Begun
    <3> QED
      BY <3>2, BegunRight, PTL
  <2>2. CASE UNCHANGED vars
    <3>1. CallInv'
      BY <2>2, Step, WalkStep, ListStep DEF CallInv
    <3>2. SortedOnce'
      BY <2>2, SortedStep DEF CallInv, YInv
    <3> QED
      BY <3>1, <3>2
  <2> QED
    BY <1>1, <2>1, <2>2
<1>5. yearEndDate(year) <= asOf' /\ yearEndDate(year) \in Int /\ asOf' \in Int
      /\ (year + 1 \in Years => asOf' = yearEndDate(year + 1))
  <2>1. CASE Call(yearEndDate(year + 1)) /\ year + 1 \in Years
    <3>1. year + 1 \in Nat /\ year <= year + 1 /\ asOf' = yearEndDate(year + 1)
      BY <1>2, <2>1 DEF Call
    <3> QED
      BY <1>2, <3>1, YearEnds
  <2>2. CASE UNCHANGED vars /\ year + 1 \notin Years
    <3>1. asOf' = yearEndDate(year)
      BY <1>2, <2>2 DEF vars, inputs
    <3> QED
      BY <1>2, <2>2, <3>1, YearEnds
  <2> QED
    BY <1>1, <2>1, <2>2
<1>6. YearsInOrder'
  <2>1. DOMAIN reports' = DOMAIN reports \union {year}
    BY <1>1
  <2>2. ASSUME NEW y \in DOMAIN reports'
        PROVE  y \in Years /\ y < year' /\ yearEndDate(y) <= asOf'
    <3>1. CASE y = year
      BY <1>1, <1>2, <1>5, <3>1
    <3>2. CASE y \in DOMAIN reports
      <4>1. y < year /\ y \in Nat /\ y \in Years
        BY <1>2, <3>2, YearsAssumption
      <4>2. yearEndDate(y) <= yearEndDate(year) /\ yearEndDate(y) \in Int
        BY <1>2, <4>1, YearEnds
      <4> QED
        BY <1>1, <1>2, <1>5, <4>1, <4>2
    <3> QED
      BY <2>1, <3>1, <3>2
  <2> QED
    BY <1>1, <1>2, <1>5, <2>2 DEF YearsInOrder
<1>7. ASSUME NEW y \in DOMAIN reports' PROVE ReportRight(y)'
  <2>1. \A s, asof, ds, es : Outcome(s, asof, ds, es)' <=> Outcome(s, asof, ds, es)
    BY <1>3, OutcomeFrame
  <2>2. CASE y # year
    <3>1. y \in DOMAIN reports /\ reports'[y] = reports[y]
      BY <1>1, <2>2
    <3>2. ReportRight(y)
      BY <3>1 DEF YInv
    <3> QED
      BY <1>3, <2>1, <3>1, <3>2 DEF ReportRight
  <2>3. CASE y = year /\ pc # "done"
    BY <1>1, <2>3 DEF ReportRight, Blocked
  <2>4. CASE y = year /\ pc = "done"
    <3>1. Outcome(sorted, yearEndDate(y), deemed, disposals)
      BY <1>2, <2>4, Done DEF CallInv
    <3>2. sorted \in Sortings(txs)
      BY <2>4 DEF YInv, SortedOnce, Walking
    <3>3. reports'[y] = Scope(deemed, disposals, y)
      BY <1>1, <2>4 DEF Scoped, Scope
    <3>4. \E s \in Sortings(txs) : \E ds, es :
            Outcome(s, yearEndDate(y), ds, es) /\ reports'[y] = Scope(ds, es, y)
      BY <3>1, <3>2, <3>3
    <3> QED
      BY <1>3, <2>1, <3>4 DEF ReportRight
  <2> QED
    BY <2>2, <2>3, <2>4
<1> QED
  BY <1>2, <1>3, <1>4, <1>6, <1>7 DEF YInv

(* Every year is computed from the transactions anew, and what the reports *)
(* before it hold is what a call to their own year's end lists.            *)
THEOREM YearsInvariance == SpecYears => [](CallInv /\ YInv)
<1>1. InitYears => CallInv /\ YInv
  BY YearsStart
<1>2. CallInv /\ YInv /\ [NextYears]_yearVars => (CallInv /\ YInv)'
  <2> SUFFICES ASSUME CallInv, YInv, [NextYears]_yearVars PROVE (CallInv /\ YInv)'
    OBVIOUS
  <2>1. CASE Compute
    BY <2>1, ComputeYear DEF Compute
  <2>2. CASE FileYear
    BY <2>2, FileStep
  <2>3. CASE UNCHANGED yearVars
    BY <2>3, ComputeYear DEF yearVars
  <2> QED
    BY <2>1, <2>2, <2>3 DEF NextYears
<1> QED
  BY <1>1, <1>2, PTL DEF SpecYears

(* The sorting keeps the dates of the transactions.                        *)
LEMMA SortingType ==
  ASSUME NEW t \in Seq(Transaction), NEW s \in Sortings(t)
  PROVE  s \in Seq(Transaction) /\ (NoLateTrade(t) => NoLateTrade(s))
<1>1. Euros(t) \in Seq(Transaction) /\ DOMAIN Euros(t) = DOMAIN t
      /\ \A i \in DOMAIN t : Euros(t)[i].date = t[i].date
  BY EurosType
<1>2. PICK p \in StableOrders(Euros(t)) : s = [i \in DOMAIN t |-> Euros(t)[p[i]]]
  BY DEF Sortings
<1>3. s \in Seq(Transaction)
  BY <1>1, <1>2, StableOrderType
<1>4. p \in [DOMAIN t -> DOMAIN t]
  BY <1>1, <1>2 DEF StableOrders
<1>5. \A i \in DOMAIN s : i \in DOMAIN t /\ p[i] \in DOMAIN t /\ s[i].date = t[p[i]].date
  BY <1>1, <1>2, <1>4
<1> QED
  BY <1>3, <1>5 DEF NoLateTrade

LEMMA ReportsStandHere ==
  ASSUME CallInv, YInv, \A s \in Ledgers : NoLateTrade(s)
  PROVE  ReportsStand
<1> SUFFICES ASSUME pc = "done", NEW y \in DOMAIN reports, reports[y] # Blocked
             PROVE  reports[y] = Scoped(y)
  BY DEF ReportsStand
<1>1. /\ txs \in Ledgers /\ txs \in Seq(Transaction) /\ asOf \in AsOfs
      /\ y \in Years /\ yearEndDate(y) <= asOf /\ ReportRight(y)
  BY DEF YInv, YearsInOrder, CallInv, IInv, TypeOK
<1>2. PICK s \in Sortings(txs) : \E ds, es :
        Outcome(s, yearEndDate(y), ds, es) /\ reports[y] = Scope(ds, es, y)
  BY <1>1 DEF ReportRight
<1>3. PICK ds, es : Outcome(s, yearEndDate(y), ds, es) /\ reports[y] = Scope(ds, es, y)
  BY <1>2
<1>4. sorted \in Sortings(txs)
  BY DEF YInv, SortedOnce, Walking
<1>5. s = sorted
  BY <1>1, <1>4, OneSorting
<1>6. s \in Seq(Transaction) /\ NoLateTrade(s)
  BY <1>1, SortingType
<1>7. Outcome(s, asOf, deemed, disposals)
  BY <1>5, Done DEF CallInv
<1>8. InYear(ds, y) = InYear(deemed, y)
  BY <1>1, <1>3, <1>6, <1>7, SameCharges DEF Outcome
<1>9. InYear(es, y) = InYear(disposals, y)
  BY <1>1, <1>3, <1>6, <1>7, SameSales DEF Outcome
<1> QED
  BY <1>3, <1>8, <1>9 DEF Scope, Scoped

(* A report filed for a year stands: a later year's walk over the same     *)
(* history finds the same events in it, as long as nothing is traded on    *)
(* the afternoon of a 31 December, which ComputeFundTaxForYear's end of    *)
(* year, a midnight, leaves out.                                           *)
THEOREM ReportsStandAlways ==
  ASSUME \A s \in Ledgers : \A i \in DOMAIN s : s[i].date % YearLength # YearLength - 1
  PROVE  SpecYears => []ReportsStand
<1>1. \A s \in Ledgers : NoLateTrade(s)
  BY DEF NoLateTrade
<1>2. CallInv /\ YInv => ReportsStand
  BY <1>1, ReportsStandHere
<1> QED
  BY <1>2, YearsInvariance, PTL

----------------------------------------------------------------------------
Credits(events) == Total([k \in DOMAIN events |-> events[k].credit])
Taxes(events)   == Total([k \in DOMAIN events |-> events[k].tax])

(* What is charged and credited, by event and by lot.                      *)
ChargedAlike ==
  Walking => Dues(deemed) = SumFunction([i \in DOMAIN lots |-> account[i].charged])

CreditedAlike ==
  Walking => Credits(disposals) + (IF pc = "sale" THEN credit ELSE 0)
               = SumFunction([i \in DOMAIN lots |-> account[i].credited])

AccountsAlike == ChargedAlike /\ CreditedAlike

(* The sums over a list of events.                                         *)
LEMMA ListFamily ==
  ASSUME NEW ds \in Seq(ChargeableEvent)
  PROVE  /\ IsFamily([k \in DOMAIN ds |-> ds[k].due], DOMAIN ds)
         /\ IsFamily([k \in DOMAIN ds |-> ds[k].credit], DOMAIN ds)
         /\ IsFamily([k \in DOMAIN ds |-> ds[k].tax], DOMAIN ds)
         /\ Dues(ds) \in Int /\ Credits(ds) \in Int /\ Taxes(ds) \in Int
         /\ Len(ds) = 0 => Dues(ds) = 0 /\ Credits(ds) = 0 /\ Taxes(ds) = 0
<1>1. DOMAIN ds = 1..Len(ds) /\ Len(ds) \in Nat
  OBVIOUS
<1>2. IsFiniteSet(DOMAIN ds)
  BY <1>1, FS_Interval
<1>3. ASSUME NEW k \in DOMAIN ds
      PROVE  ds[k].due \in Int /\ ds[k].credit \in Int /\ ds[k].tax \in Int
  <2>1. ds[k] \in ChargeableEvent
    OBVIOUS
  <2>2. \A c \in ChargeableEvent : c.due \in Int /\ c.credit \in Nat /\ c.tax \in Nat
    BY DEF ChargeableEvent
  <2> QED
    BY <2>1, <2>2
<1>4. /\ IsFamily([k \in DOMAIN ds |-> ds[k].due], DOMAIN ds)
      /\ IsFamily([k \in DOMAIN ds |-> ds[k].credit], DOMAIN ds)
      /\ IsFamily([k \in DOMAIN ds |-> ds[k].tax], DOMAIN ds)
  BY <1>2, <1>3 DEF IsFamily
<1>5. Dues(ds) \in Int /\ (DOMAIN ds = {} => Dues(ds) = 0)
  BY <1>4, SumFamily DEF Dues, Total
<1>6. Credits(ds) \in Int /\ (DOMAIN ds = {} => Credits(ds) = 0)
  BY <1>4, SumFamily DEF Credits, Total
<1>7. Taxes(ds) \in Int /\ (DOMAIN ds = {} => Taxes(ds) = 0)
  BY <1>4, SumFamily DEF Taxes, Total
<1>8. Len(ds) = 0 => DOMAIN ds = {}
  BY <1>1
<1> QED
  BY <1>4, <1>5, <1>6, <1>7, <1>8

LEMMA ListMore ==
  ASSUME NEW ds \in Seq(ChargeableEvent), NEW c \in ChargeableEvent
  PROVE  /\ Append(ds, c) \in Seq(ChargeableEvent)
         /\ Dues(Append(ds, c)) = Dues(ds) + c.due
         /\ Credits(Append(ds, c)) = Credits(ds) + c.credit
<1> DEFINE es == Append(ds, c)
           n  == Len(ds) + 1
<1>1. /\ es \in Seq(ChargeableEvent) /\ DOMAIN es = DOMAIN ds \union {n} /\ n \notin DOMAIN ds
      /\ es[n] = c /\ \A k \in DOMAIN ds : es[k] = ds[k]
  OBVIOUS
<1> DEFINE f  == [k \in DOMAIN ds |-> ds[k].due]
           f1 == [k \in DOMAIN es |-> es[k].due]
           g  == [k \in DOMAIN ds |-> ds[k].credit]
           g1 == [k \in DOMAIN es |-> es[k].credit]
<1> HIDE DEF es, n
<1>2. IsFamily(f, DOMAIN ds) /\ IsFamily(g, DOMAIN ds) /\ IsFamily(f1, DOMAIN es) /\ IsFamily(g1, DOMAIN es)
  BY <1>1, ListFamily
<1>3. /\ f1[n] = c.due /\ g1[n] = c.credit
      /\ \A k \in DOMAIN ds : f1[k] = f[k] /\ g1[k] = g[k]
  BY <1>1
<1> HIDE DEF f, f1, g, g1
<1>4. OneMore(f1, f, DOMAIN ds, n) /\ OneMore(g1, g, DOMAIN ds, n)
  BY <1>1, <1>2, <1>3 DEF OneMore, IsFamily
<1>5. SumFunction(f1) = SumFunction(f) + c.due /\ SumFunction(g1) = SumFunction(g) + c.credit
  BY <1>3, <1>4, SumAdded
<1>6. /\ Dues(es) = SumFunction(f1) /\ Dues(ds) = SumFunction(f)
      /\ Credits(es) = SumFunction(g1) /\ Credits(ds) = SumFunction(g)
  BY DEF Dues, Credits, Total, f, f1, g, g1
<1> QED
  BY <1>1, <1>5, <1>6 DEF es

LEMMA AccountFamily ==
  ASSUME IInv, WInv, Walking
  PROVE  /\ IsFamily([i \in DOMAIN lots |-> account[i].charged], DOMAIN lots)
         /\ IsFamily([i \in DOMAIN lots |-> account[i].credited], DOMAIN lots)
<1>1. IsFiniteSet(DOMAIN lots)
  BY InWalk, PurchasesFinite
<1>2. \A i \in DOMAIN lots : account[i].charged \in Int /\ account[i].credited \in Int
  BY DEF IInv, TypeOK
<1> QED
  BY <1>1, <1>2 DEF IsFamily

(* A step that leaves lists and accounts, and begins no sale.              *)
LEMMA AccountsKept ==
  ASSUME AccountsAlike, Walking,
         DOMAIN lots' = DOMAIN lots,
         UNCHANGED <<deemed, disposals, account>>,
         (IF pc' = "sale" THEN credit' ELSE 0) = (IF pc = "sale" THEN credit ELSE 0)
  PROVE  AccountsAlike'
BY DEF AccountsAlike, ChargedAlike, CreditedAlike, Dues, Credits

LEMMA AccountStep ==
  ASSUME CallInv, AccountsAlike, [Next]_vars
  PROVE  AccountsAlike'
<1>0. IInv /\ WInv /\ IInv' /\ WInv'
  BY Step, WalkStep DEF CallInv
<1>1. CASE ToEURPrices
  BY <1>1 DEF ToEURPrices, AccountsAlike, ChargedAlike, CreditedAlike, Walking
<1>2. CASE RateUnavailable \/ UnsupportedType \/ Oversell
  BY <1>2 DEF RateUnavailable, UnsupportedType, Oversell, Fail, AccountsAlike, ChargedAlike,
              CreditedAlike, Walking
<1>3. CASE buildFundEvents
  <2>1. /\ pc = "build" /\ pc' = "walk" /\ UNCHANGED <<deemed, disposals>>
        /\ account' = [i \in Purchases(sorted') |-> [charged |-> 0, credited |-> 0]]
        /\ DOMAIN lots' = Purchases(sorted')
    BY <1>3 DEF buildFundEvents
  <2>2. deemed = << >> /\ disposals = << >>
    BY <2>1 DEF CallInv, EInv, NothingListed
  <2>3. deemed \in Seq(ChargeableEvent) /\ disposals \in Seq(ChargeableEvent)
    BY <1>0 DEF IInv, TypeOK
  <2>4. Dues(deemed) = 0 /\ Credits(disposals) = 0
    BY <2>2, <2>3, ListFamily
  <2>5. Dues(deemed)' = 0 /\ Credits(disposals)' = 0
    BY <2>1, <2>4 DEF Dues, Credits
  <2>6. Walking'
    BY <2>1 DEF Walking
  <2> DEFINE f == [i \in DOMAIN lots |-> account[i].charged]'
             g == [i \in DOMAIN lots |-> account[i].credited]'
             P == DOMAIN lots'
  <2>7. \A i \in P : f[i] = 0 /\ g[i] = 0
    BY <2>1
  <2>8. IsFamily(f, P) /\ IsFamily(g, P)
    <3>1. sorted' \in Seq(Transaction)
      BY <1>0 DEF IInv, TypeOK
    <3>2. IsFiniteSet(Purchases(sorted'))
      BY <3>1, PurchasesFinite
    <3>3. f = [i \in P |-> 0] /\ g = [i \in P |-> 0]
      BY <2>1
    <3> QED
      BY <2>1, <3>2, <3>3 DEF IsFamily
  <2> HIDE DEF f, g, P
  <2>9. SumFunction(f) = 0 /\ SumFunction(g) = 0
    BY <2>7, <2>8, SumOfZeros
  <2>10. ChargedAlike'
    BY <2>5, <2>9 DEF ChargedAlike, f
  <2>11. CreditedAlike'
    BY <2>1, <2>5, <2>9 DEF CreditedAlike, g
  <2> QED
    BY <2>10, <2>11 DEF AccountsAlike
<1>4. ASSUME NEW e \in pending, PassBuy(e) \/ PassSoldLot(e) PROVE AccountsAlike'
  <2>1. pc = "walk" /\ Walking /\ UNCHANGED <<pc, lots, deemed, disposals, account>>
    BY <1>4 DEF PassBuy, PassSoldLot, AtAnniversary, Reached, Walking, results
  <2> QED
    BY <2>1, AccountsKept
<1>5. ASSUME NEW e \in pending, BeginSale(e) PROVE AccountsAlike'
  <2>1. pc = "walk" /\ pc' = "sale" /\ credit' = 0 /\ Walking /\ UNCHANGED <<lots, deemed, disposals, account>>
    BY <1>5 DEF BeginSale, Reached, Walking, results
  <2> QED
    BY <2>1, AccountsKept
<1>6. ASSUME NEW e \in pending, MissingValuation(e) PROVE AccountsAlike'
  BY <1>6 DEF MissingValuation, Fail, AccountsAlike, ChargedAlike, CreditedAlike, Walking
<1>7. ASSUME NEW e \in pending, chargeDeemedDisposal(e) PROVE AccountsAlike'
  <2> DEFINE i        == e.index
             quantity == lots[i].remaining
             gain     == quantity * anniversaryValueEUR(e.date) - quantity * unitCost(lots[i])
             tax      == positive(gain) * ExitRate[e.date]
             used     == quantity * lots[i].deemedTaxPerUnit
             charge   == [lot |-> i, date |-> e.date, quantity |-> quantity, gain |-> gain,
                          tax |-> tax, credit |-> used, due |-> tax - used]
  <2>1. /\ pc = "walk" /\ Walking /\ e.kind = eventDeemedDisposal
        /\ DOMAIN lots' = DOMAIN lots
        /\ deemed' = Append(deemed, charge)
        /\ account' = [account EXCEPT ![i].charged = @ + tax - used]
        /\ UNCHANGED <<pc, disposals>>
    BY <1>7 DEF chargeDeemedDisposal, AtAnniversary, Reached, Walking
  <2>2. /\ i \in DOMAIN lots /\ DOMAIN account = DOMAIN lots
        /\ deemed \in Seq(ChargeableEvent) /\ deemed' \in Seq(ChargeableEvent)
        /\ \A j \in DOMAIN lots : account[j] \in [charged : Int, credited : Nat]
    BY <1>0, <2>1 DEF IInv, TypeOK, EventsPlaced, eventSell, eventDeemedDisposal
  <2>3. charge \in ChargeableEvent
    <3> HIDE DEF charge
    <3>1. deemed'[Len(deemed) + 1] = charge /\ Len(deemed) + 1 \in DOMAIN deemed'
      BY <2>1, <2>2
    <3> QED
      BY <2>2, <3>1
  <2>4. charge.due = tax - used /\ charge.due \in Int /\ tax \in Nat /\ used \in Nat
    BY <2>3 DEF ChargeableEvent
  <2> HIDE DEF charge, tax, used, gain, quantity
  <2>5. Dues(deemed') = Dues(deemed) + charge.due /\ Dues(deemed) \in Int
    BY <2>1, <2>2, <2>3, ListMore, ListFamily
  <2>6. /\ DOMAIN account' = DOMAIN account
        /\ account'[i].charged = account[i].charged + tax - used
        /\ \A j \in DOMAIN lots : j # i => account'[j] = account[j]
        /\ \A j \in DOMAIN lots : account'[j].credited = account[j].credited
    <3>1. account'[i] = [account[i] EXCEPT !.charged = account[i].charged + tax - used]
      BY <2>1, <2>2
    <3>2. /\ DOMAIN account' = DOMAIN account
          /\ \A j \in DOMAIN lots : j # i => account'[j] = account[j]
      BY <2>1, <2>2
    <3> QED
      BY <2>2, <3>1, <3>2
  <2> DEFINE P  == DOMAIN lots
             f  == [j \in P |-> account[j].charged]
             f1 == [j \in P |-> account'[j].charged]
  <2>7. IsFamily(f, P)
    BY <1>0, <2>1, AccountFamily
  <2>8. f1 \in [P -> Int] /\ f1[i] = f[i] + (tax - used) /\ f[i] \in Int /\ \A j \in P \ {i} : f1[j] = f[j]
    <3>1. \A j \in P : f1[j] \in Int
      BY <2>2, <2>4, <2>6
    <3> QED
      BY <2>2, <2>4, <2>6, <3>1
  <2> HIDE DEF f, f1
  <2>9. SumFunction(f1) = SumFunction(f) + f1[i] - f[i] /\ SumFunction(f) \in Int
    <3>1. IsFiniteSet(P) /\ f \in [P -> Int] /\ i \in P
      BY <2>2, <2>7 DEF IsFamily
    <3>2. OneChanged(f1, f, P, i)
      BY <2>7, <2>8, <3>1 DEF OneChanged, IsFamily
    <3> QED
      BY <2>7, <3>2, SumChanged, SumFamily
  <2>10. ChargedAlike'
    <3>1. Dues(deemed) = SumFunction(f)
      BY <2>1 DEF AccountsAlike, ChargedAlike, f
    <3>2. Dues(deemed)' = SumFunction(f1)
      BY <2>4, <2>5, <2>8, <2>9, <3>1
    <3>3. f1 = [j \in DOMAIN lots' |-> account'[j].charged]
      BY <2>1 DEF f1
    <3> QED
      BY <3>2, <3>3 DEF ChargedAlike
  <2>11. CreditedAlike'
    <3>1. [j \in DOMAIN lots' |-> account'[j].credited] = [j \in DOMAIN lots |-> account[j].credited]
      BY <2>1, <2>6
    <3> QED
      BY <2>1, <3>1 DEF AccountsAlike, CreditedAlike, Walking, Credits
  <2> QED
    BY <2>10, <2>11 DEF AccountsAlike
<1>8. ASSUME NEW i \in DOMAIN lots, TakeFromLot(i) PROVE AccountsAlike'
  <2> DEFINE take == minimum(wanted, lots[i].remaining)
             more == take * lots[i].deemedTaxPerUnit
  <2>1. /\ pc = "sale" /\ Walking /\ DOMAIN lots' = DOMAIN lots
        /\ credit' = credit + more
        /\ account' = [account EXCEPT ![i].credited = @ + more]
        /\ UNCHANGED <<pc, deemed, disposals>>
    BY <1>8 DEF TakeFromLot, Walking
  <2>2. /\ DOMAIN account = DOMAIN lots /\ credit \in Nat /\ wanted \in Nat
        /\ disposals \in Seq(ChargeableEvent)
        /\ \A j \in DOMAIN lots : account[j] \in [charged : Int, credited : Nat]
        /\ lots[i] \in FundLot
    BY <1>0 DEF IInv, TypeOK
  <2>3. more \in Nat
    <3>1. take \in Nat /\ lots[i].deemedTaxPerUnit \in Nat
      BY <2>2 DEF minimum, FundLot
    <3> HIDE DEF take
    <3> QED
      BY <3>1
  <2> HIDE DEF more
  <2>4. /\ DOMAIN account' = DOMAIN account
        /\ account'[i].credited = account[i].credited + more
        /\ \A j \in DOMAIN lots : j # i => account'[j] = account[j]
        /\ \A j \in DOMAIN lots : account'[j].charged = account[j].charged
    <3>1. account'[i] = [account[i] EXCEPT !.credited = account[i].credited + more]
      BY <2>1, <2>2
    <3>2. /\ DOMAIN account' = DOMAIN account
          /\ \A j \in DOMAIN lots : j # i => account'[j] = account[j]
      BY <2>1, <2>2
    <3> QED
      BY <2>2, <3>1, <3>2
  <2> DEFINE P  == DOMAIN lots
             f  == [j \in P |-> account[j].credited]
             f1 == [j \in P |-> account'[j].credited]
  <2>5. IsFamily(f, P)
    BY <1>0, <2>1, AccountFamily
  <2>6. f1 \in [P -> Int] /\ f1[i] = f[i] + more /\ f[i] \in Int /\ \A j \in P \ {i} : f1[j] = f[j]
    <3>1. \A j \in P : f1[j] \in Int
      BY <2>2, <2>3, <2>4
    <3> QED
      BY <2>2, <2>3, <2>4, <3>1
  <2> HIDE DEF f, f1
  <2>7. SumFunction(f1) = SumFunction(f) + f1[i] - f[i] /\ SumFunction(f) \in Int
    <3>1. IsFiniteSet(P) /\ f \in [P -> Int] /\ i \in P
      BY <2>5 DEF IsFamily
    <3>2. OneChanged(f1, f, P, i)
      BY <2>5, <2>6, <3>1 DEF OneChanged, IsFamily
    <3> QED
      BY <2>5, <3>2, SumChanged, SumFamily
  <2>8. CreditedAlike'
    <3>1. Credits(disposals) + credit = SumFunction(f) /\ Credits(disposals) \in Int
      BY <2>1, <2>2, ListFamily DEF AccountsAlike, CreditedAlike, f
    <3>2. Credits(disposals) + credit' = SumFunction(f1)
      BY <2>1, <2>2, <2>3, <2>6, <2>7, <3>1
    <3>3. f1 = [j \in DOMAIN lots' |-> account'[j].credited]
      BY <2>1 DEF f1
    <3>4. Credits(disposals)' = Credits(disposals)
      BY <2>1 DEF Credits
    <3> QED
      BY <2>1, <3>2, <3>3, <3>4 DEF CreditedAlike
  <2>9. ChargedAlike'
    <3>1. [j \in DOMAIN lots' |-> account'[j].charged] = [j \in DOMAIN lots |-> account[j].charged]
      BY <2>1, <2>4
    <3> QED
      BY <2>1, <3>1 DEF AccountsAlike, ChargedAlike, Walking, Dues
  <2> QED
    BY <2>8, <2>9 DEF AccountsAlike
<1>9. CASE RecordDisposal
  <2> DEFINE sell == sorted[sale]
             gain == sell.quantity * sell.price - cost
             tax  == positive(gain) * ExitRate[sell.date]
             record == [lot |-> 0, date |-> sell.date, quantity |-> sell.quantity, gain |-> gain,
                        tax |-> tax, credit |-> credit, due |-> tax - credit]
  <2>1. /\ pc = "sale" /\ pc' = "walk" /\ Walking /\ disposals' = Append(disposals, record)
        /\ UNCHANGED <<lots, deemed, account>>
    BY <1>9 DEF RecordDisposal, Walking
  <2>2. disposals \in Seq(ChargeableEvent) /\ disposals' \in Seq(ChargeableEvent) /\ credit \in Nat
    BY <1>0 DEF IInv, TypeOK
  <2>3. record.credit = credit
    OBVIOUS
  <2> HIDE DEF record
  <2>4. record \in ChargeableEvent
    <3>1. disposals'[Len(disposals) + 1] = record /\ Len(disposals) + 1 \in DOMAIN disposals'
      BY <2>1, <2>2
    <3> QED
      BY <2>2, <3>1
  <2>5. Credits(disposals') = Credits(disposals) + credit /\ Credits(disposals) \in Int
    BY <2>1, <2>2, <2>3, <2>4, ListMore, ListFamily
  <2>6. CreditedAlike'
    BY <2>1, <2>2, <2>5 DEF AccountsAlike, CreditedAlike
  <2>7. ChargedAlike'
    BY <2>1 DEF AccountsAlike, ChargedAlike, Dues
  <2> QED
    BY <2>6, <2>7 DEF AccountsAlike
<1>10. CASE Return
  <2>1. pc = "walk" /\ pc' = "done" /\ Walking /\ UNCHANGED <<lots, deemed, disposals, account>>
    BY <1>10 DEF Return, Walking, results
  <2> QED
    BY <2>1, AccountsKept
<1>11. CASE UNCHANGED vars
  BY <1>11 DEF vars, saleVars, results, AccountsAlike, ChargedAlike, CreditedAlike, Walking, Dues, Credits
<1> QED
  BY <1>1, <1>2, <1>3, <1>4, <1>5, <1>6, <1>7, <1>8, <1>9, <1>10, <1>11 DEF Next

----------------------------------------------------------------------------
(* The sum of two families is the sum of their sums.                       *)
LEMMA SumPlus ==
  ASSUME NEW S, NEW f, NEW g, IsFamily(f, S), IsFamily(g, S),
         NEW h, h = [x \in S |-> f[x] + g[x]]
  PROVE  IsFamily(h, S) /\ SumFunction(h) = SumFunction(f) + SumFunction(g)
<1>0. IsFamily(h, S) /\ IsFiniteSet(S)
  BY DEF IsFamily
<1>1. \A x \in S : f[x] \in Int /\ g[x] \in Int /\ h[x] = f[x] + g[x]
  BY DEF IsFamily
<1> DEFINE F(T) == SumFunctionOnSet(f, T)
           G(T) == SumFunctionOnSet(g, T)
           H(T) == SumFunctionOnSet(h, T)
           C    == {T \in SUBSET S : H(T) = F(T) + G(T)}
<1>2. ASSUME NEW T \in SUBSET S, \A x \in T : T \ {x} \in C PROVE T \in C
  <2>1. IsFiniteSet(T)
    BY <1>0, FS_Subset
  <2>2. CASE T = {}
    <3>1. F(T) = 0 /\ G(T) = 0 /\ H(T) = 0
      BY <2>1, <2>2, SumChosen, Zenon
    <3> QED
      BY <3>1
  <2>3. CASE T # {}
    <3>1. PICK a \in T : TRUE
      BY <2>3
    <3>2. /\ \A x \in T : f[x] \in Int /\ g[x] \in Int /\ h[x] \in Int
          /\ h[a] = f[a] + g[a] /\ f[a] \in Int /\ g[a] \in Int
      BY <1>1, <3>1
    <3>3. F(T) = f[a] + F(T \ {a}) /\ G(T) = g[a] + G(T \ {a}) /\ H(T) = h[a] + H(T \ {a})
      BY <2>1, <3>1, <3>2, SumWithout
    <3>4. H(T \ {a}) = F(T \ {a}) + G(T \ {a})
      BY <1>2, <3>1
    <3>5. F(T \ {a}) \in Int /\ G(T \ {a}) \in Int
      <4>1. IsFiniteSet(T \ {a})
        BY <2>1, FS_Subset
      <4> QED
        BY <3>2, <4>1, SumType
    <3> HIDE DEF F, G, H
    <3>6. H(T) = F(T) + G(T)
      BY <3>2, <3>3, <3>4, <3>5
    <3> QED
      BY <3>6
  <2> QED
    BY <2>2, <2>3
<1> HIDE DEF C
<1>3. \A T \in SUBSET S : (\A x \in T : T \ {x} \in C) => T \in C
  BY <1>2
<1>4. \A T \in SUBSET S : T \in C
  BY <1>0, <1>3, SetInduction, Zenon
<1>5. H(S) = F(S) + G(S)
  BY <1>4 DEF C
<1> QED
  BY <1>0, <1>5, SumFamily

(* What is due on a list is due in the years of its events, each event in  *)
(* one of them.                                                            *)
LEMMA DuesByYear ==
  ASSUME NEW ds \in Seq(ChargeableEvent), NEW Y, IsFiniteSet(Y),
         \A k \in DOMAIN ds : YearOf(ds[k].date) \in Y
  PROVE  /\ \A y \in Y : InYear(ds, y) \in Seq(ChargeableEvent)
         /\ SumFunction([y \in Y |-> Dues(InYear(ds, y))]) = Dues(ds)
<1> DEFINE n    == Len(ds)
           kept == [y \in Y |-> CHOOSE f : IsKept(f, ds, y, n)]
           upto(k) == [j \in 1..k |-> ds[j]]
           sums(k) == [y \in Y |-> Dues(kept[y][k])]
<1>1. n \in Nat /\ DOMAIN ds = 1..n /\ \A k \in 1..n : ds[k] \in ChargeableEvent /\ YearOf(ds[k].date) \in Y
  OBVIOUS
<1>2. ASSUME NEW y \in Y PROVE IsKept(kept[y], ds, y, n) /\ InYear(ds, y) = kept[y][n]
  <2>1. kept[y] = CHOOSE f : IsKept(f, ds, y, n)
    OBVIOUS
  <2>2. \E f : IsKept(f, ds, y, n)
    BY <1>1, KeptExists
  <2>3. IsKept(kept[y], ds, y, n)
    BY <2>1, <2>2, Zenon
  <2>4. InYear(ds, y) = (CHOOSE f : IsKept(f, ds, y, n))[n]
    BY InYearKept
  <2> QED
    BY <2>1, <2>3, <2>4
<1> HIDE DEF kept, n
<1> DEFINE C == {k \in 0..n : /\ \A y \in Y : kept[y][k] \in Seq(ChargeableEvent)
                              /\ upto(k) \in Seq(ChargeableEvent)
                              /\ SumFunction(sums(k)) = Dues(upto(k))}
<1>3. 0 \in C
  <2>1. \A y \in Y : kept[y][0] = << >>
    <3> SUFFICES ASSUME NEW y \in Y PROVE kept[y][0] = << >>
      OBVIOUS
    <3>1. 0 \in 0..n
      BY <1>1
    <3>2. kept[y][0] = KeptNext(kept[y], ds, y, 0)
      BY <1>1, <1>2, <3>1, KeptAt
    <3> QED
      BY <3>2 DEF KeptNext
  <2>2. upto(0) = << >> /\ << >> \in Seq(ChargeableEvent)
    OBVIOUS
  <2>3. Dues(<< >>) = 0
    <3> DEFINE none == << >>
    <3>1. none \in Seq(ChargeableEvent) /\ Len(none) = 0
      OBVIOUS
    <3> HIDE DEF none
    <3>2. Dues(none) = 0
      BY <3>1, ListFamily
    <3> QED
      BY <3>2 DEF none
  <2> DEFINE z == sums(0)
  <2>4. \A y \in Y : z[y] = 0
    BY <2>1, <2>3
  <2>5. IsFamily(z, Y)
    BY <2>4 DEF IsFamily
  <2> HIDE DEF z
  <2>6. SumFunction(z) = 0
    BY <2>4, <2>5, SumOfZeros
  <2>7. SumFunction(sums(0)) = Dues(upto(0))
    BY <2>2, <2>3, <2>6 DEF z
  <2>8. 0 \in 0..n
    BY <1>1
  <2>9. \A y \in Y : kept[y][0] \in Seq(ChargeableEvent)
    <3>1. << >> \in Seq(ChargeableEvent)
      BY <2>2
    <3> QED
      BY <2>1, <3>1, Zenon
  <2> HIDE DEF upto, sums
  <2> QED
    BY <2>2, <2>7, <2>8, <2>9
<1>4. ASSUME NEW k \in 1..n, k - 1 \in C PROVE k \in C
  <2>1. k \in 0..n /\ k # 0 /\ k \in Nat /\ k - 1 \in Nat
    BY <1>1
  <2> DEFINE c  == ds[k]
             y0 == YearOf(c.date)
             before == upto(k - 1)
  <2>2. c \in ChargeableEvent /\ y0 \in Y /\ c.due \in Int
    <3>1. c \in ChargeableEvent /\ y0 \in Y
      BY <1>1
    <3> HIDE DEF c
    <3> QED
      BY <3>1 DEF ChargeableEvent
  <2>3. before \in Seq(ChargeableEvent) /\ \A y \in Y : kept[y][k - 1] \in Seq(ChargeableEvent)
    BY <1>4
  <2>4. upto(k) = Append(before, c)
    <3>1. Len(before) = k - 1
      BY <2>1
    <3> QED
      BY <2>1, <2>3, <3>1
  <2> HIDE DEF before, c
  <2>5. upto(k) \in Seq(ChargeableEvent) /\ Dues(upto(k)) = Dues(before) + c.due
    BY <2>2, <2>3, <2>4, ListMore
  <2>6. ASSUME NEW y \in Y
        PROVE  kept[y][k] = IF y = y0 THEN Append(kept[y][k - 1], c) ELSE kept[y][k - 1]
    <3>1. kept[y][k] = KeptNext(kept[y], ds, y, k)
      BY <1>1, <1>2, <2>1, KeptAt
    <3> QED
      BY <2>1, <3>1 DEF KeptNext, c
  <2>7. ASSUME NEW y \in Y
        PROVE  /\ kept[y][k] \in Seq(ChargeableEvent)
               /\ Dues(kept[y][k]) = IF y = y0 THEN Dues(kept[y][k - 1]) + c.due ELSE Dues(kept[y][k - 1])
    BY <2>2, <2>3, <2>6, ListMore
  <2> DEFINE f == sums(k - 1)
             g == sums(k)
  <2>8. /\ IsFamily(f, Y) /\ IsFamily(g, Y)
    <3>1. \A y \in Y : Dues(kept[y][k]) \in Int /\ Dues(kept[y][k - 1]) \in Int
      BY <2>3, <2>7, ListFamily
    <3> QED
      BY <3>1 DEF IsFamily
  <2>9. g[y0] = f[y0] + c.due /\ \A y \in Y \ {y0} : g[y] = f[y]
    BY <2>2, <2>7
  <2>10. f[y0] \in Int
    BY <2>2, <2>8 DEF IsFamily
  <2> HIDE DEF f, g, y0
  <2>11. SumFunction(g) = SumFunction(f) + g[y0] - f[y0] /\ SumFunction(f) \in Int
    <3>1. OneChanged(g, f, Y, y0)
      BY <2>2, <2>8, <2>9 DEF OneChanged
    <3> QED
      BY <2>8, <3>1, SumChanged, SumFamily
  <2>12. SumFunction(g) = SumFunction(f) + c.due
    BY <2>2, <2>9, <2>10, <2>11
  <2>13. SumFunction(f) = Dues(before)
    BY <1>4 DEF f, before
  <2>14. SumFunction(sums(k)) = Dues(upto(k))
    BY <2>5, <2>12, <2>13 DEF g
  <2> QED
    BY <2>1, <2>5, <2>7, <2>14
<1> HIDE DEF C
<1>5. n \in C
  <2>1. n \in 0..n
    BY <1>1
  <2> QED
    BY <1>1, <1>3, <1>4, <2>1, CountUpTo
<1>6. upto(n) = ds
  BY <1>1
<1>7. /\ \A y \in Y : kept[y][n] \in Seq(ChargeableEvent)
      /\ SumFunction(sums(n)) = Dues(upto(n))
  BY <1>5 DEF C
<1>8. sums(n) = [y \in Y |-> Dues(InYear(ds, y))]
  BY <1>2
<1> QED
  BY <1>2, <1>6, <1>7, <1>8

----------------------------------------------------------------------------
(* What is listed is dated in the calendar, and due is the tax less the    *)
(* credit.                                                                 *)
LEMMA ListedDates ==
  ASSUME NEW s \in Seq(Transaction), NEW asof \in AsOfs, NEW ds, NEW es, Outcome(s, asof, ds, es)
  PROVE  /\ \A k \in DOMAIN ds : ds[k].date \in Dates
         /\ \A k \in DOMAIN es : es[k].date \in Dates /\ es[k].tax = es[k].due + es[k].credit
<1>1. ds \in Seq(ChargeableEvent) /\ es \in Seq(ChargeableEvent)
  BY DEF Outcome
<1>2. DOMAIN ds = 1..Len(ds) /\ DOMAIN es = 1..Len(es)
  BY <1>1
<1>3. ASSUME NEW k \in DOMAIN ds PROVE ds[k].date \in Dates
  <2>1. PICK at : /\ Enumerates(at, Len(ds), ChargedTo(s, asof), Order)
                  /\ \A j \in 1..Len(ds) : ds[j] = Charge(s, asof, at[j])
    BY DEF Outcome, ListOfCharges
  <2>2. at[k] \in ChargedTo(s, asof) /\ ds[k] = Charge(s, asof, at[k])
    BY <1>2, <2>1 DEF Enumerates
  <2>3. at[k].date \in Nat /\ at[k].date <= asof
    BY <2>2, ChargedEvent
  <2>4. asof \in Nat
    BY AsOfAssumption, DatesAssumption
  <2>5. at[k].date \in 0..asof
    BY <2>3, <2>4
  <2>6. at[k].date \in Dates
    BY <2>5, CalendarAssumption
  <2>7. ds[k].date = at[k].date
    BY <2>2 DEF Charge
  <2> QED
    BY <2>6, <2>7
<1>4. ASSUME NEW k \in DOMAIN es PROVE es[k].date \in Dates /\ es[k].tax = es[k].due + es[k].credit
  <2>1. PICK at : /\ Enumerates(at, Len(es), SoldTo(s, asof), Order)
                  /\ \A j \in 1..Len(es) : es[j] = Sold(s, asof, at[j])
    BY DEF Outcome, ListOfSales
  <2>2. at[k] \in SoldTo(s, asof) /\ es[k] = Sold(s, asof, at[k])
    BY <1>2, <2>1 DEF Enumerates
  <2>3. asof <= asof
    BY AsOfAssumption, DatesAssumption
  <2>4. at[k].index \in Sales(s) /\ es[k].date = s[at[k].index].date
    <3>1. at[k].index \in Sales(s)
      BY <2>2, <2>3, SoldEarlier
    <3>2. Sold(s, asof, at[k]).date = s[at[k].index].date
      BY DEF Sold
    <3> QED
      BY <2>2, <3>1, <3>2
  <2>5. s[at[k].index].date \in Dates
    <3>1. s[at[k].index] \in Transaction
      BY <2>4, Quantity DEF Sales
    <3> QED
      BY <3>1 DEF Transaction
  <2>6. es[k].due = es[k].tax - es[k].credit
    BY <2>2 DEF Sold
  <2>7. es[k] \in ChargeableEvent
    BY <1>1
  <2>8. es[k].due \in Int /\ es[k].tax \in Int /\ es[k].credit \in Int
    BY <1>1, ListFamily DEF IsFamily
  <2> QED
    BY <2>4, <2>5, <2>6, <2>8
<1> QED
  BY <1>3, <1>4

(* On the sales, what is taxed is what is due and what is credited.        *)
LEMMA TaxOfSales ==
  ASSUME NEW es \in Seq(ChargeableEvent),
         \A k \in DOMAIN es : es[k].tax = es[k].due + es[k].credit
  PROVE  Taxes(es) = Dues(es) + Credits(es)
<1> DEFINE S == DOMAIN es
           f == [k \in S |-> es[k].due]
           g == [k \in S |-> es[k].credit]
           h == [k \in S |-> es[k].tax]
<1>1. IsFamily(f, S) /\ IsFamily(g, S)
  BY ListFamily
<1>2. h = [k \in S |-> f[k] + g[k]]
  OBVIOUS
<1>3. Taxes(es) = SumFunction(h) /\ Dues(es) = SumFunction(f) /\ Credits(es) = SumFunction(g)
  BY DEF Taxes, Dues, Credits, Total
<1> HIDE DEF f, g, h, S
<1> QED
  BY <1>1, <1>2, <1>3, SumPlus

(* What the lots were charged is what was credited and what they have left.*)
LEMMA ChargedIsLeft ==
  ASSUME IInv, WInv, AccountsAlike, pc = "done"
  PROVE  /\ Dues(deemed) = Credits(disposals)
                             + Total([i \in DOMAIN lots |-> lots[i].remaining * lots[i].deemedTaxPerUnit])
         /\ Total([i \in DOMAIN lots |-> lots[i].remaining * lots[i].deemedTaxPerUnit]) \in Int
<1> DEFINE P == DOMAIN lots
           f == [i \in P |-> account[i].credited]
           g == [i \in P |-> lots[i].remaining * lots[i].deemedTaxPerUnit]
           h == [i \in P |-> account[i].charged]
<1>1. Walking
  BY DEF Walking
<1>2. IsFamily(f, P) /\ IsFamily(h, P)
  BY <1>1, AccountFamily
<1>3. ASSUME NEW i \in P
      PROVE  g[i] \in Int /\ h[i] = f[i] + g[i]
  <2>1. lots[i] \in FundLot /\ account[i] \in [charged : Int, credited : Nat]
        /\ account[i].charged - account[i].credited = lots[i].remaining * lots[i].deemedTaxPerUnit
    BY DEF IInv, TypeOK, CreditFollowsUnits
  <2>2. lots[i].remaining \in Nat /\ lots[i].deemedTaxPerUnit \in Nat
    BY <2>1 DEF FundLot
  <2> DEFINE r == lots[i].remaining * lots[i].deemedTaxPerUnit
  <2>3. r \in Int
    BY <2>2
  <2>4. g[i] = r /\ h[i] = account[i].charged /\ f[i] = account[i].credited
    OBVIOUS
  <2>5. account[i].charged \in Int /\ account[i].credited \in Int /\ account[i].charged - account[i].credited = r
    BY <2>1
  <2> HIDE DEF r, f, g, h
  <2> QED
    BY <2>3, <2>4, <2>5
<1>4. IsFamily(g, P)
  BY <1>2, <1>3 DEF IsFamily
<1>5. h = [i \in P |-> f[i] + g[i]]
  BY <1>3
<1>6. Dues(deemed) = SumFunction(h) /\ Credits(disposals) + 0 = SumFunction(f)
  BY <1>1 DEF AccountsAlike, ChargedAlike, CreditedAlike
<1>7. Credits(disposals) \in Int
  BY ListFamily DEF IInv, TypeOK
<1>8. Total([i \in DOMAIN lots |-> lots[i].remaining * lots[i].deemedTaxPerUnit]) = SumFunction(g)
  BY DEF Total
<1> HIDE DEF f, g, h, P
<1>9. SumFunction(h) = SumFunction(f) + SumFunction(g) /\ SumFunction(g) \in Int
  BY <1>2, <1>4, <1>5, SumPlus, SumFamily
<1> QED
  BY <1>6, <1>7, <1>8, <1>9

(* What is filed, and that every report has its year.                      *)
FiledInv == IsFiniteSet(DOMAIN reports) /\ AccountsAlike

LEMMA FiledStep ==
  ASSUME CallInv, FiledInv, [NextYears]_yearVars
  PROVE  FiledInv'
<1>1. CASE Next /\ UNCHANGED <<year, reports>>
  BY <1>1, AccountStep DEF FiledInv
<1>2. CASE FileYear
  <2>1. DOMAIN reports' = DOMAIN reports \union {year}
    BY <1>2 DEF FileYear
  <2>2. IsFiniteSet(DOMAIN reports')
    BY <2>1, FS_AddElement DEF FiledInv
  <2>3. CASE Call(yearEndDate(year + 1))
    <3>1. ~ Walking'
      BY <2>3 DEF Call, Walking
    <3> QED
      BY <2>2, <3>1 DEF FiledInv, AccountsAlike, ChargedAlike, CreditedAlike
  <2>4. CASE UNCHANGED vars
    BY <2>2, <2>4, AccountStep DEF FiledInv
  <2> QED
    BY <1>2, <2>3, <2>4 DEF FileYear
<1>3. CASE UNCHANGED yearVars
  BY <1>3, AccountStep DEF FiledInv, yearVars
<1> QED
  BY <1>1, <1>2, <1>3 DEF NextYears, Compute

LEMMA FiledAtFirst ==
  ASSUME InitYears
  PROVE  FiledInv
<1>1. DOMAIN reports = {}
  BY DEF InitYears
<1>2. ~ Walking
  BY DEF InitYears, Init, Walking
<1> QED
  BY <1>1, <1>2, FS_EmptySet DEF FiledInv, AccountsAlike, ChargedAlike, CreditedAlike

LEMMA OnlyAdvancedHere ==
  ASSUME CallInv, YInv, FiledInv, ReportsStand, \A d \in Dates : YearOf(d) \in Years
  PROVE  DeemedTaxOnlyAdvanced
<1> SUFFICES ASSUME pc = "done", DOMAIN reports = Years, \A y \in Years : reports[y] # Blocked
             PROVE  DuesFiled = Taxes(disposals)
                      + Total([i \in DOMAIN lots |-> lots[i].remaining * lots[i].deemedTaxPerUnit])
  BY DEF DeemedTaxOnlyAdvanced, Taxes
<1>1. \A y \in Years : reports[y] = Scoped(y)
  BY DEF ReportsStand
<1>2. /\ deemed \in Seq(ChargeableEvent) /\ disposals \in Seq(ChargeableEvent)
      /\ Outcome(sorted, asOf, deemed, disposals)
      /\ sorted \in Seq(Transaction) /\ asOf \in AsOfs
  BY Done DEF CallInv, IInv, TypeOK
<1>3. IsFiniteSet(Years)
  BY DEF FiledInv
<1>4. /\ \A k \in DOMAIN deemed : YearOf(deemed[k].date) \in Years
      /\ \A k \in DOMAIN disposals : YearOf(disposals[k].date) \in Years
  BY <1>2, ListedDates
<1> DEFINE f == [y \in Years |-> Dues(InYear(deemed, y))]
           g == [y \in Years |-> Dues(InYear(disposals, y))]
           h == [y \in DOMAIN reports |-> Dues(reports[y].deemed) + Dues(reports[y].disposals)]
<1>5. /\ \A y \in Years : InYear(deemed, y) \in Seq(ChargeableEvent)
      /\ \A y \in Years : InYear(disposals, y) \in Seq(ChargeableEvent)
      /\ SumFunction(f) = Dues(deemed) /\ SumFunction(g) = Dues(disposals)
  BY <1>2, <1>3, <1>4, DuesByYear
<1>6. IsFamily(f, Years) /\ IsFamily(g, Years)
  <2>1. \A y \in Years : Dues(InYear(deemed, y)) \in Int /\ Dues(InYear(disposals, y)) \in Int
    BY <1>5, ListFamily
  <2> QED
    BY <1>3, <2>1 DEF IsFamily
<1>7. h = [y \in Years |-> f[y] + g[y]]
  <2>1. ASSUME NEW y \in Years
        PROVE  Dues(reports[y].deemed) = f[y] /\ Dues(reports[y].disposals) = g[y]
    <3>1. reports[y].deemed = InYear(deemed, y) /\ reports[y].disposals = InYear(disposals, y)
      BY <1>1 DEF Scoped
    <3> QED
      BY <3>1
  <2> HIDE DEF f, g
  <2> QED
    BY <2>1
<1>8. DuesFiled = SumFunction(h)
  BY DEF DuesFiled, Total
<1> HIDE DEF f, g, h
<1>9. DuesFiled = Dues(deemed) + Dues(disposals)
  BY <1>5, <1>6, <1>7, <1>8, SumPlus
<1> DEFINE left == Total([i \in DOMAIN lots |-> lots[i].remaining * lots[i].deemedTaxPerUnit])
<1>10. Dues(deemed) = Credits(disposals) + left /\ left \in Int
  BY ChargedIsLeft DEF CallInv, FiledInv
<1>11. Taxes(disposals) = Dues(disposals) + Credits(disposals)
  BY <1>2, ListedDates, TaxOfSales
<1>12. Dues(disposals) \in Int /\ Credits(disposals) \in Int
  BY <1>2, ListFamily
<1> HIDE DEF left
<1>13. DuesFiled = Taxes(disposals) + left
  BY <1>9, <1>10, <1>11, <1>12
<1> QED
  BY <1>13 DEF left

(* The reports of all years together collect the tax on the actual sales   *)
(* and what is still attached to the units left: no deemed disposal is     *)
(* charged twice or left uncredited, in one year or across them.  The      *)
(* years reported must be all those of the calendar, and nothing be traded *)
(* on the afternoon of a 31 December (see ReportsStandAlways).             *)
THEOREM DeemedTaxOnlyAdvances ==
  ASSUME \A s \in Ledgers : \A i \in DOMAIN s : s[i].date % YearLength # YearLength - 1,
         \A d \in Dates : YearOf(d) \in Years
  PROVE  SpecYears => []DeemedTaxOnlyAdvanced
<1>1. \A s \in Ledgers : NoLateTrade(s)
  BY DEF NoLateTrade
<1>2. InitYears => FiledInv
  BY FiledAtFirst
<1>3. CallInv /\ FiledInv /\ [NextYears]_yearVars => FiledInv'
  BY FiledStep
<1>4. CallInv /\ YInv /\ FiledInv => DeemedTaxOnlyAdvanced
  BY <1>1, ReportsStandHere, OnlyAdvancedHere
<1> QED
  BY <1>2, <1>3, <1>4, YearsInvariance, PTL DEF SpecYears

----------------------------------------------------------------------------
(* The schedule's own walk: a table, over the sets of events, of what is   *)
(* held and has fallen due after them.                                     *)
Opened(s) == [held |-> [i \in Purchases(s) |-> s[i].quantity], due |-> {}, oversold |-> FALSE]

LastOf(es) == CHOOSE e \in es : \A f \in es : f = e \/ Precedes(f, e)

IsWalk(g, s, S) ==
  g = [es \in SUBSET S |->
         IF es = {} THEN Opened(s) ELSE walk(s, g[es \ {LastOf(es)}], LastOf(es))]

AfterAll(s, S) == (CHOOSE g : IsWalk(g, s, S))[S]

(* What the schedule is of what the walk ends with.                        *)
Rows(s, asof, end) ==
  IF \/ \E i \in DOMAIN s : s[i].type \notin Acquisitions \union {"sell"}
     \/ end.oversold
  THEN {}
  ELSE end.due \union
       {Due(i, NextDeemedDisposalAnniversary(s[i].date, asof), end.held[i], FALSE) :
          i \in {j \in DOMAIN end.held : end.held[j] # 0}}

LEMMA ScheduleWalk ==
  ASSUME NEW s, NEW asof
  PROVE  DeemedDisposalSchedule(s, asof) = Rows(s, asof, AfterAll(s, fundEvents(s, asof)))
BY DEF DeemedDisposalSchedule, Rows, AfterAll, IsWalk, LastOf, Opened

LEMMA WalkAt ==
  ASSUME NEW s, NEW S, NEW g, IsWalk(g, s, S), NEW T \in SUBSET S
  PROVE  g[T] = IF T = {} THEN Opened(s) ELSE walk(s, g[T \ {LastOf(T)}], LastOf(T))
<1> DEFINE h == [es \in SUBSET S |->
                   IF es = {} THEN Opened(s) ELSE walk(s, g[es \ {LastOf(es)}], LastOf(es))]
<1>1. g = h
  BY DEF IsWalk
<1>2. h[T] = IF T = {} THEN Opened(s) ELSE walk(s, g[T \ {LastOf(T)}], LastOf(T))
  OBVIOUS
<1> HIDE DEF h
<1> QED
  BY <1>1, <1>2

(* Events are in one order.                                                *)
IsOrdered(S) ==
  /\ IsFiniteSet(S)
  /\ \A e, f \in S : e = f \/ Precedes(e, f) \/ Precedes(f, e)
  /\ \A e, f, k \in S : Precedes(e, f) /\ Precedes(f, k) => Precedes(e, k)

LEMMA HasLast ==
  ASSUME NEW S, IsOrdered(S), NEW T \in SUBSET S, T # {}
  PROVE  LastOf(T) \in T /\ \A f \in T : f = LastOf(T) \/ Precedes(f, LastOf(T))
<1> DEFINE C == {U \in SUBSET S : U # {} => \E e \in U : \A f \in U : f = e \/ Precedes(f, e)}
<1>1. ASSUME NEW U \in SUBSET S, \A x \in U : U \ {x} \in C PROVE U \in C
  <2> SUFFICES ASSUME U # {} PROVE \E e \in U : \A f \in U : f = e \/ Precedes(f, e)
    OBVIOUS
  <2>1. PICK x \in U : TRUE
    OBVIOUS
  <2>2. CASE U \ {x} = {}
    BY <2>1, <2>2
  <2>3. CASE U \ {x} # {}
    <3>1. PICK e \in U \ {x} : \A f \in U \ {x} : f = e \/ Precedes(f, e)
      BY <1>1, <2>1, <2>3
    <3>2. CASE Precedes(x, e)
      BY <3>1, <3>2
    <3>3. CASE Precedes(e, x)
      <4>1. \A f \in U : f = x \/ Precedes(f, x)
        BY <2>1, <3>1, <3>3 DEF IsOrdered
      <4> QED
        BY <2>1, <4>1
    <3> QED
      BY <2>1, <3>1, <3>2, <3>3 DEF IsOrdered
  <2> QED
    BY <2>2, <2>3
<1> HIDE DEF C
<1>2. \A U \in SUBSET S : (\A x \in U : U \ {x} \in C) => U \in C
  BY <1>1
<1>3. IsFiniteSet(S)
  BY DEF IsOrdered
<1>4. \A U \in SUBSET S : U \in C
  BY <1>2, <1>3, SetInduction, Zenon
<1>5. \E e \in T : \A f \in T : f = e \/ Precedes(f, e)
  BY <1>4 DEF C
<1> QED
  BY <1>5, Zenon DEF LastOf

LEMMA WalksAgree ==
  ASSUME NEW s, NEW S, IsOrdered(S), NEW g, IsWalk(g, s, S), NEW T \in SUBSET S, NEW h, IsWalk(h, s, T)
  PROVE  g[T] = h[T]
<1> DEFINE C == {U \in SUBSET T : g[U] = h[U]}
<1>1. IsFiniteSet(T)
  BY FS_Subset DEF IsOrdered
<1>2. ASSUME NEW U \in SUBSET T, \A x \in U : U \ {x} \in C PROVE U \in C
  <2>1. CASE U = {}
    <3>1. {} \in SUBSET S /\ {} \in SUBSET T
      OBVIOUS
    <3>2. g[{}] = Opened(s) /\ h[{}] = Opened(s)
      BY <3>1, WalkAt
    <3> QED
      BY <2>1, <3>2
  <2>2. CASE U # {}
    <3>1. LastOf(U) \in U
      BY <2>2, HasLast
    <3>2. U \ {LastOf(U)} \in C
      BY <1>2, <3>1
    <3> QED
      BY <2>2, <3>2, WalkAt
  <2> QED
    BY <2>1, <2>2
<1> HIDE DEF C
<1>3. \A U \in SUBSET T : (\A x \in U : U \ {x} \in C) => U \in C
  BY <1>2
<1>4. T \in C
  BY <1>1, <1>3, SetInduction, Zenon
<1> QED
  BY <1>4 DEF C

LEMMA WalkExists ==
  ASSUME NEW s, NEW S, IsOrdered(S)
  PROVE  \E g : IsWalk(g, s, S)
<1> DEFINE C == {T \in SUBSET S : \A U \in SUBSET T : \E g : IsWalk(g, s, U)}
           table(U) == CHOOSE g : IsWalk(g, s, U)
<1>0. \A T \in SUBSET S : IsOrdered(T)
  BY FS_Subset DEF IsOrdered
<1>1. ASSUME NEW T \in SUBSET S, \A x \in T : T \ {x} \in C PROVE T \in C
  <2> DEFINE h == [es \in SUBSET T |-> IF es = {} THEN Opened(s)
                     ELSE walk(s, table(es \ {LastOf(es)})[es \ {LastOf(es)}], LastOf(es))]
  <2>1. ASSUME NEW U \in SUBSET T, U # T PROVE \E g : IsWalk(g, s, U)
    <3>1. PICK x \in T : x \notin U
      BY <2>1
    <3>2. T \ {x} \in C /\ U \in SUBSET (T \ {x})
      BY <1>1, <3>1
    <3> QED
      BY <3>2
  <2>2. ASSUME NEW U \in SUBSET T, U # T PROVE IsWalk(table(U), s, U)
    BY <2>1, <2>2
  <2> HIDE DEF table
  <2>3. ASSUME NEW u \in SUBSET T, u # T PROVE h[u] = table(u)[u]
    <3>1. IsWalk(table(u), s, u) /\ u \in SUBSET u /\ IsOrdered(u)
      BY <1>0, <2>2, <2>3
    <3>2. table(u)[u] = IF u = {} THEN Opened(s) ELSE walk(s, table(u)[u \ {LastOf(u)}], LastOf(u))
      BY <3>1, WalkAt
    <3>3. CASE u = {}
      BY <3>2, <3>3
    <3>4. CASE u # {}
      <4>1. LastOf(u) \in u
        BY <3>1, <3>4, HasLast
      <4> DEFINE v == u \ {LastOf(u)}
      <4>2. v \in SUBSET T /\ v # T /\ v \in SUBSET u
        BY <2>3, <4>1
      <4>3. IsWalk(table(v), s, v)
        BY <2>2, <4>2
      <4>4. table(u)[v] = table(v)[v]
        BY <3>1, <4>2, <4>3, WalksAgree
      <4> QED
        BY <3>2, <3>4, <4>4
    <3> QED
      BY <3>3, <3>4
  <2>4. ASSUME NEW es \in SUBSET T, es # {}
        PROVE  table(es \ {LastOf(es)})[es \ {LastOf(es)}] = h[es \ {LastOf(es)}]
    <3>1. LastOf(es) \in es
      BY <1>0, <2>4, HasLast
    <3>2. es \ {LastOf(es)} \in SUBSET T /\ es \ {LastOf(es)} # T
      BY <3>1
    <3> HIDE DEF h
    <3> QED
      BY <2>3, <3>2
  <2>5. IsWalk(h, s, T)
    <3> DEFINE k == [es \in SUBSET T |->
                       IF es = {} THEN Opened(s) ELSE walk(s, h[es \ {LastOf(es)}], LastOf(es))]
    <3>1. \A es \in SUBSET T : h[es] = k[es]
      BY <2>4
    <3>2. h = k
      BY <3>1
    <3> QED
      BY <3>2 DEF IsWalk
  <2> HIDE DEF h
  <2>6. \A U \in SUBSET T : \E g : IsWalk(g, s, U)
    BY <2>1, <2>5
  <2> QED
    BY <2>6
<1> HIDE DEF C
<1>2. \A T \in SUBSET S : (\A x \in T : T \ {x} \in C) => T \in C
  BY <1>1
<1>3. IsFiniteSet(S)
  BY DEF IsOrdered
<1>4. S \in C
  BY <1>2, <1>3, SetInduction, Zenon
<1> QED
  BY <1>4 DEF C

----------------------------------------------------------------------------
(* What is left of the lots up to m is what was bought with them, less     *)
(* what is sold.                                                           *)
LEMMA PositiveSum ==
  ASSUME NEW b \in Nat, NEW q \in Nat, NEW n \in Nat
  PROVE  positive(b - n) + LeftOf(b + q, q, n) = positive((b + q) - n)
BY DEF positive, LeftOf, minimum

LEMMA LeftUpTo ==
  ASSUME NEW s \in Seq(Transaction), NEW n \in Nat, NEW m \in 0..Len(s)
  PROVE  SumFunction([k \in UpTo(s, m) |-> Left(s, k, n)]) = positive(Units(s, UpTo(s, m)) - n)
<1> DEFINE P    == Purchases(s)
           left(j) == [k \in UpTo(s, j) |-> Left(s, k, n)]
           C == {j \in 0..m : SumFunction(left(j)) = positive(Units(s, UpTo(s, j)) - n)}
<1>1. Len(s) \in Nat /\ m \in Nat /\ m <= Len(s) /\ DOMAIN s = 1..Len(s)
  OBVIOUS
<1>2. /\ P \subseteq DOMAIN s
      /\ \A k \in P : k \in Nat /\ k >= 1 /\ Left(s, k, n) \in Nat
  BY <1>1, Quantity, LeftBounds DEF Purchases
<1>3. ASSUME NEW j \in Nat
      PROVE  IsFamily(left(j), UpTo(s, j)) /\ UpTo(s, j) \in SUBSET DOMAIN s /\ Units(s, UpTo(s, j)) \in Nat
  <2>1. UpTo(s, j) \in SUBSET DOMAIN s /\ UpTo(s, j) \subseteq P
    BY <1>2 DEF UpTo
  <2>2. IsFiniteSet(UpTo(s, j)) /\ Units(s, UpTo(s, j)) \in Nat
    BY <2>1, UnitsFamily, UnitsMore DEF IsFamily
  <2>3. \A k \in UpTo(s, j) : Left(s, k, n) \in Int
    BY <1>2, <2>1
  <2> QED
    BY <2>1, <2>2, <2>3 DEF IsFamily
<1>4. 0 \in C
  <2>1. UpTo(s, 0) = {}
    BY <1>2 DEF UpTo
  <2>2. Units(s, UpTo(s, 0)) = 0
    BY <2>1, UnitsOfNone
  <2>3. SumFunction(left(0)) = 0
    BY <1>3, <2>1, SumFamily
  <2>4. positive(0 - n) = 0
    BY DEF positive
  <2> HIDE DEF left
  <2> QED
    BY <1>1, <2>2, <2>3, <2>4
<1>5. ASSUME NEW j \in 1..m, j - 1 \in C PROVE j \in C
  <2>1. j \in Nat /\ j - 1 \in Nat /\ j \in 0..m /\ j \in DOMAIN s
    BY <1>1
  <2>2. SumFunction(left(j - 1)) = positive(Units(s, UpTo(s, j - 1)) - n)
    BY <1>5
  <2>3. CASE j \notin P
    <3>1. \A k \in P : k <= j <=> k <= j - 1
      BY <1>2, <2>1, <2>3
    <3>2. UpTo(s, j) = UpTo(s, j - 1)
      BY <3>1 DEF UpTo
    <3>3. left(j) = left(j - 1)
      BY <3>2
    <3> HIDE DEF left
    <3> QED
      BY <2>1, <2>2, <3>2, <3>3
  <2>4. CASE j \in P
    <3>1. UpTo(s, j) = UpTo(s, j - 1) \union {j} /\ j \notin UpTo(s, j - 1)
      <4>1. \A k \in P : k <= j <=> k <= j - 1 \/ k = j
        BY <1>2, <2>1, <2>4
      <4>2. ~ (j <= j - 1)
        BY <2>1
      <4> QED
        BY <2>4, <4>1, <4>2 DEF UpTo
    <3>2. Units(s, UpTo(s, j)) = Units(s, UpTo(s, j - 1)) + s[j].quantity
      BY <1>3, <2>1, <3>1, UnitsAdded
    <3>3. s[j].quantity \in Nat /\ Units(s, UpTo(s, j - 1)) \in Nat
      BY <1>3, <2>1, Quantity
    <3>4. OneMore(left(j), left(j - 1), UpTo(s, j - 1), j)
      <4>1. IsFamily(left(j - 1), UpTo(s, j - 1)) /\ IsFamily(left(j), UpTo(s, j))
        BY <1>3, <2>1
      <4>2. \A k \in UpTo(s, j - 1) : left(j)[k] = left(j - 1)[k]
        BY <3>1
      <4> HIDE DEF left
      <4> QED
        BY <3>1, <4>1, <4>2 DEF OneMore, IsFamily
    <3>5. left(j)[j] = Left(s, j, n)
      BY <3>1
    <3>6. SumFunction(left(j)) = SumFunction(left(j - 1)) + Left(s, j, n)
      BY <3>4, <3>5, SumAdded
    <3>7. Left(s, j, n) = LeftOf(Units(s, UpTo(s, j - 1)) + s[j].quantity, s[j].quantity, n)
      BY <3>2 DEF Left
    <3> HIDE DEF left
    <3>8. SumFunction(left(j)) = positive(Units(s, UpTo(s, j)) - n)
      <4> DEFINE before == Units(s, UpTo(s, j - 1))
                 more   == s[j].quantity
      <4>1. before \in Nat /\ more \in Nat
        BY <3>3
      <4>2. SumFunction(left(j)) = positive(before - n) + LeftOf(before + more, more, n)
        BY <2>2, <3>6, <3>7
      <4>3. Units(s, UpTo(s, j)) = before + more
        BY <3>2
      <4> HIDE DEF before, more
      <4>4. positive(before - n) + LeftOf(before + more, more, n) = positive((before + more) - n)
        BY <4>1, PositiveSum
      <4> HIDE DEF left
      <4> QED
        BY <4>2, <4>3, <4>4
    <3> QED
      BY <2>1, <3>8
  <2> QED
    BY <2>3, <2>4
<1> HIDE DEF C
<1>6. m \in C
  <2>1. m \in 0..m
    BY <1>1
  <2> QED
    BY <1>1, <1>4, <1>5, <2>1, CountUpTo
<1> QED
  BY <1>6 DEF C

(* The schedule's loop over the lots takes what first-in-first-out takes,  *)
(* also where it oversells.                                                *)
TakenAlike(b, u, n, q) ==
  LeftOf(b + u, u, n) - minimum(LeftOf(b + u, u, n), positive(q - positive(b - n)))
    = LeftOf(b + u, u, n + q)

LEMMA TakenFirst ==
  ASSUME NEW b \in Nat, NEW u \in Nat, NEW n \in Nat, NEW q \in Nat
  PROVE  TakenAlike(b, u, n, q)
BY DEF TakenAlike, positive, LeftOf, minimum

LeftOver(s, n) == [i \in Purchases(s) |-> Left(s, i, n)]

LEMMA ConsumeLeft ==
  ASSUME NEW s \in Seq(Transaction), NEW n \in Nat, NEW q \in Nat
  PROVE  /\ consume(LeftOver(s, n), q) = LeftOver(s, n + q)
         /\ Total(LeftOver(s, n)) = positive(Units(s, Purchases(s)) - n)
<1> DEFINE P == Purchases(s)
           held == LeftOver(s, n)
           before(i) == Total([j \in {k \in DOMAIN held : k < i} |-> held[j]])
<1>1. Len(s) \in Nat /\ DOMAIN s = 1..Len(s) /\ P \subseteq DOMAIN s
  BY DEF Purchases
<1>2. DOMAIN held = P /\ \A j \in P : held[j] = Left(s, j, n)
  BY DEF LeftOver
<1> HIDE DEF held
<1>3. ASSUME NEW i \in P
      PROVE  held[i] - minimum(held[i], positive(q - before(i))) = Left(s, i, n + q)
  <2>1. i \in Nat /\ i - 1 \in 0..Len(s) /\ i \in DOMAIN s /\ i - 1 \in Nat
    BY <1>1
  <2>2. {k \in P : k < i} = UpTo(s, i - 1)
    <3>1. \A k \in P : k < i <=> k <= i - 1
      BY <1>1, <2>1
    <3> QED
      BY <3>1 DEF UpTo
  <2>3. [j \in {k \in DOMAIN held : k < i} |-> held[j]] = [j \in UpTo(s, i - 1) |-> Left(s, j, n)]
    <3>1. \A j \in UpTo(s, i - 1) : held[j] = Left(s, j, n)
      BY <1>2 DEF UpTo
    <3> QED
      BY <1>2, <2>2, <3>1
  <2> DEFINE b == Units(s, UpTo(s, i - 1))
             u == s[i].quantity
  <2>4. before(i) = positive(b - n)
    BY <2>1, <2>3, LeftUpTo DEF Total
  <2>5. UpTo(s, i) = UpTo(s, i - 1) \union {i} /\ i \notin UpTo(s, i - 1)
    <3>1. \A k \in P : k <= i <=> k <= i - 1 \/ k = i
      BY <1>1, <2>1
    <3>2. ~ (i <= i - 1)
      BY <2>1
    <3> QED
      BY <3>1, <3>2 DEF UpTo
  <2>6. UpTo(s, i - 1) \in SUBSET DOMAIN s
    BY <1>1 DEF UpTo
  <2>7. Units(s, UpTo(s, i)) = b + u /\ b \in Nat /\ u \in Nat
    BY <2>1, <2>5, <2>6, UnitsAdded, UnitsMore, Quantity
  <2>8. held[i] = LeftOf(b + u, u, n) /\ Left(s, i, n + q) = LeftOf(b + u, u, n + q)
    BY <1>2, <2>7 DEF Left
  <2> HIDE DEF b, u, before
  <2> QED
    <3>1. TakenAlike(b, u, n, q)
      BY <2>7, TakenFirst
    <3>2. held[i] - minimum(held[i], positive(q - before(i)))
            = LeftOf(b + u, u, n) - minimum(LeftOf(b + u, u, n), positive(q - positive(b - n)))
      BY <2>4, <2>8
    <3> QED
      BY <2>8, <3>1, <3>2 DEF TakenAlike
<1>4. consume(held, q) = [i \in P |-> Left(s, i, n + q)]
  <2>1. consume(held, q) = [i \in DOMAIN held |-> held[i] - minimum(held[i], positive(q - before(i)))]
    BY DEF consume
  <2> HIDE DEF before
  <2> QED
    BY <1>2, <1>3, <2>1
<1>5. Total(held) = positive(Units(s, P) - n)
  <2>1. UpTo(s, Len(s)) = P
    BY <1>1 DEF UpTo
  <2>2. held = [k \in UpTo(s, Len(s)) |-> Left(s, k, n)]
    BY <2>1 DEF held, LeftOver
  <2>3. Len(s) \in 0..Len(s)
    BY <1>1
  <2> QED
    BY <2>1, <2>2, <2>3, LeftUpTo DEF Total
<1> QED
  BY <1>4, <1>5 DEF held, LeftOver

----------------------------------------------------------------------------
(* The events of a call are finitely many, and in one order.               *)
LEMMA EventsOrdered ==
  ASSUME NEW s \in Seq(Transaction), NEW asof \in AsOfs
  PROVE  IsOrdered(fundEvents(s, asof))
<1> DEFINE E == fundEvents(s, asof)
           B == DOMAIN s
           D == {s[i].date : i \in B}
           T == (((0..asof) \union D) \X (0..2)) \X B
           f == [e \in E |-> <<<<e.date, e.kind>>, e.index>>]
<1>1. /\ IsFiniteSet(B) /\ asof \in Nat
      /\ B = 1..Len(s) /\ Len(s) \in Nat
  <2>1. B = 1..Len(s) /\ Len(s) \in Nat
    OBVIOUS
  <2> QED
    BY <2>1, FS_Interval, AsOfAssumption, DatesAssumption
<1>2. IsFiniteSet(D)
  <2> DEFINE g == [i \in B |-> s[i].date]
  <2>1. g \in Surjection(B, D)
    BY DEF Surjection
  <2> HIDE DEF g, B, D
  <2> QED
    BY <1>1, <2>1, FS_Surjection
<1>3. IsFiniteSet(T)
  <2>1. IsFiniteSet(0..asof) /\ IsFiniteSet(0..2)
    <3>1. 0 \in Int /\ 2 \in Int /\ asof \in Int
      BY <1>1
    <3> QED
      BY <3>1, FS_Interval
  <2>2. IsFiniteSet((0..asof) \union D)
    BY <1>2, <2>1, FS_Union
  <2> HIDE DEF B, D
  <2>3. IsFiniteSet(((0..asof) \union D) \X (0..2))
    BY <2>1, <2>2, FS_Product
  <2> QED
    BY <1>1, <2>3, FS_Product
<1>4. ASSUME NEW e \in E
      PROVE  e \in Event /\ e.index \in B /\ e.date \in (0..asof) \union D
  <2>1. /\ e \in Event
        /\ e.kind = eventSell => e.index \in DOMAIN s
        /\ e.kind # eventSell => e.index \in Purchases(s)
    BY FundEventsPlaced
  <2>2. e.index \in B
    BY <2>1 DEF Purchases
  <2>3. ASSUME NEW i \in Purchases(s), NEW d \in deemedDisposalAnniversaries(s[i].date, asof),
               e = [date |-> d, kind |-> eventDeemedDisposal, index |-> i]
        PROVE  e.date \in 0..asof
    <3>1. e.date = d /\ e.date \in Nat
      BY <2>1, <2>3 DEF Event
    <3>2. s[i].date \in Nat
      BY Quantity DEF Purchases
    <3> QED
      BY <1>1, <3>1, <3>2, AnniversaryDates
  <2>4. e.date \in (0..asof) \union D
    <3>1. CASE e \in {[date |-> s[i].date, kind |-> eventBuy, index |-> i] : i \in Purchases(s)}
      BY <3>1 DEF Purchases
    <3>2. CASE e \in {[date |-> s[i].date, kind |-> eventSell, index |-> i] : i \in DOMAIN s \ Purchases(s)}
      BY <3>2
    <3>3. CASE \E i \in Purchases(s) : e \in {[date |-> d, kind |-> eventDeemedDisposal, index |-> i] :
                                              d \in deemedDisposalAnniversaries(s[i].date, asof)}
      <4>1. e.date \in 0..asof
        BY <2>3, <3>3
      <4> QED
        BY <4>1
    <3> QED
      BY <3>1, <3>2, <3>3 DEF fundEvents
  <2> QED
    BY <2>1, <2>2, <2>4
<1>5. \A e, k \in Event : e.date = k.date /\ e.kind = k.kind /\ e.index = k.index => e = k
  BY DEF Event
<1>6. f \in Injection(E, T)
  <2>1. ASSUME NEW e \in E PROVE f[e] = <<<<e.date, e.kind>>, e.index>> /\ f[e] \in T
    BY <1>4 DEF Event
  <2>2. ASSUME NEW e \in E, NEW k \in E, f[e] = f[k] PROVE e = k
    BY <1>4, <1>5, <2>1, <2>2
  <2>3. f \in [E -> T]
    BY <2>1
  <2> HIDE DEF f, E, T
  <2> QED
    BY <2>2, <2>3 DEF Injection, IsInjective
<1>7. IsFiniteSet(E)
  <2> HIDE DEF f, E, T
  <2> QED
    BY <1>3, <1>6, FS_Injection
<1>8. \A e, k \in Event : e = k \/ Precedes(e, k) \/ Precedes(k, e)
  BY <1>5 DEF Event, Precedes
<1>9. \A e, k, l \in Event : Precedes(e, k) /\ Precedes(k, l) => Precedes(e, l)
  BY DEF Event, Precedes
<1>10. \A e \in E : e \in Event
  BY <1>4
<1> HIDE DEF E
<1> QED
  BY <1>7, <1>8, <1>9, <1>10 DEF IsOrdered, E

(* What the schedule's walk comes to, after the events up to one of them.  *)
SalesIn(s, T) == {k \in Sales(s) : SaleEvent(s, k) \in T}

ChargedIn(s, T) == {e \in T : e.kind = eventDeemedDisposal /\ HeldAt(s, e.index, e.date) # 0}

Row(s, e) == Due(e.index, e.date, HeldAt(s, e.index, e.date), TRUE)

RowsOf(s, charges) == {Row(s, e) : e \in charges}

Exceeds(s, n) == n > Units(s, Purchases(s))

After(s, n, charges) ==
  [held |-> LeftOver(s, n), due |-> RowsOf(s, charges), oversold |-> Exceeds(s, n)]

Closed(s, T) == After(s, Units(s, SalesIn(s, T)), ChargedIn(s, T))

IsUpTo(T, S) == T \subseteq S /\ \A e \in T : \A f \in S : Precedes(f, e) => f \in T

LEMMA ClosedAtNone ==
  ASSUME NEW s \in Seq(Transaction)
  PROVE  Closed(s, {}) = Opened(s)
<1>1. SalesIn(s, {}) = {} /\ ChargedIn(s, {}) = {}
  BY DEF SalesIn, ChargedIn
<1>2. Units(s, {}) = 0 /\ Units(s, Purchases(s)) \in Nat
  <2>1. Purchases(s) \in SUBSET DOMAIN s
    BY DEF Purchases
  <2> QED
    BY <2>1, UnitsOfNone, UnitsMore
<1>3. LeftOver(s, 0) = [i \in Purchases(s) |-> s[i].quantity]
  BY LeftBounds DEF LeftOver
<1>4. RowsOf(s, {}) = {}
  BY DEF RowsOf
<1>5. Exceeds(s, 0) = FALSE
  BY <1>2 DEF Exceeds
<1>6. Closed(s, {}) = After(s, 0, {})
  BY <1>1, <1>2 DEF Closed
<1> QED
  BY <1>3, <1>4, <1>5, <1>6 DEF After, Opened

IsLast(e, T) == e \in T /\ \A f \in T : f = e \/ Precedes(f, e)

(* One event more.                                                         *)
(* What the sales in T are, e being its last event.                        *)
SalesWith(s, T, e) ==
  /\ e.kind # eventSell => SalesIn(s, T) = SalesIn(s, T \ {e})
  /\ e.kind = eventDeemedDisposal => SalesIn(s, T \ {e}) = SalesBefore(s, e.date)
  /\ e.kind = eventSell => /\ e.index \in Sales(s) /\ e.index \notin SalesIn(s, T \ {e})
                           /\ SalesIn(s, T) = SalesIn(s, T \ {e}) \union {e.index}

LEMMA SalesUpTo ==
  ASSUME NEW s \in Seq(Transaction), NEW asof \in AsOfs, NEW T, IsUpTo(T, fundEvents(s, asof)),
         NEW e, IsLast(e, T)
  PROVE  /\ IsUpTo(T \ {e}, fundEvents(s, asof))
         /\ SalesWith(s, T, e)
<1> DEFINE E == fundEvents(s, asof)
<1>1. /\ T \subseteq E /\ \A k \in T : \A f \in E : Precedes(f, k) => f \in T
      /\ e \in T /\ \A f \in T : f = e \/ Precedes(f, e)
  BY DEF IsUpTo, IsLast
<1>2. \A f \in E : f \in Event
  BY FundEventsPlaced
<1>3. \A k \in Sales(s) : /\ SaleEvent(s, k) \in E /\ SaleEvent(s, k).index = k
                          /\ SaleEvent(s, k).kind = eventSell /\ SaleEvent(s, k).date = s[k].date
                          /\ s[k].date \in Nat
  BY EventForms, Quantity DEF SaleEvent, Sales
<1>4. e.kind = eventSell => e.index \in Sales(s) /\ e = SaleEvent(s, e.index)
  BY <1>1, EventForms
<1> HIDE DEF E
<1>5. IsUpTo(T \ {e}, E)
  <2>1. ASSUME NEW k \in T \ {e}, NEW f \in E, Precedes(f, k) PROVE f \in T \ {e}
    <3>1. f \in T /\ Precedes(k, e)
      BY <1>1, <2>1
    <3>2. f # e
      BY <1>1, <1>2, <2>1, <3>1, PrecedesOneWay
    <3> QED
      BY <3>1, <3>2
  <2> QED
    BY <1>1, <2>1 DEF IsUpTo
<1>6. e.kind = eventSell =>
        /\ e.index \in Sales(s)
        /\ SalesIn(s, T) = SalesIn(s, T \ {e}) \union {e.index} /\ e.index \notin SalesIn(s, T \ {e})
  <2> SUFFICES ASSUME e.kind = eventSell
               PROVE  /\ e.index \in Sales(s)
                      /\ SalesIn(s, T) = SalesIn(s, T \ {e}) \union {e.index}
                      /\ e.index \notin SalesIn(s, T \ {e})
    OBVIOUS
  <2>1. \A k \in Sales(s) : SaleEvent(s, k) = e <=> k = e.index
    BY <1>3, <1>4
  <2> QED
    BY <1>1, <1>4, <2>1 DEF SalesIn
<1>7. e.kind # eventSell => SalesIn(s, T) = SalesIn(s, T \ {e})
  BY <1>3 DEF SalesIn
<1>8. ASSUME e.kind = eventDeemedDisposal, NEW k \in Sales(s)
      PROVE  SaleEvent(s, k) \in T \ {e} <=> s[k].date < e.date
  <2> DEFINE f == SaleEvent(s, k)
  <2>1. f \in E /\ f.kind = eventSell /\ f.date = s[k].date /\ s[k].date \in Nat
    BY <1>3
  <2>2. f # e /\ e \in Event /\ f \in Event
    BY <1>1, <1>2, <1>8, <2>1 DEF eventSell, eventDeemedDisposal
  <2> HIDE DEF f
  <2>3. Precedes(f, e) <=> f.date < e.date
    BY <1>8, <2>1, <2>2 DEF Precedes, Event, eventSell, eventDeemedDisposal
  <2>4. f \in T <=> Precedes(f, e)
    BY <1>1, <2>1, <2>2
  <2> QED
    BY <2>1, <2>2, <2>3, <2>4 DEF f
<1>9. e.kind = eventDeemedDisposal => SalesIn(s, T \ {e}) = SalesBefore(s, e.date)
  BY <1>8 DEF SalesIn, SalesBefore
<1> QED
  BY <1>5, <1>6, <1>7, <1>9 DEF E, SalesWith

----------------------------------------------------------------------------
LEMMA ExceedArithmetic ==
  ASSUME NEW b \in Nat, NEW n \in Nat, NEW q \in Nat \ {0}
  PROVE  (n > b \/ q > positive(b - n)) <=> n + q > b
BY DEF positive

LEMMA ClosedNext ==
  ASSUME NEW s \in Seq(Transaction), NEW asof \in AsOfs, NEW T, IsUpTo(T, fundEvents(s, asof)),
         NEW e, IsLast(e, T)
  PROVE  walk(s, Closed(s, T \ {e}), e) = Closed(s, T)
<1> DEFINE R  == T \ {e}
           n  == Units(s, SalesIn(s, R))
           b  == Units(s, Purchases(s))
           cs == ChargedIn(s, R)
           at == Closed(s, R)
<1>1. /\ e.kind = eventSell =>
           /\ e.index \in Sales(s)
           /\ SalesIn(s, T) = SalesIn(s, R) \union {e.index} /\ e.index \notin SalesIn(s, R)
      /\ e.kind # eventSell => SalesIn(s, T) = SalesIn(s, R)
      /\ e.kind = eventDeemedDisposal => SalesIn(s, R) = SalesBefore(s, e.date)
  <2>1. SalesWith(s, T, e)
    BY SalesUpTo
  <2> QED
    BY <2>1 DEF SalesWith
<1>2. n \in Nat /\ b \in Nat /\ SalesIn(s, R) \in SUBSET DOMAIN s
  <2>1. SalesIn(s, R) \in SUBSET DOMAIN s /\ Purchases(s) \in SUBSET DOMAIN s
    BY DEF SalesIn, Sales, Purchases
  <2> QED
    BY <2>1, UnitsMore
<1>3. at = After(s, n, cs)
  BY DEF Closed
<1>4. T = R \union {e} /\ e \in T
  BY DEF IsLast
<1> SUFFICES walk(s, at, e) = Closed(s, T)
  OBVIOUS
<1> HIDE DEF n, b, at, R, cs
<1>5. at.held = LeftOver(s, n) /\ at.due = RowsOf(s, cs) /\ at.oversold = Exceeds(s, n)
      /\ DOMAIN at = {"held", "due", "oversold"}
  BY <1>3 DEF After
<1>6. CASE e.kind = eventSell
  <2> DEFINE q == s[e.index].quantity
  <2>1. q \in Nat \ {0} /\ e.index \in DOMAIN s
    BY <1>1, <1>6, Quantity DEF Sales
  <2>2. Units(s, SalesIn(s, T)) = n + q
    BY <1>1, <1>2, <1>6, <2>1, UnitsAdded DEF n
  <2>3. ChargedIn(s, T) = cs
    BY <1>4, <1>6 DEF ChargedIn, cs, eventSell, eventDeemedDisposal
  <2> HIDE DEF q
  <2>4. consume(LeftOver(s, n), q) = LeftOver(s, n + q) /\ Total(LeftOver(s, n)) = positive(b - n)
    BY <1>2, <2>1, ConsumeLeft DEF b
  <2>5. (Exceeds(s, n) \/ q > positive(b - n)) = Exceeds(s, n + q)
    <3>1. (n > b \/ q > positive(b - n)) <=> n + q > b
      BY <1>2, <2>1, ExceedArithmetic
    <3>2. (Exceeds(s, n) <=> n > b) /\ (Exceeds(s, n + q) <=> n + q > b)
      BY DEF Exceeds, b
    <3>3. Exceeds(s, n) \in BOOLEAN /\ Exceeds(s, n + q) \in BOOLEAN
      BY DEF Exceeds
    <3> QED
      BY <3>1, <3>2, <3>3
  <2>6. walk(s, at, e) = [at EXCEPT !.held = consume(at.held, q),
                                    !.oversold = at.oversold \/ q > Total(at.held)]
    BY <1>6 DEF walk, q, eventSell, eventDeemedDisposal
  <2>7. at.oversold \/ q > Total(at.held) <=> Exceeds(s, n) \/ q > positive(b - n)
    BY <1>5, <2>4
  <2>8. walk(s, at, e) = [at EXCEPT !.held = LeftOver(s, n + q), !.oversold = Exceeds(s, n + q)]
    BY <1>5, <2>4, <2>5, <2>6, <2>7
  <2>9. walk(s, at, e) = After(s, n + q, cs)
    BY <1>3, <2>8 DEF After
  <2> QED
    BY <2>2, <2>3, <2>9 DEF Closed
<1>7. CASE e.kind = eventDeemedDisposal
  <2>1. SalesIn(s, T) = SalesIn(s, R) /\ SalesIn(s, R) = SalesBefore(s, e.date)
    BY <1>1, <1>7 DEF eventSell, eventDeemedDisposal
  <2>2. e.index \in Purchases(s)
    <3>1. e \in fundEvents(s, asof)
      BY <1>4 DEF IsUpTo
    <3> QED
      BY <1>7, <3>1, EventForms
  <2>3. at.held[e.index] = HeldAt(s, e.index, e.date)
    BY <1>5, <2>1, <2>2 DEF LeftOver, HeldAt, n
  <2>4. Closed(s, T) = After(s, n, ChargedIn(s, T))
    BY <2>1 DEF Closed, n
  <2>5. CASE HeldAt(s, e.index, e.date) = 0
    <3>1. ChargedIn(s, T) = cs
      BY <1>4, <2>5 DEF ChargedIn, cs
    <3>2. walk(s, at, e) = at
      BY <1>7, <2>3, <2>5 DEF walk, eventSell, eventDeemedDisposal
    <3> QED
      BY <1>3, <2>4, <3>1, <3>2
  <2>6. CASE HeldAt(s, e.index, e.date) # 0
    <3>1. ChargedIn(s, T) = cs \union {e}
      BY <1>4, <1>7, <2>6 DEF ChargedIn, cs
    <3>2. RowsOf(s, ChargedIn(s, T)) = RowsOf(s, cs) \union {Row(s, e)}
      BY <3>1 DEF RowsOf
    <3>3. walk(s, at, e) = [at EXCEPT !.due = at.due \union {Row(s, e)}]
      BY <1>7, <2>3, <2>6 DEF walk, Row
    <3>4. walk(s, at, e) = [at EXCEPT !.due = RowsOf(s, ChargedIn(s, T))]
      BY <1>5, <3>2, <3>3
    <3> QED
      BY <1>3, <2>4, <3>4 DEF After
  <2> QED
    BY <2>5, <2>6
<1>8. CASE e.kind # eventSell /\ e.kind # eventDeemedDisposal
  <2>1. SalesIn(s, T) = SalesIn(s, R)
    BY <1>1, <1>8
  <2>2. ChargedIn(s, T) = cs
    BY <1>4, <1>8 DEF ChargedIn, cs
  <2>3. walk(s, at, e) = at
    BY <1>8 DEF walk
  <2>4. Closed(s, T) = After(s, n, cs)
    BY <2>1, <2>2 DEF Closed, n
  <2> QED
    BY <1>3, <2>3, <2>4
<1> QED
  BY <1>6, <1>7, <1>8

LEMMA WalkClosed ==
  ASSUME NEW s \in Seq(Transaction), NEW asof \in AsOfs
  PROVE  AfterAll(s, fundEvents(s, asof)) = Closed(s, fundEvents(s, asof))
<1> DEFINE E == fundEvents(s, asof)
           g == CHOOSE h : IsWalk(h, s, E)
           C == {T \in SUBSET E : IsUpTo(T, E) => g[T] = Closed(s, T)}
<1>1. IsOrdered(E)
  BY EventsOrdered
<1>2. IsWalk(g, s, E)
  BY <1>1, WalkExists, Zenon
<1> HIDE DEF g
<1>3. ASSUME NEW T \in SUBSET E, \A x \in T : T \ {x} \in C PROVE T \in C
  <2> SUFFICES ASSUME IsUpTo(T, E) PROVE g[T] = Closed(s, T)
    OBVIOUS
  <2>1. CASE T = {}
    <3>1. g[{}] = Opened(s)
      <4>1. {} \in SUBSET E
        OBVIOUS
      <4> QED
        BY <1>2, <4>1, WalkAt
    <3> QED
      BY <2>1, <3>1, ClosedAtNone
  <2>2. CASE T # {}
    <3> DEFINE e == LastOf(T)
    <3>1. IsLast(e, T) /\ e \in T
      BY <1>1, <2>2, HasLast DEF IsLast
    <3> HIDE DEF e
    <3>2. IsUpTo(T \ {e}, E)
      BY <3>1, SalesUpTo
    <3>3. g[T \ {e}] = Closed(s, T \ {e})
      BY <1>3, <3>1, <3>2
    <3>4. g[T] = walk(s, g[T \ {e}], e)
      <4>1. g[T] = IF T = {} THEN Opened(s) ELSE walk(s, g[T \ {LastOf(T)}], LastOf(T))
        BY <1>2, WalkAt
      <4> QED
        BY <2>2, <4>1 DEF e
    <3> QED
      BY <3>1, <3>3, <3>4, ClosedNext
  <2> QED
    BY <2>1, <2>2
<1> HIDE DEF C
<1>4. \A T \in SUBSET E : (\A x \in T : T \ {x} \in C) => T \in C
  BY <1>3
<1>5. IsFiniteSet(E)
  BY <1>1 DEF IsOrdered
<1>a. \A T \in SUBSET E : T \in C
  <2> HIDE DEF E
  <2> QED
    BY <1>4, <1>5, SetInduction, Zenon
<1>6. E \in C
  BY <1>a
<1>7. IsUpTo(E, E)
  BY DEF IsUpTo
<1>8. AfterAll(s, E) = g[E]
  BY DEF AfterAll, g
<1> QED
  BY <1>6, <1>7, <1>8 DEF C

(* What the schedule shows: nothing where the units sold exceed what is    *)
(* bought, else the anniversaries that find units, and the next one of     *)
(* each lot that has units left.                                           *)
GoodTypes(s) == \A i \in DOMAIN s : s[i].type \in Acquisitions \union {"sell"}

Ahead(s, asof, i) ==
  Due(i, NextDeemedDisposalAnniversary(s[i].date, asof), Left(s, i, Units(s, Sales(s))), FALSE)

LEMMA ScheduleShows ==
  ASSUME NEW s \in Seq(Transaction), NEW asof \in AsOfs
  PROVE  DeemedDisposalSchedule(s, asof) =
           IF ~ GoodTypes(s) \/ Units(s, Sales(s)) > Units(s, Purchases(s)) THEN {}
           ELSE {Row(s, e) : e \in ChargedTo(s, asof)} \union
                {Ahead(s, asof, i) : i \in {j \in Purchases(s) : Left(s, j, Units(s, Sales(s))) # 0}}
<1> DEFINE E   == fundEvents(s, asof)
           end == Closed(s, E)
           n   == Units(s, Sales(s))
<1>1. DeemedDisposalSchedule(s, asof) = Rows(s, asof, end)
  BY ScheduleWalk, WalkClosed
<1>2. SalesIn(s, E) = Sales(s)
  BY EventForms DEF SalesIn
<1>3. ChargedIn(s, E) = ChargedTo(s, asof)
  BY DEF ChargedIn, ChargedTo
<1>4. /\ end.held = LeftOver(s, n) /\ end.due = {Row(s, e) : e \in ChargedTo(s, asof)}
      /\ end.oversold <=> n > Units(s, Purchases(s))
  BY <1>2, <1>3 DEF Closed, After, Exceeds, RowsOf
<1>5. /\ DOMAIN LeftOver(s, n) = Purchases(s)
      /\ \A i \in Purchases(s) : LeftOver(s, n)[i] = Left(s, i, n)
  BY DEF LeftOver
<1> HIDE DEF end, n
<1>6. {Due(i, NextDeemedDisposalAnniversary(s[i].date, asof), end.held[i], FALSE) :
         i \in {j \in DOMAIN end.held : end.held[j] # 0}}
      = {Ahead(s, asof, i) : i \in {j \in Purchases(s) : Left(s, j, n) # 0}}
  <2>1. {j \in DOMAIN end.held : end.held[j] # 0} = {j \in Purchases(s) : Left(s, j, n) # 0}
    BY <1>4, <1>5
  <2>2. \A i \in Purchases(s) :
          Due(i, NextDeemedDisposalAnniversary(s[i].date, asof), end.held[i], FALSE) = Ahead(s, asof, i)
    BY <1>4, <1>5 DEF Ahead, n
  <2> QED
    BY <2>1, <2>2
<1>7. (\E i \in DOMAIN s : s[i].type \notin Acquisitions \union {"sell"}) <=> ~ GoodTypes(s)
  BY DEF GoodTypes
<1> QED
  BY <1>1, <1>4, <1>6, <1>7 DEF Rows, n

----------------------------------------------------------------------------
(* The schedule is read off the transactions as they are in the ledger,    *)
(* the computation off the same ones in euro.                              *)
Alike(s, t) ==
  /\ DOMAIN s = DOMAIN t
  /\ \A i \in DOMAIN s : /\ s[i].type = t[i].type /\ s[i].date = t[i].date
                         /\ s[i].quantity = t[i].quantity

LEMMA AlikeHeld ==
  ASSUME NEW s, NEW t, Alike(s, t)
  PROVE  /\ Purchases(s) = Purchases(t) /\ Sales(s) = Sales(t)
         /\ \A T \in SUBSET DOMAIN s : Units(s, T) = Units(t, T)
         /\ \A i \in Purchases(s) : \A n : Left(s, i, n) = Left(t, i, n)
         /\ \A i \in Purchases(s) : \A d : HeldAt(s, i, d) = HeldAt(t, i, d)
<1>1. Purchases(s) = Purchases(t)
  BY DEF Alike, Purchases
<1>2. Sales(s) = Sales(t)
  BY <1>1 DEF Alike, Sales
<1>3. ASSUME NEW T \in SUBSET DOMAIN s PROVE Units(s, T) = Units(t, T)
  <2>1. [j \in T |-> s[j].quantity] = [j \in T |-> t[j].quantity]
    BY DEF Alike
  <2> QED
    BY <2>1 DEF Units
<1>4. ASSUME NEW i \in Purchases(s), NEW n PROVE Left(s, i, n) = Left(t, i, n)
  <2>1. UpTo(s, i) = UpTo(t, i) /\ UpTo(s, i) \in SUBSET DOMAIN s /\ s[i].quantity = t[i].quantity
    BY <1>1 DEF UpTo, Purchases, Alike
  <2>2. Units(s, UpTo(s, i)) = Units(t, UpTo(t, i))
    BY <1>3, <2>1
  <2> QED
    BY <2>1, <2>2 DEF Left
<1>5. ASSUME NEW i \in Purchases(s), NEW d PROVE HeldAt(s, i, d) = HeldAt(t, i, d)
  <2>1. SalesBefore(s, d) = SalesBefore(t, d) /\ SalesBefore(s, d) \in SUBSET DOMAIN s
    BY <1>2 DEF SalesBefore, Sales, Alike
  <2>2. Units(s, SalesBefore(s, d)) = Units(t, SalesBefore(t, d))
    BY <1>3, <2>1
  <2> QED
    BY <1>4, <2>2 DEF HeldAt
<1> QED
  BY <1>1, <1>2, <1>3, <1>4, <1>5

LEMMA AlikeEvents ==
  ASSUME NEW s, NEW t, Alike(s, t), NEW asof
  PROVE  fundEvents(s, asof) = fundEvents(t, asof)
<1>1. Purchases(s) = Purchases(t) /\ Purchases(s) \subseteq DOMAIN s /\ DOMAIN s = DOMAIN t
      /\ \A i \in DOMAIN s : s[i].date = t[i].date
  BY AlikeHeld DEF Alike, Purchases
<1> DEFINE buys(u)  == {[date |-> u[i].date, kind |-> eventBuy, index |-> i] : i \in Purchases(u)}
           sells(u) == {[date |-> u[i].date, kind |-> eventSell, index |-> i] :
                          i \in DOMAIN u \ Purchases(u)}
           years(u, i) == {[date |-> d, kind |-> eventDeemedDisposal, index |-> i] :
                             d \in deemedDisposalAnniversaries(u[i].date, asof)}
           dues(u)  == {years(u, i) : i \in Purchases(u)}
<1>2. buys(s) = buys(t)
  BY <1>1
<1>3. sells(s) = sells(t)
  BY <1>1
<1>4. dues(s) = dues(t)
  <2>1. \A i \in Purchases(s) : years(s, i) = years(t, i)
    BY <1>1
  <2> HIDE DEF years
  <2> QED
    BY <1>1, <2>1
<1>5. /\ fundEvents(s, asof) = buys(s) \union sells(s) \union UNION dues(s)
      /\ fundEvents(t, asof) = buys(t) \union sells(t) \union UNION dues(t)
  BY DEF fundEvents
<1> QED
  BY <1>2, <1>3, <1>4, <1>5

LEMMA AlikeCharged ==
  ASSUME NEW s \in Seq(Transaction), NEW t \in Seq(Transaction), Alike(s, t), NEW asof \in AsOfs
  PROVE  /\ ChargedTo(t, asof) = ChargedTo(s, asof)
         /\ \A e \in ChargedTo(s, asof) : Row(t, e) = Row(s, e)
<1>1. fundEvents(s, asof) = fundEvents(t, asof)
  BY AlikeEvents
<1>2. \A i \in Purchases(s) : \A d : HeldAt(s, i, d) = HeldAt(t, i, d)
  BY AlikeHeld
<1>3. \A e \in fundEvents(s, asof) : e.kind = eventDeemedDisposal => e.index \in Purchases(s)
  BY EventForms
<1>4. ChargedTo(t, asof) = ChargedTo(s, asof)
  BY <1>1, <1>2, <1>3 DEF ChargedTo
<1>5. ASSUME NEW e \in ChargedTo(s, asof) PROVE Row(t, e) = Row(s, e)
  <2>1. e.index \in Purchases(s)
    BY <1>3 DEF ChargedTo
  <2> QED
    BY <1>2, <2>1 DEF Row
<1> QED
  BY <1>4, <1>5

(* Both are put in the same order.                                         *)
LEMMA InEURAlike ==
  ASSUME NEW tx \in Transaction
  PROVE  /\ InEUR(tx).type = tx.type /\ InEUR(tx).date = tx.date
         /\ InEUR(tx).quantity = tx.quantity
BY DEF InEUR, Transaction

LEMMA OrderedAlike ==
  ASSUME NEW t \in Seq(Transaction), NEW s \in Sortings(t)
  PROVE  InDateOrder(t) \in Seq(Transaction) /\ Alike(s, InDateOrder(t))
<1>1. Euros(t) \in Seq(Transaction) /\ DOMAIN Euros(t) = DOMAIN t
      /\ \A i \in DOMAIN t : Euros(t)[i].date = t[i].date
  BY EurosType
<1>2. PICK p \in StableOrders(Euros(t)) : s = [i \in DOMAIN t |-> Euros(t)[p[i]]]
  BY DEF Sortings
<1>3. StableOrders(Euros(t)) = StableOrders(t)
  <2>1. \A i, j \in DOMAIN t : ComesBefore(Euros(t), i, j) <=> ComesBefore(t, i, j)
    BY <1>1 DEF ComesBefore
  <2>2. \A q \in [DOMAIN t -> DOMAIN t] : \A i, j \in DOMAIN t :
          ComesBefore(Euros(t), q[i], q[j]) <=> ComesBefore(t, q[i], q[j])
    BY <2>1
  <2> QED
    BY <1>1, <2>2 DEF StableOrders
<1> DEFINE q == CHOOSE o \in StableOrders(t) : TRUE
<1>4. q \in StableOrders(t) /\ InDateOrder(t) = [i \in DOMAIN t |-> t[q[i]]]
  BY <1>2, <1>3 DEF InDateOrder
<1> HIDE DEF q
<1>5. p = q
  BY <1>2, <1>3, <1>4, StableUnique
<1>6. InDateOrder(t) \in Seq(Transaction)
  BY <1>4, StableOrderType
<1>7. p \in [DOMAIN t -> DOMAIN t]
  BY <1>1, <1>2 DEF StableOrders
<1>8. ASSUME NEW i \in DOMAIN t
      PROVE  /\ s[i].type = InDateOrder(t)[i].type /\ s[i].date = InDateOrder(t)[i].date
             /\ s[i].quantity = InDateOrder(t)[i].quantity
  <2>1. p[i] \in DOMAIN t
    BY <1>7
  <2>2. s[i] = InEUR(t[p[i]]) /\ InDateOrder(t)[i] = t[p[i]]
    BY <1>2, <1>4, <1>5, <2>1 DEF Euros
  <2>3. t[p[i]] \in Transaction
    BY <2>1, Quantity
  <2> QED
    BY <2>2, <2>3, InEURAlike
<1>9. DOMAIN s = DOMAIN t /\ DOMAIN InDateOrder(t) = DOMAIN t
  BY <1>2, <1>4
<1> QED
  BY <1>6, <1>8, <1>9 DEF Alike

(* The anniversary ahead is within a cycle of asof, or the first.          *)
AheadOf(d, a, asof, c) ==
  /\ (d - a) % c = 0 /\ asof < d
  /\ d - c <= asof \/ d - c = a

LEMMA NextArithmetic ==
  ASSUME NEW a \in Nat, NEW asof \in Nat, NEW c \in Nat \ {0}
  PROVE  AheadOf(a + c * (1 + (IF asof > a THEN (asof - a) \div c ELSE 0)), a, asof, c)
<1> DEFINE n == IF asof > a THEN (asof - a) \div c ELSE 0
           d == a + c * (1 + n)
<1>1. n \in Int /\ (asof > a => c * n <= asof - a /\ asof - a < c * (n + 1)) /\ (~ (asof > a) => n = 0)
  OBVIOUS
<1> HIDE DEF n
<1>2. d \in Int /\ c * (1 + n) \in Int /\ c * n \in Int /\ c * (1 + n) = c * n + c /\ c * (n + 1) = c * n + c
  BY <1>1
<1>3. d - a = c * (1 + n) + 0
  BY <1>1, <1>2
<1>4. (c * (1 + n) + 0) % c = 0
  <2>1. 1 + n \in Int /\ 0 \in 0..(c - 1)
    BY <1>1
  <2> QED
    BY <2>1, RemainderUnique
<1>5. (d - a) % c = 0
  BY <1>3, <1>4
<1>6. asof < d /\ (d - c <= asof \/ d - c = a)
  <2>1. CASE asof > a
    BY <1>1, <1>2, <2>1
  <2>2. CASE ~ (asof > a)
    <3>1. c * n = 0
      BY <1>1, <2>2
    <3> QED
      BY <1>2, <2>2, <3>1
  <2> QED
    BY <2>1, <2>2
<1> QED
  BY <1>5, <1>6 DEF AheadOf, n

LEMMA NextAhead ==
  ASSUME NEW a \in Nat, NEW asof \in Nat
  PROVE  AheadOf(NextDeemedDisposalAnniversary(a, asof), a, asof, CycleLength)
BY NextArithmetic, CycleAssumption DEF NextDeemedDisposalAnniversary

----------------------------------------------------------------------------
(* No more is sold than was bought while the call goes on, and what it     *)
(* knows of the transactions when it fails.                                *)
WithinBought ==
  Walking =>
    /\ GoodTypes(sorted) /\ Consumed <= Units(sorted, Purchases(sorted))
    /\ \A i \in DOMAIN lots : lots[i].acquired = sorted[i].date

WhyFailed ==
  /\ reason \in {"oversell", "valuation"} => sorted \in Sortings(txs)
  /\ reason = "oversell" => Units(sorted, Sales(sorted)) > Units(sorted, Purchases(sorted))

BInv == WithinBought /\ WhyFailed

(* All that is bought is the units of a set of transactions.               *)
LEMMA AllUnits ==
  ASSUME NEW s \in Seq(Transaction)
  PROVE  /\ Units(s, Purchases(s)) \in Nat /\ Units(s, Sales(s)) \in Nat
         /\ \A es : Units(s, SalesPassed(s, es)) \in Nat
                      /\ Units(s, SalesPassed(s, es)) <= Units(s, Sales(s))
         /\ \A i : Units(s, UpTo(s, i)) \in Nat
                     /\ Units(s, UpTo(s, i)) <= Units(s, Purchases(s))
<1>1. Purchases(s) \in SUBSET DOMAIN s /\ Sales(s) \in SUBSET DOMAIN s
  BY DEF Purchases, Sales
<1>2. ASSUME NEW es
      PROVE  Units(s, SalesPassed(s, es)) \in Nat /\ Units(s, SalesPassed(s, es)) <= Units(s, Sales(s))
  <2>1. SalesPassed(s, es) \in SUBSET Sales(s)
    BY DEF SalesPassed
  <2> QED
    BY <1>1, <2>1, UnitsMore
<1>3. ASSUME NEW i
      PROVE  Units(s, UpTo(s, i)) \in Nat /\ Units(s, UpTo(s, i)) <= Units(s, Purchases(s))
  <2>1. UpTo(s, i) \in SUBSET Purchases(s)
    BY DEF UpTo
  <2> QED
    BY <1>1, <2>1, UnitsMore
<1> QED
  BY <1>1, <1>2, <1>3, UnitsMore

(* Steps that leave the transactions, the lots' dates and the units sold.  *)
LEMMA BoundKept ==
  ASSUME BInv, Walking' => Walking /\ Consumed' = Consumed /\ DOMAIN lots' = DOMAIN lots
                              /\ \A i \in DOMAIN lots : lots'[i].acquired = lots[i].acquired,
         UNCHANGED <<txs, sorted, reason>>
  PROVE  BInv'
BY DEF BInv, WithinBought, WhyFailed, GoodTypes

LEMMA BuildBound ==
  ASSUME CallInv, BInv, buildFundEvents
  PROVE  BInv'
<1>1. /\ pc = "build" /\ pc' = "walk"
      /\ \A i \in DOMAIN sorted : sorted[i].type \in Acquisitions \union {"sell"}
      /\ lots' = [i \in Purchases(sorted') |-> NewFundLot(sorted'[i])]
      /\ pending' = fundEvents(sorted', asOf)
      /\ UNCHANGED <<asOf, wanted, reason>>
  BY DEF buildFundEvents, inputs, saleVars
<1>2. PICK p \in StableOrders(sorted) : sorted' = [i \in DOMAIN sorted |-> sorted[p[i]]]
  BY DEF buildFundEvents
<1>3. wanted = 0 /\ reason = "none"
  BY <1>1 DEF CallInv, WInv, NotBegun, GapFound
<1>4. sorted' \in Seq(Transaction) /\ asOf \in AsOfs
  BY BuildStep DEF CallInv, IInv, TypeOK
<1>5. GoodTypes(sorted')
  <2>1. p \in [DOMAIN sorted -> DOMAIN sorted]
    BY DEF StableOrders
  <2> QED
    BY <1>1, <1>2, <2>1 DEF GoodTypes
<1>6. Consumed' <= Units(sorted', Purchases(sorted'))
  <2>1. SalesPassed(sorted', pending') = {}
    BY <1>1, <1>4, EventForms DEF SalesPassed
  <2>2. Consumed' = Units(sorted', SalesPassed(sorted', pending')) - wanted'
    BY DEF Consumed
  <2>3. Units(sorted', {}) = 0
    BY <1>4, UnitsOfNone
  <2>4. Units(sorted', Purchases(sorted')) \in Nat
    BY <1>4, AllUnits
  <2> QED
    BY <1>1, <1>3, <2>1, <2>2, <2>3, <2>4
<1>7. \A i \in DOMAIN lots' : lots'[i].acquired = sorted'[i].date
  BY <1>1 DEF NewFundLot
<1>8. WithinBought'
  <2>1. GoodTypes(sorted)'
    BY <1>5 DEF GoodTypes
  <2>2. (Consumed <= Units(sorted, Purchases(sorted)))'
    BY <1>6 DEF Units, Purchases
  <2> QED
    BY <1>7, <2>1, <2>2 DEF WithinBought
<1>9. WhyFailed'
  BY <1>1, <1>3 DEF WhyFailed
<1> QED
  BY <1>8, <1>9 DEF BInv

LEMMA BeginSaleBound ==
  ASSUME CallInv, BInv, NEW e \in pending, BeginSale(e)
  PROVE  BInv'
<1> DEFINE before == SalesPassed(sorted, pending)
           i      == e.index
<1>1. /\ pc = "walk" /\ pc' = "sale" /\ Walking /\ Reached(e) /\ e.kind = eventSell
      /\ pending' = pending \ {e} /\ wanted' = sorted[i].quantity
      /\ UNCHANGED <<txs, sorted, lots, reason>>
  BY DEF BeginSale, Reached, Walking, inputs, results
<1>2. sorted \in Seq(Transaction) /\ asOf \in AsOfs
  BY DEF CallInv, IInv, TypeOK
<1>3. e = SaleEvent(sorted, i) /\ i \in Sales(sorted)
  <2>1. e \in fundEvents(sorted, asOf)
    BY <1>1 DEF CallInv, WInv, WalkedInOrder, Events
  <2> QED
    BY <1>1, <1>2, <2>1, EventForms
<1>4. SalesPassed(sorted, pending') = before \union {i}
  <2>1. ASSUME NEW k \in Sales(sorted)
        PROVE  SaleEvent(sorted, k) \notin pending'
                 <=> (SaleEvent(sorted, k) \notin pending \/ k = i)
    <3>1. SaleEvent(sorted, k) = e <=> k = i
      BY <1>3 DEF SaleEvent
    <3> QED
      BY <1>1, <3>1
  <2> QED
    BY <1>3, <2>1 DEF SalesPassed
<1>5. i \in DOMAIN sorted /\ i \notin before /\ before \in SUBSET DOMAIN sorted
  BY <1>3 DEF SalesPassed, Sales
<1>6. /\ Units(sorted, before) \in Int
      /\ Units(sorted, before \union {i}) = Units(sorted, before) + sorted[i].quantity
  BY <1>2, <1>5, UnitsAdded
<1>7. sorted[i].quantity \in Nat /\ wanted = 0
  BY <1>1, <1>2, <1>5, Quantity DEF CallInv, WInv, FirstOut
<1>8. Consumed' = Consumed
  <2>1. Consumed' = Units(sorted, before \union {i}) - sorted[i].quantity
    BY <1>1, <1>4 DEF Consumed
  <2>2. Consumed = Units(sorted, before) - 0
    BY <1>7 DEF Consumed
  <2> HIDE DEF before, i
  <2> QED
    BY <1>6, <1>7, <2>1, <2>2
<1> QED
  BY <1>1, <1>8, BoundKept

(* What is taken is left of the lot.                                       *)
LEMMA TakenWithin ==
  ASSUME NEW b, NEW q, NEW n, Bought(b, q, n), NEW t \in Nat, t <= LeftOf(b, q, n),
         LeftOf(b, q, n) # 0
  PROVE  n + t <= b
BY DEF Bought, LeftOf, minimum, positive

LEMMA TakeBound ==
  ASSUME CallInv, BInv, NEW i \in DOMAIN lots, TakeFromLot(i)
  PROVE  BInv'
<1> DEFINE take == minimum(wanted, lots[i].remaining)
<1>1. /\ pc = "sale" /\ Walking /\ lots[i].remaining # 0
      /\ lots' = [lots EXCEPT ![i].remaining = @ - take] /\ wanted' = wanted - take
      /\ UNCHANGED <<txs, pc, sorted, pending, reason>>
  BY DEF TakeFromLot, Walking, inputs
<1>2. lots[i] \in FundLot /\ wanted \in Nat /\ sorted \in Seq(Transaction)
  BY DEF CallInv, IInv, TypeOK
<1>3. take \in Nat /\ take <= wanted /\ take <= lots[i].remaining /\ lots[i].remaining \in Nat
  BY <1>2 DEF minimum, FundLot
<1> HIDE DEF take
<1>4. /\ DOMAIN lots' = DOMAIN lots
      /\ \A j \in DOMAIN lots : lots'[j].acquired = lots[j].acquired
  <2>1. lots'[i] = [lots[i] EXCEPT !.remaining = lots[i].remaining - take]
    BY <1>1
  <2>2. DOMAIN lots' = DOMAIN lots /\ \A j \in DOMAIN lots : j # i => lots'[j] = lots[j]
    BY <1>1
  <2> QED
    BY <1>2, <2>1, <2>2 DEF FundLot
<1>5. Consumed \in Nat /\ i \in Purchases(sorted) /\ lots[i].remaining = Left(sorted, i, Consumed)
  BY <1>1 DEF CallInv, WInv, FirstOut, LotsOpened
<1>6. Consumed' = Consumed + take
  <2> DEFINE units == Units(sorted, SalesPassed(sorted, pending))
  <2>1. units \in Nat
    BY <1>2, AllUnits
  <2>2. Consumed' = units - (wanted - take) /\ Consumed = units - wanted
    BY <1>1 DEF Consumed
  <2> HIDE DEF units
  <2> QED
    BY <1>2, <1>3, <2>1, <2>2
<1>7. Consumed + take <= Units(sorted, Purchases(sorted))
  <2> DEFINE b == Units(sorted, UpTo(sorted, i))
             q == sorted[i].quantity
             n == Consumed
  <2>1. Bought(b, q, n)
    BY <1>2, <1>5, BoughtUpTo DEF Bought
  <2>2. lots[i].remaining = LeftOf(b, q, n)
    BY <1>5 DEF Left
  <2>3. b \in Nat /\ b <= Units(sorted, Purchases(sorted)) /\ Units(sorted, Purchases(sorted)) \in Nat
    BY <1>2, AllUnits
  <2> HIDE DEF b, q
  <2>4. n + take <= b
    BY <1>1, <1>3, <2>1, <2>2, TakenWithin
  <2> QED
    BY <1>3, <1>5, <2>3, <2>4
<1>8. WithinBought'
  BY <1>1, <1>4, <1>6, <1>7 DEF BInv, WithinBought, GoodTypes, Walking
<1>9. WhyFailed'
  BY <1>1 DEF BInv, WhyFailed
<1> QED
  BY <1>8, <1>9 DEF BInv

LEMMA OversellBound ==
  ASSUME CallInv, SortedOnce, BInv, Oversell
  PROVE  BInv'
<1>1. /\ Walking /\ wanted # 0 /\ \A i \in DOMAIN lots : lots[i].remaining = 0
      /\ pc' = "error" /\ UNCHANGED <<txs, sorted>>
  BY DEF Oversell, Fail, Walking, inputs
<1>2. sorted \in Seq(Transaction) /\ wanted \in Nat
  BY DEF CallInv, IInv, TypeOK
<1>3. Consumed \in Nat /\ DOMAIN lots = Purchases(sorted)
      /\ \A i \in DOMAIN lots : lots[i].remaining = Left(sorted, i, Consumed)
  BY <1>1 DEF CallInv, WInv, FirstOut, LotsOpened
<1> DEFINE n    == Consumed
           left == LeftOver(sorted, n)
           b    == Units(sorted, Purchases(sorted))
<1>4. Total(left) = positive(b - n)
  BY <1>2, <1>3, ConsumeLeft
<1>5. IsFamily(left, Purchases(sorted)) /\ \A i \in Purchases(sorted) : left[i] = 0
  BY <1>1, <1>2, <1>3, PurchasesFinite DEF LeftOver, IsFamily
<1>6. Total(left) = 0
  <2> HIDE DEF left
  <2> QED
    BY <1>5, SumOfZeros DEF Total
<1>7. /\ b \in Nat /\ Units(sorted, Sales(sorted)) \in Nat
      /\ Units(sorted, SalesPassed(sorted, pending)) \in Nat
      /\ Units(sorted, SalesPassed(sorted, pending)) <= Units(sorted, Sales(sorted))
  BY <1>2, AllUnits
<1>8. n = Units(sorted, SalesPassed(sorted, pending)) - wanted
  BY DEF Consumed
<1> HIDE DEF n, b, left
<1>9. b <= n
  BY <1>3, <1>4, <1>6, <1>7 DEF positive, n
<1>10. Units(sorted, Sales(sorted)) > b
  BY <1>1, <1>2, <1>3, <1>7, <1>8, <1>9 DEF n
<1>11. sorted \in Sortings(txs)
  BY <1>1 DEF SortedOnce
<1>12. WhyFailed'
  <2>0. txs' = txs /\ sorted' = sorted
    BY <1>1
  <2>1. (sorted \in Sortings(txs))'
    BY <1>11, <2>0 DEF Sortings, Euros
  <2>2. (Units(sorted, Sales(sorted)) > Units(sorted, Purchases(sorted)))'
    BY <1>1, <1>10 DEF b, Units, Sales, Purchases
  <2> QED
    BY <2>1, <2>2 DEF WhyFailed
<1> QED
  BY <1>1, <1>12 DEF BInv, WithinBought, Walking

LEMMA BoundStep ==
  ASSUME CallInv, SortedOnce, BInv, [Next]_vars
  PROVE  BInv'
<1>0. txs' = txs
  BY InputsKept
<1>1. CASE ToEURPrices \/ RateUnavailable \/ UnsupportedType
  <2>1. ~ Walking' /\ reason' \in {"none", "rate", "type"}
    BY <1>1 DEF ToEURPrices, RateUnavailable, UnsupportedType, Fail, Walking, CallInv, WInv, GapFound,
                IInv, TypeOK
  <2> QED
    BY <2>1 DEF BInv, WithinBought, WhyFailed
<1>2. ASSUME NEW e \in pending, PassBuy(e) \/ PassSoldLot(e) \/ chargeDeemedDisposal(e) PROVE BInv'
  <2>1. /\ Walking /\ e.kind # eventSell /\ pending' = pending \ {e}
        /\ UNCHANGED <<pc, sorted, wanted, reason>>
    BY <1>2 DEF PassBuy, PassSoldLot, chargeDeemedDisposal, AtAnniversary, Reached, Walking, saleVars,
                eventBuy, eventSell, eventDeemedDisposal
  <2>2. Consumed' = Consumed
    BY <2>1, NothingSold
  <2>3. DOMAIN lots' = DOMAIN lots /\ \A i \in DOMAIN lots : lots'[i].acquired = lots[i].acquired
    <3>1. CASE PassBuy(e) \/ PassSoldLot(e)
      BY <3>1 DEF PassBuy, PassSoldLot
    <3>2. CASE chargeDeemedDisposal(e)
      <4>1. \E x : lots' = [lots EXCEPT ![e.index].deemedTaxPerUnit = x]
        BY <3>2 DEF chargeDeemedDisposal
      <4>2. \A i \in DOMAIN lots : lots[i] \in FundLot
        BY DEF CallInv, IInv, TypeOK
      <4>3. e.index \in DOMAIN lots
        BY <2>1 DEF CallInv, IInv, EventsPlaced
      <4> QED
        BY <4>1, <4>2, <4>3 DEF FundLot
    <3> QED
      BY <1>2, <3>1, <3>2
  <2> QED
    BY <1>0, <2>1, <2>2, <2>3, BoundKept
<1>3. ASSUME NEW e \in pending, MissingValuation(e) PROVE BInv'
  <2>1. Walking /\ ~ Walking' /\ sorted' = sorted /\ reason' \in {"rate", "valuation"}
    BY <1>3 DEF MissingValuation, AtAnniversary, Reached, Fail, Walking
  <2>2. sorted \in Sortings(txs)
    BY <2>1 DEF SortedOnce
  <2>3. (sorted \in Sortings(txs))'
    BY <1>0, <2>1, <2>2 DEF Sortings, Euros
  <2> QED
    BY <2>1, <2>3 DEF BInv, WithinBought, WhyFailed
<1>4. CASE RecordDisposal \/ Return \/ UNCHANGED vars
  <2>1. UNCHANGED <<sorted, lots, pending, wanted, reason>> /\ (Walking' => Walking)
    BY <1>4 DEF RecordDisposal, Return, vars, saleVars, results, Walking
  <2>2. Consumed' = Consumed
    BY <2>1 DEF Consumed
  <2> QED
    BY <1>0, <2>1, <2>2, BoundKept
<1> QED
  BY <1>1, <1>2, <1>3, <1>4, BuildBound, BeginSaleBound, TakeBound, OversellBound DEF Next

----------------------------------------------------------------------------
(* The rows the dashboard shows for the ledger, in terms of the sorted     *)
(* transactions in euro.                                                   *)
LEMMA RowsShown ==
  ASSUME NEW txns \in Seq(Transaction), NEW s \in Sortings(txns), NEW asof \in AsOfs
  PROVE  DeemedDisposalSchedule(InDateOrder(txns), asof) =
           IF ~ GoodTypes(s) \/ Units(s, Sales(s)) > Units(s, Purchases(s)) THEN {}
           ELSE {Row(s, e) : e \in ChargedTo(s, asof)} \union
                {Ahead(s, asof, i) : i \in {j \in Purchases(s) : Left(s, j, Units(s, Sales(s))) # 0}}
<1> DEFINE t == InDateOrder(txns)
           left(u) == {j \in Purchases(u) : Left(u, j, Units(u, Sales(u))) # 0}
           rows(u) == {Row(u, e) : e \in ChargedTo(u, asof)}
           ahead(u) == {Ahead(u, asof, i) : i \in left(u)}
<1>1. s \in Seq(Transaction) /\ t \in Seq(Transaction) /\ Alike(s, t)
  BY OrderedAlike, SortingType
<1> HIDE DEF t
<1>2. DeemedDisposalSchedule(t, asof) =
        IF ~ GoodTypes(t) \/ Units(t, Sales(t)) > Units(t, Purchases(t)) THEN {}
        ELSE rows(t) \union ahead(t)
  BY <1>1, ScheduleShows
<1>3. /\ Purchases(s) = Purchases(t) /\ Sales(s) = Sales(t)
      /\ \A T \in SUBSET DOMAIN s : Units(s, T) = Units(t, T)
      /\ \A i \in Purchases(s) : \A n : Left(s, i, n) = Left(t, i, n)
  BY <1>1, AlikeHeld
<1>4. Units(t, Sales(t)) = Units(s, Sales(s)) /\ Units(t, Purchases(t)) = Units(s, Purchases(s))
  <2>1. Sales(s) \in SUBSET DOMAIN s /\ Purchases(s) \in SUBSET DOMAIN s
    BY DEF Sales, Purchases
  <2> QED
    BY <1>3, <2>1
<1>5. GoodTypes(t) <=> GoodTypes(s)
  BY <1>1 DEF GoodTypes, Alike
<1>6. rows(t) = rows(s)
  <2>1. ChargedTo(t, asof) = ChargedTo(s, asof) /\ \A e \in ChargedTo(s, asof) : Row(t, e) = Row(s, e)
    BY <1>1, AlikeCharged
  <2> QED
    BY <2>1
<1>7. ahead(t) = ahead(s)
  <2>1. left(t) = left(s)
    BY <1>3, <1>4
  <2>2. \A i \in left(s) : Ahead(t, asof, i) = Ahead(s, asof, i)
    <3>1. \A i \in left(s) : t[i].date = s[i].date
      BY <1>1 DEF Alike, Purchases
    <3> QED
      BY <1>3, <1>4, <3>1 DEF Ahead
  <2> HIDE DEF left
  <2> QED
    BY <2>1, <2>2
<1> HIDE DEF rows, ahead
<1>8. DeemedDisposalSchedule(t, asof) =
        IF ~ GoodTypes(s) \/ Units(s, Sales(s)) > Units(s, Purchases(s)) THEN {}
        ELSE rows(s) \union ahead(s)
  BY <1>2, <1>4, <1>5, <1>6, <1>7
<1> QED
  BY <1>8 DEF rows, ahead, t

(* When the call returns: the rows reached are its charges, the rows ahead *)
(* the units its lots have left.                                           *)
LEMMA AgreesWhenDone ==
  ASSUME CallInv, SortedOnce, BInv, pc = "done",
         NEW schedule, schedule = DeemedDisposalSchedule(InDateOrder(txs), asOf),
         NEW reached, reached = {d \in schedule : d.reached},
         NEW ahead, ahead = schedule \ reached
  PROVE  /\ reached = {Due(c.lot, c.date, c.quantity, TRUE) : c \in Range(deemed)}
         /\ {<<d.lot, d.quantity>> : d \in ahead}
              = {<<i, lots[i].remaining>> : i \in {j \in DOMAIN lots : lots[j].remaining # 0}}
         /\ \A d \in ahead : AheadOf(d.date, lots[d.lot].acquired, asOf, CycleLength)
<1> DEFINE s    == sorted
           n    == Units(s, Sales(s))
           open == {j \in Purchases(s) : Left(s, j, n) # 0}
<1>1. /\ Walking /\ pending = {} /\ wanted = 0 /\ s \in Sortings(txs)
      /\ GoodTypes(s) /\ Consumed <= Units(s, Purchases(s))
      /\ DOMAIN lots = Purchases(s)
      /\ \A i \in DOMAIN lots : lots[i].acquired = s[i].date
      /\ \A i \in DOMAIN lots : lots[i].remaining = Left(s, i, Consumed)
  BY DEF CallInv, WInv, WalkedInOrder, FirstOut, LotsOpened, Walking, SortedOnce, BInv, WithinBought
<1>2. txs \in Seq(Transaction) /\ s \in Seq(Transaction) /\ asOf \in AsOfs /\ asOf \in Nat
      /\ deemed \in Seq(ChargeableEvent)
  BY AsOfAssumption, DatesAssumption DEF CallInv, IInv, TypeOK
<1>3. Consumed = n /\ n \in Nat /\ Units(s, Purchases(s)) \in Nat
  <2>1. SalesPassed(s, pending) = Sales(s)
    BY <1>1 DEF SalesPassed
  <2>2. Units(s, Sales(s)) \in Nat /\ Units(s, Purchases(s)) \in Nat
    BY <1>2, AllUnits
  <2> QED
    BY <1>1, <2>1, <2>2 DEF Consumed
<1> DEFINE rows == {Row(s, e) : e \in ChargedTo(s, asOf)}
           next == {Ahead(s, asOf, i) : i \in open}
<1>4. schedule = rows \union next
  <2>1. ~ (n > Units(s, Purchases(s)))
    BY <1>1, <1>3
  <2> HIDE DEF s, n
  <2>2. schedule = IF ~ GoodTypes(s) \/ Units(s, Sales(s)) > Units(s, Purchases(s)) THEN {}
                   ELSE rows \union {Ahead(s, asOf, i) : i \in {j \in Purchases(s) : Left(s, j, Units(s, Sales(s))) # 0}}
    BY <1>1, <1>2, RowsShown
  <2> HIDE DEF rows
  <2> QED
    BY <1>1, <2>1, <2>2 DEF n
<1>5. (\A d \in rows : d.reached) /\ (\A d \in next : ~ d.reached)
  BY DEF Row, Ahead, Due
<1>6. reached = rows /\ ahead = next
  <2> HIDE DEF rows, next
  <2> QED
    BY <1>4, <1>5
<1>7. rows = {Due(c.lot, c.date, c.quantity, TRUE) : c \in Range(deemed)}
  <2> DEFINE m == Len(deemed)
             charges == ChargedTo(s, asOf)
  <2>1. ListOfCharges(s, asOf, deemed)
    BY Done DEF CallInv, Outcome
  <2>2. PICK at : /\ Enumerates(at, m, charges, Order)
                  /\ \A k \in 1..m : deemed[k] = Charge(s, asOf, at[k])
    BY <2>1 DEF ListOfCharges
  <2>3. m \in Nat /\ DOMAIN deemed = 1..m
    BY <1>2
  <2>4. at \in [1..m -> charges] /\ \A e \in charges : \E k \in 1..m : at[k] = e
    BY <2>2 DEF Enumerates
  <2>5. \A e : Due(Charge(s, asOf, e).lot, Charge(s, asOf, e).date, Charge(s, asOf, e).quantity, TRUE)
                 = Row(s, e)
    BY DEF Charge, Row
  <2> HIDE DEF m, charges, s
  <2>6. ASSUME NEW e \in charges
        PROVE  \E c \in Range(deemed) : Row(s, e) = Due(c.lot, c.date, c.quantity, TRUE)
    <3>1. PICK k \in 1..m : at[k] = e
      BY <2>4
    <3>2. deemed[k] \in Range(deemed) /\ deemed[k] = Charge(s, asOf, e)
      BY <2>2, <2>3, <3>1 DEF Range
    <3> QED
      BY <2>5, <3>2
  <2>7. ASSUME NEW c \in Range(deemed)
        PROVE  \E e \in charges : Row(s, e) = Due(c.lot, c.date, c.quantity, TRUE)
    <3>1. PICK k \in 1..m : c = deemed[k]
      BY <2>3 DEF Range
    <3>2. at[k] \in charges /\ c = Charge(s, asOf, at[k])
      BY <2>2, <2>4, <3>1
    <3> QED
      BY <2>5, <3>2
  <2>8. rows = {Row(s, e) : e \in charges}
    BY DEF charges
  <2> HIDE DEF rows
  <2> QED
    BY <2>6, <2>7, <2>8
<1>8. open = {j \in DOMAIN lots : lots[j].remaining # 0}
  BY <1>1, <1>3
<1>9. {<<d.lot, d.quantity>> : d \in next} = {<<i, lots[i].remaining>> : i \in open}
  <2>1. \A i \in open : Ahead(s, asOf, i).lot = i /\ Ahead(s, asOf, i).quantity = lots[i].remaining
    BY <1>1, <1>3 DEF Ahead, Due
  <2> HIDE DEF open
  <2> QED
    BY <2>1
<1>10. ASSUME NEW d \in next PROVE AheadOf(d.date, lots[d.lot].acquired, asOf, CycleLength)
  <2>1. PICK i \in open : d = Ahead(s, asOf, i)
    OBVIOUS
  <2>2. d.lot = i /\ d.date = NextDeemedDisposalAnniversary(s[i].date, asOf)
    BY <2>1 DEF Ahead, Due
  <2>3. lots[i].acquired = s[i].date
    BY <1>1
  <2>4. s[i].date \in Nat
    BY <1>2, Quantity DEF Purchases
  <2> HIDE DEF s, open
  <2> QED
    BY <1>2, <2>2, <2>3, <2>4, NextAhead
<1> HIDE DEF rows, next, open, s
<1> QED
  BY <1>6, <1>7, <1>8, <1>9, <1>10

(* When a value is missing: the anniversary it is missing for has a row.   *)
LEMMA AgreesWhenMissing ==
  ASSUME CallInv, BInv, reason = "valuation",
         NEW schedule, schedule = DeemedDisposalSchedule(InDateOrder(txs), asOf), schedule # {}
  PROVE  \E d \in {x \in schedule : x.reached} : ~ OnRecord(d.date)
<1>1. /\ sorted \in Sortings(txs)
      /\ txs \in Seq(Transaction) /\ sorted \in Seq(Transaction) /\ asOf \in AsOfs
  BY DEF CallInv, IInv, TypeOK, BInv, WhyFailed
<1>2. PICK a \in Anniversaries : UnitsHeld(a[1], a[2]) # 0 /\ ~ OnRecord(a[2])
  BY DEF CallInv, WInv, GapFound
<1> DEFINE i == a[1]
           x == a[2]
           e == Anniversary(i, x)
<1>3. a = <<i, x>>
  BY DEF Anniversaries
<1>4. e \in Events
  BY <1>3, AnniversaryEvents DEF CallInv
<1>5. e.kind = eventDeemedDisposal /\ e.index = i /\ e.date = x
  BY DEF Anniversary
<1>6. HeldAt(sorted, i, x) # 0
  BY <1>2, HeldIsLeft DEF HeldAt
<1> HIDE DEF e, i, x
<1>7. e \in ChargedTo(sorted, asOf)
  BY <1>4, <1>5, <1>6 DEF ChargedTo, Events
<1>8. {Row(sorted, f) : f \in ChargedTo(sorted, asOf)} \subseteq schedule
  BY <1>1, RowsShown
<1>9. Row(sorted, e) \in schedule
  BY <1>7, <1>8
<1>10. Row(sorted, e).reached /\ Row(sorted, e).date = x
  BY <1>5 DEF Row, Due
<1> QED
  BY <1>2, <1>9, <1>10 DEF x

LEMMA ScheduleAgreesHere ==
  ASSUME CallInv, SortedOnce, BInv
  PROVE  ScheduleAgrees
<1> DEFINE schedule == DeemedDisposalSchedule(InDateOrder(txs), asOf)
           reached  == {d \in schedule : d.reached}
           ahead    == schedule \ reached
<1>1. ASSUME pc = "done"
      PROVE  /\ reached = {Due(c.lot, c.date, c.quantity, TRUE) : c \in Range(deemed)}
             /\ {<<d.lot, d.quantity>> : d \in ahead}
                  = {<<i, lots[i].remaining>> : i \in {j \in DOMAIN lots : lots[j].remaining # 0}}
             /\ \A d \in ahead : AheadOf(d.date, lots[d.lot].acquired, asOf, CycleLength)
  BY <1>1, AgreesWhenDone
<1>2. ASSUME reason = "oversell" PROVE schedule = {}
  <2>1. /\ sorted \in Sortings(txs) /\ txs \in Seq(Transaction) /\ asOf \in AsOfs
        /\ Units(sorted, Sales(sorted)) > Units(sorted, Purchases(sorted))
    BY <1>2 DEF CallInv, IInv, TypeOK, BInv, WhyFailed
  <2> QED
    BY <2>1, RowsShown
<1>3. ASSUME reason = "valuation", schedule # {} PROVE \E d \in reached : ~ OnRecord(d.date)
  BY <1>3, AgreesWhenMissing
<1> HIDE DEF schedule
<1> QED
  BY <1>1, <1>2, <1>3 DEF ScheduleAgrees, AheadOf, schedule

LEMMA BoundYears ==
  ASSUME CallInv, YInv, BInv, [NextYears]_yearVars
  PROVE  BInv'
<1>1. CASE Compute
  BY <1>1, BoundStep DEF Compute, YInv
<1>2. CASE FileYear
  <2>1. CASE Call(yearEndDate(year + 1))
    BY <2>1 DEF Call, BInv, WithinBought, WhyFailed, Walking
  <2>2. CASE UNCHANGED vars
    BY <2>2, BoundStep DEF YInv
  <2> QED
    BY <1>2, <2>1, <2>2 DEF FileYear
<1>3. CASE UNCHANGED yearVars
  BY <1>3, BoundStep DEF yearVars, YInv
<1> QED
  BY <1>1, <1>2, <1>3 DEF NextYears

(* The anniversaries the dashboard lists are those the computation         *)
(* charges, with the units charged, and the next of each lot that has      *)
(* units left; when a value is missing the list has the row it is missing  *)
(* for, and when a sale exceeds the holding it has none                    *)
(* (DeemedDisposalSchedule, which walks the events by a loop of its own).  *)
THEOREM ScheduleAgreesAlways == SpecYears => []ScheduleAgrees
<1>1. InitYears => BInv
  BY DEF InitYears, Init, BInv, WithinBought, WhyFailed, Walking
<1>2. CallInv /\ YInv /\ BInv /\ [NextYears]_yearVars => BInv'
  BY BoundYears
<1>3. CallInv /\ YInv /\ BInv => ScheduleAgrees
  BY ScheduleAgreesHere DEF YInv
<1> QED
  BY <1>1, <1>2, <1>3, YearsInvariance, PTL DEF SpecYears

=============================================================================
