---------------------------- MODULE LotMatching ----------------------------
(***************************************************************************)
(* FIFO lot matching: matchDisposalsFIFO and matchFIFO of                  *)
(* internal/engine/cgt.go, the loop every CGT and exit-tax figure rests on *)
(* and the one OpenPositions reads the portfolio from.                     *)
(*                                                                         *)
(* One behaviour is one call on one holding.  The holding's transactions   *)
(* arrive in ledger order, are restated in euro, stably sorted by date and *)
(* walked: an acquisition appends a lot, a sale consumes the lots from the *)
(* first one on, one lot per step.  The call ends in "done" with its       *)
(* disposals and lots, or in "error" with the reason.                      *)
(***************************************************************************)
EXTENDS Holdings, FiniteSetsExt

Disposal == [date : Dates, quantity : Nat, proceeds : Nat, costBasis : Nat]

VARIABLES
  txs,        (* The transactions not yet sorted: ledger order, then euro.  *)
  sorted,     (* The same transactions in date order.                       *)
  pc,         (* "convert", "sort", "match", "take", "done" or "error".     *)
  at,         (* Index of the transaction the loop is at.                   *)
  lots,       (* The lots built so far, in the order they were built.       *)
  cursor,     (* Index of the lot matchFIFO's loop is at.                   *)
  wanted,     (* matchFIFO's remaining: units of the sale still unmatched.  *)
  cost,       (* Cost basis collected for the sale so far.                  *)
  disposals,  (* The sales matched so far.                                  *)
  reason,     (* Why the call failed.                                       *)
  held        (* History: the lots as the sale being matched found them.    *)

vars == <<txs, sorted, pc, at, lots, cursor, wanted, cost, disposals, reason, held>>

(* matchFIFO's locals, which only a sale changes. *)
saleVars == <<cursor, wanted, cost>>

----------------------------------------------------------------------------

Init ==
  /\ txs \in Ledgers
  /\ pc = "convert"
  /\ sorted = << >> /\ at = 1
  /\ lots = << >> /\ disposals = << >> /\ held = << >>
  /\ cursor = 1 /\ wanted = 0 /\ cost = 0
  /\ reason = "none"

Fail(why) ==
  /\ pc' = "error" /\ reason' = why
  /\ UNCHANGED <<txs, sorted, at, lots, saleVars, disposals, held>>

(* toEURPrices: one rate that cannot be resolved fails the whole call. *)
ToEURPrices ==
  /\ pc = "convert"
  /\ \A i \in DOMAIN txs : ~ Unresolvable(txs[i])
  /\ txs' = [i \in DOMAIN txs |-> InEUR(txs[i])]
  /\ pc' = "sort"
  /\ UNCHANGED <<sorted, at, lots, saleVars, disposals, reason, held>>

RateUnavailable ==
  /\ pc = "convert"
  /\ \E i \in DOMAIN txs : Unresolvable(txs[i])
  /\ Fail("rate")

SortByDate ==
  /\ pc = "sort"
  /\ \E p \in StableOrders(txs) : sorted' = [i \in DOMAIN txs |-> txs[p[i]]]
  /\ pc' = "match"
  /\ UNCHANGED <<txs, at, lots, saleVars, disposals, reason, held>>

AtTransaction == pc = "match" /\ at <= Len(sorted)

Acquire ==
  /\ AtTransaction
  /\ sorted[at].type \in Acquisitions
  /\ lots' = Append(lots, NewLot(sorted[at]))
  /\ at' = at + 1
  /\ UNCHANGED <<txs, sorted, pc, saleVars, disposals, reason, held>>

(* Mutant: the search resumes where the last sale left it. *)
BeginSaleAtCursor ==
  /\ AtTransaction
  /\ sorted[at].type = "sell"
  /\ pc' = "take"
  /\ wanted' = sorted[at].quantity /\ cost' = 0
  /\ held' = lots
  /\ UNCHANGED <<txs, sorted, at, lots, cursor, disposals, reason>>

BeginSale ==
  /\ AtTransaction
  /\ sorted[at].type = "sell"
  /\ pc' = "take"
  /\ cursor' = 1 /\ wanted' = sorted[at].quantity /\ cost' = 0
  /\ held' = lots
  /\ UNCHANGED <<txs, sorted, at, lots, disposals, reason>>

(* The body of matchFIFO's loop over the lots. *)
LotInReach == pc = "take" /\ cursor <= Len(lots) /\ wanted # 0

SkipEmptyLot ==
  /\ LotInReach
  /\ lots[cursor].remaining = 0
  /\ cursor' = cursor + 1
  /\ UNCHANGED <<txs, sorted, pc, at, lots, wanted, cost, disposals, reason, held>>

TakeFromLot ==
  LET take == minimum(wanted, lots[cursor].remaining) IN
  /\ LotInReach
  /\ lots[cursor].remaining # 0
  /\ lots'   = [lots EXCEPT ![cursor].remaining = @ - take]
  /\ cost'   = cost + take * unitCost(lots[cursor])
  /\ wanted' = wanted - take
  /\ cursor' = cursor + 1
  /\ UNCHANGED <<txs, sorted, pc, at, disposals, reason, held>>

Oversell ==
  /\ pc = "take" /\ cursor > Len(lots) /\ wanted # 0
  /\ Fail("oversell")

RecordDisposal ==
  LET sell == sorted[at] IN
  /\ pc = "take" /\ wanted = 0
  /\ disposals' = Append(disposals, [date      |-> sell.date,
                                     quantity  |-> sell.quantity,
                                     proceeds  |-> sell.quantity * sell.price,
                                     costBasis |-> cost])
  /\ pc' = "match" /\ at' = at + 1
  /\ UNCHANGED <<txs, sorted, lots, saleVars, reason, held>>

UnsupportedType ==
  /\ AtTransaction
  /\ sorted[at].type \notin {"buy", "rsu_vest", "sell"}
  /\ Fail("type")

Return ==
  /\ pc = "match" /\ at > Len(sorted)
  /\ pc' = "done"
  /\ UNCHANGED <<txs, sorted, at, lots, saleVars, disposals, reason, held>>

Next ==
  \/ ToEURPrices \/ RateUnavailable \/ SortByDate
  \/ Acquire \/ BeginSale \/ SkipEmptyLot \/ TakeFromLot
  \/ Oversell \/ RecordDisposal \/ UnsupportedType \/ Return

Spec == Init /\ [][Next]_vars

----------------------------------------------------------------------------
(* OpenPositions: what the lots the call built are still worth. *)
OpenPosition ==
  [quantity  |-> SumFunction([i \in DOMAIN lots |-> lots[i].remaining]),
   costBasis |-> SumFunction([i \in DOMAIN lots |-> lots[i].remaining * unitCost(lots[i])])]

----------------------------------------------------------------------------

TypeOK ==
  /\ txs \in Seq(Transaction) /\ sorted \in Seq(Transaction)
  /\ pc \in {"convert", "sort", "match", "take", "done", "error"}
  /\ at \in Nat \ {0}
  /\ lots \in Seq(Lot) /\ held \in Seq(Lot)
  /\ cursor \in Nat \ {0} /\ wanted \in Nat /\ cost \in Nat
  /\ disposals \in Seq(Disposal)
  /\ reason \in {"none", "rate", "oversell", "type"}

(***************************************************************************)
(* First in, first out, in time: as soon as one unit of a lot is consumed, *)
(* every lot acquired on an earlier day is empty, in the middle of a sale  *)
(* too.  The loop only looks at positions, so this needs the sort before   *)
(* it as well as the loop's own order.                                     *)
(***************************************************************************)
OldestFirst ==
  \A i, j \in DOMAIN lots :
    lots[i].acquired < lots[j].acquired /\ lots[j].remaining < lots[j].quantity
      => lots[i].remaining = 0

(***************************************************************************)
(* A sale is never matched against units bought after it: whatever it has  *)
(* consumed so far came from lots acquired on or before the sale's day.    *)
(***************************************************************************)
NoFutureUnits ==
  pc = "take" =>
    \A i \in DOMAIN lots :
      lots[i].remaining < held[i].remaining => lots[i].acquired <= sorted[at].date

(***************************************************************************)
(* Nothing is lost between the tax figures and the portfolio page: between *)
(* sales, the units and the euro cost that were bought are exactly those   *)
(* of the disposals plus those OpenPositions still reports.                *)
(***************************************************************************)
NothingLost ==
  pc \in {"match", "done"} =>
    LET bought == {i \in 1..(at - 1) : sorted[i].type \in Acquisitions} IN
    /\ OpenPosition.quantity
         + SumFunction([i \in DOMAIN disposals |-> disposals[i].quantity])
       = SumFunction([i \in bought |-> sorted[i].quantity])
    /\ OpenPosition.costBasis
         + SumFunction([i \in DOMAIN disposals |-> disposals[i].costBasis])
       = SumFunction([i \in bought |-> sorted[i].quantity * sorted[i].price])

=============================================================================
