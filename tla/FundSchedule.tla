---------------------------- MODULE FundSchedule ----------------------------
(***************************************************************************)
(* DeemedDisposalSchedule of internal/engine/deemeddisposal.go: the        *)
(* anniversaries of a fund holding's lots that the dashboard lists, with   *)
(* the units each finds.  It walks ComputeFundTax's events by a loop of    *)
(* its own that knows no prices, so that it can be read while values are   *)
(* still missing, and must come to the same units.                         *)
(***************************************************************************)
EXTENDS FundYears, Functions

(* The first one after asof, and after the purchase. *)
NextDeemedDisposalAnniversary(acquired, asof) ==
  acquired + CycleLength * (1 + (IF asof > acquired THEN (asof - acquired) \div CycleLength ELSE 0))

(* Mutant: a sale takes from the newest lots. *)
consumeNewest(held, quantity) ==
  LET after(i) == Total([j \in {k \in DOMAIN held : k > i} |-> held[j]])
  IN [i \in DOMAIN held |-> held[i] - minimum(held[i], positive(quantity - after(i)))]

(* What a sale leaves in each lot, having taken from the earlier ones. *)
consume(held, quantity) ==
  LET before(i) == Total([j \in {k \in DOMAIN held : k < i} |-> held[j]])
  IN [i \in DOMAIN held |-> held[i] - minimum(held[i], positive(quantity - before(i)))]

(* A lot is given by its position, as in FundTax, where the code has its  *)
(* date of purchase.                                                       *)
Due(i, d, quantity, reached) == [lot |-> i, date |-> d, quantity |-> quantity, reached |-> reached]

(* One event: what is held after it, and what has fallen due. *)
walk(s, at, e) ==
  IF e.kind = eventDeemedDisposal /\ at.held[e.index] # 0
    THEN [at EXCEPT !.due = @ \union {Due(e.index, e.date, at.held[e.index], TRUE)}]
  ELSE IF e.kind = eventSell
    THEN [at EXCEPT !.held = consume(@, s[e.index].quantity),
                    !.oversold = @ \/ s[e.index].quantity > Total(at.held)]
  ELSE at

(* Of transactions in date order; empty where the dashboard shows none,    *)
(* because a sale exceeds what was bought or is no fund's transaction.     *)
DeemedDisposalSchedule(s, asof) ==
  LET start  == [held |-> [i \in Purchases(s) |-> s[i].quantity], due |-> {}, oversold |-> FALSE]
      events == fundEvents(s, asof)
      after[es \in SUBSET events] ==
        IF es = {} THEN start
        ELSE LET last == CHOOSE e \in es : \A f \in es : f = e \/ Precedes(f, e)
             IN walk(s, after[es \ {last}], last)
      end    == after[events]
  IN IF \/ \E i \in DOMAIN s : s[i].type \notin Acquisitions \union {"sell"}
        \/ end.oversold
     THEN {}
     ELSE end.due \union
          {Due(i, NextDeemedDisposalAnniversary(s[i].date, asof), end.held[i], FALSE) :
             i \in {j \in DOMAIN end.held : end.held[j] # 0}}

InDateOrder(s) == LET p == CHOOSE q \in StableOrders(s) : TRUE IN [i \in DOMAIN s |-> s[p[i]]]

----------------------------------------------------------------------------

(***************************************************************************)
(* "A row marked reached is one the figures above actually depend on" (the *)
(* dashboard's anniversarySchedule): when the holding computes, the rows   *)
(* reached are its deemed disposals, with the very units charged, and the  *)
(* rows ahead are of the units it has left, within a cycle of asOf.  When  *)
(* a value is missing, a row says which, unless a sale to come exceeds the *)
(* holding.                                                                *)
(***************************************************************************)
ScheduleAgrees ==
  pc \in {"done", "error"} =>
    LET schedule == DeemedDisposalSchedule(InDateOrder(txs), asOf)
        reached  == {d \in schedule : d.reached}
        ahead    == schedule \ reached
    IN
    /\ pc = "done" =>
         /\ reached = {Due(c.lot, c.date, c.quantity, TRUE) : c \in Range(deemed)}
         /\ {<<d.lot, d.quantity>> : d \in ahead}
              = {<<i, lots[i].remaining>> : i \in {j \in DOMAIN lots : lots[j].remaining # 0}}
         /\ \A d \in ahead :
              /\ (d.date - lots[d.lot].acquired) % CycleLength = 0
              /\ asOf < d.date
              /\ d.date - CycleLength <= asOf \/ d.date - CycleLength = lots[d.lot].acquired
    /\ reason = "oversell" => schedule = {}
    /\ reason = "valuation" /\ schedule # {} => \E d \in reached : ~ OnRecord(d.date)

=============================================================================
