------------------------------ MODULE CGTYears ------------------------------
(***************************************************************************)
(* AggregateCGTYear of internal/engine/cgtyear.go: capital gains tax for   *)
(* a year over all holdings, with losses brought forward from the years    *)
(* before, asked for one year after another as the dashboard's all-years   *)
(* total (allYearsCGTTaxDue) and the reports of successive years do.       *)
(*                                                                         *)
(* The function keeps nothing between calls: each replays every year from  *)
(* the earliest disposal up to the year asked for.  One step is one year   *)
(* of the replay.  Gains are whole euro, of either sign.                   *)
(***************************************************************************)
EXTENDS Integers, Sequences, FiniteSetsExt

CONSTANTS
  Years,            (* The years asked for, without a gap; all after 0,    *)
                    (* which the code takes for "no disposal".             *)
  Dates, YearOf,    (* The dates of disposals and the year of each.        *)
  Portfolios,       (* The disposals of all holdings, by instrument.       *)
  Rate,             (* Rate[d]: percent of CGT in force at d (Lookup).     *)
  YearEnd,          (* YearEnd[y]: the date of 31 December of y.           *)
  AnnualExemption   (* The same in every year (cgtRate): 1270 euro.        *)

Disposal == [date : Dates, gain : Int]

YearsOf(p) == UNION {{YearOf[p[i][k].date] : k \in DOMAIN p[i]} : i \in DOMAIN p}

(* netGainForYear: gains and losses of every holding netted together. *)
netGainForYear(p, y) ==
  LET inYear(i) == {k \in DOMAIN p[i] : YearOf[p[i][k].date] = y}
  IN SumFunction([i \in DOMAIN p |-> SumFunction([k \in inYear(i) |-> p[i][k].gain])])

ASSUME YearsAssumption     == /\ Years \subseteq Nat \ {0}
                              /\ \A y, z \in Years : y..z \subseteq Years
ASSUME CalendarAssumption  == YearOf \in [Dates -> Years] /\ YearEnd \in [Years -> Dates]
ASSUME RateAssumption      == Rate \in [Dates -> Nat]
ASSUME ExemptionAssumption == AnnualExemption \in Nat
ASSUME PortfolioAssumption ==
  \A p \in Portfolios : /\ YearsOf(p) \subseteq Years
                        /\ \A y \in Years : netGainForYear(p, y) \in Int

VARIABLES
  disposals,   (* The disposals of every holding that could be matched.    *)
  target,      (* The year asked for.                                      *)
  pc,          (* "ask", "replay" or "answered".                           *)
  earliest,    (* earliestYear.                                            *)
  at,          (* The year the replay is at.                               *)
  lossPool,    (* Unused losses of the years replayed.                     *)
  poolInto,    (* lossPoolIntoTargetYear.                                  *)
  usedInTarget,(* lossUsedInTargetYear.                                    *)
  results      (* The answers so far, by year.                             *)

vars == <<disposals, target, pc, earliest, at, lossPool, poolInto, usedInTarget, results>>

Result == [net : Int, broughtForward : Nat, used : Nat, carriedForward : Nat,
           exemption : Nat, taxable : Nat, taxDue : Nat]

minimum(a, b) == IF a <= b THEN a ELSE b
positive(n)   == IF n < 0 THEN 0 ELSE n

----------------------------------------------------------------------------

Init ==
  /\ disposals \in Portfolios
  /\ target \in Years /\ \A y \in Years : target <= y
  /\ pc = "ask"
  /\ earliest = 0 /\ at = 0
  /\ lossPool = 0 /\ poolInto = 0 /\ usedInTarget = 0
  /\ results = << >>

Answer(result) ==
  /\ results' = [y \in DOMAIN results \union {target} |->
                   IF y = target THEN result ELSE results[y]]
  /\ pc' = "answered"

(* No disposal by the end of the year: a zero result, and no replay. *)
NothingSold ==
  /\ pc = "ask"
  /\ \A y \in YearsOf(disposals) : y > target
  /\ Answer([net |-> 0, broughtForward |-> 0, used |-> 0, carriedForward |-> 0,
             exemption |-> 0, taxable |-> 0, taxDue |-> 0])
  /\ UNCHANGED <<disposals, target, earliest, at, lossPool, poolInto, usedInTarget>>

BeginReplay ==
  /\ pc = "ask"
  /\ \E y \in YearsOf(disposals) :
       /\ y <= target /\ \A z \in YearsOf(disposals) : y <= z
       /\ earliest' = y /\ at' = y
  /\ pc' = "replay"
  /\ lossPool' = 0 /\ poolInto' = 0 /\ usedInTarget' = 0
  /\ UNCHANGED <<disposals, target, results>>

(* Mutant: no regard for the exemption. *)
usableToNothing(net) == positive(net)

(* Losses are set against a gain only down to the annual exemption. *)
usable(net) == positive(net - AnnualExemption)

(* Mutant: a loss that was used stays in the pool. *)
ReplayKeepingLosses ==
  LET net  == netGainForYear(disposals, at)
      used == IF net > 0 THEN minimum(lossPool, usable(net)) ELSE 0
  IN
  /\ pc = "replay" /\ at <= target
  /\ lossPool' = IF net > 0 THEN lossPool ELSE lossPool - net
  /\ IF at = target THEN poolInto' = lossPool /\ usedInTarget' = used
                    ELSE UNCHANGED <<poolInto, usedInTarget>>
  /\ at' = at + 1
  /\ UNCHANGED <<disposals, target, pc, earliest, results>>

ReplayYear ==
  LET net  == netGainForYear(disposals, at)
      used == IF net > 0 THEN minimum(lossPool, usable(net)) ELSE 0
  IN
  /\ pc = "replay" /\ at <= target
  /\ lossPool' = IF net > 0 THEN lossPool - used ELSE lossPool - net
  /\ IF at = target THEN poolInto' = lossPool /\ usedInTarget' = used
                    ELSE UNCHANGED <<poolInto, usedInTarget>>
  /\ at' = at + 1
  /\ UNCHANGED <<disposals, target, pc, earliest, results>>

(* Mutant: the target year's own loss is not carried forward. *)
AssessWithoutOwnLoss ==
  LET net         == netGainForYear(disposals, target)
      afterLosses == positive(net - usedInTarget)
      exempt      == minimum(afterLosses, AnnualExemption)
      taxable     == afterLosses - exempt
  IN
  /\ pc = "replay" /\ at > target
  /\ Answer([net |-> net, broughtForward |-> poolInto, used |-> usedInTarget,
             carriedForward |-> poolInto - usedInTarget, exemption |-> exempt,
             taxable |-> taxable,
             taxDue |-> (taxable * Rate[YearEnd[target]]) \div 100])
  /\ UNCHANGED <<disposals, target, earliest, at, lossPool, poolInto, usedInTarget>>

(* The exemption and the rate, both of the target year's 31 December. *)
Assess ==
  LET net         == netGainForYear(disposals, target)
      afterLosses == positive(net - usedInTarget)
      exempt      == minimum(afterLosses, AnnualExemption)
      taxable     == afterLosses - exempt
  IN
  /\ pc = "replay" /\ at > target
  /\ Answer([net |-> net, broughtForward |-> poolInto, used |-> usedInTarget,
             carriedForward |-> lossPool, exemption |-> exempt, taxable |-> taxable,
             taxDue |-> (taxable * Rate[YearEnd[target]]) \div 100])
  /\ UNCHANGED <<disposals, target, earliest, at, lossPool, poolInto, usedInTarget>>

AskNextYear ==
  /\ pc = "answered" /\ target + 1 \in Years
  /\ target' = target + 1 /\ pc' = "ask"
  /\ UNCHANGED <<disposals, earliest, at, lossPool, poolInto, usedInTarget, results>>

Next == NothingSold \/ BeginReplay \/ ReplayYear \/ Assess \/ AskNextYear

Spec == Init /\ [][Next]_vars

----------------------------------------------------------------------------

TypeOK ==
  /\ disposals \in Portfolios /\ target \in Years
  /\ pc \in {"ask", "replay", "answered"}
  /\ earliest \in Nat /\ at \in Nat
  /\ lossPool \in Nat /\ poolInto \in Nat /\ usedInTarget \in Nat
  /\ DOMAIN results \subseteq Years
  /\ \A y \in DOMAIN results : results[y] \in Result

(***************************************************************************)
(* "Summing the years is internally consistent" (allYearsCGTTaxDue): the   *)
(* losses a year's answer brings in are those the answer for the year      *)
(* before carried out, although each answer replayed history on its own.   *)
(***************************************************************************)
ChainUnbroken ==
  \A y \in DOMAIN results : y + 1 \in DOMAIN results =>
    results[y + 1].broughtForward = results[y].carriedForward

(***************************************************************************)
(* A loss is relieved once: up to any year, the losses made are those set  *)
(* against gains, each in the year that reports it, plus what is carried   *)
(* forward still.                                                          *)
(***************************************************************************)
LossesConserved ==
  \A y \in DOMAIN results :
    LET until == {z \in DOMAIN results : z <= y} IN
    SumFunction([z \in until |-> positive(- results[z].net)])
      = SumFunction([z \in until |-> results[z].used]) + results[y].carriedForward

(***************************************************************************)
(* Relief is complete and wastes no exemption (s.601(4), as the code's     *)
(* comment puts it): no year is taxed while losses remain, and losses are  *)
(* never set against a gain the exemption would have covered.              *)
(***************************************************************************)
ReliefInOrder ==
  \A y \in DOMAIN results :
    /\ results[y].taxable > 0 => results[y].carriedForward = 0
    /\ results[y].used > 0 => results[y].exemption = AnnualExemption

=============================================================================
