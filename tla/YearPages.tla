----------------------------- MODULE YearPages -----------------------------
(***************************************************************************)
(* The pages of a tax year: `taxman report --year` (cmd/taxman/report.go)  *)
(* and the dashboard (internal/web/server.go), over one ledger.  Each goes *)
(* over the holdings with a loop of its own and then asks for the charge   *)
(* of the year, which is AggregateCGTYear as module CGTYears has it, year  *)
(* after year as a user who files one return after another does.           *)
(*                                                                         *)
(* What is shown for a holding is a set of at most one figure.             *)
(***************************************************************************)
EXTENDS CGTYears

CONSTANTS
  Instruments,
  Ledgers,      (* What the tables hold: a Holding for each instrument.    *)
  DIRTRate      (* DIRTRate[d]: percent of DIRT in force at d (Lookup).    *)

Credit == [account : Instruments, date : Dates, amount : Nat]

(* A savings account is an instrument with credits and no trades.          *)
Holding == [
  class   : {"CGT_ASSET", "EXIT_TAX_FUND", "UNCLASSIFIED"},
  traded  : BOOLEAN,
  sold    : SUBSET Seq(Disposal),    (* Its trades matched; none: error.   *)
  charged : [Years -> SUBSET Nat],   (* ComputeFundTaxForYear of them.     *)
  credits : SUBSET Credit]

Matched(l) ==
  [i \in {j \in Instruments : l[j].class = "CGT_ASSET" /\ l[j].traded /\ l[j].sold # {}} |->
     CHOOSE s \in l[i].sold : TRUE]

ASSUME InstrumentsAssumption == IsFiniteSet(Instruments)
ASSUME LedgersAssumption ==
  /\ {Matched(l) : l \in Ledgers} \subseteq Portfolios
  /\ \A l \in Ledgers : \A i \in Instruments :
       /\ l[i] \in Holding
       /\ \A s, t \in l[i].sold : s = t
       /\ IsFiniteSet(l[i].credits) /\ \A c \in l[i].credits : c.account = i
ASSUME DIRTRateAssumption == Dates \subseteq Int /\ DIRTRate \in [Dates -> Nat]

VARIABLE ledger

pageVars == <<vars, ledger>>

----------------------------------------------------------------------------
(* The engine, of one holding and of interest.                             *)

(* Any other type of transaction is an error: "unsupported". *)
CGTDisposals(h, credits) == IF credits = {} THEN h.sold ELSE {}

ComputeFundTaxForYear(h, credits, y) == IF credits = {} THEN h.charged[y] ELSE {}

totalInterest(credits) == SumFunction([c \in credits |-> c.amount])

roundTaxToWholeEuro(n) == n \div 100

(* The rate at the latest credit. *)
ComputeDIRT(credits) ==
  IF credits = {} THEN 0
  ELSE roundTaxToWholeEuro(totalInterest(credits) * DIRTRate[Max({c.date : c \in credits})])

creditsIn(credits, y) == {c \in credits : YearOf[c.date] = y}

gainOf(s, y) ==
  LET inYear == {k \in DOMAIN s : YearOf[s[k].date] = y} IN
  IF inYear = {} THEN {} ELSE {SumFunction([k \in inYear |-> s[k].gain])}

----------------------------------------------------------------------------
(* The charge both pages ask for.                                          *)

blank(h) == [class |-> h.class, error |-> FALSE, gain |-> {}, tax |-> {}]

NotShown    == [error |-> FALSE, charge |-> {}]
CannotMatch == [error |-> TRUE, charge |-> {}]

(* Mutant: the holdings that could be matched are charged without the rest. *)
CanChargeSome(matched, unmatched) == matched # {}

(* cgtMatchBlocked: "a partial total would understate the liability". *)
CanCharge(matched, unmatched) == matched # {} /\ unmatched = {}

cgtSummary(S, credits, charge) ==
  LET held      == {i \in S : ledger[i].class = "CGT_ASSET"}
      matched   == {i \in held : CGTDisposals(ledger[i], credits[i]) # {}}
      unmatched == held \ matched
  IN CASE CanCharge(matched, unmatched) -> [error |-> FALSE, charge |-> {charge}]
       [] held = {}                     -> NotShown
       [] OTHER                         -> CannotMatch

(* A holding the charge knows gets its gain once there is a charge. *)
withGains(rows, cgt, y) ==
  [i \in DOMAIN rows |->
     IF cgt.charge # {} /\ rows[i].class = "CGT_ASSET"
     THEN [rows[i] EXCEPT !.gain = UNION {gainOf(s, y) : s \in ledger[i].sold}] ELSE rows[i]]

----------------------------------------------------------------------------
(* taxman report: every instrument with a transaction of any type.         *)

reportInstruments == {i \in Instruments : ledger[i].traded \/ ledger[i].credits # {}}

reportHolding(i, y) ==
  LET h    == ledger[i]
      fund == ComputeFundTaxForYear(h, h.credits, y)
  IN CASE h.class = "UNCLASSIFIED"  -> blank(h)
       [] h.class = "CGT_ASSET"     -> [blank(h) EXCEPT !.error = CGTDisposals(h, h.credits) = {}]
       [] h.class = "EXIT_TAX_FUND" -> [blank(h) EXCEPT !.error = fund = {}, !.tax = fund]

(* The loop goes on to the next holding before an unclassified one's. *)
reportInterest(i, y) ==
  LET credits == creditsIn(ledger[i].credits, y) IN
  IF ledger[i].class = "UNCLASSIFIED" \/ credits = {} THEN {} ELSE {ComputeDIRT(credits)}

reportCredits == [i \in Instruments |-> ledger[i].credits]

buildYearReport(y, charge) ==
  LET cgt == cgtSummary(reportInstruments, reportCredits, charge)
  IN [rows     |-> withGains([i \in reportInstruments |-> reportHolding(i, y)], cgt, y),
      interest |-> [i \in reportInstruments |-> reportInterest(i, y)],
      cgt      |-> cgt]

----------------------------------------------------------------------------
(* The dashboard: trades make the rows, all interest one figure.           *)

dashboardInstruments == {i \in Instruments : ledger[i].traded}
interestTxs          == UNION {ledger[i].credits : i \in Instruments}

(* Mutant: a year's row takes the charges of the years before along. *)
fundToDate(h, y) ==
  IF h.charged[y] = {} THEN {}
  ELSE {SumFunction([z \in {w \in Years : w <= y} |-> Max(h.charged[z])])}

fundInYear(h, y) == ComputeFundTaxForYear(h, {}, y)

holdingRow(i, y) ==
  LET h    == ledger[i]
      fund == fundInYear(h, y)
  IN CASE h.class = "UNCLASSIFIED"  -> blank(h)
       [] h.class = "CGT_ASSET"     -> [blank(h) EXCEPT !.error = CGTDisposals(h, {}) = {}]
       [] h.class = "EXIT_TAX_FUND" -> [blank(h) EXCEPT !.error = fund = {}, !.tax = fund]

noCredits == [i \in Instruments |-> {}]

handleDashboard(y, charge) ==
  LET cgt == cgtSummary(dashboardInstruments, noCredits, charge)
  IN [rows |-> withGains([i \in dashboardInstruments |-> holdingRow(i, y)], cgt, y),
      cgt  |-> cgt,
      dirt |-> ComputeDIRT(creditsIn(interestTxs, y))]

sumDisposalGains(s) == SumFunction([k \in DOMAIN s |-> s[k].gain])

(* Mutant: the years of the first holding's disposals only. *)
yearsOfOne(ds) ==
  IF DOMAIN ds = {} THEN {}
  ELSE LET one == CHOOSE i \in DOMAIN ds : TRUE
       IN {YearOf[ds[one][k].date] : k \in DOMAIN ds[one]}

disposalYears(ds) == YearsOf(ds)

(* The sum of the charges of the years in which something was sold. *)
allYearsCGTTaxDue == SumFunction([y \in disposalYears(disposals) |-> results[y].taxDue])

(* The gains and the interest of the all-years view. *)
allYearsGain(i) == {sumDisposalGains(s) : s \in ledger[i].sold}
allYearsDIRT    == ComputeDIRT(interestTxs)

----------------------------------------------------------------------------

InitPages == ledger \in Ledgers /\ disposals = Matched(ledger) /\ Init

(* The aggregate is left alone when it would be partial, or of nothing. *)
Aggregated == cgtSummary(dashboardInstruments, noCredits, 0).charge # {}

PageWithoutCharge ==
  /\ pc = "ask" /\ ~ Aggregated
  /\ pc' = "answered"
  /\ UNCHANGED <<disposals, target, earliest, at, lossPool, poolInto, usedInTarget, results>>

NextPages ==
  /\ \/ PageWithoutCharge
     \/ Aggregated /\ (NothingSold \/ BeginReplay)
     \/ ReplayYear \/ Assess \/ AskNextYear
  /\ UNCHANGED ledger

SpecPages == InitPages /\ [][NextPages]_pageVars

----------------------------------------------------------------------------

Charge(y)    == IF y \in DOMAIN results THEN results[y] ELSE [none |-> TRUE]
Report(y)    == buildYearReport(y, Charge(y))
Dashboard(y) == handleDashboard(y, Charge(y))
figure(f)    == SumFunction([n \in f |-> n])
Shown(y)     == y < target \/ (y = target /\ pc = "answered")

(***************************************************************************)
(* The two pages of a year, built by two loops over the same tables, agree *)
(* on every holding without interest.  On the charge, and with it on each  *)
(* holding's share of it, they agree unless a CGT_ASSET holding has        *)
(* interest credits, which only the report takes for trades.               *)
(***************************************************************************)
PagesAgree ==
  \A y \in Years : Shown(y) =>
    LET r == Report(y)
        d == Dashboard(y)
        charged == \A i \in Instruments : ledger[i].class = "CGT_ASSET" => ledger[i].credits = {}
    IN /\ \A i \in {j \in Instruments : ledger[j].credits = {}} :
            /\ i \in DOMAIN r.rows <=> i \in DOMAIN d.rows
            /\ i \in DOMAIN d.rows =>
                 /\ r.rows[i].error = d.rows[i].error /\ r.rows[i].tax = d.rows[i].tax
                 /\ charged => r.rows[i].gain = d.rows[i].gain
       /\ charged => r.cgt = d.cgt

(***************************************************************************)
(* "A partial total would understate the liability": a page that shows a   *)
(* charge shows one over every CGT_ASSET holding on it, whose gains add up *)
(* to the net gain that is charged; one that has such holdings shows a     *)
(* charge or says that there is none to show.                              *)
(***************************************************************************)
NoPartialCharge ==
  \A y \in Years : Shown(y) => \A page \in {Report(y), Dashboard(y)} :
    LET held == {i \in DOMAIN page.rows : page.rows[i].class = "CGT_ASSET"} IN
    /\ held # {} => page.cgt # NotShown
    /\ \A c \in page.cgt.charge :
         /\ \A i \in held : ~ page.rows[i].error
         /\ c.net = SumFunction([i \in held |-> figure(page.rows[i].gain)])

(***************************************************************************)
(* "Summing the years is internally consistent" (allYearsCGTTaxDue): what  *)
(* the all-years view shows is the sum of the years' own pages, for the    *)
(* CGT charge and for each holding's gain; the DIRT figure, while there is *)
(* one rate, is short of it by no more than the rounding of each year.     *)
(***************************************************************************)
AllYearsAddUp ==
  (\A y \in Years : Shown(y)) =>
    LET credited == {y \in Years : creditsIn(interestTxs, y) # {}}
        yearly   == SumFunction([y \in credited |-> Dashboard(y).dirt])
    IN /\ Aggregated =>
            /\ allYearsCGTTaxDue = SumFunction([y \in Years |-> results[y].taxDue])
            /\ \A i \in DOMAIN disposals :
                 allYearsGain(i) =
                   {SumFunction([y \in Years |-> figure(Dashboard(y).rows[i].gain)])}
       /\ (\A c, e \in interestTxs : DIRTRate[c.date] = DIRTRate[e.date])
            => /\ yearly <= allYearsDIRT
               /\ credited # {} => allYearsDIRT < yearly + Cardinality(credited)

(***************************************************************************)
(* "Any holding's transactions may include interest credits"               *)
(* (buildYearReport), and "a savings account never becomes an UNCLASSIFIED *)
(* holding" (SPEC.md): the report of a year shows the DIRT on each         *)
(* account's credits of the year.                                          *)
(***************************************************************************)
InterestReported ==
  \A y \in Years : Shown(y) => \A i \in Instruments :
    creditsIn(ledger[i].credits, y) # {} => Report(y).interest[i] # {}

=============================================================================
