----------------------------- MODULE FundYears -----------------------------
(***************************************************************************)
(* ComputeFundTaxForYear for one year after another, as report and the     *)
(* dashboard's year selector ask for it: every year is a new ComputeFundTax *)
(* to 31 December, and its report keeps the events dated in the year.      *)
(***************************************************************************)
EXTENDS FundTax

CONSTANTS
  Years,       (* The years reported, FirstYear..LastYear.                 *)
  YearLength   (* Instants in a year: two a day.                           *)

(* From one anniversary to the next are a number of whole years.           *)
ASSUME YearLengthAssumption ==
  YearLength \in Nat \ {0} /\ YearLength % 2 = 0 /\ CycleLength % YearLength = 0

VARIABLES
  year,     (* The year being computed.                                    *)
  reports   (* The reports of the years before, or why there is none.      *)

yearVars == <<vars, year, reports>>

(* Mutant: the clock stops before 31 December. *)
dayBeforeYearEnd(y) == (y + 1) * YearLength - 3

(* 31 December, at midnight. *)
yearEndDate(y) == (y + 1) * YearLength - 2

ASSUME YearsAssumption == Years \subseteq Nat /\ \A y \in Years : yearEndDate(y) \in AsOfs

YearOf(d) == d \div YearLength

Total(amounts) == SumFunction(amounts)

(* The loop over the events of a kind that keeps those dated in the year.  *)
InYear(events, y) ==
  LET kept[n \in 0..Len(events)] ==
        IF n = 0 THEN << >>
        ELSE IF YearOf(events[n].date) = y THEN Append(kept[n - 1], events[n])
        ELSE kept[n - 1]
  IN kept[Len(events)]

(* summarizeFundTax, over the events of both kinds. *)
summarizeFundTax(deemedDisposals, actualDisposals) ==
  LET events == deemedDisposals \o actualDisposals IN
  [totalGain       |-> Total([k \in DOMAIN events |-> events[k].gain]),
   taxableGain     |-> Total([k \in DOMAIN events |-> positive(events[k].gain)]),
   taxBeforeCredit |-> Total([k \in DOMAIN events |-> events[k].tax]),
   creditUsed      |-> Total([k \in DOMAIN events |-> events[k].credit]),
   taxDue          |-> Total([k \in DOMAIN events |-> positive(events[k].due)]) \div 100,
   refundDue       |-> Total([k \in DOMAIN events |-> positive(- events[k].due)]) \div 100]

Scoped(y) ==
  [deemed    |-> InYear(deemed, y),
   disposals |-> InYear(disposals, y),
   summary   |-> summarizeFundTax(InYear(deemed, y), InYear(disposals, y))]

Blocked == [blocked |-> TRUE]

----------------------------------------------------------------------------

InitYears ==
  /\ Init
  /\ year \in Years /\ \A y \in Years : year <= y
  /\ asOf = yearEndDate(year)
  /\ reports = << >>

Compute == Next /\ UNCHANGED <<year, reports>>

(* The same transactions and values, and nothing kept of the last call. *)
Call(asof) ==
  /\ asOf' = asof /\ pc' = "convert"
  /\ sorted' = << >> /\ lots' = << >> /\ pending' = {}
  /\ sale' = 0 /\ wanted' = 0 /\ cost' = 0 /\ credit' = 0
  /\ deemed' = << >> /\ disposals' = << >> /\ account' = << >>
  /\ reason' = "none"
  /\ UNCHANGED <<txs, values>>

FileYear ==
  /\ pc \in {"done", "error"}
  /\ year \in Years
  /\ reports' = [y \in DOMAIN reports \union {year} |->
                   IF y # year THEN reports[y]
                   ELSE IF pc = "done" THEN Scoped(year) ELSE Blocked]
  /\ year' = year + 1
  /\ IF year + 1 \in Years
     THEN Call(yearEndDate(year + 1))
     ELSE UNCHANGED vars

NextYears == Compute \/ FileYear

SpecYears == InitYears /\ [][NextYears]_yearVars

----------------------------------------------------------------------------

(***************************************************************************)
(* "ComputeFundTax restricted to chargeable events ... falling within the  *)
(* given calendar year": a later year's walk, which goes over the same     *)
(* history again, finds exactly the events an earlier report filed for its *)
(* year.  No event is left unreported, moved to another year or changed;   *)
(* but for an event in the afternoon of a 31 December, which the year's    *)
(* own walk, to that midnight, does not reach.                             *)
(***************************************************************************)
ReportsStand ==
  pc = "done" =>
    \A y \in DOMAIN reports : reports[y] # Blocked => reports[y] = Scoped(y)

Dues(events) == Total([k \in DOMAIN events |-> events[k].due])

DuesFiled == Total([y \in DOMAIN reports |-> Dues(reports[y].deemed) + Dues(reports[y].disposals)])

(***************************************************************************)
(* The reports of all years together collect the tax on the actual sales,  *)
(* each on its own gain, plus what is still attached to the units left,    *)
(* and no more: deemed disposals only bring the charge forward.            *)
(***************************************************************************)
DeemedTaxOnlyAdvanced ==
  year \notin Years /\ pc = "done" /\ DOMAIN reports = Years /\ (\A y \in Years : reports[y] # Blocked) =>
    DuesFiled = Total([k \in DOMAIN disposals |-> disposals[k].tax])
                  + Total([i \in DOMAIN lots |-> lots[i].remaining * lots[i].deemedTaxPerUnit])

=============================================================================
