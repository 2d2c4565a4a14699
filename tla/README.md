# taxman in TLA+

taxman computes Irish tax on shares and funds: it imports broker exports into a
SQLite ledger whose schema it migrates when it starts, matches sales with purchases first in first out, charges capital
gains tax (CGT) or exit tax with its deemed disposals every eight years, converts
at ECB reference rates it refreshes at run time, and shows the year in a report
and a dashboard with live prices. This directory holds TLA+ models of the parts of it that decide a figure
or keep state, TLC configurations that check them on small instances, and TLAPS
proofs of what matters most for all instances.

    tlc -config MCLotMatching.cfg MCLotMatching       # one run
    tlapm LotMatchingProofs.tla                       # one module's proofs

PROJECT.json lists the components, the runs, a mutant of the code for every
property, the source lines each definition stands for, the disagreements found,
the hazards, and the theorems.

## 1. The system

### Components

| Component (source) | State it keeps | Operations | What makes it correct | Here |
|---|---|---|---|---|
| FIFO matching (`engine/cgt.go`, `lot.go`, `currency.go`, `openposition.go`) | the lots, for one call | `ComputeCGT`, `matchDisposalsFIFO`, `matchFIFO`, `OpenPositions` | oldest first, none from the future, no unit lost or sold twice, an error exactly when too few are held | Holdings, LotMatching, UnitQueue, LotRefinement |
| Fund exit tax (`engine/deemeddisposal.go`) | lots with a credit each, for one call | `ComputeFundTax`, `ComputeFundTaxForYear`, `DeemedDisposalSchedule`, `NextDeemedDisposalAnniversary` | each anniversary charged once, on the units still held; the credit follows the units; later years agree with what was filed | FundTax, FundYears, FundSchedule |
| CGT year (`engine/cgtyear.go`) | none: every year replays all years before it | `AggregateCGTYear`, `allYearsCGTTaxDue` | successive answers form one chain of losses, used once, in order, not wasted on a gain the exemption covers | CGTYears |
| ECB rates (`fx/fx.go`, `fx/refresh.go`) | the dataset behind a lock, a refresh mutex, a cache file | `Rate`, `tryLiveRefresh`, start-up | data only gets newer; a rate is close to its date and a settled one does not change unless its file was cut short; every call returns | FxRefresh |
| Live prices (`prices/http.go`, `prices/cache.go`) | an in-process map, a currency memo, a durable row | `Quote` over Finnhub, Yahoo, Stooq | "live" is fresh; an age is never understated; a known price is served rather than an error | PriceCache |
| Ledger (`ledger/store.go`, `transaction.go`), import (`ingest/route.go`, `cmd/taxman/import.go`, `backfill.go`), interest forms (`web/server.go`, `ingest/interest`) | the `transactions` table | `Insert`, `Store`, `UpdateManualInterestCredit`, `DeleteManualInterestCredit` | one row per transaction, complete imports, a stale form changes nothing | Ledger |
| Broker exports (`ingest/degiro`, `ingest/ibkr`, `ingest/etrade`, the vest and sale forms of `web/server.go`) | none | `consolidate`, `parseAccountRows`, `parseFlat`, `parseTransactionHistory`, `parseActivityStatement`, E*TRADE's `parseRow` | the ledger holds the units of the account, and no transaction the account does not have | Exports, DegiroExports, FillExports, BrokerImport |
| Instruments (`aliases`, `classify`, `tickers`, the gate in `engine/compute.go`, the forms in `web/server.go`) | three tables | classify, map a symbol, merge, unmerge | no chain of aliases, no silent change of tax treatment, one symbol one holding | Instruments |
| Valuations (`valuations`) | a table | `Upsert`, `Get`, `List` | read by the fund walk | a constant of FundTax |
| Pages of a year (`cmd/taxman/report.go`, the dashboard of `web/server.go`, `engine/dirt.go`) | none | `buildYearReport`, `handleDashboard`, `cgtSummary`, `ComputeDIRT`, the all-years view | two loops over the same tables agree; no charge over part of the holdings; the years add up | YearPages |
| Migrations (`db/migrate.go`, `db/migrations`) | `schema_migrations`, and the tables themselves | `Up`, `Down` | what is recorded is what is there; nothing logged is lost; the next Up can always finish | Migrations |
| Tax-rule tables (`taxrules`) | none | lookup by date | | constants of CGTYears, YearPages and FundTax |
| Portfolio page, exit tax without deemed disposals, audit trail, `validate`, docs generator | none, or append-only | | | not modelled, see 6 |

### How they interact

The import and the forms write the ledger; `ledger.All` resolves each key through
the aliases; `compute` splits the transactions by instrument, refuses a holding
without a classification, and gives the others to `ComputeCGT` or
`ComputeFundTax`. Both restate amounts in euro with `fx.Rate`. The year functions
call them on the whole history each time. The report and the dashboard each go over
the holdings with a loop of their own and ask for the charge of the year. Every
command runs `Up` before anything else. The portfolio asks `prices.Quote` for
every open position. No component calls another back; the only shared state is
the database, the FX dataset and the price maps, and the concurrent actors are the
HTTP server's goroutines and other taxman processes on the same files.

### What is hard

* Order: sales and lots of one day, events of one day in the fund walk, lots that
  exist before the event that buys them.
* Histories told several times: a year replays the years before it and must agree
  with what was filed; the schedule replays the walk with a loop of its own.
* Statements that interleave or fail half-way: imports, forms, merges.
* State read, lock dropped, state used: FX data, prices, currencies.
* Crash and restart: cache files cut short, stale durable rows, a process stopped
  between two migrations while others go on.
* Two loops that must agree: report and dashboard, years and all years.
* Identity: a transaction is what its fingerprint says, and one event may read
  differently in two exports.

PROJECT.json has each of these at its line under `hazards`, with the properties
that would catch it.

## 2. The modules

Each component's own module has one action per step of the code; a module `MC...`
only gives constants and bounds; a module `...Proofs` only theorems.

**Holdings** — transactions as the engine sees them, the euro conversion
(`toEURPrices`), `IsAcquisition`, `sortByDate` as the stable sort. Shared by the
two engines.

**LotMatching** — one behaviour is one call on one holding. `ToEURPrices` or
`RateUnavailable`; `SortByDate`; then the loop of `matchDisposalsFIFO`: an
acquisition appends a lot, a sale starts `matchFIFO`, whose loop is one step per
lot (skip an empty one, take from one, run out). The history variable `held` is
the lots as the current sale found them, so that a property can compare.

**UnitQueue**, **LotRefinement** — the abstract specification: a queue of single
units. A purchase appends units, a sale removes from the head, all or nothing. The
mapping flattens each lot into its remaining units; the property
`ImplementsUnitQueue` is the abstract specification under it, run and proved.

**FundTax** — `ComputeFundTax`: `buildFundEvents` opens every lot and generates
its anniversaries, the events are walked in order (instant, then anniversaries before sales
of that instant), `chargeDeemedDisposal` asks for a valuation and adds to the lot's
credit, `chargeFundDisposal` takes units and their share of the credit. The
history `account` records per lot what was charged and what sales were credited.
**FundYears** is `ComputeFundTaxForYear` for one year after the other, with each
report kept; **FundSchedule** is `DeemedDisposalSchedule` as a function of the
same transactions.

**CGTYears** — a behaviour is one reader asking for the years in turn; each
question is a replay, one year a step, with the loss pool, the year's netting,
the exemption and the carry-forward.

**YearPages** — extends CGTYears by the pages that show its answers. A ledger gives
each instrument its classification, its matched disposals (or none: the matcher's
error), its fund charge of each year (or none: a valuation is missing) and its
interest credits. `buildYearReport` and `handleDashboard` are operators of the ledger
and of the year's charge, since they keep nothing; a page whose loop ends
before the charge is asked for is the action `PageWithoutCharge`. The report takes
every instrument with a transaction of any type, the dashboard those with trades:
that is the difference between the two loops.

**FxRefresh** — goroutines in `Rate`: read the dataset, look up, decide to
refresh, wait for the mutex, fetch, take the data if newer, write the cache file,
look up again. A stop and restart at any step; the file may be cut short in the
middle of writing. A dataset is the interval of days it spans plus how its last
line was cut, because the ECB does not revise. A line cut inside a number is taken
by the parser with the digits that are left, and so in the model: an answer from it is marked `short`.

**PriceCache** — goroutines in `Quote`, one step per access of a lock, of the
database or of a provider. A price is its stamp, its real time and whether its
currency is known.

**Ledger** — one step per SQL statement, because each is its own transaction in
the code; loops over rows may break off at any statement.

**Exports** — what a row of an export is and the transaction it becomes by itself.
**DegiroExports** adds Degiro's two layouts (netting by order, cancelling transfer
pairs; booking by booking), **FillExports** IBKR's three and E*TRADE's: which rows each passes over,
which refuse the file, what names the instrument, which currency and time a fill
gets. A file is a function from the places its rows have in the account's whole list, so that a window is
a restriction of the account, and a parser gives transactions at some of those places; `InRowOrder` is the
slice the code returns. **BrokerImport** is the composition: an account at the broker, windows of it
exported in the layouts its owner uses, typed in by hand where a form exists, and imported by concurrent
writers into the Ledger.

**Migrations** — processes in `Up` and `Down` beside a server that inserts. A process
reads the applied versions once and goes by that; each version's script and its
record are one step, because they are one SQLite transaction, and a failure or a
stop (`BreakOff`) comes between two of them. Versions 1, 4 and 7 do what their scripts do to the transactions table,
7 with the new fingerprints; any other creates a table nothing else touches.
Histories record what was logged, whether a Down ran beside another process, and whether a
bank's credit was entered while 7 was reversed.

**Instruments** — one step per statement of a request, except `Merge`, whose
reads and write the code wraps in one SQLite transaction. A request remembers what
it read. The symbol form's follow-up merge (`mergeBySymbol`) chooses any of the
holdings under the symbol, because the code ranges over a Go map.

What the models abstract: amounts are small integers and divisions that the code
does on decimals are done on values where they are exact or are kept as products;
names, references and symbols are model values; a published rate or price is known
by its date. A failing statement stands for every reason a statement fails (busy
database, full disk, a cancelled request).

## 3. The runs

| Run | Module and cfg | Shows |
|---|---|---|
| `lot_matching` | MCLotMatching | every ledger of up to four of eleven transactions: oldest first, no future units, cost neither lost nor doubled, refinement of the queue (which includes when a sale fails) |
| `fund_years` | MCFundYears | five successive years: credit follows units, each anniversary charged once and before its day's sales, gaps block exactly when needed, reports stand, deemed tax is only an advance, the schedule agrees |
| `cgt_years` | MCYearPages | four successive years: chain unbroken, losses conserved, relief in order; report and dashboard agree, no partial charge, all years add up |
| `fx_refresh` | MCFxRefresh | two goroutines, restarts, other processes: settled rates stand or are lost with a file cut short, the data lacks no more than such a file lacks, close to its date, data only newer, every call returns |
| `price_cache` | MCPriceCache | two goroutines, provider failures, restarts: live is fresh, age not understated, last known price served |
| `imports` | MCBrokerImport | two writers, six layouts and forms by hand, one layout an account and no window that cuts an order: one row per transaction, imports complete, imported rows stay, the account's units, nothing invented |
| `instruments` | MCInstruments | two requests: no chains, chains only inside a group, one symbol one holding unless refused, a merge keeps treatment |
| `migrations` | MCMigrations | two processes up and down beside a server: recorded is what is there but for a column whose table was dropped under it, Up misses nothing, one row per credit, events kept, the next Up can finish |
| `fund_future_lots` | MCFundYears, MCFundFutureLots | violation, see 5 |
| `fund_afternoon` | MCFundYears, MCFundAfternoon | violation |
| `report_interest` | MCYearPages, MCReportInterest | violation |
| `degiro_layouts` | MCBrokerImport, MCDegiroLayouts | violation |

Type invariants are proved, not run. PriceCache's is both: there a price without a
quote is a state the code's provider functions must not produce.

### Bounds, and why they are enough

* `lot_matching`: four transactions on three dates. Two lots and two sales already
  show a sale that spans lots, a lot sold in parts, an empty lot passed over, same-day
  orders both ways, and an oversell after a partial sale. One date has no rate.
* `fund_years`: years of two days with two instants each, a cycle of two years
  (eight in the code), five years: two full cycles and a sale after each. Lots
  on the first and on the last day of a year, sales before, on and after an anniversary,
  four valuation tables, of which two have a gap. The rate of exit tax changes. `TimelyLedgers`
  leaves out histories with an anniversary in the afternoon of a day on whose morning
  something is sold, or of a 31 December; `fund_afternoon` is one of both.
* `cgt_years`: two holdings with up to two disposals each in every combination, and three
  instruments of each of eleven kinds: shares with and without gains, shares that
  cannot be matched, a fund with and without a missing valuation, an unclassified holding,
  savings accounts, a holding with trades and credits. An exemption of 50, gains and
  losses below, at and above it; the CGT rate changes inside a year, DIRT's between two.
* `fx_refresh`: four publication days, so that there is one before, on and after
  the embedded file's last; dates asked about on, between and after them, with a lookback of 2
  and a grace of 1; three currencies (rated, last rated longer ago than the
  lookback, never rated).
* `price_cache`: clock up to 3 with a time to live of 2: fresh, just expired, and
  a second fetch. The two goroutines are symmetric. Two is the number at which
  one can overwrite the other's result.
* `imports`: accounts of up to three rows over three days (a transfer adds two), and two windows: the first day, and all
  three; three ids; a form of two credits. Degiro accounts are bought and sold in one or two orders, on one
  day or on days 2 and 3, between which no export is taken; with rows that have no order and
  may cancel, with transfers, in a second currency where that can matter, and with a first row that
  settles at its own price or at twice that, because a row's price and its cash are rounded apart. The others have two fills (a purchase or a
  vest, then a purchase or a sale), on one day at two times where the layout has a time, with a cash row
  that is passed over or refuses the file. Each account is exported in one layout: Degiro's two read an order
  differently (`degiro_layouts`), and IBKR's name an instrument, its currency and a fill's time
  differently, so one account in two of them is two sets of transactions. `MCAccounts` leaves out
  accounts with two transactions alike in all that identifies them (they are one by design),
  and `Uncut` orders that a window cuts: such an order, exported after its first part and again
  whole, nets to two different transactions and is in the ledger as its part and as its whole.
* `instruments`: four keys, three with transactions, so that a merge can meet a
  key that is already an alias, one that has aliases, and one without holdings.
  `Bounded` leaves out classifications after two requests have overlapped: there
  only the shape of the aliases is claimed, and classifications only refuse merges.

* `migrations`: the three scripts that touch the transactions table and one that does not;
  one bank, two names, two events; two processes, which are symmetric. A Down that reads
  while an Up is between two versions needs no third.

`MaxLength`, `MaxDisposals`, `MaxId`, `MaxClock` and `Bounded` are all the bounds
there are. `CHECK_DEADLOCK FALSE` where behaviours end: a call that has returned,
a clock or ids that have run out. `instruments` and `migrations` never end, and
deadlock is checked.

### Fairness

* FxRefresh: `WF` of each goroutine's step, because goroutines are scheduled
  and the download has a 30 s timeout; and `SF` of taking the mutex, because Go's
  `sync.Mutex` hands the lock to a waiter that has starved for 1 ms.
* All others: none, and no liveness is claimed of them. That a migration can finish is
  stated as an invariant (`UpCanFinish`): the next step is possible, if someone takes it.

## 4. The proofs

Each theorem is `Spec => []P` (or `Spec => [][A]_vars`) for all values of the
constants under the named `ASSUME`s of the modules, which the runs evaluate.
They are small: quantities are positive naturals, rates are naturals,
ledgers are finite sequences of transactions, the mutex's free value is no caller,
migrations are numbered and the first creates the table; a year has two instants a day and a cycle is whole years;
files are sequences of rows, and the trades that parsers give are among the trades the ledger is about (`TradeAssumption`).

| Module | Theorems | Inductive invariant |
|---|---|---|
| LotMatchingProofs | `TypeCorrect`, `FirstInFirstOut`, `NeverFromTheFuture` | `OldestFirst` is about lots before the cursor; it needs that lots are in date order (`LotsInOrder`), none is later than the transaction being walked (`LotsPast`), the lots before the cursor are used up (`ConsumedPrefix`, `CursorClear`) and the sale takes no more than a lot has (`WithinLot`); the order of lots needs the order of the sorted transactions (`DatesInOrder`) and the walk's position (`Progress`) |
| | `NothingIsLost` | `Balance`: the units and the cost in the lots, in the disposals and on their way from one to the other during a sale are those of the purchases walked past |
| | `QueueImplemented` | the refinement: the initial states are the queue's, and each step is one of the queue's or none (`StepSimulates`). A sale in progress has taken the front of the queue it found and the lots are the rest (`TakenSoFar`), because the lot at the cursor is the first with units (`FirstUnits`); prices are the queue's (`PricesKnown`), and a call fails with a reason (`ReasonGiven`) |
| FundTaxProofs | `TypeCorrect`, `NoDoubleCharge` | a lot's credit equals the deemed tax charged on the units it still has: kept through a charge and through a sale in parts (lemma `TaxPerUnit`), with events in their places (`EventsPlaced`, `SalePlaced`) and nothing before the walk (`NothingBuilt`) |
| | `AnniversariesCharged`, `GapsBlock` (from `WalkInvariance`) | the properties count the units of a lot held on a day from the history alone, the walk from its lots: `FirstOut` says that they are the same, and needs that events are walked in order (`WalkedInOrder`) over every lot opened (`LotsOpened`). Each charge is of an anniversary passed and right (`ChargesRight`), there is one of each (`ChargedOnce`), every anniversary passed is settled (`AllSettled`), and the walk stopped for a valuation only at a gap (`GapFound`) |
| | `ReportsStandAlways`, `DeemedTaxOnlyAdvances` (from `YearsInvariance`), of FundYears | each call walks the history anew, so the walk's invariant holds in it (`CallInv`); what a walk has listed by a date is decided by the sales and anniversaries before it, so each report filed is what any later walk lists of its year (`YInv`, `ReportRight`). The dues filed are what the lots' accounts were charged and credited (`AccountsAlike`, `FiledInv`), and those add up to the tax on the sales and what is still attached to units |
| | `ScheduleAgreesAlways`, of FundSchedule | the schedule's walk is a table over the sets of events; at every event it holds the units first in, first out leaves, as the computation does (`FirstOut`), and until a sale fails no more is consumed than was bought (`WithinBought`); a call fails for a reason (`WhyFailed`) |
| CGTYearsProofs | `TypeCorrect`, `YearsAddUp`, `ReliefWastesNothing`, `LossesRelievedOnce` | the replay's pool at a year is what the answer for that year said (`PoolKnown`, `AnswersFollow`), so a later replay goes through the same pools; the losses made up to a year are the sum of those used and the pool |
| | `TwoPagesAgree`, `ChargesAreWhole`, `AllYearsView` (from `PagesInvariance`) | of YearPages: an answer that shows a charge is over exactly the disposals of its year (`PInv`), and its net gain is that year's (`NetCharged`); the rest is about what the two loops add up |
| FxRefreshProofs | `TypeCorrect`, `RefreshExclusive`, `LossesExplained`, `RatesAreClose`, `SettledForGood`, `RefreshOnlyNewer` | who holds the mutex is in the critical section (`Holding`), what each call has looked up is covered by the data it read (`Asking`, `Unanswered`); what the loaded data lacks, the cache file that the process found lacks (`found`), so a date the embedded data covers is answered as by that data, or is among the oldest days that the file has lost (`LookupSettled`) |
| LedgerProofs | `TypeCorrect`, `NoDuplicates`, `ImportsAreComplete`, `NoStaleForm`, `TradesStay` | fingerprints are those of the row's contents (`FingerprintsCurrent`) and the rows of a loop before its position are on record (`PassedIsOnRecord`), whoever stored them |
| | `ImportedOnce`, `WindowsAreComplete`, `ImportsStay` (from `ImportInvariance`), of BrokerImport | an import is a loop over what its parser gives, and that is a sequence of trades (`ImportGiven`): the ledger's invariant, of `SpecImport` |
| | `NeverInvents` | what is parsed of a window is parsed of the whole account: a window has all rows of its days (`SomeDays`), and a parser looks beyond a row only at rows of its day (`SameParsed`). So neither the rows nor the loops under way have anything else (`LoopsOfAccount`) |
| | `UnitsAlwaysAgree` | the ledger's trades and the account's transactions are one to one (`LedgerIsAccount`), and what a layout gives of an account has the account's units (`HasUnits`): cancelled transfers are matched, the k-th purchase with the k-th sale like it (`Rank`, `CancelledSum`), an order's transaction has its rows' units (`OrderUnits`) |
| InstrumentsProofs | `TypeCorrect`, `NeverAChain`, `OnlyGroupsAreChains`, `TreatmentKept` | `NoChains`, with `OneAtATime` and `Current`: as long as requests have not overlapped, what a request has read is still so |
| | `OneHoldingPerSymbol` | two keys with a symbol are apart only while a request is there to join them (`SymbolsJoined`), and what a request has read of the symbols is still so (`SymbolsRead`) |
| PriceCacheProofs | `TypeCorrect`, `FreshOrMarked`, `AgesAreHonest`, `LastKnownSurvives` | what a call holds was priced no later than its stamp (`HonestInHand`), no call starts in the future (`Begun`), a price just fetched is stamped with the call's own start (`Stamped`), and a call that saw a price keeps hold of one: the row, then its own fallback (`InReach`) |
| MigrationsProofs | `SchemaTracked`, `NothingMissed`, `NothingLost`, `OneRow`, `NeverStuck` | a Down that runs alone reverses what is still the latest (`DownsAlone`); bank rows are found only before 7 and under its names (`BanksKnown`), hand-entered rows under them only if entered since it was reversed (`ManualsEntered`), so 7 rewrites no two rows into one; fingerprints are those of the row (`FingerprintsCurrent`) |

Proved and not run, because the run's other properties rest on them: type correctness,
`RefreshExclusive` (one refresh at a time) and `NoStaleForm` (an edit form whose credit is gone changes nothing).

The properties, and most of the invariants that strengthen them, were tried with TLC before they were proved. The theorem
`Invariance` of each module is the induction (`YearsInvariance` and `ImportInvariance` of the modules
that compose others); the rest follow from it.

Five theorems have hypotheses of their own, which the runs' constants meet unless a run is there to
show what happens without them:

* `AnniversariesCharged`: `Timely`, no anniversary is later in its day than a sale of that day, nor than the
  instant computed to. `fund_afternoon` has both, and both anniversaries are missed.
* `ReportsStandAlways`, `DeemedTaxOnlyAdvances`: nothing is traded on the afternoon of a 31
  December. The second also needs the years reported to be all those the dates fall in.
* `NeverInvents`: no window cuts an order of a Degiro Transactions export in two (`OrdersUncut`).
* `UnitsAlwaysAgree`: `NamesDiffer`, no instrument goes by another's name or symbol; and `AddsUp`, of every
  account: it is exported in one layout, no window cuts an order, no two of its transactions are alike in all that
  identifies them (they are one by design), the transfers that the Account layout passes over move no units in all, and
  cash rows are told from trades by naming no instrument. Every account of `imports` meets it; those
  of `degiro_layouts` are exported in two layouts, and the units do not agree.

The pages' theorems are of any ledger whose instruments are finitely many, whose
instruments have finitely many credits each and are either matched or not: the assumptions
of YearPages, which the ledger of any database meets.

Sums are sums of finite families (`SumFunction`): units of lots, charges of
disposals, losses of years, gains of holdings. A sum adds a family's members in an order nothing
says anything about, so that any member may be taken out first is a lemma
(`SumWithout`), proved by induction over the finite set the family is indexed by. The
library's induction theorems take an operator and cannot be used here; `SetInduction` takes the
set of the sets for which the claim holds and finds a least one outside it by
the well-foundedness of strict inclusion, `CountUpTo` does the same for numbers. These lemmas stand in each of the modules that add
something up, since there is no other module they could share.

### Model-checked only

* Liveness (`CallReturns` of FxRefresh).
* That no state is a deadlock, which is ENABLED (`instruments`, `migrations`).

Every safety invariant and every action property that a passing run checks is a theorem.

## 5. Where the code and its documentation disagree

1. `fund_future_lots`: ComputeFundTax opens every lot before it walks, and no lot
   is skipped for its date: a sale of more than is held takes units bought later where
   ComputeCGT returns an error. `deemeddisposal.go` calls the function
   a strict superset of ComputeExitTax.
2. `fund_afternoon`: the walk compares instants, and an anniversary keeps its lot's time of day. A lot
   bought in the afternoon and sold on the morning of its anniversary leaves without the
   charge, though "a deemed disposal comes before a same-day sale"; one bought on the afternoon of
   31 December is not charged in the walk to that day, since a year is computed to its midnight, and the
   next year's walk charges it under the old date. `valuations.go` says an anniversary "is a date, not an instant".
3. `report_interest`: the report of a year passes an unclassified holding before it
   comes to its interest, and a savings account is one to it: its DIRT is in no
   line of the report. SPEC.md says a savings account never becomes an unclassified holding.
4. `degiro_layouts`: an order filled in two parts is one transaction in the
   Transactions export and two in the Account export; importing both counts it
   twice. An order of a single fill can differ too: the Account export's price is the settled amount divided by the quantity, the other's is the
   one printed. The comment on `Fingerprint` says that the same event from different
   exports has the same fingerprint.

Met on the way, and not run as violations:

* A cached rate file that was cut short and still ends later than the embedded one is taken, and replaces the whole of
  it: days the binary has are refused if the file begins after them, and the last rate left can lack its last
  digits. `refresh.go` says of a corrupt cache file that "embedded data still works", which holds only of one that does not parse.
  `SettledRatesStand` says exactly which dates suffer, until when, and that no others do.
* A Down beside another process may reverse a version that is no longer the latest. The next Up makes the record good, but not
  always the file: where 0001 is reversed beside an Up that has applied 0004, the table goes with 0004's column,
  0004 stays recorded, and a server starts on a table without the column (`LostForGood` in `SchemaAsRecorded` and `UpMissesNothing`).
* An Up fails for good once a bank's credit was entered while migration 7 was reversed (`UpCanFinish` excludes it).
* The report takes a holding's interest for a trade it cannot match (`PagesAgree` excludes it).
* A Degiro order exported after its first part and again whole is in the ledger as its part and as its whole (`Uncut` excludes it).

## 6. Not modelled, and why

* Decimal precision: sums and products are exact in the code. Where it divides or rounds before it keeps
  something, the models have it: a netted order's price (`netOrder`, rounded to four places), the Account layout's
  (`parseAccountRow`, settled amount by quantity) are whole-number divisions, and DIRT is rounded to whole euro. A
  lot's unit cost and the tax per unit divide at sixteen digits; the models take them as exact.
* The text of cells, dates and names, platform detection, HTML, charts, flags and
  start-up: formatting, without state. A file laid out in an unknown way is refused
  before any row and is left out.
* The portfolio page: a read that joins the open position (LotMatching), a price
  (PriceCache) and a rate (FxRefresh); it keeps nothing.
* `taxman validate`, which runs the engine over the repository's fixtures and compares
  JSON, and the documentation generator: no state.
* Tax-rate lookups that fail for dates before the first rate.
* The audit trail is only appended to and never read to decide anything.
* Exit tax without deemed disposals (`exittax.go`) is LotMatching and a sum, and neither page calls it.
* A migration script that is missing or ill-named: an error at start.
* Overlapping requests that re-point one alias: the later one wins, and nothing
  in the code promises otherwise; a note in `hazards` says so.
* Valuations entered under an alias before a merge: no doc says what should happen.

## 7. Plan

Written, in this order: matching and its refinement; fund tax, its years
and its schedule; the CGT year; FX; prices; the ledger with Degiro; instruments;
the proofs of each but prices; migrations with their proofs; the pages of a year; the
other brokers' exports; the proofs about prices, the pages, the sums, the anniversaries
and the refinement of the queue; those about the years of a fund, its schedule and the imports.

What could follow:

1. *Orders cut by a window*: what a ledger holds when an order is exported before it is filled; `NeverInvents` and
   `UnitsAlwaysAgree` exclude it by hypothesis.
2. *Valuations and merges*: the fund walk's `Get` through the aliases.
3. *Two lookups of one currency*: `currencyMemo`'s late failure over a success, as in `hazards`.
