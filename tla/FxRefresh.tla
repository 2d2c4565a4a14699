----------------------------- MODULE FxRefresh -----------------------------
(***************************************************************************)
(* Euro reference rates: fx.Rate and the live refresh of the ECB history   *)
(* (internal/fx/fx.go, internal/fx/refresh.go), called by the goroutines   *)
(* of one taxman process.  The process may stop at any step and start      *)
(* again, and shares its cache file with other taxman processes.           *)
(*                                                                         *)
(* A dataset is known by the publication days it spans: the ECB never      *)
(* revises a rate.  Its file lists the newest day first, so a file cut     *)
(* short has lost its oldest days, and the last row it kept may have lost  *)
(* a rate ("missing") or a rate's last digits ("short").  The euro itself, *)
(* answered with 1 before any of this, is left out.                        *)
(***************************************************************************)
EXTENDS Integers

CONSTANTS
  Callers,          (* Goroutines that call Rate.                          *)
  PublicationDays,  (* TARGET business days, as day numbers.               *)
  FirstDay,         (* The first of them: 4 January 1999.                  *)
  EmbeddedLast,     (* The last day in the binary's own file.              *)
  Currencies,       (* What callers ask about.                             *)
  Known,            (* The currencies in the file's header.                *)
  RatedDays,        (* RatedDays[cur]: the days the ECB had a rate for it. *)
  Dates,            (* Transaction dates asked about.                      *)
  maxLookback, staleGrace,
  Free              (* refreshMu when nobody holds it.                     *)

ASSUME DaysAssumption ==
  /\ PublicationDays \subseteq Nat /\ Dates \subseteq Nat
  /\ FirstDay \in PublicationDays /\ EmbeddedLast \in PublicationDays
  /\ \A d \in PublicationDays : FirstDay <= d
ASSUME CurrencyAssumption == Known \subseteq Currencies /\ RatedDays \in [Known -> SUBSET PublicationDays]
ASSUME SpanAssumption     == maxLookback \in Nat /\ staleGrace \in Nat
ASSUME LockAssumption     == Free \notin Callers

Dataset == [first : PublicationDays, last : PublicationDays, oldest : {"whole", "missing", "short"}]

Full(last) == [first |-> FirstDay, last |-> last, oldest |-> "whole"]
Embedded   == Full(EmbeddedLast)

(* A cache file that is absent, or that parseHistCSV rejects. *)
Unusable == [first |-> 0, last |-> 0, oldest |-> "unusable"]

(* What a reader may find while os.WriteFile writes the file out, and what *)
(* a write that fails or dies leaves: nothing usable, or the newest rows.  *)
Partial(last) ==
  {Unusable} \union
  {[first |-> d, last |-> last, oldest |-> cut] :
     d \in {e \in PublicationDays : e <= last}, cut \in {"whole", "missing", "short"}}

Answer == [kind : {"none", "rate", "unknown", "early", "stale", "norate"},
           day : PublicationDays, short : BOOLEAN]

Failure(kind)   == [kind |-> kind, day |-> FirstDay, short |-> FALSE]
Quoted(d, short) == [kind |-> "rate", day |-> d, short |-> short]

NoCall == Failure("none")

----------------------------------------------------------------------------
(* The lookups, over one snapshot of the data.                             *)

Stale(d, day) == day > d.last + staleGrace

(* Mutant: the search stops at the first day in reach. *)
Oldest(days) == {u \in days : \A v \in days : u <= v}

Newest(days) == {u \in days : \A v \in days : v <= u}

(* Mutant: no limit to how far a lookup reaches back. *)
LookupAnyAge(d, cur, day) ==
  LET near == {u \in RatedDays[cur] : d.first <= u /\ u <= day /\ u <= d.last}
  IN IF near = {} THEN {Failure("norate")} ELSE {Quoted(u, FALSE) : u \in Newest(near)}

(* The newest rate on or before the date, clamped to the data's last day,  *)
(* at most maxLookback before it: a set of the one answer there is.        *)
Lookup(d, cur, day) ==
  LET goal == IF day > d.last THEN d.last ELSE day
      near == {u \in RatedDays[cur] : /\ d.first <= u /\ goal - maxLookback <= u /\ u <= goal
                                      /\ ~ (u = d.first /\ d.oldest = "missing")}
  IN IF near = {} THEN {Failure("norate")}
     ELSE {Quoted(u, u = d.first /\ d.oldest = "short") : u \in Newest(near)}

(* Mutant: any readable file is taken. *)
LoadedAnyAge(f) == IF f.oldest = "unusable" THEN Embedded ELSE f

(* loadEmbedded: a cached refresh is taken only if newer than the binary.  *)
Loaded(f) == IF f.oldest # "unusable" /\ f.last > EmbeddedLast THEN f ELSE Embedded

----------------------------------------------------------------------------

VARIABLES
  published,  (* The last day the ECB has published.                       *)
  file,       (* The cache file.                                           *)
  up,         (* Whether the process runs.                                 *)
  offline,    (* TAXMAN_FX_OFFLINE is set for it.                          *)
  found,      (* History: the cache file as the process found it.          *)
  data,       (* The active dataset, swapped whole.                        *)
  lock,       (* refreshMu: its holder, or Free.                           *)
  cooling,    (* Less than refreshCooldown since lastAttempt.              *)
  pc,         (* Where each caller is in Rate and tryLiveRefresh.          *)
  asked,      (* The currency and date of each caller's call under way.    *)
  answer      (* What it is about to return.                               *)

process == <<up, offline, found>>
vars    == <<published, file, up, offline, found, data, lock, cooling, pc, asked, answer>>

Goto(c, label) == pc' = [pc EXCEPT ![c] = label]

Finish(c, result) == Goto(c, "done") /\ answer' = [answer EXCEPT ![c] = result]

Init ==
  /\ published = EmbeddedLast
  /\ file = Unusable
  /\ up = TRUE /\ offline \in BOOLEAN /\ found = Unusable
  /\ data = Embedded
  /\ lock = Free /\ cooling = FALSE
  /\ pc = [c \in Callers |-> "idle"]
  /\ asked = [c \in Callers |-> << >>]
  /\ answer = [c \in Callers |-> NoCall]

(* Rate up to the first check for staleness, over the snapshot it takes.   *)
Begin(c) ==
  /\ up /\ pc[c] = "idle"
  /\ \E cur \in Currencies, day \in Dates :
       /\ asked' = [asked EXCEPT ![c] = <<cur, day>>]
       /\ IF cur \notin Known       THEN Finish(c, Failure("unknown"))
          ELSE IF day < data.first  THEN Finish(c, Failure("early"))
          ELSE IF Stale(data, day)  THEN Goto(c, "refresh") /\ UNCHANGED answer
          ELSE \E result \in Lookup(data, cur, day) : Finish(c, result)
  /\ UNCHANGED <<published, file, process, data, lock, cooling>>

(* tryLiveRefresh returns false at once, or once it has the lock: the      *)
(* caller keeps the snapshot it found stale.                               *)
NoAttempt(c) ==
  /\ pc[c] = "refresh"
  /\ offline \/ (lock = Free /\ cooling)
  /\ Finish(c, Failure("stale"))
  /\ UNCHANGED <<published, file, process, data, lock, cooling, asked>>

StartFetch(c) ==
  /\ pc[c] = "refresh" /\ ~ offline
  /\ lock = Free /\ ~ cooling
  /\ lock' = c /\ cooling' = TRUE
  /\ Goto(c, "fetch")
  /\ UNCHANGED <<published, file, process, data, asked, answer>>

(* The download fails, times out or does not parse. *)
FetchFails(c) ==
  /\ pc[c] = "fetch"
  /\ lock' = Free
  /\ Finish(c, Failure("stale"))
  /\ UNCHANGED <<published, file, process, data, cooling, asked>>

(* Mutants: what was fetched is taken whatever its age; the lock is kept   *)
(* when it is not taken.                                                   *)
TakeAnyDownload(c) ==
  /\ pc[c] = "fetch"
  /\ \E last \in PublicationDays : last <= published /\ data' = Full(last)
  /\ Goto(c, "persist")
  /\ UNCHANGED <<published, file, process, lock, cooling, asked, answer>>
KeepLockOnOldDownload(c) ==
  /\ pc[c] = "fetch"
  /\ \E last \in PublicationDays :
       /\ last <= published
       /\ IF last > data.last
          THEN Goto(c, "persist") /\ data' = Full(last) /\ UNCHANGED answer
          ELSE Finish(c, Failure("stale")) /\ UNCHANGED data
  /\ UNCHANGED <<published, file, process, lock, cooling, asked>>

(* A history arrives, of some day up to the ECB's last (it may have been   *)
(* published while the answer was on its way), and replaces the data if it *)
(* is newer.                                                               *)
FetchReturns(c) ==
  /\ pc[c] = "fetch"
  /\ \E last \in PublicationDays :
       /\ last <= published
       /\ IF last > data.last
          THEN Goto(c, "persist") /\ data' = Full(last) /\ UNCHANGED <<answer, lock>>
          ELSE Finish(c, Failure("stale")) /\ lock' = Free /\ UNCHANGED data
  /\ UNCHANGED <<published, file, process, cooling, asked>>

(* persistCache, best effort: no cache directory, a write that ends, or    *)
(* one that fails part way.  Then tryLiveRefresh returns true.             *)
PersistSkipped(c) ==
  /\ pc[c] = "persist"
  /\ lock' = Free /\ Goto(c, "reread")
  /\ UNCHANGED <<published, file, process, data, cooling, asked, answer>>

BeginWrite(c) ==
  /\ pc[c] = "persist"
  /\ file' \in Partial(data.last)
  /\ Goto(c, "write")
  /\ UNCHANGED <<published, process, data, lock, cooling, asked, answer>>

EndWrite(c) ==
  /\ pc[c] = "write"
  /\ file' = data \/ UNCHANGED file
  /\ lock' = Free /\ Goto(c, "reread")
  /\ UNCHANGED <<published, process, data, cooling, asked, answer>>

(* Rate's second look at the data, after a refresh. *)
Reread(c) ==
  /\ pc[c] = "reread"
  /\ LET cur == asked[c][1]
         day == asked[c][2]
     IN IF Stale(data, day) THEN Finish(c, Failure("stale"))
        ELSE \E result \in Lookup(data, cur, day) : Finish(c, result)
  /\ UNCHANGED <<published, file, process, data, lock, cooling, asked>>

Return(c) ==
  /\ pc[c] = "done" /\ Goto(c, "idle")
  /\ asked' = [asked EXCEPT ![c] = << >>] /\ answer' = [answer EXCEPT ![c] = NoCall]
  /\ UNCHANGED <<published, file, process, data, lock, cooling>>

Step(c) ==
  \/ NoAttempt(c) \/ StartFetch(c) \/ FetchFails(c) \/ FetchReturns(c)
  \/ PersistSkipped(c) \/ BeginWrite(c) \/ EndWrite(c) \/ Reread(c)

(* The surroundings.  A fetch gives up after 30 seconds, so the minute of  *)
(* cooldown never ends during one.                                         *)
CooldownEnds ==
  /\ cooling /\ \A c \in Callers : pc[c] # "fetch"
  /\ cooling' = FALSE
  /\ UNCHANGED <<published, file, process, data, lock, pc, asked, answer>>

Publish ==
  /\ \E d \in PublicationDays :
       /\ d > published /\ \A e \in PublicationDays : e > published => d <= e
       /\ published' = d
  /\ UNCHANGED <<file, process, data, lock, cooling, pc, asked, answer>>

(* Another process, perhaps of another version of the program, writes the  *)
(* cache.  This one reads it only on starting, so writes made before then  *)
(* are enough.                                                             *)
OtherProcessWrites ==
  /\ ~ up
  /\ \E last \in PublicationDays :
       last <= published /\ file' \in Partial(last) \union {Full(last)}
  /\ UNCHANGED <<published, process, data, lock, cooling, pc, asked, answer>>

Stop ==
  /\ up /\ up' = FALSE
  /\ pc' = [c \in Callers |-> "idle"]
  /\ asked' = [c \in Callers |-> << >>]
  /\ answer' = [c \in Callers |-> NoCall]
  /\ lock' = Free /\ cooling' = FALSE
  /\ UNCHANGED <<published, file, offline, found, data>>

(* The data is loaded at the first lookup; nothing reads it earlier. *)
Start ==
  /\ ~ up /\ up' = TRUE /\ offline' \in BOOLEAN
  /\ data' = Loaded(file) /\ found' = file
  /\ UNCHANGED <<published, file, lock, cooling, pc, asked, answer>>

Next ==
  \/ \E c \in Callers : Begin(c) \/ Step(c) \/ Return(c)
  \/ CooldownEnds \/ Publish \/ OtherProcessWrites \/ Stop \/ Start

(* A call under way goes on: the fetch has a timeout, and sync.Mutex hands *)
(* itself to a goroutine that has waited a millisecond.                    *)
Fairness ==
  \A c \in Callers : /\ WF_vars(Step(c))
                     /\ SF_vars(StartFetch(c) \/ NoAttempt(c))

Spec == Init /\ [][Next]_vars /\ Fairness

----------------------------------------------------------------------------

TypeOK ==
  /\ published \in PublicationDays
  /\ file \in Dataset \union {Unusable} /\ found \in Dataset \union {Unusable}
  /\ up \in BOOLEAN /\ offline \in BOOLEAN /\ cooling \in BOOLEAN
  /\ data \in Dataset
  /\ lock \in Callers \union {Free}
  /\ pc \in [Callers -> {"idle", "refresh", "fetch", "persist", "write", "reread", "done"}]
  /\ asked \in [Callers -> (Currencies \X Dates) \union {<< >>}]
  /\ answer \in [Callers -> Answer]

(***************************************************************************)
(* One refresh at a time: from its decision to fetch until the cache file  *)
(* is written, no other goroutine fetches, swaps or writes (refreshMu held *)
(* by tryLiveRefresh to its end).                                          *)
(***************************************************************************)
OneRefreshAtATime ==
  \A b, c \in Callers :
    /\ pc[b] \in {"fetch", "persist", "write"}
    /\ pc[c] \in {"fetch", "persist", "write"}
    => b = c

(***************************************************************************)
(* "Newer data only" (docs/adr/0002): while the process runs its data is   *)
(* replaced only by the whole history up to a later day.                   *)
(***************************************************************************)
NewerAndWhole == up /\ up' /\ data' # data => data'.last > data.last /\ data' = Full(data'.last)

DataOnlyNewer == [][NewerAndWhole]_vars

(***************************************************************************)
(* What the active data can lack.  It never ends before the binary's own,  *)
(* whatever version of the program left the cache (the lastDate test of    *)
(* loadEmbedded), and if it is not the whole history it is a cache file    *)
(* that ends later than the binary's and was cut short: such a file may    *)
(* BEGIN after days the binary has, and replaces them until a refresh or   *)
(* the next start.                                                         *)
(***************************************************************************)
LacksOnlyWhatItsFileLacks ==
  \/ data = Full(data.last) /\ data.last >= EmbeddedLast
  \/ data = found /\ found.last > EmbeddedLast

(***************************************************************************)
(* "An error, not a silent reach back to a months-old rate" (maxLookback,  *)
(* staleGrace): a rate answered is the currency's own, of the date or the  *)
(* few days before it, whatever refresh came between.                      *)
(***************************************************************************)
CloseToItsDate ==
  \A c \in Callers : answer[c].kind = "rate" =>
    LET cur == asked[c][1]
        day == asked[c][2]
    IN /\ answer[c].day \in RatedDays[cur]
       /\ answer[c].day <= day /\ day <= answer[c].day + maxLookback + staleGrace

(***************************************************************************)
(* Every call returns, though refreshes queue on one lock.                 *)
(***************************************************************************)
CallReturns ==
  \A c \in Callers : pc[c] # "idle" ~> pc[c] \in {"idle", "done"}

(* The day whose rate a date has by the binary's own file, if it has one.  *)
RightDay(cur, day) ==
  {u \in RatedDays[cur] : /\ day - maxLookback <= u /\ u <= day
                          /\ \A v \in RatedDays[cur] : v <= day => v <= u}

AsEmbedded(a, cur, day) ==
  \/ cur \notin Known /\ a.kind = "unknown"
  \/ cur \in Known /\ day < FirstDay /\ a.kind = "early"
  \/ cur \in Known /\ FirstDay <= day /\ RightDay(cur, day) = {} /\ a.kind = "norate"
  \/ cur \in Known /\ FirstDay <= day /\ \E u \in RightDay(cur, day) : a = Quoted(u, FALSE)

(* What a file cut short, newer than the binary's, makes of that answer.   *)
LostWithItsFile(a, cur, day) ==
  /\ cur \in Known /\ found.last > EmbeddedLast
  /\ \/ a.kind = "early" /\ day < found.first
     \/ \E u \in RightDay(cur, day) :
          \/ a.kind = "norate" /\ (u < found.first \/ (u = found.first /\ found.oldest = "missing"))
          \/ a = Quoted(u, TRUE) /\ u = found.first /\ found.oldest = "short"

(***************************************************************************)
(* "Determinism of the tax figure is preserved" (docs/adr/0002), for the   *)
(* dates it can hold for: those the binary's own data covers.  Such a date *)
(* is answered as the binary alone answers it, rate or failure, whatever   *)
(* refreshes and restarts came between, but for one case: the process      *)
(* found a cache file that ends later than the binary's and was cut short  *)
(* at or after the day the rate is of.  Then the date is refused, or its   *)
(* rate has lost digits; it is never the rate of another day.  In that     *)
(* case "embedded data still works" (refresh.go:172), which the code keeps *)
(* for a file that does not parse, does not hold.                          *)
(***************************************************************************)
SettledRatesStand ==
  \A c \in Callers :
    LET cur == asked[c][1]
        day == asked[c][2]
    IN answer[c].kind # "none" /\ day <= EmbeddedLast =>
         AsEmbedded(answer[c], cur, day) \/ LostWithItsFile(answer[c], cur, day)

=============================================================================
