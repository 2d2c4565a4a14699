----------------------------- MODULE PriceCache -----------------------------
(***************************************************************************)
(* Market prices: HTTPQuoter.Quote of internal/prices/http.go, called by   *)
(* the web server's request goroutines, with its in-process cache, its     *)
(* memory of listing currencies, and the durable price_quotes row of       *)
(* internal/prices/cache.go, over restarts of the process.                 *)
(*                                                                         *)
(* One symbol stands for all: every map and row is keyed by symbol.  A     *)
(* price is known by the times it is stamped with and was really obtained, *)
(* and by whether it came with its listing's currency.                     *)
(***************************************************************************)
EXTENDS Integers

CONSTANTS
  Callers,    (* Goroutines that call Quote.                               *)
  ttl,        (* defaultTTL, in ticks of the clock.                        *)
  MaxClock,   (* Bound: the last tick.                                     *)
  None        (* No price, no currency looked up.                          *)

ASSUME TTLAssumption   == ttl \in Nat \ {0}
ASSUME ClockAssumption == MaxClock \in Nat

Price == [asOf : Nat, got : Nat, currency : BOOLEAN]

ASSUME NoneAssumption == None \notin Price /\ None \notin BOOLEAN

VARIABLES
  clock,
  token,      (* Whether this process has a Finnhub token.                 *)
  cache,      (* The in-process entry, or None.                            *)
  memo,       (* currencyCache: None until looked up, TRUE if it is known. *)
  row,        (* The durable row, or None.                                 *)
  pc,         (* Where each caller is in Quote.                            *)
  started,    (* Its "now".                                                *)
  entry,      (* The entry it has as a fallback, or None.                  *)
  quote,      (* The price it has fetched, or None.                        *)
  answer,     (* What it returns.                                          *)
  known,      (* History: a price was remembered when the call began.      *)
  loadFailed  (* History: the durable row could not be read.               *)

call == <<started, known>>
vars == <<clock, token, cache, memo, row, pc, started, entry, quote, answer, known, loadFailed>>

Answer == [kind : {"none", "live", "stale", "error"}, price : Price \union {None}]

Live(p)  == [kind |-> "live",  price |-> p]
Stale(p) == [kind |-> "stale", price |-> p]
NoAnswer == [kind |-> "none",  price |-> None]
Error    == [kind |-> "error", price |-> None]

Set(f, c, v) == [f EXCEPT ![c] = v]

Goto(c, label)    == pc' = Set(pc, c, label)
Finish(c, result) == Goto(c, "done") /\ answer' = Set(answer, c, result)

Fresh(p, now) == now - p.asOf < ttl

(* Whom the chain of providers asks first. *)
FirstProvider == IF token THEN "finnhub" ELSE "yahoo"

Init ==
  /\ clock = 0 /\ token \in BOOLEAN
  /\ cache = None /\ memo = None /\ row = None
  /\ pc      = [c \in Callers |-> "idle"]
  /\ started = [c \in Callers |-> 0]
  /\ entry   = [c \in Callers |-> None]
  /\ quote   = [c \in Callers |-> None]
  /\ answer  = [c \in Callers |-> NoAnswer]
  /\ known   = [c \in Callers |-> FALSE]
  /\ loadFailed = [c \in Callers |-> FALSE]

----------------------------------------------------------------------------

(* Mutant: an entry as old as the TTL and older is served as live. *)
BeginWithoutTTL(c) ==
  /\ pc[c] = "idle"
  /\ started' = Set(started, c, clock)
  /\ known'   = Set(known, c, cache # None \/ row # None)
  /\ entry'   = Set(entry, c, cache)
  /\ IF cache # None THEN Finish(c, Live(cache)) ELSE Goto(c, "load") /\ UNCHANGED answer
  /\ UNCHANGED <<clock, token, cache, memo, row, quote, loadFailed>>

(* The in-process cache: a live entry is the answer. *)
Begin(c) ==
  /\ pc[c] = "idle"
  /\ started' = Set(started, c, clock)
  /\ known'   = Set(known, c, cache # None \/ row # None)
  /\ entry'   = Set(entry, c, cache)
  /\ IF cache = None             THEN Goto(c, "load") /\ UNCHANGED answer
     ELSE IF Fresh(cache, clock) THEN Finish(c, Live(cache))
     ELSE                             Goto(c, FirstProvider) /\ UNCHANGED answer
  /\ UNCHANGED <<clock, token, cache, memo, row, quote, loadFailed>>

(* On a miss the durable row is read, and put in the cache in a step of    *)
(* its own, for other callers run between the two.                         *)
Load(c) ==
  /\ pc[c] = "load"
  /\ \/ /\ row # None
        /\ entry' = Set(entry, c, row) /\ Goto(c, "seed") /\ UNCHANGED loadFailed
     \/ /\ row = None
        /\ Goto(c, FirstProvider) /\ UNCHANGED <<entry, loadFailed>>
     \/ /\ loadFailed' = Set(loadFailed, c, TRUE)
        /\ Goto(c, FirstProvider) /\ UNCHANGED entry
  /\ UNCHANGED <<clock, token, cache, memo, row, call, quote, answer>>

(* Mutants: the row's time is taken to be now; a row past its TTL is not   *)
(* held as a fallback.                                                     *)
SeedAsOfNow(c) ==
  /\ pc[c] = "seed"
  /\ cache' = [entry[c] EXCEPT !.asOf = started[c]]
  /\ IF Fresh(entry[c], started[c]) THEN Finish(c, Live(entry[c]))
                                    ELSE Goto(c, FirstProvider) /\ UNCHANGED answer
  /\ UNCHANGED <<clock, token, memo, row, call, entry, quote, loadFailed>>
SeedFreshOnly(c) ==
  /\ pc[c] = "seed"
  /\ IF Fresh(entry[c], started[c])
     THEN cache' = entry[c] /\ Finish(c, Live(entry[c])) /\ UNCHANGED entry
     ELSE Goto(c, FirstProvider) /\ entry' = Set(entry, c, None) /\ UNCHANGED <<cache, answer>>
  /\ UNCHANGED <<clock, token, memo, row, call, quote, loadFailed>>

Seed(c) ==
  /\ pc[c] = "seed"
  /\ cache' = entry[c]
  /\ IF Fresh(entry[c], started[c]) THEN Finish(c, Live(entry[c]))
                                    ELSE Goto(c, FirstProvider) /\ UNCHANGED answer
  /\ UNCHANGED <<clock, token, memo, row, call, entry, quote, loadFailed>>

Fetched(c, currency) ==
  quote' = Set(quote, c, [asOf |-> started[c], got |-> clock, currency |-> currency])

(* Finnhub prices the symbol, and the currency may be remembered. *)
AskFinnhub(c) ==
  /\ pc[c] = "finnhub"
  /\ \/ Goto(c, "yahoo") /\ UNCHANGED quote
     \/ IF memo = None THEN Fetched(c, FALSE) /\ Goto(c, "profile")
                       ELSE Fetched(c, memo) /\ Goto(c, "remember")
  /\ UNCHANGED <<clock, token, cache, memo, row, call, entry, answer, loadFailed>>

(* finnhubCurrency: the profile tells the currency, or the call fails.     *)
(* Either is remembered.                                                   *)
AskProfile(c) ==
  /\ pc[c] = "profile"
  /\ \E told \in BOOLEAN :
       memo' = told /\ quote' = Set(quote, c, [quote[c] EXCEPT !.currency = told])
  /\ Goto(c, "remember")
  /\ UNCHANGED <<clock, token, cache, row, call, entry, answer, loadFailed>>

(* Mutant: a listing without a price is not skipped. *)
AskYahooUnpriced(c) ==
  /\ pc[c] = "yahoo"
  /\ \/ Goto(c, "stooq") /\ UNCHANGED quote
     \/ Goto(c, "remember") /\ UNCHANGED quote
     \/ \E currency \in BOOLEAN : Fetched(c, currency) /\ Goto(c, "remember")
  /\ UNCHANGED <<clock, token, cache, memo, row, call, entry, answer, loadFailed>>

AskYahoo(c) ==
  /\ pc[c] = "yahoo"
  /\ \/ Goto(c, "stooq") /\ UNCHANGED quote
     \/ \E currency \in BOOLEAN : Fetched(c, currency) /\ Goto(c, "remember")
  /\ UNCHANGED <<clock, token, cache, memo, row, call, entry, answer, loadFailed>>

(* The last provider, which has no currencies.  When it fails too, the     *)
(* fallback is served, marked stale, or there is an error.                 *)
AskStooq(c) ==
  /\ pc[c] = "stooq"
  /\ \/ Fetched(c, FALSE) /\ Goto(c, "remember") /\ UNCHANGED answer
     \/ Finish(c, IF entry[c] = None THEN Error ELSE Stale(entry[c])) /\ UNCHANGED quote
  /\ UNCHANGED <<clock, token, cache, memo, row, call, entry, loadFailed>>

Remember(c) ==
  /\ pc[c] = "remember"
  /\ cache' = quote[c] /\ Goto(c, "store")
  /\ UNCHANGED <<clock, token, memo, row, call, entry, quote, answer, loadFailed>>

(* Written through, best effort. *)
Store(c) ==
  /\ pc[c] = "store"
  /\ row' = quote[c] \/ UNCHANGED row
  /\ Finish(c, Live(quote[c]))
  /\ UNCHANGED <<clock, token, cache, memo, call, entry, quote, loadFailed>>

Return(c) ==
  /\ pc[c] = "done" /\ Goto(c, "idle")
  /\ started' = Set(started, c, 0) /\ known' = Set(known, c, FALSE)
  /\ loadFailed' = Set(loadFailed, c, FALSE)
  /\ entry' = Set(entry, c, None) /\ quote' = Set(quote, c, None)
  /\ answer' = Set(answer, c, NoAnswer)
  /\ UNCHANGED <<clock, token, cache, memo, row>>

(* Time passes while callers wait for the providers. *)
Tick ==
  /\ clock < MaxClock /\ clock' = clock + 1
  /\ UNCHANGED <<token, cache, memo, row, pc, call, entry, quote, answer, loadFailed>>

(* The process stops anywhere and starts again, with the row alone. *)
Restart ==
  /\ token' \in BOOLEAN
  /\ cache' = None /\ memo' = None
  /\ pc'      = [c \in Callers |-> "idle"]
  /\ started' = [c \in Callers |-> 0]
  /\ entry'   = [c \in Callers |-> None]
  /\ quote'   = [c \in Callers |-> None]
  /\ answer'  = [c \in Callers |-> NoAnswer]
  /\ known'   = [c \in Callers |-> FALSE]
  /\ loadFailed' = [c \in Callers |-> FALSE]
  /\ UNCHANGED <<clock, row>>

Next ==
  \/ \E c \in Callers :
       \/ Begin(c) \/ Load(c) \/ Seed(c)
       \/ AskFinnhub(c) \/ AskProfile(c) \/ AskYahoo(c) \/ AskStooq(c)
       \/ Remember(c) \/ Store(c) \/ Return(c)
  \/ Tick \/ Restart

Spec == Init /\ [][Next]_vars

----------------------------------------------------------------------------

TypeOK ==
  /\ clock \in Nat /\ token \in BOOLEAN
  /\ cache \in Price \union {None} /\ row \in Price \union {None}
  /\ memo \in BOOLEAN \union {None}
  /\ pc \in [Callers -> {"idle", "load", "seed", "finnhub", "profile", "yahoo", "stooq",
                         "remember", "store", "done"}]
  /\ started \in [Callers -> Nat]
  /\ entry \in [Callers -> Price \union {None}]
  /\ quote \in [Callers -> Price \union {None}]
  /\ answer \in [Callers -> Answer]
  /\ known \in [Callers -> BOOLEAN] /\ loadFailed \in [Callers -> BOOLEAN]
  /\ \A c \in Callers : /\ pc[c] = "seed" => entry[c] \in Price
                        /\ pc[c] \in {"profile", "remember", "store"} => quote[c] \in Price
                        /\ answer[c].kind \in {"live", "stale"} => answer[c].price \in Price

(***************************************************************************)
(* "An older row is held as the Stale fallback" (Quote): a price that is   *)
(* not marked stale is less than a TTL old by its stamp, whichever of the  *)
(* cache, the row of an earlier process and the providers it came from.    *)
(***************************************************************************)
LiveIsFresh ==
  \A c \in Callers : answer[c].kind = "live" =>
    started[c] - answer[c].price.asOf < ttl

(***************************************************************************)
(* A price is never shown, cached or stored as newer than it is: its stamp *)
(* is not after the moment a provider gave it, over seeding and restarts.  *)
(***************************************************************************)
Honest(p) == p # None => p.asOf <= p.got

AgeNeverUnderstated ==
  /\ Honest(cache) /\ Honest(row)
  /\ \A c \in Callers : Honest(answer[c].price)

(***************************************************************************)
(* "Last-known prices survive a restart" (prices/doc.go): a call that      *)
(* began when a price was cached or stored does not end in an error,       *)
(* unless the row could not be read.                                       *)
(***************************************************************************)
LastKnownServed ==
  \A c \in Callers : answer[c].kind = "error" => ~ known[c] \/ loadFailed[c]

=============================================================================
