----------------------------- MODULE Instruments -----------------------------
(***************************************************************************)
(* Which holding a transaction belongs to and how that holding is taxed:   *)
(* the aliases of internal/aliases, the classifications of                 *)
(* internal/classify, the market symbols of internal/tickers, and the      *)
(* requests of internal/web that write them.                               *)
(*                                                                         *)
(* A request reads and writes the tables in several statements; requests   *)
(* run at the same time.  aliases.Merge is one step, because its reads and *)
(* its write are one SQLite transaction.  A symbol stands for all its      *)
(* spellings in upper and lower case.                                      *)
(***************************************************************************)
EXTENDS Integers, FiniteSets

CONSTANTS
  Requests,         (* What can be in progress at the same time.           *)
  Keys,             (* Instruments as the exports name them.               *)
  Held,             (* Those with transactions.                            *)
  Symbols,          (* Market symbols.                                     *)
  Classifications,  (* CGT_ASSET and EXIT_TAX_FUND.                        *)
  None              (* No entry in a table.                                *)

ASSUME KeyAssumption  == Held \subseteq Keys
ASSUME NoneAssumption == None \notin Keys \union Symbols \union Classifications

VARIABLES
  aliasOf,   (* instrument_aliases.                                        *)
  symbolOf,  (* instrument_tickers.                                        *)
  classOf,   (* holding_classifications.                                   *)
  request,   (* How far each request is, with what it has read.            *)
  seen       (* "overlap": two requests ran at once; "apart": a request    *)
             (* was refused or failed, or a merge was undone.              *)

vars == <<aliasOf, symbolOf, classOf, request, seen>>

Idle    == [at : {"idle"}]
Mapped  == [at : {"mapped"}, instrument : Keys, symbol : Symbols]
Matched == [at : {"matched"}, instrument : Keys, others : SUBSET Keys]
Merging == [at : {"merging"}, alias : Keys, canonical : Keys, bySymbol : BOOLEAN]

(* What the tables and the requests hold. *)
TypeOK ==
  /\ aliasOf  \in [Keys -> Keys \union {None}]
  /\ symbolOf \in [Keys -> Symbols \union {None}]
  /\ classOf  \in [Keys -> Classifications \union {None}]
  /\ request  \in [Requests -> Idle \union Mapped \union Matched \union Merging]
  /\ seen \subseteq {"overlap", "apart"}

----------------------------------------------------------------------------

(* The key that the ledger reads a key's transactions under. *)
Resolve(key) == IF aliasOf[key] = None THEN key ELSE aliasOf[key]

HasAliases(key) == \E k \in Keys : aliasOf[k] = key

(* The keys that All lists. *)
Known == {Resolve(key) : key \in Held}

(* How Compute taxes a key's transactions; None blocks the holding. *)
Treatment(key) == classOf[Resolve(key)]

Init ==
  /\ aliasOf  = [k \in Keys |-> None]
  /\ symbolOf = [k \in Keys |-> None]
  /\ classOf  = [k \in Keys |-> None]
  /\ request  = [r \in Requests |-> [at |-> "idle"]]
  /\ seen = {}

Goto(r, to) == request' = [request EXCEPT ![r] = to]

Answer(r) == Goto(r, [at |-> "idle"])

(* An idle request begins: does it overlap with another? *)
Begins(r, marks) ==
  /\ request[r].at = "idle"
  /\ seen' = seen \union marks \union
       (IF \E other \in Requests : request[other].at # "idle" THEN {"overlap"} ELSE {})

----------------------------------------------------------------------------
(* The requests of one statement. *)

handleClassify(r, key, class) ==
  /\ Begins(r, {})
  /\ classOf' = [classOf EXCEPT ![key] = class]
  /\ UNCHANGED <<aliasOf, symbolOf, request>>

handlePortfolioUnmerge(r, key) ==
  /\ Begins(r, {"apart"})
  /\ aliasOf' = [aliasOf EXCEPT ![key] = None]
  /\ UNCHANGED <<symbolOf, classOf, request>>

----------------------------------------------------------------------------
(* POST /portfolio/ticker. *)

Upsert(r, key, symbol) ==
  /\ Begins(r, {})
  /\ symbolOf' = [symbolOf EXCEPT ![key] = symbol]
  /\ Goto(r, [at |-> "mapped", instrument |-> key, symbol |-> symbol])
  /\ UNCHANGED <<aliasOf, classOf>>

ReadMappings(r) ==
  /\ request[r].at = "mapped"
  /\ Goto(r, [at |-> "matched", instrument |-> request[r].instrument,
              others |-> {k \in Keys \ {request[r].instrument} : symbolOf[k] = request[r].symbol}])
  /\ UNCHANGED <<aliasOf, symbolOf, classOf, seen>>

(* Mutant: another key with the symbol counts only under its own name. *)
ApartByName(r) ==
  {k \in request[r].others : aliasOf[k] = None /\ k # Resolve(request[r].instrument)}

(* Those that are in another holding. *)
Apart(r) == {k \in request[r].others : Resolve(k) # Resolve(request[r].instrument)}

NothingToMerge(r) ==
  /\ request[r].at = "matched"
  /\ Apart(r) = {}
  /\ Answer(r)
  /\ UNCHANGED <<aliasOf, symbolOf, classOf, seen>>

(* Mutant: the holding that had the symbol is always the one kept. *)
KeepTheirs(mine, theirs) == <<mine, theirs>>

(* The alias and the canonical key: the holding that had the symbol is     *)
(* kept, unless only the other one has merges.                             *)
Direction(mine, theirs) ==
  IF HasAliases(mine) /\ ~ HasAliases(theirs) THEN <<theirs, mine>> ELSE <<mine, theirs>>

(* A Go map has no order: any of those apart can come first. *)
mergeBySymbol(r) ==
  /\ request[r].at = "matched"
  /\ \E other \in Apart(r) :
       LET pair == Direction(Resolve(request[r].instrument), Resolve(other)) IN
       Goto(r, [at |-> "merging", alias |-> pair[1], canonical |-> pair[2], bySymbol |-> TRUE])
  /\ UNCHANGED <<aliasOf, symbolOf, classOf, seen>>

----------------------------------------------------------------------------
(* POST /portfolio/merge. *)

handlePortfolioMerge(r, alias, canonical) ==
  /\ Begins(r, {})
  /\ {alias, canonical} \subseteq Known
  /\ Goto(r, [at |-> "merging", alias |-> alias, canonical |-> canonical, bySymbol |-> FALSE])
  /\ UNCHANGED <<aliasOf, symbolOf, classOf>>

----------------------------------------------------------------------------
(* aliases.Merge. *)

(* Mutant: the alias's own merges are not looked at. *)
CanonicalIsAlias(alias, canonical) == aliasOf[canonical] # None

Chain(alias, canonical) == aliasOf[canonical] # None \/ HasAliases(alias)

(* Mutant: an unclassified canonical key is as good as an equal one. *)
BothClassified(alias, canonical) ==
  classOf[canonical] # None /\ classOf[alias] # None /\ classOf[alias] # classOf[canonical]

Disagree(alias, canonical) == classOf[alias] # None /\ classOf[alias] # classOf[canonical]

Refuses(alias, canonical) ==
  alias = canonical \/ Chain(alias, canonical) \/ Disagree(alias, canonical)

(* An alias that has a canonical key already is given the new one. *)
Merge(r) ==
  /\ request[r].at = "merging"
  /\ ~ Refuses(request[r].alias, request[r].canonical)
  /\ aliasOf' = [aliasOf EXCEPT ![request[r].alias] = request[r].canonical]
  /\ Answer(r)
  /\ UNCHANGED <<symbolOf, classOf, seen>>

(* Either answer is an error page; a saved symbol stays. *)
MergeRefused(r) ==
  /\ request[r].at = "merging"
  /\ Refuses(request[r].alias, request[r].canonical)
  /\ Answer(r)
  /\ seen' = seen \union {"apart"}
  /\ UNCHANGED <<aliasOf, symbolOf, classOf>>

StatementFails(r) ==
  /\ request[r].at # "idle"
  /\ Answer(r)
  /\ seen' = seen \union {"apart"}
  /\ UNCHANGED <<aliasOf, symbolOf, classOf>>

----------------------------------------------------------------------------

Step(r) ==
  \/ \E key \in Keys, class \in Classifications : handleClassify(r, key, class)
  \/ \E key \in Keys : handlePortfolioUnmerge(r, key)
  \/ \E key \in Keys, symbol \in Symbols : Upsert(r, key, symbol)
  \/ ReadMappings(r)
  \/ NothingToMerge(r)
  \/ mergeBySymbol(r)
  \/ \E alias, canonical \in Keys : handlePortfolioMerge(r, alias, canonical)
  \/ Merge(r)
  \/ MergeRefused(r)
  \/ StatementFails(r)

Next == \E r \in Requests : Step(r)

Spec == Init /\ [][Next]_vars

----------------------------------------------------------------------------

(***************************************************************************)
(* A canonical key is "never itself an alias" (migration 0009), whatever   *)
(* the requests in progress had read before: All follows one entry only.   *)
(***************************************************************************)
NoChains == \A k \in Keys : aliasOf[k] # None => aliasOf[aliasOf[k]] = None

(***************************************************************************)
(* A merge "silently takes" no classification (the comment on Merge):      *)
(* unless requests overlapped, it changes how no transaction that is taxed *)
(* at all is taxed, whatever was merged, undone and reclassified before.   *)
(***************************************************************************)
MergeStep == \E k \in Keys : aliasOf'[k] \notin {aliasOf[k], None}

MergeKeepsTreatment ==
  [][MergeStep /\ "overlap" \notin seen =>
       \A k \in Keys : Treatment(k) # None => Treatment(k)' = Treatment(k)]_vars

(***************************************************************************)
(* A symbol that two holdings carry is refused as a chain only where both  *)
(* of them have merges of their own (SPEC.md, section 17: "unless the      *)
(* newly mapped one already has merges of its own").                       *)
(***************************************************************************)
ChainsOnlyGroups ==
  \A r \in Requests :
    request[r].at = "merging" /\ "overlap" \notin seen =>
      (request[r].bySymbol /\ Chain(request[r].alias, request[r].canonical) =>
         HasAliases(request[r].alias) /\ HasAliases(request[r].canonical))

(***************************************************************************)
(* Every two keys the user has mapped to one symbol are one holding, when  *)
(* no request is in progress, none was refused, failed or overlapped with  *)
(* another, and no merge was undone: mergeBySymbol, which stops at its     *)
(* first merge, never leaves a third key behind.                           *)
(***************************************************************************)
SameSymbolSameHolding ==
  seen = {} /\ (\A r \in Requests : request[r].at = "idle") =>
    \A a, b \in Keys : symbolOf[a] # None /\ symbolOf[a] = symbolOf[b] => Resolve(a) = Resolve(b)

=============================================================================
