-------------------------- MODULE InstrumentsProofs --------------------------
(***************************************************************************)
(* For any number of instruments, symbols and requests at a time: aliases  *)
(* never form a chain; where requests did not overlap a merge changes no   *)
(* tax treatment and only groups are refused as chains; and where nothing  *)
(* went wrong either, the keys of a symbol are one holding.                *)
(***************************************************************************)
EXTENDS Instruments, TLAPS

Quiet == "overlap" \notin seen

(* Without an overlap at most one request is in progress ... *)
OneAtATime ==
  Quiet => \A r, s \in Requests : request[r].at # "idle" /\ request[s].at # "idle" => r = s

(* ... and what it has decided on still fits the tables. *)
FitsTables(q) ==
  q.at = "merging" =>
    /\ aliasOf[q.alias] = None
    /\ aliasOf[q.canonical] = None
    /\ q.bySymbol => (HasAliases(q.alias) => HasAliases(q.canonical))

Current == Quiet => \A r \in Requests : FitsTables(request[r])

(* What a request has read of the symbols is so still ...                  *)
StillRead(q) ==
  /\ q.at = "mapped" => symbolOf[q.instrument] = q.symbol
  /\ q.at = "matched" =>
       q.others = {k \in Keys \ {q.instrument} : symbolOf[k] = symbolOf[q.instrument]}

SymbolsRead == seen = {} => \A r \in Requests : StillRead(request[r])

(* ... and two keys with a symbol are apart only while a request is there  *)
(* to join them.                                                           *)
ToBeJoined(q, a, b) ==
  \/ q.at \in {"mapped", "matched"} /\ q.instrument \in {a, b}
  \/ q.at = "merging" /\ q.bySymbol /\ {Resolve(a), Resolve(b)} = {q.alias, q.canonical}

SameSymbol(a, b) == symbolOf[a] # None /\ symbolOf[a] = symbolOf[b]

SymbolsJoined ==
  seen = {} =>
    \A a, b \in Keys : SameSymbol(a, b) =>
      Resolve(a) = Resolve(b) \/ \E r \in Requests : ToBeJoined(request[r], a, b)

IInv == TypeOK /\ NoChains /\ OneAtATime /\ Current /\ SymbolsRead /\ SymbolsJoined

----------------------------------------------------------------------------

(* The key that transactions are read under is nobody's alias. *)
LEMMA ResolvedIsCanonical ==
  ASSUME TypeOK, NoChains, NEW key \in Keys
  PROVE  Resolve(key) \in Keys /\ aliasOf[Resolve(key)] = None
BY DEF TypeOK, NoChains, Resolve

(* Whichever way a symbol merges two holdings, the one that goes has       *)
(* merges of its own only if the one that stays has.                       *)
LEMMA DirectionFits ==
  ASSUME NEW mine, NEW theirs
  PROVE  LET pair == Direction(mine, theirs) IN
           /\ pair \in {<<mine, theirs>>, <<theirs, mine>>}
           /\ HasAliases(pair[1]) => HasAliases(pair[2])
<1>1. CASE HasAliases(mine) /\ ~ HasAliases(theirs)
  BY <1>1 DEF Direction
<1>2. CASE ~ (HasAliases(mine) /\ ~ HasAliases(theirs))
  BY <1>2 DEF Direction
<1> QED BY <1>1, <1>2

LEMMA InitIInv == Init => IInv
BY NoneAssumption DEF Init, IInv, TypeOK, Idle, NoChains, OneAtATime, Current, FitsTables,
                      SymbolsRead, StillRead, SymbolsJoined, SameSymbol

LEMMA TypeStep == TypeOK /\ NoChains /\ Next => TypeOK'
<1> SUFFICES ASSUME TypeOK, NoChains, NEW r \in Requests, Step(r) PROVE TypeOK'
  BY DEF Next
<1> USE DEF TypeOK, Goto, Answer, Begins, Idle
<1>1. ASSUME NEW key \in Keys, NEW class \in Classifications, handleClassify(r, key, class)
      PROVE  TypeOK'
  BY <1>1 DEF handleClassify
<1>2. ASSUME NEW key \in Keys, handlePortfolioUnmerge(r, key) PROVE TypeOK'
  BY <1>2 DEF handlePortfolioUnmerge
<1>3. ASSUME NEW key \in Keys, NEW symbol \in Symbols, Upsert(r, key, symbol) PROVE TypeOK'
  <2>1. [at |-> "mapped", instrument |-> key, symbol |-> symbol] \in Mapped
    BY DEF Mapped
  <2> QED BY <1>3, <2>1 DEF Upsert
<1>4. ASSUME ReadMappings(r) PROVE TypeOK'
  <2>1. request[r] \in Mapped
    BY <1>4 DEF ReadMappings, Mapped, Matched, Merging
  <2>2. [at |-> "matched", instrument |-> request[r].instrument,
         others |-> {k \in Keys \ {request[r].instrument} : symbolOf[k] = request[r].symbol}]
          \in Matched
    BY <2>1 DEF Mapped, Matched
  <2> QED BY <1>4, <2>2 DEF ReadMappings
<1>5. ASSUME NothingToMerge(r) PROVE TypeOK'
  BY <1>5 DEF NothingToMerge
<1>6. ASSUME mergeBySymbol(r) PROVE TypeOK'
  <2>1. request[r] \in Matched
    BY <1>6 DEF mergeBySymbol, Mapped, Matched, Merging
  <2>2. PICK other \in Apart(r) :
          LET pair == Direction(Resolve(request[r].instrument), Resolve(other)) IN
          Goto(r, [at |-> "merging", alias |-> pair[1], canonical |-> pair[2], bySymbol |-> TRUE])
    BY <1>6 DEF mergeBySymbol
  <2> DEFINE mine == Resolve(request[r].instrument)
             theirs == Resolve(other)
             pair == Direction(mine, theirs)
  <2>3. mine \in Keys /\ theirs \in Keys
    BY <2>1, ResolvedIsCanonical DEF Apart, Matched
  <2>4. [at |-> "merging", alias |-> pair[1], canonical |-> pair[2], bySymbol |-> TRUE] \in Merging
    BY <2>3, DirectionFits DEF Merging
  <2> QED BY <1>6, <2>2, <2>4 DEF mergeBySymbol
<1>7. ASSUME NEW alias \in Keys, NEW canonical \in Keys, handlePortfolioMerge(r, alias, canonical)
      PROVE  TypeOK'
  <2>1. [at |-> "merging", alias |-> alias, canonical |-> canonical, bySymbol |-> FALSE] \in Merging
    BY DEF Merging
  <2> QED BY <1>7, <2>1 DEF handlePortfolioMerge
<1>8. ASSUME Merge(r) PROVE TypeOK'
  <2>1. request[r] \in Merging
    BY <1>8 DEF Merge, Mapped, Matched, Merging
  <2> QED BY <1>8, <2>1 DEF Merge, Merging
<1>9. ASSUME MergeRefused(r) PROVE TypeOK'
  BY <1>9 DEF MergeRefused
<1>10. ASSUME StatementFails(r) PROVE TypeOK'
  BY <1>10 DEF StatementFails
<1> QED BY <1>1, <1>2, <1>3, <1>4, <1>5, <1>6, <1>7, <1>8, <1>9, <1>10 DEF Step

(* Only an unmerge and a merge write aliases; the merge checks both sides. *)
LEMMA ChainStep == TypeOK /\ NoChains /\ Next => NoChains'
<1> SUFFICES ASSUME TypeOK, NoChains, NEW r \in Requests, Step(r) PROVE NoChains'
  BY DEF Next
<1> USE DEF NoChains
<1>1. ASSUME NEW key \in Keys, handlePortfolioUnmerge(r, key) PROVE NoChains'
  BY <1>1, NoneAssumption DEF handlePortfolioUnmerge, TypeOK
<1>2. ASSUME Merge(r) PROVE NoChains'
  <2> DEFINE alias == request[r].alias
             canonical == request[r].canonical
  <2>1. request[r] \in Merging
    BY <1>2 DEF Merge, TypeOK, Idle, Mapped, Matched, Merging
  <2>2. alias \in Keys /\ canonical \in Keys
    BY <2>1 DEF Merging
  <2>3. alias # canonical /\ aliasOf[canonical] = None /\ \A k \in Keys : aliasOf[k] # alias
    BY <1>2 DEF Merge, Refuses, Chain, HasAliases
  <2>4. aliasOf' = [aliasOf EXCEPT ![alias] = canonical]
    BY <1>2 DEF Merge
  <2> QED BY <2>2, <2>3, <2>4, NoneAssumption DEF TypeOK
<1>3. ASSUME UNCHANGED aliasOf PROVE NoChains'
  BY <1>3
<1> QED BY <1>1, <1>2, <1>3 DEF Step, handleClassify, Upsert, ReadMappings, NothingToMerge,
           mergeBySymbol, handlePortfolioMerge, MergeRefused, StatementFails

(* A request that begins beside another one leaves its mark. *)
LEMMA OneAtATimeStep == TypeOK /\ OneAtATime /\ Next => OneAtATime'
<1> SUFFICES ASSUME TypeOK, OneAtATime, NEW r \in Requests, Step(r) PROVE OneAtATime'
  BY DEF Next
<1>1. \A s \in Requests : s # r => request'[s] = request[s]
  BY DEF TypeOK, Step, Goto, Answer, handleClassify, handlePortfolioUnmerge, Upsert, ReadMappings,
         NothingToMerge, mergeBySymbol, handlePortfolioMerge, Merge, MergeRefused, StatementFails
<1>2. seen \subseteq seen'
  BY DEF Step, Begins, handleClassify, handlePortfolioUnmerge, Upsert, ReadMappings,
         NothingToMerge, mergeBySymbol, handlePortfolioMerge, Merge, MergeRefused, StatementFails
<1>3. Quiet' => \A s \in Requests : s # r => request[s].at = "idle" \/ request'[r].at = "idle"
  <2>1. CASE request[r].at # "idle"
    BY <2>1, <1>2 DEF OneAtATime, Quiet
  <2>2. CASE request[r].at = "idle"
    <3>1. \E marks : Begins(r, marks)
      BY <2>2 DEF Step, handleClassify, handlePortfolioUnmerge, Upsert, ReadMappings, NothingToMerge,
                  mergeBySymbol, handlePortfolioMerge, Merge, MergeRefused, StatementFails
    <3> QED BY <3>1, <2>2 DEF Begins, Quiet
  <2> QED BY <2>1, <2>2
<1> QED BY <1>1, <1>2, <1>3 DEF OneAtATime, Quiet

(* A step of one request on quiet tables finds every other request idle. *)
LEMMA OthersIdle ==
  ASSUME OneAtATime, NEW r \in Requests, Step(r), Quiet'
  PROVE  Quiet /\ \A s \in Requests \ {r} : request[s].at = "idle"
<1>1. Quiet
  BY DEF Quiet, Step, Begins, handleClassify, handlePortfolioUnmerge, Upsert, ReadMappings,
         NothingToMerge, mergeBySymbol, handlePortfolioMerge, Merge, MergeRefused, StatementFails
<1>2. CASE request[r].at # "idle"
  BY <1>1, <1>2 DEF OneAtATime
<1>3. CASE request[r].at = "idle"
  <2>1. \E marks : Begins(r, marks)
    BY <1>3 DEF Step, handleClassify, handlePortfolioUnmerge, Upsert, ReadMappings, NothingToMerge,
                mergeBySymbol, handlePortfolioMerge, Merge, MergeRefused, StatementFails
  <2> QED BY <2>1 DEF Begins, Quiet
<1> QED BY <1>1, <1>2, <1>3

(* What a request decides on, it has just read. *)
LEMMA CurrentStep == TypeOK /\ NoChains /\ OneAtATime /\ Next => Current'
<1> SUFFICES ASSUME TypeOK, NoChains, OneAtATime, NEW r \in Requests, Step(r), Quiet',
                    NEW s \in Requests, request'[s].at = "merging"
             PROVE  FitsTables(request[s])'
  BY DEF Next, Current, FitsTables
<1>1. s = r
  <2>1. s # r => request'[s] = request[s]
    BY DEF TypeOK, Step, Goto, Answer, handleClassify, handlePortfolioUnmerge, Upsert, ReadMappings,
           NothingToMerge, mergeBySymbol, handlePortfolioMerge, Merge, MergeRefused, StatementFails
  <2> QED BY <2>1, OthersIdle
<1>2. CASE mergeBySymbol(r)
  <2>1. request[r] \in Matched
    BY <1>2 DEF mergeBySymbol, TypeOK, Idle, Mapped, Matched, Merging
  <2>2. PICK other \in Apart(r) :
          LET pair == Direction(Resolve(request[r].instrument), Resolve(other)) IN
          Goto(r, [at |-> "merging", alias |-> pair[1], canonical |-> pair[2], bySymbol |-> TRUE])
    BY <1>2 DEF mergeBySymbol
  <2> DEFINE mine == Resolve(request[r].instrument)
             theirs == Resolve(other)
             pair == Direction(mine, theirs)
  <2>3. aliasOf[mine] = None /\ aliasOf[theirs] = None
    BY <2>1, ResolvedIsCanonical DEF Apart, Matched
  <2>4. /\ pair \in {<<mine, theirs>>, <<theirs, mine>>}
        /\ HasAliases(pair[1]) => HasAliases(pair[2])
    BY DirectionFits
  <2>5. request'[r] = [at |-> "merging", alias |-> pair[1], canonical |-> pair[2], bySymbol |-> TRUE]
    BY <2>2 DEF Goto, TypeOK
  <2>6. aliasOf' = aliasOf
    BY <1>2 DEF mergeBySymbol
  <2>7. aliasOf[pair[1]] = None /\ aliasOf[pair[2]] = None
    BY <2>3, <2>4
  <2> HIDE DEF pair
  <2> QED BY <1>1, <2>4, <2>5, <2>6, <2>7 DEF FitsTables, HasAliases
<1>3. ASSUME NEW alias \in Keys, NEW canonical \in Keys, handlePortfolioMerge(r, alias, canonical)
      PROVE  FitsTables(request[s])'
  <2>1. aliasOf[alias] = None /\ aliasOf[canonical] = None
    BY <1>3, ResolvedIsCanonical, KeyAssumption DEF handlePortfolioMerge, Known
  <2>2. request'[r] = [at |-> "merging", alias |-> alias, canonical |-> canonical, bySymbol |-> FALSE]
    BY <1>3 DEF handlePortfolioMerge, Goto, TypeOK
  <2>3. aliasOf' = aliasOf
    BY <1>3 DEF handlePortfolioMerge
  <2> QED BY <1>1, <2>1, <2>2, <2>3 DEF FitsTables
<1>4. ASSUME NEW key \in Keys, NEW class \in Classifications, handleClassify(r, key, class)
      PROVE  FALSE
  BY <1>1, <1>4 DEF handleClassify, Begins
<1>5. ASSUME NEW key \in Keys, handlePortfolioUnmerge(r, key) PROVE FALSE
  BY <1>1, <1>5 DEF handlePortfolioUnmerge, Begins
<1>6. ASSUME NEW key \in Keys, NEW symbol \in Symbols, Upsert(r, key, symbol) PROVE FALSE
  BY <1>1, <1>6 DEF Upsert, Goto, TypeOK
<1>7. ASSUME ReadMappings(r) PROVE FALSE
  BY <1>1, <1>7 DEF ReadMappings, Goto, TypeOK
<1>8. ASSUME NothingToMerge(r) \/ Merge(r) \/ MergeRefused(r) \/ StatementFails(r) PROVE FALSE
  BY <1>1, <1>8 DEF NothingToMerge, Merge, MergeRefused, StatementFails, Answer, Goto, TypeOK
<1> QED BY <1>2, <1>3, <1>4, <1>5, <1>6, <1>7, <1>8 DEF Step

(* On tables where nothing was left apart, what one request has read is    *)
(* what it acts on ...                                                     *)
LEMMA SymbolsReadStep == TypeOK /\ OneAtATime /\ SymbolsRead /\ Next => SymbolsRead'
<1> SUFFICES ASSUME TypeOK, OneAtATime, SymbolsRead, NEW r \in Requests, Step(r), seen' = {},
                    NEW s \in Requests
             PROVE  StillRead(request[s])'
  BY DEF Next, SymbolsRead
<1>1. Quiet' /\ \A t \in Requests \ {r} : request[t].at = "idle"
  BY OthersIdle DEF Quiet
<1>2. \A t \in Requests : t # r => request'[t] = request[t]
  BY DEF TypeOK, Step, Goto, Answer, handleClassify, handlePortfolioUnmerge, Upsert, ReadMappings,
         NothingToMerge, mergeBySymbol, handlePortfolioMerge, Merge, MergeRefused, StatementFails
<1>3. CASE s # r
  <2>1. request'[s].at = "idle"
    BY <1>1, <1>2, <1>3
  <2> QED BY <2>1 DEF StillRead
<1>4. CASE s = r
  <2>1. ASSUME NEW key \in Keys, NEW symbol \in Symbols, Upsert(r, key, symbol)
        PROVE  StillRead(request[s])'
    <3>1. request'[r] = [at |-> "mapped", instrument |-> key, symbol |-> symbol]
      BY <2>1 DEF Upsert, Goto, TypeOK
    <3>2. symbolOf'[key] = symbol
      BY <2>1 DEF Upsert, TypeOK
    <3> QED BY <1>4, <3>1, <3>2 DEF StillRead
  <2>2. CASE ReadMappings(r)
    <3>1. request'[r] = [at |-> "matched", instrument |-> request[r].instrument,
                others |-> {k \in Keys \ {request[r].instrument} : symbolOf[k] = request[r].symbol}]
      BY <2>2 DEF ReadMappings, Goto, TypeOK
    <3>2. seen = {} /\ symbolOf' = symbolOf /\ request[r].at = "mapped"
      BY <2>2 DEF ReadMappings
    <3>3. symbolOf[request[r].instrument] = request[r].symbol
      BY <3>2 DEF SymbolsRead, StillRead
    <3> QED BY <1>4, <3>1, <3>2, <3>3 DEF StillRead
  <2>3. CASE mergeBySymbol(r)
    <3>1. request'[r].at = "merging"
      BY <2>3 DEF mergeBySymbol, Goto, TypeOK
    <3> QED BY <1>4, <3>1 DEF StillRead
  <2>4. ASSUME NEW alias \in Keys, NEW canonical \in Keys, handlePortfolioMerge(r, alias, canonical)
        PROVE  StillRead(request[s])'
    <3>1. request'[r].at = "merging"
      BY <2>4 DEF handlePortfolioMerge, Goto, TypeOK
    <3> QED BY <1>4, <3>1 DEF StillRead
  <2>5. ASSUME NEW key \in Keys, NEW class \in Classifications, handleClassify(r, key, class)
        PROVE  StillRead(request[s])'
    <3>1. request'[r].at = "idle"
      BY <2>5 DEF handleClassify, Begins
    <3> QED BY <1>4, <3>1 DEF StillRead
  <2>6. ASSUME NEW key \in Keys, handlePortfolioUnmerge(r, key) PROVE StillRead(request[s])'
    <3>1. request'[r].at = "idle"
      BY <2>6 DEF handlePortfolioUnmerge, Begins
    <3> QED BY <1>4, <3>1 DEF StillRead
  <2>7. ASSUME NothingToMerge(r) \/ Merge(r) \/ MergeRefused(r) \/ StatementFails(r)
        PROVE  StillRead(request[s])'
    <3>1. request'[r].at = "idle"
      BY <2>7 DEF NothingToMerge, Merge, MergeRefused, StatementFails, Answer, Goto, TypeOK
    <3> QED BY <1>4, <3>1 DEF StillRead
  <2> QED BY <2>1, <2>2, <2>3, <2>4, <2>5, <2>6, <2>7 DEF Step
<1> QED BY <1>3, <1>4

(* ... and what it leaves behind is one holding for each symbol.           *)
LEMMA SymbolsJoinedStep ==
  ASSUME TypeOK, NoChains, OneAtATime, Current, SymbolsRead, SymbolsJoined, Next
  PROVE  SymbolsJoined'
<1> SUFFICES ASSUME NEW r \in Requests, Step(r), seen' = {},
                    NEW a \in Keys, NEW b \in Keys, SameSymbol(a, b)'
             PROVE  Resolve(a)' = Resolve(b)' \/ ToBeJoined(request[r], a, b)'
  BY DEF Next, SymbolsJoined
<1>1. Quiet /\ Quiet' /\ \A t \in Requests \ {r} : request[t].at = "idle"
  BY OthersIdle DEF Quiet
<1>2. seen = {}
  BY DEF Step, Begins, handleClassify, handlePortfolioUnmerge, Upsert, ReadMappings,
         NothingToMerge, mergeBySymbol, handlePortfolioMerge, Merge, MergeRefused, StatementFails
<1>3. ASSUME NEW c \in Keys, NEW d \in Keys, SameSymbol(c, d)
      PROVE  Resolve(c) = Resolve(d) \/ ToBeJoined(request[r], c, d)
  <2>1. \A t \in Requests \ {r} : ~ ToBeJoined(request[t], c, d)
    BY <1>1 DEF ToBeJoined
  <2> QED BY <1>2, <1>3, <2>1 DEF SymbolsJoined
<1>4. aliasOf' = aliasOf => \A k : Resolve(k)' = Resolve(k)
  BY DEF Resolve
<1>5. symbolOf' = symbolOf => SameSymbol(a, b)
  BY DEF SameSymbol
<1>6. ASSUME request[r].at = "idle", symbolOf' = symbolOf, aliasOf' = aliasOf
      PROVE  Resolve(a)' = Resolve(b)'
  BY <1>3, <1>4, <1>5, <1>6 DEF ToBeJoined
<1>7. ASSUME NEW key \in Keys, NEW class \in Classifications, handleClassify(r, key, class)
      PROVE  Resolve(a)' = Resolve(b)'
  BY <1>6, <1>7 DEF handleClassify, Begins
<1>8. ASSUME NEW alias \in Keys, NEW canonical \in Keys, handlePortfolioMerge(r, alias, canonical)
      PROVE  Resolve(a)' = Resolve(b)'
  BY <1>6, <1>8 DEF handlePortfolioMerge, Begins
<1>9. ASSUME NEW key \in Keys, NEW symbol \in Symbols, Upsert(r, key, symbol)
      PROVE  Resolve(a)' = Resolve(b)' \/ ToBeJoined(request[r], a, b)'
  <2>1. request'[r] = [at |-> "mapped", instrument |-> key, symbol |-> symbol]
    BY <1>9 DEF Upsert, Goto, TypeOK
  <2>2. CASE key \in {a, b}
    BY <2>1, <2>2 DEF ToBeJoined
  <2>3. CASE key \notin {a, b}
    <3>1. SameSymbol(a, b) /\ aliasOf' = aliasOf /\ request[r].at = "idle"
      BY <1>9, <2>3 DEF Upsert, Begins, SameSymbol, TypeOK
    <3> QED BY <1>3, <1>4, <3>1 DEF ToBeJoined
  <2> QED BY <2>2, <2>3
<1>10. CASE ReadMappings(r)
  <2>1. /\ request[r].at = "mapped" /\ symbolOf' = symbolOf /\ aliasOf' = aliasOf
        /\ request'[r].at = "matched" /\ request'[r].instrument = request[r].instrument
    BY <1>10 DEF ReadMappings, Goto, TypeOK
  <2> QED BY <1>3, <1>4, <1>5, <2>1 DEF ToBeJoined
<1>11. ASSUME request[r].at = "matched", symbolOf' = symbolOf, aliasOf' = aliasOf,
              Resolve(a) # Resolve(b)
       PROVE  \E k \in Apart(r) :
                /\ {Resolve(a), Resolve(b)} = {Resolve(request[r].instrument), Resolve(k)}
                /\ \A other \in Apart(r) : Resolve(other) = Resolve(k)
  <2> DEFINE inst == request[r].instrument
  <2>1. SameSymbol(a, b) /\ inst \in {a, b} /\ inst \in Keys
    <3>1. request[r] \in Matched
      BY <1>11 DEF TypeOK, Idle, Mapped, Matched, Merging
    <3>2. inst \in Keys
      BY <3>1 DEF Matched
    <3>3. SameSymbol(a, b)
      BY <1>5, <1>11
    <3> QED BY <1>3, <1>11, <3>2, <3>3 DEF ToBeJoined
  <2>2. request[r].others = {k \in Keys \ {inst} : symbolOf[k] = symbolOf[inst]}
    BY <1>2, <1>11 DEF SymbolsRead, StillRead
  <2>3. PICK k \in {a, b} : k # inst /\ {a, b} = {inst, k}
    BY <1>11, <2>1
  <2>4. k \in request[r].others /\ Resolve(k) # Resolve(inst)
    BY <1>11, <2>1, <2>2, <2>3 DEF SameSymbol
  <2>5. \A other \in Apart(r) : Resolve(other) = Resolve(k)
    <3>1. ASSUME NEW other \in Apart(r) PROVE Resolve(other) = Resolve(k)
      <4>1. other \in Keys /\ other # inst /\ k \in Keys /\ k # inst
        BY <2>2, <2>4 DEF Apart
      <4>2. SameSymbol(other, k)
        BY <2>1, <2>2, <2>3, <2>4 DEF Apart, SameSymbol
      <4> QED BY <1>3, <1>11, <4>1, <4>2 DEF ToBeJoined
    <3> QED BY <3>1
  <2>6. {Resolve(a), Resolve(b)} = {Resolve(inst), Resolve(k)}
    BY <2>1, <2>3
  <2> QED BY <2>4, <2>5, <2>6 DEF Apart
<1>12. CASE NothingToMerge(r)
  <2>1. request[r].at = "matched" /\ symbolOf' = symbolOf /\ aliasOf' = aliasOf /\ Apart(r) = {}
    BY <1>12 DEF NothingToMerge
  <2> QED BY <1>4, <1>11, <2>1
<1>13. CASE mergeBySymbol(r)
  <2>1. /\ request[r].at = "matched" /\ symbolOf' = symbolOf /\ aliasOf' = aliasOf
    BY <1>13 DEF mergeBySymbol
  <2>2. PICK other \in Apart(r) :
          LET pair == Direction(Resolve(request[r].instrument), Resolve(other)) IN
          Goto(r, [at |-> "merging", alias |-> pair[1], canonical |-> pair[2], bySymbol |-> TRUE])
    BY <1>13 DEF mergeBySymbol
  <2> DEFINE mine == Resolve(request[r].instrument)
             theirs == Resolve(other)
             pair == Direction(mine, theirs)
  <2>3. {pair[1], pair[2]} = {mine, theirs}
    <3>1. pair = <<mine, theirs>> \/ pair = <<theirs, mine>>
      BY DirectionFits
    <3> QED BY <3>1
  <2>4. request'[r] = [at |-> "merging", alias |-> pair[1], canonical |-> pair[2], bySymbol |-> TRUE]
    BY <2>2 DEF Goto, TypeOK
  <2>5. CASE Resolve(a) = Resolve(b)
    BY <1>4, <2>1, <2>5
  <2>6. CASE Resolve(a) # Resolve(b)
    <3>1. {Resolve(a), Resolve(b)} = {mine, theirs}
      BY <1>11, <2>1, <2>6
    <3>2. Resolve(a)' = Resolve(a) /\ Resolve(b)' = Resolve(b)
      BY <1>4, <2>1
    <3> HIDE DEF pair, mine, theirs
    <3>3. /\ request'[r].at = "merging" /\ request'[r].bySymbol
          /\ {Resolve(a)', Resolve(b)'} = {request'[r].alias, request'[r].canonical}
      BY <2>3, <2>4, <3>1, <3>2
    <3> QED BY <3>3 DEF ToBeJoined
  <2> QED BY <2>5, <2>6
<1>14. CASE Merge(r)
  <2> DEFINE alias == request[r].alias
             canonical == request[r].canonical
  <2>1. request[r].at = "merging" /\ alias \in Keys /\ canonical \in Keys
    BY <1>14 DEF Merge, TypeOK, Idle, Mapped, Matched, Merging
  <2>2. aliasOf[alias] = None /\ aliasOf[canonical] = None
    BY <1>1, <2>1 DEF Current, FitsTables
  <2>3. alias # canonical /\ \A k \in Keys : aliasOf[k] # alias
    BY <1>14 DEF Merge, Refuses, Chain, HasAliases
  <2>4. aliasOf' = [aliasOf EXCEPT ![alias] = canonical] /\ symbolOf' = symbolOf
    BY <1>14 DEF Merge
  <2>5. ASSUME NEW k \in Keys
        PROVE  Resolve(k)' = IF Resolve(k) = alias THEN canonical ELSE Resolve(k)
    <3>1. CASE k = alias
      BY <2>1, <2>2, <2>4, <3>1, NoneAssumption DEF Resolve, TypeOK
    <3>2. CASE k # alias
      BY <2>1, <2>3, <2>4, <3>2 DEF Resolve, TypeOK
    <3> QED BY <3>1, <3>2
  <2>6. Resolve(a) = Resolve(b) \/ {Resolve(a), Resolve(b)} = {alias, canonical}
    BY <1>3, <1>5, <2>1, <2>4 DEF ToBeJoined
  <2> HIDE DEF alias, canonical
  <2> QED BY <2>3, <2>5, <2>6
<1>15. ASSUME NEW key \in Keys, handlePortfolioUnmerge(r, key) PROVE FALSE
  BY <1>15 DEF handlePortfolioUnmerge, Begins
<1>16. ASSUME MergeRefused(r) \/ StatementFails(r) PROVE FALSE
  BY <1>16 DEF MergeRefused, StatementFails
<1> QED BY <1>7, <1>8, <1>9, <1>10, <1>12, <1>13, <1>14, <1>15, <1>16 DEF Step

(* Nor does a step that changes nothing disturb any of it.                 *)
LEMMA StutterIInv == IInv /\ UNCHANGED vars => IInv'
<1> SUFFICES ASSUME IInv, UNCHANGED vars PROVE IInv'
  OBVIOUS
<1>1. (TypeOK /\ NoChains /\ OneAtATime /\ Current)'
  BY DEF IInv, vars, TypeOK, Idle, Mapped, Matched, Merging, NoChains, OneAtATime, Quiet, Current,
         FitsTables, HasAliases
<1>2. SymbolsRead'
  BY DEF IInv, vars, SymbolsRead, StillRead
<1>3. SymbolsJoined'
  <2>1. \A k : Resolve(k)' = Resolve(k)
    BY DEF vars, Resolve
  <2>2. \A q, a, b : ToBeJoined(q, a, b)' = ToBeJoined(q, a, b)
    BY <2>1 DEF ToBeJoined
  <2> QED BY <2>1, <2>2 DEF IInv, vars, SymbolsJoined, SameSymbol
<1> QED BY <1>1, <1>2, <1>3 DEF IInv

(***************************************************************************)
(* The inductive invariant: NoChains is needed for a key that was read to  *)
(* be canonical, OneAtATime for it to be still so when it is written, and  *)
(* SymbolsRead for a symbol's keys to be those that are to be joined.      *)
(***************************************************************************)
THEOREM Invariance == Spec => []IInv
<1>1. IInv /\ [Next]_vars => IInv'
  BY TypeStep, ChainStep, OneAtATimeStep, CurrentStep, SymbolsReadStep, SymbolsJoinedStep,
     StutterIInv DEF IInv
<1> QED BY <1>1, InitIInv, PTL DEF Spec

(* Every table and every request in progress is well typed. *)
THEOREM TypeCorrect == Spec => []TypeOK
<1>1. IInv => TypeOK
  BY DEF IInv
<1> QED BY <1>1, Invariance, PTL

(* Requests that overlap in any way never build a chain of aliases, so     *)
(* the one join of ledger.Store.All resolves every key.                    *)
THEOREM NeverAChain == Spec => []NoChains
<1>1. IInv => NoChains
  BY DEF IInv
<1> QED BY <1>1, Invariance, PTL

(* Without overlap, a symbol post is refused as a chain only where both    *)
(* holdings have merges of their own.                                      *)
THEOREM OnlyGroupsAreChains == Spec => []ChainsOnlyGroups
<1>1. IInv => ChainsOnlyGroups
  BY DEF IInv, Current, FitsTables, Quiet, ChainsOnlyGroups, Chain
<1> QED BY <1>1, Invariance, PTL

(* Where no request was refused, failed or overlapped with another and no  *)
(* merge was undone, every two keys of one symbol are one holding: one     *)
(* merge per symbol post is enough, whatever the order of the posts.       *)
THEOREM OneHoldingPerSymbol == Spec => []SameSymbolSameHolding
<1>1. IInv => SameSymbolSameHolding
  BY DEF IInv, SymbolsJoined, SameSymbol, ToBeJoined, SameSymbolSameHolding
<1> QED BY <1>1, Invariance, PTL

(* A merge that no other request overlaps changes the tax treatment of no  *)
(* instrument that is taxed: aliases.Merge's comparison of the two         *)
(* recorded classifications is enough.                                     *)
LEMMA TreatmentStep ==
  ASSUME IInv, Next, MergeStep, Quiet, NEW k \in Keys, Treatment(k) # None
  PROVE  Treatment(k)' = Treatment(k)
<1>1. PICK r \in Requests : Step(r)
  BY DEF Next
<1>2. Merge(r)
  BY <1>1 DEF MergeStep, Step, handleClassify, handlePortfolioUnmerge, Upsert, ReadMappings,
              NothingToMerge, mergeBySymbol, handlePortfolioMerge, MergeRefused, StatementFails, IInv, TypeOK
<1> DEFINE alias == request[r].alias
           canonical == request[r].canonical
<1>3. alias \in Keys /\ canonical \in Keys
  BY <1>2 DEF Merge, IInv, TypeOK, Idle, Mapped, Matched, Merging
<1>4. aliasOf[alias] = None /\ aliasOf[canonical] = None
  BY <1>2 DEF Merge, IInv, Current, FitsTables
<1>5. aliasOf' = [aliasOf EXCEPT ![alias] = canonical] /\ classOf' = classOf
  BY <1>2 DEF Merge
<1>6. classOf[alias] # None => classOf[alias] = classOf[canonical]
  BY <1>2 DEF Merge, Refuses, Disagree
<1>7. CASE k = alias
  <2>1. Resolve(k) = k /\ Resolve(k)' = canonical
    BY <1>3, <1>4, <1>5, <1>7, NoneAssumption DEF Resolve, IInv, TypeOK
  <2> QED BY <1>5, <1>6, <1>7, <2>1 DEF Treatment
<1>8. CASE k # alias
  <2>1. Resolve(k)' = Resolve(k)
    BY <1>5, <1>8 DEF Resolve, IInv, TypeOK
  <2> QED BY <1>5, <2>1 DEF Treatment
<1> QED BY <1>7, <1>8

THEOREM TreatmentKept == Spec => MergeKeepsTreatment
<1>1. IInv /\ [Next]_vars =>
        [MergeStep /\ "overlap" \notin seen =>
           \A k \in Keys : Treatment(k) # None => Treatment(k)' = Treatment(k)]_vars
  BY TreatmentStep DEF Quiet
<1> QED BY <1>1, Invariance, PTL DEF Spec, MergeKeepsTreatment

=============================================================================
