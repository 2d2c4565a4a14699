-------------------------- MODULE PriceCacheProofs --------------------------
(***************************************************************************)
(* Proofs about PriceCache, for any number of goroutines, any TTL and any  *)
(* number of restarts.                                                     *)
(*                                                                         *)
(* A price travels: from a provider to a call, from there to the cache and *)
(* to the row, over a restart back into the cache, and from either into    *)
(* the answers of other calls.  AgeNeverUnderstated must therefore hold of *)
(* the prices a call has in hand as well (HonestInHand), and there because *)
(* no call is of later than now (Begun).  LiveIsFresh needs that a price   *)
(* just fetched is stamped with the call's own start (Stamped), and        *)
(* LastKnownServed that a call which saw a price keeps hold of one: first  *)
(* the row, which nobody removes, then its own fallback (InReach).         *)
(***************************************************************************)
EXTENDS PriceCache, TLAPS

HonestInHand == \A c \in Callers : Honest(entry[c]) /\ Honest(quote[c])

Begun == \A c \in Callers : started[c] <= clock

Stamped ==
  \A c \in Callers : pc[c] \in {"profile", "remember", "store"} => quote[c].asOf = started[c]

(* Nothing is answered before the call ends.                               *)
Unanswered == \A c \in Callers : pc[c] # "done" => answer[c] = NoAnswer

InReach ==
  \A c \in Callers : known[c] /\ ~ loadFailed[c] =>
    /\ pc[c] = "load" => row # None
    /\ pc[c] \in {"finnhub", "yahoo", "stooq"} => entry[c] # None

IInv ==
  /\ TypeOK /\ HonestInHand /\ Begun /\ Stamped /\ Unanswered /\ InReach
  /\ AgeNeverUnderstated /\ LiveIsFresh /\ LastKnownServed


----------------------------------------------------------------------------
(* Neither absence is a price, a currency or an answer with a price.       *)
LEMMA Absent ==
  /\ None \notin Price /\ None \notin BOOLEAN
  /\ NoAnswer.kind = "none" /\ NoAnswer.price = None
  /\ Error.kind = "error" /\ Error.price = None
BY NoneAssumption DEF NoAnswer, Error

(* What a call returns is an answer.                                       *)
LEMMA AnswerType ==
  /\ NoAnswer \in Answer /\ Error \in Answer
  /\ \A p \in Price : /\ Live(p) \in Answer /\ Live(p).kind = "live" /\ Live(p).price = p
                      /\ Stale(p) \in Answer /\ Stale(p).kind = "stale" /\ Stale(p).price = p
BY DEF Answer, NoAnswer, Error, Live, Stale

(* A price fetched is stamped with the start of the call and was obtained  *)
(* now.                                                                    *)
LEMMA FetchedPrice ==
  ASSUME TypeOK, NEW c \in Callers, NEW currency \in BOOLEAN, Fetched(c, currency)
  PROVE  /\ quote' \in [Callers -> Price \union {None}]
         /\ quote'[c] \in Price /\ quote'[c].asOf = started[c] /\ quote'[c].got = clock
         /\ \A d \in Callers : d # c => quote'[d] = quote[d]
<1> DEFINE p == [asOf |-> started[c], got |-> clock, currency |-> currency]
<1>1. p \in Price /\ p.asOf = started[c] /\ p.got = clock
  BY DEF TypeOK, Price
<1>2. quote' = [quote EXCEPT ![c] = p]
  BY DEF Fetched, Set
<1>3. quote \in [Callers -> Price \union {None}]
  BY DEF TypeOK
<1> HIDE DEF p
<1> QED
  BY <1>1, <1>2, <1>3

(* What asking a provider comes to: the next one is to be asked, there is  *)
(* a price, or after the last one the call ends with its fallback or in an *)
(* error.                                                                  *)
Asks(c) == AskFinnhub(c) \/ AskYahoo(c) \/ AskStooq(c)

Providers == {"finnhub", "yahoo", "stooq"}

LEMMA AskOutcome ==
  ASSUME TypeOK, NEW c \in Callers, Asks(c)
  PROVE  /\ pc[c] \in Providers
         /\ UNCHANGED <<clock, token, cache, memo, row, started, known, entry, loadFailed>>
         /\ \/ /\ \E label \in Providers : pc' = [pc EXCEPT ![c] = label]
               /\ UNCHANGED <<quote, answer>>
            \/ /\ \E label \in {"profile", "remember"} : pc' = [pc EXCEPT ![c] = label]
               /\ \E currency \in BOOLEAN : Fetched(c, currency)
               /\ UNCHANGED answer
            \/ /\ entry[c] = None \/ entry[c] \in Price
               /\ pc' = [pc EXCEPT ![c] = "done"]
               /\ answer' = [answer EXCEPT ![c] = IF entry[c] = None THEN Error ELSE Stale(entry[c])]
               /\ UNCHANGED quote
<1> USE DEF Providers, TypeOK, Goto, Finish, Set, call
<1>1. CASE AskFinnhub(c)
  <2>1. CASE memo = None
    BY <1>1, <2>1 DEF AskFinnhub
  <2>2. CASE memo # None
    BY <1>1, <2>2 DEF AskFinnhub
  <2> QED
    BY <2>1, <2>2
<1>2. CASE AskYahoo(c)
  BY <1>2 DEF AskYahoo
<1>3. CASE AskStooq(c)
  BY <1>3 DEF AskStooq
<1> QED
  BY <1>1, <1>2, <1>3 DEF Asks

(* Every step keeps the types.                                             *)
LEMMA TypeStep ==
  ASSUME TypeOK, [Next]_vars
  PROVE  TypeOK'
<1> USE Absent, AnswerType DEF TypeOK, Set, Goto, Finish, call, FirstProvider
<1>1. ASSUME NEW c \in Callers, Begin(c) PROVE TypeOK'
  <2>1. CASE cache = None
    BY <1>1, <2>1 DEF Begin
  <2>2. CASE cache # None /\ Fresh(cache, clock)
    BY <1>1, <2>2 DEF Begin
  <2>3. CASE cache # None /\ ~ Fresh(cache, clock)
    BY <1>1, <2>3 DEF Begin
  <2> QED
    BY <2>1, <2>2, <2>3
<1>2. ASSUME NEW c \in Callers, Load(c) PROVE TypeOK'
  <2>1. CASE row # None /\ entry' = Set(entry, c, row) /\ Goto(c, "seed") /\ UNCHANGED loadFailed
    BY <1>2, <2>1 DEF Load
  <2>2. CASE Goto(c, FirstProvider) /\ UNCHANGED entry
    <3>1. loadFailed' \in [Callers -> BOOLEAN]
      BY <1>2 DEF Load
    <3> QED
      BY <1>2, <2>2, <3>1, ZenonT(60) DEF Load
  <2> QED
    BY <1>2, <2>1, <2>2 DEF Load
<1>3. ASSUME NEW c \in Callers, Seed(c) PROVE TypeOK'
  BY <1>3 DEF Seed
<1>4. ASSUME NEW c \in Callers, Asks(c) PROVE TypeOK'
  <2>1. /\ UNCHANGED <<clock, token, cache, memo, row, started, known, entry, loadFailed>>
        /\ pc[c] \in Providers
    BY <1>4, AskOutcome
  <2>2. ASSUME NEW label \in Providers, pc' = [pc EXCEPT ![c] = label], UNCHANGED <<quote, answer>>
        PROVE  TypeOK'
    BY <2>1, <2>2 DEF Providers
  <2>3. ASSUME NEW label \in {"profile", "remember"}, pc' = [pc EXCEPT ![c] = label],
               NEW currency \in BOOLEAN, Fetched(c, currency), UNCHANGED answer
        PROVE  TypeOK'
    BY <2>1, <2>3, FetchedPrice DEF Providers
  <2>4. ASSUME entry[c] = None \/ entry[c] \in Price, pc' = [pc EXCEPT ![c] = "done"],
               answer' = [answer EXCEPT ![c] = IF entry[c] = None THEN Error ELSE Stale(entry[c])],
               UNCHANGED quote
        PROVE  TypeOK'
    BY <2>1, <2>4 DEF Providers
  <2> QED
    BY <1>4, <2>2, <2>3, <2>4, AskOutcome
<1>5. ASSUME NEW c \in Callers, AskProfile(c) PROVE TypeOK'
  <2>1. PICK told \in BOOLEAN :
          memo' = told /\ quote' = [quote EXCEPT ![c] = [quote[c] EXCEPT !.currency = told]]
    BY <1>5 DEF AskProfile
  <2>2. [quote[c] EXCEPT !.currency = told] \in Price
    BY <1>5 DEF AskProfile, Price
  <2> QED
    BY <1>5, <2>1, <2>2 DEF AskProfile
<1>6. ASSUME NEW c \in Callers, Remember(c) PROVE TypeOK'
  BY <1>6 DEF Remember
<1>7. ASSUME NEW c \in Callers, Store(c) PROVE TypeOK'
  BY <1>7 DEF Store
<1>8. ASSUME NEW c \in Callers, Return(c) PROVE TypeOK'
  BY <1>8 DEF Return
<1>9. CASE Tick
  BY <1>9 DEF Tick
<1>10. CASE Restart
  BY <1>10 DEF Restart
<1>11. CASE UNCHANGED vars
  BY <1>11 DEF vars
<1> QED
  BY <1>1, <1>2, <1>3, <1>4, <1>5, <1>6, <1>7, <1>8, <1>9, <1>10, <1>11 DEF Next, Asks

----------------------------------------------------------------------------
(* A price in hand, cached, stored or returned is no newer than it is.     *)
LEMMA HonestStep ==
  ASSUME IInv, [Next]_vars
  PROVE  HonestInHand' /\ AgeNeverUnderstated' /\ Begun'
<1> USE Absent, AnswerType DEF IInv, TypeOK, Set, Goto, Finish, call, FirstProvider,
                                  HonestInHand, AgeNeverUnderstated, Honest, Begun
<1>1. ASSUME NEW c \in Callers, Begin(c) PROVE HonestInHand' /\ AgeNeverUnderstated' /\ Begun'
  BY <1>1 DEF Begin
<1>2. ASSUME NEW c \in Callers, Load(c) PROVE HonestInHand' /\ AgeNeverUnderstated' /\ Begun'
  BY <1>2 DEF Load
<1>3. ASSUME NEW c \in Callers, Seed(c) PROVE HonestInHand' /\ AgeNeverUnderstated' /\ Begun'
  BY <1>3 DEF Seed
<1>4. ASSUME NEW c \in Callers, Asks(c) PROVE HonestInHand' /\ AgeNeverUnderstated' /\ Begun'
  <2> USE DEF Providers
  <2>1. /\ UNCHANGED <<clock, token, cache, memo, row, started, known, entry, loadFailed>>
        /\ pc[c] \in Providers
    BY <1>4, AskOutcome
  <2>2. ASSUME NEW label \in Providers, pc' = [pc EXCEPT ![c] = label], UNCHANGED <<quote, answer>>
        PROVE  HonestInHand' /\ AgeNeverUnderstated' /\ Begun'
    BY <2>1, <2>2
  <2>3. ASSUME NEW label \in {"profile", "remember"}, pc' = [pc EXCEPT ![c] = label],
               NEW currency \in BOOLEAN, Fetched(c, currency), UNCHANGED answer
        PROVE  HonestInHand' /\ AgeNeverUnderstated' /\ Begun'
    BY <2>1, <2>3, FetchedPrice
  <2>4. ASSUME entry[c] = None \/ entry[c] \in Price, pc' = [pc EXCEPT ![c] = "done"],
               answer' = [answer EXCEPT ![c] = IF entry[c] = None THEN Error ELSE Stale(entry[c])],
               UNCHANGED quote
        PROVE  HonestInHand' /\ AgeNeverUnderstated' /\ Begun'
    BY <2>1, <2>4
  <2> QED
    BY <1>4, <2>2, <2>3, <2>4, AskOutcome
<1>5. ASSUME NEW c \in Callers, AskProfile(c) PROVE HonestInHand' /\ AgeNeverUnderstated' /\ Begun'
  BY <1>5 DEF AskProfile
<1>6. ASSUME NEW c \in Callers, Remember(c) PROVE HonestInHand' /\ AgeNeverUnderstated' /\ Begun'
  BY <1>6 DEF Remember
<1>7. ASSUME NEW c \in Callers, Store(c) PROVE HonestInHand' /\ AgeNeverUnderstated' /\ Begun'
  BY <1>7 DEF Store
<1>8. ASSUME NEW c \in Callers, Return(c) PROVE HonestInHand' /\ AgeNeverUnderstated' /\ Begun'
  BY <1>8 DEF Return
<1>9. CASE Tick
  BY <1>9 DEF Tick
<1>10. CASE Restart
  BY <1>10 DEF Restart
<1>11. CASE UNCHANGED vars
  BY <1>11 DEF vars
<1> QED
  BY <1>1, <1>2, <1>3, <1>4, <1>5, <1>6, <1>7, <1>8, <1>9, <1>10, <1>11 DEF Next, Asks

(* What is fetched carries the call's own start, nothing is answered early *)
(* and what is answered as live is less than a TTL old.                    *)
LEMMA FreshStep ==
  ASSUME IInv, [Next]_vars
  PROVE  Stamped' /\ Unanswered' /\ LiveIsFresh'
<1> USE Absent, AnswerType DEF IInv, TypeOK, Set, Goto, Finish, call, FirstProvider,
                                  Stamped, Unanswered, LiveIsFresh, Fresh
<1>1. ASSUME NEW c \in Callers, Begin(c) PROVE Stamped' /\ Unanswered' /\ LiveIsFresh'
  <2>1. CASE cache = None
    BY <1>1, <2>1 DEF Begin
  <2>2. CASE cache # None /\ Fresh(cache, clock)
    BY <1>1, <2>2 DEF Begin
  <2>3. CASE cache # None /\ ~ Fresh(cache, clock)
    BY <1>1, <2>3 DEF Begin
  <2> QED
    BY <2>1, <2>2, <2>3
<1>2. ASSUME NEW c \in Callers, Load(c) PROVE Stamped' /\ Unanswered' /\ LiveIsFresh'
  BY <1>2 DEF Load
<1>3. ASSUME NEW c \in Callers, Seed(c) PROVE Stamped' /\ Unanswered' /\ LiveIsFresh'
  <2>1. CASE Fresh(entry[c], started[c])
    BY <1>3, <2>1 DEF Seed
  <2>2. CASE ~ Fresh(entry[c], started[c])
    BY <1>3, <2>2 DEF Seed
  <2> QED
    BY <2>1, <2>2
<1>4. ASSUME NEW c \in Callers, Asks(c) PROVE Stamped' /\ Unanswered' /\ LiveIsFresh'
  <2> USE DEF Providers
  <2>1. /\ UNCHANGED <<clock, token, cache, memo, row, started, known, entry, loadFailed>>
        /\ pc[c] \in Providers
    BY <1>4, AskOutcome
  <2>2. ASSUME NEW label \in Providers, pc' = [pc EXCEPT ![c] = label], UNCHANGED <<quote, answer>>
        PROVE  Stamped' /\ Unanswered' /\ LiveIsFresh'
    BY <2>1, <2>2
  <2>3. ASSUME NEW label \in {"profile", "remember"}, pc' = [pc EXCEPT ![c] = label],
               NEW currency \in BOOLEAN, Fetched(c, currency), UNCHANGED answer
        PROVE  Stamped' /\ Unanswered' /\ LiveIsFresh'
    BY <2>1, <2>3, FetchedPrice
  <2>4. ASSUME entry[c] = None \/ entry[c] \in Price, pc' = [pc EXCEPT ![c] = "done"],
               answer' = [answer EXCEPT ![c] = IF entry[c] = None THEN Error ELSE Stale(entry[c])],
               UNCHANGED quote
        PROVE  Stamped' /\ Unanswered' /\ LiveIsFresh'
    BY <2>1, <2>4
  <2> QED
    BY <1>4, <2>2, <2>3, <2>4, AskOutcome
<1>5. ASSUME NEW c \in Callers, AskProfile(c) PROVE Stamped' /\ Unanswered' /\ LiveIsFresh'
  BY <1>5 DEF AskProfile
<1>6. ASSUME NEW c \in Callers, Remember(c) PROVE Stamped' /\ Unanswered' /\ LiveIsFresh'
  BY <1>6 DEF Remember
<1>7. ASSUME NEW c \in Callers, Store(c) PROVE Stamped' /\ Unanswered' /\ LiveIsFresh'
  <2>1. quote[c] \in Price /\ quote[c].asOf = started[c] /\ started[c] \in Nat
    BY <1>7 DEF Store
  <2>2. started[c] - quote[c].asOf < ttl
    BY <2>1, TTLAssumption
  <2>3. /\ answer' = [answer EXCEPT ![c] = Live(quote[c])] /\ pc' = [pc EXCEPT ![c] = "done"]
        /\ UNCHANGED <<started, quote>>
    BY <1>7 DEF Store
  <2> QED
    BY <2>1, <2>2, <2>3
<1>8. ASSUME NEW c \in Callers, Return(c) PROVE Stamped' /\ Unanswered' /\ LiveIsFresh'
  BY <1>8 DEF Return
<1>9. CASE Tick
  BY <1>9 DEF Tick
<1>10. CASE Restart
  BY <1>10 DEF Restart
<1>11. CASE UNCHANGED vars
  BY <1>11 DEF vars
<1> QED
  BY <1>1, <1>2, <1>3, <1>4, <1>5, <1>6, <1>7, <1>8, <1>9, <1>10, <1>11 DEF Next, Asks

(* A call that saw a price keeps hold of one.                              *)
LEMMA KnownStep ==
  ASSUME IInv, [Next]_vars
  PROVE  InReach' /\ LastKnownServed'
<1> USE Absent, AnswerType DEF IInv, TypeOK, Set, Goto, Finish, call, FirstProvider,
                                  InReach, LastKnownServed, Unanswered
<1>1. ASSUME NEW c \in Callers, Begin(c) PROVE InReach' /\ LastKnownServed'
  BY <1>1 DEF Begin
<1>2. ASSUME NEW c \in Callers, Load(c) PROVE InReach' /\ LastKnownServed'
  BY <1>2 DEF Load
<1>3. ASSUME NEW c \in Callers, Seed(c) PROVE InReach' /\ LastKnownServed'
  BY <1>3 DEF Seed
<1>4. ASSUME NEW c \in Callers, Asks(c) PROVE InReach' /\ LastKnownServed'
  <2> USE DEF Providers
  <2>1. /\ UNCHANGED <<clock, token, cache, memo, row, started, known, entry, loadFailed>>
        /\ pc[c] \in Providers
    BY <1>4, AskOutcome
  <2>2. ASSUME NEW label \in Providers, pc' = [pc EXCEPT ![c] = label], UNCHANGED <<quote, answer>>
        PROVE  InReach' /\ LastKnownServed'
    BY <2>1, <2>2
  <2>3. ASSUME NEW label \in {"profile", "remember"}, pc' = [pc EXCEPT ![c] = label],
               NEW currency \in BOOLEAN, Fetched(c, currency), UNCHANGED answer
        PROVE  InReach' /\ LastKnownServed'
    BY <2>1, <2>3, FetchedPrice
  <2>4. ASSUME entry[c] = None \/ entry[c] \in Price, pc' = [pc EXCEPT ![c] = "done"],
               answer' = [answer EXCEPT ![c] = IF entry[c] = None THEN Error ELSE Stale(entry[c])],
               UNCHANGED quote
        PROVE  InReach' /\ LastKnownServed'
    BY <2>1, <2>4
  <2> QED
    BY <1>4, <2>2, <2>3, <2>4, AskOutcome
<1>5. ASSUME NEW c \in Callers, AskProfile(c) PROVE InReach' /\ LastKnownServed'
  BY <1>5 DEF AskProfile
<1>6. ASSUME NEW c \in Callers, Remember(c) PROVE InReach' /\ LastKnownServed'
  BY <1>6 DEF Remember
<1>7. ASSUME NEW c \in Callers, Store(c) PROVE InReach' /\ LastKnownServed'
  BY <1>7 DEF Store
<1>8. ASSUME NEW c \in Callers, Return(c) PROVE InReach' /\ LastKnownServed'
  BY <1>8 DEF Return
<1>9. CASE Tick
  BY <1>9 DEF Tick
<1>10. CASE Restart
  BY <1>10 DEF Restart
<1>11. CASE UNCHANGED vars
  BY <1>11 DEF vars
<1> QED
  BY <1>1, <1>2, <1>3, <1>4, <1>5, <1>6, <1>7, <1>8, <1>9, <1>10, <1>11 DEF Next, Asks

----------------------------------------------------------------------------
(* The inductive invariant holds whatever callers overlap, providers fail  *)
(* and processes restart.                                                  *)
THEOREM Invariance == Spec => []IInv
<1>1. Init => IInv
  <2> SUFFICES ASSUME Init PROVE IInv
    OBVIOUS
  <2>1. TypeOK
    BY Absent, AnswerType DEF Init, TypeOK
  <2> QED
    BY <2>1, Absent DEF Init, IInv, HonestInHand, Honest, Begun, Stamped, Unanswered, InReach,
                        AgeNeverUnderstated, LiveIsFresh, LastKnownServed
<1>2. IInv /\ [Next]_vars => IInv'
  BY TypeStep, HonestStep, FreshStep, KnownStep DEF IInv
<1> QED
  BY <1>1, <1>2, PTL DEF Spec

(* Type correctness of the quoter, its cache and its row.                  *)
THEOREM TypeCorrect == Spec => []TypeOK
<1>1. IInv => TypeOK
  BY DEF IInv
<1> QED
  BY <1>1, Invariance, PTL

(* Quote marks every price of a TTL or more as stale, whether it came from *)
(* the cache, from the row of an earlier process or from a provider.       *)
THEOREM FreshOrMarked == Spec => []LiveIsFresh
<1>1. IInv => LiveIsFresh
  BY DEF IInv
<1> QED
  BY <1>1, Invariance, PTL

(* No cached, stored or returned price is stamped later than the moment a  *)
(* provider gave it, through seeding and over any number of restarts.      *)
THEOREM AgesAreHonest == Spec => []AgeNeverUnderstated
<1>1. IInv => AgeNeverUnderstated
  BY DEF IInv
<1> QED
  BY <1>1, Invariance, PTL

(* A call that began with a price cached or stored ends in an error only   *)
(* where the row could not be read, whatever the providers do.             *)
THEOREM LastKnownSurvives == Spec => []LastKnownServed
<1>1. IInv => LastKnownServed
  BY DEF IInv
<1> QED
  BY <1>1, Invariance, PTL

=============================================================================
