---------------------------- MODULE LedgerProofs ----------------------------
(***************************************************************************)
(* Proofs about Ledger, for any number of writers, any files and forms,    *)
(* and about BrokerImport, for any accounts, windows and layouts.          *)
(*                                                                         *)
(* The table compares fingerprints, the properties speak of what they      *)
(* stand for: every row's fingerprint is current (FingerprintsCurrent), so *)
(* the two agree.  A loop that got past a trade knows it to be on record   *)
(* (PassedIsOnRecord), whoever stored it, because no step removes one.     *)
(*                                                                         *)
(* An import is a loop over the trades its parser gives, so the ledger's   *)
(* invariant holds of imports too.  A window of an account has all rows of *)
(* its days (SomeDays); the parsers cancel within a day, and net within an *)
(* order, which a window that does not cut it has whole (OrdersWhole):     *)
(* what they give of the window they give of the account (SameParsed), so  *)
(* neither a row nor a loop has anything else (LoopsOfAccount).            *)
(*                                                                         *)
(* The units: a sum over rows is taken apart by instrument and by order    *)
(* (SumUnion, SumByKind); cancelled transfers are matched, the k-th buy    *)
(* with the k-th sale like it, and add up to nothing (CancelledSum); an    *)
(* order's transaction has its rows' units (OrderUnits).  After an import  *)
(* of the whole account the ledger's trades and the account's transactions *)
(* are one to one (LedgerIsAccount), and the sums agree.                   *)
(***************************************************************************)
EXTENDS BrokerImport, SequenceTheorems, FiniteSetTheorems, WellFoundedInduction, TLAPS

FingerprintsCurrent == \A i \in DOMAIN rows : rows[i].fingerprint = Fingerprint(rows[i].tx)

IdleAtStart == \A w \in Writers : pc[w] = "idle" => at[w] = 1

PassedIsOnRecord ==
  \A w \in Writers : \A j \in DOMAIN txs[w] :
    j < at[w] /\ txs[w][j].key \in Trades =>
      \E i \in DOMAIN rows : rows[i].tx.key = txs[w][j].key

IInv ==
  /\ TypeOK /\ FingerprintsCurrent /\ IdleAtStart /\ PassedIsOnRecord
  /\ OneRowPerTransaction /\ ImportsComplete /\ StaleFormsMiss

(* What a step leaves of the rows that came from brokers. *)
TradesKept ==
  \A i \in DOMAIN rows :
    rows[i].tx.key \in Trades => i \in DOMAIN rows' /\ rows'[i] = rows[i]

----------------------------------------------------------------------------

(* What a user imports or posts is a sequence of transactions.             *)
LEMMA GivenType ==
  ASSUME NEW given \in Files \union Batches
  PROVE  given \in Seq(Transaction)
<1>1. [key : Trades, ref : Refs] \subseteq Transaction
      /\ [key : Credits, ref : Refs] \subseteq Transaction
  BY DEF Transaction
<1> QED
  BY <1>1, SeqMonotonic, FileAssumption, BatchAssumption

(* Transactions with one fingerprint are one logical transaction.          *)
LEMMA SameFingerprint ==
  ASSUME NEW a, NEW b
  PROVE  Fingerprint(a) = Fingerprint(b) <=> a.key = b.key
BY DEF Fingerprint

(* A step that keeps the trades keeps what loops and imports rely on.      *)
LEMMA RecordKeeps ==
  ASSUME TradesKept,
         NEW key \in Trades, \E i \in DOMAIN rows : rows[i].tx.key = key
  PROVE  \E i \in DOMAIN rows' : rows'[i].tx.key = key
BY DEF TradesKept

(* A new row: the table gains one transaction that it had no row for.      *)
LEMMA InsertKeeps ==
  ASSUME IInv, NEW w \in Writers, InsertNew(w)
  PROVE  IInv' /\ TradesKept
<1> DEFINE tx == txs[w][at[w]]
           row == [tx |-> tx, fingerprint |-> Fingerprint(tx)]
<1>1. /\ pc[w] = "storing" /\ at[w] \in DOMAIN txs[w] /\ ~ OnRecord(tx)
      /\ NextId = lastId + 1 /\ NextId <= MaxId
      /\ DOMAIN rows' = DOMAIN rows \union {NextId}
      /\ rows'[NextId] = row /\ (\A i \in DOMAIN rows : i # NextId => rows'[i] = rows[i])
      /\ lastId' = NextId
      /\ at' = [at EXCEPT ![w] = @ + 1]
      /\ UNCHANGED <<pc, txs, imported, deleted>>
  BY DEF InsertNew, AtTransaction, NextId, history
<1>2. tx \in Transaction
  <2>1. txs[w] \in Seq(Transaction)
    BY DEF IInv, TypeOK
  <2> QED
    BY <1>1, <2>1
<1>3. /\ DOMAIN rows \subseteq 1..lastId /\ deleted \subseteq 1..lastId /\ lastId \in Nat
      /\ NextId \notin DOMAIN rows /\ NextId \notin deleted /\ NextId \in 1..NextId
      /\ NextId \in 0..MaxId /\ 1..lastId \subseteq 1..NextId
  BY <1>1, MaxIdAssumption DEF IInv, TypeOK
<1>4. rows'[NextId].tx = tx /\ rows'[NextId].fingerprint = Fingerprint(tx)
  BY <1>1
<1>5. \A i \in DOMAIN rows : rows'[i] = rows[i]
  BY <1>1, <1>3
<1> HIDE DEF tx, row
<1>6. TypeOK'
  <2>1. DOMAIN rows' \subseteq 1..lastId' /\ lastId' \in 0..MaxId /\ deleted' \subseteq 1..lastId'
    BY <1>1, <1>3
  <2>2. \A i \in DOMAIN rows' : rows'[i].tx \in Transaction
    BY <1>1, <1>2, <1>4, <1>5 DEF IInv, TypeOK
  <2>3. /\ at' \in [Writers -> Nat \ {0}]
    BY <1>1 DEF IInv, TypeOK
  <2> QED
    BY <1>1, <2>1, <2>2, <2>3 DEF IInv, TypeOK
<1>7. FingerprintsCurrent'
  BY <1>1, <1>4, <1>5 DEF IInv, FingerprintsCurrent
<1>8. IdleAtStart'
  BY <1>1 DEF IInv, IdleAtStart, TypeOK
<1>9. TradesKept
  BY <1>1, <1>5 DEF TradesKept
<1>10. PassedIsOnRecord'
  <2> SUFFICES ASSUME NEW v \in Writers, NEW j \in DOMAIN txs[v],
                      j < at'[v], txs[v][j].key \in Trades
               PROVE  \E i \in DOMAIN rows' : rows'[i].tx.key = txs[v][j].key
    BY <1>1 DEF PassedIsOnRecord
  <2>1. CASE j < at[v]
    BY <1>9, <2>1, RecordKeeps DEF IInv, PassedIsOnRecord
  <2>2. CASE ~ (j < at[v])
    <3>1. v = w /\ at'[w] = at[w] + 1
      BY <1>1, <2>2 DEF IInv, TypeOK
    <3>2. j \in Nat /\ at[w] \in Nat
      BY DEF IInv, TypeOK
    <3>3. j = at[w]
      BY <2>2, <3>1, <3>2
    <3> QED
      BY <1>1, <1>4, <3>1, <3>3 DEF tx
  <2> QED
    BY <2>1, <2>2
<1>11. OneRowPerTransaction'
  <2>1. \A i \in DOMAIN rows : rows[i].tx.key # tx.key
    BY <1>1, SameFingerprint DEF OnRecord, IInv, FingerprintsCurrent
  <2> QED
    BY <1>1, <1>4, <1>5, <2>1 DEF IInv, OneRowPerTransaction
<1>12. ImportsComplete'
  BY <1>1, <1>9, RecordKeeps DEF IInv, ImportsComplete
<1>13. StaleFormsMiss'
  BY <1>1, <1>3 DEF IInv, StaleFormsMiss
<1> QED
  BY <1>6, <1>7, <1>8, <1>9, <1>10, <1>11, <1>12, <1>13 DEF IInv

(* A loop that ends, well or not: nobody's position or rows change, and    *)
(* what it reports as imported is on record.                               *)
LEMMA StopKeeps ==
  ASSUME IInv, NEW w \in Writers, pc[w] = "storing", Stop(w),
         imported' \subseteq Trades \union Credits,
         \A key \in (imported' \ imported) \intersect Trades :
           \E i \in DOMAIN rows : rows[i].tx.key = key
  PROVE  IInv' /\ TradesKept
<1>1. /\ pc' = [pc EXCEPT ![w] = "idle"] /\ txs' = [txs EXCEPT ![w] = << >>]
      /\ at' = [at EXCEPT ![w] = 1]
      /\ UNCHANGED <<rows, lastId, deleted>>
  BY DEF Stop
<1>2. << >> \in Seq(Transaction) /\ DOMAIN << >> = {}
  OBVIOUS
<1>3. TypeOK'
  <2>1. /\ pc' \in [Writers -> {"idle", "storing"}] /\ txs' \in [Writers -> Seq(Transaction)]
        /\ at' \in [Writers -> Nat \ {0}]
    BY <1>1, <1>2 DEF IInv, TypeOK
  <2> QED
    BY <1>1, <2>1 DEF IInv, TypeOK
<1>4. FingerprintsCurrent' /\ OneRowPerTransaction' /\ StaleFormsMiss' /\ TradesKept
  BY <1>1 DEF IInv, FingerprintsCurrent, OneRowPerTransaction, StaleFormsMiss, TradesKept
<1>5. IdleAtStart'
  BY <1>1 DEF IInv, IdleAtStart, TypeOK
<1>6. PassedIsOnRecord'
  <2>1. \A v \in Writers \ {w} : txs'[v] = txs[v] /\ at'[v] = at[v]
    BY <1>1 DEF IInv, TypeOK
  <2>2. DOMAIN txs'[w] = {}
    BY <1>1, <1>2 DEF IInv, TypeOK
  <2> QED
    BY <1>1, <2>1, <2>2 DEF IInv, PassedIsOnRecord
<1>7. ImportsComplete'
  BY <1>1 DEF IInv, ImportsComplete
<1> QED
  BY <1>3, <1>4, <1>5, <1>6, <1>7 DEF IInv

(* A form changes rows of credits only, and hands out no id.               *)
LEMMA FormsKeep ==
  ASSUME IInv, NEW i \in 1..lastId, Forms(i)
  PROVE  IInv' /\ TradesKept
<1>1. /\ i \in DOMAIN rows /\ rows[i].tx.key \in Credits
      /\ UNCHANGED <<lastId, pc, txs, at, imported>>
      /\ deleted' \in {deleted, deleted \union {i}}
      /\ DOMAIN rows' \subseteq DOMAIN rows
      /\ \A j \in DOMAIN rows \ {i} : j \in DOMAIN rows' /\ rows'[j] = rows[j]
  BY DEF Forms, UpdateManualInterestCredit, DeleteManualInterestCredit, ManualInterest,
         loop, history
<1>2. TradesKept
  BY <1>1, KeyAssumption DEF TradesKept
<1>3. \/ /\ i \in DOMAIN rows' /\ deleted' = deleted
         /\ rows'[i].tx \in Transaction /\ rows'[i].fingerprint = Fingerprint(rows'[i].tx)
         /\ \A j \in DOMAIN rows \ {i} : rows[j].fingerprint # Fingerprint(rows'[i].tx)
      \/ i \notin DOMAIN rows' /\ deleted' = deleted \union {i}
  <2>1. CASE DeleteManualInterestCredit(i)
    BY <2>1 DEF DeleteManualInterestCredit
  <2>2. CASE \E key \in Credits : UpdateManualInterestCredit(i, key)
    <3>1. PICK key \in Credits : UpdateManualInterestCredit(i, key)
      BY <2>2
    <3> DEFINE tx == [key |-> key, ref |-> rows[i].tx.ref]
    <3>2. rows[i].tx \in Transaction
      BY <1>1 DEF IInv, TypeOK
    <3>3. tx \in Transaction
      BY <3>2 DEF Transaction
    <3>4. /\ \A j \in DOMAIN rows \ {i} : rows[j].fingerprint # Fingerprint(tx)
          /\ rows' = [rows EXCEPT ![i] = [tx |-> tx, fingerprint |-> Fingerprint(tx)]]
          /\ deleted' = deleted
      BY <3>1 DEF UpdateManualInterestCredit, history
    <3> HIDE DEF tx
    <3>5. /\ rows'[i] = [tx |-> tx, fingerprint |-> Fingerprint(tx)]
          /\ i \in DOMAIN rows'
      BY <1>1, <3>4
    <3> QED
      BY <3>3, <3>4, <3>5
  <2> QED
    BY <2>1, <2>2 DEF Forms
<1>4. TypeOK'
  <2>1. DOMAIN rows' \subseteq 1..lastId' /\ deleted' \subseteq 1..lastId'
    BY <1>1 DEF IInv, TypeOK
  <2>2. \A j \in DOMAIN rows' : rows'[j].tx \in Transaction
    BY <1>1, <1>3 DEF IInv, TypeOK
  <2> QED
    BY <1>1, <2>1, <2>2 DEF IInv, TypeOK
<1>5. FingerprintsCurrent'
  BY <1>1, <1>3 DEF IInv, FingerprintsCurrent
<1>6. IdleAtStart'
  BY <1>1 DEF IInv, IdleAtStart
<1>7. PassedIsOnRecord'
  BY <1>1, <1>2, RecordKeeps DEF IInv, PassedIsOnRecord
<1>8. OneRowPerTransaction'
  <2>1. \A j \in DOMAIN rows' \ {i} :
          i \in DOMAIN rows' => rows'[j].tx.key # rows'[i].tx.key
    BY <1>1, <1>3, SameFingerprint DEF IInv, FingerprintsCurrent
  <2> QED
    BY <1>1, <2>1 DEF IInv, OneRowPerTransaction
<1>9. ImportsComplete'
  BY <1>1, <1>2, RecordKeeps DEF IInv, ImportsComplete
<1>10. StaleFormsMiss'
  BY <1>1, <1>3 DEF IInv, StaleFormsMiss
<1> QED
  BY <1>2, <1>4, <1>5, <1>6, <1>7, <1>8, <1>9, <1>10 DEF IInv

(* A loop that begins changes neither the rows nor anybody's position.      *)
LEMMA BeginKeeps ==
  ASSUME IInv, NEW w \in Writers, NEW given \in Seq(Transaction), Begin(w, given)
  PROVE  IInv' /\ TradesKept
<1>1. /\ pc[w] = "idle" /\ pc' = [pc EXCEPT ![w] = "storing"]
      /\ txs' = [txs EXCEPT ![w] = given]
      /\ UNCHANGED <<rows, lastId, at, imported, deleted>>
  BY DEF Begin, history
<1>2. TypeOK'
  BY <1>1 DEF IInv, TypeOK
<1>3. FingerprintsCurrent' /\ OneRowPerTransaction' /\ ImportsComplete' /\ StaleFormsMiss'
      /\ TradesKept
  BY <1>1 DEF IInv, FingerprintsCurrent, OneRowPerTransaction, ImportsComplete,
     StaleFormsMiss, TradesKept
<1>4. IdleAtStart'
  BY <1>1 DEF IInv, TypeOK, IdleAtStart
<1>5. PassedIsOnRecord'
  <2>1. \A v \in Writers \ {w} : txs'[v] = txs[v]
    BY <1>1 DEF IInv, TypeOK
  <2>2. at'[w] = 1 /\ txs'[w] = given
    BY <1>1 DEF IInv, TypeOK, IdleAtStart
  <2>3. \A j \in DOMAIN txs'[w] : ~ (j < at'[w])
    BY <2>2
  <2> QED
    BY <1>1, <2>1, <2>3 DEF IInv, PassedIsOnRecord
<1> QED
  BY <1>2, <1>3, <1>4, <1>5 DEF IInv

(* A step of a loop under way.                                              *)
LEMMA StoreKeeps ==
  ASSUME IInv, NEW writer \in Writers, Store(writer)
  PROVE  IInv' /\ TradesKept
<1>1. ASSUME NEW w \in Writers, SkipDuplicate(w)
      PROVE  IInv' /\ TradesKept
  <2>1. /\ at[w] \in DOMAIN txs[w] /\ OnRecord(txs[w][at[w]]) /\ pc[w] = "storing"
        /\ at' = [at EXCEPT ![w] = @ + 1]
        /\ UNCHANGED <<rows, lastId, pc, txs, imported, deleted>>
    BY <1>1 DEF SkipDuplicate, AtTransaction, history
  <2>2. TypeOK'
    BY <2>1 DEF IInv, TypeOK
  <2>3. FingerprintsCurrent' /\ OneRowPerTransaction' /\ ImportsComplete' /\ StaleFormsMiss'
        /\ TradesKept
    BY <2>1 DEF IInv, FingerprintsCurrent, OneRowPerTransaction, ImportsComplete,
       StaleFormsMiss, TradesKept
  <2>4. IdleAtStart'
    BY <2>1 DEF IInv, TypeOK, IdleAtStart
  <2>5. PassedIsOnRecord'
    <3> SUFFICES ASSUME NEW v \in Writers, NEW j \in DOMAIN txs[v],
                        j < at'[v], txs[v][j].key \in Trades
                 PROVE  \E i \in DOMAIN rows : rows[i].tx.key = txs[v][j].key
      BY <2>1 DEF PassedIsOnRecord
    <3>1. CASE j < at[v]
      BY <3>1 DEF IInv, PassedIsOnRecord
    <3>2. CASE ~ (j < at[v])
      <4>1. v = w /\ at'[w] = at[w] + 1
        BY <2>1, <3>2 DEF IInv, TypeOK
      <4>2. j \in Nat /\ at[w] \in Nat
        BY DEF IInv, TypeOK
      <4>3. j = at[w]
        BY <3>2, <4>1, <4>2
      <4> QED
        BY <2>1, <4>1, <4>3, SameFingerprint DEF OnRecord, IInv, FingerprintsCurrent
    <3> QED
      BY <3>1, <3>2
  <2> QED
    BY <2>2, <2>3, <2>4, <2>5 DEF IInv
<1>2. ASSUME NEW w \in Writers, Finish(w)
      PROVE  IInv' /\ TradesKept
  <2>1. pc[w] = "storing" /\ at[w] \notin DOMAIN txs[w] /\ Stop(w)
        /\ imported' = imported \union Given(w)
    BY <1>2 DEF Finish
  <2>2. txs[w] \in Seq(Transaction) /\ at[w] \in Nat \ {0}
    BY DEF IInv, TypeOK
  <2>3. \A j \in DOMAIN txs[w] : j < at[w]
    BY <2>1, <2>2
  <2>4. \A j \in DOMAIN txs[w] : txs[w][j] \in Transaction
    BY <2>2
  <2>5. Given(w) \subseteq Trades \union Credits
    BY <2>4 DEF Given, Transaction
  <2>6. \A key \in Given(w) \intersect Trades : \E i \in DOMAIN rows : rows[i].tx.key = key
    BY <2>3 DEF Given, IInv, PassedIsOnRecord
  <2>7. imported' \subseteq Trades \union Credits
    BY <2>1, <2>5 DEF IInv, TypeOK
  <2> QED
    BY <2>1, <2>6, <2>7, StopKeeps
<1>3. ASSUME NEW w \in Writers, BreakOff(w)
      PROVE  IInv' /\ TradesKept
  BY <1>3, StopKeeps DEF BreakOff, AtTransaction, IInv, TypeOK
<1> QED
  BY <1>1, <1>2, <1>3, InsertKeeps DEF Store

(* No step at all.                                                          *)
LEMMA StutterKeeps ==
  ASSUME IInv, UNCHANGED vars
  PROVE  IInv' /\ TradesKept
BY DEF vars, loop, history, IInv, TypeOK, FingerprintsCurrent, IdleAtStart, PassedIsOnRecord,
   OneRowPerTransaction, ImportsComplete, StaleFormsMiss, TradesKept

(* One step of anybody keeps the invariant and every trade's row.          *)
LEMMA StepKeeps ==
  ASSUME IInv, [Next]_vars
  PROVE  IInv' /\ TradesKept
<1>1. ASSUME NEW w \in Writers, NEW given \in Files \union Batches, Begin(w, given)
      PROVE  IInv' /\ TradesKept
  BY <1>1, GivenType, BeginKeeps
<1> QED
  BY <1>1, StutterKeeps, StoreKeeps, FormsKeep DEF Next

(* The ledger is empty at first.                                           *)
LEMMA Start ==
  ASSUME Init
  PROVE  IInv
<1>1. TypeOK
  BY MaxIdAssumption DEF Init, TypeOK
<1>2. FingerprintsCurrent /\ OneRowPerTransaction /\ ImportsComplete /\ StaleFormsMiss
  BY DEF Init, FingerprintsCurrent, OneRowPerTransaction, ImportsComplete, StaleFormsMiss
<1>3. IdleAtStart /\ PassedIsOnRecord
  BY DEF Init, IdleAtStart, PassedIsOnRecord
<1> QED
  BY <1>1, <1>2, <1>3 DEF IInv

(* IInv holds of every state the program reaches.                          *)
THEOREM Invariance == Spec => []IInv
<1>1. Init => IInv
  BY Start
<1>2. IInv /\ [Next]_vars => IInv'
  BY StepKeeps
<1> QED
  BY <1>1, <1>2, PTL DEF Spec

(* Every reachable state is well typed.                                    *)
THEOREM TypeCorrect == Spec => []TypeOK
<1>1. IInv => TypeOK
  BY DEF IInv
<1> QED
  BY <1>1, Invariance, PTL

(* One logical transaction is one row, whatever is imported, entered and   *)
(* edited by however many writers.                                         *)
THEOREM NoDuplicates == Spec => []OneRowPerTransaction
<1>1. IInv => OneRowPerTransaction
  BY DEF IInv
<1> QED
  BY <1>1, Invariance, PTL

(* What an import that ended well was given is on record, for good.        *)
THEOREM ImportsAreComplete == Spec => []ImportsComplete
<1>1. IInv => ImportsComplete
  BY DEF IInv
<1> QED
  BY <1>1, Invariance, PTL

(* The id of a deleted row is never another row's.                         *)
THEOREM NoStaleForm == Spec => []StaleFormsMiss
<1>1. IInv => StaleFormsMiss
  BY DEF IInv
<1> QED
  BY <1>1, Invariance, PTL

(* No step, of a loop or of a form, touches a row that came from a broker. *)
THEOREM TradesStay == Spec => ImportedRowsStay
<1>1. IInv /\ [Next]_vars =>
        [\A i \in DOMAIN rows :
           rows[i].tx.key \in Trades => i \in DOMAIN rows' /\ rows'[i] = rows[i]]_vars
  BY StepKeeps DEF TradesKept
<1> QED
  BY <1>1, Invariance, PTL DEF Spec, ImportedRowsStay

----------------------------------------------------------------------------

(* If C has a set whenever it has that set less one, whichever, it has     *)
(* all subsets of a finite set.                                            *)
LEMMA SetInduction ==
  ASSUME NEW S, IsFiniteSet(S), NEW C,
         \A T \in SUBSET S : (\A x \in T : T \ {x} \in C) => T \in C
  PROVE  \A T \in SUBSET S : T \in C
<1> DEFINE R == StrictSubsetOrdering(S)
           B == {T \in SUBSET S : T \notin C}
<1>1. IsWellFoundedOn(R, SUBSET S)
  BY FS_StrictSubsetOrderingWellFounded, FS_FiniteSubsetsOfFinite
<1> SUFFICES ASSUME B # {} PROVE FALSE
  OBVIOUS
<1>2. B \in SUBSET SUBSET S
  OBVIOUS
<1> HIDE DEF R, B
<1>3. PICK T \in B : \A U \in B : ~ (<<U, T>> \in R)
  BY <1>1, <1>2, WFMin, Zenon
<1>4. ASSUME NEW x \in T PROVE T \ {x} \in C
  <2>1. T \in SUBSET S /\ T \ {x} \in SUBSET S
    BY <1>2, <1>3
  <2>2. <<T \ {x}, T>> \in R
    BY <2>1 DEF R, StrictSubsetOrdering
  <2>3. T \ {x} \notin B
    BY <1>3, <2>2
  <2> QED
    BY <2>1, <2>3 DEF B
<1> QED
  BY <1>3, <1>4 DEF B

(* A finite set of places has a first and a last.                          *)
LEMMA Ends ==
  ASSUME NEW S \in SUBSET Nat, IsFiniteSet(S), S # {}
  PROVE  /\ \E x \in S : \A y \in S : x <= y
         /\ \E x \in S : \A y \in S : y <= x
<1> DEFINE First(T) == \E x \in T : \A y \in T : x <= y
           Last(T)  == \E x \in T : \A y \in T : y <= x
           C == {T \in SUBSET S : T = {} \/ (First(T) /\ Last(T))}
<1>1. ASSUME NEW T \in SUBSET S, \A x \in T : T \ {x} \in C PROVE T \in C
  <2> SUFFICES ASSUME T # {} PROVE First(T) /\ Last(T)
    OBVIOUS
  <2>1. PICK x \in T : TRUE
    OBVIOUS
  <2>2. T \ {x} = {} \/ (First(T \ {x}) /\ Last(T \ {x}))
    BY <1>1
  <2>3. CASE T \ {x} = {}
    BY <2>3
  <2>4. CASE First(T \ {x}) /\ Last(T \ {x})
    <3>1. First(T)
      <4>1. PICK m \in T \ {x} : \A y \in T \ {x} : m <= y
        BY <2>4
      <4> QED
        BY <4>1
    <3>2. Last(T)
      <4>1. PICK m \in T \ {x} : \A y \in T \ {x} : y <= m
        BY <2>4
      <4> QED
        BY <4>1
    <3> QED
      BY <3>1, <3>2
  <2> QED
    BY <2>2, <2>3, <2>4
<1> HIDE DEF C
<1>2. \A T \in SUBSET S : T \in C
  BY <1>1, SetInduction
<1>3. S \in C
  BY <1>2
<1> QED
  BY <1>3 DEF C

(* The least of a set of places.                                           *)
LEMMA MinPlace ==
  ASSUME NEW S \in SUBSET Nat, IsFiniteSet(S), S # {}
  PROVE  Min(S) \in S
BY Ends DEF Min

Before(S, i) == {j \in S : j < i}

(* There is a place with as many before it as are asked for.               *)
LEMMA PlaceOf ==
  ASSUME NEW S \in SUBSET Nat, IsFiniteSet(S), NEW k \in 1..Cardinality(S)
  PROVE  \E i \in S : Cardinality(Before(S, i)) = k - 1
<1> DEFINE Placed(T) == \A n \in 1..Cardinality(T) : \E i \in T : Cardinality(Before(T, i)) = n - 1
           C == {T \in SUBSET S : Placed(T)}
<1>1. ASSUME NEW T \in SUBSET S, \A x \in T : T \ {x} \in C PROVE T \in C
  <2> SUFFICES Placed(T)
    OBVIOUS
  <2>1. IsFiniteSet(T)
    BY FS_Subset
  <2>2. CASE T = {}
    BY <2>2, FS_EmptySet
  <2>3. CASE T # {}
    <3>1. PICK m \in T : \A y \in T : y <= m
      BY <2>1, <2>3, Ends
    <3> DEFINE U == T \ {m}
    <3>2. IsFiniteSet(U) /\ Cardinality(T) = Cardinality(U) + 1 /\ Cardinality(U) \in Nat
      <4>1. IsFiniteSet(T \ {m}) /\ Cardinality(T \ {m}) = Cardinality(T) - 1
        BY <2>1, <3>1, FS_RemoveElement
      <4>2. Cardinality(T) \in Nat /\ Cardinality(T \ {m}) \in Nat
        BY <2>1, <4>1, FS_CardinalityType
      <4> QED
        BY <4>1, <4>2
    <3>3. Placed(U)
      BY <1>1
    <3>4. Before(T, m) = U
      <4>1. \A j \in T : j < m <=> j # m
        <5> TAKE j \in T
        <5>1. j \in Nat /\ m \in Nat /\ j <= m
          BY <3>1
        <5> QED
          BY <5>1
      <4> QED
        BY <4>1 DEF Before
    <3>5. \A i \in U : Before(T, i) = Before(U, i)
      BY <3>1 DEF Before
    <3> SUFFICES ASSUME NEW n \in 1..Cardinality(T)
                 PROVE  \E i \in T : Cardinality(Before(T, i)) = n - 1
      OBVIOUS
    <3>6. CASE n = Cardinality(U) + 1
      <4>1. Cardinality(Before(T, m)) = n - 1 /\ m \in T
        BY <3>1, <3>2, <3>4, <3>6
      <4> QED
        BY <4>1
    <3>7. CASE n # Cardinality(U) + 1
      <4>1. n \in 1..Cardinality(U)
        BY <3>2, <3>7
      <4>2. PICK i \in U : Cardinality(Before(U, i)) = n - 1
        BY <3>3, <4>1
      <4> QED
        BY <3>5, <4>2
    <3> QED
      BY <3>6, <3>7
  <2> QED
    BY <2>2, <2>3
<1> HIDE DEF C
<1>2. \A T \in SUBSET S : T \in C
  BY <1>1, SetInduction
<1>3. S \in C
  BY <1>2
<1> QED
  BY <1>3 DEF C

(* What a loop is given of a file is what was parsed, all of it in a row.  *)
LEMMA RowsInOrder ==
  ASSUME NEW f, DOMAIN f \in SUBSET Nat, IsFiniteSet(DOMAIN f)
  PROVE  /\ DOMAIN InRowOrder(f) = 1..Cardinality(DOMAIN f) /\ Cardinality(DOMAIN f) \in Nat
         /\ \A k \in DOMAIN InRowOrder(f) : \E i \in DOMAIN f : InRowOrder(f)[k] = f[i]
         /\ \A T : (\A i \in DOMAIN f : f[i] \in T) => InRowOrder(f) \in Seq(T)
<1> DEFINE S == DOMAIN f
           place(k) == CHOOSE i \in S : Cardinality(Before(S, i)) = k - 1
<1>1. Cardinality(S) \in Nat
  BY FS_CardinalityType
<1>2. InRowOrder(f) = [k \in 1..Cardinality(S) |-> f[place(k)]]
  BY DEF InRowOrder, Before
<1>3. \A k \in 1..Cardinality(S) : place(k) \in S
  <2> TAKE k \in 1..Cardinality(S)
  <2>1. \E i \in S : Cardinality(Before(S, i)) = k - 1
    BY PlaceOf
  <2> QED
    BY <2>1
<1> HIDE DEF place
<1>4. \A T : (\A i \in S : f[i] \in T) => InRowOrder(f) \in Seq(T)
  <2> SUFFICES ASSUME NEW T, \A i \in S : f[i] \in T PROVE InRowOrder(f) \in Seq(T)
    OBVIOUS
  <2> QED
    BY <1>1, <1>2, <1>3
<1> QED
  BY <1>1, <1>2, <1>3, <1>4

----------------------------------------------------------------------------

(* The orders of a part are in it whole.                                   *)
OrdersWhole(part, rs) ==
  \A i \in DOMAIN part : \A j \in DOMAIN rs :
    rs[j].order = rs[i].order /\ rs[i].order # NoOrder => j \in DOMAIN part

IsPlaces(S) == S \in SUBSET Nat /\ IsFiniteSet(S)

(* Some rows of a file, with all the others of their days.                 *)
SomeDays(part, rs) ==
  /\ DOMAIN part \subseteq DOMAIN rs /\ part = Restrict(rs, DOMAIN part)
  /\ \A i \in DOMAIN part : \A j \in DOMAIN rs :
       rs[j].date = rs[i].date => j \in DOMAIN part

(* A row of a part is that row of the file.                                *)
LEMMA PartRows ==
  ASSUME NEW rs, NEW part, SomeDays(part, rs)
  PROVE  \A i \in DOMAIN part : i \in DOMAIN rs /\ part[i] = rs[i]
BY DEF SomeDays, Restrict

(* An order is in the part whole or not at all.                            *)
LEMMA SameOrder ==
  ASSUME NEW rs, NEW part, SomeDays(part, rs), OrdersWhole(part, rs),
         NEW o, o # NoOrder, Bookings(part, o) # {}
  PROVE  Bookings(rs, o) = Bookings(part, o) /\ byOrder(rs, o) = byOrder(part, o)
<1>1. \A i \in DOMAIN part : i \in DOMAIN rs /\ part[i] = rs[i]
  BY PartRows
<1>2. PICK i \in DOMAIN part : part[i].order = o
  BY DEF Bookings
<1>3. ASSUME NEW j \in DOMAIN rs, rs[j].order = o PROVE j \in DOMAIN part
  BY <1>1, <1>2, <1>3 DEF OrdersWhole
<1>4. Bookings(rs, o) = Bookings(part, o)
  BY <1>1, <1>3 DEF Bookings
<1>5. \A j \in Bookings(part, o) : part[j] = rs[j]
  BY <1>1 DEF Bookings
<1> QED
  BY <1>4, <1>5 DEF byOrder, Restrict

(* What cancels is of one day.                                             *)
LEMMA SameLeftOver ==
  ASSUME NEW rs, NEW part, SomeDays(part, rs), NEW i \in cancelTransferPairs(part)
  PROVE  i \in cancelTransferPairs(rs)
<1> DEFINE Alike(t, qty) == {j \in Bookings(t, NoOrder) :
                               /\ t[j].date = t[i].date /\ t[j].isin = t[i].isin
                               /\ t[j].qty = qty /\ t[j].price = t[i].price}
<1>1. \A j \in DOMAIN part : j \in DOMAIN rs /\ part[j] = rs[j]
  BY PartRows
<1>2. /\ i \in DOMAIN part /\ i \in Bookings(part, NoOrder)
      /\ Cardinality({j \in Alike(part, part[i].qty) : j <= i}) > Cardinality(Alike(part, - part[i].qty))
  BY DEF cancelTransferPairs, Bookings
<1>3. i \in Bookings(rs, NoOrder)
  BY <1>1, <1>2 DEF Bookings
<1>4. \A qty : Alike(rs, qty) = Alike(part, qty)
  <2> TAKE qty
  <2>1. \A j \in Alike(rs, qty) : j \in DOMAIN part
    BY <1>2 DEF SomeDays, Bookings
  <2> QED
    BY <1>1, <1>2, <2>1 DEF Bookings
<1>5. rs[i].qty = part[i].qty
  BY <1>1, <1>2
<1> HIDE DEF Alike
<1>6. Cardinality({j \in Alike(rs, rs[i].qty) : j <= i}) > Cardinality(Alike(rs, - rs[i].qty))
  BY <1>2, <1>4, <1>5
<1> QED
  BY <1>3, <1>6 DEF cancelTransferPairs, Alike

(* What consolidate makes of some days is what it makes of the whole file. *)
LEMMA SameConsolidated ==
  ASSUME NEW rs, NEW part, IsPlaces(DOMAIN rs), SomeDays(part, rs), OrdersWhole(part, rs),
         NoOrder \notin OrderIds, NEW i \in DOMAIN consolidate(part)
  PROVE  i \in DOMAIN consolidate(rs) /\ consolidate(rs)[i] = consolidate(part)[i]
<1> DEFINE Orders(t) == {o \in OrderIds : Bookings(t, o) # {} /\ netQty(byOrder(t, o)) # 0}
           Places(t) == {Min(Bookings(t, o)) : o \in Orders(t)} \union cancelTransferPairs(t)
           Trade(t, j) == IF t[j].order = NoOrder THEN rawRowToTx(t[j])
                          ELSE netOrder(byOrder(t, t[j].order))
<1>1. \A t : consolidate(t) = [j \in Places(t) |-> Trade(t, j)]
  BY DEF consolidate
<1>2. \A j \in DOMAIN part : j \in DOMAIN rs /\ part[j] = rs[j]
  BY PartRows
<1>3. \A o : Bookings(part, o) # {} => Min(Bookings(part, o)) \in Bookings(part, o)
  <2> TAKE o
  <2>1. Bookings(part, o) \in SUBSET DOMAIN rs
    BY <1>2 DEF Bookings
  <2>2. Bookings(part, o) \in SUBSET Nat /\ IsFiniteSet(Bookings(part, o))
    BY <2>1, FS_Subset DEF IsPlaces
  <2> QED
    BY <2>2, MinPlace
<1>4. i \in Places(part)
  BY <1>1
<1> HIDE DEF Orders, Trade
<1>5. CASE i \in cancelTransferPairs(part)
  <2>1. i \in Places(rs)
    BY <1>5, SameLeftOver
  <2>2. i \in DOMAIN part /\ part[i].order = NoOrder
    BY <1>5 DEF cancelTransferPairs, Bookings
  <2>3. Trade(rs, i) = Trade(part, i)
    BY <1>2, <2>2 DEF Trade
  <2> QED
    BY <1>1, <1>4, <2>1, <2>3
<1>6. CASE \E o \in Orders(part) : i = Min(Bookings(part, o))
  <2>1. PICK o \in Orders(part) : i = Min(Bookings(part, o))
    BY <1>6
  <2>2. o \in OrderIds /\ o # NoOrder /\ Bookings(part, o) # {} /\ netQty(byOrder(part, o)) # 0
    BY <2>1 DEF Orders
  <2>3. Bookings(rs, o) = Bookings(part, o) /\ byOrder(rs, o) = byOrder(part, o)
    BY <2>2, SameOrder
  <2>4. i \in Bookings(part, o)
    BY <1>3, <2>1, <2>2
  <2>5. i \in DOMAIN part /\ part[i].order = o /\ rs[i].order = o
    BY <1>2, <2>4 DEF Bookings
  <2>6. o \in Orders(rs)
    BY <2>2, <2>3 DEF Orders
  <2>7. i \in Places(rs)
    BY <2>1, <2>3, <2>6
  <2>8. Trade(rs, i) = Trade(part, i)
    BY <2>2, <2>3, <2>5 DEF Trade
  <2> QED
    BY <1>1, <1>4, <2>7, <2>8
<1> QED
  BY <1>4, <1>5, <1>6

(* A parser has a transaction only where the file has a row.               *)
LEMMA ParsedPlaces ==
  ASSUME NEW rs, IsPlaces(DOMAIN rs), NEW layout \in DegiroLayouts \union FillLayouts
  PROVE  DOMAIN Parse(rs, layout) \subseteq DOMAIN rs
<1>1. DOMAIN consolidate(rs) \subseteq DOMAIN rs
  <2>1. \A o : Bookings(rs, o) # {} => Min(Bookings(rs, o)) \in DOMAIN rs
    <3> TAKE o
    <3>1. Bookings(rs, o) \in SUBSET DOMAIN rs
      BY DEF Bookings
    <3>2. Bookings(rs, o) \in SUBSET Nat /\ IsFiniteSet(Bookings(rs, o))
      BY <3>1, FS_Subset DEF IsPlaces
    <3>3. Bookings(rs, o) # {} => Min(Bookings(rs, o)) \in Bookings(rs, o)
      BY <3>2, MinPlace
    <3> QED
      BY <3>1, <3>3
  <2>2. cancelTransferPairs(rs) \subseteq DOMAIN rs
    BY DEF cancelTransferPairs, Bookings
  <2> QED
    BY <2>1, <2>2 DEF consolidate
<1>2. DOMAIN parseAccountRows(rs) \subseteq DOMAIN rs
  BY DEF parseAccountRows
<1>3. DOMAIN ParseFills(rs, layout) \subseteq DOMAIN rs \/ layout \notin FillLayouts
  BY DEF FillLayouts, ParseFills, parseFlat, parseTransactionHistory, parseActivityStatement,
     parseEtrade
<1> QED
  BY <1>1, <1>2, <1>3 DEF Parse, ParseDegiro

(* What the parser makes of some days is what it makes of the whole file.  *)
LEMMA SameParsed ==
  ASSUME NEW rs, NEW part, IsPlaces(DOMAIN rs), SomeDays(part, rs),
         NEW layout \in DegiroLayouts \union FillLayouts,
         layout = "transactions" => OrdersWhole(part, rs),
         NEW i \in DOMAIN Parse(part, layout)
  PROVE  i \in DOMAIN Parse(rs, layout) /\ Parse(rs, layout)[i] = Parse(part, layout)[i]
<1>1. \A j \in DOMAIN part : j \in DOMAIN rs /\ part[j] = rs[j]
  BY PartRows
<1>2. CASE layout = "transactions"
  <2>1. \A t : Parse(t, layout) = consolidate(t)
    BY <1>2 DEF Parse, ParseDegiro, DegiroLayouts
  <2> QED
    BY <1>2, <2>1, SameConsolidated, OrderAssumption
<1>3. CASE layout = "account"
  <2>1. \A t : Parse(t, layout) = parseAccountRows(t)
    BY <1>3 DEF Parse, ParseDegiro, DegiroLayouts
  <2>2. i \in DOMAIN parseAccountRows(part)
    BY <2>1
  <2>3. i \in DOMAIN part /\ part[i].described = "trade"
    BY <2>2 DEF parseAccountRows
  <2>4. i \in DOMAIN rs /\ rs[i] = part[i]
    BY <1>1, <2>3
  <2>5. i \in DOMAIN parseAccountRows(rs) /\ parseAccountRows(rs)[i] = parseAccountRows(part)[i]
    BY <2>2, <2>3, <2>4 DEF parseAccountRows
  <2> QED
    BY <2>1, <2>5
<1>4. CASE layout = "flat"
  <2>1. \A t : Parse(t, layout) = parseFlat(t)
    BY <1>4 DEF Parse, ParseFills, DegiroLayouts
  <2>2. i \in DOMAIN parseFlat(part)
    BY <2>1
  <2>3. i \in DOMAIN part /\ HasISIN(part[i])
    BY <2>2 DEF parseFlat
  <2>4. i \in DOMAIN rs /\ rs[i] = part[i]
    BY <1>1, <2>3
  <2>5. i \in DOMAIN parseFlat(rs) /\ parseFlat(rs)[i] = parseFlat(part)[i]
    BY <2>2, <2>3, <2>4 DEF parseFlat
  <2> QED
    BY <2>1, <2>5
<1>5. CASE layout = "history"
  <2>1. \A t : Parse(t, layout) = parseTransactionHistory(t)
    BY <1>5 DEF Parse, ParseFills, DegiroLayouts
  <2>2. i \in DOMAIN parseTransactionHistory(part)
    BY <2>1
  <2>3. i \in DOMAIN part /\ part[i].kind \in historyTradeTypes
    BY <2>2 DEF parseTransactionHistory
  <2>4. i \in DOMAIN rs /\ rs[i] = part[i]
    BY <1>1, <2>3
  <2>5. /\ i \in DOMAIN parseTransactionHistory(rs)
        /\ parseTransactionHistory(rs)[i] = parseTransactionHistory(part)[i]
    BY <2>2, <2>3, <2>4 DEF parseTransactionHistory
  <2> QED
    BY <2>1, <2>5
<1>6. CASE layout = "statement"
  <2>1. \A t : Parse(t, layout) = parseActivityStatement(t)
    BY <1>6 DEF Parse, ParseFills, DegiroLayouts
  <2> QED
    BY <1>1, <2>1 DEF parseActivityStatement
<1>7. CASE layout = "etrade"
  <2>1. \A t : Parse(t, layout) = parseEtrade(t)
    BY <1>7 DEF Parse, ParseFills, DegiroLayouts
  <2> QED
    BY <1>1, <2>1 DEF parseEtrade
<1> QED
  BY <1>2, <1>3, <1>4, <1>5, <1>6, <1>7 DEF DegiroLayouts, FillLayouts

(* The rows of an account have places and dates.                           *)
LEMMA AccountRows ==
  ASSUME NEW a \in Accounts
  PROVE  /\ IsPlaces(DOMAIN a.rows) /\ a.layouts \subseteq DegiroLayouts \union FillLayouts
         /\ \A i \in DOMAIN a.rows : a.rows[i].date \in Days
<1>1. a.rows \in Seq(rawRow) \/ a.rows \in Seq(fillRow)
  BY AccountAssumption
<1>2. DOMAIN a.rows = 1..Len(a.rows) /\ Len(a.rows) \in Nat
  BY <1>1
<1>3. IsFiniteSet(1..Len(a.rows))
  BY <1>2, FS_Interval
<1>4. \A i \in DOMAIN a.rows : a.rows[i] \in rawRow \/ a.rows[i] \in fillRow
  BY <1>1
<1>5. \A i \in DOMAIN a.rows : a.rows[i].date \in Days
  BY <1>4 DEF rawRow, fillRow
<1> QED
  BY <1>2, <1>3, <1>5, AccountAssumption DEF IsPlaces

(* An export of a window is some days of the export of the account.        *)
LEMMA Exported ==
  ASSUME NEW a \in Accounts, NEW window, NEW layout
  PROVE  /\ IsPlaces(DOMAIN Export(a, window, layout))
         /\ DOMAIN Export(a, window, layout) \subseteq DOMAIN a.rows
         /\ \A i \in DOMAIN Export(a, window, layout) : Export(a, window, layout)[i] = a.rows[i]
         /\ SomeDays(Export(a, window, layout), Export(a, Days, layout))
<1> DEFINE W(days) == {i \in DOMAIN a.rows : a.rows[i].date \in days /\ Listed(layout, a.rows[i])}
<1>1. \A days : Export(a, days, layout) = [i \in W(days) |-> a.rows[i]]
  BY DEF Export, Restrict
<1>2. \A days : W(days) \in SUBSET DOMAIN a.rows
  OBVIOUS
<1>3. IsPlaces(W(window))
  BY <1>2, AccountRows, FS_Subset DEF IsPlaces
<1>4. W(window) \subseteq W(Days)
  BY AccountRows
<1>5. \A i \in W(window) : \A j \in W(Days) : a.rows[j].date = a.rows[i].date => j \in W(window)
  OBVIOUS
<1>6. \A days : \A i \in W(days) : i \in DOMAIN a.rows
  OBVIOUS
<1> HIDE DEF W
<1>7. DOMAIN Export(a, window, layout) = W(window) /\ DOMAIN Export(a, Days, layout) = W(Days)
  BY <1>1
<1>8. \A i \in W(window) : Export(a, window, layout)[i] = a.rows[i] /\ Export(a, Days, layout)[i] = a.rows[i]
  BY <1>1, <1>4
<1>9. Export(a, window, layout) = Restrict(Export(a, Days, layout), W(window))
  BY <1>1, <1>8 DEF Restrict
<1>10. \A j \in W(Days) : Export(a, Days, layout)[j] = a.rows[j]
  BY <1>1
<1>11. SomeDays(Export(a, window, layout), Export(a, Days, layout))
  BY <1>4, <1>5, <1>7, <1>8, <1>9, <1>10 DEF SomeDays
<1> QED
  BY <1>3, <1>6, <1>7, <1>8, <1>11

----------------------------------------------------------------------------

(* What an import is given is what the parser made of the file.            *)
LEMMA ImportGiven ==
  ASSUME NEW a \in Accounts, NEW window \in Windows, NEW layout \in a.layouts,
         ~ Refused(Export(a, window, layout), layout)
  PROVE  LET file  == Export(a, window, layout)
             given == InRowOrder(Parse(file, layout))
         IN /\ given \in Seq([key : Trades, ref : Refs])
            /\ \A k \in DOMAIN given : \E i \in DOMAIN Parse(file, layout) :
                 given[k] = Parse(file, layout)[i]
<1> DEFINE file   == Export(a, window, layout)
           parsed == Parse(file, layout)
<1>1. \A i \in DOMAIN parsed : parsed[i] \in [key : Trades, ref : Refs]
  BY TradeAssumption
<1>2. layout \in DegiroLayouts \union FillLayouts /\ IsPlaces(DOMAIN file)
  BY AccountRows, Exported
<1> HIDE DEF file
<1>3. DOMAIN parsed \subseteq DOMAIN file
  BY <1>2, ParsedPlaces
<1>4. DOMAIN parsed \in SUBSET Nat /\ IsFiniteSet(DOMAIN parsed)
  BY <1>2, <1>3, FS_Subset DEF IsPlaces
<1> HIDE DEF parsed
<1> QED
  BY <1>1, <1>4, RowsInOrder DEF parsed, file

(* What an account's owner has typed in is a trade.                        *)
LEMMA HandGiven ==
  ASSUME NEW a \in Accounts, NEW i \in DOMAIN a.rows,
         a.layouts = {"etrade"}, a.rows[i].kind \in transactionTypes
  PROVE  <<NewByHand(a.rows[i])>> \in Seq([key : Trades, ref : Refs])
<1>1. NewByHand(a.rows[i]) \in [key : Trades, ref : Refs]
  BY TradeAssumption
<1> QED
  BY <1>1

(* Trades alone, and credits alone, are transactions.                      *)
LEMMA MoreTypes ==
  /\ Seq([key : Trades, ref : Refs]) \subseteq Seq(Transaction)
  /\ Batches \subseteq Seq(Transaction)
<1>1. [key : Trades, ref : Refs] \subseteq Transaction
      /\ [key : Credits, ref : Refs] \subseteq Transaction
  BY DEF Transaction
<1> QED
  BY <1>1, SeqMonotonic, BatchAssumption

(* A step by a writer: it begins with transactions of a kind it can be     *)
(* given, or goes on with those it has.                                    *)
LEMMA WriterSteps ==
  ASSUME account \in Accounts, NEW w \in Writers, ByWriter(w)
  PROVE  \/ \E window \in Windows, layout \in account.layouts :
              LET file == Export(account, window, layout) IN
              /\ ~ Refused(file, layout)
              /\ InRowOrder(Parse(file, layout)) \in Seq(Transaction)
              /\ Begin(w, InRowOrder(Parse(file, layout)))
         \/ \E i \in DOMAIN account.rows :
              /\ account.layouts = {"etrade"} /\ account.rows[i].kind \in transactionTypes
              /\ <<NewByHand(account.rows[i])>> \in Seq(Transaction)
              /\ Begin(w, <<NewByHand(account.rows[i])>>)
         \/ \E given \in Batches : given \in Seq(Transaction) /\ Begin(w, given)
         \/ Store(w)
<1>1. CASE \E window \in Windows, layout \in account.layouts : ImportExport(w, window, layout)
  <2>1. PICK window \in Windows, layout \in account.layouts : ImportExport(w, window, layout)
    BY <1>1
  <2>2. /\ ~ Refused(Export(account, window, layout), layout)
        /\ Begin(w, InRowOrder(Parse(Export(account, window, layout), layout)))
    BY <2>1 DEF ImportExport
  <2>3. InRowOrder(Parse(Export(account, window, layout), layout)) \in Seq(Transaction)
    BY <2>2, ImportGiven, MoreTypes
  <2> QED
    BY <2>2, <2>3
<1>2. CASE \E i \in DOMAIN account.rows : EnterByHand(w, i)
  BY <1>2, HandGiven, MoreTypes DEF EnterByHand
<1>3. CASE \E given \in Batches : Begin(w, given)
  BY <1>3, MoreTypes
<1> QED
  BY <1>1, <1>2, <1>3 DEF ByWriter

(* One step of anybody, while accounts are imported.                       *)
LEMMA ImportKeeps ==
  ASSUME IInv, account \in Accounts, [NextImport]_importVars
  PROVE  IInv' /\ account' \in Accounts /\ TradesKept
<1>1. CASE UNCHANGED importVars
  BY <1>1, StutterKeeps DEF importVars
<1>2. ASSUME NEW w \in Writers, ByWriter(w) PROVE IInv' /\ TradesKept
  <2>1. (\E given \in Seq(Transaction) : Begin(w, given)) \/ Store(w)
    BY <1>2, WriterSteps
  <2> QED
    BY <2>1, BeginKeeps, StoreKeeps
<1>3. ASSUME NEW i \in 1..lastId, Forms(i) PROVE IInv' /\ TradesKept
  BY <1>3, FormsKeep
<1>4. CASE NextImport
  BY <1>2, <1>3, <1>4 DEF NextImport
<1> QED
  BY <1>1, <1>4

(* The ledger is empty at first, whatever account is chosen.               *)
LEMMA ImportStart ==
  InitImport => IInv /\ account \in Accounts
BY Start DEF InitImport

(* The ledger keeps what Ledger promises when its files are what the       *)
(* parsers make of any windows of an account in any of its layouts.        *)
THEOREM ImportInvariance == SpecImport => [](IInv /\ account \in Accounts)
<1>1. IInv /\ account \in Accounts /\ [NextImport]_importVars => (IInv /\ account \in Accounts)'
  BY ImportKeeps
<1> QED
  BY <1>1, ImportStart, PTL DEF SpecImport

(* One logical transaction is one row, whatever windows of an account are  *)
(* imported, typed in or broken off, in whichever of its layouts.          *)
THEOREM ImportedOnce == SpecImport => []OneRowPerTransaction
<1>1. IInv => OneRowPerTransaction
  BY DEF IInv
<1> QED
  BY <1>1, ImportInvariance, PTL

(* What an import of a window was given is on record, for good.            *)
THEOREM WindowsAreComplete == SpecImport => []ImportsComplete
<1>1. IInv => ImportsComplete
  BY DEF IInv
<1> QED
  BY <1>1, ImportInvariance, PTL

----------------------------------------------------------------------------

(* A transaction of the account, as an export of all of it has it.         *)
OfAccount(key) ==
  \E layout \in account.layouts :
    key \in Whole(layout) \/ Refused(Export(account, Days, layout), layout)

(* What the loops under way were given is of the account, too.             *)
LoopsOfAccount ==
  \A w \in Writers : \A j \in DOMAIN txs[w] :
    txs[w][j].key \in Trades => OfAccount(txs[w][j].key)

OrdersUncut == \A a \in Accounts : "transactions" \in a.layouts => Uncut(a.rows)

(* What is parsed of a window is parsed of the whole account as well.      *)
LEMMA WindowOfAccount ==
  ASSUME OrdersUncut, account \in Accounts, NEW window \in Windows, NEW layout \in account.layouts,
         NEW i \in DOMAIN Parse(Export(account, window, layout), layout)
  PROVE  OfAccount(Parse(Export(account, window, layout), layout)[i].key)
<1> DEFINE part == Export(account, window, layout)
           rs   == Export(account, Days, layout)
<1>1. layout \in DegiroLayouts \union FillLayouts
  BY AccountRows
<1>2. IsPlaces(DOMAIN rs) /\ SomeDays(part, rs)
  BY Exported
<1>3. layout = "transactions" => OrdersWhole(part, rs)
  <2> SUFFICES ASSUME layout = "transactions", NEW j \in DOMAIN part, NEW k \in DOMAIN rs,
                      rs[k].order = rs[j].order, rs[j].order # NoOrder
               PROVE  k \in DOMAIN part
    BY DEF OrdersWhole
  <2>1. /\ k \in DOMAIN account.rows /\ rs[k] = account.rows[k]
        /\ j \in DOMAIN account.rows /\ rs[j] = account.rows[j]
    <3>1. j \in DOMAIN rs
      BY <1>2 DEF SomeDays
    <3> QED
      BY <3>1, Exported
  <2>2. account.rows[j].date \in window /\ Listed(layout, account.rows[j]) /\ Listed(layout, account.rows[k])
    BY DEF Export, Restrict
  <2>3. Uncut(account.rows)
    BY DEF OrdersUncut
  <2>4. account.rows[k].date \in window
    BY <2>1, <2>2, <2>3 DEF Uncut
  <2> QED
    BY <2>1, <2>2, <2>4 DEF Export, Restrict
<1> HIDE DEF part, rs
<1>4. i \in DOMAIN Parse(rs, layout) /\ Parse(rs, layout)[i] = Parse(part, layout)[i]
  BY <1>1, <1>2, <1>3, SameParsed DEF part
<1>5. ~ Refused(rs, layout) => Parse(part, layout)[i].key \in Whole(layout)
  <2>1. Parse(rs, layout)[i] \in Range(Parse(rs, layout))
    BY <1>4 DEF Range
  <2> QED
    BY <1>4, <2>1 DEF Whole, rs
<1> QED
  BY <1>5 DEF OfAccount, part, rs

(* A trade typed in is in the export the account's owner did not use.      *)
LEMMA HandOfAccount ==
  ASSUME account \in Accounts, NEW i \in DOMAIN account.rows, account.layouts = {"etrade"}
  PROVE  OfAccount(NewByHand(account.rows[i]).key)
<1> DEFINE rs == Export(account, Days, "etrade")
<1>1. Listed("etrade", account.rows[i])
  BY DEF Listed, Lists, FillLayouts
<1>2. account.rows[i].date \in Days
  BY AccountRows
<1>3. i \in DOMAIN rs /\ rs[i] = account.rows[i]
  BY <1>1, <1>2 DEF Export, Restrict
<1> HIDE DEF rs
<1>4. Parse(rs, "etrade") = parseEtrade(rs)
  BY DEF Parse, ParseFills, DegiroLayouts
<1>5. i \in DOMAIN Parse(rs, "etrade") /\ Parse(rs, "etrade")[i] = parseRow(account.rows[i])
  BY <1>3, <1>4 DEF parseEtrade
<1>6. NewByHand(account.rows[i]).key = parseRow(account.rows[i]).key
  BY DEF NewByHand, parseRow
<1>7. ~ Refused(rs, "etrade") => NewByHand(account.rows[i]).key \in Whole("etrade")
  <2>1. Parse(rs, "etrade")[i] \in Range(Parse(rs, "etrade"))
    BY <1>5 DEF Range
  <2> QED
    BY <1>5, <1>6, <2>1 DEF Whole, rs
<1> QED
  BY <1>7 DEF OfAccount, rs

(* Which transactions are of the account does not change.                  *)
LEMMA SameAccount ==
  ASSUME account' = account
  PROVE  \A key : OfAccount(key)' <=> OfAccount(key)
BY DEF OfAccount, Whole

(* Where the rows and the loops of a step are from.                        *)
LEMMA StepFrom ==
  ASSUME IInv, account \in Accounts, [NextImport]_importVars
  PROVE  /\ \A i \in DOMAIN rows' : rows'[i].tx.key \in Trades =>
              \/ i \in DOMAIN rows /\ rows'[i].tx = rows[i].tx
              \/ \E w \in Writers : \E j \in DOMAIN txs[w] : rows'[i].tx = txs[w][j]
         /\ account' = account
<1>1. account' = account
  BY DEF NextImport, importVars
<1>2. CASE UNCHANGED rows
  BY <1>1, <1>2
<1>3. ASSUME NEW w \in Writers, ByWriter(w), rows' # rows
      PROVE  \A i \in DOMAIN rows' :
               \/ i \in DOMAIN rows /\ rows'[i].tx = rows[i].tx
               \/ \E j \in DOMAIN txs[w] : rows'[i].tx = txs[w][j]
  <2>1. InsertNew(w)
    BY <1>3 DEF ByWriter, ImportExport, EnterByHand, Begin, Store, SkipDuplicate, Finish, BreakOff, Stop
  <2> DEFINE tx == txs[w][at[w]]
  <2>2. /\ at[w] \in DOMAIN txs[w]
        /\ \A i \in DOMAIN rows' :
             rows'[i] = IF i = NextId THEN [tx |-> tx, fingerprint |-> Fingerprint(tx)] ELSE rows[i]
        /\ DOMAIN rows' = DOMAIN rows \union {NextId}
    BY <2>1 DEF InsertNew, AtTransaction
  <2> HIDE DEF tx
  <2>3. \A i \in DOMAIN rows' : i = NextId => rows'[i].tx = tx
    BY <2>2
  <2>4. \A i \in DOMAIN rows' : i # NextId => i \in DOMAIN rows /\ rows'[i].tx = rows[i].tx
    BY <2>2
  <2> QED
    BY <2>2, <2>3, <2>4 DEF tx
<1>4. ASSUME NEW n \in 1..lastId, Forms(n), NEW i \in DOMAIN rows', rows'[i].tx.key \in Trades
      PROVE  i \in DOMAIN rows /\ rows'[i].tx = rows[i].tx
  <2>1. CASE DeleteManualInterestCredit(n)
    BY <2>1 DEF DeleteManualInterestCredit
  <2>2. CASE \E key \in Credits : UpdateManualInterestCredit(n, key)
    <3>1. PICK key \in Credits : UpdateManualInterestCredit(n, key)
      BY <2>2
    <3> DEFINE tx == [key |-> key, ref |-> rows[n].tx.ref]
    <3>2. n \in DOMAIN rows /\ rows' = [rows EXCEPT ![n] = [tx |-> tx, fingerprint |-> Fingerprint(tx)]]
      BY <3>1 DEF UpdateManualInterestCredit, ManualInterest
    <3>3. tx.key \notin Trades
      BY KeyAssumption
    <3> HIDE DEF tx
    <3>4. i \in DOMAIN rows /\ (i = n => rows'[i].tx = tx) /\ (i # n => rows'[i] = rows[i])
      BY <3>2
    <3> QED
      BY <1>4, <3>3, <3>4
  <2> QED
    BY <1>4, <2>1, <2>2 DEF Forms
<1>5. CASE NextImport /\ rows' # rows
  <2>1. (\E w \in Writers : ByWriter(w)) \/ (\E n \in 1..lastId : Forms(n))
    BY <1>5 DEF NextImport
  <2> QED
    BY <1>1, <1>3, <1>4, <1>5, <2>1
<1> QED
  BY <1>2, <1>5 DEF importVars, vars

(* What a step gives a loop is of the account.                             *)
LEMMA GivenOfAccount ==
  ASSUME OrdersUncut, account \in Accounts, NEW w \in Writers, ByWriter(w)
  PROVE  \/ Store(w)
         \/ \E given : Begin(w, given) /\ \A j \in DOMAIN given :
              given[j].key \in Trades => OfAccount(given[j].key)
<1>1. ASSUME NEW window \in Windows, NEW layout \in account.layouts,
             ~ Refused(Export(account, window, layout), layout),
             Begin(w, InRowOrder(Parse(Export(account, window, layout), layout)))
      PROVE  \E given : Begin(w, given) /\ \A j \in DOMAIN given :
               given[j].key \in Trades => OfAccount(given[j].key)
  <2> DEFINE parsed == Parse(Export(account, window, layout), layout)
  <2>1. \A k \in DOMAIN InRowOrder(parsed) : \E i \in DOMAIN parsed : InRowOrder(parsed)[k] = parsed[i]
    BY <1>1, ImportGiven
  <2>2. \A i \in DOMAIN parsed : OfAccount(parsed[i].key)
    BY WindowOfAccount
  <2>3. \A k \in DOMAIN InRowOrder(parsed) : OfAccount(InRowOrder(parsed)[k].key)
    <3> TAKE k \in DOMAIN InRowOrder(parsed)
    <3>1. PICK i \in DOMAIN parsed : InRowOrder(parsed)[k] = parsed[i]
      BY <2>1
    <3> QED
      BY <2>2, <3>1
  <2> QED
    BY <1>1, <2>3
<1>2. ASSUME NEW i \in DOMAIN account.rows, account.layouts = {"etrade"},
             Begin(w, <<NewByHand(account.rows[i])>>)
      PROVE  \E given : Begin(w, given) /\ \A j \in DOMAIN given :
               given[j].key \in Trades => OfAccount(given[j].key)
  <2>1. OfAccount(NewByHand(account.rows[i]).key)
    BY <1>2, HandOfAccount
  <2> DEFINE given == <<NewByHand(account.rows[i])>>
  <2>2. \A j \in DOMAIN given : given[j] = NewByHand(account.rows[i])
    OBVIOUS
  <2>3. \A j \in DOMAIN given : OfAccount(given[j].key)
    BY <2>1, <2>2
  <2> QED
    BY <1>2, <2>3
<1>3. ASSUME NEW given \in Batches, Begin(w, given)
      PROVE  \A j \in DOMAIN given : given[j].key \notin Trades
  <2> DEFINE Row == [key : Credits, ref : Refs]
  <2>1. given \in Seq(Row)
    BY BatchAssumption
  <2>2. \A r \in Row : r.key \notin Trades
    BY KeyAssumption
  <2> HIDE DEF Row
  <2>3. \A j \in DOMAIN given : given[j] \in Row
    BY <2>1
  <2> QED
    BY <2>2, <2>3
<1> QED
  BY <1>1, <1>2, <1>3, WriterSteps

(* The loops go on with transactions of the account.                       *)
LEMMA LoopsStep ==
  ASSUME OrdersUncut, IInv, account \in Accounts, LoopsOfAccount, [NextImport]_importVars
  PROVE  LoopsOfAccount'
<1>1. \A key : OfAccount(key)' <=> OfAccount(key)
  BY StepFrom, SameAccount
<1>2. CASE UNCHANGED txs
  BY <1>1, <1>2 DEF LoopsOfAccount
<1>3. ASSUME NEW w \in Writers, ByWriter(w) PROVE LoopsOfAccount'
  <2>0. txs \in [Writers -> Seq(Transaction)]
    BY DEF IInv, TypeOK
  <2>1. ASSUME NEW given, Begin(w, given),
               \A j \in DOMAIN given : given[j].key \in Trades => OfAccount(given[j].key)
        PROVE  LoopsOfAccount'
    <3>1. txs' = [txs EXCEPT ![w] = given]
      BY <2>1 DEF Begin
    <3>2. txs'[w] = given /\ \A v \in Writers \ {w} : txs'[v] = txs[v]
      BY <2>0, <3>1
    <3> QED
      BY <1>1, <2>1, <3>2 DEF LoopsOfAccount
  <2>2. ASSUME Stop(w) PROVE LoopsOfAccount'
    <3>1. txs' = [txs EXCEPT ![w] = << >>]
      BY <2>2 DEF Stop
    <3>2. txs'[w] = << >> /\ \A v \in Writers \ {w} : txs'[v] = txs[v]
      BY <2>0, <3>1
    <3> QED
      BY <1>1, <3>2 DEF LoopsOfAccount
  <2>3. Store(w) => Stop(w) \/ UNCHANGED txs
    BY DEF Store, InsertNew, SkipDuplicate, Finish, BreakOff
  <2> QED
    BY <1>2, <1>3, <2>1, <2>2, <2>3, GivenOfAccount
<1>4. ASSUME NEW n \in 1..lastId, Forms(n) PROVE UNCHANGED txs
  BY <1>4 DEF Forms, UpdateManualInterestCredit, DeleteManualInterestCredit, loop
<1>5. UNCHANGED importVars => UNCHANGED txs
  BY DEF importVars, vars, loop
<1> QED
  BY <1>2, <1>3, <1>4, <1>5 DEF NextImport

(* Whatever windows of an account are imported, nothing comes in that an   *)
(* export of all of it does not have: what is netted or cancelled in a     *)
(* window is netted or cancelled the same way in every longer one.  For    *)
(* Degiro's transactions export, whose rows consolidate nets by order, no  *)
(* export must have been taken between two days of an order.               *)
THEOREM NeverInvents ==
  ASSUME OrdersUncut
  PROVE  SpecImport => []NothingInvented
<1> DEFINE Own == NothingInvented /\ LoopsOfAccount
<1>1. InitImport => Own
  BY DEF InitImport, Init, NothingInvented, LoopsOfAccount, InLedger
<1>2. IInv /\ account \in Accounts /\ Own /\ [NextImport]_importVars => Own'
  <2> SUFFICES ASSUME IInv, account \in Accounts, Own, [NextImport]_importVars PROVE Own'
    OBVIOUS
  <2>1. LoopsOfAccount'
    BY LoopsStep
  <2>2. NothingInvented'
    <3>1. \A i \in DOMAIN rows' : rows'[i].tx.key \in Trades => OfAccount(rows'[i].tx.key)
      BY StepFrom DEF NothingInvented, InLedger, OfAccount, LoopsOfAccount
    <3>2. account' = account
      BY StepFrom
    <3>3. \A layout : Whole(layout)' = Whole(layout)
      BY <3>2 DEF Whole
    <3> QED
      BY <3>1, <3>2, <3>3 DEF NothingInvented, InLedger, OfAccount
  <2> QED
    BY <2>1, <2>2
<1>3. Own => NothingInvented
  OBVIOUS
<1> HIDE DEF Own
<1> QED
  BY <1>1, <1>2, <1>3, ImportInvariance, PTL DEF SpecImport

(* No step of an import, a form or another writer touches a row that came  *)
(* from a broker.                                                          *)
THEOREM ImportsStay == SpecImport => ImportedRowsStay
<1>1. IInv /\ account \in Accounts /\ [NextImport]_importVars =>
        [\A i \in DOMAIN rows :
           rows[i].tx.key \in Trades => i \in DOMAIN rows' /\ rows'[i] = rows[i]]_vars
  BY ImportKeeps DEF TradesKept
<1> QED
  BY <1>1, ImportInvariance, PTL DEF SpecImport, ImportedRowsStay

----------------------------------------------------------------------------
(* SumFunctionOnSet adds the elements of a set in the order in which they  *)
(* are chosen; a fold is its table of the sums over the subsets.           *)
first(s) == CHOOSE x \in s : TRUE

IsFold(g, f, S) ==
  g = [s \in SUBSET S |-> IF s = {} THEN 0 ELSE f[first(s)] + g[s \ {first(s)}]]

(* A sum over a set is its table's entry for the set.                      *)
LEMMA SumIsFold ==
  ASSUME NEW f, NEW S
  PROVE  SumFunctionOnSet(f, S) = (CHOOSE g : IsFold(g, f, S))[S]
BY DEF SumFunctionOnSet, FoldFunctionOnSet, MapThenFoldSet, IsFold, first

(* What is chosen from a set is in it.                                     *)
LEMMA First ==
  ASSUME NEW s, s # {}
  PROVE  first(s) \in s
BY DEF first

(* An entry of the table adds one element to the entry without it.         *)
LEMMA FoldAt ==
  ASSUME NEW f, NEW S, NEW g, IsFold(g, f, S), NEW s \in SUBSET S
  PROVE  g[s] = IF s = {} THEN 0 ELSE f[first(s)] + g[s \ {first(s)}]
<1> DEFINE h == [t \in SUBSET S |-> IF t = {} THEN 0 ELSE f[first(t)] + g[t \ {first(t)}]]
<1>1. g = h
  BY DEF IsFold
<1>2. h[s] = IF s = {} THEN 0 ELSE f[first(s)] + g[s \ {first(s)}]
  OBVIOUS
<1> HIDE DEF h
<1> QED
  BY <1>1, <1>2

(* Two folds agree where both are defined.                                 *)
LEMMA FoldsAgree ==
  ASSUME NEW f, NEW S, IsFiniteSet(S), NEW g, IsFold(g, f, S),
         NEW T \in SUBSET S, NEW h, IsFold(h, f, T)
  PROVE  g[T] = h[T]
<1> DEFINE C == {s \in SUBSET T : g[s] = h[s]}
<1>1. IsFiniteSet(T)
  BY FS_Subset
<1>2. ASSUME NEW s \in SUBSET T, \A x \in s : s \ {x} \in C PROVE s \in C
  <2>1. CASE s = {}
    BY <2>1, FoldAt
  <2>2. CASE s # {}
    <3>1. s \ {first(s)} \in C
      BY <1>2, <2>2, First
    <3> QED
      BY <2>2, <3>1, FoldAt
  <2> QED
    BY <2>1, <2>2
<1> HIDE DEF C
<1>3. T \in C
  BY <1>1, <1>2, SetInduction
<1> QED
  BY <1>3 DEF C

(* A finite set has such a table.                                          *)
LEMMA FoldExists ==
  ASSUME NEW f, NEW S, IsFiniteSet(S)
  PROVE  \E g : IsFold(g, f, S)
<1> DEFINE C == {T \in SUBSET S : \A U \in SUBSET T : \E g : IsFold(g, f, U)}
           fold(U) == CHOOSE g : IsFold(g, f, U)
<1>1. ASSUME NEW T \in SUBSET S, \A x \in T : T \ {x} \in C PROVE T \in C
  <2> DEFINE h == [s \in SUBSET T |-> IF s = {} THEN 0
                     ELSE f[first(s)] + fold(s \ {first(s)})[s \ {first(s)}]]
  <2>1. ASSUME NEW U \in SUBSET T, U # T PROVE \E g : IsFold(g, f, U)
    <3>1. PICK x \in T : x \notin U
      BY <2>1
    <3>2. T \ {x} \in C /\ U \in SUBSET (T \ {x})
      BY <1>1, <3>1
    <3> QED
      BY <3>2
  <2>2. ASSUME NEW U \in SUBSET T, U # T PROVE IsFold(fold(U), f, U)
    BY <2>1, <2>2
  <2> HIDE DEF fold
  <2>3. ASSUME NEW u \in SUBSET T, u # T PROVE h[u] = fold(u)[u]
    <3>1. IsFold(fold(u), f, u) /\ u \in SUBSET u /\ IsFiniteSet(u)
      BY <2>2, <2>3, FS_Subset
    <3>2. fold(u)[u] = IF u = {} THEN 0 ELSE f[first(u)] + fold(u)[u \ {first(u)}]
      BY <3>1, FoldAt
    <3>3. CASE u = {}
      BY <3>2, <3>3
    <3>4. CASE u # {}
      <4>1. first(u) \in u
        BY <3>4, First
      <4> DEFINE v == u \ {first(u)}
      <4>2. v \in SUBSET T /\ v # T /\ v \in SUBSET u
        BY <2>3, <4>1
      <4>3. IsFold(fold(v), f, v)
        BY <2>2, <4>2
      <4>4. fold(u)[v] = fold(v)[v]
        BY <3>1, <4>2, <4>3, FoldsAgree
      <4> QED
        BY <3>2, <3>4, <4>4
    <3> QED
      BY <3>3, <3>4
  <2>4. ASSUME NEW s \in SUBSET T, s # {}
        PROVE  fold(s \ {first(s)})[s \ {first(s)}] = h[s \ {first(s)}]
    <3>1. first(s) \in s /\ s \ {first(s)} \in SUBSET T /\ s \ {first(s)} # T
      BY <2>4, First
    <3> HIDE DEF h
    <3> QED
      BY <2>3, <3>1
  <2>5. IsFold(h, f, T)
    <3> DEFINE k == [s \in SUBSET T |-> IF s = {} THEN 0
                       ELSE f[first(s)] + h[s \ {first(s)}]]
    <3>1. \A s \in SUBSET T : h[s] = k[s]
      BY <2>4
    <3>2. h = k
      BY <3>1
    <3> QED
      BY <3>2 DEF IsFold
  <2> HIDE DEF h
  <2>6. \A U \in SUBSET T : \E g : IsFold(g, f, U)
    BY <2>1, <2>5
  <2> QED
    BY <2>6
<1> HIDE DEF C
<1>2. S \in C
  BY <1>1, SetInduction, ZenonT(60)
<1> QED
  BY <1>2 DEF C

(* A sum is its chosen element and the sum of the rest.                    *)
LEMMA SumChosen ==
  ASSUME NEW f, NEW S, IsFiniteSet(S)
  PROVE  /\ S = {} => SumFunctionOnSet(f, S) = 0
         /\ S # {} => /\ first(S) \in S
                      /\ SumFunctionOnSet(f, S)
                           = f[first(S)] + SumFunctionOnSet(f, S \ {first(S)})
<1> DEFINE fold(U) == CHOOSE g : IsFold(g, f, U)
           rest    == S \ {first(S)}
<1>1. IsFiniteSet(rest)
  BY FS_Subset
<1>2. IsFold(fold(S), f, S) /\ IsFold(fold(rest), f, rest)
  BY <1>1, FoldExists
<1>3. SumFunctionOnSet(f, S) = fold(S)[S] /\ SumFunctionOnSet(f, rest) = fold(rest)[rest]
  BY SumIsFold
<1> HIDE DEF fold
<1>4. fold(S)[S] = IF S = {} THEN 0 ELSE f[first(S)] + fold(S)[rest]
  BY <1>2, FoldAt
<1>5. fold(S)[rest] = fold(rest)[rest]
  BY <1>2, FoldsAgree
<1> QED
  BY <1>3, <1>4, <1>5, First

(* A sum of integers is one.                                               *)
LEMMA SumType ==
  ASSUME NEW S, IsFiniteSet(S), NEW f, \A x \in S : f[x] \in Int
  PROVE  SumFunctionOnSet(f, S) \in Int
<1> DEFINE C == {T \in SUBSET S : SumFunctionOnSet(f, T) \in Int}
<1>1. ASSUME NEW T \in SUBSET S, \A x \in T : T \ {x} \in C PROVE T \in C
  <2>1. IsFiniteSet(T)
    BY FS_Subset
  <2>2. CASE T = {}
    <3>1. SumFunctionOnSet(f, T) = 0
      BY <2>1, <2>2, SumChosen, Zenon
    <3> QED
      BY <3>1
  <2>3. CASE T # {}
    <3>1. first(T) \in T
      BY <2>1, <2>3, SumChosen
    <3>2. SumFunctionOnSet(f, T) = f[first(T)] + SumFunctionOnSet(f, T \ {first(T)})
      BY <2>1, <2>3, SumChosen
    <3>3. f[first(T)] \in Int /\ SumFunctionOnSet(f, T \ {first(T)}) \in Int
      BY <1>1, <3>1
    <3> QED
      BY <3>2, <3>3
  <2> QED
    BY <2>2, <2>3
<1> HIDE DEF C
<1>a. \A T \in SUBSET S : (\A x \in T : T \ {x} \in C) => T \in C
  BY <1>1
<1>b. \A T \in SUBSET S : T \in C
  BY <1>a, SetInduction, Zenon
<1>2. S \in C
  BY <1>b
<1> QED
  BY <1>2 DEF C

(* Any element may be taken out of a sum first.                            *)
LEMMA SumWithout ==
  ASSUME NEW S, IsFiniteSet(S), NEW f, \A x \in S : f[x] \in Int, NEW a \in S
  PROVE  SumFunctionOnSet(f, S) = f[a] + SumFunctionOnSet(f, S \ {a})
<1> DEFINE sum(T) == SumFunctionOnSet(f, T)
           C == {T \in SUBSET S : \A x \in T : sum(T) = f[x] + sum(T \ {x})}
<1>1. \A T \in SUBSET S : IsFiniteSet(T) /\ sum(T) \in Int
  BY FS_Subset, SumType
<1>2. ASSUME NEW T \in SUBSET S, \A x \in T : T \ {x} \in C PROVE T \in C
  <2>1. ASSUME NEW x \in T PROVE sum(T) = f[x] + sum(T \ {x})
    <3> DEFINE y == first(T)
    <3>1. y \in T /\ sum(T) = f[y] + sum(T \ {y})
      BY <1>1, SumChosen
    <3>2. CASE x = y
      BY <3>1, <3>2
    <3>3. CASE x # y
      <4> HIDE DEF y, sum
      <4>1. sum(T \ {y}) = f[x] + sum((T \ {y}) \ {x})
        BY <1>2, <3>1, <3>3
      <4>2. sum(T \ {x}) = f[y] + sum((T \ {x}) \ {y})
        BY <1>2, <3>1, <3>3
      <4>3. (T \ {y}) \ {x} = (T \ {x}) \ {y}
        OBVIOUS
      <4>4. f[x] \in Int /\ f[y] \in Int /\ sum((T \ {x}) \ {y}) \in Int
        BY <1>1, <3>1
      <4>5. sum(T) = f[y] + sum(T \ {y})
        BY <3>1
      <4> HIDE DEF C
      <4>6. \A p, q, r \in Int : q + (p + r) = p + (q + r)
        OBVIOUS
      <4>7. sum(T) = f[y] + (f[x] + sum((T \ {x}) \ {y}))
        BY <4>1, <4>3, <4>5, Zenon
      <4>8. f[y] + (f[x] + sum((T \ {x}) \ {y})) = f[x] + (f[y] + sum((T \ {x}) \ {y}))
        BY <4>4, <4>6, Zenon
      <4> QED
        BY <4>2, <4>7, <4>8, Zenon
    <3> QED
      BY <3>2, <3>3
  <2> QED
    BY <2>1
<1> HIDE DEF C, sum
<1>a. \A T \in SUBSET S : (\A x \in T : T \ {x} \in C) => T \in C
  BY <1>2
<1>b. \A T \in SUBSET S : T \in C
  BY <1>a, SetInduction, Zenon
<1>3. S \in C
  BY <1>b
<1> QED
  BY <1>3 DEF C, sum

(* Functions that agree on a set have the same sum over it.                *)
LEMMA SumAgree ==
  ASSUME NEW S, IsFiniteSet(S), NEW f, NEW g, \A x \in S : f[x] = g[x]
  PROVE  SumFunctionOnSet(f, S) = SumFunctionOnSet(g, S)
<1> DEFINE C == {T \in SUBSET S : SumFunctionOnSet(f, T) = SumFunctionOnSet(g, T)}
<1>1. ASSUME NEW T \in SUBSET S, \A x \in T : T \ {x} \in C PROVE T \in C
  <2>1. IsFiniteSet(T)
    BY FS_Subset
  <2>2. CASE T = {}
    <3>1. SumFunctionOnSet(f, T) = 0 /\ SumFunctionOnSet(g, T) = 0
      BY <2>1, <2>2, SumChosen, Zenon
    <3> QED
      BY <3>1
  <2>3. CASE T # {}
    <3>1. /\ first(T) \in T
          /\ SumFunctionOnSet(f, T) = f[first(T)] + SumFunctionOnSet(f, T \ {first(T)})
          /\ SumFunctionOnSet(g, T) = g[first(T)] + SumFunctionOnSet(g, T \ {first(T)})
      BY <2>1, <2>3, SumChosen, Zenon
    <3>2. SumFunctionOnSet(f, T \ {first(T)}) = SumFunctionOnSet(g, T \ {first(T)})
      BY <1>1, <3>1
    <3> QED
      BY <3>1, <3>2
  <2> QED
    BY <2>2, <2>3
<1> HIDE DEF C
<1>2. \A T \in SUBSET S : (\A x \in T : T \ {x} \in C) => T \in C
  BY <1>1
<1>3. \A T \in SUBSET S : T \in C
  BY <1>2, SetInduction, Zenon
<1> QED
  BY <1>3 DEF C

(* A sum of zeros is zero.                                                 *)
LEMMA SumOfZeros ==
  ASSUME NEW S, IsFiniteSet(S), NEW f, \A x \in S : f[x] = 0
  PROVE  SumFunctionOnSet(f, S) = 0
<1> DEFINE C == {T \in SUBSET S : SumFunctionOnSet(f, T) = 0}
<1>1. ASSUME NEW T \in SUBSET S, \A x \in T : T \ {x} \in C PROVE T \in C
  <2>1. IsFiniteSet(T)
    BY FS_Subset
  <2>2. CASE T = {}
    BY <2>1, <2>2, SumChosen, Zenon
  <2>3. CASE T # {}
    <3>1. /\ first(T) \in T
          /\ SumFunctionOnSet(f, T) = f[first(T)] + SumFunctionOnSet(f, T \ {first(T)})
      BY <2>1, <2>3, SumChosen, Zenon
    <3>2. SumFunctionOnSet(f, T \ {first(T)}) = 0 /\ f[first(T)] = 0
      BY <1>1, <3>1
    <3> QED
      BY <3>1, <3>2
  <2> QED
    BY <2>2, <2>3
<1> HIDE DEF C
<1>2. \A T \in SUBSET S : (\A x \in T : T \ {x} \in C) => T \in C
  BY <1>1
<1>3. \A T \in SUBSET S : T \in C
  BY <1>2, SetInduction, Zenon
<1> QED
  BY <1>3 DEF C

(* The sum over two sets without a common element is the sum of their sums. *)
LEMMA SumUnion ==
  ASSUME NEW A, NEW B, IsFiniteSet(A), IsFiniteSet(B), A \intersect B = {},
         NEW f, \A x \in A \union B : f[x] \in Int
  PROVE  SumFunctionOnSet(f, A \union B) = SumFunctionOnSet(f, A) + SumFunctionOnSet(f, B)
<1> DEFINE sum(T) == SumFunctionOnSet(f, T)
           C == {T \in SUBSET B : sum(A \union T) = sum(A) + sum(T)}
<1>1. \A T \in SUBSET B : /\ IsFiniteSet(T) /\ IsFiniteSet(A \union T)
                          /\ sum(T) \in Int /\ sum(A \union T) \in Int
  <2>1. ASSUME NEW T \in SUBSET B
        PROVE  IsFiniteSet(T) /\ IsFiniteSet(A \union T)
    BY FS_Subset, FS_Union
  <2>2. ASSUME NEW T \in SUBSET B
        PROVE  sum(T) \in Int /\ sum(A \union T) \in Int
    BY <2>1, SumType
  <2> QED
    BY <2>1, <2>2
<1>2. sum(A) \in Int
  BY SumType
<1>3. ASSUME NEW T \in SUBSET B, \A x \in T : T \ {x} \in C PROVE T \in C
  <2>1. CASE T = {}
    <3>1. A \union T = A
      BY <2>1
    <3>2. sum(T) = 0
      BY <1>1, <2>1, SumChosen, Zenon
    <3>3. sum(A \union T) = sum(A)
      BY <3>1
    <3> HIDE DEF sum
    <3>4. sum(A \union T) = sum(A) + sum(T)
      BY <1>2, <3>2, <3>3
    <3> QED
      BY <3>4
  <2>2. CASE T # {}
    <3>1. PICK x \in T : TRUE
      BY <2>2
    <3>2. (A \union T) \ {x} = A \union (T \ {x})
      BY <3>1
    <3>3. /\ sum(A \union T) = f[x] + sum((A \union T) \ {x})
          /\ sum(T) = f[x] + sum(T \ {x})
      BY <1>1, SumWithout
    <3>4. sum(A \union (T \ {x})) = sum(A) + sum(T \ {x})
      BY <1>3
    <3>5. f[x] \in Int /\ sum(T \ {x}) \in Int /\ T \in SUBSET B
      <4>1. T \ {x} \in SUBSET B
        OBVIOUS
      <4> QED
        BY <1>1, <4>1
    <3> HIDE DEF sum
    <3>6. sum(A \union T) = f[x] + (sum(A) + sum(T \ {x}))
      BY <3>2, <3>3, <3>4
    <3>7. sum(A \union T) = sum(A) + sum(T)
      <4> HIDE DEF C
      <4> QED
        BY <1>2, <3>3, <3>5, <3>6
    <3> QED
      BY <3>7
  <2> QED
    BY <2>1, <2>2
<1> HIDE DEF C
<1>4. \A T \in SUBSET B : (\A x \in T : T \ {x} \in C) => T \in C
  BY <1>3
<1>5. \A T \in SUBSET B : T \in C
  BY <1>4, SetInduction, Zenon
<1> QED
  BY <1>5 DEF C

(* The sums g of a family by kind.                                         *)
IsByKind(g, f, kind, S, Y) ==
  /\ IsFiniteSet(S) /\ IsFiniteSet(Y)
  /\ \A x \in S : f[x] \in Int /\ kind[x] \in Y
  /\ \A y \in Y : g[y] = SumFunctionOnSet(f, {x \in S : kind[x] = y})

(* A sum may be taken kind by kind.                                        *)
LEMMA SumByKind ==
  ASSUME NEW S, NEW Y, NEW f, NEW g, NEW kind, IsByKind(g, f, kind, S, Y)
  PROVE  SumFunctionOnSet(f, S) = SumFunctionOnSet(g, Y)
<1> USE DEF IsByKind
<1> DEFINE of(T) == {x \in S : kind[x] \in T}
           C     == {T \in SUBSET Y : SumFunctionOnSet(f, of(T)) = SumFunctionOnSet(g, T)}
<1>1. ASSUME NEW T \in SUBSET Y, \A y \in T : T \ {y} \in C PROVE T \in C
  <2>1. IsFiniteSet(T)
    BY FS_Subset
  <2>2. CASE T = {}
    <3>1. of(T) = {}
      BY <2>2
    <3>2. SumFunctionOnSet(f, {}) = 0 /\ SumFunctionOnSet(g, {}) = 0
      BY FS_EmptySet, SumChosen, Zenon
    <3> QED
      BY <2>2, <3>1, <3>2
  <2>3. CASE T # {}
    <3>1. PICK y \in T : TRUE
      BY <2>3
    <3> DEFINE A == of(T \ {y})
               B == {x \in S : kind[x] = y}
    <3>2. A \union B = of(T) /\ A \intersect B = {} /\ A \subseteq S /\ B \subseteq S
      OBVIOUS
    <3> HIDE DEF A, B
    <3>3. IsFiniteSet(A) /\ IsFiniteSet(B)
      BY <3>2, FS_Subset
    <3>4. SumFunctionOnSet(f, A \union B) = SumFunctionOnSet(f, A) + SumFunctionOnSet(f, B)
      <4>1. \A x \in A \union B : f[x] \in Int
        BY <3>2
      <4> QED
        BY <3>2, <3>3, <4>1, SumUnion
    <3>5. SumFunctionOnSet(f, A) = SumFunctionOnSet(g, T \ {y})
      BY <1>1 DEF A
    <3>6. SumFunctionOnSet(f, B) = g[y]
      BY DEF B
    <3>7. \A z \in Y : g[z] \in Int
      <4>1. ASSUME NEW z \in Y PROVE g[z] \in Int
        <5>1. IsFiniteSet({x \in S : kind[x] = z})
          BY FS_Subset
        <5> QED
          BY <5>1, SumType, ZenonT(60)
      <4> QED
        BY <4>1
    <3>8. SumFunctionOnSet(g, T) = g[y] + SumFunctionOnSet(g, T \ {y})
      BY <2>1, <3>7, SumWithout
    <3>9. SumFunctionOnSet(f, of(T)) = SumFunctionOnSet(g, T \ {y}) + g[y]
      BY <3>2, <3>4, <3>5, <3>6
    <3>10. g[y] \in Int /\ SumFunctionOnSet(g, T \ {y}) \in Int
      <4>1. IsFiniteSet(T \ {y}) /\ \A z \in T \ {y} : g[z] \in Int
        BY <2>1, <3>7, FS_Subset
      <4> QED
        BY <3>7, <4>1, SumType
    <3>11. SumFunctionOnSet(f, of(T)) = SumFunctionOnSet(g, T)
      <4> HIDE DEF C, of
      <4> QED
        BY <3>8, <3>9, <3>10
    <3> QED
      BY <3>11
  <2> QED
    BY <2>2, <2>3
<1> HIDE DEF C
<1>2. \A T \in SUBSET Y : (\A y \in T : T \ {y} \in C) => T \in C
  BY <1>1
<1>3. \A T \in SUBSET Y : T \in C
  BY <1>2, SetInduction, Zenon
<1>4. of(Y) = S
  OBVIOUS
<1> QED
  BY <1>3, <1>4 DEF C

(* A sum over places is the sum over what they are matched with.           *)
IsMatch(b, S, T) ==
  /\ IsFiniteSet(S) /\ IsFiniteSet(T) /\ b \in [S -> T]
  /\ \A x, y \in S : b[x] = b[y] => x = y
  /\ \A z \in T : \E x \in S : b[x] = z

Matched(b, U) == {b[x] : x \in U}

(* The partners of all of S are all of T, and without x they are one       *)
(* fewer.                                                                  *)
LEMMA MatchedAll ==
  ASSUME NEW S, NEW T, NEW b, IsMatch(b, S, T)
  PROVE  /\ Matched(b, S) = T /\ Matched(b, {}) = {}
         /\ \A U \in SUBSET S : Matched(b, U) \in SUBSET T /\ IsFiniteSet(Matched(b, U))
         /\ \A U \in SUBSET S : \A x \in U :
              b[x] \in Matched(b, U) /\ Matched(b, U) \ {b[x]} = Matched(b, U \ {x})
<1>1. Matched(b, S) = T /\ Matched(b, {}) = {}
  BY DEF Matched, IsMatch
<1>2. \A U \in SUBSET S : Matched(b, U) \in SUBSET T
  BY DEF Matched, IsMatch
<1>3. \A U \in SUBSET S : IsFiniteSet(Matched(b, U))
  BY <1>2, FS_Subset DEF IsMatch
<1>4. ASSUME NEW U \in SUBSET S, NEW x \in U
      PROVE  b[x] \in Matched(b, U) /\ Matched(b, U) \ {b[x]} = Matched(b, U \ {x})
  <2>1. \A y \in U : b[y] = b[x] <=> y = x
    BY DEF IsMatch
  <2>2. b[x] \in Matched(b, U)
    BY DEF Matched
  <2>3. \A z : z \in Matched(b, U) \ {b[x]} <=> z \in Matched(b, U \ {x})
    BY <2>1 DEF Matched
  <2> QED
    BY <2>2, <2>3
<1> QED
  BY <1>1, <1>2, <1>3, <1>4

(* Elements matched one to one, with equal values, have equal sums.        *)
LEMMA SumMatched ==
  ASSUME NEW S, NEW T, NEW b, IsMatch(b, S, T),
         NEW f, NEW g, \A x \in S : f[x] \in Int /\ g[b[x]] = f[x]
  PROVE  SumFunctionOnSet(g, T) = SumFunctionOnSet(f, S)
<1> DEFINE F(U) == SumFunctionOnSet(f, U)
           G(U) == SumFunctionOnSet(g, Matched(b, U))
           C    == {U \in SUBSET S : G(U) = F(U)}
<1>1. \A z \in T : g[z] \in Int
  BY DEF IsMatch
<1>2. ASSUME NEW U \in SUBSET S, \A x \in U : U \ {x} \in C PROVE U \in C
  <2>1. IsFiniteSet(U) /\ IsFiniteSet(Matched(b, U)) /\ Matched(b, U) \in SUBSET T
    BY FS_Subset, MatchedAll DEF IsMatch
  <2>2. CASE U = {}
    <3>1. F(U) = 0 /\ Matched(b, U) = {}
      BY <2>1, <2>2, SumChosen, MatchedAll, Zenon
    <3>2. G(U) = 0
      BY <2>1, <3>1, SumChosen, Zenon
    <3> QED
      BY <3>1, <3>2
  <2>3. CASE U # {}
    <3>1. PICK x \in U : TRUE
      BY <2>3
    <3>2. b[x] \in Matched(b, U) /\ Matched(b, U) \ {b[x]} = Matched(b, U \ {x})
      BY MatchedAll
    <3>3. F(U) = f[x] + F(U \ {x})
      BY <2>1, SumWithout
    <3>4. SumFunctionOnSet(g, Matched(b, U)) = g[b[x]] + SumFunctionOnSet(g, Matched(b, U) \ {b[x]})
      BY <1>1, <2>1, <3>2, SumWithout
    <3>5. G(U) = g[b[x]] + G(U \ {x})
      BY <3>2, <3>4
    <3>6. G(U \ {x}) = F(U \ {x}) /\ g[b[x]] = f[x]
      BY <1>2
    <3> QED
      BY <3>3, <3>5, <3>6
  <2> QED
    BY <2>2, <2>3
<1> HIDE DEF C
<1>3. \A U \in SUBSET S : (\A x \in U : U \ {x} \in C) => U \in C
  BY <1>2
<1>4. \A U \in SUBSET S : U \in C
  BY <1>3, SetInduction, Zenon DEF IsMatch
<1>5. G(S) = F(S)
  BY <1>4 DEF C
<1> QED
  BY <1>5, MatchedAll

(* What is matched with its opposite adds up to nothing.                   *)
LEMMA SumOpposite ==
  ASSUME NEW S, NEW T, NEW b, IsMatch(b, S, T),
         NEW f, \A x \in S : f[x] \in Int /\ f[b[x]] = - f[x]
  PROVE  SumFunctionOnSet(f, S) + SumFunctionOnSet(f, T) = 0
<1> DEFINE F(U) == SumFunctionOnSet(f, U)
           G(U) == SumFunctionOnSet(f, Matched(b, U))
           C    == {U \in SUBSET S : F(U) \in Int /\ G(U) = - F(U)}
<1>1. \A z \in T : f[z] \in Int
  BY DEF IsMatch
<1>2. ASSUME NEW U \in SUBSET S, \A x \in U : U \ {x} \in C PROVE U \in C
  <2>1. IsFiniteSet(U) /\ IsFiniteSet(Matched(b, U)) /\ Matched(b, U) \in SUBSET T
    BY FS_Subset, MatchedAll DEF IsMatch
  <2>2. CASE U = {}
    <3>1. F(U) = 0 /\ Matched(b, U) = {}
      BY <2>1, <2>2, SumChosen, MatchedAll, Zenon
    <3>2. G(U) = 0
      BY <2>1, <3>1, SumChosen, Zenon
    <3> QED
      BY <3>1, <3>2
  <2>3. CASE U # {}
    <3>1. PICK x \in U : TRUE
      BY <2>3
    <3>2. b[x] \in Matched(b, U) /\ Matched(b, U) \ {b[x]} = Matched(b, U \ {x})
      BY MatchedAll
    <3>3. F(U) = f[x] + F(U \ {x})
      BY <2>1, SumWithout
    <3>4. SumFunctionOnSet(f, Matched(b, U)) = f[b[x]] + SumFunctionOnSet(f, Matched(b, U) \ {b[x]})
      BY <1>1, <2>1, <3>2, SumWithout
    <3>5. G(U) = f[b[x]] + G(U \ {x})
      BY <3>2, <3>4
    <3>6. F(U \ {x}) \in Int /\ G(U \ {x}) = - F(U \ {x}) /\ f[x] \in Int /\ f[b[x]] = - f[x]
      BY <1>2
    <3> HIDE DEF F, G, C
    <3>7. F(U) \in Int /\ G(U) = - F(U)
      BY <3>3, <3>5, <3>6
    <3> QED
      BY <3>7 DEF C
  <2> QED
    BY <2>2, <2>3
<1> HIDE DEF C
<1>3. \A U \in SUBSET S : (\A x \in U : U \ {x} \in C) => U \in C
  BY <1>2
<1>4. \A U \in SUBSET S : U \in C
  BY <1>3, SetInduction, Zenon DEF IsMatch
<1>5. F(S) \in Int /\ G(S) = - F(S)
  BY <1>4 DEF C
<1>6. G(S) = SumFunctionOnSet(f, T)
  BY MatchedAll
<1> HIDE DEF F, G
<1>7. F(S) + SumFunctionOnSet(f, T) = 0
  BY <1>5, <1>6
<1> QED
  BY <1>7 DEF F

----------------------------------------------------------------------------
(* What cancelTransferPairs drops: of the transfers alike, as many that    *)
(* bring units in as take them out, matched by their rank.                 *)

Transfers(rs) == Bookings(rs, NoOrder)

(* The transfers like i with qty units. *)
Alike(rs, i, qty) ==
  {j \in Transfers(rs) : /\ rs[j].date = rs[i].date /\ rs[j].isin = rs[i].isin
                         /\ rs[j].qty = qty /\ rs[j].price = rs[i].price}

UpToPlace(S, i) == {j \in S : j <= i}

Rank(rs, i) == Cardinality(UpToPlace(Alike(rs, i, rs[i].qty), i))

(* A transfer is left over if it is later among those like it than there   *)
(* are opposite ones.                                                      *)
LEMMA LeftOver ==
  ASSUME NEW rs
  PROVE  cancelTransferPairs(rs)
           = {i \in Transfers(rs) : Rank(rs, i) > Cardinality(Alike(rs, i, - rs[i].qty))}
BY DEF cancelTransferPairs, Transfers, Alike, Rank, UpToPlace

(* The order of the places of a file.                                      *)
LEMMA Places ==
  ASSUME NEW S \in SUBSET Nat, NEW i \in S
  PROVE  /\ ~ (i < i) /\ i <= i /\ \A j \in S : j <= i <=> j < i \/ j = i
         /\ \A j \in S : i < j => \A x \in S : x <= i => x < j
<1>1. i \in Nat /\ \A j \in S : j \in Nat
  OBVIOUS
<1>2. \A m, n, x \in Nat : /\ ~ (m < m) /\ m <= m /\ (n <= m <=> n < m \/ n = m)
                         /\ (m < n /\ x <= m => x < n)
  OBVIOUS
<1> QED
  BY <1>1, <1>2

(* Every rank is a place's, and only one's.                                *)
LEMMA RankPlace ==
  ASSUME NEW S \in SUBSET Nat, IsFiniteSet(S)
  PROVE  /\ \A k \in 1..Cardinality(S) : \E i \in S : Cardinality(UpToPlace(S, i)) = k
         /\ \A i \in S : Cardinality(UpToPlace(S, i)) \in 1..Cardinality(S)
         /\ \A i, j \in S : Cardinality(UpToPlace(S, i)) = Cardinality(UpToPlace(S, j)) => i = j
<1>1. ASSUME NEW i \in S
      PROVE  /\ IsFiniteSet(Before(S, i)) /\ IsFiniteSet(UpToPlace(S, i))
             /\ Cardinality(Before(S, i)) \in Nat /\ Cardinality(S) \in Nat
             /\ Cardinality(UpToPlace(S, i)) = Cardinality(Before(S, i)) + 1
             /\ Cardinality(UpToPlace(S, i)) <= Cardinality(S)
  <2>1. Before(S, i) \in SUBSET S /\ UpToPlace(S, i) \in SUBSET S
    BY DEF Before, UpToPlace
  <2>2. i \notin Before(S, i) /\ UpToPlace(S, i) = Before(S, i) \union {i}
    <3>1. ~ (i < i) /\ i <= i /\ \A j \in S : j <= i <=> j < i \/ j = i
      BY Places
    <3> QED
      BY <3>1 DEF Before, UpToPlace
  <2>3. IsFiniteSet(Before(S, i)) /\ IsFiniteSet(UpToPlace(S, i))
    BY <2>1, FS_Subset
  <2>4. Cardinality(UpToPlace(S, i)) = Cardinality(Before(S, i)) + 1
    BY <2>2, <2>3, FS_AddElement
  <2>5. Cardinality(UpToPlace(S, i)) <= Cardinality(S)
    BY <2>1, FS_Subset
  <2>6. Cardinality(Before(S, i)) \in Nat /\ Cardinality(S) \in Nat
    BY <2>3, FS_CardinalityType
  <2> QED
    BY <2>3, <2>4, <2>5, <2>6
<1>2. ASSUME NEW k \in 1..Cardinality(S) PROVE \E i \in S : Cardinality(UpToPlace(S, i)) = k
  <2>1. PICK i \in S : Cardinality(Before(S, i)) = k - 1
    BY PlaceOf
  <2>2. k \in Nat
    BY <1>1, <2>1
  <2>3. Cardinality(UpToPlace(S, i)) = k
    BY <1>1, <2>1, <2>2
  <2> QED
    BY <2>3
<1>3. ASSUME NEW i \in S, NEW j \in S, i < j
      PROVE  Cardinality(UpToPlace(S, i)) < Cardinality(UpToPlace(S, j))
  <2>1. UpToPlace(S, i) \subseteq Before(S, j)
    <3>1. \A x \in S : x <= i => x < j
      BY <1>3, Places
    <3> QED
      BY <3>1 DEF UpToPlace, Before
  <2>2. Cardinality(UpToPlace(S, i)) <= Cardinality(Before(S, j))
    BY <1>1, <2>1, FS_Subset
  <2>3. Cardinality(UpToPlace(S, i)) \in Nat /\ Cardinality(Before(S, j)) \in Nat
    BY <1>1
  <2> QED
    BY <1>1, <2>2, <2>3
<1>4. ASSUME NEW i \in S, NEW j \in S, Cardinality(UpToPlace(S, i)) = Cardinality(UpToPlace(S, j))
      PROVE  i = j
  <2>1. /\ Cardinality(UpToPlace(S, i)) \in Nat /\ Cardinality(UpToPlace(S, j)) \in Nat
        /\ i \in Nat /\ j \in Nat
    BY <1>1
  <2> QED
    BY <1>3, <1>4, <2>1
<1>5. ASSUME NEW i \in S PROVE Cardinality(UpToPlace(S, i)) \in 1..Cardinality(S)
  <2>1. /\ Cardinality(Before(S, i)) \in Nat /\ Cardinality(S) \in Nat
        /\ Cardinality(UpToPlace(S, i)) = Cardinality(Before(S, i)) + 1
        /\ Cardinality(UpToPlace(S, i)) <= Cardinality(S)
    BY <1>1
  <2> QED
    BY <2>1
<1> QED
  BY <1>2, <1>4, <1>5

(* Rows as an account has them: at places, of whole units.                 *)
IsRows(rs) == IsPlaces(DOMAIN rs) /\ \A i \in DOMAIN rs : rs[i].qty \in Int \ {0}

(* The rows like one another are finitely many places.                     *)
LEMMA AlikePlaces ==
  ASSUME NEW rs, IsRows(rs), NEW i, NEW qty
  PROVE  /\ Alike(rs, i, qty) \in SUBSET Nat /\ IsFiniteSet(Alike(rs, i, qty))
         /\ Cardinality(Alike(rs, i, qty)) \in Nat
<1>1. Alike(rs, i, qty) \in SUBSET DOMAIN rs
  BY DEF Alike, Transfers, Bookings
<1>2. Alike(rs, i, qty) \in SUBSET Nat /\ IsFiniteSet(Alike(rs, i, qty))
  BY <1>1, FS_Subset DEF IsRows, IsPlaces
<1> QED
  BY <1>2, FS_CardinalityType

(* The transfer that cancels transfer i.                                   *)
Opposite(rs, i) == CHOOSE j \in Alike(rs, i, - rs[i].qty) : Rank(rs, j) = Rank(rs, i)

Cancelled(rs) == Transfers(rs) \ cancelTransferPairs(rs)

IsOpposite(rs, i, j) ==
  /\ j \in Cancelled(rs) /\ rs[j].qty = - rs[i].qty /\ rs[j].isin = rs[i].isin
  /\ Alike(rs, j, rs[j].qty) = Alike(rs, i, - rs[i].qty)
  /\ Alike(rs, j, - rs[j].qty) = Alike(rs, i, rs[i].qty)
  /\ Rank(rs, j) = Rank(rs, i)

(* A cancelled row has an opposite one, of the same rank among its like.   *)
LEMMA HasOpposite ==
  ASSUME NEW rs, IsRows(rs), NEW i \in Cancelled(rs)
  PROVE  IsOpposite(rs, i, Opposite(rs, i))
<1> DEFINE A == Alike(rs, i, rs[i].qty)
           B == Alike(rs, i, - rs[i].qty)
<1>1. i \in DOMAIN rs /\ i \in Transfers(rs) /\ rs[i].qty \in Int
  BY DEF Cancelled, Transfers, Bookings, IsRows
<1>2. i \in A
  BY <1>1 DEF Alike
<1>3. A \in SUBSET Nat /\ IsFiniteSet(A) /\ B \in SUBSET Nat /\ IsFiniteSet(B)
      /\ Cardinality(A) \in Nat /\ Cardinality(B) \in Nat
  BY AlikePlaces
<1>4. Rank(rs, i) \in 1..Cardinality(A) /\ ~ (Rank(rs, i) > Cardinality(B))
  <2>1. Rank(rs, i) = Cardinality(UpToPlace(A, i))
    BY DEF Rank
  <2>2. Rank(rs, i) \in 1..Cardinality(A)
    BY <1>2, <1>3, <2>1, RankPlace
  <2>3. ~ (Rank(rs, i) > Cardinality(B))
    BY <1>1, LeftOver DEF Cancelled
  <2> QED
    BY <2>2, <2>3
<1>5. ASSUME NEW j \in B
      PROVE  /\ j \in Transfers(rs) /\ rs[j].qty = - rs[i].qty /\ rs[j].isin = rs[i].isin
             /\ Alike(rs, j, rs[j].qty) = B /\ Alike(rs, j, - rs[j].qty) = A
             /\ Rank(rs, j) = Cardinality(UpToPlace(B, j))
  <2>1. /\ j \in Transfers(rs) /\ rs[j].qty = - rs[i].qty /\ rs[j].isin = rs[i].isin
        /\ rs[j].date = rs[i].date /\ rs[j].price = rs[i].price
    BY DEF Alike
  <2>2. - rs[j].qty = rs[i].qty
    BY <1>1, <2>1
  <2>3. \A qty : Alike(rs, j, qty) = Alike(rs, i, qty)
    BY <2>1 DEF Alike
  <2>4. Alike(rs, j, rs[j].qty) = B /\ Alike(rs, j, - rs[j].qty) = A
    BY <2>1, <2>2, <2>3
  <2> QED
    BY <2>1, <2>4 DEF Rank
<1> HIDE DEF A, B
<1>6. \E j \in B : Rank(rs, j) = Rank(rs, i)
  <2>1. Rank(rs, i) \in 1..Cardinality(B)
    BY <1>3, <1>4
  <2>2. \E j \in B : Cardinality(UpToPlace(B, j)) = Rank(rs, i)
    BY <1>3, <2>1, RankPlace
  <2> QED
    BY <1>5, <2>2
<1> DEFINE j == Opposite(rs, i)
<1>7. j \in B /\ Rank(rs, j) = Rank(rs, i)
  BY <1>6 DEF Opposite, B
<1> HIDE DEF j
<1>8. j \in Cancelled(rs)
  <2>1. ~ (Rank(rs, j) > Cardinality(A))
    BY <1>3, <1>4, <1>7
  <2>2. j \in Transfers(rs) /\ Alike(rs, j, - rs[j].qty) = A
    BY <1>5, <1>7
  <2> QED
    BY <2>1, <2>2, LeftOver DEF Cancelled
<1>9. IsOpposite(rs, i, j)
  BY <1>5, <1>7, <1>8 DEF IsOpposite, A, B
<1> QED
  BY <1>9 DEF j

(* Who cancels whom is mutual.                                             *)
LEMMA OppositeTwice ==
  ASSUME NEW rs, IsRows(rs), NEW i \in Cancelled(rs), NEW j, IsOpposite(rs, i, j)
  PROVE  Opposite(rs, j) = i
<1> DEFINE k == Opposite(rs, j)
<1>1. j \in Cancelled(rs)
  BY DEF IsOpposite
<1>2. IsOpposite(rs, j, k)
  BY <1>1, HasOpposite
<1> HIDE DEF k
<1>3. /\ Alike(rs, k, rs[k].qty) = Alike(rs, i, rs[i].qty)
      /\ Rank(rs, k) = Rank(rs, i)
  BY <1>2 DEF IsOpposite
<1>4. i \in Alike(rs, i, rs[i].qty) /\ k \in Alike(rs, k, rs[k].qty)
  BY <1>2 DEF IsOpposite, Cancelled, Alike
<1>5. k = i
  <2> DEFINE A == Alike(rs, i, rs[i].qty)
  <2>1. Cardinality(UpToPlace(A, k)) = Cardinality(UpToPlace(A, i)) /\ i \in A /\ k \in A
    BY <1>3, <1>4 DEF Rank
  <2>2. A \in SUBSET Nat /\ IsFiniteSet(A)
    BY AlikePlaces
  <2> HIDE DEF A
  <2> QED
    BY <2>1, <2>2, RankPlace
<1> QED
  BY <1>5 DEF k

Moved(rs) == [i \in DOMAIN rs |-> rs[i].qty]

RowsOf(rs, S, isin) == {i \in S : rs[i].isin = isin}

(* The rows of one instrument are finitely many, and their units add up to *)
(* a number.                                                               *)
LEMMA RowsOfType ==
  ASSUME NEW rs, IsRows(rs), NEW S \in SUBSET DOMAIN rs, NEW isin
  PROVE  /\ RowsOf(rs, S, isin) \in SUBSET DOMAIN rs /\ IsFiniteSet(RowsOf(rs, S, isin))
         /\ \A i \in RowsOf(rs, S, isin) : Moved(rs)[i] = rs[i].qty /\ rs[i].qty \in Int \ {0}
         /\ SumFunctionOnSet(Moved(rs), RowsOf(rs, S, isin)) \in Int
<1>1. RowsOf(rs, S, isin) \in SUBSET DOMAIN rs
  BY DEF RowsOf
<1>2. IsFiniteSet(RowsOf(rs, S, isin))
  BY <1>1, FS_Subset DEF IsRows, IsPlaces
<1>3. \A i \in RowsOf(rs, S, isin) : Moved(rs)[i] = rs[i].qty /\ rs[i].qty \in Int \ {0}
  BY <1>1 DEF Moved, IsRows
<1>4. \A i \in RowsOf(rs, S, isin) : Moved(rs)[i] \in Int
  BY <1>3
<1> HIDE DEF RowsOf
<1>5. SumFunctionOnSet(Moved(rs), RowsOf(rs, S, isin)) \in Int
  BY <1>2, <1>4, SumType
<1> QED
  BY <1>1, <1>2, <1>3, <1>5

(* The units of two parts of a file add up.                                *)
LEMMA UnitsAdd ==
  ASSUME NEW rs, IsRows(rs), NEW S \in SUBSET DOMAIN rs, NEW T \in SUBSET DOMAIN rs,
         S \intersect T = {}, NEW isin
  PROVE  SumFunctionOnSet(Moved(rs), RowsOf(rs, S \union T, isin))
           = SumFunctionOnSet(Moved(rs), RowsOf(rs, S, isin))
               + SumFunctionOnSet(Moved(rs), RowsOf(rs, T, isin))
<1> DEFINE A == RowsOf(rs, S, isin)
           B == RowsOf(rs, T, isin)
<1>1. RowsOf(rs, S \union T, isin) = A \union B /\ A \intersect B = {}
  BY DEF RowsOf
<1>2. IsFiniteSet(A) /\ IsFiniteSet(B) /\ \A i \in A \union B : Moved(rs)[i] \in Int
  BY RowsOfType
<1> HIDE DEF A, B
<1>3. SumFunctionOnSet(Moved(rs), A \union B)
        = SumFunctionOnSet(Moved(rs), A) + SumFunctionOnSet(Moved(rs), B)
  BY <1>1, <1>2, SumUnion
<1> QED
  BY <1>1, <1>3 DEF A, B

(* The transfers that cancel bring in as many units as they take out.      *)
LEMMA CancelledSum ==
  ASSUME NEW rs, IsRows(rs), NEW isin
  PROVE  SumFunctionOnSet(Moved(rs), RowsOf(rs, Cancelled(rs), isin)) = 0
<1> DEFINE q     == Moved(rs)
           C     == RowsOf(rs, Cancelled(rs), isin)
           Plus  == {i \in C : rs[i].qty > 0}
           Minus == {i \in C : rs[i].qty < 0}
           b     == [i \in Plus |-> Opposite(rs, i)]
<1>1. Cancelled(rs) \in SUBSET DOMAIN rs
  BY DEF Cancelled, Transfers, Bookings
<1>2. /\ C \in SUBSET DOMAIN rs /\ IsFiniteSet(C)
      /\ \A i \in C : q[i] = rs[i].qty /\ rs[i].qty \in Int \ {0}
      /\ \A i \in C : i \in Cancelled(rs) /\ rs[i].isin = isin
      /\ \A i \in Cancelled(rs) : rs[i].isin = isin => i \in C
  <2>1. /\ C \in SUBSET DOMAIN rs /\ IsFiniteSet(C)
        /\ \A i \in C : q[i] = rs[i].qty /\ rs[i].qty \in Int \ {0}
    BY <1>1, RowsOfType
  <2>2. /\ \A i \in C : i \in Cancelled(rs) /\ rs[i].isin = isin
        /\ \A i \in Cancelled(rs) : rs[i].isin = isin => i \in C
    BY DEF RowsOf
  <2> QED
    BY <2>1, <2>2
<1>3. \A i \in C : /\ Opposite(rs, i) \in C /\ rs[Opposite(rs, i)].qty = - rs[i].qty
                   /\ Opposite(rs, Opposite(rs, i)) = i
  <2> TAKE i \in C
  <2>1. IsOpposite(rs, i, Opposite(rs, i))
    BY <1>2, HasOpposite
  <2>2. Opposite(rs, Opposite(rs, i)) = i
    BY <1>2, <2>1, OppositeTwice
  <2>3. Opposite(rs, i) \in Cancelled(rs) /\ rs[Opposite(rs, i)].qty = - rs[i].qty
        /\ rs[Opposite(rs, i)].isin = isin
    BY <1>2, <2>1 DEF IsOpposite
  <2> QED
    BY <1>2, <2>2, <2>3
<1>4. IsFiniteSet(Plus) /\ IsFiniteSet(Minus)
  <2>1. Plus \in SUBSET C /\ Minus \in SUBSET C
    OBVIOUS
  <2> QED
    BY <1>2, <2>1, FS_Subset
<1> HIDE DEF C
<1>5. \A i \in Plus : Opposite(rs, i) \in Minus
  BY <1>2, <1>3
<1>6. \A i \in Minus : Opposite(rs, i) \in Plus
  BY <1>2, <1>3
<1>7. /\ \A i \in Plus : i \in C /\ Opposite(rs, Opposite(rs, i)) = i /\ rs[Opposite(rs, i)].qty = - rs[i].qty
      /\ \A i \in Minus : i \in C /\ Opposite(rs, Opposite(rs, i)) = i
  BY <1>3
<1>8. C = Plus \union Minus /\ Plus \intersect Minus = {}
  BY <1>2
<1>9. \A i \in Plus \union Minus : q[i] = rs[i].qty /\ q[i] \in Int
  BY <1>2
<1> HIDE DEF Plus, Minus, q
<1>10. IsMatch(b, Plus, Minus)
  <2>1. b \in [Plus -> Minus]
    BY <1>5
  <2>2. \A x, y \in Plus : b[x] = b[y] => x = y
    BY <1>7
  <2>3. \A z \in Minus : \E x \in Plus : b[x] = z
    BY <1>6, <1>7
  <2> QED
    BY <1>4, <2>1, <2>2, <2>3 DEF IsMatch
<1>11. \A x \in Plus : q[x] \in Int /\ q[b[x]] = - q[x]
  BY <1>5, <1>7, <1>9
<1> HIDE DEF b
<1>12. SumFunctionOnSet(q, Plus) + SumFunctionOnSet(q, Minus) = 0
  BY <1>10, <1>11, SumOpposite
<1>13. SumFunctionOnSet(q, C) = SumFunctionOnSet(q, Plus) + SumFunctionOnSet(q, Minus)
  BY <1>4, <1>8, <1>9, SumUnion
<1> QED
  BY <1>12, <1>13 DEF q, C

(* What is left over of the transfers is all they brought in.              *)
LEMMA TransferUnits ==
  ASSUME NEW rs, IsRows(rs), NEW isin
  PROVE  SumFunctionOnSet(Moved(rs), RowsOf(rs, Transfers(rs), isin))
           = SumFunctionOnSet(Moved(rs), RowsOf(rs, cancelTransferPairs(rs), isin))
<1> DEFINE L == cancelTransferPairs(rs)
           C == Cancelled(rs)
<1>1. /\ L \in SUBSET DOMAIN rs /\ C \in SUBSET DOMAIN rs /\ L \intersect C = {}
      /\ Transfers(rs) = L \union C
  BY LeftOver DEF Cancelled, Transfers, Bookings
<1>2. SumFunctionOnSet(Moved(rs), RowsOf(rs, C, isin)) = 0
      /\ SumFunctionOnSet(Moved(rs), RowsOf(rs, L, isin)) \in Int
  BY <1>1, CancelledSum, RowsOfType
<1> HIDE DEF L, C
<1>3. SumFunctionOnSet(Moved(rs), RowsOf(rs, Transfers(rs), isin))
        = SumFunctionOnSet(Moved(rs), RowsOf(rs, L, isin))
            + SumFunctionOnSet(Moved(rs), RowsOf(rs, C, isin))
  BY <1>1, UnitsAdd
<1> QED
  BY <1>2, <1>3 DEF L

----------------------------------------------------------------------------
(* What netOrder makes of the rows of the orders.                          *)

(* A Degiro file that is not refused. *)
IsBooked(rs) ==
  /\ IsRows(rs) /\ ~ MixedOrder(rs)
  /\ \A i \in DOMAIN rs : rs[i].order \in OrderIds \union {NoOrder}

Ordered(rs) == DOMAIN rs \ Transfers(rs)

Earliest(rs, i) == Min(Bookings(rs, rs[i].order))

Net(rs, i) == netQty(byOrder(rs, rs[i].order))

(* The first rows of the orders that do not net to nothing. *)
Firsts(rs) ==
  {Min(Bookings(rs, o)) : o \in {p \in OrderIds : Bookings(rs, p) # {} /\ netQty(byOrder(rs, p)) # 0}}

(* The transactions of a file: the orders' that do not net to nothing and  *)
(* the transfers left over.                                                *)
LEMMA ConsolidateIs ==
  ASSUME NEW rs
  PROVE  consolidate(rs) = [i \in Firsts(rs) \union cancelTransferPairs(rs) |->
                              IF rs[i].order = NoOrder THEN rawRowToTx(rs[i])
                              ELSE netOrder(byOrder(rs, rs[i].order))]
BY DEF consolidate, Firsts

(* An order has an earliest row.                                           *)
LEMMA BookingsMin ==
  ASSUME NEW rs, IsRows(rs), NEW o, Bookings(rs, o) # {}
  PROVE  /\ Min(Bookings(rs, o)) \in Bookings(rs, o) /\ Min(Bookings(rs, o)) \in DOMAIN rs
         /\ rs[Min(Bookings(rs, o))].order = o
         /\ IsFiniteSet(Bookings(rs, o))
<1>1. Bookings(rs, o) \in SUBSET DOMAIN rs
  BY DEF Bookings
<1>2. Bookings(rs, o) \in SUBSET Nat /\ IsFiniteSet(Bookings(rs, o))
  BY <1>1, FS_Subset DEF IsRows, IsPlaces
<1>3. Min(Bookings(rs, o)) \in Bookings(rs, o)
  BY <1>2, MinPlace
<1>4. \A i \in Bookings(rs, o) : i \in DOMAIN rs /\ rs[i].order = o
  BY DEF Bookings
<1> QED
  BY <1>2, <1>3, <1>4

(* The earliest row of a row's order is of that order, and its own         *)
(* earliest.                                                               *)
LEMMA EarliestRow ==
  ASSUME NEW rs, IsRows(rs), NEW i \in Ordered(rs)
  PROVE  /\ Earliest(rs, i) \in Ordered(rs) /\ rs[Earliest(rs, i)].order = rs[i].order
         /\ Earliest(rs, Earliest(rs, i)) = Earliest(rs, i) /\ rs[i].order # NoOrder
<1>1. i \in DOMAIN rs /\ rs[i].order # NoOrder /\ i \in Bookings(rs, rs[i].order)
  BY DEF Ordered, Transfers, Bookings
<1>2. Earliest(rs, i) \in DOMAIN rs /\ rs[Earliest(rs, i)].order = rs[i].order
  BY <1>1, BookingsMin DEF Earliest
<1>3. Earliest(rs, i) \in Ordered(rs)
  BY <1>1, <1>2 DEF Ordered, Transfers, Bookings
<1>4. Earliest(rs, Earliest(rs, i)) = Earliest(rs, i)
  BY <1>2 DEF Earliest
<1> QED
  BY <1>1, <1>2, <1>3, <1>4

(* Which rows those are.                                                   *)
LEMMA FirstsAre ==
  ASSUME NEW rs, IsBooked(rs)
  PROVE  \A i : i \in Firsts(rs) <=> i \in Ordered(rs) /\ Earliest(rs, i) = i /\ Net(rs, i) # 0
<1>0. IsRows(rs)
  BY DEF IsBooked
<1>1. ASSUME NEW i \in Firsts(rs)
      PROVE  i \in Ordered(rs) /\ Earliest(rs, i) = i /\ Net(rs, i) # 0
  <2>1. PICK o \in OrderIds : Bookings(rs, o) # {} /\ netQty(byOrder(rs, o)) # 0 /\ i = Min(Bookings(rs, o))
    BY DEF Firsts
  <2>2. i \in DOMAIN rs /\ rs[i].order = o
    BY <1>0, <2>1, BookingsMin
  <2>3. o # NoOrder
    BY OrderAssumption
  <2> QED
    BY <2>1, <2>2, <2>3 DEF Ordered, Transfers, Bookings, Earliest, Net
<1>2. ASSUME NEW i \in Ordered(rs), Earliest(rs, i) = i, Net(rs, i) # 0
      PROVE  i \in Firsts(rs)
  <2>1. i \in DOMAIN rs /\ rs[i].order # NoOrder /\ rs[i].order \in OrderIds
    BY DEF Ordered, Transfers, Bookings, IsBooked
  <2>2. i \in Bookings(rs, rs[i].order)
    BY <2>1 DEF Bookings
  <2> QED
    BY <1>2, <2>1, <2>2 DEF Firsts, Earliest, Net
<1> QED
  BY <1>1, <1>2

(* The rows of an order are in one instrument.                             *)
LEMMA OneInstrument ==
  ASSUME NEW rs, IsBooked(rs), NEW i \in Ordered(rs), NEW j \in DOMAIN rs, rs[j].order = rs[i].order
  PROVE  rs[j].isin = rs[i].isin
BY DEF IsBooked, MixedOrder, Ordered, Transfers, Bookings

(* Netting is summing.                                                     *)
LEMMA NetIsSum ==
  ASSUME NEW rs, IsRows(rs), NEW o
  PROVE  netQty(byOrder(rs, o)) = SumFunctionOnSet(Moved(rs), Bookings(rs, o))
         /\ netQty(byOrder(rs, o)) \in Int
<1> DEFINE B == Bookings(rs, o)
           f == [i \in DOMAIN byOrder(rs, o) |-> byOrder(rs, o)[i].qty]
<1>1. B \in SUBSET DOMAIN rs
  BY DEF Bookings
<1>2. IsFiniteSet(B) /\ \A i \in B : Moved(rs)[i] = rs[i].qty /\ Moved(rs)[i] \in Int
  BY <1>1, FS_Subset DEF IsRows, IsPlaces, Moved
<1>3. byOrder(rs, o) = [i \in B |-> rs[i]]
  BY DEF byOrder, Restrict
<1> HIDE DEF B
<1>4. DOMAIN f = B /\ \A i \in B : f[i] = rs[i].qty
  BY <1>3
<1>5. netQty(byOrder(rs, o)) = SumFunctionOnSet(f, DOMAIN f)
  BY DEF netQty, SumFunction
<1> HIDE DEF f
<1>6. SumFunctionOnSet(f, B) = SumFunctionOnSet(Moved(rs), B)
  BY <1>2, <1>4, SumAgree
<1>7. SumFunctionOnSet(Moved(rs), B) \in Int
  BY <1>2, SumType
<1> QED
  BY <1>4, <1>5, <1>6, <1>7 DEF B

(* The nets of an instrument's orders are all that was booked of it.       *)
LEMMA OrderUnits ==
  ASSUME NEW rs, IsBooked(rs), NEW isin, NEW g, \A i \in Firsts(rs) : g[i] = Net(rs, i)
  PROVE  SumFunctionOnSet(Moved(rs), RowsOf(rs, Ordered(rs), isin))
           = SumFunctionOnSet(g, RowsOf(rs, Firsts(rs), isin))
<1> DEFINE q == Moved(rs)
           S == RowsOf(rs, Ordered(rs), isin)
           Y == {i \in S : Earliest(rs, i) = i}
           Z == RowsOf(rs, Firsts(rs), isin)
           kind == [i \in S |-> Earliest(rs, i)]
           net  == [i \in Y |-> Net(rs, i)]
<1>0. IsRows(rs) /\ Ordered(rs) \in SUBSET DOMAIN rs
  BY DEF IsBooked, Ordered
<1>1. S \in SUBSET DOMAIN rs /\ IsFiniteSet(S) /\ \A i \in S : q[i] \in Int
  BY <1>0, RowsOfType
<1>2. \A i \in S : Earliest(rs, i) \in Y
  <2> TAKE i \in S
  <2>1. i \in Ordered(rs) /\ rs[i].isin = isin
    BY DEF RowsOf
  <2>2. /\ Earliest(rs, i) \in Ordered(rs) /\ rs[Earliest(rs, i)].order = rs[i].order
        /\ Earliest(rs, Earliest(rs, i)) = Earliest(rs, i)
    BY <1>0, <2>1, EarliestRow
  <2>3. rs[Earliest(rs, i)].isin = isin
    BY <1>0, <2>1, <2>2, OneInstrument
  <2> QED
    BY <2>2, <2>3 DEF RowsOf
<1>3. ASSUME NEW y \in Y
      PROVE  {x \in S : kind[x] = y} = Bookings(rs, rs[y].order)
  <2>1. y \in Ordered(rs) /\ rs[y].isin = isin /\ Earliest(rs, y) = y /\ rs[y].order # NoOrder
    <3>1. y \in Ordered(rs) /\ rs[y].isin = isin /\ Earliest(rs, y) = y
      BY DEF RowsOf
    <3> QED
      BY <1>0, <3>1, EarliestRow
  <2>2. ASSUME NEW x \in S, kind[x] = y PROVE x \in Bookings(rs, rs[y].order)
    <3>1. x \in Ordered(rs) /\ x \in DOMAIN rs
      BY <1>1 DEF RowsOf
    <3>2. rs[y].order = rs[x].order
      BY <1>0, <2>2, <3>1, EarliestRow
    <3> QED
      BY <3>1, <3>2 DEF Bookings
  <2>3. ASSUME NEW x \in Bookings(rs, rs[y].order) PROVE x \in S /\ kind[x] = y
    <3>1. x \in DOMAIN rs /\ rs[x].order = rs[y].order
      BY DEF Bookings
    <3>2. x \in Ordered(rs)
      BY <2>1, <3>1 DEF Ordered, Transfers, Bookings
    <3>3. rs[x].isin = isin
      BY <2>1, <3>1, OneInstrument
    <3>4. x \in S
      BY <3>2, <3>3 DEF RowsOf
    <3> QED
      BY <2>1, <3>1, <3>4 DEF Earliest
  <2> QED
    BY <2>2, <2>3
<1>4. \A y \in Y : net[y] = SumFunctionOnSet(q, {x \in S : kind[x] = y}) /\ net[y] \in Int
  <2> TAKE y \in Y
  <2>1. net[y] = netQty(byOrder(rs, rs[y].order))
    BY DEF Net
  <2> DEFINE K == {x \in S : kind[x] = y}
  <2>2. K = Bookings(rs, rs[y].order)
    BY <1>3
  <2>3. net[y] = SumFunctionOnSet(q, Bookings(rs, rs[y].order)) /\ net[y] \in Int
    BY <1>0, <2>1, NetIsSum
  <2> HIDE DEF K, net, q
  <2>4. net[y] = SumFunctionOnSet(q, K) /\ net[y] \in Int
    BY <2>2, <2>3
  <2> QED
    BY <2>4 DEF K
<1>5. Y \in SUBSET S /\ IsFiniteSet(Y)
  BY <1>1, FS_Subset
<1>6. /\ Z = {i \in Y : net[i] # 0} /\ \A i \in Z : g[i] = net[i]
  <2>1. \A i : i \in Z <=> i \in Firsts(rs) /\ rs[i].isin = isin
    BY DEF RowsOf
  <2>2. \A i : i \in Y <=> i \in Ordered(rs) /\ rs[i].isin = isin /\ Earliest(rs, i) = i
    BY DEF RowsOf
  <2>3. \A i \in Y : net[i] = Net(rs, i)
    OBVIOUS
  <2> HIDE DEF Y, Z, net
  <2>4. \A i : i \in Z <=> i \in Y /\ Net(rs, i) # 0
    BY <2>1, <2>2, FirstsAre
  <2> QED
    BY <2>1, <2>3, <2>4
<1>7. \A x \in S : kind[x] \in Y
  BY <1>2
<1> HIDE DEF S, Y, Z, kind, net, q
<1>8. IsByKind(net, q, kind, S, Y)
  BY <1>1, <1>4, <1>5, <1>7 DEF IsByKind
<1>9. SumFunctionOnSet(q, S) = SumFunctionOnSet(net, Y)
  BY <1>8, SumByKind
<1>10. SumFunctionOnSet(net, Y) = SumFunctionOnSet(net, Z)
  <2> DEFINE R == Y \ Z
  <2>1. IsFiniteSet(R) /\ IsFiniteSet(Z) /\ Y = Z \union R /\ Z \intersect R = {}
    <3>1. R \in SUBSET Y /\ Z \in SUBSET Y
      BY <1>6
    <3> QED
      BY <1>5, <3>1, FS_Subset
  <2>2. \A i \in R : net[i] = 0
    BY <1>6
  <2> HIDE DEF R
  <2>3. SumFunctionOnSet(net, R) = 0
    BY <2>1, <2>2, SumOfZeros
  <2>4. SumFunctionOnSet(net, Z) \in Int
    BY <1>4, <2>1, SumType
  <2>5. SumFunctionOnSet(net, Y) = SumFunctionOnSet(net, Z) + SumFunctionOnSet(net, R)
    <3>1. \A i \in Z \union R : net[i] \in Int
      BY <1>4, <2>1
    <3>2. SumFunctionOnSet(net, Z \union R) = SumFunctionOnSet(net, Z) + SumFunctionOnSet(net, R)
      BY <2>1, <3>1, SumUnion
    <3> QED
      BY <2>1, <3>2
  <2> QED
    BY <2>3, <2>4, <2>5
<1>11. SumFunctionOnSet(g, Z) = SumFunctionOnSet(net, Z)
  <2>1. IsFiniteSet(Z)
    <3>1. Z \in SUBSET Y
      BY <1>6
    <3> QED
      BY <1>5, <3>1, FS_Subset
  <2> QED
    BY <1>6, <2>1, SumAgree
<1> QED
  BY <1>9, <1>10, <1>11 DEF q, S, Z

----------------------------------------------------------------------------
(* What the parsers make of a whole account has the account's units.       *)

Signs(P) == [i \in DOMAIN P |-> Signed(P[i].key)]

(* The trades parsed of rows: in the rows' instruments, and with all their *)
(* units.                                                                  *)
HasUnits(P, rs) ==
  /\ DOMAIN P \in SUBSET DOMAIN rs
  /\ \A i \in DOMAIN P : /\ rs[i].isin \in ISINs /\ Signed(P[i].key) \in Int
                         /\ P[i].key.instrument \in {rs[i].isin, Ticker[rs[i].isin]}
  /\ \A isin \in ISINs :
       SumFunctionOnSet(Signs(P), RowsOf(rs, DOMAIN P, isin))
         = SumFunctionOnSet(Moved(rs), RowsOf(rs, DOMAIN rs, isin))

(* The direction and the size of a trade are its signed size.              *)
LEMMA SignedSize ==
  ASSUME NEW key, NEW n \in Int, key.quantity = abs(n),
         key.type = "sell" <=> n < 0
  PROVE  Signed(key) = n
<1>1. n < 0 => abs(n) = - n /\ - abs(n) = n
  BY DEF abs
<1>2. ~ (n < 0) => abs(n) = n
  BY DEF abs
<1> QED
  BY <1>1, <1>2 DEF Signed

(* The trade of a row has the row's direction, size and instrument.        *)
LEMMA TradeOfSigned ==
  ASSUME NEW row, row.qty \in Int
  PROVE  Signed(tradeOf(row)) = row.qty /\ tradeOf(row).instrument = row.isin
         /\ tradeOf(row).quantity = abs(row.qty) /\ (tradeOf(row).type = "sell" <=> row.qty < 0)
<1>1. /\ tradeOf(row).instrument = row.isin /\ tradeOf(row).quantity = abs(row.qty)
      /\ tradeOf(row).type = "sell" <=> row.qty < 0
  BY DEF tradeOf, Direction
<1> QED
  BY <1>1, SignedSize

(* An order's transaction has the order's net size.                        *)
LEMMA NetOrderSigned ==
  ASSUME NEW rs, IsBooked(rs), NEW i \in Firsts(rs)
  PROVE  LET key == netOrder(byOrder(rs, rs[i].order)).key
         IN Signed(key) = Net(rs, i) /\ key.instrument = rs[i].isin
<1> DEFINE o   == rs[i].order
           B   == Bookings(rs, o)
           grp == byOrder(rs, o)
           fst == grp[Min(DOMAIN grp)]
           n   == netQty(grp)
           key == netOrder(grp).key
<1>0. IsRows(rs)
  BY DEF IsBooked
<1>1. i \in Ordered(rs) /\ Earliest(rs, i) = i /\ i \in DOMAIN rs
  BY FirstsAre DEF Ordered
<1>2. Min(B) = i /\ i \in B
  BY <1>1 DEF Earliest, Bookings
<1>3. DOMAIN grp = B /\ grp = [j \in B |-> rs[j]]
  BY DEF byOrder, Restrict
<1>4. fst = rs[i]
  BY <1>2, <1>3
<1>5. n \in Int /\ Net(rs, i) = n
  BY <1>0, NetIsSum DEF Net
<1>6. rs[i].qty \in Int
  BY <1>0, <1>1 DEF IsRows
<1>7. CASE Cardinality(DOMAIN grp) = 1
  <2>1. netOrder(grp) = rawRowToTx(rs[i])
    BY <1>4, <1>7 DEF netOrder
  <2>2. key = tradeOf(rs[i])
    BY <2>1 DEF rawRowToTx
  <2>3. Signed(key) = rs[i].qty /\ key.instrument = rs[i].isin
    BY <1>6, <2>2, TradeOfSigned
  <2>4. n = rs[i].qty
    <3>1. n = SumFunctionOnSet(Moved(rs), B) /\ IsFiniteSet(B)
      BY <1>0, <1>2, NetIsSum, BookingsMin
    <3>2. \A j \in B : j \in DOMAIN rs
      BY DEF Bookings
    <3>3. Cardinality(B) = 1
      BY <1>3, <1>7
    <3> HIDE DEF B, n
    <3>4. IsFiniteSet(B \ {i}) /\ Cardinality(B \ {i}) = 0
      BY <1>2, <3>1, <3>3, FS_RemoveElement
    <3>5. B \ {i} = {}
      BY <3>4, FS_EmptySet
    <3>6. \A j \in B : Moved(rs)[j] \in Int
      BY <1>0, <3>2 DEF IsRows, Moved
    <3>7. SumFunctionOnSet(Moved(rs), B) = Moved(rs)[i] + SumFunctionOnSet(Moved(rs), B \ {i})
      BY <1>2, <3>1, <3>6, SumWithout
    <3>8. SumFunctionOnSet(Moved(rs), B \ {i}) = 0
      BY <3>4, <3>5, SumChosen, Zenon
    <3>9. Moved(rs)[i] = rs[i].qty
      BY <1>1 DEF Moved
    <3> QED
      BY <1>6, <3>1, <3>7, <3>8, <3>9
  <2> QED
    BY <1>5, <2>3, <2>4
<1>8. CASE Cardinality(DOMAIN grp) # 1
  <2>1. key = [tradeOf(fst) EXCEPT !.type = Direction(n),
                                   !.date = Min({grp[j].date : j \in DOMAIN grp}),
                                   !.quantity = abs(n),
                                   !.price = abs(netValue(grp)) \div abs(n)]
    BY <1>8 DEF netOrder
  <2> HIDE DEF n, grp, fst, key
  <2>2. key.type = Direction(n) /\ key.quantity = abs(n) /\ key.instrument = fst.isin
    BY <2>1 DEF tradeOf
  <2>3. key.type = "sell" <=> n < 0
    BY <2>2 DEF Direction
  <2>4. Signed(key) = n
    BY <1>5, <2>2, <2>3, SignedSize
  <2>5. Signed(key) = Net(rs, i) /\ key.instrument = rs[i].isin
    BY <1>4, <1>5, <2>2, <2>4
  <2> QED
    BY <2>5 DEF key, grp
<1> QED
  BY <1>7, <1>8

(* Degiro's transactions: netted by order, transfers cancelled.            *)
LEMMA ConsolidatedUnits ==
  ASSUME NEW rs, IsBooked(rs), \A i \in DOMAIN rs : rs[i].isin \in ISINs
  PROVE  HasUnits(consolidate(rs), rs)
<1> DEFINE P == consolidate(rs)
           F == Firsts(rs)
           L == cancelTransferPairs(rs)
<1>0. IsRows(rs)
  BY DEF IsBooked
<1>1. /\ F \in SUBSET Ordered(rs) /\ L \in SUBSET Transfers(rs)
      /\ Ordered(rs) \in SUBSET DOMAIN rs /\ Transfers(rs) \in SUBSET DOMAIN rs
      /\ Ordered(rs) \intersect Transfers(rs) = {}
      /\ DOMAIN rs = Ordered(rs) \union Transfers(rs)
  BY FirstsAre, LeftOver DEF Ordered, Transfers, Bookings
<1>2. DOMAIN P = F \union L
  BY ConsolidateIs
<1>3. ASSUME NEW i \in F
      PROVE  Signed(P[i].key) = Net(rs, i) /\ P[i].key.instrument = rs[i].isin /\ Net(rs, i) \in Int
  <2>1. rs[i].order # NoOrder
    BY <1>1 DEF Ordered, Transfers, Bookings
  <2>2. P[i] = netOrder(byOrder(rs, rs[i].order))
    BY <2>1, ConsolidateIs
  <2>3. Net(rs, i) \in Int
    BY <1>0, NetIsSum DEF Net
  <2> QED
    BY <2>2, <2>3, NetOrderSigned
<1>4. ASSUME NEW i \in L
      PROVE  Signed(P[i].key) = rs[i].qty /\ P[i].key.instrument = rs[i].isin /\ rs[i].qty \in Int
  <2>1. i \in DOMAIN rs /\ rs[i].order = NoOrder
    BY <1>1 DEF Transfers, Bookings
  <2>2. P[i] = rawRowToTx(rs[i])
    BY <2>1, ConsolidateIs
  <2>3. rs[i].qty \in Int
    BY <1>0, <2>1 DEF IsRows
  <2> QED
    BY <2>2, <2>3, TradeOfSigned DEF rawRowToTx
<1> HIDE DEF P, F, L
<1>5. \A i \in DOMAIN P : Signs(P)[i] = Signed(P[i].key)
  BY DEF Signs
<1>6. \A i \in DOMAIN P : /\ rs[i].isin \in ISINs /\ Signed(P[i].key) \in Int
                          /\ P[i].key.instrument \in {rs[i].isin, Ticker[rs[i].isin]}
  BY <1>1, <1>2, <1>3, <1>4
<1>7. ASSUME NEW isin \in ISINs
      PROVE  SumFunctionOnSet(Signs(P), RowsOf(rs, DOMAIN P, isin))
               = SumFunctionOnSet(Moved(rs), RowsOf(rs, DOMAIN rs, isin))
  <2> DEFINE A == RowsOf(rs, F, isin)
             B == RowsOf(rs, L, isin)
  <2>1. RowsOf(rs, DOMAIN P, isin) = A \union B /\ A \intersect B = {}
        /\ A \in SUBSET F /\ B \in SUBSET L
    BY <1>1, <1>2 DEF RowsOf
  <2>2. IsFiniteSet(A) /\ IsFiniteSet(B)
    BY <1>0, <1>1, RowsOfType
  <2>3. SumFunctionOnSet(Moved(rs), RowsOf(rs, Ordered(rs), isin)) = SumFunctionOnSet(Signs(P), A)
    <3>1. \A i \in Firsts(rs) : Signs(P)[i] = Net(rs, i)
      BY <1>2, <1>3, <1>5 DEF F
    <3> QED
      BY <3>1, OrderUnits DEF F
  <2>4. SumFunctionOnSet(Moved(rs), B) = SumFunctionOnSet(Signs(P), B)
    <3>1. \A i \in B : Signs(P)[i] = Moved(rs)[i]
      BY <1>1, <1>2, <1>4, <1>5, <2>1 DEF Moved
    <3> HIDE DEF A, B
    <3> QED
      BY <2>2, <3>1, SumAgree
  <2>5. SumFunctionOnSet(Moved(rs), RowsOf(rs, Transfers(rs), isin)) = SumFunctionOnSet(Moved(rs), B)
    BY <1>0, TransferUnits DEF L
  <2>6. SumFunctionOnSet(Moved(rs), RowsOf(rs, DOMAIN rs, isin))
          = SumFunctionOnSet(Moved(rs), RowsOf(rs, Ordered(rs), isin))
              + SumFunctionOnSet(Moved(rs), RowsOf(rs, Transfers(rs), isin))
    BY <1>0, <1>1, UnitsAdd
  <2> HIDE DEF A, B
  <2>7. SumFunctionOnSet(Signs(P), A \union B) = SumFunctionOnSet(Signs(P), A) + SumFunctionOnSet(Signs(P), B)
    <3>1. \A i \in A \union B : Signs(P)[i] \in Int
      BY <1>2, <1>5, <1>6, <2>1
    <3> QED
      BY <2>1, <2>2, <3>1, SumUnion
  <2> QED
    BY <2>1, <2>3, <2>4, <2>5, <2>6, <2>7
<1> QED
  BY <1>1, <1>2, <1>6, <1>7 DEF HasUnits, P, F, L

(* A row, a trade: as long as the rows passed over bring nothing in.       *)
LEMMA PerRowUnits ==
  ASSUME NEW rs, IsRows(rs), NEW P, DOMAIN P \in SUBSET DOMAIN rs,
         \A i \in DOMAIN P : /\ rs[i].isin \in ISINs /\ Signed(P[i].key) = rs[i].qty
                             /\ P[i].key.instrument \in {rs[i].isin, Ticker[rs[i].isin]},
         \A isin \in ISINs :
           SumFunctionOnSet(Moved(rs), RowsOf(rs, DOMAIN rs \ DOMAIN P, isin)) = 0
  PROVE  HasUnits(P, rs)
<1>1. \A i \in DOMAIN P : Signed(P[i].key) \in Int
  BY DEF IsRows
<1>2. ASSUME NEW isin \in ISINs
      PROVE  SumFunctionOnSet(Signs(P), RowsOf(rs, DOMAIN P, isin))
               = SumFunctionOnSet(Moved(rs), RowsOf(rs, DOMAIN rs, isin))
  <2> DEFINE D == DOMAIN P
             M == DOMAIN rs \ DOMAIN P
             A == RowsOf(rs, D, isin)
  <2>1. D \in SUBSET DOMAIN rs /\ M \in SUBSET DOMAIN rs /\ D \intersect M = {} /\ D \union M = DOMAIN rs
    OBVIOUS
  <2>2. SumFunctionOnSet(Moved(rs), RowsOf(rs, M, isin)) = 0
    OBVIOUS
  <2>3. \A i \in A : Signs(P)[i] = Moved(rs)[i]
    BY DEF RowsOf, Signs, Moved
  <2>4. IsFiniteSet(A) /\ SumFunctionOnSet(Moved(rs), A) \in Int
    BY RowsOfType
  <2> HIDE DEF M, D
  <2>5. SumFunctionOnSet(Moved(rs), RowsOf(rs, D \union M, isin))
          = SumFunctionOnSet(Moved(rs), A) + SumFunctionOnSet(Moved(rs), RowsOf(rs, M, isin))
    BY <2>1, UnitsAdd
  <2> HIDE DEF A
  <2>6. SumFunctionOnSet(Signs(P), A) = SumFunctionOnSet(Moved(rs), A)
    BY <2>3, <2>4, SumAgree
  <2>7. SumFunctionOnSet(Signs(P), A) = SumFunctionOnSet(Moved(rs), RowsOf(rs, DOMAIN rs, isin))
    BY <2>1, <2>2, <2>4, <2>5, <2>6
  <2> QED
    BY <2>7 DEF A, D
<1> QED
  BY <1>1, <1>2 DEF HasUnits

(* The rows that are not described as trades move no units in all.         *)
TransfersEven(rs) ==
  LET passed == {i \in DOMAIN rs : rs[i].described # "trade"} IN
  \A isin \in ISINs : SumFunctionOnSet(Moved(rs), RowsOf(rs, passed, isin)) = 0

TradeKinds(layout) == IF layout = "etrade" THEN transactionTypes ELSE historyTradeTypes

(* The rows that name an instrument are the trades, and its sales are the  *)
(* ones that take units out.                                               *)
TradesTold(rs, layout) ==
  \A i \in DOMAIN rs :
    /\ rs[i].isin \in ISINs <=> rs[i].kind \in TradeKinds(layout)
    /\ rs[i].isin \in ISINs => (rs[i].kind = "Sell" <=> rs[i].qty < 0)

WholeFile(a, layout)   == Export(a, Days, layout)
WholeParsed(a, layout) == Parse(WholeFile(a, layout), layout)

(* An account is a file of rows, of the kind its layouts have.             *)
LEMMA AccountIsRows ==
  ASSUME NEW a \in Accounts, NEW layout \in a.layouts
  PROVE  /\ IsRows(a.rows) /\ a.rows = [i \in DOMAIN a.rows |-> a.rows[i]]
         /\ layout \in DegiroLayouts => \A i \in DOMAIN a.rows : a.rows[i] \in rawRow
         /\ layout \in FillLayouts => \A i \in DOMAIN a.rows : a.rows[i] \in fillRow
<1>1. \/ a.layouts \subseteq DegiroLayouts /\ a.rows \in Seq(rawRow)
      \/ a.layouts \subseteq FillLayouts /\ a.rows \in Seq(fillRow)
  BY AccountAssumption
<1>2. \A l : ~ (l \in DegiroLayouts /\ l \in FillLayouts)
  BY DEF DegiroLayouts, FillLayouts
<1>3. /\ layout \in DegiroLayouts => \A i \in DOMAIN a.rows : a.rows[i] \in rawRow
      /\ layout \in FillLayouts => \A i \in DOMAIN a.rows : a.rows[i] \in fillRow
      /\ \A i \in DOMAIN a.rows : a.rows[i] \in rawRow \/ a.rows[i] \in fillRow
      /\ a.rows = [i \in DOMAIN a.rows |-> a.rows[i]]
  <2> DEFINE R == rawRow
             F == fillRow
  <2>1. a.rows \in Seq(R) \/ a.rows \in Seq(F)
    BY <1>1
  <2>2. layout \in DegiroLayouts => a.rows \in Seq(R)
    BY <1>1, <1>2
  <2>3. layout \in FillLayouts => a.rows \in Seq(F)
    BY <1>1, <1>2
  <2> HIDE DEF R, F
  <2>4. a.rows = [i \in DOMAIN a.rows |-> a.rows[i]]
    BY <2>1
  <2> QED
    BY <2>1, <2>2, <2>3, <2>4 DEF R, F
<1>4. \A i \in DOMAIN a.rows : a.rows[i].qty \in Int \ {0}
  BY <1>3, QuantityAssumption DEF rawRow, fillRow
<1> QED
  BY <1>3, <1>4, AccountRows DEF IsRows

(* A Degiro export of all of an account is the account.                    *)
LEMMA DegiroFile ==
  ASSUME NEW a \in Accounts, NEW layout \in a.layouts, layout \in DegiroLayouts
  PROVE  WholeFile(a, layout) = a.rows
<1>1. ~ (layout \in FillLayouts)
  BY DEF DegiroLayouts, FillLayouts
<1>2. {i \in DOMAIN a.rows : a.rows[i].date \in Days /\ Listed(layout, a.rows[i])} = DOMAIN a.rows
  BY <1>1, AccountRows DEF Listed
<1> QED
  BY <1>2, AccountIsRows DEF WholeFile, Export, Restrict

(* What a Degiro layout gives of a whole account has the account's units.  *)
LEMMA DegiroUnits ==
  ASSUME NEW a \in Accounts, NEW layout \in a.layouts, layout \in DegiroLayouts,
         ~ Refused(WholeFile(a, layout), layout),
         layout = "account" => TransfersEven(a.rows)
  PROVE  HasUnits(WholeParsed(a, layout), a.rows)
<1> DEFINE rs == a.rows
<1>1. IsRows(rs) /\ \A i \in DOMAIN rs : rs[i] \in rawRow
  BY AccountIsRows
<1>2. \A i \in DOMAIN rs : rs[i].isin \in ISINs /\ rs[i].order \in OrderIds \union {NoOrder}
                           /\ rs[i].qty \in Int
  BY <1>1, QuantityAssumption DEF rawRow
<1>3. WholeParsed(a, layout) = Parse(rs, layout) /\ ~ Refused(rs, layout)
  BY DegiroFile DEF WholeParsed
<1> HIDE DEF rs
<1>4. CASE layout = "transactions"
  <2>1. IsBooked(rs)
    BY <1>1, <1>2, <1>3, <1>4 DEF IsBooked, Refused, RefusedDegiro
  <2>2. Parse(rs, layout) = consolidate(rs)
    BY <1>4 DEF Parse, ParseDegiro, DegiroLayouts
  <2> QED
    BY <1>2, <1>3, <2>1, <2>2, ConsolidatedUnits DEF rs
<1>5. CASE layout = "account"
  <2> DEFINE P == parseAccountRows(rs)
  <2>1. Parse(rs, layout) = P
    BY <1>5 DEF Parse, ParseDegiro, DegiroLayouts
  <2>2. /\ DOMAIN P = {i \in DOMAIN rs : rs[i].described = "trade"}
        /\ \A i \in DOMAIN P : P[i] = parseAccountRow(rs[i])
    BY DEF parseAccountRows
  <2>3. DOMAIN P \in SUBSET DOMAIN rs
        /\ DOMAIN rs \ DOMAIN P = {i \in DOMAIN rs : rs[i].described # "trade"}
    BY <2>2
  <2>4. \A isin \in ISINs : SumFunctionOnSet(Moved(rs), RowsOf(rs, DOMAIN rs \ DOMAIN P, isin)) = 0
    <3>1. TransfersEven(rs)
      BY <1>5 DEF rs
    <3> QED
      BY <2>3, <3>1 DEF TransfersEven
  <2>5. \A i \in DOMAIN P : /\ rs[i].isin \in ISINs /\ Signed(P[i].key) = rs[i].qty
                            /\ P[i].key.instrument \in {rs[i].isin, Ticker[rs[i].isin]}
    <3> TAKE i \in DOMAIN P
    <3>1. i \in DOMAIN rs /\ rs[i].qty \in Int
      BY <1>2, <2>3
    <3>2. P[i] = parseAccountRow(rs[i])
      BY <2>2
    <3> HIDE DEF P
    <3>3. /\ P[i].key.type = tradeOf(rs[i]).type /\ P[i].key.quantity = tradeOf(rs[i]).quantity
          /\ P[i].key.instrument = tradeOf(rs[i]).instrument
      BY <3>2 DEF parseAccountRow, tradeOf
    <3>4. Signed(P[i].key) = Signed(tradeOf(rs[i]))
      BY <3>3 DEF Signed
    <3> QED
      BY <1>2, <3>1, <3>3, <3>4, TradeOfSigned
  <2> HIDE DEF P
  <2>6. HasUnits(P, rs)
    BY <1>1, <2>2, <2>3, <2>4, <2>5, PerRowUnits
  <2> QED
    BY <1>3, <2>1, <2>6 DEF rs
<1> QED
  BY <1>4, <1>5 DEF DegiroLayouts

(* The rows that name an instrument, each a trade.                         *)
NamedRows(rs) == {i \in DOMAIN rs : rs[i].isin \in ISINs}

(* The fills' layouts: the trades parsed are the rows that name an         *)
(* instrument, in that or its symbol, each with its units.                 *)
LEMMA FillsParsed ==
  ASSUME NEW a \in Accounts, NEW layout \in a.layouts, layout \in FillLayouts,
         ~ Refused(WholeFile(a, layout), layout), TradesTold(a.rows, layout)
  PROVE  LET P == WholeParsed(a, layout) IN
         /\ DOMAIN P = NamedRows(a.rows)
         /\ \A i \in DOMAIN P : /\ Signed(P[i].key) = a.rows[i].qty
                                /\ P[i].key.instrument \in {a.rows[i].isin, Ticker[a.rows[i].isin]}
<1> DEFINE rs   == a.rows
           file == WholeFile(a, layout)
           N    == NamedRows(rs)
<1>1. \A i \in DOMAIN rs : rs[i] \in fillRow
  BY AccountIsRows
<1>2. \A i \in DOMAIN rs : /\ rs[i].isin \in ISINs \union {NoISIN} /\ rs[i].qty \in Int
                           /\ rs[i].date \in Days
                           /\ HasISIN(rs[i]) <=> i \in N
  BY <1>1, QuantityAssumption, InstrumentAssumption DEF fillRow, HasISIN, NamedRows
<1>3. /\ \A i \in DOMAIN rs : i \in N <=> rs[i].kind \in TradeKinds(layout)
      /\ \A i \in N : i \in DOMAIN rs /\ (rs[i].kind = "Sell" <=> rs[i].qty < 0)
  BY DEF TradesTold, NamedRows
<1>4. /\ DOMAIN file = {i \in DOMAIN rs : Lists(layout, rs[i])}
      /\ \A i \in DOMAIN file : i \in DOMAIN rs /\ file[i] = rs[i]
  BY <1>2 DEF WholeFile, Export, Restrict, Listed
<1>5. N \subseteq DOMAIN file
  <2>1. \A i \in N : Lists(layout, rs[i])
    BY <1>3 DEF Lists, TradeKinds
  <2> QED
    BY <1>3, <1>4, <2>1
<1>6. ~ RefusedFills(file, layout)
  BY DEF Refused
<1>7. WholeParsed(a, layout) = ParseFills(file, layout)
  BY DEF WholeParsed, Parse, DegiroLayouts, FillLayouts
<1>8. ASSUME NEW i \in N
      PROVE  /\ file[i] = rs[i] /\ rs[i].qty \in Int
             /\ Signed(tradeOf(rs[i])) = rs[i].qty /\ tradeOf(rs[i]).instrument = rs[i].isin
             /\ tradeOf(rs[i]).quantity = abs(rs[i].qty)
             /\ tradeOf(rs[i]).type = "sell" <=> rs[i].qty < 0
             /\ rs[i].kind = "Sell" <=> rs[i].qty < 0
             /\ rs[i].kind \in TradeKinds(layout)
  BY <1>2, <1>3, <1>4, <1>5, TradeOfSigned
<1> HIDE DEF rs, file, N
<1>9. CASE layout = "flat"
  <2>1. ParseFills(file, layout) = parseFlat(file)
    BY <1>9 DEF ParseFills
  <2>2. DOMAIN parseFlat(file) = N
    BY <1>2, <1>4, <1>5 DEF parseFlat
  <2>3. ASSUME NEW i \in N
        PROVE  /\ Signed(parseFlat(file)[i].key) = rs[i].qty
               /\ parseFlat(file)[i].key.instrument = rs[i].isin
    <3> DEFINE key == [tradeOf(rs[i]) EXCEPT !.time = rs[i].time, !.currency = EUR, !.price = @ * rs[i].rate]
    <3>1. parseFlat(file)[i].key = key
      BY <1>8, <2>2 DEF parseFlat, parseFlatRow
    <3>2. /\ key.type = tradeOf(rs[i]).type /\ key.quantity = tradeOf(rs[i]).quantity
          /\ key.instrument = tradeOf(rs[i]).instrument
      BY DEF tradeOf
    <3> HIDE DEF key
    <3> QED
      BY <1>8, <3>1, <3>2, SignedSize
  <2> QED
    BY <1>7, <2>1, <2>2, <2>3 DEF rs, N
<1>10. CASE layout = "history"
  <2>1. ParseFills(file, layout) = parseTransactionHistory(file)
    BY <1>10 DEF ParseFills
  <2>2. DOMAIN parseTransactionHistory(file) = N
    BY <1>3, <1>4, <1>5, <1>10 DEF parseTransactionHistory, TradeKinds
  <2>3. ASSUME NEW i \in N
        PROVE  /\ Signed(parseTransactionHistory(file)[i].key) = rs[i].qty
               /\ parseTransactionHistory(file)[i].key.instrument = Ticker[rs[i].isin]
    <3> DEFINE key == [tradeOf(rs[i]) EXCEPT !.type = IF rs[i].kind = "Buy" THEN "buy" ELSE "sell",
                                             !.instrument = Ticker[rs[i].isin]]
    <3>1. parseTransactionHistory(file)[i].key = key
      BY <1>8, <2>2 DEF parseTransactionHistory, parseHistoryRow
    <3>2. /\ key.type = (IF rs[i].kind = "Buy" THEN "buy" ELSE "sell")
          /\ key.quantity = tradeOf(rs[i]).quantity /\ key.instrument = Ticker[rs[i].isin]
      BY DEF tradeOf
    <3>3. key.type = "sell" <=> rs[i].qty < 0
      BY <1>8, <1>10, <3>2 DEF TradeKinds, historyTradeTypes
    <3> HIDE DEF key
    <3> QED
      BY <1>8, <3>1, <3>2, <3>3, SignedSize
  <2> QED
    BY <1>7, <2>1, <2>2, <2>3 DEF rs, N
<1>11. CASE layout = "statement"
  <2>1. ParseFills(file, layout) = parseActivityStatement(file)
    BY <1>11 DEF ParseFills
  <2>2. DOMAIN parseActivityStatement(file) = N
    <3>1. \A i \in DOMAIN file : HasISIN(file[i])
      BY <1>6, <1>11 DEF RefusedFills, EmptyISIN
    <3>2. DOMAIN file = N
      BY <1>2, <1>4, <1>5, <3>1
    <3> QED
      BY <3>2 DEF parseActivityStatement
  <2>3. ASSUME NEW i \in N
        PROVE  parseActivityStatement(file)[i].key = tradeOf(rs[i])
    BY <1>8, <2>2 DEF parseActivityStatement, parseTradesRow
  <2> QED
    BY <1>7, <1>8, <2>1, <2>2, <2>3 DEF rs, N
<1>12. CASE layout = "etrade"
  <2>1. ParseFills(file, layout) = parseEtrade(file)
    BY <1>12 DEF ParseFills
  <2>2. DOMAIN parseEtrade(file) = N
    <3>1. \A i \in DOMAIN file : file[i].kind \in transactionTypes
      BY <1>6, <1>12 DEF RefusedFills, NotVestOrSell
    <3>2. DOMAIN file = N
      BY <1>3, <1>4, <1>5, <1>12, <3>1 DEF TradeKinds
    <3> QED
      BY <3>2 DEF parseEtrade
  <2>3. ASSUME NEW i \in N
        PROVE  /\ Signed(parseEtrade(file)[i].key) = rs[i].qty
               /\ parseEtrade(file)[i].key.instrument = Ticker[rs[i].isin]
    <3> DEFINE key == [tradeOf(rs[i]) EXCEPT !.type = IF rs[i].kind = "Vest" THEN "rsu_vest" ELSE "sell",
                                             !.instrument = Ticker[rs[i].isin]]
    <3>1. parseEtrade(file)[i].key = key
      BY <1>8, <2>2 DEF parseEtrade, parseRow
    <3>2. /\ key.type = (IF rs[i].kind = "Vest" THEN "rsu_vest" ELSE "sell")
          /\ key.quantity = tradeOf(rs[i]).quantity /\ key.instrument = Ticker[rs[i].isin]
      BY DEF tradeOf
    <3>3. key.type = "sell" <=> rs[i].qty < 0
      BY <1>8, <1>12, <3>2 DEF TradeKinds, transactionTypes
    <3> HIDE DEF key
    <3> QED
      BY <1>8, <3>1, <3>2, <3>3, SignedSize
  <2> QED
    BY <1>7, <2>1, <2>2, <2>3 DEF rs, N
<1> QED
  BY <1>9, <1>10, <1>11, <1>12 DEF FillLayouts

(* What a layout of fills gives of a whole account has the account's       *)
(* units.                                                                  *)
LEMMA FillUnits ==
  ASSUME NEW a \in Accounts, NEW layout \in a.layouts, layout \in FillLayouts,
         ~ Refused(WholeFile(a, layout), layout), TradesTold(a.rows, layout)
  PROVE  HasUnits(WholeParsed(a, layout), a.rows)
<1> DEFINE P == WholeParsed(a, layout)
<1>1. /\ DOMAIN P = NamedRows(a.rows)
      /\ \A i \in DOMAIN P : /\ Signed(P[i].key) = a.rows[i].qty
                             /\ P[i].key.instrument \in {a.rows[i].isin, Ticker[a.rows[i].isin]}
  BY FillsParsed
<1> HIDE DEF P
<1>2. DOMAIN P \in SUBSET DOMAIN a.rows /\ \A i \in DOMAIN P : a.rows[i].isin \in ISINs
  BY <1>1 DEF NamedRows
<1>3. \A isin \in ISINs :
        SumFunctionOnSet(Moved(a.rows), RowsOf(a.rows, DOMAIN a.rows \ DOMAIN P, isin)) = 0
  <2> TAKE isin \in ISINs
  <2>1. RowsOf(a.rows, DOMAIN a.rows \ DOMAIN P, isin) = {}
    BY <1>1 DEF RowsOf, NamedRows
  <2>2. SumFunctionOnSet(Moved(a.rows), {}) = 0
    BY SumChosen, FS_EmptySet, Zenon
  <2> QED
    BY <2>1, <2>2
<1>4. IsRows(a.rows)
  BY AccountIsRows
<1>5. HasUnits(P, a.rows)
  BY <1>1, <1>2, <1>3, <1>4, PerRowUnits
<1> QED
  BY <1>5 DEF P

----------------------------------------------------------------------------

KeysOf(a, layout) ==
  IF Refused(WholeFile(a, layout), layout) THEN {} ELSE {tx.key : tx \in Range(WholeParsed(a, layout))}

(* What an account must be like for its imports to add up: no two of its   *)
(* transactions are alike in all that identifies them, no window cuts an   *)
(* order where orders are netted, its transfers move no units where they   *)
(* are passed over, its other rows tell trades apart, and it is exported   *)
(* in one layout.                                                          *)
AddsUp(a) ==
  /\ "transactions" \in a.layouts => Uncut(a.rows)
  /\ "account" \in a.layouts => TransfersEven(a.rows)
  /\ \A layout \in a.layouts :
       /\ layout \in FillLayouts => TradesTold(a.rows, layout)
       /\ ~ Refused(WholeFile(a, layout), layout) =>
            \A i, j \in DOMAIN WholeParsed(a, layout) :
              WholeParsed(a, layout)[i].key = WholeParsed(a, layout)[j].key => i = j
       /\ a.layouts = {layout}

(* No instrument goes by another's name or symbol. *)
NamesDiffer ==
  \A isin, other \in ISINs :
    isin # other => {isin, Ticker[isin]} \intersect {other, Ticker[other]} = {}

(* The rows of the ledger are the transactions of the whole account.       *)
LEMMA LedgerIsAccount ==
  ASSUME IInv, account \in Accounts, NothingInvented, AddsUp(account),
         NEW layout \in account.layouts, Whole(layout) # {}, Whole(layout) \subseteq imported
  PROVE  /\ ~ Refused(WholeFile(account, layout), layout)
         /\ \A i \in DOMAIN WholeParsed(account, layout) :
              \E r \in InLedger : rows[r].tx.key = WholeParsed(account, layout)[i].key
         /\ \A r \in InLedger :
              \E i \in DOMAIN WholeParsed(account, layout) :
                rows[r].tx.key = WholeParsed(account, layout)[i].key
<1> DEFINE P == WholeParsed(account, layout)
<1>1. \A l : Whole(l) = KeysOf(account, l)
  BY DEF Whole, KeysOf, WholeFile, WholeParsed
<1>2. ~ Refused(WholeFile(account, layout), layout)
  BY <1>1 DEF KeysOf
<1>3. Whole(layout) = {tx.key : tx \in Range(P)}
  BY <1>1, <1>2 DEF KeysOf
<1>4. \A i \in DOMAIN P : P[i].key \in Whole(layout)
  BY <1>3 DEF Range
<1>5. \A key \in Whole(layout) : \E i \in DOMAIN P : key = P[i].key
  BY <1>3 DEF Range
<1>6. \A i \in DOMAIN P : P[i].key \in Trades
  <2>1. \A i \in DOMAIN P : P[i] \in [key : Trades, ref : Refs]
    BY <1>2, TradeAssumption DEF WholeParsed, WholeFile
  <2> HIDE DEF P
  <2> QED
    BY <2>1
<1> HIDE DEF P
<1>7. ASSUME NEW i \in DOMAIN P PROVE \E r \in InLedger : rows[r].tx.key = P[i].key
  <2>1. P[i].key \in imported \intersect Trades
    BY <1>4, <1>6
  <2>2. PICK r \in DOMAIN rows : rows[r].tx.key = P[i].key
    BY <2>1 DEF IInv, ImportsComplete
  <2> QED
    BY <1>6, <2>2 DEF InLedger
<1>8. ASSUME NEW r \in InLedger PROVE \E i \in DOMAIN P : rows[r].tx.key = P[i].key
  <2>1. PICK l \in account.layouts :
          rows[r].tx.key \in Whole(l) \/ Refused(WholeFile(account, l), l)
    BY DEF NothingInvented, WholeFile
  <2>2. l = layout
    BY DEF AddsUp
  <2> QED
    BY <1>2, <1>5, <2>1, <2>2
<1> QED
  BY <1>2, <1>7, <1>8 DEF P

(* Both sides are sums over the transactions of the whole account.         *)
LEMMA UnitsAgreeHere ==
  ASSUME NamesDiffer, IInv, account \in Accounts, NothingInvented, AddsUp(account),
         NEW layout \in account.layouts, Whole(layout) # {}, Whole(layout) \subseteq imported,
         NEW isin \in ISINs
  PROVE  UnitsHeld(isin) = UnitsTraded(isin)
<1> DEFINE P  == WholeParsed(account, layout)
           rs == account.rows
           H  == {j \in InLedger : rows[j].tx.key.instrument \in {isin, Ticker[isin]}}
           D  == RowsOf(rs, DOMAIN P, isin)
           b  == [i \in D |-> CHOOSE r \in InLedger : rows[r].tx.key = P[i].key]
           g  == [i \in H |-> Signed(rows[i].tx.key)]
<1>1. /\ \A i \in DOMAIN P : \E r \in InLedger : rows[r].tx.key = P[i].key
      /\ \A r \in InLedger : \E i \in DOMAIN P : rows[r].tx.key = P[i].key
      /\ ~ Refused(WholeFile(account, layout), layout)
  BY LedgerIsAccount
<1>2. HasUnits(P, rs) /\ IsRows(rs)
  <2>1. layout \in DegiroLayouts \/ layout \in FillLayouts
    BY AccountRows
  <2>2. layout = "account" => TransfersEven(rs)
    BY DEF AddsUp
  <2>3. layout \in FillLayouts => TradesTold(rs, layout)
    BY DEF AddsUp
  <2> QED
    BY <1>1, <2>1, <2>2, <2>3, DegiroUnits, FillUnits, AccountIsRows
<1>3. \A i, j \in DOMAIN P : P[i].key = P[j].key => i = j
  BY <1>1 DEF AddsUp
<1>4. \A r, s \in InLedger : rows[r].tx.key = rows[s].tx.key => r = s
  BY DEF IInv, OneRowPerTransaction, InLedger
<1>5. IsFiniteSet(H)
  <2>1. H \in SUBSET (1..lastId) /\ lastId \in Nat
    BY DEF IInv, TypeOK, InLedger
  <2>2. IsFiniteSet(1..lastId)
    BY <2>1, FS_Interval
  <2> HIDE DEF H
  <2> QED
    BY <2>1, <2>2, FS_Subset
<1>6. \A i \in DOMAIN P : P[i].key.instrument \in {isin, Ticker[isin]} <=> rs[i].isin = isin
  BY <1>2 DEF NamesDiffer, HasUnits
<1>7. \A i \in D : i \in DOMAIN P /\ rs[i].isin = isin
  BY DEF RowsOf
<1>8. \A i \in DOMAIN P : rs[i].isin = isin => i \in D
  BY DEF RowsOf
<1>9. IsFiniteSet(D) /\ \A i \in D : Signs(P)[i] = Signed(P[i].key) /\ Signs(P)[i] \in Int
  <2>1. IsFiniteSet(D)
    BY <1>2, RowsOfType DEF HasUnits
  <2>2. \A i \in DOMAIN P : Signs(P)[i] = Signed(P[i].key) /\ Signs(P)[i] \in Int
    BY <1>2 DEF HasUnits, Signs
  <2> QED
    BY <1>7, <2>1, <2>2
<1>10. SumFunctionOnSet(Signs(P), D) = SumFunctionOnSet(Moved(rs), RowsOf(rs, DOMAIN rs, isin))
  BY <1>2 DEF HasUnits
<1>11. UnitsHeld(isin) = SumFunctionOnSet(g, H)
  BY DEF UnitsHeld, SumFunction
<1>12. \A j : j \in H <=> j \in InLedger /\ rows[j].tx.key.instrument \in {isin, Ticker[isin]}
  OBVIOUS
<1>13. \A j \in H : g[j] = Signed(rows[j].tx.key)
  OBVIOUS
<1> HIDE DEF P, rs, H, D, g
<1>14. \A i \in D : b[i] \in InLedger /\ rows[b[i]].tx.key = P[i].key
  <2> TAKE i \in D
  <2>1. \E r \in InLedger : rows[r].tx.key = P[i].key
    BY <1>1, <1>7
  <2> QED
    BY <2>1
<1>15. b \in [D -> H]
  <2>1. \A i \in D : b[i] \in H
    BY <1>6, <1>7, <1>12, <1>14
  <2> QED
    BY <2>1
<1> HIDE DEF b
<1>16. IsMatch(b, D, H)
  <2>1. \A x, y \in D : b[x] = b[y] => x = y
    BY <1>3, <1>7, <1>14
  <2>2. ASSUME NEW z \in H PROVE \E x \in D : b[x] = z
    <3>1. PICK i \in DOMAIN P : rows[z].tx.key = P[i].key
      BY <1>1, <1>12
    <3>2. i \in D
      BY <1>6, <1>8, <1>12, <3>1
    <3>3. b[i] = z
      BY <1>4, <1>12, <1>14, <3>1, <3>2
    <3> QED
      BY <3>2, <3>3
  <2> QED
    BY <1>5, <1>9, <1>15, <2>1, <2>2 DEF IsMatch
<1>17. \A x \in D : Signs(P)[x] \in Int /\ g[b[x]] = Signs(P)[x]
  BY <1>9, <1>13, <1>14, <1>15
<1>18. SumFunctionOnSet(g, H) = SumFunctionOnSet(Signs(P), D)
  BY <1>16, <1>17, SumMatched
<1>19. UnitsTraded(isin) = SumFunctionOnSet(Moved(rs), RowsOf(rs, DOMAIN rs, isin))
  <2> DEFINE T == RowsOf(rs, DOMAIN rs, isin)
             q == [i \in T |-> rs[i].qty]
  <2>1. UnitsTraded(isin) = SumFunctionOnSet(q, DOMAIN q)
    BY DEF UnitsTraded, SumFunction, RowsOf, rs
  <2>2. DOMAIN q = T /\ IsFiniteSet(T) /\ \A i \in T : q[i] = Moved(rs)[i]
    BY <1>2, RowsOfType
  <2> HIDE DEF T, q
  <2>3. SumFunctionOnSet(q, T) = SumFunctionOnSet(Moved(rs), T)
    BY <2>2, SumAgree
  <2> QED
    BY <2>1, <2>2, <2>3 DEF T
<1> QED
  BY <1>10, <1>11, <1>18, <1>19

(* Once an export of all of an account has been imported, the ledger has   *)
(* the units the account traded, for every instrument: whatever windows of *)
(* it are imported as well, however they overlap, by whichever writers,    *)
(* broken off or not, in whichever layout its owner keeps to, where no     *)
(* window cuts an order (AddsUp).                                          *)
THEOREM UnitsAlwaysAgree ==
  ASSUME NamesDiffer, \A a \in Accounts : AddsUp(a)
  PROVE  SpecImport => []UnitsAgree
<1>1. OrdersUncut
  BY DEF OrdersUncut, AddsUp
<1>2. IInv /\ account \in Accounts /\ NothingInvented => UnitsAgree
  BY UnitsAgreeHere DEF UnitsAgree
<1> QED
  BY <1>1, <1>2, NeverInvents, ImportInvariance, PTL

=============================================================================
