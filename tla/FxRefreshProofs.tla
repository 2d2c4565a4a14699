-------------------------- MODULE FxRefreshProofs --------------------------
(***************************************************************************)
(* Proofs about FxRefresh, for any number of goroutines, any calendar of   *)
(* publication days and any currencies.                                    *)
(*                                                                         *)
(* Whoever refreshes holds the lock (Holding), so between looking at the   *)
(* data and replacing it nobody else replaces it.  A call under way is     *)
(* about a known currency (Asking), which is what bounds its answer.       *)
(*                                                                         *)
(* A date that the binary's data covers is never stale, so its call ends   *)
(* on the snapshot it began with (Asking); what that snapshot answers is   *)
(* the binary's answer, or what is left of it in a file cut short          *)
(* (LookupSettled), because such a file has lost its oldest days and no    *)
(* others.                                                                 *)
(***************************************************************************)
EXTENDS FxRefresh, TLAPS

Refreshing == {"fetch", "persist", "write"}

Holding == \A c \in Callers : pc[c] \in Refreshing => lock = c

(* A call that refreshes asks of a known currency, about a date after the  *)
(* binary's last.                                                          *)
Asking ==
  \A c \in Callers :
    pc[c] \in Refreshing \union {"refresh", "reread"} =>
      asked[c] \in Known \X Dates /\ asked[c][2] > EmbeddedLast

(* Nothing is answered before the call ends. *)
Unanswered == \A c \in Callers : pc[c] # "done" => answer[c] = NoCall

(* A process that does not run has no calls. *)
Resting == up \/ \A c \in Callers : pc[c] = "idle"

IInv ==
  /\ TypeOK /\ Holding /\ Asking /\ Unanswered /\ Resting
  /\ LacksOnlyWhatItsFileLacks /\ CloseToItsDate /\ SettledRatesStand

----------------------------------------------------------------------------

(* Days are numbers.                                                       *)
LEMMA Numbers ==
  /\ \A d \in PublicationDays : d \in Nat /\ FirstDay <= d
  /\ \A d \in Dates : d \in Nat
  /\ FirstDay \in PublicationDays /\ EmbeddedLast \in PublicationDays
  /\ maxLookback \in Nat /\ staleGrace \in Nat
BY DaysAssumption, SpanAssumption

(* An answer about a date that a snapshot is not too old for is an error   *)
(* or a rate of that currency within reach of the date.                    *)
LEMMA LookupClose ==
  ASSUME NEW d \in Dataset, NEW cur \in Known, NEW day \in Dates, ~ Stale(d, day),
         NEW result \in Lookup(d, cur, day)
  PROVE  /\ result \in Answer
         /\ result.kind = "rate" => /\ result.day \in RatedDays[cur]
                                    /\ result.day <= day
                                    /\ day <= result.day + maxLookback + staleGrace
<1> DEFINE goal == IF day > d.last THEN d.last ELSE day
           near == {u \in RatedDays[cur] : /\ d.first <= u /\ goal - maxLookback <= u /\ u <= goal
                                           /\ ~ (u = d.first /\ d.oldest = "missing")}
<1>1. d.last \in Nat /\ d.last \in PublicationDays /\ day \in Nat /\ goal \in Nat
      /\ goal <= day /\ day <= goal + staleGrace
  BY Numbers DEF Dataset, Stale
<1>2. RatedDays[cur] \subseteq PublicationDays
  BY CurrencyAssumption
<1>3. Failure("norate") \in Answer /\ Failure("norate").kind # "rate"
  BY Numbers DEF Failure, Answer
<1>4. CASE near = {}
  <2>1. result = Failure("norate")
    BY <1>4 DEF Lookup
  <2> QED
    BY <1>3, <2>1
<1>5. CASE near # {}
  <2>1. PICK u \in near : result = Quoted(u, u = d.first /\ d.oldest = "short")
    BY <1>5 DEF Lookup, Newest
  <2>2. u \in RatedDays[cur] /\ u \in PublicationDays /\ goal - maxLookback <= u /\ u <= goal
    BY <1>2
  <2>3. u <= day /\ day <= u + maxLookback + staleGrace
    <3> HIDE DEF goal, near
    <3> QED
      BY <1>1, <2>2, Numbers
  <2>4. result \in Answer /\ result.day = u
    <3> DEFINE cut == (u = d.first /\ d.oldest = "short")
    <3>1. cut \in BOOLEAN
      OBVIOUS
    <3>2. result = [kind |-> "rate", day |-> u, short |-> cut]
      BY <2>1 DEF Quoted
    <3> HIDE DEF cut
    <3> QED
      BY <2>2, <3>1, <3>2 DEF Answer
  <2> QED
    BY <2>2, <2>3, <2>4
<1> QED
  BY <1>4, <1>5

(* Whatever the data lacks, it does not end before the binary's.           *)
LEMMA NoOlderThanEmbedded ==
  ASSUME LacksOnlyWhatItsFileLacks, data \in Dataset
  PROVE  data.last \in Nat /\ data.first \in Nat /\ data.last >= EmbeddedLast
BY Numbers DEF LacksOnlyWhatItsFileLacks, Dataset

(* Of a date that the binary's data covers, the active data answers what    *)
(* the binary's would, or what is left of that in the file it came from:    *)
(* the rows a file cut short has lost are older than any that are left.     *)
LEMMA LookupSettled ==
  ASSUME LacksOnlyWhatItsFileLacks, data \in Dataset, NEW cur \in Known, NEW day \in Dates,
         NEW result \in Lookup(data, cur, day), data.first <= day, day <= EmbeddedLast
  PROVE  AsEmbedded(result, cur, day) \/ LostWithItsFile(result, cur, day)
<1> DEFINE near == {u \in RatedDays[cur] : /\ data.first <= u /\ day - maxLookback <= u /\ u <= day
                                           /\ ~ (u = data.first /\ data.oldest = "missing")}
<1>1. /\ data.last \in Nat /\ data.first \in Nat /\ day \in Nat /\ EmbeddedLast \in Nat
      /\ FirstDay \in Nat /\ FirstDay <= data.first /\ FirstDay <= day /\ maxLookback \in Nat
      /\ (IF day > data.last THEN data.last ELSE day) = day
  BY NoOlderThanEmbedded, Numbers DEF Dataset
<1>2. /\ RatedDays[cur] \subseteq Nat
      /\ \A u \in RatedDays[cur] : u \in Nat /\ FirstDay <= u
  BY CurrencyAssumption, Numbers
<1>3. CASE near = {}
  <2>1. result = Failure("norate")
    BY <1>1, <1>3 DEF Lookup
  <2>2. result.kind = "norate"
    BY <2>1 DEF Failure
  <2>3. CASE RightDay(cur, day) = {}
    BY <1>1, <2>2, <2>3 DEF AsEmbedded
  <2>4. CASE RightDay(cur, day) # {}
    <3>1. PICK u \in RightDay(cur, day) : TRUE
      BY <2>4
    <3>2. u \in RatedDays[cur] /\ u \in Nat /\ FirstDay <= u /\ day - maxLookback <= u /\ u <= day
      BY <1>2, <3>1 DEF RightDay
    <3>3. u < data.first \/ (u = data.first /\ data.oldest = "missing")
      BY <1>1, <1>3, <3>2
    <3>4. data = found /\ found.last > EmbeddedLast
      BY <1>1, <3>2, <3>3 DEF LacksOnlyWhatItsFileLacks, Full
    <3> QED
      BY <2>2, <3>1, <3>3, <3>4 DEF LostWithItsFile
  <2> QED
    BY <2>3, <2>4
<1>4. CASE near # {}
  <2>1. PICK u \in Newest(near) : result = Quoted(u, u = data.first /\ data.oldest = "short")
    BY <1>1, <1>4 DEF Lookup
  <2>2. u \in near /\ \A v \in near : v <= u
    BY <2>1 DEF Newest
  <2>3. ASSUME NEW v \in RatedDays[cur], v <= day PROVE v <= u
    <3>1. CASE v > u
      <4>1. v \in Nat /\ u \in Nat /\ data.first <= u /\ day - maxLookback <= u
        BY <1>2, <2>2
      <4>2. data.first <= v /\ v # data.first /\ day - maxLookback <= v
        BY <1>1, <3>1, <4>1
      <4> QED
        BY <2>2, <2>3, <4>2
    <3> QED
      BY <1>2, <2>2, <3>1
  <2>4. u \in RightDay(cur, day)
    BY <2>2, <2>3 DEF RightDay
  <2>5. CASE u = data.first /\ data.oldest = "short"
    <3>1. result = Quoted(u, TRUE)
      BY <2>1, <2>5
    <3>2. data = found /\ found.last > EmbeddedLast
      BY <2>5 DEF LacksOnlyWhatItsFileLacks, Full
    <3> QED
      BY <2>4, <2>5, <3>1, <3>2 DEF LostWithItsFile
  <2>6. CASE ~ (u = data.first /\ data.oldest = "short")
    <3>1. result = Quoted(u, FALSE)
      BY <2>1, <2>6
    <3> QED
      BY <1>1, <2>4, <3>1 DEF AsEmbedded
  <2> QED
    BY <2>5, <2>6
<1> QED
  BY <1>3, <1>4

(* So does the refusal of a date before the data's first day.              *)
LEMMA EarlySettled ==
  ASSUME LacksOnlyWhatItsFileLacks, data \in Dataset, NEW cur \in Known, NEW day \in Dates,
         day < data.first
  PROVE  AsEmbedded(Failure("early"), cur, day) \/ LostWithItsFile(Failure("early"), cur, day)
<1>1. Failure("early").kind = "early"
  BY DEF Failure
<1>2. CASE data = found /\ found.last > EmbeddedLast
  BY <1>1, <1>2 DEF LostWithItsFile
<1>3. CASE data = Full(data.last)
  <2>1. data.first = FirstDay
    BY <1>3 DEF Full
  <2> QED
    BY <1>1, <2>1 DEF AsEmbedded
<1> QED
  BY <1>2, <1>3 DEF LacksOnlyWhatItsFileLacks

(* What a call gives up with is an answer, and not a rate.                 *)
LEMMA FailureType ==
  \A kind \in {"none", "unknown", "early", "stale", "norate"} :
    Failure(kind) \in Answer /\ Failure(kind).kind # "rate"
BY Numbers DEF Failure, Answer

(* What is loaded at the start is the binary's data, or a newer file's.    *)
LEMMA LoadedType ==
  ASSUME NEW f \in Dataset \union {Unusable}
  PROVE  /\ Loaded(f) \in Dataset
         /\ \/ Loaded(f) = Full(Loaded(f).last) /\ Loaded(f).last >= EmbeddedLast
            \/ Loaded(f) = f /\ f.last > EmbeddedLast
BY Numbers DEF Loaded, Dataset, Unusable, Embedded, Full

(* Whatever a write leaves is a dataset, or of no use.                     *)
LEMMA PartialType ==
  ASSUME NEW last \in PublicationDays
  PROVE  /\ Partial(last) \subseteq Dataset \union {Unusable}
         /\ Full(last) \in Dataset /\ Full(last).last = last
BY Numbers DEF Partial, Dataset, Full

----------------------------------------------------------------------------

(* Answers given stand as long as the process that gave them, if those the *)
(* step gives are settled themselves.                                      *)
LEMMA AnswersStand ==
  ASSUME SettledRatesStand, found' = found,
         \A c \in Callers :
           \/ answer'[c].kind = "none"
           \/ answer'[c] = answer[c] /\ asked'[c] = asked[c]
           \/ asked'[c][2] <= EmbeddedLast =>
                \/ AsEmbedded(answer'[c], asked'[c][1], asked'[c][2])
                \/ LostWithItsFile(answer'[c], asked'[c][1], asked'[c][2])
  PROVE  SettledRatesStand'
<1> SUFFICES ASSUME NEW c \in Callers, answer'[c].kind # "none", asked'[c][2] <= EmbeddedLast
             PROVE  (AsEmbedded(answer[c], asked[c][1], asked[c][2])
                       \/ LostWithItsFile(answer[c], asked[c][1], asked[c][2]))'
  BY DEF SettledRatesStand
<1>1. \/ AsEmbedded(answer'[c], asked'[c][1], asked'[c][2])
      \/ LostWithItsFile(answer'[c], asked'[c][1], asked'[c][2])
  BY DEF SettledRatesStand
<1> QED
  BY <1>1 DEF AsEmbedded, LostWithItsFile

(* A call that ends with an answer it may give keeps the invariant.        *)
LEMMA FinishKeeps ==
  ASSUME IInv, up, NEW c \in Callers, NEW result \in Answer, Finish(c, result),
         UNCHANGED <<published, file, process, data, cooling>>,
         asked' \in [Callers -> (Currencies \X Dates) \union {<< >>}],
         \A b \in Callers : b # c => asked'[b] = asked[b],
         lock' = lock \/ (lock' = Free /\ lock \in {c, Free}),
         LET cur == asked'[c][1]
             day == asked'[c][2]
         IN /\ result.kind = "rate" => /\ result.day \in RatedDays[cur]
                                       /\ result.day <= day
                                       /\ day <= result.day + maxLookback + staleGrace
            /\ day <= EmbeddedLast => AsEmbedded(result, cur, day) \/ LostWithItsFile(result, cur, day)
  PROVE  IInv'
<1>1. /\ pc' = [pc EXCEPT ![c] = "done"] /\ answer' = [answer EXCEPT ![c] = result]
      /\ pc \in [Callers -> {"idle", "refresh", "fetch", "persist", "write", "reread", "done"}]
      /\ answer \in [Callers -> Answer]
  BY DEF Finish, Goto, IInv, TypeOK
<1>2. TypeOK'
  BY <1>1 DEF IInv, TypeOK, process
<1>3. Holding' /\ Asking' /\ Unanswered'
  BY <1>1, LockAssumption DEF IInv, Holding, Asking, Unanswered, Refreshing
<1>4. LacksOnlyWhatItsFileLacks' /\ Resting'
  BY DEF IInv, LacksOnlyWhatItsFileLacks, Resting, process
<1>5. CloseToItsDate'
  BY <1>1 DEF IInv, CloseToItsDate
<1>6. SettledRatesStand'
  <2>1. /\ answer'[c] = result
        /\ \A b \in Callers : b # c => answer'[b] = answer[b] /\ asked'[b] = asked[b]
    BY <1>1
  <2>2. found' = found
    BY DEF process
  <2> QED
    BY <2>1, <2>2, AnswersStand DEF IInv
<1> QED
  BY <1>2, <1>3, <1>4, <1>5, <1>6 DEF IInv

(* A step inside a call, from one label to another, keeps the invariant.   *)
LEMMA MoveKeeps ==
  ASSUME IInv, up, NEW c \in Callers, NEW label \in Refreshing \union {"reread"}, Goto(c, label),
         pc[c] \in Refreshing \union {"refresh"},
         UNCHANGED <<published, process, asked, answer>>,
         file' \in Dataset \union {Unusable}, cooling' \in BOOLEAN,
         data' \in Dataset, LacksOnlyWhatItsFileLacks',
         lock' \in {c, Free}, lock \in {c, Free}, label \in Refreshing => lock' = c
  PROVE  IInv'
<1>1. /\ pc' = [pc EXCEPT ![c] = label]
      /\ pc \in [Callers -> {"idle", "refresh", "fetch", "persist", "write", "reread", "done"}]
  BY DEF Goto, IInv, TypeOK
<1>2. TypeOK'
  BY <1>1 DEF IInv, TypeOK, process, Refreshing
<1>3. Holding'
  <2>1. ASSUME NEW b \in Callers, b # c PROVE pc'[b] \notin Refreshing
    BY <1>1, <2>1, LockAssumption DEF IInv, Holding
  <2>2. pc'[c] = label
    BY <1>1
  <2> QED
    BY <2>1, <2>2 DEF Holding
<1>4. Asking' /\ Unanswered' /\ Resting'
  BY <1>1 DEF IInv, Asking, Unanswered, Refreshing, Resting, process
<1>5. CloseToItsDate'
  BY DEF IInv, CloseToItsDate
<1>6. SettledRatesStand'
  BY AnswersStand DEF IInv, process
<1> QED
  BY <1>2, <1>3, <1>4, <1>5, <1>6 DEF IInv

(* The first half of a call.                                               *)
LEMMA BeginKeeps ==
  ASSUME IInv, NEW c \in Callers, Begin(c)
  PROVE  IInv'
<1>0. /\ pc \in [Callers -> {"idle", "refresh", "fetch", "persist", "write", "reread", "done"}]
      /\ asked \in [Callers -> (Currencies \X Dates) \union {<< >>}]
      /\ data \in Dataset /\ data.last >= EmbeddedLast /\ Known \subseteq Currencies
      /\ LacksOnlyWhatItsFileLacks /\ data.last \in Nat /\ data.first \in Nat
  BY CurrencyAssumption, NoOlderThanEmbedded DEF IInv, TypeOK
<1>1. PICK cur \in Currencies, day \in Dates :
        /\ asked' = [asked EXCEPT ![c] = <<cur, day>>]
        /\ IF cur \notin Known       THEN Finish(c, Failure("unknown"))
           ELSE IF day < data.first  THEN Finish(c, Failure("early"))
           ELSE IF Stale(data, day)  THEN Goto(c, "refresh") /\ UNCHANGED answer
           ELSE \E result \in Lookup(data, cur, day) : Finish(c, result)
  BY DEF Begin
<1>2. /\ UNCHANGED <<published, file, process, data, lock, cooling>>
      /\ pc[c] = "idle" /\ up
      /\ asked' \in [Callers -> (Currencies \X Dates) \union {<< >>}]
      /\ \A b \in Callers : b # c => asked'[b] = asked[b]
      /\ asked'[c] = <<cur, day>> /\ asked'[c][1] = cur /\ asked'[c][2] = day
  BY <1>0, <1>1 DEF Begin
<1>3. CASE cur \notin Known /\ Finish(c, Failure("unknown"))
  <2>1. AsEmbedded(Failure("unknown"), cur, day)
    BY <1>3 DEF AsEmbedded, Failure
  <2> QED
    BY <1>2, <1>3, <2>1, FailureType, FinishKeeps
<1>6. CASE cur \in Known /\ day < data.first /\ Finish(c, Failure("early"))
  <2>1. AsEmbedded(Failure("early"), cur, day) \/ LostWithItsFile(Failure("early"), cur, day)
    BY <1>0, <1>6, EarlySettled
  <2> QED
    BY <1>2, <1>6, <2>1, FailureType, FinishKeeps
<1>4. CASE cur \in Known /\ ~ (day < data.first) /\ ~ Stale(data, day) /\ \E result \in Lookup(data, cur, day) : Finish(c, result)
  <2>1. PICK result \in Lookup(data, cur, day) : Finish(c, result)
    BY <1>4
  <2>2. /\ result \in Answer
        /\ result.kind = "rate" => /\ result.day \in RatedDays[cur]
                                   /\ result.day <= day
                                   /\ day <= result.day + maxLookback + staleGrace
    BY <1>0, <1>4, LookupClose
  <2>3. day <= EmbeddedLast => AsEmbedded(result, cur, day) \/ LostWithItsFile(result, cur, day)
    <3>1. data.first <= day
      BY <1>0, <1>4, Numbers
    <3> QED
      BY <1>0, <2>1, <1>4, <3>1, LookupSettled
  <2> QED
    BY <1>2, <2>1, <2>2, <2>3, FinishKeeps
<1>5. CASE cur \in Known /\ Stale(data, day) /\ Goto(c, "refresh") /\ UNCHANGED answer
  <2>1. pc' = [pc EXCEPT ![c] = "refresh"]
    BY <1>5 DEF Goto
  <2>2. TypeOK'
    BY <1>0, <1>2, <1>5, <2>1 DEF IInv, TypeOK, process
  <2>3. asked'[c] \in Known \X Dates /\ asked'[c][2] > EmbeddedLast
    BY <1>0, <1>2, <1>5, Numbers DEF Stale
  <2>4. Holding' /\ Asking' /\ Unanswered' /\ Resting' /\ LacksOnlyWhatItsFileLacks'
    BY <1>0, <1>2, <1>5, <2>1, <2>3
       DEF IInv, Holding, Asking, Unanswered, Resting, Refreshing, LacksOnlyWhatItsFileLacks, process
  <2>5. answer[c].kind = "none"
    BY <1>2 DEF IInv, Unanswered, NoCall, Failure
  <2>6. CloseToItsDate'
    BY <1>2, <1>5, <2>5 DEF IInv, CloseToItsDate
  <2>7. SettledRatesStand'
    BY <1>2, <1>5, <2>5, AnswersStand DEF IInv, process
  <2> QED
    BY <2>2, <2>4, <2>6, <2>7 DEF IInv
<1> QED
  BY <1>1, <1>3, <1>4, <1>5, <1>6

(* The steps of a refresh, and the second half of a call.                  *)
LEMMA RefreshKeeps ==
  ASSUME IInv, NEW c \in Callers, Step(c)
  PROVE  IInv'
<1>0. /\ asked \in [Callers -> (Currencies \X Dates) \union {<< >>}]
      /\ data \in Dataset /\ data.last >= EmbeddedLast /\ LacksOnlyWhatItsFileLacks
      /\ lock \in Callers \union {Free}
      /\ file \in Dataset \union {Unusable} /\ cooling \in BOOLEAN
      /\ pc[c] \in Refreshing => lock = c
  BY NoOlderThanEmbedded DEF IInv, TypeOK, Holding
<1>a. up /\ asked[c] \in Known \X Dates /\ asked[c][2] \in Nat /\ EmbeddedLast \in Nat
      /\ ~ (asked[c][2] <= EmbeddedLast)
  <2>1. pc[c] \in Refreshing \union {"refresh", "reread"}
    BY DEF Step, NoAttempt, StartFetch, FetchFails, FetchReturns, PersistSkipped, BeginWrite,
           EndWrite, Reread, Refreshing
  <2>2. pc[c] # "idle"
    BY <2>1 DEF Refreshing
  <2>3. up
    BY <2>2 DEF IInv, Resting
  <2>4. asked[c] \in Known \X Dates /\ asked[c][2] > EmbeddedLast
    BY <2>1 DEF IInv, Asking
  <2> QED
    BY <2>3, <2>4, Numbers
<1>b. UNCHANGED <<data, process>> => LacksOnlyWhatItsFileLacks'
  BY <1>0 DEF LacksOnlyWhatItsFileLacks, process
<1>1. Failure("stale") \in Answer /\ Failure("stale").kind # "rate"
  BY FailureType
<1>2. CASE NoAttempt(c)
  BY <1>0, <1>1, <1>a, <1>2, FinishKeeps DEF NoAttempt
<1>3. CASE StartFetch(c)
  BY <1>0, <1>a, <1>b, <1>3, MoveKeeps DEF StartFetch, Refreshing
<1>4. CASE FetchFails(c)
  BY <1>0, <1>1, <1>a, <1>4, FinishKeeps DEF FetchFails, Refreshing
<1>5. CASE FetchReturns(c)
  <2>1. PICK last \in PublicationDays :
          IF last > data.last
          THEN Goto(c, "persist") /\ data' = Full(last) /\ UNCHANGED <<answer, lock>>
          ELSE Finish(c, Failure("stale")) /\ lock' = Free /\ UNCHANGED data
    BY <1>5 DEF FetchReturns
  <2>2. UNCHANGED <<published, file, process, cooling, asked>> /\ lock = c /\ pc[c] = "fetch"
    BY <1>0, <1>5 DEF FetchReturns, Refreshing
  <2>3. CASE last > data.last /\ Goto(c, "persist") /\ data' = Full(last) /\ UNCHANGED <<answer, lock>>
    <3>1. Full(last) \in Dataset /\ Full(last).last = last /\ last \in Nat /\ data.last \in Nat /\ EmbeddedLast \in Nat
      BY <1>0, PartialType, Numbers DEF Dataset
    <3>2. data' \in Dataset /\ LacksOnlyWhatItsFileLacks'
      BY <1>0, <2>3, <3>1 DEF LacksOnlyWhatItsFileLacks
    <3> QED
      BY <1>0, <1>a, <2>2, <2>3, <3>2, MoveKeeps DEF Refreshing
  <2>4. CASE Finish(c, Failure("stale")) /\ lock' = Free /\ UNCHANGED data
    BY <1>0, <1>1, <1>a, <2>2, <2>4, FinishKeeps
  <2> QED
    BY <2>1, <2>3, <2>4
<1>6. CASE PersistSkipped(c)
  BY <1>0, <1>a, <1>b, <1>6, MoveKeeps DEF PersistSkipped, Refreshing
<1>7. CASE BeginWrite(c)
  <2>1. file' \in Dataset \union {Unusable}
    BY <1>0, <1>7, PartialType DEF BeginWrite, Dataset
  <2> QED
    BY <1>0, <1>a, <1>b, <1>7, <2>1, MoveKeeps DEF BeginWrite, Refreshing
<1>8. CASE EndWrite(c)
  BY <1>0, <1>a, <1>b, <1>8, MoveKeeps DEF EndWrite, Refreshing
<1>9. CASE Reread(c)
  <2>1. PICK cur \in Known, day \in Dates : asked[c] = <<cur, day>>
    BY <1>a
  <2>2. \/ Finish(c, Failure("stale"))
        \/ ~ Stale(data, day) /\ \E result \in Lookup(data, cur, day) : Finish(c, result)
    BY <1>9, <2>1 DEF Reread
  <2>3. UNCHANGED <<published, file, process, data, lock, cooling, asked>>
    BY <1>9 DEF Reread
  <2>4. CASE Finish(c, Failure("stale"))
    BY <1>0, <1>1, <1>a, <2>3, <2>4, FinishKeeps
  <2>5. CASE ~ Stale(data, day) /\ \E result \in Lookup(data, cur, day) : Finish(c, result)
    <3>1. PICK result \in Lookup(data, cur, day) : Finish(c, result)
      BY <2>5
    <3>2. /\ result \in Answer
          /\ result.kind = "rate" => /\ result.day \in RatedDays[cur]
                                     /\ result.day <= day
                                     /\ day <= result.day + maxLookback + staleGrace
      BY <1>0, <2>5, <3>1, LookupClose
    <3>3. asked'[c][1] = cur /\ asked'[c][2] = day
      BY <2>1, <2>3
    <3> QED
      BY <1>0, <1>a, <2>3, <3>1, <3>2, <3>3, FinishKeeps
  <2> QED
    BY <2>2, <2>4, <2>5
<1> QED
  BY <1>2, <1>3, <1>4, <1>5, <1>6, <1>7, <1>8, <1>9 DEF Step

(* Every step keeps the invariant.                                         *)
LEMMA StepKeeps ==
  ASSUME IInv, [Next]_vars
  PROVE  IInv'
<1>1. CASE \E c \in Callers : Begin(c)
  BY <1>1, BeginKeeps
<1>2. CASE \E c \in Callers : Step(c)
  BY <1>2, RefreshKeeps
<1>3. ASSUME NEW c \in Callers, Return(c) PROVE IInv'
  <2>1. /\ pc' = [pc EXCEPT ![c] = "idle"] /\ answer' = [answer EXCEPT ![c] = NoCall]
        /\ asked' = [asked EXCEPT ![c] = << >>]
        /\ UNCHANGED <<published, file, process, data, lock, cooling>>
    BY <1>3 DEF Return, Goto
  <2>2. NoCall \in Answer /\ NoCall.kind = "none"
    BY FailureType DEF NoCall, Failure
  <2>3. TypeOK'
    BY <2>1, <2>2 DEF IInv, TypeOK, process
  <2>4. Holding' /\ Asking' /\ Unanswered' /\ Resting' /\ LacksOnlyWhatItsFileLacks'
    BY <2>1 DEF IInv, TypeOK, Holding, Asking, Unanswered, Resting, Refreshing,
                LacksOnlyWhatItsFileLacks, process
  <2>5. CloseToItsDate'
    BY <2>1, <2>2 DEF IInv, TypeOK, CloseToItsDate
  <2>6. answer'[c].kind = "none" /\ \A b \in Callers : b # c => answer'[b] = answer[b] /\ asked'[b] = asked[b]
    BY <2>1, <2>2 DEF IInv, TypeOK
  <2>7. SettledRatesStand'
    BY <2>1, <2>6, AnswersStand DEF IInv, process
  <2> QED
    BY <2>3, <2>4, <2>5, <2>7 DEF IInv
<1>4. CASE CooldownEnds
  <2>1. SettledRatesStand'
    BY <1>4, AnswersStand DEF CooldownEnds, IInv, process
  <2> QED
    BY <1>4, <2>1 DEF CooldownEnds, IInv, TypeOK, Holding, Asking, Unanswered, Resting,
                    Refreshing, LacksOnlyWhatItsFileLacks, CloseToItsDate, process
<1>5. CASE Publish
  <2>1. SettledRatesStand'
    BY <1>5, AnswersStand DEF Publish, IInv, process
  <2> QED
    BY <1>5, <2>1 DEF Publish, IInv, TypeOK, Holding, Asking, Unanswered, Resting,
                    Refreshing, LacksOnlyWhatItsFileLacks, CloseToItsDate, process
<1>6. CASE OtherProcessWrites
  <2>1. file' \in Dataset \union {Unusable}
    BY <1>6, PartialType DEF OtherProcessWrites
  <2>2. SettledRatesStand'
    BY <1>6, AnswersStand DEF OtherProcessWrites, IInv, process
  <2> QED
    BY <1>6, <2>1, <2>2 DEF OtherProcessWrites, IInv, TypeOK, Holding, Asking, Unanswered,
                      Resting, Refreshing, LacksOnlyWhatItsFileLacks, CloseToItsDate, process
<1>7. CASE Stop
  <2>1. NoCall \in Answer /\ NoCall.kind = "none"
    BY FailureType DEF NoCall, Failure
  <2>2. TypeOK'
    BY <1>7, <2>1 DEF Stop, IInv, TypeOK
  <2>3. Holding' /\ Asking' /\ Unanswered' /\ Resting' /\ LacksOnlyWhatItsFileLacks'
    BY <1>7 DEF Stop, IInv, Holding, Asking, Unanswered, Resting, Refreshing, LacksOnlyWhatItsFileLacks
  <2>4. CloseToItsDate' /\ SettledRatesStand'
    BY <1>7, <2>1 DEF Stop, CloseToItsDate, SettledRatesStand
  <2> QED
    BY <2>2, <2>3, <2>4 DEF IInv
<1>8. CASE Start
  <2>1. data' \in Dataset /\ LacksOnlyWhatItsFileLacks' /\ found' \in Dataset \union {Unusable}
    BY <1>8, LoadedType DEF Start, IInv, TypeOK, LacksOnlyWhatItsFileLacks
  <2>2. \A c \in Callers : answer'[c].kind = "none"
    BY <1>8 DEF Start, IInv, Resting, Unanswered, NoCall, Failure
  <2>3. TypeOK'
    BY <1>8, <2>1 DEF Start, IInv, TypeOK
  <2>4. Holding' /\ Asking' /\ Unanswered' /\ Resting'
    BY <1>8 DEF Start, IInv, Holding, Asking, Unanswered, Resting, Refreshing
  <2>5. CloseToItsDate' /\ SettledRatesStand'
    BY <2>2 DEF CloseToItsDate, SettledRatesStand
  <2> QED
    BY <2>1, <2>3, <2>4, <2>5 DEF IInv
<1>9. CASE UNCHANGED vars
  <2>1. SettledRatesStand'
    BY <1>9, AnswersStand DEF vars, IInv
  <2> QED
    BY <1>9, <2>1 DEF vars, process, IInv, TypeOK, Holding, Asking, Unanswered, Resting,
                    Refreshing, LacksOnlyWhatItsFileLacks, CloseToItsDate
<1> QED
  BY <1>1, <1>2, <1>3, <1>4, <1>5, <1>6, <1>7, <1>8, <1>9 DEF Next

(* The invariant holds of the states a process starts in.                  *)
LEMMA InitKeeps == Init => IInv
<1>1. /\ Embedded \in Dataset /\ Embedded = Full(Embedded.last)
      /\ Embedded.last = EmbeddedLast /\ EmbeddedLast \in Nat
  BY Numbers DEF Embedded, Full, Dataset
<1>2. NoCall \in Answer /\ NoCall.kind = "none"
  BY FailureType DEF NoCall, Failure
<1>3. Init => TypeOK
  BY <1>1, <1>2, Numbers DEF Init, TypeOK
<1>4. Init => Holding /\ Asking /\ Unanswered /\ Resting /\ LacksOnlyWhatItsFileLacks
  BY <1>1 DEF Init, Holding, Asking, Unanswered, Resting, Refreshing, LacksOnlyWhatItsFileLacks
<1>5. Init => CloseToItsDate /\ SettledRatesStand
  BY <1>2 DEF Init, CloseToItsDate, SettledRatesStand
<1> QED
  BY <1>3, <1>4, <1>5 DEF IInv

----------------------------------------------------------------------------

(* Every reachable state satisfies the inductive invariant.                *)
THEOREM Invariance == Spec => []IInv
BY InitKeeps, StepKeeps, PTL DEF Spec

(* Every variable keeps its type.                                          *)
THEOREM TypeCorrect == Spec => []TypeOK
BY Invariance, PTL DEF IInv

(* Two goroutines never refresh together: tryLiveRefresh is one at a time. *)
THEOREM RefreshExclusive == Spec => []OneRefreshAtATime
<1>1. IInv => OneRefreshAtATime
  BY DEF IInv, Holding, Refreshing, OneRefreshAtATime
<1> QED
  BY <1>1, Invariance, PTL

(* What the active data lacks, a cache file newer than the binary lacked,  *)
(* and the data never ends before the binary's.                            *)
THEOREM LossesExplained == Spec => []LacksOnlyWhatItsFileLacks
BY Invariance, PTL DEF IInv

(* No rate answered is of a day later than the date, or farther back than  *)
(* the two spans allow together.                                           *)
THEOREM RatesAreClose == Spec => []CloseToItsDate
BY Invariance, PTL DEF IInv

(* A date that the binary's data covers is answered as the binary alone    *)
(* does, over refreshes, restarts and whatever file is found, unless the   *)
(* file found is newer than the binary's and was cut short at or after the *)
(* day the rate is of: then it is refused or short of digits, and never    *)
(* another day's.                                                          *)
THEOREM SettledForGood == Spec => []SettledRatesStand
BY Invariance, PTL DEF IInv

(* A running process exchanges its data only for the whole history up to a *)
(* later day.                                                              *)
THEOREM RefreshOnlyNewer == Spec => DataOnlyNewer
<1>1. IInv /\ [Next]_vars => [NewerAndWhole]_vars
  <2> SUFFICES ASSUME IInv, Next, up, up', data' # data
               PROVE  data'.last > data.last /\ data' = Full(data'.last)
    BY DEF NewerAndWhole
  <2>1. PICK c \in Callers : FetchReturns(c)
    BY DEF Next, Begin, Step, Return, NoAttempt, StartFetch, FetchFails, PersistSkipped, BeginWrite,
           EndWrite, Reread, CooldownEnds, Publish, OtherProcessWrites, Stop, Start
  <2>2. PICK last \in PublicationDays : last > data.last /\ data' = Full(last)
    BY <2>1 DEF FetchReturns
  <2> QED
    BY <2>2 DEF Full
<1> QED
  BY <1>1, Invariance, PTL DEF Spec, DataOnlyNewer

=============================================================================
