-------------------------- MODULE MigrationsProofs --------------------------
(***************************************************************************)
(* Proofs about module Migrations, for any set of versions, processes,     *)
(* names and events.                                                       *)
(***************************************************************************)
EXTENDS Migrations, TLAPS

(* Every fingerprint is the one of the row's own fields. *)
FingerprintsCurrent ==
  \A r \in rows : r.fingerprint = Fingerprint(r.platform, r.name, r.event)

(* The banks' platforms are found only under 0007's names, and not at all  *)
(* once it is recorded.                                                    *)
BanksKnown ==
  \A r \in rows : r.platform = "bank" => r.name \in BankNames /\ Rename \notin recorded

(* While 0007 is not recorded, a manual row under one of its names was     *)
(* entered since it was reversed.                                          *)
ManualsEntered ==
  ~ reentered /\ Rename \notin recorded =>
    \A r \in rows : r.platform = "manual" => r.name \notin BankNames

(* A Down that is alone reverses what is still the latest, and no Up sees  *)
(* it take effect.                                                         *)
DownsAlone ==
  alone => \A p \in Runners :
    /\ pc[p] = "down" => /\ \A q \in Runners \ {p} : pc[q] = "idle"
                         /\ \A v \in todo[p] : Highest(v, recorded)
    /\ pc[p] = "up" => ~ crossed[p]

(* A column lost with its table stays on record: its script's down fails.  *)
LostOnRecord == LostForGood \subseteq recorded

IInv ==
  /\ LostOnRecord
  /\ TypeOK /\ FingerprintsCurrent /\ BanksKnown /\ ManualsEntered /\ DownsAlone
  /\ SchemaAsRecorded /\ UpMissesNothing /\ EventsKept

LEMMA VersionsOrdered ==
  /\ Table \in Versions /\ Column \in Versions /\ Rename \in Versions
  /\ Table \in Nat /\ Column \in Nat /\ Rename \in Nat
  /\ Table # Rename /\ Table # Column /\ Column # Rename
  /\ ~ Column <= Table /\ ~ Rename <= Table
<1>1. Table \in Versions /\ Column \in Versions /\ Rename \in Versions
  BY VersionsAssumption
<1>2. Table \in Nat /\ Column \in Nat /\ Rename \in Nat
  BY <1>1, VersionsAssumption
<1>3. Table < Column /\ Column < Rename
  BY VersionsAssumption
<1>. QED
  BY <1>1, <1>2, <1>3

(* A row is what its fields say: the constructor types it. *)
LEMMA NewRowType ==
  ASSUME NEW platform \in Platforms, NEW name \in Names, NEW event \in Events
  PROVE  /\ NewRow(platform, name, event) \in Row
         /\ NewRow(platform, name, event).platform = platform
         /\ NewRow(platform, name, event).name = name
         /\ NewRow(platform, name, event).event = event
         /\ NewRow(platform, name, event).fingerprint = <<platform, name, event>>
BY DEF NewRow, Row, Fingerprint

(* 0007 up turns a bank's row into a manual one and leaves the others.     *)
LEMMA ManualRow ==
  ASSUME NEW r \in Row, r.fingerprint = Fingerprint(r.platform, r.name, r.event)
  PROVE  /\ Manual(r) \in Row
         /\ Manual(r).fingerprint
              = Fingerprint(Manual(r).platform, Manual(r).name, Manual(r).event)
         /\ Manual(r).platform # "bank"
         /\ Manual(r).name = r.name /\ Manual(r).event = r.event
         /\ What(Manual(r)) = What(r)
<1>1. CASE r.platform = "bank"
  <2>1. "manual" \in Platforms /\ r.name \in Names /\ r.event \in Events
    BY DEF Row, Platforms
  <2>2. Manual(r) = NewRow("manual", r.name, r.event)
    BY <1>1 DEF Manual
  <2>. QED
    BY <1>1, <2>1, <2>2, NewRowType DEF What, Fingerprint
<1>2. CASE r.platform # "bank"
  BY <1>2 DEF Manual
<1>. QED
  BY <1>1, <1>2

(* 0007 down turns a manual row of a bank into that bank's.                *)
LEMMA BankRow ==
  ASSUME NEW r \in Row, r.fingerprint = Fingerprint(r.platform, r.name, r.event)
  PROVE  /\ Bank(r) \in Row
         /\ Bank(r).fingerprint
              = Fingerprint(Bank(r).platform, Bank(r).name, Bank(r).event)
         /\ Bank(r).platform = "manual" => Bank(r).name \notin BankNames
         /\ Bank(r).platform = "bank" => r.platform = "bank" \/ Bank(r).name \in BankNames
         /\ Bank(r).name = r.name
         /\ What(Bank(r)) = What(r)
<1>1. CASE r.platform = "manual" /\ r.name \in BankNames
  <2>1. "bank" \in Platforms /\ r.name \in Names /\ r.event \in Events
    BY DEF Row, Platforms
  <2>2. Bank(r) = NewRow("bank", r.name, r.event)
    BY <1>1 DEF Bank
  <2>. QED
    BY <1>1, <2>1, <2>2, NewRowType DEF What, Fingerprint
<1>2. CASE ~ (r.platform = "manual" /\ r.name \in BankNames)
  BY <1>2 DEF Bank
<1>. QED
  BY <1>1, <1>2

LEMMA InitIInv == Init => IInv
<1>. SUFFICES ASSUME Init PROVE IInv
  OBVIOUS
<1>1. recorded \subseteq Versions \ {Rename} /\ \A v \in recorded : UpTo(v) \subseteq recorded
  <2>1. CASE recorded = {}
    BY <2>1
  <2>2. ASSUME NEW v \in Versions, v < Rename, recorded = UpTo(v)
        PROVE  <1>1!1 /\ <1>1!2
    <3>. SUFFICES ASSUME NEW w \in recorded
                  PROVE  w # Rename /\ UpTo(w) \subseteq recorded
      BY <2>2 DEF UpTo
    <3>1. w \in Nat /\ v \in Nat /\ Rename \in Nat /\ w <= v
      BY <2>2, VersionsAssumption DEF UpTo
    <3>2. ASSUME NEW u \in UpTo(w) PROVE u \in recorded
      <4>1. u \in Versions /\ u \in Nat /\ u <= w
        BY VersionsAssumption DEF UpTo
      <4>2. u <= v
        BY <3>1, <4>1
      <4>. QED
        BY <2>2, <4>1, <4>2 DEF UpTo
    <3>3. w # Rename
      BY <2>2, <3>1
    <3>. QED
      BY <3>2, <3>3
  <2>. QED
    BY <2>1, <2>2 DEF Init
<1>2. \A r \in OlderRows :
        /\ r \in Row /\ r.fingerprint = Fingerprint(r.platform, r.name, r.event)
        /\ r.platform = "bank" => r.name \in BankNames
        /\ r.platform # "manual"
  BY NewRowType, NamesAssumption DEF OlderRows, Platforms, Fingerprint
<1>3. rows \subseteq OlderRows
  BY DEF Init
<1>4. TypeOK
  <2>1. logged \subseteq [credit : BOOLEAN, name : Names, event : Events]
    <3>1. \A r \in Row : What(r) \in [credit : BOOLEAN, name : Names, event : Events]
      BY DEF What, Row
    <3>2. logged = {What(r) : r \in rows}
      BY DEF Init
    <3>. QED
      BY <1>2, <1>3, <3>1, <3>2
  <2>. QED
    BY <1>1, <1>2, <1>3, <2>1 DEF Init, TypeOK
<1>5. FingerprintsCurrent /\ BanksKnown /\ ManualsEntered
  BY <1>1, <1>2, <1>3 DEF FingerprintsCurrent, BanksKnown, ManualsEntered
<1>6. DownsAlone /\ UpMissesNothing /\ EventsKept
  BY DEF Init, DownsAlone, UpMissesNothing, EventsKept
<1>7. SchemaAsRecorded /\ LostOnRecord
  BY <1>1 DEF Init, SchemaAsRecorded, LostOnRecord, LostForGood
<1>. QED
  BY <1>4, <1>5, <1>6, <1>7 DEF IInv

LEMMA ApplyIInv ==
  ASSUME IInv, NEW p \in Runners, Apply(p)
  PROVE  IInv'
<1>. USE DEF IInv
<1>1. PICK v \in todo[p] :
        /\ Lowest(v, todo[p]) /\ CanApply(v)
        /\ recorded' = recorded \union {v}
        /\ built' = IF v = Rename THEN built ELSE built \union {v}
        /\ rows' = IF v = Rename THEN {Manual(r) : r \in rows} ELSE rows
        /\ todo' = [todo EXCEPT ![p] = @ \ {v}]
  BY DEF Apply
<1>2. /\ pc[p] = "up" /\ v \in Versions
      /\ UNCHANGED <<serving, pc, logged, alone, crossed, torn, reentered>>
  BY DEF Apply, history, TypeOK
<1>3. \A r \in rows : r \in Row /\ r.fingerprint = Fingerprint(r.platform, r.name, r.event)
  BY DEF TypeOK, FingerprintsCurrent
<1>4. TypeOK'
  <2>1. rows' \subseteq Row
    BY <1>1, <1>3, ManualRow
  <2>2. todo' \in [Runners -> SUBSET Versions]
    BY <1>1 DEF TypeOK
  <2>3. \A q \in Runners : pc[q] = "down" => todo'[q] = todo[q]
    BY <1>1, <1>2 DEF TypeOK
  <2>4. recorded' \subseteq Versions /\ built' \subseteq Versions \ {Rename}
    BY <1>1, <1>2 DEF TypeOK
  <2>. QED
    BY <1>2, <2>1, <2>2, <2>3, <2>4 DEF TypeOK
<1>5. FingerprintsCurrent'
  BY <1>1, <1>3, ManualRow DEF FingerprintsCurrent
<1>6. BanksKnown'
  <2>1. CASE v = Rename
    BY <1>1, <1>3, <2>1, ManualRow DEF BanksKnown
  <2>2. CASE v # Rename
    BY <1>1, <2>2 DEF BanksKnown
  <2>. QED
    BY <2>1, <2>2
<1>7. ManualsEntered'
  <2>1. CASE v = Rename
    BY <1>1, <2>1 DEF ManualsEntered
  <2>2. CASE v # Rename
    BY <1>1, <1>2, <2>2 DEF ManualsEntered
  <2>. QED
    BY <2>1, <2>2
<1>8. DownsAlone'
  <2>. SUFFICES ASSUME alone, NEW q \in Runners
                PROVE  /\ pc[q] = "down" => /\ \A s \in Runners \ {q} : pc[s] = "idle"
                                            /\ \A w \in todo'[q] : Highest(w, recorded')
                       /\ pc[q] = "up" => ~ crossed[q]
    BY <1>2 DEF DownsAlone, Highest
  <2>1. pc[q] # "down"
    BY <1>2 DEF DownsAlone
  <2>. QED
    BY <2>1 DEF DownsAlone
<1>9. SchemaAsRecorded'
  <2>a. built' = recorded' \ ({Rename} \union LostForGood')
    <3>1. built = recorded \ ({Rename} \union LostForGood) /\ LostForGood' = LostForGood
      BY <1>2 DEF SchemaAsRecorded, LostForGood
    <3>2. v \notin recorded /\ v \notin LostForGood
      BY <1>1 DEF CanApply, LostOnRecord
    <3>. QED
      BY <1>1, <3>1, <3>2
  <2>. SUFFICES ASSUME alone
                PROVE  ~ torn /\ \A w \in recorded' : UpTo(w) \subseteq recorded'
    BY <1>2, <2>a DEF SchemaAsRecorded
  <2>1. Versions \ todo[p] \subseteq recorded
    BY <1>2 DEF DownsAlone, UpMissesNothing
  <2>2. ASSUME NEW w \in UpTo(v) PROVE w \in recorded'
    <3>1. w \in Versions /\ w \in Nat /\ v \in Nat /\ w <= v
      BY <1>2, VersionsAssumption DEF UpTo
    <3>2. w = v \/ w \notin todo[p]
      BY <1>1, <3>1 DEF Lowest
    <3>. QED
      BY <1>1, <2>1, <3>1, <3>2
  <2>. QED
    BY <1>1, <2>2 DEF SchemaAsRecorded
<1>10. UpMissesNothing' /\ LostOnRecord'
  <2>1. LostForGood' = LostForGood
    BY <1>2 DEF LostForGood
  <2>2. built \subseteq built' /\ recorded \subseteq recorded' /\ v \in recorded'
        /\ (v = Rename \/ v \in built')
    BY <1>1
  <2>3. \A q \in Runners : todo[q] \subseteq todo'[q] \union (IF q = p THEN {v} ELSE {})
    BY <1>1 DEF TypeOK
  <2>. QED
    BY <1>2, <2>1, <2>2, <2>3 DEF UpMissesNothing, LostOnRecord
<1>11. EventsKept'
  <2>1. CASE v = Rename
    BY <1>1, <1>2, <1>3, <2>1, ManualRow DEF EventsKept
  <2>2. CASE v # Rename
    BY <1>1, <1>2, <2>2 DEF EventsKept, What
  <2>. QED
    BY <2>1, <2>2
<1>. QED
  BY <1>4, <1>5, <1>6, <1>7, <1>8, <1>9, <1>10, <1>11

LEMMA BeginUpIInv ==
  ASSUME IInv, NEW p \in Runners, BeginUp(p)
  PROVE  IInv'
<1>. USE DEF IInv
<1>1. /\ pc[p] = "idle" /\ pc' = [pc EXCEPT ![p] = "up"]
      /\ todo' = [todo EXCEPT ![p] = Missing]
      /\ alone' = (alone /\ ~ Others(p, "down"))
      /\ crossed' = [crossed EXCEPT ![p] = FALSE]
      /\ UNCHANGED <<recorded, built, rows, serving, logged, torn, reentered>>
  BY DEF BeginUp, schema
<1>2. TypeOK'
  BY <1>1 DEF TypeOK, Missing
<1>3. FingerprintsCurrent' /\ BanksKnown' /\ ManualsEntered' /\ EventsKept'
  BY <1>1 DEF FingerprintsCurrent, BanksKnown, ManualsEntered, EventsKept
<1>4. DownsAlone'
  BY <1>1 DEF DownsAlone, Others, TypeOK, Highest
<1>5. SchemaAsRecorded' /\ LostOnRecord'
  BY <1>1 DEF SchemaAsRecorded, LostOnRecord, LostForGood
<1>6. UpMissesNothing'
  <2>1. /\ Versions \ Missing \subseteq recorded
        /\ (Versions \ Missing) \ {Rename} \subseteq built \union LostForGood
    BY DEF Missing, SchemaAsRecorded
  <2>. QED
    BY <1>1, <2>1 DEF UpMissesNothing, LostForGood, TypeOK
<1>. QED
  BY <1>2, <1>3, <1>4, <1>5, <1>6

LEMMA BeginDownIInv ==
  ASSUME IInv, NEW p \in Runners, BeginDown(p)
  PROVE  IInv'
<1>. USE DEF IInv
<1>1. /\ pc[p] = "idle" /\ pc' = [pc EXCEPT ![p] = "down"]
      /\ alone' = (alone /\ ~ Others(p, "down") /\ ~ Others(p, "up"))
      /\ UNCHANGED <<recorded, built, rows, serving, logged, crossed, torn, reentered>>
  BY DEF BeginDown, schema
<1>2. PICK v \in recorded : Highest(v, recorded) /\ todo' = [todo EXCEPT ![p] = {v}]
  BY DEF BeginDown
<1>3. TypeOK'
  BY <1>1, <1>2 DEF TypeOK
<1>4. FingerprintsCurrent' /\ BanksKnown' /\ ManualsEntered' /\ EventsKept'
  BY <1>1 DEF FingerprintsCurrent, BanksKnown, ManualsEntered, EventsKept
<1>5. DownsAlone'
  BY <1>1, <1>2, ZenonT(60) DEF DownsAlone, Others, TypeOK, Highest
<1>6. SchemaAsRecorded' /\ LostOnRecord'
  BY <1>1 DEF SchemaAsRecorded, LostOnRecord, LostForGood
<1>7. UpMissesNothing'
  BY <1>1, <1>2 DEF UpMissesNothing, LostForGood, TypeOK
<1>. QED
  BY <1>3, <1>4, <1>5, <1>6, <1>7

LEMMA StopIInv ==
  ASSUME IInv, NEW p \in Runners, BreakOff(p) \/ UpReturns(p)
  PROVE  IInv'
<1>. USE DEF IInv
<1>1. /\ pc' = [pc EXCEPT ![p] = "idle"] /\ todo' = [todo EXCEPT ![p] = {}]
      /\ UNCHANGED <<recorded, built, rows, logged, alone, crossed, torn, reentered>>
      /\ serving' \in BOOLEAN
  BY DEF BreakOff, UpReturns, Stop, schema, history, TypeOK
<1>2. TypeOK'
  BY <1>1 DEF TypeOK
<1>3. FingerprintsCurrent' /\ BanksKnown' /\ ManualsEntered' /\ EventsKept'
  BY <1>1 DEF FingerprintsCurrent, BanksKnown, ManualsEntered, EventsKept
<1>4. DownsAlone'
  BY <1>1 DEF DownsAlone, TypeOK, Highest
<1>5. SchemaAsRecorded' /\ UpMissesNothing' /\ LostOnRecord'
  BY <1>1 DEF SchemaAsRecorded, UpMissesNothing, LostOnRecord, LostForGood, TypeOK
<1>. QED
  BY <1>2, <1>3, <1>4, <1>5

LEMMA InsertIInv ==
  ASSUME IInv, NEW platform \in {"manual", "broker"}, NEW name \in Names,
         NEW event \in Events, Insert(platform, name, event)
  PROVE  IInv'
<1>. USE DEF IInv
<1>. DEFINE r == NewRow(platform, name, event)
<1>1. /\ rows' = rows \union {r} /\ logged' = logged \union {What(r)}
      /\ reentered' = (reentered \/ (platform = "manual" /\ name \in BankNames
                                       /\ Rename \notin recorded))
      /\ UNCHANGED <<recorded, built, serving, pc, todo, alone, crossed, torn>>
  BY DEF Insert
<1>2. /\ r \in Row /\ r.platform = platform /\ r.name = name
      /\ r.fingerprint = Fingerprint(r.platform, r.name, r.event)
  BY NewRowType DEF Platforms, Fingerprint
<1>3. What(r) \in [credit : BOOLEAN, name : Names, event : Events]
  BY <1>2 DEF What, Row
<1>. HIDE DEF r
<1>4. TypeOK'
  BY <1>1, <1>2, <1>3 DEF TypeOK
<1>5. FingerprintsCurrent' /\ BanksKnown' /\ ManualsEntered'
  BY <1>1, <1>2 DEF FingerprintsCurrent, BanksKnown, ManualsEntered
<1>6. EventsKept'
  <2>1. \A s \in rows : What(s)' = What(s)
    BY DEF What
  <2>. QED
    BY <1>1 DEF EventsKept
<1>7. DownsAlone'
  BY <1>1 DEF DownsAlone, Highest
<1>8. SchemaAsRecorded' /\ UpMissesNothing' /\ LostOnRecord'
  BY <1>1 DEF SchemaAsRecorded, UpMissesNothing, LostOnRecord, LostForGood
<1>. QED
  BY <1>4, <1>5, <1>6, <1>7, <1>8

LEMMA ReverseIInv ==
  ASSUME IInv, NEW p \in Runners, Reverse(p)
  PROVE  IInv'
<1>. USE DEF IInv
<1>1. PICK v \in todo[p] :
        /\ recorded' = recorded \ {v}
        /\ built' = IF v = Table THEN built \ {Table, Column} ELSE built \ {v}
        /\ rows' = CASE v = Table  -> {}
                     [] v = Rename -> {Bank(r) : r \in rows}
                     [] OTHER      -> rows
        /\ logged' = IF v = Table THEN {} ELSE logged
        /\ torn' = (torn \/ (v = Table /\ Column \in recorded))
        /\ CanReverse(v)
  BY DEF Reverse
<1>2. /\ pc[p] = "down" /\ pc' = [pc EXCEPT ![p] = "idle"]
      /\ todo' = [todo EXCEPT ![p] = {}] /\ todo[p] = {v} /\ v \in Versions
      /\ crossed' = [q \in Runners |-> crossed[q] \/ pc[q] = "up"]
      /\ UNCHANGED <<serving, alone, reentered>>
  BY <1>1 DEF Reverse, TypeOK
<1>3. Table # Rename /\ Table # Column /\ Column # Rename
  BY VersionsOrdered
<1>4. \A r \in rows : r \in Row /\ r.fingerprint = Fingerprint(r.platform, r.name, r.event)
  BY DEF TypeOK, FingerprintsCurrent
<1>5. /\ v = Table => rows' = {}
      /\ v = Rename => rows' = {Bank(r) : r \in rows}
      /\ v # Table /\ v # Rename => rows' = rows
  BY <1>1, <1>3
<1>6. TypeOK'
  <2>1. rows' \subseteq Row
    BY <1>4, <1>5, BankRow
  <2>2. recorded' \subseteq Versions /\ built' \subseteq Versions \ {Rename}
    BY <1>1 DEF TypeOK
  <2>3. logged' \subseteq [credit : BOOLEAN, name : Names, event : Events]
    BY <1>1 DEF TypeOK
  <2>4. /\ pc' \in [Runners -> {"idle", "up", "down"}]
        /\ todo' \in [Runners -> SUBSET Versions]
        /\ \A q \in Runners : pc'[q] = "down" => todo'[q] = todo[q] /\ pc[q] = "down"
    BY <1>2 DEF TypeOK
  <2>5. crossed' \in [Runners -> BOOLEAN] /\ serving' \in BOOLEAN
        /\ alone' \in BOOLEAN /\ reentered' \in BOOLEAN
    BY <1>2 DEF TypeOK
  <2>6. torn' \in BOOLEAN
    BY <1>1 DEF TypeOK
  <2>. QED
    BY <2>1, <2>2, <2>3, <2>4, <2>5, <2>6 DEF TypeOK
<1>7. FingerprintsCurrent'
  BY <1>4, <1>5, BankRow DEF FingerprintsCurrent
<1>8. BanksKnown'
  BY <1>1, <1>3, <1>4, <1>5, BankRow DEF BanksKnown
<1>9. ManualsEntered'
  BY <1>1, <1>2, <1>4, <1>5, BankRow DEF ManualsEntered
<1>10. EventsKept'
  <2>1. CASE v = Table
    BY <1>1, <1>5, <2>1 DEF EventsKept
  <2>2. CASE v = Rename
    BY <1>1, <1>3, <1>4, <1>5, <2>2, BankRow DEF EventsKept
  <2>3. CASE v # Table /\ v # Rename
    BY <1>1, <1>5, <2>3 DEF EventsKept, What
  <2>. QED
    BY <2>1, <2>2, <2>3
<1>11. ASSUME alone
       PROVE  /\ Highest(v, recorded) /\ \A q \in Runners \ {p} : pc[q] = "idle"
              /\ ~ torn /\ \A w \in recorded : UpTo(w) \subseteq recorded
  BY <1>1, <1>2, <1>11 DEF DownsAlone, SchemaAsRecorded, LostForGood
<1>12. DownsAlone'
  BY <1>2, <1>11 DEF DownsAlone, TypeOK
<1>13. SchemaAsRecorded'
  <2>a. built' = recorded' \ ({Rename} \union LostForGood')
    <3>1. built = recorded \ ({Rename} \union LostForGood)
      BY DEF SchemaAsRecorded
    <3>2. CASE v = Table
      <4>1. LostForGood' \ {Column} = {} /\ (Column \in recorded <=> Column \in LostForGood')
        BY <1>1, <3>2 DEF LostForGood, LostOnRecord
      <4>. QED
        BY <1>1, <1>3, <3>1, <3>2, <4>1 DEF LostForGood
    <3>3. CASE v # Table
      <4>1. LostForGood' = LostForGood
        BY <1>1, <3>3 DEF LostForGood
      <4>. QED
        BY <1>1, <3>1, <3>3, <4>1
    <3>. QED
      BY <3>2, <3>3
  <2>. SUFFICES ASSUME alone
                PROVE  ~ torn' /\ \A w \in recorded' : UpTo(w) \subseteq recorded'
    BY <1>2, <2>a DEF SchemaAsRecorded
  <2>1. v = Table => Column \notin recorded
    BY <1>11, VersionsOrdered DEF Highest
  <2>2. ASSUME NEW w \in recorded' PROVE v \notin UpTo(w)
    <3>1. w \in recorded /\ w # v /\ w \in Nat /\ v \in Nat
      BY <1>1, <1>2, VersionsAssumption DEF TypeOK
    <3>. QED
      BY <1>11, <3>1 DEF Highest, UpTo
  <2>. QED
    BY <1>1, <1>11, <2>1, <2>2
<1>14. UpMissesNothing'
  BY <1>1, <1>2 DEF UpMissesNothing, TypeOK
<1>15. LostOnRecord'
  <2>1. v = Column => Column \in built
    BY <1>1, <1>3 DEF CanReverse
  <2>2. v = Column => ~ torn
    BY <2>1 DEF SchemaAsRecorded, LostForGood
  <2>. QED
    BY <1>1, <1>3, <2>2 DEF LostOnRecord, LostForGood
<1>. QED
  BY <1>15, <1>6, <1>7, <1>8, <1>9, <1>10, <1>12, <1>13, <1>14

(***************************************************************************)
(* Every step of every process keeps the inductive invariant: what the     *)
(* file holds, what is recorded, and what the processes that migrate have  *)
(* read of it, with what 0007 leaves of the rows.                          *)
(***************************************************************************)
THEOREM Invariance == Spec => []IInv
<1>1. IInv /\ [Next]_vars => IInv'
  <2>. SUFFICES ASSUME IInv, [Next]_vars PROVE IInv'
    OBVIOUS
  <2>1. ASSUME NEW p \in Runners,
               \/ BeginUp(p) \/ Apply(p) \/ UpReturns(p)
               \/ BeginDown(p) \/ Reverse(p) \/ BreakOff(p)
        PROVE  IInv'
    BY <2>1, BeginUpIInv, ApplyIInv, StopIInv, BeginDownIInv, ReverseIInv
  <2>2. ASSUME NEW platform \in {"manual", "broker"}, NEW name \in Names,
               NEW event \in Events, Insert(platform, name, event)
        PROVE  IInv'
    BY <2>2, InsertIInv
  <2>3. CASE UNCHANGED vars
    BY <2>3 DEF IInv, vars, schema, history, TypeOK, FingerprintsCurrent, BanksKnown,
       ManualsEntered, DownsAlone, SchemaAsRecorded, UpMissesNothing, EventsKept,
       What, Highest, LostOnRecord, LostForGood
  <2>. QED
    BY <2>1, <2>2, <2>3 DEF Next
<1>. QED
  BY <1>1, InitIInv, PTL DEF Spec

(***************************************************************************)
(* For any number of processes: schema_migrations says what the file       *)
(* holds, whatever order the transactions of Up and Down take and wherever *)
(* they stop, but for a column lost with a table that was dropped under    *)
(* it; and nothing is lost so, nor a gap left, while no Down runs beside   *)
(* another process that migrates.                                          *)
(***************************************************************************)
THEOREM SchemaTracked == Spec => []SchemaAsRecorded
BY Invariance, PTL DEF IInv

(* Up has every version it got past on record, and there but for a column  *)
(* lost for good, unless a Down took effect while it ran.                  *)
THEOREM NothingMissed == Spec => []UpMissesNothing
BY Invariance, PTL DEF IInv

(* No sequence of Up and Down loses or invents a credit or a trade, other  *)
(* than by dropping the table.                                             *)
THEOREM NothingLost == Spec => []EventsKept
BY Invariance, PTL DEF IInv

(***************************************************************************)
(* With 0007 applied a credit has one row: no bank's row is left, so equal *)
(* credits have equal platforms, and fingerprints are those of the rows'   *)
(* own fields.                                                             *)
(***************************************************************************)
THEOREM OneRow == Spec => []OneRowPerCredit
<1>1. IInv => OneRowPerCredit
  <2>. SUFFICES ASSUME IInv, Rename \in recorded, NEW r \in rows, NEW s \in rows,
                       What(r).credit, What(r) = What(s)
                PROVE  r = s
    BY DEF OneRowPerCredit
  <2>1. r \in Row /\ s \in Row
    BY DEF IInv, TypeOK
  <2>2. /\ What(r).credit = What(s).credit /\ What(r).name = What(s).name
        /\ What(r).event = What(s).event
    OBVIOUS
  <2>3. r.platform = "manual" /\ s.platform = "manual" /\ r.name = s.name /\ r.event = s.event
    BY <2>1, <2>2 DEF What, IInv, BanksKnown, Row, Platforms
  <2>4. r.fingerprint = s.fingerprint
    BY <2>3 DEF IInv, FingerprintsCurrent
  <2>. QED
    BY <2>1, <2>3, <2>4 DEF Row
<1>. QED
  BY <1>1, Invariance, PTL

(***************************************************************************)
(* Wherever the processes were stopped and whatever Downs ran beside them, *)
(* the next Up can apply the lowest missing version: it is not built, the table is there when it is needed, *)
(* and 0007 rewrites no two rows into one fingerprint.                     *)
(***************************************************************************)
THEOREM NeverStuck == Spec => []UpCanFinish
<1>1. IInv => UpCanFinish
  <2>. SUFFICES ASSUME IInv, ~ reentered, NEW v \in Versions,
                       Lowest(v, Versions \ recorded)
                PROVE  CanApply(v)
    BY DEF UpCanFinish
  <2>1. v \notin recorded /\ built = recorded \ ({Rename} \union LostForGood)
    BY DEF Lowest, IInv, SchemaAsRecorded
  <2>2. v \in {Column, Rename} => Table \in built
    BY <2>1, VersionsOrdered DEF Lowest, LostForGood
  <2>3. ASSUME v = Rename, NEW r \in rows, NEW s \in rows,
               Manual(r).fingerprint = Manual(s).fingerprint
        PROVE  r = s
    <3>1. /\ r \in Row /\ r.fingerprint = Fingerprint(r.platform, r.name, r.event)
          /\ s \in Row /\ s.fingerprint = Fingerprint(s.platform, s.name, s.event)
      BY DEF IInv, TypeOK, FingerprintsCurrent
    <3>2. /\ Manual(r).platform = Manual(s).platform
          /\ r.name = s.name /\ r.event = s.event
      BY <2>3, <3>1, ManualRow DEF Fingerprint
    <3>3. ASSUME NEW t \in rows
          PROVE  /\ t.platform = "bank" =>
                      t.name \in BankNames /\ Manual(t).platform = "manual"
                 /\ t.platform # "bank" => Manual(t) = t
                 /\ t.platform = "manual" => t.name \notin BankNames
      <4>1. t.platform = "manual" => t.name \notin BankNames
        BY <2>1, <2>3 DEF IInv, ManualsEntered
      <4>. QED
        BY <4>1 DEF IInv, BanksKnown, Manual, NewRow
    <3>4. r.platform = s.platform
      BY <3>2, <3>3
    <3>. QED
      BY <3>1, <3>2, <3>4 DEF Row
  <2>. QED
    BY <2>1, <2>2, <2>3 DEF CanApply, Distinct
<1>. QED
  BY <1>1, Invariance, PTL

=============================================================================
