----------------------------- MODULE Migrations -----------------------------
(***************************************************************************)
(* internal/db/migrate.go with the scripts of internal/db/migrations: Up,  *)
(* which every command runs when it starts, and Down (`taxman migrate      *)
(* down`), from several processes on one database, while `taxman serve`    *)
(* stores credits and trades.                                              *)
(*                                                                         *)
(* Up and Down read the applied versions once, outside any transaction,    *)
(* and go by what they have read.  Each version's script and its record in *)
(* schema_migrations are one transaction, and one step here; between two   *)
(* of them other processes run, and the process itself may fail or stop.   *)
(***************************************************************************)
EXTENDS Integers

CONSTANTS
  Versions,   (* The migrations' numbers.                                  *)
  Table,      (* 0001: creates the transactions table.                     *)
  Column,     (* 0004: adds a column to it.                                *)
  Rename,     (* 0007: rewrites its hand-entered interest credits.         *)
  Names,      (* What a row's instrument column says.                      *)
  BankNames,  (* The names 0007 gives the two banks' credits.              *)
  Events,     (* A row's other identifying fields.                         *)
  Runners     (* Processes that migrate.                                   *)

(* Every other version creates a table that no other script touches. *)
ASSUME VersionsAssumption ==
  /\ Versions \subseteq Nat
  /\ {Table, Column, Rename} \subseteq Versions
  /\ Table < Column /\ Column < Rename
  /\ \A v \in Versions : Table <= v
ASSUME NamesAssumption == BankNames \subseteq Names

(* "bank" is either of the two platforms that 0007 does away with; the name *)
(* of its fixed instrument id is the one 0007 maps it to.                   *)
Platforms == {"bank", "manual", "broker"}

(* Transaction.Fingerprint, and the scripts' sha256_hex expressions. *)
Fingerprint(platform, name, event) == <<platform, name, event>>

NewRow(platform, name, event) ==
  [platform |-> platform, name |-> name, event |-> event,
   fingerprint |-> Fingerprint(platform, name, event)]

Row == [platform : Platforms, name : Names, event : Events,
        fingerprint : Platforms \X Names \X Events]

VARIABLES
  recorded,   (* The versions in schema_migrations.                        *)
  built,      (* The versions whose table or column is there.              *)
  rows,       (* The transactions table.                                   *)
  serving,    (* An Up has ended well, so a server may be running.         *)
  pc,         (* Per process: "idle", "up" or "down".                      *)
  todo,       (* Per process: the versions it has yet to apply or reverse. *)
  logged,     (* History: what was stored in the table, since its creation.*)
  alone,      (* History: no Down ran beside another Up or Down.           *)
  crossed,    (* History, per process: a Down took effect during its Up.   *)
  torn,       (* History: the table was dropped with 0004 on record.       *)
  reentered   (* History: a bank's credit was entered with 0007 reversed.  *)

schema  == <<recorded, built, rows>>
history == <<logged, alone, crossed, torn, reentered>>
vars    == <<schema, serving, pc, todo, history>>

What(r) == [credit |-> r.platform # "broker", name |-> r.name, event |-> r.event]

Lowest(v, S)  == v \in S /\ \A w \in S : v <= w
Highest(v, S) == v \in S /\ \A w \in S : w <= v
UpTo(v)    == {w \in Versions : w <= v}

----------------------------------------------------------------------------

OlderRows == {NewRow("bank", n, e) : n \in BankNames, e \in Events}
               \union {NewRow("broker", n, e) : n \in Names, e \in Events}

(* A new file, or the database of a release that knew the banks. *)
Init ==
  /\ recorded \in {{}} \union {UpTo(v) : v \in {w \in Versions : w < Rename}}
  /\ built = recorded
  /\ rows \in SUBSET (IF Table \in built THEN OlderRows ELSE {})
  /\ serving = FALSE
  /\ pc = [p \in Runners |-> "idle"] /\ todo = [p \in Runners |-> {}]
  /\ logged = {What(r) : r \in rows}
  /\ alone = TRUE /\ crossed = [p \in Runners |-> FALSE]
  /\ torn = FALSE /\ reentered = FALSE

Others(p, state) == \E q \in Runners \ {p} : pc[q] = state

(* Mutant: everything up to the highest version is taken as applied. *)
MissingAbove == {v \in Versions : \A w \in recorded : w < v}

(* Up goes by the set of versions, not by the highest. *)
Missing == Versions \ recorded

BeginUp(p) ==
  /\ pc[p] = "idle"
  /\ pc' = [pc EXCEPT ![p] = "up"]
  /\ todo' = [todo EXCEPT ![p] = Missing]
  /\ alone' = (alone /\ ~ Others(p, "down"))
  /\ crossed' = [crossed EXCEPT ![p] = FALSE]
  /\ UNCHANGED <<schema, serving, logged, torn, reentered>>

(* Mutant: 0007 leaves the fingerprint as it was. *)
ManualUnhashed(r) ==
  IF r.platform = "bank" THEN [r EXCEPT !.platform = "manual"] ELSE r

(* 0007 up, of one row. *)
Manual(r) == IF r.platform = "bank" THEN NewRow("manual", r.name, r.event) ELSE r

(* Mutant: 0007's down goes by the name alone. *)
BankByName(r) == IF r.name \in BankNames THEN NewRow("bank", r.name, r.event) ELSE r

(* 0007 down, of one row: also of a credit logged since under such a name. *)
Bank(r) ==
  IF r.platform = "manual" /\ r.name \in BankNames
  THEN NewRow("bank", r.name, r.event) ELSE r

(* UNIQUE(fingerprint): no two rows are rewritten into one. *)
Distinct(rewritten) ==
  \A r, s \in rows : rewritten[r].fingerprint = rewritten[s].fingerprint => r = s

(* The script of v runs, and v is not recorded yet (PRIMARY KEY). *)
CanApply(v) ==
  /\ v \notin recorded
  /\ v \notin built
  /\ v \in {Column, Rename} => Table \in built
  /\ v = Rename => Distinct([r \in rows |-> Manual(r)])

(* Mutant: a process stops between the script and its record. *)
ApplyUnrecorded(p) ==
  /\ pc[p] = "up"
  /\ \E v \in todo[p] :
     /\ Lowest(v, todo[p])
     /\ CanApply(v)
     /\ recorded' \in {recorded, recorded \union {v}}
     /\ built' = IF v = Rename THEN built ELSE built \union {v}
     /\ rows' = IF v = Rename THEN {Manual(r) : r \in rows} ELSE rows
     /\ todo' = [todo EXCEPT ![p] = @ \ {v}]
  /\ UNCHANGED <<serving, pc, history>>

(* Mutant: a version that fails is passed over. *)
ApplyOrPass(p) ==
  /\ pc[p] = "up"
  /\ \E v \in todo[p] :
     /\ Lowest(v, todo[p])
     /\ recorded' = IF CanApply(v) THEN recorded \union {v} ELSE recorded
     /\ built' = IF CanApply(v) /\ v # Rename THEN built \union {v} ELSE built
     /\ rows' = IF CanApply(v) /\ v = Rename THEN {Manual(r) : r \in rows} ELSE rows
     /\ todo' = [todo EXCEPT ![p] = @ \ {v}]
  /\ UNCHANGED <<serving, pc, history>>

Apply(p) ==
  /\ pc[p] = "up"
  /\ \E v \in todo[p] :
     /\ Lowest(v, todo[p])
     /\ CanApply(v)
     /\ recorded' = recorded \union {v}
     /\ built' = IF v = Rename THEN built ELSE built \union {v}
     /\ rows' = IF v = Rename THEN {Manual(r) : r \in rows} ELSE rows
     /\ todo' = [todo EXCEPT ![p] = @ \ {v}]
  /\ UNCHANGED <<serving, pc, history>>

Stop(p) ==
  /\ pc' = [pc EXCEPT ![p] = "idle"]
  /\ todo' = [todo EXCEPT ![p] = {}]
  /\ UNCHANGED <<schema, history>>

(* A script or its record fails, the database is locked, or the process is *)
(* stopped: the transaction is rolled back and what came before it stays.  *)
BreakOff(p) ==
  /\ pc[p] # "idle" /\ todo[p] # {}
  /\ Stop(p) /\ UNCHANGED serving

UpReturns(p) ==
  /\ pc[p] = "up" /\ todo[p] = {}
  /\ Stop(p) /\ serving' = TRUE

(* With nothing applied Down returns and changes nothing. *)
BeginDown(p) ==
  /\ pc[p] = "idle"
  /\ pc' = [pc EXCEPT ![p] = "down"]
  /\ \E v \in recorded : /\ Highest(v, recorded)
                         /\ todo' = [todo EXCEPT ![p] = {v}]
  /\ alone' = (alone /\ ~ Others(p, "down") /\ ~ Others(p, "up"))
  /\ UNCHANGED <<schema, serving, logged, crossed, torn, reentered>>

CanReverse(v) ==
  IF v = Rename THEN Table \in built /\ Distinct([r \in rows |-> Bank(r)]) ELSE v \in built

(* Dropping the table takes its rows and its column along. *)
Reverse(p) ==
  /\ pc[p] = "down"
  /\ \E v \in todo[p] :
     /\ CanReverse(v)
     /\ recorded' = recorded \ {v}
     /\ built' = IF v = Table THEN built \ {Table, Column} ELSE built \ {v}
     /\ rows' = CASE v = Table  -> {}
                  [] v = Rename -> {Bank(r) : r \in rows}
                  [] OTHER      -> rows
     /\ logged' = IF v = Table THEN {} ELSE logged
     /\ torn' = (torn \/ (v = Table /\ Column \in recorded))
  /\ pc' = [pc EXCEPT ![p] = "idle"]
  /\ todo' = [todo EXCEPT ![p] = {}]
  /\ crossed' = [q \in Runners |-> crossed[q] \/ pc[q] = "up"]
  /\ UNCHANGED <<serving, alone, reentered>>

(* Store.Insert by a server: it names the column, and a fingerprint on     *)
(* record is passed over.                                                  *)
Insert(platform, name, event) ==
  LET r == NewRow(platform, name, event) IN
  /\ serving /\ {Table, Column} \subseteq built
  /\ \A s \in rows : s.fingerprint # r.fingerprint
  /\ rows' = rows \union {r}
  /\ logged' = logged \union {What(r)}
  /\ reentered' = (reentered \/ (platform = "manual" /\ name \in BankNames
                                   /\ Rename \notin recorded))
  /\ UNCHANGED <<recorded, built, serving, pc, todo, alone, crossed, torn>>

Next ==
  \/ \E p \in Runners : \/ BeginUp(p) \/ Apply(p) \/ UpReturns(p)
                        \/ BeginDown(p) \/ Reverse(p)
                        \/ BreakOff(p)
  \/ \E platform \in {"manual", "broker"}, name \in Names, event \in Events :
       Insert(platform, name, event)

Spec == Init /\ [][Next]_vars

----------------------------------------------------------------------------

TypeOK ==
  /\ recorded \subseteq Versions /\ built \subseteq Versions \ {Rename}
  /\ rows \subseteq Row /\ serving \in BOOLEAN
  /\ pc \in [Runners -> {"idle", "up", "down"}]
  /\ todo \in [Runners -> SUBSET Versions]
  /\ \A p \in Runners : pc[p] = "down" => \E v \in Versions : todo[p] = {v}
  /\ logged \subseteq [credit : BOOLEAN, name : Names, event : Events]
  /\ alone \in BOOLEAN /\ crossed \in [Runners -> BOOLEAN] 
  /\ torn \in BOOLEAN /\ reentered \in BOOLEAN

(* What is on record and not there: a Down that reverses 0001 when it is    *)
(* no longer the latest takes 0004's column along and leaves its record,   *)
(* after which neither Up nor Down touches 0004 again.                     *)
LostForGood == IF torn THEN {Column} ELSE {}

(***************************************************************************)
(* schema_migrations records what the file holds, however many processes   *)
(* migrate at once and wherever they stop, but for the column of a table   *)
(* that was dropped under it.  As long as no Down runs beside another      *)
(* process that migrates, nothing is dropped so and the record has no      *)
(* gaps; one that does may reverse a version that is no longer the latest. *)
(***************************************************************************)
SchemaAsRecorded ==
  /\ built = recorded \ ({Rename} \union LostForGood)
  /\ alone => ~ torn /\ \A v \in recorded : UpTo(v) \subseteq recorded

(***************************************************************************)
(* Up makes good whatever is missing from the record: one during which no  *)
(* Down took effect has every version it got past on record, gaps that an  *)
(* earlier Down left in the middle included.  So a server starts on every  *)
(* table and column of the scripts but one: the column lost with a table   *)
(* dropped under it, which no Up restores because 0004 stays on record.    *)
(***************************************************************************)
UpMissesNothing ==
  \A p \in Runners :
    pc[p] = "up" /\ ~ crossed[p] =>
      /\ Versions \ todo[p] \subseteq recorded
      /\ (Versions \ todo[p]) \ {Rename} \subseteq built \union LostForGood

(***************************************************************************)
(* With 0007 applied a hand-entered credit is one row, whether it was      *)
(* migrated, entered again before or after, or taken back and forth: "it   *)
(* would no longer dedupe against a re-entry of the same credit".          *)
(***************************************************************************)
OneRowPerCredit ==
  Rename \in recorded =>
    \A r, s \in rows : What(r).credit /\ What(r) = What(s) => r = s

(***************************************************************************)
(* "nothing already logged is lost": the table holds the credits and the   *)
(* trades that were stored in it, as what they were, over any sequence of  *)
(* Up and Down that does not drop the table.                               *)
(***************************************************************************)
EventsKept == logged = {What(r) : r \in rows}

(***************************************************************************)
(* The next Up is never stuck: whatever point processes were stopped at,   *)
(* and whatever Downs ran beside them, the lowest missing version can be   *)
(* applied.  The one thing that blocks it for good is a credit of a bank   *)
(* entered anew while 0007 was reversed: the old row, still there, is      *)
(* rewritten into the same fingerprint.                                    *)
(***************************************************************************)
UpCanFinish ==
  ~ reentered =>
    \A v \in Versions : Lowest(v, Versions \ recorded) => CanApply(v)

=============================================================================
