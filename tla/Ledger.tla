------------------------------- MODULE Ledger -------------------------------
(***************************************************************************)
(* The transactions table of internal/ledger and the loops that write it:  *)
(* ingest.Store behind `taxman import`, `taxman backfill` and POST /import, *)
(* the interest form's batch, and the edit and delete of a hand-entered    *)
(* interest credit.                                                        *)
(*                                                                         *)
(* A statement is one transaction of the database and one step here.  The  *)
(* loops are not: other writers run between their statements, and where a  *)
(* statement fails (a locked database, a full disk) or the process is      *)
(* stopped, the rows before it stay in.                                    *)
(***************************************************************************)
EXTENDS Integers, Sequences, FiniteSets, FiniteSetsExt

CONSTANTS
  Trades,    (* What identifies an imported transaction: platform, type,   *)
             (* date, instrument, quantity, price and currency.            *)
  Credits,   (* The same of a hand-entered interest credit.                *)
  Refs,      (* The brokers' references: stored, not identifying.          *)
  Files,     (* The parsed exports a user can import.                      *)
  Batches,   (* The interest forms a user can post, all rows validated.    *)
  Writers,   (* Processes and requests that write at the same time.        *)
  MaxId      (* Bound: ids handed out.                                     *)

Transaction == [key : Trades \union Credits, ref : Refs]

ASSUME KeyAssumption   == Trades \intersect Credits = {}
ASSUME FileAssumption  == Files \subseteq Seq([key : Trades, ref : Refs])
ASSUME BatchAssumption == Batches \subseteq Seq([key : Credits, ref : Refs])
ASSUME MaxIdAssumption == MaxId \in Nat

(* What the hash is taken of: the reference is left out. *)
Fingerprint(tx) == <<tx.key>>

VARIABLES
  rows,       (* The table: id |-> the row's transaction and fingerprint.  *)
  lastId,     (* The highest id handed out (AUTOINCREMENT).                *)
  pc,         (* Per writer: "idle" or "storing".                          *)
  txs,        (* Per writer: the transactions it was given.                *)
  at,         (* Per writer: the position of the one it inserts next.      *)
  imported,   (* History: what the imports that ended well were given.     *)
  deleted     (* History: the ids of the rows deleted.                     *)

loop    == <<pc, txs, at>>
history == <<imported, deleted>>
vars    == <<rows, lastId, loop, history>>

OnRecord(tx) == \E i \in DOMAIN rows : rows[i].fingerprint = Fingerprint(tx)

----------------------------------------------------------------------------

Init ==
  /\ rows = << >> /\ lastId = 0
  /\ pc = [w \in Writers |-> "idle"] /\ txs = [w \in Writers |-> << >>]
  /\ at = [w \in Writers |-> 1]
  /\ imported = {} /\ deleted = {}

(* An export was parsed, or a form's rows all validated: its loop begins. *)
Begin(w, given) ==
  /\ pc[w] = "idle"
  /\ pc' = [pc EXCEPT ![w] = "storing"]
  /\ txs' = [txs EXCEPT ![w] = given]
  /\ UNCHANGED <<rows, lastId, at, history>>

AtTransaction(w) == pc[w] = "storing" /\ at[w] \in DOMAIN txs[w]

NextId == lastId + 1

(* Insert, of a transaction not on record. *)
InsertNew(w) ==
  LET tx == txs[w][at[w]] IN
  /\ AtTransaction(w) /\ ~ OnRecord(tx)
  /\ NextId <= MaxId
  /\ rows' = [i \in DOMAIN rows \union {NextId} |->
                IF i = NextId THEN [tx |-> tx, fingerprint |-> Fingerprint(tx)] ELSE rows[i]]
  /\ lastId' = NextId
  /\ at' = [at EXCEPT ![w] = @ + 1]
  /\ UNCHANGED <<pc, txs, history>>

(* Insert, of one that is: ON CONFLICT DO NOTHING. *)
SkipDuplicate(w) ==
  /\ AtTransaction(w) /\ OnRecord(txs[w][at[w]])
  /\ at' = [at EXCEPT ![w] = @ + 1]
  /\ UNCHANGED <<rows, lastId, pc, txs, history>>

Stop(w) ==
  /\ pc' = [pc EXCEPT ![w] = "idle"] /\ txs' = [txs EXCEPT ![w] = << >>]
  /\ at' = [at EXCEPT ![w] = 1]
  /\ UNCHANGED <<rows, lastId, deleted>>

Given(w) == {txs[w][j].key : j \in DOMAIN txs[w]}

(* Mutant: a failed insert ends the loop without an error. *)
FinishEarly(w) ==
  /\ pc[w] = "storing"
  /\ Stop(w) /\ imported' = imported \union Given(w)

Finish(w) ==
  /\ pc[w] = "storing" /\ at[w] \notin DOMAIN txs[w]
  /\ Stop(w) /\ imported' = imported \union Given(w)

(* An insert fails, or the process is stopped before it. *)
BreakOff(w) ==
  /\ AtTransaction(w)
  /\ Stop(w) /\ UNCHANGED imported

(* Mutant: the row is pinned by its id alone. *)
AnyRow(i) == i \in DOMAIN rows

(* What the WHERE clauses pin a form to. *)
ManualInterest(i) == i \in DOMAIN rows /\ rows[i].tx.key \in Credits

(* Mutant: the fingerprint stays that of the credit as first entered. *)
UpdateFieldsOnly(i, key) ==
  LET tx == [key |-> key, ref |-> rows[i].tx.ref] IN
  /\ ManualInterest(i)
  /\ \A j \in DOMAIN rows \ {i} : rows[j].fingerprint # Fingerprint(tx)
  /\ rows' = [rows EXCEPT ![i].tx = tx]
  /\ UNCHANGED <<lastId, loop, history>>

(* Refused, changing nothing, when id i is no hand-entered credit (404) or *)
(* another row has the new fingerprint (409).                              *)
UpdateManualInterestCredit(i, key) ==
  LET tx == [key |-> key, ref |-> rows[i].tx.ref] IN
  /\ ManualInterest(i)
  /\ \A j \in DOMAIN rows \ {i} : rows[j].fingerprint # Fingerprint(tx)
  /\ rows' = [rows EXCEPT ![i] = [tx |-> tx, fingerprint |-> Fingerprint(tx)]]
  /\ UNCHANGED <<lastId, loop, history>>

DeleteManualInterestCredit(i) ==
  /\ ManualInterest(i)
  /\ rows' = [j \in DOMAIN rows \ {i} |-> rows[j]]
  /\ deleted' = deleted \union {i}
  /\ UNCHANGED <<lastId, loop, imported>>

Store(w) == InsertNew(w) \/ SkipDuplicate(w) \/ Finish(w) \/ BreakOff(w)

(* A form is posted with any id that was ever handed out. *)
Forms(i) ==
  \/ \E key \in Credits : UpdateManualInterestCredit(i, key)
  \/ DeleteManualInterestCredit(i)

Next ==
  \/ \E w \in Writers : \/ \E given \in Files \union Batches : Begin(w, given)
                        \/ Store(w)
  \/ \E i \in 1..lastId : Forms(i)

Spec == Init /\ [][Next]_vars

----------------------------------------------------------------------------

TypeOK ==
  /\ DOMAIN rows \subseteq 1..lastId /\ lastId \in 0..MaxId
  /\ \A i \in DOMAIN rows : rows[i].tx \in Transaction
  /\ pc \in [Writers -> {"idle", "storing"}]
  /\ txs \in [Writers -> Seq(Transaction)]
  /\ at \in [Writers -> Nat \ {0}]
  /\ imported \subseteq Trades \union Credits
  /\ deleted \subseteq 1..lastId

(***************************************************************************)
(* One logical transaction is one row, whichever exports and forms brought *)
(* it and whatever references they gave it, while credits are edited into  *)
(* one another and loops are broken off and repeated.  The table only sees *)
(* fingerprints; this is about what they stand for.                        *)
(***************************************************************************)
OneRowPerTransaction ==
  \A i, j \in DOMAIN rows : rows[i].tx.key = rows[j].tx.key => i = j

(***************************************************************************)
(* An import that reported success is complete for good: every transaction *)
(* it was given is on record, though some were skipped as another writer's *)
(* and that writer may have broken off.                                    *)
(***************************************************************************)
ImportsComplete ==
  \A key \in imported \intersect Trades : \E i \in DOMAIN rows : rows[i].tx.key = key

(***************************************************************************)
(* A form left open on a deleted credit finds nothing to change: its id is *)
(* never another row's.                                                    *)
(***************************************************************************)
StaleFormsMiss == deleted \intersect DOMAIN rows = {}

(***************************************************************************)
(* "an imported transaction can never be mutated through this path": no    *)
(* step changes or removes a row that came from a broker.                  *)
(***************************************************************************)
ImportedRowsStay ==
  [][\A i \in DOMAIN rows :
       rows[i].tx.key \in Trades => i \in DOMAIN rows' /\ rows'[i] = rows[i]]_vars

=============================================================================
