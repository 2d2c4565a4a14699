---------------------------- MODULE BrokerImport ----------------------------
(***************************************************************************)
(* Importing a broker's account: the user exports windows of it,           *)
(* overlapping or not, in one layout or in several, or types in trades of  *)
(* it, and each file is parsed (DegiroExports, FillExports) and stored     *)
(* (Ledger), by several writers at once, some of them broken off.          *)
(***************************************************************************)
EXTENDS Ledger, DegiroExports, FillExports

CONSTANTS
  Accounts,  (* The accounts a broker can have kept, each with the layouts *)
             (* its owner exports it in.                                   *)
  Windows    (* The sets of days an export can be asked for.               *)

ASSUME AccountAssumption ==
  \A a \in Accounts :
    \/ a.layouts \subseteq DegiroLayouts /\ a.rows \in Seq(rawRow)
    \/ a.layouts \subseteq FillLayouts /\ a.rows \in Seq(fillRow)

VARIABLE account   (* The rows the broker has, and the layouts exported.   *)

importVars == <<vars, account>>

Listed(layout, row) == layout \in FillLayouts => Lists(layout, row)

Export(a, window, layout) ==
  Restrict(a.rows, {i \in DOMAIN a.rows : a.rows[i].date \in window /\ Listed(layout, a.rows[i])})

(* ParseReader: the broker is told by the header of the file. *)
Parse(rs, layout) == IF layout \in DegiroLayouts THEN ParseDegiro(rs, layout) ELSE ParseFills(rs, layout)

Refused(rs, layout) == RefusedDegiro(rs, layout) \/ RefusedFills(rs, layout)

(* What the parsers give, and the forms, is what the ledger is given. *)
ASSUME TradeAssumption ==
  \A a \in Accounts :
    /\ \A window \in Windows \union {Days}, layout \in a.layouts :
         LET file == Export(a, window, layout) IN
         ~ Refused(file, layout) =>
           \A i \in DOMAIN Parse(file, layout) : Parse(file, layout)[i] \in [key : Trades, ref : Refs]
    /\ a.layouts = {"etrade"} =>
         \A i \in DOMAIN a.rows :
           a.rows[i].kind \in transactionTypes => NewByHand(a.rows[i]) \in [key : Trades, ref : Refs]

----------------------------------------------------------------------------

InitImport == Init /\ account \in Accounts

(* Parse: a file it refuses stores nothing. *)
ImportExport(w, window, layout) ==
  LET file == Export(account, window, layout) IN
  /\ ~ Refused(file, layout)
  /\ Begin(w, InRowOrder(Parse(file, layout)))

(* handleRSUVest and handleSale, for a trade the account has. *)
EnterByHand(w, i) ==
  /\ account.layouts = {"etrade"} /\ account.rows[i].kind \in transactionTypes
  /\ Begin(w, <<NewByHand(account.rows[i])>>)

ByWriter(w) ==
  \/ \E window \in Windows, layout \in account.layouts : ImportExport(w, window, layout)
  \/ \E i \in DOMAIN account.rows : EnterByHand(w, i)
  \/ \E given \in Batches : Begin(w, given)
  \/ Store(w)

NextImport ==
  /\ \/ \E w \in Writers : ByWriter(w)
     \/ \E i \in 1..lastId : Forms(i)
  /\ UNCHANGED account

SpecImport == InitImport /\ [][NextImport]_importVars

----------------------------------------------------------------------------

InLedger == {i \in DOMAIN rows : rows[i].tx.key \in Trades}

Signed(key) == IF key.type = "sell" THEN - key.quantity ELSE key.quantity

(* The transactions of the account, all of it exported in that layout. *)
Whole(layout) ==
  LET rs == Export(account, Days, layout) IN
  IF Refused(rs, layout) THEN {} ELSE {tx.key : tx \in Range(Parse(rs, layout))}

(* Under either of an instrument's names. *)
UnitsHeld(isin) ==
  SumFunction([i \in {j \in InLedger : rows[j].tx.key.instrument \in {isin, Ticker[isin]}} |->
                 Signed(rows[i].tx.key)])

UnitsTraded(isin) ==
  SumFunction([i \in {j \in DOMAIN account.rows : account.rows[j].isin = isin} |->
                 account.rows[i].qty])

(* No window asked for has some of an order's rows and not the others.     *)
Uncut(rs) ==
  \A window \in Windows : \A i, j \in DOMAIN rs :
    rs[i].order = rs[j].order /\ rs[i].order # NoOrder =>
      (rs[i].date \in window <=> rs[j].date \in window)

(***************************************************************************)
(* "re-importing an overlapping export [is] safe" (the comment on Store):  *)
(* once an export of the whole account has been imported, the ledger holds *)
(* as many units as the account traded, whatever windows of it were        *)
(* imported before, after or by another writer at the same time: as long   *)
(* as every export is of one layout, and none of Degiro's transactions was *)
(* taken between two days of an order (Uncut).  A Degiro account exported  *)
(* in both its layouts is not kept to (netOrder and parseAccountRow give   *)
(* an order other sizes and other prices), nor one whose order a window    *)
(* has cut, as the part stays in beside the whole.                         *)
(***************************************************************************)
UnitsAgree ==
  \A layout \in account.layouts :
    Whole(layout) # {} /\ Whole(layout) \subseteq imported =>
      \A isin \in ISINs : UnitsHeld(isin) = UnitsTraded(isin)

(***************************************************************************)
(* No window of the account that cuts no order (Uncut) brings in a         *)
(* transaction that the whole account does not have: what is netted and    *)
(* cancelled in a short export is so in every longer one.                  *)
(***************************************************************************)
NothingInvented ==
  \A i \in InLedger : \E layout \in account.layouts :
    rows[i].tx.key \in Whole(layout) \/ Refused(Export(account, Days, layout), layout)

=============================================================================
