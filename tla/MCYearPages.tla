---------------------------- MODULE MCYearPages ----------------------------
(* YearPages over four years of two dates, with two sets of ledgers: two   *)
(* CGT holdings of at most MaxDisposals disposals each, every combination; *)
(* and three instruments of any of the Kinds.  The CGT rate falls within   *)
(* year 3, the DIRT rate after year 2.                                     *)
EXTENDS YearPages

CONSTANTS MaxDisposals, h1, h2, h3

MCInstruments == {h1, h2, h3}
MCYears    == 1..4
MCDates    == 2..9
MCYearOf   == [d \in MCDates |-> d \div 2]
MCYearEnd  == [y \in MCYears |-> 2 * y + 1]
MCRate     == [d \in MCDates |-> IF d < 7 THEN 33 ELSE 31]
MCDIRTRate == [d \in MCDates |-> IF d < 6 THEN 41 ELSE 33]

D(date, gain) == [date |-> date, gain |-> gain]

Candidates == {D(2, -40), D(3, 90), D(4, -70), D(5, 30), D(5, 200),
               D(6, 60), D(7, -10), D(8, 300), D(9, -200)}

NoCharges == [y \in MCYears |-> {}]
Charges   == [y \in MCYears |-> {10 * y}]
UntilGap  == [y \in MCYears |-> IF y < 3 THEN {10 * y} ELSE {}]

H(class, traded, sold, charged, credits) ==
  [class |-> class, traded |-> traded, sold |-> sold, charged |-> charged, credits |-> credits]

Nothing   == H("UNCLASSIFIED", FALSE, {}, NoCharges, {})
Shares(s) == H("CGT_ASSET", TRUE, {s}, NoCharges, {})

C(i, date, amount) == [account |-> i, date |-> date, amount |-> amount]

Savings(i) == {C(i, 5, 16), C(i, 6, 17), C(i, 8, 5)}

Kinds(i) == {
  Nothing,
  Shares(<<D(3, 90), D(4, -70)>>), Shares(<<D(8, 300)>>),
  H("CGT_ASSET", TRUE, {}, NoCharges, {}),                       (* Unmatched.       *)
  H("EXIT_TAX_FUND", TRUE, {}, Charges, {}),
  H("EXIT_TAX_FUND", TRUE, {}, UntilGap, {}),                    (* No valuation.    *)
  H("UNCLASSIFIED", TRUE, {<<D(3, 90)>>}, Charges, {}),
  H("UNCLASSIFIED", FALSE, {}, NoCharges, Savings(i)),
  H("UNCLASSIFIED", FALSE, {}, NoCharges, {C(i, 7, 17)}),
  H("CGT_ASSET", FALSE, {<< >>}, NoCharges, {C(i, 7, 17)}),      (* As the report asks. *)
  H("CGT_ASSET", TRUE, {<<D(3, 90)>>}, NoCharges, {C(i, 7, 17)}) (* Its name's shares too. *)
}

Few       == {<< >>, <<D(3, 90)>>, <<D(3, 90), D(4, -70)>>, <<D(8, 300)>>}
Histories == UNION {[1..n -> Candidates] : n \in 0..MaxDisposals}

MCLedgers ==
  {[i \in MCInstruments |-> IF i = h1 THEN Shares(s) ELSE IF i = h2 THEN Shares(t) ELSE Nothing] :
     s \in Histories, t \in Histories}
  \union {[i \in MCInstruments |-> IF i = h1 THEN a ELSE IF i = h2 THEN b ELSE c] :
            a \in Kinds(h1), b \in Kinds(h2), c \in Kinds(h3)}

MCPortfolios ==
  [{h1, h2} -> Histories] \union UNION {[S -> Few] : S \in SUBSET MCInstruments}

=============================================================================
