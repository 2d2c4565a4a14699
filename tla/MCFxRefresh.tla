---------------------------- MODULE MCFxRefresh ----------------------------
(* FxRefresh over four publication days, the second the binary's last; one *)
(* currency the ECB still rates, one it gave up, one it never had.         *)
EXTENDS FxRefresh

CONSTANTS usd, retired, unlisted

MCPublicationDays == {0, 2, 3, 5}
MCDates           == {2, 3, 6}
MCCurrencies      == {usd, retired, unlisted}
MCKnown           == {usd, retired}
MCRatedDays       == [cur \in MCKnown |-> IF cur = usd THEN MCPublicationDays ELSE {0}]

=============================================================================
