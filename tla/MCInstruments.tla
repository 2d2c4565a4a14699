---------------------------- MODULE MCInstruments ----------------------------
(* Four instruments, one of them without transactions, two symbols, and   *)
(* two requests at a time.                                                 *)
EXTENDS Instruments, TLC

CONSTANTS r1, r2, k1, k2, k3, k4, S1, S2, CGT_ASSET, EXIT_TAX_FUND

MCRequests == {r1, r2}
MCKeys == {k1, k2, k3, k4}
MCHeld == {k1, k2, k3}
MCSymbols == {S1, S2}
MCClassifications == {CGT_ASSET, EXIT_TAX_FUND}
MCSymmetry ==
  Permutations(MCRequests) \union Permutations(MCHeld) \union Permutations(MCSymbols)
    \union Permutations(MCClassifications)

(* Of requests that overlapped only NoChains speaks, and a classification  *)
(* can do no more there than refuse a merge: they are tried without any.   *)
Bounded == "overlap" \in seen => \A k \in MCKeys : classOf[k] = None
=============================================================================
