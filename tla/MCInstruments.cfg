SPECIFICATION Spec
CONSTANTS
  r1 = r1
  r2 = r2
  k1 = k1
  k2 = k2
  k3 = k3
  k4 = k4
  S1 = S1
  S2 = S2
  CGT_ASSET = CGT_ASSET
  EXIT_TAX_FUND = EXIT_TAX_FUND
  None = None
  Requests <- MCRequests
  Keys <- MCKeys
  Held <- MCHeld
  Symbols <- MCSymbols
  Classifications <- MCClassifications
INVARIANTS NoChains ChainsOnlyGroups SameSymbolSameHolding
PROPERTY MergeKeepsTreatment
SYMMETRY MCSymmetry
CONSTRAINT Bounded
