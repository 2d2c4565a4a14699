CONSTANTS
  MaxLength   = 2
  Candidates <- Trades
  Dates      <- MCDates
  Years      <- MCYears
  YearLength  = 4
  CycleLength = 8
  Quantities <- MCQuantities
  Prices     <- MCPrices
  EuroRate   <- MCEuroRate
  ExitRate   <- MCExitRate
  Valuations <- MCValuations
  AsOfs      <- MCAsOfs
  Ledgers    <- AnyLedger
SPECIFICATION SpecYears
INVARIANT OnlyUnitsHeldAreSold
CHECK_DEADLOCK FALSE
