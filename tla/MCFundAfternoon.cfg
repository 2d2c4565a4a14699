CONSTANTS
  MaxLength   = 3
  Candidates <- AfternoonTrades
  Dates      <- MCDates
  Years      <- MCYears
  YearLength  = 4
  CycleLength = 8
  Quantities <- MCQuantities
  Prices     <- MCPrices
  EuroRate   <- MCEuroRate
  ExitRate   <- MCExitRate
  Valuations <- AfternoonValuations
  AsOfs      <- MCAsOfs
  Ledgers    <- AllTogether
SPECIFICATION SpecYears
INVARIANT EveryAnniversaryCharged
CHECK_DEADLOCK FALSE
