CONSTANTS
  MaxLength   = 4
  Candidates <- Trades
  Dates      <- MCDates
  Years      <- MCYears
  YearLength  = 4
  CycleLength = 8
  Quantities <- MCQuantities
  Prices     <- MCPrices
  EuroRate   <- MCEuroRate
  ExitRate   <- MCExitRate
  Valuations <- MCValuations
  AsOfs      <- MCAsOfs
  Ledgers    <- TimelyLedgers
SPECIFICATION SpecYears
INVARIANTS CreditFollowsUnits EveryAnniversaryCharged GapBlocks ReportsStand DeemedTaxOnlyAdvanced ScheduleAgrees
CHECK_DEADLOCK FALSE
