CONSTANTS
  MaxDisposals    = 2
  h1              = h1
  h2              = h2
  h3              = h3
  Instruments    <- MCInstruments
  Ledgers        <- MCLedgers
  Years          <- MCYears
  Dates          <- MCDates
  YearOf         <- MCYearOf
  YearEnd        <- MCYearEnd
  Rate           <- MCRate
  DIRTRate       <- MCDIRTRate
  AnnualExemption = 50
  Portfolios     <- MCPortfolios
SPECIFICATION SpecPages
INVARIANTS ChainUnbroken LossesConserved ReliefInOrder PagesAgree NoPartialCharge AllYearsAddUp
CHECK_DEADLOCK FALSE
