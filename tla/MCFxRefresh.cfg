CONSTANTS
  Callers          = {a, b}
  usd              = usd
  retired          = retired
  unlisted         = unlisted
  Free             = Free
  PublicationDays <- MCPublicationDays
  FirstDay         = 0
  EmbeddedLast     = 2
  Currencies      <- MCCurrencies
  Known           <- MCKnown
  RatedDays       <- MCRatedDays
  Dates           <- MCDates
  maxLookback      = 2
  staleGrace       = 1
SPECIFICATION Spec
INVARIANTS SettledRatesStand LacksOnlyWhatItsFileLacks CloseToItsDate
PROPERTIES DataOnlyNewer CallReturns
CHECK_DEADLOCK FALSE
