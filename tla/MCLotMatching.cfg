CONSTANTS
  MaxLength  = 4
  Dates       <- MCDates
  Quantities <- MCQuantities
  Prices     <- MCPrices
  EuroRate   <- MCEuroRate
  Ledgers    <- MCLedgers
SPECIFICATION Spec
INVARIANTS OldestFirst NoFutureUnits NothingLost
PROPERTIES ImplementsUnitQueue
CHECK_DEADLOCK FALSE
