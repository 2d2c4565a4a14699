SPECIFICATION SpecImport
CONSTANTS
  w1 = w1
  w2 = w2
  o1 = o1
  o2 = o2
  none = none
  fund = fund
  euro = euro
  EUR = euro
  sym = sym
  NoISIN = none
  Ticker <- MCTicker
  Times <- MCTimes
  Rates <- MCRates
  USD = USD
  Writers <- MCWriters
  Days <- MCDays
  ISINs <- MCISINs
  Currencies <- MCCurrencies
  Quantities <- MCQuantities
  Prices <- MCPrices
  LocalValues <- MCLocalValues
  OrderIds <- MCOrderIds
  NoOrder = none
  Trades <- MCTrades
  Credits <- MCCredits
  Refs <- MCRefs
  Files = {}
  Batches <- MCBatches
  Windows <- MCWindows
  Accounts <- MCAccounts
  MaxId = 3
INVARIANTS OneRowPerTransaction ImportsComplete UnitsAgree NothingInvented
PROPERTY ImportedRowsStay
CHECK_DEADLOCK FALSE
SYMMETRY MCSymmetry
