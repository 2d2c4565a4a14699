CONSTANTS
  Versions  = {1, 4, 7, 9}
  Table     = 1
  Column    = 4
  Rename    = 7
  Names     = {n26, savings}
  BankNames = {n26}
  Events    = {june, december}
  Runners   = {r1, r2}
SPECIFICATION Spec
SYMMETRY RunnersAlike
INVARIANTS SchemaAsRecorded UpMissesNothing OneRowPerCredit EventsKept UpCanFinish
