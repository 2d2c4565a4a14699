CONSTANTS
  Callers  = {a, b}
  None     = None
  ttl      = 2
  MaxClock = 3
SPECIFICATION Spec
SYMMETRY Symmetry
CHECK_DEADLOCK FALSE
INVARIANTS TypeOK LiveIsFresh AgeNeverUnderstated LastKnownServed
