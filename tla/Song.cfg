SPECIFICATION Spec
CHECK_DEADLOCK FALSE
CONSTANTS
  None = None
  Songs <- MCSongs
  MaxArrivals = 3
  MaxTicks = 60
  MaxEdits = 1
  MaxElapsed = 90
  MaxOverrun = 6
INVARIANTS
  ScanFindsAnEnd
  KnowsThePlayedRows
  EveryPassEnds
PROPERTIES
  CanonicalEnd
  PlaysItsLength
