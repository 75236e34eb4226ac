\* Two drains refresh one order through three revisions.
SPECIFICATION Spec
CONSTANTS
  Drains = {w1, w2}
  MaxTime = 3
  Size <- MCSize
  PooledQueries = FALSE
  MaxFaults = 1
INVARIANTS
  TypeOK
  LinesMatchRow
  RowIsNewestRecorded
  ProcessedIsStored
PROPERTIES
  RowNeverGoesBack
  
CHECK_DEADLOCK FALSE
