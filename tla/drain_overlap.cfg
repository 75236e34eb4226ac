SPECIFICATION Safety
CONSTANTS
  Workers = {w1, w2}
  Messages = {m1, m2}
  Times = {1}
  MaxAttempts = 3
  BatchSize = 2
  Poison = {}
  PooledQueries = FALSE
  LostCommitAck = TRUE
  MaxFaults = 1
  NoMessage = none
SYMMETRY Symmetry
INVARIANTS
  TypeOK
  ProcessedIsDurable
  ErrorTrail
PROPERTIES
  DeadLetterNeverRetried
