SPECIFICATION Safety
CONSTANTS
  Workers = {w1}
  Messages = {m1, m2}
  Times = {1}
  MaxAttempts = 3
  BatchSize = 2
  Poison = {}
  PooledQueries = TRUE
  LostCommitAck = FALSE
  MaxFaults = 1
  NoMessage = none
INVARIANTS
  NoMessageLost
