SPECIFICATION Safety
CONSTANTS
  Workers = {w1}
  Messages = {m1, m2}
  Times = {1}
  MaxAttempts = 3
  BatchSize = 2
  Poison = {m1}
  PooledQueries = FALSE
  LostCommitAck = FALSE
  MaxFaults = 0
  NoMessage = none
PROPERTIES
  SagaEndIsRecorded
