\* One drain at a time, three messages in batches of two, two faults.
SPECIFICATION Spec
CONSTANTS
  Workers = {w1}
  Messages = {m1, m2, m3}
  Times = {1, 2}
  MaxAttempts = 2
  BatchSize = 2
  Poison = {}
  PooledQueries = FALSE
  LostCommitAck = FALSE
  MaxFaults = 2
  NoMessage = none
INVARIANTS
  AppliedOnceIfProcessed
PROPERTIES
  ImplementsContract
  EventuallySettled
