\* Two callers take turns, one of them possibly twice before the other.
SPECIFICATION Spec
CONSTANTS
  Callers = {c1, c2}
  RequestTimeout = 1
  LockTimeout = 2
  MaxTokens = 3
  MaxFaults = 1
  Nobody = nobody
INVARIANTS
  TypeOK
  StoredTokenIsLive
PROPERTIES
  NoTokenSentTwice
  OnlyQueuesTimeOut
  EveryCallEnds
