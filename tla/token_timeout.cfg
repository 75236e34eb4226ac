\* One caller, nothing fails but requests that time out.
SPECIFICATION Safety
CONSTANTS
  Callers = {c1}
  RequestTimeout = 1
  LockTimeout = 2
  MaxTokens = 2
  MaxFaults = 0
  Nobody = nobody
INVARIANTS
  RetryCanProceed
