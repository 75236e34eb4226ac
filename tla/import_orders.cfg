\* One run of several pages, and a tie longer than a page.
SPECIFICATION Safety
CONSTANTS
  Runs = {w1}
  Records = {1, 2, 3}
  MaxTime = 2
  PageSize = 2
  MaxPages = 2
  StableTies = TRUE
  MaxFaults = 0
INVARIANTS
  NothingSkipped
