\* Two overlapping runs of one page each; ties may fill the page.
SPECIFICATION Spec
CONSTANTS
  Runs = {w1, w2}
  Records = {1, 2, 3}
  MaxTime = 2
  PageSize = 2
  MaxPages = 1
  StableTies = FALSE
  MaxFaults = 1
INVARIANTS
  TypeOK
  NothingSkipped
PROPERTIES
  CursorNeverRewinds
  EventuallyEnqueued
