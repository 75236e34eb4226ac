SPECIFICATION Spec
CONSTANTS
  c1 = c1
  c2 = c2
  n1 = n1
  n2 = n2
  custom = custom
  Items = {1, 2}
  ItemData = {p1, p2}
  Names = {n1, n2, custom}
  Categories = {c1, c2}
  Blank = blank
  Null = null
  Drains = {w1}
  VendorIds = {v1, v2, v3}
  CustomId = v0
  CustomName = custom
  CategoryName <- MCCategoryName
  Titles = {n1, blank}
  FirstTitle = n1
  Filings <- MCFilings
  MaxAttempts = 2
  MaxMishaps = 1
INVARIANTS
  RefilingSucceeds
CHECK_DEADLOCK FALSE
