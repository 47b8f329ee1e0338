SPECIFICATION Spec
CONSTANTS
  Capacity = 2
  SkipCounts = {0, 2}
  Floors = {3, 9}
  TipCeiling = 5
  MaxArrived = 3
  MaxReconnects = 1
  MaxTicks = 2
INVARIANTS
  ScrapesAgree
PROPERTIES
  KeepsUp
CHECK_DEADLOCK FALSE
