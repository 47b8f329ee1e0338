SPECIFICATION Spec
CONSTANTS
  Callers = {c1, c2}
  Methods = {"sendBundle", "tipAccounts", "tipFloor"}
  Interval = 2
  Regions = 3
  MaxAttempts = 2
INVARIANTS
  ErrorIsHonest
PROPERTIES
  Paced
  CallReturns

