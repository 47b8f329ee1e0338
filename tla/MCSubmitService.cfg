SPECIFICATION Spec
CONSTANTS
  Conns = {c1}
  Proofs = {p1}
  Absent = absent
  Wanted = {4, 6}
  DefaultAttempts = 1
  U32 = 4
  Outputs <- ProviderOutputs
  Schedules <- LeaderSchedules
  HoldCap = 1
  Backlog = 2
  Outages = 1
INVARIANTS
  ErrorMeansNothingSent
PROPERTIES
  ActsOnOwnAnswer
  RequestAnswered
CHECK_DEADLOCK FALSE
