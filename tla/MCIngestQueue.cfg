SPECIFICATION Spec
CONSTANTS
  Requested <- AskedCapacities
  MaxReceived = 8
INVARIANTS
  Freshest
PROPERTIES
  AdmittedSurvives
CHECK_DEADLOCK FALSE
