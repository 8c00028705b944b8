SPECIFICATION Spec
CONSTANTS
  Retries = 1
  AllowFaulting = FALSE
  Patient = FALSE
  Faults = 0
  MaxQueue = 1
  MaxEvents = 1
INVARIANT
  FaultReported
