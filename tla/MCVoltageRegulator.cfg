SPECIFICATION FairSpec
CONSTANTS
  Retries = 1
  AllowFaulting = FALSE
  Patient = TRUE
  Faults = 1
  MaxQueue = 1
  MaxEvents = 1
INVARIANTS
  TypeOK
  SignalsFollowStatus
  SignalsShowRegulator
  FaultReported
PROPERTIES
  FaultSwitchesOff
  ComesToRest
