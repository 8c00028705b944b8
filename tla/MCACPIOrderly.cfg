SPECIFICATION FairSpec
CONSTANTS
  AutoG3 = FALSE
  Obedient = TRUE
  Patient = TRUE
  MaxQueue = 2
  MaxErrors = 1
INVARIANTS
  TableHolds
  CarriedOut
PROPERTIES
  Sequenced
  PowerCycleReturns
  ErrorPowersDown
