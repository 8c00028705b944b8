SPECIFICATION Spec
CONSTANTS
  AutoG3 = FALSE
  Obedient = TRUE
  Patient = FALSE
  MaxQueue = 3
  MaxErrors = 0
INVARIANT
  TableHolds
