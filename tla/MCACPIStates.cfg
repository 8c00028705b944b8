SPECIFICATION Spec
CONSTANTS
  AutoG3 = TRUE
  Obedient = FALSE
  Patient = FALSE
  MaxQueue = 2
  MaxErrors = 0
INVARIANTS
  TypeOK
  ReportIsCurrent
