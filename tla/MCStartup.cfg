SPECIFICATION Spec
CONSTANTS
  Files <- MCFiles
  Content <- MCContent
  Directories <- MCDirectories
  Available = {"core", "aux", "in", "pin"}
  AcpiReads <- MCAcpiReads
  AcpiDrives <- MCAcpiDrives
  Pullups = TRUE
  Netlink = TRUE
INVARIANTS
  TypeOK
  OutcomeIsOrderFree
  EnablesAreFound
CHECK_DEADLOCK FALSE
