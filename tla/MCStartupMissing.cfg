SPECIFICATION Spec
CONSTANTS
  Files <- MCFiles
  Content <- MCContent
  Directories <- MCDirectories
  Available = {"core", "aux", "in", "pin"}
  AcpiReads <- MCAcpiReads
  AcpiDrives <- MCAcpiDrives
  Pullups = TRUE
  Netlink = FALSE
INVARIANT OnlyTheLivingListen
CHECK_DEADLOCK FALSE
