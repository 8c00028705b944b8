SPECIFICATION FairSpec
CONSTANTS
  ActiveLow = TRUE
  GatedIdleHigh = FALSE
  GatedIdleLow = TRUE
  GatedOutputODLow = TRUE
  MaxQueue = 3
  MaxEdges = 2
INVARIANTS
  TypeOK
  GatedReadsIdle
  OpenReadsLine
  NeverBlocks

PROPERTY GateTakesEffect
