SPECIFICATION FairSpec
CONSTANTS
  Signals <- MCSignals
  Block <- MCBlock
  Stable <- MCStable
  Delay = 2
  RingSize = 3
INVARIANTS
  TypeOK
  StableInputIsRead
  NothingLost
PROPERTIES
  NeverEarly
  OutputFollows
