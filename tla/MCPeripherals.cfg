SPECIFICATION FairSpec
CONSTANTS
  Children = {"child"}
  MaxChanges = 1
  MaxStarts = 2
  LedActiveLow = 1
  LogActiveLow = 0
  MaxQueue = 1
INVARIANTS
  TypeOK
  PresenceIsCurrent
  LampShowsSignal
  MonitorIsCurrent
PROPERTY ReachesLamp
