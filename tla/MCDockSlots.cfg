SPECIFICATION FairSpec
CONSTANTS
  NumSlots = 2
  Names <- MCNames
  NoName = NoName
  Good <- MCGood

INVARIANTS
  OneSlotPerPort
  ConnectedOpen
  ClosedOnce

PROPERTIES
  DockConnects
  DockDropped
  Stops

\* after cleanup() nothing is left to run
CHECK_DEADLOCK FALSE
