SPECIFICATION FairSpec
CONSTANTS
  NumSlots = 2
  Names <- MCNames
  NoName = NoName
  Good <- MCGood

INVARIANT
  NoUseAfterFree

\* after cleanup() nothing is left to run
CHECK_DEADLOCK FALSE
