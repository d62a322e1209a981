SPECIFICATION FairSpec
CONSTANTS
  Scripts <- MCScripts
  MaxSends = 2

INVARIANTS
  NoLostWakeup
  Supervised
  KeepsReading

PROPERTIES
  OneWrite
  ImplementsSession
  HandshakeEnds
  ClosingEnds

\* a connection ends
CHECK_DEADLOCK FALSE
