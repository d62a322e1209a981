SPECIFICATION FairSpec
CONSTANTS
  Data = {d1, d2}
  NoData = NoData
  Garbage = Garbage
  Names <- MCNames
  MaxReports = 2
  MaxPosts = 3
  MaxSessions = 2

INVARIANTS
  SessionIsolation
  InputModuleNotResent

PROPERTIES
  CommandMailbox
  UpdateMailbox
  UpdatesConsidered
  CommandsExamined
  TouchSkipsNothing

\* front() of an empty queue may crash the daemon
CHECK_DEADLOCK FALSE
