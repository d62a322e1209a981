SPECIFICATION Spec
CONSTANTS
  Data = {d1, d2}
  NoData = NoData
  Garbage = Garbage
  Names <- MCNames
  MaxReports = 2
  MaxPosts = 2
  MaxSessions = 1

PROPERTY
  OnlyLatestWritten

CHECK_DEADLOCK FALSE
