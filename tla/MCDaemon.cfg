CONSTANTS
  NotifyInterval = 1
  MaxAddresses = 1
  RequestLines = 2
  Timeout = 1
  MaxLines = 2
  Clients = {c1, c2}
  Discover = TRUE
  Daemonize = TRUE
  MaxStops = 2
SPECIFICATION Spec
INVARIANTS Registered FirstStopIsClean 
PROPERTIES OwnDeadline Stops CleansUp
