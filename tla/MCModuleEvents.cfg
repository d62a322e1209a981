SPECIFICATION Spec
CONSTANTS
  NumChannels <- MCNumChannels
  Names <- MCNames
  NoName = NoName
  Torn = Torn
  Clients = {c1}
  NoClient = NoClient
  Unknown = Unknown
  MaxQueue = 1

INVARIANTS
  EventsConverge
  ViewCurrent
  UpdatesAfterConnect
  SendsToOpenClient
