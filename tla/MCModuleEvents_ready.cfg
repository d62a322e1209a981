SPECIFICATION Spec
CONSTANTS
  NumChannels = 1
  Names <- MCNames
  NoName = NoName
  Torn = Torn
  Clients = {c1}
  NoClient = NoClient
  Unknown = Unknown
  MaxQueue = 1

PROPERTIES
  UpdateOnlyWhenReady
