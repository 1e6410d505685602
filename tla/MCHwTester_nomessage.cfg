SPECIFICATION FairSpec
CONSTANTS
  Client = {c1}
  NoClient = NoClient
  Network = {"reliable"}
  Argument <- MCNoMessage
PROPERTY EveryAllowedRunEnds
CHECK_DEADLOCK FALSE
