SPECIFICATION MCFairSpec
CONSTANTS
  Client = {c1, c2}
  NoClient = NoClient
  Network = {"reliable", "lossy", "duplicating"}
  Argument <- MCArgument
INVARIANTS TypeOK LoggedVerdictTrue Collected
PROPERTY EveryRunEnds
CHECK_DEADLOCK FALSE
