SPECIFICATION FairSpec
CONSTANTS
  Client = {c1, c2}
  NoClient = NoClient
  Network = {"lossy", "reliable"}
  Argument <- MCTwo
INVARIANTS TypeOK LoggedVerdictTrue SequentialIdsAreKey SequentialSuccessIsLogged
PROPERTY EveryRunEnds
CHECK_DEADLOCK FALSE
