SPECIFICATION Spec
CONSTANTS
  Client = {c1, c2}
  NoClient = NoClient
  Network = {"reliable"}
  Argument <- MCOne
INVARIANT SuccessIsLogged
CHECK_DEADLOCK FALSE
