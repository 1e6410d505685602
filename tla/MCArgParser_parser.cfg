SPECIFICATION FairSpec
CONSTANTS
  Token <- MCToken
  Stack <- MCStack
  Number <- MCNumber
  Word <- MCWord
  MaxArgs = 4
  IdRange = 200
INVARIANTS TypeOK FollowsTheRules DoesThePromised
PROPERTY EveryLineEnds
CHECK_DEADLOCK FALSE
