SPECIFICATION Spec
CONSTANTS
  Token <- MCExample
  Stack <- MCExampleStack
  Number <- MCNoNumber
  Word <- MCExampleWord
  MaxArgs = 3
  IdRange = 200
INVARIANT OwnMessage
CHECK_DEADLOCK FALSE
