SPECIFICATION FairSpec
CONSTANTS
  sender = sender
  receiver = receiver
  other = other
  a = a
  b = b
  Task = {sender, receiver, other}
  NoTask = NoTask
  Item = {a, b}
  Uses <- MCUses
  Length = 2
  MaxTicks = 1
  MaxPended = 1
INVARIANTS TypeOK NoLostWakeup ListsConsistent
PROPERTIES ImplementsFifo TimedCallsReturn NobodyWaitsForNothing
CHECK_DEADLOCK FALSE
