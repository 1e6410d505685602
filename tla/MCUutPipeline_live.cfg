SPECIFICATION FairSpec
CONSTANTS
  Datagram <- MCJam
  NoMsg = NoMsg
  MailboxSize = 1
  NetbufPool = 4
  InMsgQueueSize = 1
  TestQueueSize = 1
  OutMsgQueueSize = 1
INVARIANTS NetbufsSuffice
PROPERTY EveryRequestConcluded
CHECK_DEADLOCK FALSE
