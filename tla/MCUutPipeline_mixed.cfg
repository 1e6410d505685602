SPECIFICATION Spec
CONSTANTS
  Datagram <- MCMixed
  NoMsg = NoMsg
  MailboxSize = 1
  NetbufPool = 2
  InMsgQueueSize = 1
  TestQueueSize = 1
  OutMsgQueueSize = 1
INVARIANTS TypeOK FlowConserved VerdictEarned NetbufsBalanced
PROPERTY ImplementsService
CHECK_DEADLOCK FALSE
