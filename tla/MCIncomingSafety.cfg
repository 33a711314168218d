CONSTANTS
  Threads <- MCThreads
  Dests <- MCDests
  Msgs <- MCMsgs
  MsgDest <- MCMsgDest
  NoMsg = NoMsg
  NoThread = NoThread
SPECIFICATION Spec
INVARIANT MessageConserved NoDoubleSettle
CHECK_DEADLOCK FALSE
