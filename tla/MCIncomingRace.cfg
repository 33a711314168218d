CONSTANTS
  Threads <- MCThreads
  Dests <- MCDests
  Msgs <- MCMsgs
  MsgDest <- MCMsgDest
  NoMsg = NoMsg
  NoThread = NoThread
SPECIFICATION Spec
PROPERTY FetchReturns
CHECK_DEADLOCK FALSE
