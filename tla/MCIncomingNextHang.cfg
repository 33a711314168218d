CONSTANTS
  Threads <- MCThreads
  Dests <- MCDests
  Msgs <- MCMsgs
  MsgDest <- MCMsgDest
  NoMsg = NoMsg
  NoThread = NoThread
SPECIFICATION Spec
PROPERTY NextDestinationReturns
CHECK_DEADLOCK FALSE
