CONSTANTS
  Keys <- MCKeys
  PeerKey <- MCPeerKey
  Msgs <- MCMsgs
  MsgKey <- MCMsgKey
  MaxChanges <- MCMaxChanges
SPECIFICATION Spec
PROPERTY HeldRetriedAfterChange
CHECK_DEADLOCK FALSE
