CONSTANTS
  Keys <- MCKeys
  PeerKey <- MCPeerKey
  Msgs <- MCMsgs
  MsgKey <- MCMsgKey
  MaxChanges <- MCMaxChanges
SPECIFICATION Spec
PROPERTY HeldRoutable
CHECK_DEADLOCK FALSE
