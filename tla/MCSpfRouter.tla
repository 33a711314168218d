----------------------------- MODULE MCSpfRouter -----------------------------
(* Small instances of SpfRouter for TLC.                                   *)
EXTENDS SpfRouter
\* One ordinary subject and "_peer"; a message on each of them and a second
\* one on the subject, so that one message can be routed while another is
\* held; three binding changes (bind, unbind, bind again).
MCKeys == {"a", "_peer"}
MCPeerKey == "_peer"
MCMsgs == {"m1", "m2", "m3"}
MCMsgKey == [m \in MCMsgs |-> IF m = "m3" THEN "_peer" ELSE "a"]
MCMaxChanges == 3
=============================================================================
