-------------------------- MODULE MCIncomingMessages --------------------------
(* Small instances of IncomingMessages for TLC.                            *)
EXTENDS IncomingMessages
\* Two destinations with one transfer each, so that a thread can pop the
\* other's transfer; two threads, so that each can hold the other's.
MCThreads == {"t1", "t2"}
MCDests == {"a", "b"}
MCMsgs == {"m1", "m2"}
MCMsgDest == [m \in MCMsgs |-> IF m = "m1" THEN "a" ELSE "b"]
=============================================================================
