------------------------- MODULE SessionStateProofs -------------------------
(***************************************************************************)
(* Proofs, for every value of MaxCmd, MaxHolders and MaxDetach, of the     *)
(* type invariant of SessionState and of two invariants of the lock        *)
(* protocol between the IO thread and the workers.                         *)
(***************************************************************************)
EXTENDS SessionState, TLAPS

\* The type invariant strengthened: a message with async holders outstanding
\* has been received, so scheduleMsgCompletion reads a real command's
\* requiresAccept and requiresSync.
TypeInv ==
  /\ TypeOK
  /\ \A id \in Ids : holders[id] # 0 => id \in 1..Len(cmds)

\* The types of the constants.
LEMMA ConstantTypes == MaxCmd \in Nat /\ MaxHolders \in Nat /\ MaxDetach \in Nat
BY SessionAssumption

\* The constructor's state is well typed.
LEMMA TypeInvInit == Init => TypeInv
<1> SUFFICES ASSUME Init PROVE TypeInv
  OBVIOUS
<1>1. cmds \in Seq(Cmd) /\ Len(cmds) <= MaxCmd
  BY ConstantTypes DEF Init
<1>2. holders \in [Ids -> 0..MaxHolders]
  BY ConstantTypes DEF Init
<1>3. pendingSyncs \in Seq(Ids) /\ completedMsgs \in Seq(MessageInfo)
  BY DEF Init
<1>4. \A id \in Ids : holders[id] # 0 => id \in 1..Len(cmds)
  BY DEF Init
<1>5. /\ incomplete \subseteq Ids /\ accepted \subseteq Ids
      /\ sentCompleted \subseteq Ids /\ sentAccepted \subseteq Ids
      /\ flushed \subseteq Ids /\ pendingMsgs \subseteq Ids
  BY DEF Init
<1>6. /\ ioRequests \in Nat /\ ccPos \in Nat /\ ioPc \in IoPcs
      /\ detaches \in 0..MaxDetach
  BY ConstantTypes DEF Init, IoPcs
<1>7. /\ rcvSync \in BOOLEAN /\ callSend \in BOOLEAN /\ complAttached \in BOOLEAN
      /\ complSession \in BOOLEAN /\ handler \in BOOLEAN /\ destroyed \in BOOLEAN
  BY DEF Init
<1>. QED
  BY <1>1, <1>2, <1>3, <1>4, <1>5, <1>6, <1>7 DEF TypeInv, TypeOK

\* receiverRecord of a command when the IO thread is ready to receive:
\* the command sequence stays typed and within MaxCmd, and the new id is
\* in range.
LEMMA RecordType ==
  ASSUME TypeInv, IoReady, NEW c \in Cmd, Record(c)
  PROVE  /\ cmds' \in Seq(Cmd)
         /\ Len(cmds') = Len(cmds) + 1
         /\ Len(cmds') <= MaxCmd
         /\ NextId \in Ids
<1>1. cmds \in Seq(Cmd) /\ Len(cmds) < MaxCmd
  BY DEF TypeInv, TypeOK, IoReady
<1>2. cmds' = Append(cmds, c)
  BY DEF Record
<1>. QED
  BY <1>1, <1>2, ConstantTypes DEF NextId, Ids

\* The ids received so far are in range.
LEMMA ReceivedType == TypeOK => Received \subseteq Ids
<1> SUFFICES ASSUME TypeOK PROVE Received \subseteq Ids
  OBVIOUS
<1>1. cmds \in Seq(Cmd) /\ Len(cmds) <= MaxCmd
  BY DEF TypeOK
<1>2. Received = 1..Len(cmds) /\ Len(cmds) \in Nat
  BY <1>1 DEF Received
<1>. QED
  BY <1>1, <1>2, ConstantTypes DEF Ids

\* sendAcceptAndCompletion keeps the reported sets in range.
LEMMA SendType ==
  ASSUME TypeOK, NEW rcvd \in SUBSET Ids, NEW inc, SendAcceptAndCompletion(rcvd, inc)
  PROVE  accepted' \subseteq Ids /\ sentAccepted' \subseteq Ids /\ sentCompleted' \subseteq Ids
BY DEF TypeOK, SendAcceptAndCompletion

\* The new command's record is a Cmd.
LEMMA CmdRecord ==
  ASSUME NEW k \in Kinds, NEW s \in BOOLEAN, NEW a \in BOOLEAN
  PROVE  [kind |-> k, sync |-> s, accept |-> a] \in Cmd
BY DEF Cmd

\* Every step of the IO thread or of a worker keeps the types.
LEMMA TypeInvNext == TypeInv /\ [Next]_vars => TypeInv'
<1>1. ASSUME TypeInv, NEW s \in BOOLEAN, NEW a \in BOOLEAN, HandleTransferSync(s, a)
      PROVE TypeInv'
  <2>1. /\ cmds' \in Seq(Cmd) /\ Len(cmds') = Len(cmds) + 1 /\ Len(cmds') <= MaxCmd
        /\ NextId \in Ids
    BY <1>1, RecordType, CmdRecord DEF HandleTransferSync, Kinds
  <2>2. incomplete' \subseteq Ids /\ accepted' \subseteq Ids
    BY <1>1, <2>1 DEF HandleTransferSync, CompleteRcvMsg, TypeInv, TypeOK
  <2>3. \A id \in Ids : holders'[id] # 0 => id \in 1..Len(cmds')
    BY <1>1, <2>1 DEF HandleTransferSync, TypeInv
  <2>. QED
    BY <1>1, <2>1, <2>2, <2>3, Zenon
       DEF HandleTransferSync, CompleteRcvMsg, TypeInv, TypeOK, IoPcs, complVars

<1>2. ASSUME TypeInv, NEW s \in BOOLEAN, NEW a \in BOOLEAN, HandleTransferAsync(s, a)
      PROVE TypeInv'
  <2>1. /\ cmds' \in Seq(Cmd) /\ Len(cmds') = Len(cmds) + 1 /\ Len(cmds') <= MaxCmd
        /\ NextId \in Ids
    BY <1>2, RecordType, CmdRecord DEF HandleTransferAsync, AddPendingMessage, Kinds
  <2>2. incomplete' \subseteq Ids
    BY <1>2, <2>1 DEF HandleTransferAsync, AddPendingMessage, TypeInv, TypeOK
  <2>3. /\ holders' \in [Ids -> 0..MaxHolders]
        /\ \A id \in Ids : holders'[id] # 0 => id \in 1..Len(cmds')
    <3>1. PICK k \in 1..MaxHolders : holders' = [holders EXCEPT ![NextId] = k]
      BY <1>2, Zenon DEF HandleTransferAsync, AddPendingMessage
    <3>2. holders \in [Ids -> 0..MaxHolders]
          /\ \A id \in Ids : holders[id] # 0 => id \in 1..Len(cmds)
      BY <1>2 DEF TypeInv, TypeOK
    <3>. QED
      BY <2>1, <3>1, <3>2, ConstantTypes DEF NextId
  <2>4. flushed' \subseteq Ids /\ pendingMsgs' \subseteq Ids
    BY <1>2, <2>1 DEF HandleTransferAsync, AddPendingMessage, TypeInv, TypeOK
  <2>. QED
    BY <1>2, <2>1, <2>2, <2>3, <2>4, Zenon DEF HandleTransferAsync, AddPendingMessage, TypeInv, TypeOK
<1>3. ASSUME TypeInv, NEW s \in BOOLEAN, HandleCommand(s) PROVE TypeInv'
  <2>1. /\ cmds' \in Seq(Cmd) /\ Len(cmds') = Len(cmds) + 1 /\ Len(cmds') <= MaxCmd
        /\ NextId \in Ids
    BY <1>3, RecordType, CmdRecord DEF HandleCommand, Kinds
  <2>2. Received \cup {NextId} \in SUBSET Ids
    BY <1>3, <2>1, ReceivedType DEF TypeInv
  <2>3. accepted' \subseteq Ids /\ sentAccepted' \subseteq Ids /\ sentCompleted' \subseteq Ids
    <3>1. CASE s
      BY <1>3, <2>2, <3>1, SendType, Zenon DEF HandleCommand, TypeInv
    <3>2. CASE ~s
      BY <1>3, <3>2, Zenon DEF HandleCommand, TypeInv, TypeOK
    <3>. QED
      BY <3>1, <3>2
  <2>4. \A id \in Ids : holders'[id] # 0 => id \in 1..Len(cmds')
    BY <1>3, <2>1 DEF HandleCommand, TypeInv
  <2>. QED
    BY <1>3, <2>1, <2>3, <2>4, Zenon DEF HandleCommand, TypeInv, TypeOK, complVars
<1>4. ASSUME TypeInv, NEW s \in BOOLEAN, HandleExecutionSync(s) PROVE TypeInv'
  <2>1. /\ cmds' \in Seq(Cmd) /\ Len(cmds') = Len(cmds) + 1 /\ Len(cmds') <= MaxCmd
        /\ NextId \in Ids
    BY <1>4, RecordType, CmdRecord DEF HandleExecutionSync, FlushPendingMessages, Kinds
  <2>2. \A id \in Ids : holders'[id] # 0 => id \in 1..Len(cmds')
    BY <1>4, <2>1 DEF HandleExecutionSync, FlushPendingMessages, TypeInv
  <2>3. CASE SyncMustWait(incomplete \cup {NextId}, NextId)
    <3>0. /\ incomplete' = incomplete \cup {NextId}
          /\ pendingSyncs' = Append(pendingSyncs, NextId)
          /\ flushed' = flushed \cup pendingMsgs /\ pendingMsgs' = {}
      BY <1>4, <2>3, Zenon DEF HandleExecutionSync, FlushPendingMessages
    <3>1. /\ incomplete' \subseteq Ids /\ pendingSyncs' \in Seq(Ids)
          /\ flushed' \subseteq Ids /\ pendingMsgs' \subseteq Ids
      BY <1>4, <2>1, <3>0 DEF TypeInv, TypeOK
    <3>. QED
      BY <1>4, <2>1, <2>2, <2>3, <3>1, Zenon DEF HandleExecutionSync, FlushPendingMessages, TypeInv, TypeOK
  <2>4. CASE ~SyncMustWait(incomplete \cup {NextId}, NextId)
    <3>1. Received \cup {NextId} \in SUBSET Ids
      BY <1>4, <2>1, ReceivedType DEF TypeInv
    <3>2. accepted' \subseteq Ids /\ sentAccepted' \subseteq Ids /\ sentCompleted' \subseteq Ids
      <4>1. CASE s
        BY <1>4, <2>4, <3>1, <4>1, SendType, Zenon DEF HandleExecutionSync, FlushPendingMessages, TypeInv
      <4>2. CASE ~s
        BY <1>4, <2>4, <4>2, Zenon DEF HandleExecutionSync, FlushPendingMessages, TypeInv, TypeOK
      <4>. QED
        BY <4>1, <4>2
    <3>. QED
      BY <1>4, <2>1, <2>2, <2>4, <3>2, Zenon DEF HandleExecutionSync, FlushPendingMessages, TypeInv, TypeOK
  <2>. QED
    BY <2>3, <2>4
<1>5. ASSUME TypeInv, DrainStep PROVE TypeInv'
  <2>1. incomplete' \subseteq Ids /\ pendingSyncs' \in Seq(Ids)
    BY <1>5 DEF DrainStep, DrainReady, TypeInv, TypeOK
  <2>. QED
    BY <1>5, <2>1, Zenon DEF DrainStep, TypeInv, TypeOK, complVars
<1>6. ASSUME TypeInv, DrainDone PROVE TypeInv'
  <2>1. accepted' \subseteq Ids /\ sentAccepted' \subseteq Ids /\ sentCompleted' \subseteq Ids
    <3>1. CASE rcvSync \/ callSend
      BY <1>6, <3>1, SendType, ReceivedType, Zenon DEF DrainDone, TypeInv
    <3>2. CASE ~(rcvSync \/ callSend)
      BY <1>6, <3>2, Zenon DEF DrainDone, TypeInv, TypeOK
    <3>. QED
      BY <3>1, <3>2, ConstantTypes
  <2>. QED
    BY <1>6, <2>1, Zenon DEF DrainDone, TypeInv, TypeOK, IoPcs, complVars
<1>7. ASSUME TypeInv, CompleteCommandsBegin PROVE TypeInv'
  <2>1. ioRequests' \in Nat
    BY <1>7 DEF CompleteCommandsBegin, TypeInv, TypeOK
  <2>2. ccPos' \in Nat /\ completedMsgs' \in Seq(MessageInfo)
    <3>1. CASE complSession /\ handler
      <4>1. ccPos' = 1 /\ completedMsgs' = completedMsgs
        BY <1>7, <3>1, Zenon DEF CompleteCommandsBegin
      <4>. QED
        BY <1>7, <4>1 DEF TypeInv, TypeOK
    <3>2. CASE ~(complSession /\ handler)
      <4>1. completedMsgs' = <<>> /\ ccPos' = ccPos
        BY <1>7, <3>2, Zenon DEF CompleteCommandsBegin
      <4>. QED
        BY <1>7, <4>1 DEF TypeInv, TypeOK
    <3>. QED
      BY <3>1, <3>2, ConstantTypes
  <2>. QED
    BY <1>7, <2>1, <2>2, Zenon DEF CompleteCommandsBegin, TypeInv, TypeOK, sessionVars
<1>8. ASSUME TypeInv, CompleteCommandsStep PROVE TypeInv'
  <2>. DEFINE m == completedMsgs[ccPos]
  <2>1. m \in MessageInfo
    BY <1>8 DEF CompleteCommandsStep, TypeInv, TypeOK
  <2>2. m.cmd \in Ids /\ m.requiresAccept \in BOOLEAN /\ m.requiresSync \in BOOLEAN
    BY <2>1 DEF MessageInfo
  <2>3. /\ incomplete' = incomplete \ {m.cmd}
        /\ accepted' = IF m.requiresAccept THEN accepted \cup {m.cmd} ELSE accepted
        /\ rcvSync' = m.requiresSync /\ callSend' = FALSE /\ ioPc' = "draining"
        /\ ccPos' = ccPos + 1
    BY <1>8, Zenon DEF CompleteCommandsStep, CompleteRcvMsg
  <2>4. /\ ccPos' \in Nat /\ incomplete' \subseteq Ids /\ accepted' \subseteq Ids
    BY <2>2, <2>3, <1>8 DEF TypeInv, TypeOK
  <2>. QED
    BY <1>8, <2>2, <2>3, <2>4, Zenon
       DEF CompleteCommandsStep, CompleteRcvMsg, TypeInv, TypeOK, IoPcs
<1>9. ASSUME TypeInv, CompleteCommandsEnd PROVE TypeInv'
  <2>1. completedMsgs' \in Seq(MessageInfo) /\ ccPos' \in Nat
    BY <1>9 DEF CompleteCommandsEnd
  <2>. QED
    BY <1>9, <2>1, Zenon DEF CompleteCommandsEnd, TypeInv, TypeOK, sessionVars
<1>10. ASSUME TypeInv, DetachCompleter PROVE TypeInv'
  <2>1. detaches' \in 0..MaxDetach
    BY <1>10, ConstantTypes DEF DetachCompleter, Detached, TypeInv, TypeOK
  <2>. QED
    BY <1>10, <2>1, Zenon DEF DetachCompleter, Detached, TypeInv, TypeOK, IoPcs, sessionVars
<1>11. ASSUME TypeInv, DetachHandler PROVE TypeInv'
  BY <1>11, Zenon DEF DetachHandler, TypeInv, TypeOK, IoPcs, sessionVars, complVars
<1>12. ASSUME TypeInv, AttachHandler PROVE TypeInv'
  BY <1>12, Zenon DEF AttachHandler, TypeInv, TypeOK, IoPcs, sessionVars, complVars
<1>13. ASSUME TypeInv, AttachCompleter PROVE TypeInv'
  BY <1>13, Zenon DEF AttachCompleter, TypeInv, TypeOK, IoPcs, sessionVars
<1>14. ASSUME TypeInv, Destroy PROVE TypeInv'
  BY <1>14, Zenon DEF Destroy, Cancel, TypeInv, TypeOK, sessionVars
<1>15. ASSUME TypeInv, NEW id \in Ids, HolderRelease(id) PROVE TypeInv'
  <2>1. /\ holders' \in [Ids -> 0..MaxHolders]
        /\ \A j \in Ids : holders'[j] # 0 => j \in 1..Len(cmds')
    <3>1. holders' = [holders EXCEPT ![id] = @ - 1] /\ holders[id] > 1 /\ cmds' = cmds
      BY <1>15, Zenon DEF HolderRelease
    <3>2. holders \in [Ids -> 0..MaxHolders]
          /\ \A j \in Ids : holders[j] # 0 => j \in 1..Len(cmds)
      BY <1>15 DEF TypeInv, TypeOK
    <3>. QED
      BY <3>1, <3>2, ConstantTypes
  <2>. QED
    BY <1>15, <2>1, Zenon DEF HolderRelease, TypeInv, TypeOK, sessionVars, complVars
<1>16. ASSUME TypeInv, NEW id \in Ids, HolderComplete(id) PROVE TypeInv'
  <2>1. cmds[id] \in Cmd
    BY <1>16 DEF HolderComplete, DeletePendingMessage, TypeInv, TypeOK
  <2>2. [cmd |-> id, requiresAccept |-> cmds[id].accept, requiresSync |-> cmds[id].sync]
          \in MessageInfo
    BY <2>1 DEF Cmd, MessageInfo
  <2>3. completedMsgs' \in Seq(MessageInfo) /\ ioRequests' \in Nat
    <3>1. CASE complSession /\ complAttached
      <4>1. /\ completedMsgs' = Append(completedMsgs,
                 [cmd |-> id, requiresAccept |-> cmds[id].accept, requiresSync |-> cmds[id].sync])
            /\ ioRequests' \in {ioRequests, ioRequests + 1}
        BY <1>16, <3>1, Zenon DEF HolderComplete, DeletePendingMessage, ScheduleMsgCompletion
      <4>. QED
        BY <1>16, <2>2, <4>1 DEF TypeInv, TypeOK
    <3>2. CASE ~(complSession /\ complAttached)
      BY <1>16, <3>2, Zenon DEF HolderComplete, DeletePendingMessage, ScheduleMsgCompletion, TypeInv, TypeOK
    <3>. QED
      BY <3>1, <3>2
  <2>4. /\ holders' \in [Ids -> 0..MaxHolders] /\ pendingMsgs' \subseteq Ids
        /\ \A j \in Ids : holders'[j] # 0 => j \in 1..Len(cmds')
    <3>1. holders' = [holders EXCEPT ![id] = 0] /\ pendingMsgs' = pendingMsgs \ {id}
          /\ cmds' = cmds
      BY <1>16, Zenon DEF HolderComplete, DeletePendingMessage
    <3>2. /\ holders \in [Ids -> 0..MaxHolders] /\ pendingMsgs \subseteq Ids
          /\ \A j \in Ids : holders[j] # 0 => j \in 1..Len(cmds)
      BY <1>16 DEF TypeInv, TypeOK
    <3>. QED
      BY <3>1, <3>2, ConstantTypes
  <2>. QED
    BY <1>16, <2>3, <2>4, Zenon DEF HolderComplete, DeletePendingMessage, TypeInv, TypeOK, sessionVars
<1>17. ASSUME TypeInv, UNCHANGED vars PROVE TypeInv'
  BY <1>17, Zenon DEF vars, TypeInv, TypeOK, sessionVars, complVars
<1>. QED
  BY <1>1, <1>2, <1>3, <1>4, <1>5, <1>6, <1>7, <1>8, <1>9, <1>10, <1>11, <1>12,
     <1>13, <1>14, <1>15, <1>16, <1>17 DEF Next, IoStep, WorkerStep

\* Type correctness of the whole session pipeline.
THEOREM TypeCorrect == Spec => []TypeOK
<1>1. TypeInv => TypeOK
  BY DEF TypeInv
<1>. QED
  BY <1>1, TypeInvInit, TypeInvNext, PTL DEF Spec

-----------------------------------------------------------------------------
(* The completer's view of the attachment.                                 *)

\* CompleterSeesHandler strengthened with where the IO thread is inside
\* detach() and attach(): between their two steps the completer is already
\* detached, or the handler is already set.
LinkInv ==
  /\ CompleterSeesHandler
  /\ ioPc = "detaching" => ~complAttached
  /\ ioPc = "attaching" => handler

\* The four variables LinkInv is about.
linkVars == <<complSession, complAttached, handler, ioPc>>

\* A step that leaves the attachment and the IO thread's position alone.
LEMMA LinkUnchanged ==
  ASSUME LinkInv, UNCHANGED linkVars PROVE LinkInv'
BY Zenon DEF LinkInv, CompleterSeesHandler, linkVars

\* A step that enters the drain loop or returns to idle, touching nothing else
\* of the attachment.
LEMMA LinkIoMove ==
  ASSUME LinkInv, UNCHANGED <<complSession, complAttached, handler>>,
         ioPc' \in {"draining", "idle"}
  PROVE  LinkInv'
BY Zenon DEF LinkInv, CompleterSeesHandler

\* The constructor attaches both the handler and the completer.
LEMMA LinkInvInit == Init => LinkInv
BY Zenon DEF Init, LinkInv, CompleterSeesHandler

\* No step of the IO thread or of a worker breaks LinkInv.
LEMMA LinkInvNext == LinkInv /\ [Next]_vars => LinkInv'
<1> SUFFICES ASSUME LinkInv, [Next]_vars PROVE LinkInv'
  OBVIOUS
<1>1. CASE \E s, a \in BOOLEAN : HandleTransferSync(s, a)
  BY <1>1, LinkIoMove, Zenon DEF HandleTransferSync, CompleteRcvMsg, complVars
<1>2. CASE \E s, a \in BOOLEAN : HandleTransferAsync(s, a)
  BY <1>2, LinkUnchanged, Zenon DEF HandleTransferAsync, AddPendingMessage, linkVars
<1>3. CASE \E s \in BOOLEAN : HandleCommand(s)
  BY <1>3, LinkUnchanged, Zenon DEF HandleCommand, linkVars, complVars
<1>4. CASE \E s \in BOOLEAN : HandleExecutionSync(s)
  BY <1>4, LinkUnchanged, Zenon DEF HandleExecutionSync, FlushPendingMessages, linkVars
<1>5. CASE DrainStep
  BY <1>5, LinkUnchanged, Zenon DEF DrainStep, linkVars, complVars
<1>6. CASE DrainDone
  BY <1>6, LinkIoMove, Zenon DEF DrainDone, complVars
<1>7. CASE CompleteCommandsBegin
  BY <1>7, LinkUnchanged, Zenon DEF CompleteCommandsBegin, linkVars
<1>8. CASE CompleteCommandsStep
  BY <1>8, LinkIoMove, Zenon DEF CompleteCommandsStep, CompleteRcvMsg
<1>9. CASE CompleteCommandsEnd
  BY <1>9, LinkUnchanged, Zenon DEF CompleteCommandsEnd, linkVars
<1>10. CASE DetachCompleter
  BY <1>10, Zenon DEF DetachCompleter, Detached, LinkInv, CompleterSeesHandler
<1>11. CASE DetachHandler
  BY <1>11, Zenon DEF DetachHandler, LinkInv, CompleterSeesHandler, complVars
<1>12. CASE AttachHandler
  BY <1>12, Zenon DEF AttachHandler, LinkInv, CompleterSeesHandler, complVars
<1>13. CASE AttachCompleter
  BY <1>13, Zenon DEF AttachCompleter, LinkInv, CompleterSeesHandler
<1>14. CASE Destroy
  BY <1>14, Zenon DEF Destroy, Cancel, LinkInv, CompleterSeesHandler
<1>15. CASE WorkerStep
  BY <1>15, LinkUnchanged, Zenon DEF WorkerStep, HolderRelease, HolderComplete, DeletePendingMessage, linkVars,
     complVars
<1>16. CASE UNCHANGED vars
  BY <1>16, LinkUnchanged, Zenon DEF vars, linkVars, complVars
<1>. QED
  BY <1>1, <1>2, <1>3, <1>4, <1>5, <1>6, <1>7, <1>8, <1>9, <1>10, <1>11, <1>12,
     <1>13, <1>14, <1>15, <1>16 DEF Next, IoStep

\* detach() clears the completer's isAttached before handler, and attach()
\* sets handler before isAttached: a worker that finds the completer attached
\* and the session pointer set (scheduleMsgCompletion) always finds a handler
\* behind session->getConnection(), for every bound.
THEOREM CompleterSeesHandlerHolds == Spec => []CompleterSeesHandler
<1>1. LinkInv => CompleterSeesHandler
  BY DEF LinkInv
<1>. QED
  BY <1>1, LinkInvInit, LinkInvNext, PTL DEF Spec

-----------------------------------------------------------------------------
(* Wake-ups of the IO thread for queued completions.                       *)

\* The variables NoStrandedCompletion is about.
wakeVars == <<completedMsgs, ioRequests, ccPos>>

\* No step of the IO thread or of a worker leaves a queued completion record
\* without a completeCommands callback queued or running.
LEMMA NoStrandedNext ==
  TypeInv /\ NoStrandedCompletion /\ [Next]_vars => NoStrandedCompletion'
<1> SUFFICES ASSUME TypeInv, NoStrandedCompletion, [Next]_vars
             PROVE  NoStrandedCompletion'
  OBVIOUS
<1>0. ASSUME UNCHANGED wakeVars PROVE NoStrandedCompletion'
  BY <1>0 DEF NoStrandedCompletion, wakeVars
<1>1. CASE CompleteCommandsBegin
  <2>1. ioRequests \in Nat /\ ccPos \in Nat
    BY DEF TypeInv, TypeOK
  <2>2. CASE complSession /\ handler
    <3>1. ccPos' = 1
      BY <1>1, <2>2, Zenon DEF CompleteCommandsBegin
    <3>. QED
      BY <3>1 DEF NoStrandedCompletion
  <2>3. CASE ~(complSession /\ handler)
    <3>1. completedMsgs' = <<>>
      BY <1>1, <2>3, Zenon DEF CompleteCommandsBegin
    <3>. QED
      BY <3>1 DEF NoStrandedCompletion
  <2>. QED
    BY <2>2, <2>3
<1>2. CASE CompleteCommandsStep
  <2>1. ccPos' = ccPos + 1 /\ ccPos \in Nat
    BY <1>2 DEF CompleteCommandsStep, TypeInv, TypeOK
  <2>. QED
    BY <2>1 DEF NoStrandedCompletion
<1>3. CASE CompleteCommandsEnd
  BY <1>3 DEF CompleteCommandsEnd, NoStrandedCompletion
<1>4. ASSUME NEW id \in Ids, HolderComplete(id) PROVE NoStrandedCompletion'
  <2>1. CASE complSession /\ complAttached
    <3>. DEFINE rec == [cmd |-> id, requiresAccept |-> cmds[id].accept,
                        requiresSync |-> cmds[id].sync]
    <3>1. /\ completedMsgs' = Append(completedMsgs, rec)
          /\ ioRequests' = IF Len(completedMsgs') = 1 THEN ioRequests + 1 ELSE ioRequests
          /\ ccPos' = ccPos
      BY <1>4, <2>1, Zenon DEF HolderComplete, DeletePendingMessage, ScheduleMsgCompletion
    <3>2. completedMsgs \in Seq(MessageInfo) /\ ioRequests \in Nat /\ ccPos \in Nat
      BY DEF TypeInv, TypeOK
    <3>3. Len(completedMsgs') # 1 => completedMsgs # <<>>
      BY <3>1, <3>2
    <3>. QED
      BY <3>1, <3>2, <3>3 DEF NoStrandedCompletion
  <2>2. CASE ~(complSession /\ complAttached)
    BY <1>4, <2>2, <1>0, Zenon DEF HolderComplete, DeletePendingMessage, ScheduleMsgCompletion, wakeVars
  <2>. QED
    BY <2>1, <2>2
<1>5. CASE \/ \E s, a \in BOOLEAN : HandleTransferSync(s, a) \/ HandleTransferAsync(s, a)
           \/ \E s \in BOOLEAN : HandleCommand(s) \/ HandleExecutionSync(s)
           \/ DrainStep \/ DrainDone
  BY <1>5, <1>0, Zenon
     DEF HandleTransferSync, HandleTransferAsync, AddPendingMessage, HandleCommand, HandleExecutionSync, FlushPendingMessages,
         DrainStep, DrainDone, CompleteRcvMsg, complVars, wakeVars
<1>6. CASE \/ DetachCompleter \/ DetachHandler \/ AttachHandler \/ AttachCompleter
           \/ Destroy
  BY <1>6, <1>0, Zenon
     DEF DetachCompleter, Detached, DetachHandler, AttachHandler, AttachCompleter, Destroy, Cancel,
         complVars, wakeVars
<1>7. ASSUME NEW id \in Ids, HolderRelease(id) PROVE NoStrandedCompletion'
  BY <1>7, <1>0, Zenon DEF HolderRelease, complVars, wakeVars
<1>8. CASE UNCHANGED vars
  BY <1>8, <1>0, Zenon DEF vars, complVars, wakeVars
<1>. QED
  BY <1>1, <1>2, <1>3, <1>4, <1>5, <1>6, <1>7, <1>8 DEF Next, IoStep, WorkerStep

\* scheduleMsgCompletion asks for an IO callback exactly when it queues the
\* first record of a batch, and completeCommands clears the batch it walks:
\* for every bound, a queued completion record always has a completeCommands
\* callback queued or running to deliver it.
THEOREM NoStrandedCompletionHolds == Spec => []NoStrandedCompletion
<1>1. Init => TypeInv /\ NoStrandedCompletion
  BY TypeInvInit DEF Init, NoStrandedCompletion
<1>2. TypeInv /\ NoStrandedCompletion /\ [Next]_vars
        => TypeInv' /\ NoStrandedCompletion'
  BY TypeInvNext, NoStrandedNext
<1>. QED
  BY <1>1, <1>2, PTL DEF Spec

-----------------------------------------------------------------------------
(* Nothing touches the session after ~SessionState.                        *)

\* The strengthening of NoUseAfterDestroy: ~SessionState runs only with the
\* IO thread between calls and no completeCommands walk in progress, cancel()
\* clears the completer's session pointer for good, and nothing afterwards
\* starts a walk or an IO call.
DestroyInv == destroyed => ~complSession /\ ioPc = "idle" /\ ccPos = 0

\* What every step must show: DestroyInv is kept and, once destroyed, the
\* session's bookkeeping is left alone.
DestroyGoal == DestroyInv' /\ (destroyed => UNCHANGED sessionVars)

LEMMA DestroyInvInit == Init => DestroyInv
BY DEF Init, DestroyInv

\* A step of a live session, or one that leaves the session and destroyed
\* alone and does not enter a call or a walk.
LEMMA DestroyLive ==
  ASSUME ~destroyed, destroyed' = destroyed PROVE DestroyGoal
BY DEF DestroyGoal, DestroyInv

LEMMA DestroyNext == DestroyInv /\ [Next]_vars => DestroyGoal
<1> SUFFICES ASSUME DestroyInv, [Next]_vars PROVE DestroyGoal
  OBVIOUS
<1>1. CASE \E s, a \in BOOLEAN : HandleTransferSync(s, a)
  BY <1>1, DestroyLive DEF HandleTransferSync, IoReady
<1>2. CASE \E s, a \in BOOLEAN : HandleTransferAsync(s, a)
  BY <1>2, DestroyLive DEF HandleTransferAsync, IoReady
<1>3. CASE \E s \in BOOLEAN : HandleCommand(s)
  BY <1>3, DestroyLive DEF HandleCommand, IoReady
<1>4. CASE \E s \in BOOLEAN : HandleExecutionSync(s)
  BY <1>4, DestroyLive DEF HandleExecutionSync, IoReady
<1>5. CASE DrainStep
  BY <1>5, DestroyLive DEF DrainStep, DestroyInv
<1>6. CASE DrainDone
  BY <1>6, DestroyLive DEF DrainDone, DestroyInv
<1>7. CASE CompleteCommandsBegin
  \* with the session pointer cleared, the callback drops the batch
  BY <1>7, Zenon DEF CompleteCommandsBegin, DestroyGoal, DestroyInv
<1>8. CASE CompleteCommandsStep
  <2>1. ccPos # 0
    BY <1>8 DEF CompleteCommandsStep
  <2> QED BY <1>8, <2>1, DestroyLive DEF CompleteCommandsStep, DestroyInv
<1>9. CASE CompleteCommandsEnd
  BY <1>9, Zenon DEF CompleteCommandsEnd, DestroyGoal, DestroyInv
<1>10. CASE DetachCompleter
  BY <1>10, DestroyLive DEF DetachCompleter
<1>11. CASE DetachHandler
  BY <1>11, DestroyLive DEF DetachHandler, DestroyInv
<1>12. CASE AttachHandler
  BY <1>12, DestroyLive DEF AttachHandler
<1>13. CASE AttachCompleter
  BY <1>13, DestroyLive DEF AttachCompleter, DestroyInv
<1>14. CASE Destroy
  BY <1>14, Zenon DEF Destroy, Cancel, DestroyGoal, DestroyInv
<1>15. CASE WorkerStep
  <2>1. PICK id \in Ids : HolderRelease(id) \/ HolderComplete(id)
    BY <1>15 DEF WorkerStep
  <2>2. UNCHANGED <<sessionVars, complSession, ioPc, ccPos, destroyed>>
    BY <2>1, Zenon DEF HolderRelease, HolderComplete, complVars
  <2> QED BY <2>2 DEF DestroyGoal, DestroyInv
<1>16. CASE UNCHANGED vars
  <2>1. UNCHANGED <<sessionVars, complSession, ioPc, ccPos, destroyed>>
    BY <1>16 DEF vars, complVars
  <2> QED BY <2>1 DEF DestroyGoal, DestroyInv
<1>. QED
  BY <1>1, <1>2, <1>3, <1>4, <1>5, <1>6, <1>7, <1>8, <1>9, <1>10, <1>11, <1>12,
     <1>13, <1>14, <1>15, <1>16 DEF Next, IoStep

\* ~SessionState cancels the completer before the session goes away: for
\* every bound, no completion from a worker (scheduleMsgCompletion) or a
\* queued completeCommands callback, and no IO call, changes the session's
\* bookkeeping after the destructor has run.
THEOREM NoUseAfterDestroyHolds == Spec => NoUseAfterDestroy
<1>1. DestroyInv /\ [Next]_vars => DestroyInv'
  BY DestroyNext DEF DestroyGoal
<1>2. DestroyInv /\ [Next]_vars => [destroyed => UNCHANGED sessionVars]_vars
  BY DestroyNext DEF DestroyGoal
<1>. QED
  BY <1>1, <1>2, DestroyInvInit, PTL DEF Spec, NoUseAfterDestroy

=============================================================================
