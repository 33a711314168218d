---------------------------- MODULE SessionState ----------------------------
(***************************************************************************)
(* The broker side of one AMQP 0-10 session: qpid::broker::SessionState    *)
(* (src/cpp/src/qpid/broker/SessionState.cpp), its AsyncCommandCompleter   *)
(* and the IncompleteIngressMsgXfer callback that ties a received          *)
(* Message.Transfer to its asynchronous ingress completion.                *)
(*                                                                         *)
(* Actors.  The connection's IO thread receives commands (handleIn), runs  *)
(* the completeCommands callbacks it was asked to run, and detaches,       *)
(* re-attaches and destroys the session.  Worker threads (store, replica)  *)
(* release the references they took on a message's ingress completion;    *)
(* the last one runs IncompleteIngressMsgXfer::completed(false) on that    *)
(* worker.  The completer's state is guarded by completerLock; the IO      *)
(* thread holds it for the whole of completeCommands.                      *)
(*                                                                         *)
(* Abstractions.  A command is received whole (its frameset is folded into *)
(* the handleIn call of its last frame); a command is its kind, its sync   *)
(* bit and, for a transfer, whether it requires an explicit accept.        *)
(* Routing is the number of asynchronous holders still outstanding when    *)
(* handleContent calls end(xfer).  Command ids are 1..MaxCmd, below the    *)
(* 32-bit wrap of SequenceNumber.                                          *)
(***************************************************************************)
EXTENDS Naturals, Sequences, Functions

CONSTANTS
  MaxCmd,      \* number of inbound commands the peer sends
  MaxHolders,  \* most asynchronous holders (durable enqueues) of one message
  MaxDetach    \* most detach/re-attach cycles of the session

ASSUME SessionAssumption ==
  /\ MaxCmd \in Nat \ {0}
  /\ MaxHolders \in Nat \ {0}
  /\ MaxDetach \in Nat

Ids == 1..MaxCmd
Kinds == {"transfer", "method", "execSync"}
Cmd == [kind : Kinds, sync : BOOLEAN, accept : BOOLEAN]
MessageInfo == [cmd : Ids, requiresAccept : BOOLEAN, requiresSync : BOOLEAN]
IoPcs == {"idle", "draining", "detaching", "attaching"}

VARIABLES
  cmds,          \* commands received so far; command id i is cmds[i]
  incomplete,    \* receiver.incomplete: received ids not yet completed
  accepted,      \* ids to carry in the next Message.Accept
  pendingSyncs,  \* pendingExecutionSyncs: deferred Execution.Sync ids
  sentCompleted, \* ids the peer has been told are complete
  sentAccepted,  \* ids the peer has received a Message.Accept for
  rcvSync,       \* requiresSync of the completeRcvMsg call in progress
  callSend,      \* callSendCompletion of the completeRcvMsg call in progress
  holders,       \* holders[id]: outstanding async references to id's ingress
  flushed,       \* messages whose store write has been forced by flush()
  pendingMsgs,   \* AsyncCommandCompleter::pendingMsgs (their ids)
  completedMsgs, \* AsyncCommandCompleter::completedMsgs
  complAttached, \* AsyncCommandCompleter::isAttached
  complSession,  \* AsyncCommandCompleter::session # 0
  ioRequests,    \* completeCommands callbacks queued on the IO thread
  ccPos,         \* 0, or the record completeCommands is at (lock held)
  handler,       \* SessionState::handler # 0, i.e. isAttached()
  destroyed,     \* ~SessionState has run
  ioPc,          \* what the IO thread is in the middle of
  detaches       \* detach cycles so far (bounded by MaxDetach)

sessionVars == <<incomplete, accepted, pendingSyncs, sentCompleted, sentAccepted,
                 rcvSync, callSend>>
complVars == <<pendingMsgs, completedMsgs, complAttached, complSession, ioRequests, ccPos>>
vars == <<cmds, sessionVars, holders, flushed, complVars, handler, destroyed, ioPc, detaches>>

Received == DOMAIN cmds
NextId == Len(cmds) + 1

\* SequenceSet::front(): the smallest id of a set.
Front(S) == CHOOSE x \in S : \A y \in S : x <= y

-----------------------------------------------------------------------------
(* Session helpers, used inside the actions below.                         *)

\* receiverRecord for the command being handled: it is received and incomplete.
Record(c) ==
  /\ cmds' = Append(cmds, c)

\* Mutant: the accepted set is not cleared after the Message.Accept.
SendAcceptKeepsAccepted(rcvd, inc) ==
  /\ sentAccepted' = sentAccepted \cup accepted
  /\ accepted' = accepted
  /\ sentCompleted' = rcvd \ inc

\* sendAcceptAndCompletion(): Message.Accept of `accepted`, then Execution.Completed
\* of the completed ids (rcvd received, inc still incomplete).
SendAcceptAndCompletion(rcvd, inc) ==
  /\ sentAccepted' = sentAccepted \cup accepted
  /\ accepted' = {}
  /\ sentCompleted' = rcvd \ inc

\* The first half of completeRcvMsg(id, requiresAccept, requiresSync), on an
\* incomplete set `inc`: receiverCompleted(id), add id to accepted, then the
\* drain loop runs as DrainStep/DrainDone steps.
CompleteRcvMsg(inc, id, reqAccept, reqSync) ==
  /\ incomplete' = inc \ {id}
  /\ accepted' = IF reqAccept THEN accepted \cup {id} ELSE accepted
  /\ rcvSync' = reqSync
  /\ callSend' = FALSE
  /\ ioPc' = "draining"
  /\ UNCHANGED <<pendingSyncs, sentCompleted, sentAccepted>>

\* The IO thread may receive a command: attached, between calls, lock free.
IoReady ==
  /\ ioPc = "idle"
  /\ ccPos = 0
  /\ handler
  /\ ~destroyed
  /\ Len(cmds) < MaxCmd

-----------------------------------------------------------------------------
(* IO thread: handleIn.                                                    *)

\* handleIn -> handleContent of a whole Message.Transfer frameset; begin(),
\* route, then end(xfer) with k async holders outstanding.  With none, the
\* callback runs completed(true) at once and the session is attached, so
\* completeRcvMsg runs on this thread.
HandleTransferSync(sync, accept) ==
  /\ IoReady
  /\ Record([kind |-> "transfer", sync |-> sync, accept |-> accept])
  /\ CompleteRcvMsg(incomplete \cup {NextId}, NextId, accept, sync)
  /\ UNCHANGED <<holders, flushed, complVars, handler, destroyed, detaches>>

\* AsyncCommandCompleter::addPendingMessage under completerLock: track the
\* message by its id (ids are fresh, so the insert is unique).
AddPendingMessage(id) == pendingMsgs' = pendingMsgs \cup {id}

\* AsyncCommandCompleter::deletePendingMessage under completerLock.
DeletePendingMessage(id) == pendingMsgs' = pendingMsgs \ {id}

\* AsyncCommandCompleter::flushPendingMessages: swap pendingMsgs out under
\* completerLock, then flush() every message of the copy.
FlushPendingMessages ==
  /\ flushed' = flushed \cup pendingMsgs
  /\ pendingMsgs' = {}

\* With k > 0 holders left, end() clones the callback: clone() flushes the
\* message if the transfer has the sync bit, else registers it with the
\* completer (addPendingMessage) so that a later execution.sync can flush it.
HandleTransferAsync(sync, accept) ==
  /\ IoReady
  /\ Record([kind |-> "transfer", sync |-> sync, accept |-> accept])
  /\ incomplete' = incomplete \cup {NextId}
  /\ \E k \in 1..MaxHolders : holders' = [holders EXCEPT ![NextId] = k]
  /\ \/ sync /\ flushed' = flushed \cup {NextId} /\ UNCHANGED pendingMsgs
     \/ ~sync /\ AddPendingMessage(NextId) /\ UNCHANGED flushed
  /\ UNCHANGED <<accepted, pendingSyncs, sentCompleted, sentAccepted, rcvSync, callSend,
                 completedMsgs, complAttached, complSession, ioRequests, ccPos,
                 handler, destroyed, ioPc, detaches>>

\* handleIn -> handleCommand of a method other than execution.sync: the
\* invoker leaves currentCommandComplete true, so the id is completed, and a
\* sync bit sends the accept and completion.
HandleCommand(sync) ==
  /\ IoReady
  /\ Record([kind |-> "method", sync |-> sync, accept |-> FALSE])
  /\ incomplete' = incomplete
  /\ \/ sync /\ SendAcceptAndCompletion(Received \cup {NextId}, incomplete')
     \/ ~sync /\ UNCHANGED <<accepted, sentCompleted, sentAccepted>>
  /\ UNCHANGED <<pendingSyncs, rcvSync, callSend, holders, flushed, complVars,
                 handler, destroyed, ioPc, detaches>>

\* Mutant: off by one, the sync does not wait for the command just before it.
SyncWaitOffByOne(inc, id) == Front(inc) < id - 1

\* addPendingExecutionSync() defers the sync while an earlier command is
\* incomplete (front of incomplete < its id).
SyncMustWait(inc, id) == Front(inc) < id

\* Mutant: a deferred sync does not flush the pending messages.
ExecutionSyncNoFlush(sync) ==
  /\ IoReady
  /\ Record([kind |-> "execSync", sync |-> sync, accept |-> FALSE])
  /\ \/ /\ SyncMustWait(incomplete \cup {NextId}, NextId)
        /\ incomplete' = incomplete \cup {NextId}
        /\ pendingSyncs' = Append(pendingSyncs, NextId)
        /\ UNCHANGED <<flushed, pendingMsgs, accepted, sentCompleted, sentAccepted>>
     \/ /\ ~SyncMustWait(incomplete \cup {NextId}, NextId)
        /\ incomplete' = incomplete
        /\ \/ sync /\ SendAcceptAndCompletion(Received \cup {NextId}, incomplete')
           \/ ~sync /\ UNCHANGED <<accepted, sentCompleted, sentAccepted>>
        /\ UNCHANGED <<pendingSyncs, flushed, pendingMsgs>>
  /\ UNCHANGED <<rcvSync, callSend, holders, completedMsgs, complAttached, complSession,
                 ioRequests, ccPos, handler, destroyed, ioPc, detaches>>

\* handleIn -> handleCommand(execution.sync) -> addPendingExecutionSync().
\* Deferred: currentCommandComplete = false, the id is queued and the
\* completer flushes every pending message.  Otherwise it completes as a
\* plain command.
HandleExecutionSync(sync) ==
  /\ IoReady
  /\ Record([kind |-> "execSync", sync |-> sync, accept |-> FALSE])
  /\ \/ /\ SyncMustWait(incomplete \cup {NextId}, NextId)
        /\ incomplete' = incomplete \cup {NextId}
        /\ pendingSyncs' = Append(pendingSyncs, NextId)
        /\ FlushPendingMessages
        /\ UNCHANGED <<accepted, sentCompleted, sentAccepted>>
     \/ /\ ~SyncMustWait(incomplete \cup {NextId}, NextId)
        /\ incomplete' = incomplete
        /\ \/ sync /\ SendAcceptAndCompletion(Received \cup {NextId}, incomplete')
           \/ ~sync /\ UNCHANGED <<accepted, sentCompleted, sentAccepted>>
        /\ UNCHANGED <<pendingSyncs, flushed, pendingMsgs>>
  /\ UNCHANGED <<rcvSync, callSend, holders, completedMsgs, complAttached, complSession,
                 ioRequests, ccPos, handler, destroyed, ioPc, detaches>>

-----------------------------------------------------------------------------
(* IO thread: the loop of completeRcvMsg over pendingExecutionSyncs.       *)

\* The while condition: a deferred sync whose predecessors are all complete.
DrainReady == pendingSyncs # <<>> /\ Front(incomplete) >= Head(pendingSyncs)

\* One iteration: pop the sync, complete it, remember to send completion.
DrainStep ==
  /\ ioPc = "draining"
  /\ DrainReady
  /\ incomplete' = incomplete \ {Head(pendingSyncs)}
  /\ pendingSyncs' = Tail(pendingSyncs)
  /\ callSend' = TRUE
  /\ UNCHANGED <<cmds, accepted, sentCompleted, sentAccepted, rcvSync, holders, flushed,
                 complVars, handler, destroyed, ioPc, detaches>>

\* Loop exit: send accept and completion if the transfer asked for sync or a
\* deferred sync completed; completeRcvMsg returns.
DrainDone ==
  /\ ioPc = "draining"
  /\ ~DrainReady
  /\ \/ (rcvSync \/ callSend) /\ SendAcceptAndCompletion(Received, incomplete)
     \/ ~(rcvSync \/ callSend) /\ UNCHANGED <<accepted, sentCompleted, sentAccepted>>
  /\ ioPc' = "idle"
  /\ UNCHANGED <<cmds, incomplete, pendingSyncs, rcvSync, callSend, holders, flushed,
                 complVars, handler, destroyed, detaches>>

-----------------------------------------------------------------------------
(* Worker threads: asynchronous holders of a message's ingress completion. *)

\* A holder that is not the last one ends: the count drops, nothing runs.
HolderRelease(id) ==
  /\ holders[id] > 1
  /\ holders' = [holders EXCEPT ![id] = @ - 1]
  /\ UNCHANGED <<cmds, sessionVars, flushed, complVars, handler, destroyed, ioPc, detaches>>

\* Mutant: the batch size is tested before the record is appended.
ScheduleTestsSizeFirst(id) ==
  \/ /\ complSession /\ complAttached
     /\ completedMsgs' = Append(completedMsgs,
          [cmd |-> id, requiresAccept |-> cmds[id].accept, requiresSync |-> cmds[id].sync])
     /\ ioRequests' = IF Len(completedMsgs) = 1 THEN ioRequests + 1 ELSE ioRequests
  \/ /\ ~(complSession /\ complAttached)
     /\ UNCHANGED <<completedMsgs, ioRequests>>

\* scheduleMsgCompletion(id, ...) under completerLock: queue the record if the
\* session is alive and attached; the first record of a batch asks the
\* connection (session->getConnection()) for an IO callback.
ScheduleMsgCompletion(id) ==
  \/ /\ complSession /\ complAttached
     /\ completedMsgs' = Append(completedMsgs,
          [cmd |-> id, requiresAccept |-> cmds[id].accept, requiresSync |-> cmds[id].sync])
     /\ ioRequests' = IF Len(completedMsgs') = 1 THEN ioRequests + 1 ELSE ioRequests
  \/ /\ ~(complSession /\ complAttached)
     /\ UNCHANGED <<completedMsgs, ioRequests>>

\* The last holder ends on a worker: completed(false) deletes the pending
\* message and schedules the completion.
HolderComplete(id) ==
  /\ holders[id] = 1
  /\ ccPos = 0
  /\ holders' = [holders EXCEPT ![id] = 0]
  /\ DeletePendingMessage(id)
  /\ ScheduleMsgCompletion(id)
  /\ UNCHANGED <<cmds, sessionVars, flushed, complAttached, complSession, ccPos,
                 handler, destroyed, ioPc, detaches>>

-----------------------------------------------------------------------------
(* IO thread: AsyncCommandCompleter::completeCommands.                     *)

\* Mutant: the callback trusts isAttached() alone and ignores cancel().
BeginIgnoresCancel ==
  /\ ioRequests > 0
  /\ ioPc = "idle"
  /\ ccPos = 0
  /\ ioRequests' = ioRequests - 1
  /\ \/ (handler) /\ ccPos' = 1 /\ UNCHANGED completedMsgs
     \/ ~(handler) /\ completedMsgs' = <<>> /\ UNCHANGED ccPos
  /\ UNCHANGED <<cmds, sessionVars, holders, flushed, pendingMsgs, complAttached,
                 complSession, handler, destroyed, ioPc, detaches>>

\* Mutant: the callback runs without a queued request (guard dropped).
BeginUnguarded ==
  /\ ioPc = "idle"
  /\ ccPos = 0
  /\ ioRequests' = ioRequests - 1
  /\ \/ (complSession /\ handler) /\ ccPos' = 1 /\ UNCHANGED completedMsgs
     \/ ~(complSession /\ handler) /\ completedMsgs' = <<>> /\ UNCHANGED ccPos
  /\ UNCHANGED <<cmds, sessionVars, holders, flushed, pendingMsgs, complAttached,
                 complSession, handler, destroyed, ioPc, detaches>>

\* The callback runs: take completerLock; if the session pointer is set and
\* the session attached, walk the records, else drop them.
CompleteCommandsBegin ==
  /\ ioRequests > 0
  /\ ioPc = "idle"
  /\ ccPos = 0
  /\ ioRequests' = ioRequests - 1
  /\ \/ (complSession /\ handler) /\ ccPos' = 1 /\ UNCHANGED completedMsgs
     \/ ~(complSession /\ handler) /\ completedMsgs' = <<>> /\ UNCHANGED ccPos
  /\ UNCHANGED <<cmds, sessionVars, holders, flushed, pendingMsgs, complAttached,
                 complSession, handler, destroyed, ioPc, detaches>>

\* One record: session->completeRcvMsg(cmd, requiresAccept, requiresSync).
CompleteCommandsStep ==
  /\ ioPc = "idle"
  /\ ccPos \in 1..Len(completedMsgs)
  /\ LET m == completedMsgs[ccPos]
     IN CompleteRcvMsg(incomplete, m.cmd, m.requiresAccept, m.requiresSync)
  /\ ccPos' = ccPos + 1
  /\ UNCHANGED <<cmds, holders, flushed, pendingMsgs, completedMsgs, complAttached,
                 complSession, ioRequests, handler, destroyed, detaches>>

\* After the loop: clear the batch and release the lock.
CompleteCommandsEnd ==
  /\ ioPc = "idle"
  /\ ccPos = Len(completedMsgs) + 1
  /\ completedMsgs' = <<>>
  /\ ccPos' = 0
  /\ UNCHANGED <<cmds, sessionVars, holders, flushed, pendingMsgs, complAttached,
                 complSession, ioRequests, handler, destroyed, ioPc, detaches>>

-----------------------------------------------------------------------------
(* IO thread: session lifecycle.                                           *)

\* Mutant: detach() clears the handler before telling the completer.
DetachHandlerFirst ==
  /\ ioPc = "idle"
  /\ ccPos = 0
  /\ handler
  /\ ~destroyed
  /\ detaches < MaxDetach
  /\ handler' = FALSE
  /\ ioPc' = "detaching"
  /\ detaches' = detaches + 1
  /\ UNCHANGED <<cmds, sessionVars, holders, flushed, complVars, destroyed>>

\* AsyncCommandCompleter::detached: isAttached = false under completerLock.
Detached == complAttached' = FALSE

\* detach(): first asyncCommandCompleter->detached() under the lock ...
DetachCompleter ==
  /\ ioPc = "idle"
  /\ ccPos = 0
  /\ handler
  /\ ~destroyed
  /\ detaches < MaxDetach
  /\ Detached
  /\ ioPc' = "detaching"
  /\ detaches' = detaches + 1
  /\ UNCHANGED <<cmds, sessionVars, holders, flushed, pendingMsgs, completedMsgs,
                 complSession, ioRequests, ccPos, handler, destroyed>>

\* ... then disableOutput() and handler = 0.
DetachHandler ==
  /\ ioPc = "detaching"
  /\ handler' = FALSE
  /\ ioPc' = "idle"
  /\ UNCHANGED <<cmds, sessionVars, holders, flushed, complVars, destroyed, detaches>>

\* attach(h): first handler = &h ...
AttachHandler ==
  /\ ioPc = "idle"
  /\ ccPos = 0
  /\ ~handler
  /\ ~destroyed
  /\ handler' = TRUE
  /\ ioPc' = "attaching"
  /\ UNCHANGED <<cmds, sessionVars, holders, flushed, complVars, destroyed, detaches>>

\* ... then asyncCommandCompleter->attached() under the lock.
AttachCompleter ==
  /\ ioPc = "attaching"
  /\ complAttached' = TRUE
  /\ ioPc' = "idle"
  /\ UNCHANGED <<cmds, sessionVars, holders, flushed, pendingMsgs, completedMsgs,
                 complSession, ioRequests, ccPos, handler, destroyed, detaches>>

\* AsyncCommandCompleter::cancel: session = 0 under completerLock.
Cancel == complSession' = FALSE

\* ~SessionState: asyncCommandCompleter->cancel() clears the session pointer.
Destroy ==
  /\ ioPc = "idle"
  /\ ccPos = 0
  /\ ~destroyed
  /\ Cancel
  /\ destroyed' = TRUE
  /\ UNCHANGED <<cmds, sessionVars, holders, flushed, pendingMsgs, completedMsgs,
                 complAttached, ioRequests, ccPos, handler, ioPc, detaches>>

-----------------------------------------------------------------------------
\* The constructor: attached to its handler, completer attached, nothing received.
Init ==
  /\ cmds = <<>>
  /\ incomplete = {}
  /\ accepted = {}
  /\ pendingSyncs = <<>>
  /\ sentCompleted = {}
  /\ sentAccepted = {}
  /\ rcvSync = FALSE
  /\ callSend = FALSE
  /\ holders = [id \in Ids |-> 0]
  /\ flushed = {}
  /\ pendingMsgs = {}
  /\ completedMsgs = <<>>
  /\ complAttached = TRUE
  /\ complSession = TRUE
  /\ ioRequests = 0
  /\ ccPos = 0
  /\ handler = TRUE
  /\ destroyed = FALSE
  /\ ioPc = "idle"
  /\ detaches = 0

\* The IO thread's steps: handleIn dispatches an inbound frame to
\* handleContent (a transfer) or handleCommand (any other command,
\* execution.sync included); the IO thread also runs the callbacks queued
\* for it (schedule, completeCommands) and the detach, attach and
\* destruction of the session.
IoStep ==
  \/ \E s, a \in BOOLEAN : HandleTransferSync(s, a) \/ HandleTransferAsync(s, a)
  \/ \E s \in BOOLEAN : HandleCommand(s) \/ HandleExecutionSync(s)
  \/ DrainStep \/ DrainDone
  \/ CompleteCommandsBegin \/ CompleteCommandsStep \/ CompleteCommandsEnd
  \/ DetachCompleter \/ DetachHandler \/ AttachHandler \/ AttachCompleter \/ Destroy

WorkerStep == \E id \in Ids : HolderRelease(id) \/ HolderComplete(id)

Next == IoStep \/ WorkerStep

\* A holder whose message was flushed finishes its store write; one that was
\* not may wait in the store's buffer indefinitely.
FlushedHolderDone(id) ==
  /\ id \in flushed
  /\ (HolderRelease(id) \/ HolderComplete(id))

\* The IO thread runs the callbacks it was asked for and finishes the calls
\* it started; a flushed store write completes.
Fairness ==
  /\ WF_vars(DrainStep) /\ WF_vars(DrainDone)
  /\ WF_vars(CompleteCommandsBegin) /\ WF_vars(CompleteCommandsStep)
  /\ WF_vars(CompleteCommandsEnd)
  /\ WF_vars(DetachHandler) /\ WF_vars(AttachCompleter)
  /\ \A id \in Ids : WF_vars(FlushedHolderDone(id))

Spec == Init /\ [][Next]_vars /\ Fairness

-----------------------------------------------------------------------------
(* Properties.                                                             *)

\* Every variable holds a value of its type.
TypeOK ==
  /\ cmds \in Seq(Cmd)
  /\ Len(cmds) <= MaxCmd
  /\ incomplete \subseteq Ids
  /\ accepted \subseteq Ids
  /\ pendingSyncs \in Seq(Ids)
  /\ sentCompleted \subseteq Ids
  /\ sentAccepted \subseteq Ids
  /\ rcvSync \in BOOLEAN
  /\ callSend \in BOOLEAN
  /\ holders \in [Ids -> 0..MaxHolders]
  /\ flushed \subseteq Ids
  /\ pendingMsgs \subseteq Ids
  /\ completedMsgs \in Seq(MessageInfo)
  /\ complAttached \in BOOLEAN
  /\ complSession \in BOOLEAN
  /\ ioRequests \in Nat
  /\ ccPos \in Nat
  /\ handler \in BOOLEAN
  /\ destroyed \in BOOLEAN
  /\ ioPc \in IoPcs
  /\ detaches \in 0..MaxDetach

\* Execution.Sync semantics (addPendingExecutionSync and the loop of
\* completeRcvMsg): whenever the peer has been told an execution.sync is
\* complete, it has been told that every earlier command is complete.
ExecutionSyncOrdered ==
  \A s \in sentCompleted :
    cmds[s].kind = "execSync" => \A j \in 1..(s - 1) : j \in sentCompleted

\* sendAcceptAndCompletion and completeRcvMsg: no transfer is accepted twice;
\* an id waiting in `accepted` has never been sent in a Message.Accept.
NoDuplicateAccept == accepted \cap sentAccepted = {}

\* detach()/attach() order their two steps so that a worker running
\* scheduleMsgCompletion, which calls session->getConnection() when the
\* completer says the session is attached, never finds handler = 0.
CompleterSeesHandler == complSession /\ complAttached => handler

\* scheduleMsgCompletion coalesces wake-ups: a queued completion record always
\* has a completeCommands callback queued or running to deliver it.
NoStrandedCompletion == completedMsgs # <<>> => ioRequests > 0 \/ ccPos > 0

\* After ~SessionState (cancel()), no completion from a worker or a queued
\* callback touches the session's bookkeeping.
NoUseAfterDestroy == [][destroyed => UNCHANGED sessionVars]_vars

\* A command with the sync bit received on an attached session is eventually
\* reported complete to the peer, unless the session detaches or is destroyed
\* first (deferred execution.sync, flushPendingMessages, completeCommands).
SyncedCommandsReported ==
  \A id \in Ids :
    (id \in Received /\ cmds[id].sync /\ handler /\ ~destroyed)
      ~> (id \in sentCompleted \/ ~handler \/ destroyed)

=============================================================================
