-------------------------- MODULE SessionSyncProofs --------------------------
(***************************************************************************)
(* Proofs, for every value of MaxCmd, MaxHolders and MaxDetach, of the two *)
(* invariants of SessionState about what the peer is told: deferred        *)
(* Execution.Sync completes in order (ExecutionSyncOrdered) and no         *)
(* transfer is accepted twice (NoDuplicateAccept).                         *)
(***************************************************************************)
EXTENDS SessionStateProofs

\* Every non-empty subset of S has a least element.  It holds of every set of
\* naturals; the provers cannot derive it without induction, so it is carried
\* as part of the invariant, where it is preserved because ids enter
\* receiver.incomplete in increasing order.
MinClosed(S) == \A T \in SUBSET S : T # {} => \E x \in T : \A y \in T : x <= y

\* The completion records completeCommands has not yet handed to
\* completeRcvMsg: all of them before the walk, those from ccPos on during it.
PendingRecs == {i \in 1..Len(completedMsgs) : i >= ccPos}

\* The ids the accept and completion bookkeeping is about.
AcceptInv ==
  /\ NoDuplicateAccept
  \* an id is accepted only once it is complete
  /\ accepted \cup sentAccepted \subseteq Received \ incomplete
  \* a message with async holders is an incomplete transfer
  /\ \A id \in Ids : holders[id] # 0 => id \in incomplete /\ cmds[id].kind = "transfer"
  \* a queued record is for an incomplete transfer whose holders are done ...
  /\ \A i \in PendingRecs :
       /\ completedMsgs[i].cmd \in incomplete
       /\ holders[completedMsgs[i].cmd] = 0
       /\ cmds[completedMsgs[i].cmd].kind = "transfer"
  \* ... and no two queued records are for the same id
  /\ \A i, j \in PendingRecs : i # j => completedMsgs[i].cmd # completedMsgs[j].cmd

\* An execution.sync that is complete has every earlier command complete.
CompletedSyncOrder ==
  \A s \in Received \ incomplete :
    cmds[s].kind = "execSync" => \A j \in 1..(s - 1) : j \notin incomplete

\* ExecutionSyncOrdered strengthened: receiver.incomplete only holds received
\* ids, the completion last sent is still true, the deferred syncs are
\* incomplete execution.syncs in increasing order, and CompletedSyncOrder.
SyncInv ==
  /\ ExecutionSyncOrdered
  /\ MinClosed(incomplete)
  /\ incomplete \subseteq Received
  /\ sentCompleted \subseteq Received \ incomplete
  /\ \A i \in 1..Len(pendingSyncs) :
       pendingSyncs[i] \in incomplete /\ cmds[pendingSyncs[i]].kind = "execSync"
  /\ \A i, j \in 1..Len(pendingSyncs) : i < j => pendingSyncs[i] < pendingSyncs[j]
  /\ CompletedSyncOrder

\* The inductive invariant of this module.
OrderInv == TypeInv /\ AcceptInv /\ SyncInv

-----------------------------------------------------------------------------
(* SequenceSet::front() on the sets the session keeps.                     *)

\* A subset of a set whose subsets have least elements has the same property.
LEMMA MinClosedSubset ==
  ASSUME NEW S, NEW T \in SUBSET S, MinClosed(S) PROVE MinClosed(T)
BY DEF MinClosed

\* Adding an id above every member keeps every subset with a least element.
LEMMA MinClosedAddMax ==
  ASSUME NEW S \in SUBSET Nat, NEW n \in Nat, MinClosed(S), \A y \in S : y < n
  PROVE  MinClosed(S \cup {n})
<1> SUFFICES ASSUME NEW T \in SUBSET (S \cup {n}), T # {}
             PROVE  \E x \in T : \A y \in T : x <= y
  BY DEF MinClosed
<1>1. CASE T \ {n} # {}
  <2>1. PICK x \in T \ {n} : \A y \in T \ {n} : x <= y
    BY <1>1 DEF MinClosed
  <2>2. x \in S /\ x < n
    OBVIOUS
  <2>. QED
    BY <2>1, <2>2
<1>2. CASE T \ {n} = {}
  <2>1. T = {n}
    BY <1>2
  <2>. QED
    BY <2>1
<1>. QED
  BY <1>1, <1>2

\* front() of a non-empty set whose subsets have least elements is its least
\* element.
LEMMA FrontIsMin ==
  ASSUME NEW S, S # {}, MinClosed(S)
  PROVE  Front(S) \in S /\ \A y \in S : Front(S) <= y
<1>1. \E x \in S : \A y \in S : x <= y
  BY DEF MinClosed
<1>. QED
  BY <1>1 DEF Front

-----------------------------------------------------------------------------
(* receiverRecord and the steps that leave the bookkeeping alone.          *)

\* receiverRecord appends the command under the fresh id NextId, above every
\* received id, and leaves the kinds of the received commands as they were.
LEMMA RecordFacts ==
  ASSUME TypeInv, IoReady, NEW c \in Cmd, Record(c)
  PROVE  /\ Received' = Received \cup {NextId}
         /\ NextId \notin Received /\ NextId \in Ids
         /\ \A x \in Received : x < NextId /\ cmds'[x] = cmds[x]
         /\ cmds'[NextId] = c
         /\ Received = 1..Len(cmds)
<1>1. cmds \in Seq(Cmd) /\ cmds' = Append(cmds, c)
  BY DEF TypeInv, TypeOK, Record
<1>2. NextId \in Ids
  BY RecordType
<1>. QED
  BY <1>1, <1>2 DEF Received, NextId

\* The constructor's state satisfies OrderInv: nothing is received.
LEMMA OrderInvInit == Init => OrderInv
<1> SUFFICES ASSUME Init PROVE OrderInv
  OBVIOUS
<1>1. TypeInv
  BY TypeInvInit
<1>2. Received = {} /\ PendingRecs = {} /\ incomplete = {}
  BY DEF Init, Received, PendingRecs
<1>3. MinClosed(incomplete)
  BY <1>2 DEF MinClosed
<1>. QED
  BY <1>1, <1>2, <1>3
     DEF Init, OrderInv, AcceptInv, SyncInv, NoDuplicateAccept, ExecutionSyncOrdered,
         CompletedSyncOrder

\* A step that changes none of the variables AcceptInv reads keeps it.
LEMMA AcceptUnchanged ==
  ASSUME AcceptInv,
         UNCHANGED <<cmds, incomplete, accepted, sentAccepted, holders, completedMsgs, ccPos>>
  PROVE  AcceptInv'
BY DEF AcceptInv, NoDuplicateAccept, PendingRecs, Received

\* A step that changes none of the variables SyncInv reads keeps it.
LEMMA SyncUnchanged ==
  ASSUME SyncInv, UNCHANGED <<cmds, incomplete, sentCompleted, pendingSyncs>>
  PROVE  SyncInv'
BY DEF SyncInv, ExecutionSyncOrdered, CompletedSyncOrder, MinClosed, Received

-----------------------------------------------------------------------------
(* No transfer is accepted twice.                                          *)

\* No step of the IO thread or of a worker breaks AcceptInv.
LEMMA AcceptNext == OrderInv /\ [Next]_vars => AcceptInv'
<1> SUFFICES ASSUME OrderInv, [Next]_vars PROVE AcceptInv'
  OBVIOUS
<1>0. /\ TypeInv /\ AcceptInv /\ SyncInv
      /\ \A id \in Ids : holders[id] # 0 => id \in Received
  BY DEF OrderInv, TypeInv, Received
<1>1. ASSUME NEW s \in BOOLEAN, NEW a \in BOOLEAN, HandleTransferSync(s, a)
      PROVE AcceptInv'
  <2>1. /\ Received' = Received \cup {NextId} /\ NextId \notin Received
        /\ \A x \in Received : cmds'[x] = cmds[x]
    BY <1>0, <1>1, RecordFacts, CmdRecord DEF HandleTransferSync, Kinds
  <2>2. /\ incomplete' = incomplete
        /\ accepted' \subseteq accepted \cup {NextId}
        /\ UNCHANGED <<sentAccepted, holders, completedMsgs, ccPos>>
    BY <1>0, <1>1, <2>1 DEF HandleTransferSync, CompleteRcvMsg, SyncInv, complVars
  <2>. QED
    BY <1>0, <2>1, <2>2 DEF AcceptInv, NoDuplicateAccept, PendingRecs, SyncInv
<1>2. ASSUME NEW s \in BOOLEAN, NEW a \in BOOLEAN, HandleTransferAsync(s, a)
      PROVE AcceptInv'
  <2>1. /\ Received' = Received \cup {NextId} /\ NextId \notin Received
        /\ \A x \in Received : cmds'[x] = cmds[x]
        /\ cmds'[NextId].kind = "transfer" /\ NextId \in Ids
    BY <1>0, <1>2, RecordFacts, CmdRecord DEF HandleTransferAsync, Kinds
  <2>2. /\ incomplete' = incomplete \cup {NextId}
        /\ UNCHANGED <<accepted, sentAccepted, completedMsgs, ccPos>>
        /\ \E k \in 1..MaxHolders : holders' = [holders EXCEPT ![NextId] = k]
    BY <1>2, Zenon DEF HandleTransferAsync
  <2>3. \A id \in Ids : holders'[id] # 0 => id \in incomplete' /\ cmds'[id].kind = "transfer"
    BY <1>0, <2>1, <2>2 DEF AcceptInv, TypeInv, TypeOK
  <2>4. \A i \in PendingRecs' :
          /\ completedMsgs'[i].cmd \in incomplete'
          /\ holders'[completedMsgs'[i].cmd] = 0
          /\ cmds'[completedMsgs'[i].cmd].kind = "transfer"
    <3> SUFFICES ASSUME NEW i \in PendingRecs
                 PROVE  LET c == completedMsgs[i].cmd
                        IN  c \in incomplete' /\ holders'[c] = 0 /\ cmds'[c].kind = "transfer"
      BY <2>2 DEF PendingRecs
    <3>. DEFINE c == completedMsgs[i].cmd
    <3>1. c \in incomplete /\ holders[c] = 0 /\ cmds[c].kind = "transfer"
      BY <1>0 DEF AcceptInv
    <3>2. c \in Received /\ c # NextId
      BY <1>0, <2>1, <3>1 DEF SyncInv
    <3>3. PICK k \in 1..MaxHolders : holders' = [holders EXCEPT ![NextId] = k]
      BY <2>2, Zenon
    <3>4. holders'[c] = holders[c]
      BY <3>2, <3>3
    <3>. QED
      BY <2>1, <2>2, <3>1, <3>2, <3>4
  <2>. QED
    BY <1>0, <2>1, <2>2, <2>3, <2>4 DEF AcceptInv, NoDuplicateAccept, PendingRecs
<1>3. ASSUME NEW s \in BOOLEAN, HandleCommand(s) PROVE AcceptInv'
  <2>1. /\ Received' = Received \cup {NextId} /\ NextId \notin Received
        /\ \A x \in Received : cmds'[x] = cmds[x]
    <3>1. [kind |-> "method", sync |-> s, accept |-> FALSE] \in Cmd
      BY DEF Cmd, Kinds
    <3>2. IoReady /\ Record([kind |-> "method", sync |-> s, accept |-> FALSE])
      BY <1>3 DEF HandleCommand
    <3>. QED
      BY <1>0, <3>1, <3>2, RecordFacts
  <2>2. /\ incomplete' = incomplete /\ UNCHANGED <<holders, completedMsgs, ccPos>>
        /\ \/ accepted' = {} /\ sentAccepted' = sentAccepted \cup accepted
           \/ UNCHANGED <<accepted, sentAccepted>>
    BY <1>3 DEF HandleCommand, SendAcceptAndCompletion, complVars
  <2>. QED
    BY <1>0, <2>1, <2>2 DEF AcceptInv, NoDuplicateAccept, PendingRecs, SyncInv
<1>4. ASSUME NEW s \in BOOLEAN, HandleExecutionSync(s) PROVE AcceptInv'
  <2>1. /\ Received' = Received \cup {NextId} /\ NextId \notin Received
        /\ \A x \in Received : cmds'[x] = cmds[x]
    <3>1. [kind |-> "execSync", sync |-> s, accept |-> FALSE] \in Cmd
      BY DEF Cmd, Kinds
    <3>2. IoReady /\ Record([kind |-> "execSync", sync |-> s, accept |-> FALSE])
      BY <1>4 DEF HandleExecutionSync
    <3>. QED
      BY <1>0, <3>1, <3>2, RecordFacts
  <2>2. /\ incomplete \subseteq incomplete' /\ incomplete' \subseteq incomplete \cup {NextId}
        /\ UNCHANGED <<holders, completedMsgs, ccPos>>
        /\ \/ accepted' = {} /\ sentAccepted' = sentAccepted \cup accepted
           \/ UNCHANGED <<accepted, sentAccepted>>
    BY <1>4 DEF HandleExecutionSync, SendAcceptAndCompletion, FlushPendingMessages
  <2>. QED
    BY <1>0, <2>1, <2>2 DEF AcceptInv, NoDuplicateAccept, PendingRecs, SyncInv
<1>5. ASSUME DrainStep PROVE AcceptInv'
  <2>. DEFINE h == Head(pendingSyncs)
  <2>1. pendingSyncs # <<>> /\ pendingSyncs \in Seq(Ids)
    BY <1>5, <1>0 DEF DrainStep, DrainReady, TypeInv, TypeOK
  <2>2. cmds[h].kind = "execSync"
    BY <2>1, <1>0 DEF SyncInv
  <2>3. incomplete' = incomplete \ {h}
        /\ UNCHANGED <<cmds, accepted, sentAccepted, holders, completedMsgs, ccPos>>
    BY <1>5 DEF DrainStep, complVars
  <2>. QED
    BY <1>0, <2>2, <2>3 DEF AcceptInv, NoDuplicateAccept, PendingRecs, Received
<1>6. ASSUME DrainDone PROVE AcceptInv'
  <2>1. /\ UNCHANGED <<cmds, incomplete, holders, completedMsgs, ccPos>>
        /\ \/ accepted' = {} /\ sentAccepted' = sentAccepted \cup accepted
           \/ UNCHANGED <<accepted, sentAccepted>>
    BY <1>6 DEF DrainDone, SendAcceptAndCompletion, complVars
  <2>. QED
    BY <1>0, <2>1 DEF AcceptInv, NoDuplicateAccept, PendingRecs, Received
<1>7. ASSUME CompleteCommandsBegin PROVE AcceptInv'
  <2>1. /\ UNCHANGED <<cmds, incomplete, accepted, sentAccepted, holders>>
        /\ ccPos = 0
        /\ \/ ccPos' = 1 /\ completedMsgs' = completedMsgs
           \/ completedMsgs' = <<>> /\ ccPos' = ccPos
    BY <1>7 DEF CompleteCommandsBegin, sessionVars
  <2>2. completedMsgs \in Seq(MessageInfo)
    BY <1>0 DEF TypeInv, TypeOK
  <2>3. PendingRecs' \subseteq PendingRecs /\ \A i \in PendingRecs' : completedMsgs'[i] = completedMsgs[i]
    BY <2>1, <2>2 DEF PendingRecs
  <2>. QED
    BY <1>0, <2>1, <2>3 DEF AcceptInv, NoDuplicateAccept, Received
<1>8. ASSUME CompleteCommandsStep PROVE AcceptInv'
  <2>. DEFINE m == completedMsgs[ccPos]
  <2>1. ccPos \in PendingRecs /\ ccPos \in Nat
    BY <1>8 DEF CompleteCommandsStep, PendingRecs
  <2>2. /\ m.cmd \in incomplete /\ holders[m.cmd] = 0
        /\ \A i \in PendingRecs : i # ccPos => completedMsgs[i].cmd # m.cmd
    BY <1>0, <2>1 DEF AcceptInv
  <2>3. /\ incomplete' = incomplete \ {m.cmd}
        /\ accepted' \subseteq accepted \cup {m.cmd}
        /\ ccPos' = ccPos + 1
        /\ UNCHANGED <<cmds, sentAccepted, holders, completedMsgs>>
    BY <1>8, Zenon DEF CompleteCommandsStep, CompleteRcvMsg
  <2>4. PendingRecs' = PendingRecs \ {ccPos}
    BY <2>1, <2>3 DEF PendingRecs
  <2>5. m.cmd \in Received /\ m.cmd \notin sentAccepted
    BY <1>0, <2>2 DEF SyncInv, AcceptInv
  <2>. QED
    BY <1>0, <2>2, <2>3, <2>4, <2>5 DEF AcceptInv, NoDuplicateAccept, Received
<1>9. ASSUME CompleteCommandsEnd PROVE AcceptInv'
  <2>1. completedMsgs' = <<>>
        /\ UNCHANGED <<cmds, incomplete, accepted, sentAccepted, holders>>
    BY <1>9 DEF CompleteCommandsEnd, sessionVars
  <2>2. PendingRecs' = {}
    BY <2>1 DEF PendingRecs
  <2>. QED
    BY <1>0, <2>1, <2>2 DEF AcceptInv, NoDuplicateAccept, Received
<1>10. CASE \/ DetachCompleter \/ DetachHandler \/ AttachHandler \/ AttachCompleter
            \/ Destroy \/ UNCHANGED vars
  BY <1>0, <1>10, AcceptUnchanged, Zenon
     DEF DetachCompleter, Detached, DetachHandler, AttachHandler, AttachCompleter, Destroy, Cancel,
         vars, sessionVars, complVars
<1>11. ASSUME NEW id \in Ids, HolderRelease(id) PROVE AcceptInv'
  <2>1. /\ holders' = [holders EXCEPT ![id] = @ - 1] /\ holders[id] > 1
        /\ UNCHANGED <<cmds, incomplete, accepted, sentAccepted, completedMsgs, ccPos>>
    BY <1>11 DEF HolderRelease, sessionVars, complVars
  <2>2. holders \in [Ids -> 0..MaxHolders]
    BY <1>0 DEF TypeInv, TypeOK
  <2>3. \A j \in Ids : (holders'[j] # 0) = (holders[j] # 0)
    BY <2>1, <2>2
  <2>4. \A i \in PendingRecs : completedMsgs[i].cmd # id
    BY <1>0, <2>1 DEF AcceptInv
  <2>5. \A i \in PendingRecs : holders'[completedMsgs[i].cmd] = 0
    BY <1>0, <2>1, <2>2, <2>4 DEF AcceptInv
  <2>. QED
    BY <1>0, <2>1, <2>3, <2>5 DEF AcceptInv, NoDuplicateAccept, PendingRecs, Received
<1>12. ASSUME NEW id \in Ids, HolderComplete(id) PROVE AcceptInv'
  <2>. DEFINE rec == [cmd |-> id, requiresAccept |-> cmds[id].accept,
                      requiresSync |-> cmds[id].sync]
  <2>1. /\ holders[id] = 1 /\ ccPos = 0
        /\ holders' = [holders EXCEPT ![id] = 0]
        /\ UNCHANGED <<cmds, incomplete, accepted, sentAccepted, ccPos>>
        /\ \/ completedMsgs' = Append(completedMsgs, rec)
           \/ completedMsgs' = completedMsgs
    BY <1>12, Zenon DEF HolderComplete, DeletePendingMessage, ScheduleMsgCompletion, sessionVars
  <2>2. holders \in [Ids -> 0..MaxHolders] /\ completedMsgs \in Seq(MessageInfo)
    BY <1>0 DEF TypeInv, TypeOK
  <2>3. id \in incomplete /\ cmds[id].kind = "transfer"
    BY <1>0, <2>1 DEF AcceptInv
  <2>4. PendingRecs = 1..Len(completedMsgs) /\ PendingRecs' = 1..Len(completedMsgs')
    BY <2>1, <2>2 DEF PendingRecs
  <2>5. \A i \in PendingRecs : completedMsgs[i].cmd # id /\ holders'[completedMsgs[i].cmd] = 0
    BY <1>0, <2>1, <2>2 DEF AcceptInv
  <2>6. \A j \in Ids : holders'[j] # 0 => holders[j] # 0
    BY <2>1, <2>2
  <2>7. CASE completedMsgs' = completedMsgs
    BY <1>0, <2>1, <2>4, <2>5, <2>6, <2>7 DEF AcceptInv, NoDuplicateAccept, Received
  <2>8. CASE completedMsgs' = Append(completedMsgs, rec)
    <3>1. /\ Len(completedMsgs') = Len(completedMsgs) + 1
          /\ completedMsgs'[Len(completedMsgs) + 1].cmd = id
          /\ \A i \in 1..Len(completedMsgs) : completedMsgs'[i] = completedMsgs[i]
      BY <2>2, <2>8
    <3>2. \A i \in PendingRecs' :
            /\ completedMsgs'[i].cmd \in incomplete'
            /\ holders'[completedMsgs'[i].cmd] = 0
            /\ cmds'[completedMsgs'[i].cmd].kind = "transfer"
      BY <1>0, <2>1, <2>2, <2>3, <2>4, <2>5, <3>1 DEF AcceptInv
    <3>3. \A i, j \in PendingRecs' : i # j => completedMsgs'[i].cmd # completedMsgs'[j].cmd
      BY <1>0, <2>4, <2>5, <3>1 DEF AcceptInv
    <3>. QED
      BY <1>0, <2>1, <2>6, <3>2, <3>3 DEF AcceptInv, NoDuplicateAccept, Received
  <2>. QED
    BY <2>1, <2>7, <2>8
<1>. QED
  BY <1>1, <1>2, <1>3, <1>4, <1>5, <1>6, <1>7, <1>8, <1>9, <1>10, <1>11, <1>12
     DEF Next, IoStep, WorkerStep

-----------------------------------------------------------------------------
(* Deferred Execution.Sync completes in order.                             *)

\* sendAcceptAndCompletion reports exactly the received ids that are
\* complete: if a complete execution.sync has every earlier command complete,
\* the report never names a sync without every earlier command.
LEMMA SendOrdered ==
  ASSUME NEW cs \in Seq(Cmd), NEW inc, NEW sc, sc = DOMAIN cs \ inc,
         \A s \in DOMAIN cs \ inc :
           cs[s].kind = "execSync" => \A j \in 1..(s - 1) : j \notin inc
  PROVE  \A s \in sc : cs[s].kind = "execSync" => \A j \in 1..(s - 1) : j \in sc
BY DEF Cmd

\* receiverRecord of any command: the new id is at most made incomplete, an
\* execution.sync completed on receipt has every earlier command complete,
\* only an incomplete execution.sync is deferred, and the report is kept or
\* sent afresh.  Such a step keeps SyncInv.
LEMMA SyncRecord ==
  ASSUME TypeInv, SyncInv, IoReady, NEW c \in Cmd, Record(c),
         incomplete \subseteq incomplete', incomplete' \subseteq incomplete \cup {NextId},
         c.kind = "execSync" /\ NextId \notin incomplete' =>
           \A j \in 1..(NextId - 1) : j \notin incomplete,
         \/ sentCompleted' = sentCompleted
         \/ sentCompleted' = Received' \ incomplete',
         \/ pendingSyncs' = pendingSyncs
         \/ /\ pendingSyncs' = Append(pendingSyncs, NextId)
            /\ NextId \in incomplete' /\ c.kind = "execSync"
  PROVE  SyncInv'
<1>1. /\ Received' = Received \cup {NextId} /\ NextId \notin Received /\ NextId \in Nat
      /\ \A x \in Received : x < NextId /\ cmds'[x] = cmds[x]
      /\ cmds'[NextId] = c
      /\ Received \subseteq Nat
  BY RecordFacts DEF Ids
<1>2. incomplete \subseteq Received /\ incomplete \subseteq Nat
  BY DEF SyncInv, TypeInv, TypeOK, Ids
<1>3. MinClosed(incomplete')
  <2>1. MinClosed(incomplete) /\ \A y \in incomplete : y < NextId
    BY <1>1, <1>2 DEF SyncInv
  <2>2. MinClosed(incomplete \cup {NextId})
    BY <1>1, <1>2, <2>1, MinClosedAddMax
  <2>. QED
    BY <2>2, MinClosedSubset
<1>4. pendingSyncs \in Seq(Ids)
  BY DEF TypeInv, TypeOK
<1>5. \A i \in 1..Len(pendingSyncs) :
        pendingSyncs[i] \in incomplete' /\ cmds'[pendingSyncs[i]].kind = "execSync"
        /\ pendingSyncs[i] < NextId
  <2> SUFFICES ASSUME NEW i \in 1..Len(pendingSyncs)
               PROVE  /\ pendingSyncs[i] \in incomplete'
                      /\ cmds'[pendingSyncs[i]].kind = "execSync"
                      /\ pendingSyncs[i] < NextId
    OBVIOUS
  <2>1. pendingSyncs[i] \in incomplete /\ cmds[pendingSyncs[i]].kind = "execSync"
    BY Zenon DEF SyncInv
  <2>2. pendingSyncs[i] \in incomplete'
    BY <2>1
  <2>3. pendingSyncs[i] \in Received
    BY <1>2, <2>1, Zenon
  <2>4. cmds'[pendingSyncs[i]] = cmds[pendingSyncs[i]] /\ pendingSyncs[i] < NextId
    BY <1>1, <2>3, Zenon
  <2>. QED
    BY <2>1, <2>2, <2>4
<1>10. /\ \A i \in 1..Len(pendingSyncs') :
            pendingSyncs'[i] \in incomplete' /\ cmds'[pendingSyncs'[i]].kind = "execSync"
       /\ \A i, j \in 1..Len(pendingSyncs') : i < j => pendingSyncs'[i] < pendingSyncs'[j]
  <2>1. \A i, j \in 1..Len(pendingSyncs) : i < j => pendingSyncs[i] < pendingSyncs[j]
    BY Zenon DEF SyncInv
  <2>2. CASE pendingSyncs' = pendingSyncs
    BY <1>5, <2>1, <2>2
  <2>3. CASE /\ pendingSyncs' = Append(pendingSyncs, NextId)
             /\ NextId \in incomplete' /\ c.kind = "execSync"
    BY <1>1, <1>4, <1>5, <2>1, <2>3
  <2>. QED
    BY <2>2, <2>3
<1>6. CompletedSyncOrder'
  <2> SUFFICES ASSUME NEW x \in Received' \ incomplete', cmds'[x].kind = "execSync",
                      NEW j \in 1..(x - 1)
               PROVE  j \notin incomplete'
    BY DEF CompletedSyncOrder
  <2>1. CASE x = NextId
    <3>1. c.kind = "execSync" /\ NextId \notin incomplete'
      BY <1>1, <2>1
    <3>2. j \notin incomplete /\ j # NextId
      BY <1>1, <2>1, <3>1
    <3>. QED
      BY <3>2
  <2>2. CASE x # NextId
    <3>2. x \in Received /\ x \notin incomplete
      BY <1>1, <2>2
    <3>3. cmds[x].kind = "execSync" /\ x < NextId
      BY <1>1, <3>2
    <3>4. CompletedSyncOrder
      BY Zenon DEF SyncInv
    <3>5. j \notin incomplete /\ j # NextId
      BY <1>1, <3>2, <3>3, <3>4 DEF CompletedSyncOrder, Received
    <3>. QED
      BY <3>5
  <2>. QED
    BY <2>1, <2>2
<1>7. ExecutionSyncOrdered' /\ sentCompleted' \subseteq Received' \ incomplete'
  <2>1. sentCompleted \subseteq Received \ incomplete /\ ExecutionSyncOrdered
    BY Zenon DEF SyncInv
  <2>2. CASE sentCompleted' = sentCompleted
    <3>1. sentCompleted' \subseteq Received' \ incomplete'
      BY <1>1, <2>1, <2>2
    <3>2. ExecutionSyncOrdered'
      <4> SUFFICES ASSUME NEW x \in sentCompleted', cmds'[x].kind = "execSync",
                          NEW j \in 1..(x - 1)
                   PROVE  j \in sentCompleted'
        BY DEF ExecutionSyncOrdered
      <4>1. x \in sentCompleted /\ x \in Received
        BY <2>1, <2>2
      <4>2. cmds[x].kind = "execSync"
        BY <1>1, <4>1
      <4>. QED
        BY <2>1, <2>2, <4>1, <4>2 DEF ExecutionSyncOrdered
    <3>. QED
      BY <3>1, <3>2
  <2>3. CASE sentCompleted' = Received' \ incomplete'
    <3>1. cmds' \in Seq(Cmd) /\ Received' = DOMAIN cmds'
      BY RecordType DEF Received
    <3>. QED
      BY <1>6, <2>3, <3>1, SendOrdered DEF CompletedSyncOrder, ExecutionSyncOrdered
  <2>. QED
    BY <2>2, <2>3
<1>9. incomplete' \subseteq Received'
  BY <1>1, <1>2
<1>. QED
  BY <1>3, <1>6, <1>7, <1>9, <1>10 DEF SyncInv

\* addPendingExecutionSync does not defer a sync only when front() of the
\* incomplete ids, the sync's own included, is the sync itself: nothing
\* received before it is incomplete.
LEMMA SyncNotDeferred ==
  ASSUME TypeInv, SyncInv, NextId \in Nat, ~SyncMustWait(incomplete \cup {NextId}, NextId)
  PROVE  \A j \in 1..(NextId - 1) : j \notin incomplete
<1>1. incomplete \subseteq Nat /\ \A y \in incomplete : y < NextId
  BY DEF SyncInv, TypeInv, TypeOK, Ids, Received, NextId
<1>2. MinClosed(incomplete \cup {NextId})
  BY <1>1, MinClosedAddMax DEF SyncInv
<1>3. /\ Front(incomplete \cup {NextId}) \in incomplete \cup {NextId}
      /\ \A y \in incomplete \cup {NextId} : Front(incomplete \cup {NextId}) <= y
  BY <1>2, FrontIsMin
<1>4. Front(incomplete \cup {NextId}) \in Nat
  BY <1>1, <1>3, Zenon
<1>5. Front(incomplete \cup {NextId}) >= NextId
  BY <1>4 DEF SyncMustWait
<1>. QED
  BY <1>1, <1>3, <1>4, <1>5

\* While the loop of completeRcvMsg may pop the first deferred sync, no id
\* below it is incomplete.
LEMMA DrainPopsLeast ==
  ASSUME TypeInv, SyncInv, DrainReady
  PROVE  /\ Head(pendingSyncs) \in incomplete
         /\ \A y \in incomplete : Head(pendingSyncs) <= y
<1>1. pendingSyncs \in Seq(Ids) /\ pendingSyncs # <<>>
  BY DEF TypeInv, TypeOK, DrainReady
<1>2. Head(pendingSyncs) \in incomplete
  <2>1. \A i \in 1..Len(pendingSyncs) : pendingSyncs[i] \in incomplete
    BY Zenon DEF SyncInv
  <2>2. 1 \in 1..Len(pendingSyncs)
    BY <1>1
  <2>. QED
    BY <1>1, <2>1, <2>2
<1>3. MinClosed(incomplete) /\ incomplete \subseteq Nat
  BY DEF SyncInv, TypeInv, TypeOK, Ids
<1>4. /\ Front(incomplete) \in incomplete
      /\ \A y \in incomplete : Front(incomplete) <= y
  BY <1>2, <1>3, FrontIsMin
<1>5. Front(incomplete) \in Nat /\ Head(pendingSyncs) \in Nat
  BY <1>2, <1>3, <1>4, Zenon
<1>. QED
  BY <1>2, <1>4, <1>5 DEF DrainReady

\* No step of the IO thread or of a worker breaks SyncInv.
LEMMA SyncNext == OrderInv /\ [Next]_vars => SyncInv'
<1> SUFFICES ASSUME OrderInv, [Next]_vars PROVE SyncInv'
  OBVIOUS
<1>0. /\ TypeInv /\ AcceptInv /\ SyncInv
      /\ incomplete \subseteq Received /\ Received = 1..Len(cmds)
  BY DEF OrderInv, SyncInv, Received, TypeInv, TypeOK
<1>1. ASSUME NEW s \in BOOLEAN, NEW a \in BOOLEAN, HandleTransferSync(s, a)
      PROVE SyncInv'
  <2>. DEFINE c == [kind |-> "transfer", sync |-> s, accept |-> a]
  <2>1. c \in Cmd /\ IoReady /\ Record(c)
    BY <1>1 DEF Cmd, Kinds, HandleTransferSync
  <2>2. NextId \notin incomplete
    BY <1>0 DEF NextId
  <2>3. /\ incomplete' = incomplete
        /\ UNCHANGED <<sentCompleted, pendingSyncs>>
    BY <1>1, <2>2 DEF HandleTransferSync, CompleteRcvMsg
  <2>. QED
    BY <1>0, <2>1, <2>3, SyncRecord
<1>2. ASSUME NEW s \in BOOLEAN, NEW a \in BOOLEAN, HandleTransferAsync(s, a)
      PROVE SyncInv'
  <2>. DEFINE c == [kind |-> "transfer", sync |-> s, accept |-> a]
  <2>1. c \in Cmd /\ IoReady /\ Record(c)
    BY <1>2 DEF Cmd, Kinds, HandleTransferAsync
  <2>2. /\ incomplete' = incomplete \cup {NextId}
        /\ UNCHANGED <<sentCompleted, pendingSyncs>>
    BY <1>2 DEF HandleTransferAsync
  <2>. QED
    BY <1>0, <2>1, <2>2, SyncRecord
<1>3. ASSUME NEW s \in BOOLEAN, HandleCommand(s) PROVE SyncInv'
  <2>. DEFINE c == [kind |-> "method", sync |-> s, accept |-> FALSE]
  <2>1. c \in Cmd /\ IoReady /\ Record(c)
    BY <1>3 DEF Cmd, Kinds, HandleCommand
  <2>2. Received' = Received \cup {NextId}
    BY <1>0, <2>1, RecordFacts
  <2>3. /\ incomplete' = incomplete /\ UNCHANGED pendingSyncs
        /\ \/ sentCompleted' = sentCompleted
           \/ sentCompleted' = (Received \cup {NextId}) \ incomplete'
    BY <1>3, Zenon DEF HandleCommand, SendAcceptAndCompletion
  <2>. QED
    BY <1>0, <2>1, <2>2, <2>3, SyncRecord
<1>4. ASSUME NEW s \in BOOLEAN, HandleExecutionSync(s) PROVE SyncInv'
  <2>. DEFINE c == [kind |-> "execSync", sync |-> s, accept |-> FALSE]
  <2>1. c \in Cmd /\ IoReady /\ Record(c)
    BY <1>4 DEF Cmd, Kinds, HandleExecutionSync
  <2>2. Received' = Received \cup {NextId} /\ NextId \in Nat
    BY <1>0, <2>1, RecordFacts DEF Ids
  <2>3. CASE SyncMustWait(incomplete \cup {NextId}, NextId)
    <3>1. /\ incomplete' = incomplete \cup {NextId}
          /\ pendingSyncs' = Append(pendingSyncs, NextId)
          /\ UNCHANGED sentCompleted
      BY <1>4, <2>3, Zenon DEF HandleExecutionSync, FlushPendingMessages
    <3>. QED
      BY <1>0, <2>1, <3>1, SyncRecord
  <2>4. CASE ~SyncMustWait(incomplete \cup {NextId}, NextId)
    <3>1. /\ incomplete' = incomplete /\ UNCHANGED pendingSyncs
          /\ \/ sentCompleted' = sentCompleted
             \/ sentCompleted' = (Received \cup {NextId}) \ incomplete'
      BY <1>4, <2>4, Zenon DEF HandleExecutionSync, SendAcceptAndCompletion
    <3>2. \A j \in 1..(NextId - 1) : j \notin incomplete
      BY <1>0, <2>2, <2>4, SyncNotDeferred
    <3>. QED
      BY <1>0, <2>1, <2>2, <3>1, <3>2, SyncRecord
  <2>. QED
    BY <2>3, <2>4
<1>5. ASSUME DrainStep PROVE SyncInv'
  <2>. DEFINE h == Head(pendingSyncs)
  <2>0. DrainReady /\ pendingSyncs \in Seq(Ids)
    BY <1>0, <1>5 DEF DrainStep, TypeInv, TypeOK
  <2>1. /\ h \in incomplete /\ \A y \in incomplete : h <= y
        /\ pendingSyncs # <<>> /\ h \in Nat /\ h = pendingSyncs[1]
    <3>1. h \in incomplete /\ \A y \in incomplete : h <= y
      BY <1>0, <2>0, DrainPopsLeast, Zenon
    <3>2. pendingSyncs # <<>> /\ h \in Nat /\ h = pendingSyncs[1]
      <4>1. pendingSyncs # <<>> /\ h = pendingSyncs[1]
        BY <2>0 DEF DrainReady
      <4>2. 1 \in 1..Len(pendingSyncs)
        BY <2>0, <4>1
      <4>. QED
        BY <2>0, <4>1, <4>2, ConstantTypes DEF Ids
    <3>. QED
      BY <3>1, <3>2
  <2>2. /\ incomplete' = incomplete \ {h} /\ pendingSyncs' = Tail(pendingSyncs)
        /\ UNCHANGED <<cmds, sentCompleted>>
    BY <1>5 DEF DrainStep
  <2>3. /\ \A i \in 1..Len(pendingSyncs) :
             pendingSyncs[i] \in incomplete /\ cmds[pendingSyncs[i]].kind = "execSync"
        /\ \A i, j \in 1..Len(pendingSyncs) : i < j => pendingSyncs[i] < pendingSyncs[j]
        /\ MinClosed(incomplete)
        /\ sentCompleted \subseteq Received \ incomplete
        /\ ExecutionSyncOrdered /\ CompletedSyncOrder
    BY <1>0, Zenon DEF SyncInv
  <2>4. /\ \A i \in 1..Len(pendingSyncs') :
             pendingSyncs'[i] \in incomplete' /\ cmds'[pendingSyncs'[i]].kind = "execSync"
        /\ \A i, j \in 1..Len(pendingSyncs') : i < j => pendingSyncs'[i] < pendingSyncs'[j]
    <3>1. /\ Len(pendingSyncs') = Len(pendingSyncs) - 1
          /\ \A i \in 1..Len(pendingSyncs') : pendingSyncs'[i] = pendingSyncs[i + 1]
      BY <2>0, <2>1, <2>2
    <3>2. \A i \in 1..Len(pendingSyncs') : pendingSyncs[i + 1] # h
      BY <2>0, <2>1, <2>3, <3>1
    <3>. QED
      BY <2>2, <2>3, <3>1, <3>2
  <2>5. MinClosed(incomplete')
    BY <2>2, <2>3, MinClosedSubset
  <2>6. CompletedSyncOrder'
    <3> SUFFICES ASSUME NEW x \in Received' \ incomplete', cmds'[x].kind = "execSync",
                        NEW j \in 1..(x - 1)
                 PROVE  j \notin incomplete'
      BY DEF CompletedSyncOrder
    <3>1. CASE x = h
      <4>1. j \in Nat /\ j < h
        BY <2>1, <3>1
      <4>. QED
        BY <2>1, <2>2, <4>1
    <3>2. CASE x # h
      BY <1>0, <2>2, <2>3, <3>2 DEF CompletedSyncOrder, Received
    <3>. QED
      BY <3>1, <3>2
  <2>. QED
    BY <1>0, <2>2, <2>3, <2>4, <2>5, <2>6 DEF SyncInv, ExecutionSyncOrdered, Received
<1>6. ASSUME DrainDone PROVE SyncInv'
  <2>1. /\ UNCHANGED <<cmds, incomplete, pendingSyncs>>
        /\ \/ sentCompleted' = sentCompleted
           \/ sentCompleted' = Received \ incomplete
    BY <1>6, Zenon DEF DrainDone, SendAcceptAndCompletion
  <2>2. CASE sentCompleted' = sentCompleted
    BY <1>0, <2>1, <2>2, SyncUnchanged
  <2>3. CASE sentCompleted' = Received \ incomplete
    <3>1. CompletedSyncOrder /\ cmds \in Seq(Cmd)
      BY <1>0, Zenon DEF SyncInv, TypeInv, TypeOK
    <3>2. ExecutionSyncOrdered'
      BY <2>1, <2>3, <3>1, SendOrdered DEF CompletedSyncOrder, ExecutionSyncOrdered, Received
    <3>. QED
      BY <1>0, <2>1, <2>3, <3>1, <3>2, Zenon DEF SyncInv, CompletedSyncOrder, MinClosed, Received
  <2>. QED
    BY <2>1, <2>2, <2>3
<1>7. ASSUME CompleteCommandsStep PROVE SyncInv'
  <2>. DEFINE m == completedMsgs[ccPos]
  <2>1. ccPos \in PendingRecs
    BY <1>7 DEF CompleteCommandsStep, PendingRecs
  <2>2. m.cmd \in incomplete /\ cmds[m.cmd].kind = "transfer"
    BY <1>0, <2>1 DEF AcceptInv
  <2>3. /\ incomplete' = incomplete \ {m.cmd}
        /\ UNCHANGED <<cmds, sentCompleted, pendingSyncs>>
    BY <1>7, Zenon DEF CompleteCommandsStep, CompleteRcvMsg
  <2>4. /\ \A i \in 1..Len(pendingSyncs) :
             pendingSyncs[i] \in incomplete /\ cmds[pendingSyncs[i]].kind = "execSync"
        /\ MinClosed(incomplete)
        /\ sentCompleted \subseteq Received \ incomplete
        /\ CompletedSyncOrder
    BY <1>0, Zenon DEF SyncInv
  <2>5. MinClosed(incomplete')
    BY <2>3, <2>4, MinClosedSubset
  <2>6. CompletedSyncOrder'
    BY <2>2, <2>3, <2>4 DEF CompletedSyncOrder, Received
  <2>7. \A i \in 1..Len(pendingSyncs') :
          pendingSyncs'[i] \in incomplete' /\ cmds'[pendingSyncs'[i]].kind = "execSync"
    BY <2>2, <2>3, <2>4
  <2>. QED
    BY <1>0, <2>3, <2>4, <2>5, <2>6, <2>7, Zenon DEF SyncInv, ExecutionSyncOrdered, Received
<1>8. CASE \/ CompleteCommandsBegin \/ CompleteCommandsEnd
           \/ DetachCompleter \/ DetachHandler \/ AttachHandler \/ AttachCompleter
           \/ Destroy \/ WorkerStep \/ UNCHANGED vars
  <2>1. UNCHANGED <<cmds, incomplete, sentCompleted, pendingSyncs>>
    BY <1>8, Zenon
       DEF CompleteCommandsBegin, CompleteCommandsEnd, DetachCompleter, Detached, DetachHandler,
           AttachHandler, AttachCompleter, Destroy, Cancel, WorkerStep, HolderRelease,
           HolderComplete, DeletePendingMessage, vars, sessionVars
  <2>. QED
    BY <1>0, <2>1, SyncUnchanged
<1>. QED
  BY <1>1, <1>2, <1>3, <1>4, <1>5, <1>6, <1>7, <1>8 DEF Next, IoStep

-----------------------------------------------------------------------------
(* The theorems.                                                           *)

\* OrderInv is inductive.
LEMMA OrderInvNext == OrderInv /\ [Next]_vars => OrderInv'
<1> SUFFICES ASSUME OrderInv, [Next]_vars PROVE OrderInv'
  OBVIOUS
<1>1. TypeInv'
  BY TypeInvNext DEF OrderInv
<1>. QED
  BY <1>1, AcceptNext, SyncNext DEF OrderInv

\* addPendingExecutionSync defers a sync behind any incomplete earlier
\* command, and the loop of completeRcvMsg releases the deferred syncs in
\* order only once front() of the incomplete ids has reached them: for every
\* bound, whenever the peer has been told an execution.sync is complete, it
\* has been told every earlier command is complete.
THEOREM ExecutionSyncOrderedHolds == Spec => []ExecutionSyncOrdered
<1>1. OrderInv => ExecutionSyncOrdered
  BY DEF OrderInv, SyncInv
<1>. QED
  BY <1>1, OrderInvInit, OrderInvNext, PTL DEF Spec

\* completeRcvMsg adds an id to `accepted` only when it completes it, a
\* message's ingress completes once (its last holder schedules one record,
\* and completeCommands walks each record once), and sendAcceptAndCompletion
\* clears `accepted` as it sends it: for every bound, no transfer is carried
\* in two Message.Accepts.
THEOREM NoDuplicateAcceptHolds == Spec => []NoDuplicateAccept
<1>1. OrderInv => NoDuplicateAccept
  BY DEF OrderInv, AcceptInv
<1>. QED
  BY <1>1, OrderInvInit, OrderInvNext, PTL DEF Spec

=============================================================================
