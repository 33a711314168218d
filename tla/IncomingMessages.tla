--------------------------- MODULE IncomingMessages ---------------------------
(***************************************************************************)
(* The client side of message receipt on one AMQP 0-10 session:           *)
(* qpid::client::amqp0_10::IncomingMessages                                *)
(* (src/cpp/src/qpid/client/amqp0_10/IncomingMessages.cpp).               *)
(*                                                                         *)
(* Actors.  The connection thread appends each Message.Transfer to the     *)
(* session's `incoming` queue.  Application threads call into the object   *)
(* concurrently: Receiver::fetch calls get() with a handler that accepts   *)
(* transfers for its own destination, Session::nextReceiver calls          *)
(* getNextDestination, and available(), releasePending() and releaseAll()  *)
(* pump the incoming queue.  A transfer popped by a thread that does not   *)
(* want it is pushed onto the shared `received` list under `lock`, where   *)
(* the other threads look for theirs.  `lock` is a qpid::sys::Mutex, which *)
(* is recursive on posix: wait() re-locks it inside getNextDestination.    *)
(*                                                                         *)
(* Abstractions.  A transfer is a model value with a destination;          *)
(* non-transfer commands on the queue are ignored by the code and left     *)
(* out.  A call's timeout is either FOREVER or finite; a finite one may    *)
(* expire whenever the thread is blocked on an empty queue.                *)
(***************************************************************************)
EXTENDS Naturals, Sequences, SequencesExt

CONSTANTS
  Threads,   \* application threads
  Dests,     \* receiver destinations (subscriptions)
  Msgs,      \* transfers the broker sends, each once
  MsgDest,   \* MsgDest[m]: the destination of transfer m
  NoMsg,     \* a thread's empty hand
  NoThread   \* nobody holds the lock

ASSUME IncomingAssumption ==
  /\ MsgDest \in [Msgs -> Dests]
  /\ NoMsg \notin Msgs
  /\ NoThread \notin Threads

\* The call a thread is in.
Calls == [kind : {"fetch", "releasePending", "availableDest"}, dest : Dests]
           \cup [kind : {"next", "available", "releaseAll", "none"}]
NoCall == [kind |-> "none"]
Pcs == {"idle", "process", "popped", "nextWait", "drain", "releasing"}

VARIABLES
  sent,       \* transfers the broker has sent so far
  incoming,   \* the session's incoming queue (LocalQueue of framesets)
  received,   \* IncomingMessages::received
  lockOwner,  \* the thread holding `lock` across a blocking wait, or NoThread
  pc,         \* pc[t]: where thread t is in its call
  call,       \* call[t]: the call thread t is making
  timed,      \* timed[t]: the call has a finite timeout
  hand,       \* hand[t]: the transfer thread t popped and has not yet placed
  fetched,    \* fetched[m]: m was returned by a fetch (retrieve)
  discarded,  \* transfers taken off the lists without being returned by a fetch
  pendingAccept, \* acceptTracker: ids retrieved and not yet accepted or released
  acceptedIds,   \* ids the broker was told to accept (Message.Accept)
  releasedIds,   \* ids the broker was told to release (Message.Release)
  count       \* count[t]: what thread t's last available() call returned

settleVars == <<pendingAccept, acceptedIds, releasedIds>>

vars == <<sent, incoming, received, lockOwner, pc, call, timed, hand, fetched, discarded,
          pendingAccept, acceptedIds, releasedIds,
          count>>

\* Locking `lock` (a recursive mutex) does not block thread t.
LockFreeFor(t) == lockOwner \in {NoThread, t}

\* The handler of the call accepts m: a fetch for m's destination (the
\* handler of releaseAll, GetAny, accepts everything; a pump has none).
Accepts(c, m) ==
  \/ c.kind = "fetch" /\ MsgDest[m] = c.dest
  \/ c.kind = "releaseAll"

\* Index of the first transfer in `received` the call's handler accepts, or 0.
FirstAccepted(c) == SelectInSeq(received, LAMBDA m : Accepts(c, m))

\* MatchAndTrack(d) of releasePending: m is a transfer for destination d (its
\* id is then tracked for messageRelease).
MatchAndTrack(d, m) == MsgDest[m] = d

\* Match(d) of available(d), applied by for_each to received: the number of
\* received transfers for destination d.
Match(d) == Len(SelectSeq(received, LAMBDA m : MsgDest[m] = d))

\* retrieve(), through MessageTransfer::retrieve from the accepting handler:
\* a fetch's handler converts the transfer into the caller's message, and
\* releaseAll's GetAny only takes it off; either way its id is recorded with
\* acceptTracker.delivered under the lock (explicit accept mode) and the
\* command is marked completed.
Retrieve(c, m) ==
  /\ \/ c.kind = "fetch" /\ fetched' = [fetched EXCEPT ![m] = TRUE] /\ UNCHANGED discarded
     \/ c.kind = "releaseAll" /\ discarded' = discarded \cup {m} /\ UNCHANGED fetched
  /\ pendingAccept' = pendingAccept \cup {m}
  /\ UNCHANGED <<acceptedIds, releasedIds>>

\* Return from the call.
Return(t) ==
  /\ pc' = [pc EXCEPT ![t] = "idle"]
  /\ call' = [call EXCEPT ![t] = NoCall]

-----------------------------------------------------------------------------
(* The connection thread.                                                   *)

\* The broker's transfer m arrives on the session's incoming queue.
Arrive(m) ==
  /\ m \notin sent
  /\ sent' = sent \cup {m}
  /\ incoming' = Append(incoming, m)
  /\ UNCHANGED <<received, lockOwner, pc, call, timed, hand, fetched, discarded,
                 count, settleVars>>

-----------------------------------------------------------------------------
(* Application threads.                                                     *)

\* Mutant: the transfer found in received is returned but not erased.
GetNoErase(t, d, tm) ==
  /\ pc[t] = "idle"
  /\ LockFreeFor(t)
  /\ timed' = [timed EXCEPT ![t] = tm]
  /\ LET c == [kind |-> "fetch", dest |-> d]
         i == FirstAccepted(c)
     IN \/ /\ i # 0
           /\ Retrieve(c, received[i])
           /\ UNCHANGED <<pc, call, received>>
        \/ /\ i = 0
           /\ pc' = [pc EXCEPT ![t] = "process"]
           /\ call' = [call EXCEPT ![t] = c]
           /\ UNCHANGED <<received, fetched, discarded, settleVars>>
  /\ UNCHANGED <<count, sent, incoming, lockOwner, hand>>

\* get(handler, timeout) for destination d: under the lock, search received
\* for a transfer the handler accepts and erase it; if there is none, release
\* the lock and go on to process().
Get(t, d, tm) ==
  /\ pc[t] = "idle"
  /\ LockFreeFor(t)
  /\ timed' = [timed EXCEPT ![t] = tm]
  /\ LET c == [kind |-> "fetch", dest |-> d]
         i == FirstAccepted(c)
     IN \/ /\ i # 0
           /\ Retrieve(c, received[i])
           /\ received' = RemoveAt(received, i)
           /\ UNCHANGED <<pc, call>>
        \/ /\ i = 0
           /\ pc' = [pc EXCEPT ![t] = "process"]
           /\ call' = [call EXCEPT ![t] = c]
           /\ UNCHANGED <<received, fetched, discarded, settleVars>>
  /\ UNCHANGED <<count, sent, incoming, lockOwner, hand>>

\* process(): incoming->pop(content, timeout) takes the head transfer.
Pop(t) ==
  /\ pc[t] \in {"process", "drain"}
  /\ incoming # <<>>
  /\ hand' = [hand EXCEPT ![t] = Head(incoming)]
  /\ incoming' = Tail(incoming)
  /\ pc' = [pc EXCEPT ![t] = "popped"]
  /\ UNCHANGED <<count, sent, received, lockOwner, call, timed, fetched, discarded,
                 settleVars>>

\* The handler accepts the popped transfer and retrieves it, which takes the
\* lock to record the id: a fetch returns true, releaseAll's pump pops again.
Deliver(t) ==
  /\ pc[t] = "popped"
  /\ Accepts(call[t], hand[t])
  /\ LockFreeFor(t)
  /\ Retrieve(call[t], hand[t])
  /\ hand' = [hand EXCEPT ![t] = NoMsg]
  /\ \/ call[t].kind = "fetch" /\ Return(t)
     \/ call[t].kind = "releaseAll" /\ pc' = [pc EXCEPT ![t] = "drain"]
                                     /\ UNCHANGED call
  /\ UNCHANGED <<count, sent, incoming, received, lockOwner, timed>>

\* Not for this handler (or no handler): lock, push it onto received, unlock,
\* and pop again within the remaining timeout.
Keep(t) ==
  /\ pc[t] = "popped"
  /\ ~Accepts(call[t], hand[t])
  /\ LockFreeFor(t)
  /\ received' = Append(received, hand[t])
  /\ hand' = [hand EXCEPT ![t] = NoMsg]
  /\ pc' = [pc EXCEPT ![t] = IF call[t].kind = "fetch" THEN "process" ELSE "drain"]
  /\ UNCHANGED <<count, sent, incoming, lockOwner, call, timed, fetched, discarded,
                 settleVars>>

\* pop() times out on an empty queue: a fetch with a finite timeout returns
\* false.
GetTimeout(t) ==
  /\ pc[t] = "process"
  /\ timed[t]
  /\ incoming = <<>>
  /\ Return(t)
  /\ UNCHANGED <<count, sent, incoming, received, lockOwner, timed, hand, fetched,
                 discarded, settleVars>>

\* getNextDestination: lock; if received is empty, wait() on incoming while
\* holding the lock; otherwise return the destination of received's front.
NextDestination(t, tm) ==
  /\ pc[t] = "idle"
  /\ LockFreeFor(t)
  /\ timed' = [timed EXCEPT ![t] = tm]
  /\ \/ received # <<>> /\ UNCHANGED <<pc, call, lockOwner>>
     \/ /\ received = <<>>
        /\ lockOwner' = t
        /\ pc' = [pc EXCEPT ![t] = "nextWait"]
        /\ call' = [call EXCEPT ![t] = [kind |-> "next"]]
  /\ UNCHANGED <<count, sent, incoming, received, hand, fetched, discarded, settleVars>>

\* wait(): a transfer is popped, pushed onto received (the recursive lock is
\* already held) and getNextDestination returns its destination, unlocking.
NextWaitPop(t) ==
  /\ pc[t] = "nextWait"
  /\ incoming # <<>>
  /\ received' = Append(received, Head(incoming))
  /\ incoming' = Tail(incoming)
  /\ lockOwner' = NoThread
  /\ Return(t)
  /\ UNCHANGED <<count, sent, timed, hand, fetched, discarded, settleVars>>

\* wait() times out: getNextDestination returns false and unlocks.
NextWaitTimeout(t) ==
  /\ pc[t] = "nextWait"
  /\ timed[t]
  /\ incoming = <<>>
  /\ lockOwner' = NoThread
  /\ Return(t)
  /\ UNCHANGED <<count, sent, incoming, received, timed, hand, fetched, discarded,
                 settleVars>>

\* available(), available(d), releasePending(d) and releaseAll() pump the queue first with
\* process(handler, 0); releaseAll first retrieves every transfer already in
\* received (under the lock) and pumps with GetAny; the others pump
\* without the lock.
Pump(t, c) ==
  /\ pc[t] = "idle"
  /\ c \in Calls \ {NoCall}
  /\ c.kind \notin {"fetch", "next"}
  /\ c.kind = "releaseAll" => LockFreeFor(t)
  /\ pc' = [pc EXCEPT ![t] = "drain"]
  /\ call' = [call EXCEPT ![t] = c]
  /\ \/ /\ c.kind = "releaseAll"
        /\ discarded' = discarded \cup Range(received)
        /\ pendingAccept' = pendingAccept \cup Range(received)
        /\ received' = <<>>
        /\ UNCHANGED <<acceptedIds, releasedIds>>
     \/ c.kind # "releaseAll" /\ UNCHANGED <<discarded, received, settleVars>>
  /\ UNCHANGED <<count, sent, incoming, lockOwner, timed, hand, fetched>>

\* Mutant: releaseAll releases the tracked ids but leaves them in the tracker.
PumpDoneKeepsPending(t) ==
  /\ pc[t] = "drain"
  /\ incoming = <<>>
  /\ LockFreeFor(t)
  /\ \/ /\ call[t].kind = "releaseAll"
        /\ releasedIds' = releasedIds \cup pendingAccept
        /\ Return(t)
        /\ UNCHANGED <<lockOwner, pendingAccept, acceptedIds>>
     \/ /\ call[t].kind = "releasePending"
        /\ lockOwner' = t
        /\ pc' = [pc EXCEPT ![t] = "releasing"]
        /\ UNCHANGED <<call, settleVars>>
  /\ UNCHANGED <<count, sent, incoming, received, timed, hand, fetched, discarded>>

\* The pump's process(0, 0) finds the queue empty and the loop ends; then the
\* lock is taken: releaseAll() releases every id the tracker holds
\* (acceptTracker.release), the ones its GetAny retrieved and the ones
\* fetched earlier and not yet accepted, and returns; releasePending(d) starts its loop
\* over received, holding the lock until it returns.
PumpDone(t) ==
  /\ pc[t] = "drain"
  /\ incoming = <<>>
  /\ LockFreeFor(t)
  /\ \/ /\ call[t].kind = "releaseAll"
        /\ releasedIds' = releasedIds \cup pendingAccept
        /\ pendingAccept' = {}
        /\ Return(t)
        /\ UNCHANGED <<lockOwner, acceptedIds>>
     \/ /\ call[t].kind = "releasePending"
        /\ lockOwner' = t
        /\ pc' = [pc EXCEPT ![t] = "releasing"]
        /\ UNCHANGED <<call, settleVars>>
  /\ UNCHANGED <<count, sent, incoming, received, timed, hand, fetched, discarded>>

\* Index of the first transfer in received that MatchAndTrack(d) matches, or
\* 0.  The loop's iterator has passed only transfers it did not match, so
\* this is the next one it erases.
NextMatch(d) == SelectInSeq(received, LAMBDA m : MatchAndTrack(d, m))

\* releasePending(d)'s for loop: received.erase(i) of the next transfer for
\* d, its id tracked for messageRelease (advancing over a transfer for
\* another destination changes nothing).
ReleaseErase(t) ==
  /\ pc[t] = "releasing"
  /\ LET i == NextMatch(call[t].dest)
     IN /\ i # 0
        /\ discarded' = discarded \cup {received[i]}
        /\ releasedIds' = releasedIds \cup {received[i]}
        /\ received' = RemoveAt(received, i)
  /\ UNCHANGED <<count, sent, incoming, lockOwner, pc, call, timed, hand, fetched,
                 pendingAccept, acceptedIds>>

\* The loop reaches received.end(): session.messageRelease(match.ids), and
\* the lock is released on return.
ReleaseDone(t) ==
  /\ pc[t] = "releasing"
  /\ NextMatch(call[t].dest) = 0
  /\ lockOwner' = NoThread
  /\ Return(t)
  /\ UNCHANGED <<count, sent, incoming, received, timed, hand, fetched, discarded,
                 settleVars>>

\* available() and available(d) after their pump: under the lock, return the
\* size of received, or the number of d's transfers in it (Match).
AvailableDone(t) ==
  /\ pc[t] = "drain"
  /\ incoming = <<>>
  /\ LockFreeFor(t)
  /\ \/ call[t].kind = "available" /\ count' = [count EXCEPT ![t] = Len(received)]
     \/ call[t].kind = "availableDest" /\ count' = [count EXCEPT ![t] = Match(call[t].dest)]
  /\ Return(t)
  /\ UNCHANGED <<sent, incoming, received, lockOwner, timed, hand, fetched,
                 discarded, settleVars>>

\* accept(): under the lock, acceptTracker.accept(session) accepts every id
\* the tracker holds (Message.Accept) and forgets them.
AcceptAll(t) ==
  /\ pc[t] = "idle"
  /\ LockFreeFor(t)
  /\ acceptedIds' = acceptedIds \cup pendingAccept
  /\ pendingAccept' = {}
  /\ UNCHANGED <<count, sent, incoming, received, lockOwner, pc, call, timed, hand,
                 fetched,
                 discarded, releasedIds>>

\* accept(id, false): under the lock, accept the one tracked id m.
AcceptId(t, m) ==
  /\ pc[t] = "idle"
  /\ LockFreeFor(t)
  /\ m \in pendingAccept
  /\ acceptedIds' = acceptedIds \cup {m}
  /\ pendingAccept' = pendingAccept \ {m}
  /\ UNCHANGED <<count, sent, incoming, received, lockOwner, pc, call, timed, hand,
                 fetched,
                 discarded, releasedIds>>

-----------------------------------------------------------------------------

Init ==
  /\ sent = {}
  /\ incoming = <<>>
  /\ received = <<>>
  /\ lockOwner = NoThread
  /\ pc = [t \in Threads |-> "idle"]
  /\ call = [t \in Threads |-> NoCall]
  /\ timed = [t \in Threads |-> FALSE]
  /\ hand = [t \in Threads |-> NoMsg]
  /\ fetched = [m \in Msgs |-> FALSE]
  /\ discarded = {}
  /\ pendingAccept = {}
  /\ acceptedIds = {}
  /\ releasedIds = {}
  /\ count = [t \in Threads |-> 0]

Next ==
  \/ \E m \in Msgs : Arrive(m)
  \/ \E t \in Threads :
       \/ \E d \in Dests, tm \in BOOLEAN : Get(t, d, tm)
       \/ \E tm \in BOOLEAN : NextDestination(t, tm)
       \/ \E c \in Calls : Pump(t, c)
       \/ Pop(t) \/ Deliver(t) \/ Keep(t) \/ GetTimeout(t) \/ PumpDone(t)
       \/ AvailableDone(t) \/ ReleaseErase(t) \/ ReleaseDone(t)
       \/ NextWaitPop(t) \/ NextWaitTimeout(t)
       \/ AcceptAll(t) \/ \E m \in Msgs : AcceptId(t, m)

\* A thread inside a call keeps running it: it pops when the queue is
\* non-empty, places what it popped once the lock is free, finishes a pump
\* and runs releasePending's loop to its end.  Nothing forces a call to
\* start, a message to arrive or a finite timeout to expire.
Fairness ==
  \A t \in Threads :
    /\ WF_vars(Pop(t)) /\ WF_vars(Deliver(t)) /\ WF_vars(Keep(t))
    /\ WF_vars(PumpDone(t)) /\ WF_vars(AvailableDone(t)) /\ WF_vars(NextWaitPop(t))
    /\ WF_vars(ReleaseErase(t)) /\ WF_vars(ReleaseDone(t))

Spec == Init /\ [][Next]_vars /\ Fairness

-----------------------------------------------------------------------------
(* Properties.                                                             *)

\* Every variable holds a value of its type.
TypeOK ==
  /\ sent \subseteq Msgs
  /\ incoming \in Seq(Msgs)
  /\ received \in Seq(Msgs)
  /\ lockOwner \in Threads \cup {NoThread}
  /\ pc \in [Threads -> Pcs]
  /\ call \in [Threads -> Calls]
  /\ timed \in [Threads -> BOOLEAN]
  /\ hand \in [Threads -> Msgs \cup {NoMsg}]
  /\ fetched \in [Msgs -> BOOLEAN]
  /\ discarded \subseteq Msgs
  /\ pendingAccept \subseteq Msgs
  /\ acceptedIds \subseteq Msgs
  /\ releasedIds \subseteq Msgs
  /\ count \in [Threads -> 0 .. Cardinality(Msgs)]

\* Number of places transfer m is in: the incoming queue, the received list,
\* a thread's hand, returned by a fetch, discarded.
Places(m) ==
  Cardinality({i \in DOMAIN incoming : incoming[i] = m})
  + Cardinality({i \in DOMAIN received : received[i] = m})
  + Cardinality({t \in Threads : hand[t] = m})
  + (IF fetched[m] THEN 1 ELSE 0)
  + (IF m \in discarded THEN 1 ELSE 0)

\* get(), process(), getNextDestination() and the pumps move transfers
\* between the incoming queue, the received list and the callers under
\* concurrent use: every transfer the broker sent is in exactly one place,
\* so none is lost, returned twice, or both returned and discarded.
MessageConserved == \A m \in sent : Places(m) = 1

\* accept() on one thread, and releaseAll() (acceptTracker.release) or
\* releasePending() (messageRelease of the ids it erased) on another, settle
\* each transfer at most one way: the broker is never told both to accept
\* and to release the same transfer.
NoDoubleSettle == acceptedIds \cap releasedIds = {}

\* A transfer for destination d that has been sent and is neither fetched nor
\* discarded.
Pending(d) == \E m \in sent : MsgDest[m] = d /\ ~fetched[m] /\ m \notin discarded

\* Receiver::fetch with no timeout (get(handler, FOREVER)): a fetch for d that
\* is blocked while a transfer for d is pending eventually returns, unless
\* that transfer is taken by someone else.
FetchReturns ==
  \A t \in Threads, d \in Dests :
    (call[t] = [kind |-> "fetch", dest |-> d] /\ ~timed[t] /\ Pending(d))
      ~> (pc[t] = "idle" \/ ~Pending(d))
\* Session::nextReceiver with no timeout (getNextDestination(FOREVER)): a call
\* blocked, holding the lock, while some transfer has been sent and is not
\* yet fetched or discarded eventually returns, unless every such transfer
\* is taken by another caller ("if there is not already a received message,
\* we must wait for one").
NextDestinationReturns ==
  \A t \in Threads :
    (pc[t] = "nextWait" /\ ~timed[t] /\ \E d \in Dests : Pending(d))
      ~> (pc[t] = "idle" \/ ~\E d \in Dests : Pending(d))

=============================================================================
