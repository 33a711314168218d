# Verification project for qpid-spf

TLA+ models, TLC runs and TLAPS proofs for the Qpid C++ broker tree in
`src/` (qpid-spf). Five parts of the code are modelled:

* the broker's inbound command pipeline for one AMQP 0-10 session;
* the client's dispatch of incoming transfers to receivers;
* the SPF router plugin, with its holding queue and timer tick;
* the conversion between qpid Variants and Python objects at the SPF engine boundary;
* the HA backup role, with its promotion check.

Producer flow control is checked through its unit test.

## The system and its parts

| Part | Source | Status | Modules |
|---|---|---|---|
| Session inbound pipeline: `handleIn`, `handleContent`, `handleCommand`, `addPendingExecutionSync`, `completeRcvMsg`, `sendAcceptAndCompletion`, `detach`/`attach`, destructor | `broker/SessionState.cpp` | partly | `SessionState`, `MCSessionState`, `SessionStateProofs`, `SessionSyncProofs` |
| `AsyncCommandCompleter` and `IncompleteIngressMsgXfer` (completion across threads) | `broker/SessionState.cpp` | modelled | same |
| Client dispatch across receivers (`IncomingMessages`) | `client/amqp0_10/IncomingMessages.cpp` | modelled | `IncomingMessages`, `MCIncomingMessages`, `IncomingProofs` |
| SPF router plugin (`Router`, `SpfExchange`) | `spf/Router.cpp`, `spf/SpfExchange.cpp` | modelled | `SpfRouter`, `MCSpfRouter` |
| SPF value conversion (`PythonVariant`) | `spf/PythonTypes.cpp` | modelled | `PythonVariant`, `MCPythonVariant` |
| HA backup role (`Backup`, `StatusCheck`) | `ha/Backup.cpp`, `ha/StatusCheck.h` | modelled | `HaCluster` (abstract), `HaBackup`, `MCHaBackup`, `HaBackupProofs` |
| Producer flow control, through its unit test | `tests/QueueFlowLimitTest.cpp` | partly | `QueueFlowLimit` |
| Queue creation (`QueueFactory::create`) | `broker/QueueFactory.cpp` | not modelled | see the end |
| AMQP 1.0 client receiver, codecs, SASL, QMF values, generated QMF code, utilities | various | not modelled | see the end |

The parts share no state with each other in this tree, and each module
stands alone. `SpfRouter` and `PythonVariant` both model
`Router::handleControlMessage` and `send_cb`. `SpfRouter` models them as
routing steps, and `PythonVariant` models the conversion of the body they carry.

## Session pipeline

Three kinds of actor interact in the session pipeline:

* **The connection's IO thread.** It calls `handleIn` for each received
  command. It runs the `completeCommands` callbacks that workers ask it to run
  (`requestIOProcessing`). It also detaches, re-attaches and destroys the session.
* **Worker threads** (store and replication). Each holds a reference to a
  message's ingress completion. The last one to release it runs
  `IncompleteIngressMsgXfer::completed(false)`, which calls
  `scheduleMsgCompletion` under `completerLock`.
* **The completer** sits between the two. It keeps `pendingMsgs` (unsynced
  transfers that a later `execution.sync` must flush), `completedMsgs` (a
  batch waiting for the IO thread), `isAttached` and a `session` pointer
  cleared by `cancel()`.

### Module `SessionState`: correspondence with the code

State (one variable per field or condition of the code):

| Variable | Field or condition in the code |
|---|---|
| `cmds` | commands received so far (the receiver's command point); the id of a command is its index |
| `incomplete` | `receiver.incomplete` |
| `accepted` | `accepted` |
| `pendingSyncs` | `pendingExecutionSyncs` |
| `sentCompleted` | what the last `Execution.Completed` told the peer |
| `sentAccepted` | what `Message.Accept` frames told the peer |
| `rcvSync`, `callSend` | the locals `requiresSync` and `callSendCompletion` of a `completeRcvMsg` call in progress |
| `holders[id]` | outstanding async references on a message's ingress completion |
| `flushed` | messages whose store write has been forced |
| `pendingMsgs`, `completedMsgs`, `complAttached`, `complSession` | the completer's fields; `complSession` means `session != 0` |
| `ioRequests` | queued `completeCommands` callbacks |
| `ccPos` | the record that `completeCommands` is at, while it holds the lock |
| `handler` | `handler != 0` |
| `destroyed` | the destructor has run |
| `ioPc` | what the IO thread is in the middle of |

Actions, each modelling a whole handler including the calls it makes:

| Action | What it models |
|---|---|
| `HandleTransferSync`, `HandleTransferAsync` | `handleContent` ending in `end(xfer)`, with no async holder or with some; the async case runs `clone()`, which flushes or calls `addPendingMessage` |
| `HandleCommand` | `handleCommand` for a method with or without the sync bit |
| `HandleExecutionSync` | `addPendingExecutionSync`: complete now, or defer, then `flushPendingMessages` |
| `DrainStep`, `DrainDone` | the `while` loop of `completeRcvMsg`, then its final `sendAcceptAndCompletion` |
| `HolderRelease`, `HolderComplete` | workers; the last holder runs `completed(false)` into `deletePendingMessage` and `scheduleMsgCompletion`. `scheduleMsgCompletion` queues one IO request per batch, when `completedMsgs` becomes size 1 |
| `CompleteCommandsBegin`, `CompleteCommandsStep`, `CompleteCommandsEnd` | `completeCommands`: the guard `session && session->isAttached()`, one `completeRcvMsg` per record with its drain, then `clear()` |
| `DetachCompleter`, `DetachHandler` | the two steps of `detach()` |
| `AttachHandler`, `AttachCompleter` | the two steps of `attach()` |
| `Destroy` | the destructor's `cancel()` |

The completer's own methods are operators that these actions use:
`AddPendingMessage`, `DeletePendingMessage`, `FlushPendingMessages`,
`Detached` and `Cancel`.

Data is abstracted to what the properties tell apart:

* A command is its kind, its sync bit and its accept mode.
* Routing is reduced to the number of async holders.
* Ids are `1..MaxCmd`, below the 32-bit `SequenceNumber` wrap.

Four definitions model code outside `src/` (the `qpid::SessionState`
receiver and `SequenceSet`); they are marked `spec_modelled` in the
map. So are the worker-side `AsyncCompletion::end` and the store flush.

### Session runs

| Run | cfg | Result | What it shows |
|---|---|---|---|
| `session_safety` | `MCSessionState.cfg` | pass, about 7.8M distinct states in under a minute | `TypeOK`, `ExecutionSyncOrdered`, `NoDuplicateAccept`, `CompleterSeesHandler`, `NoStrandedCompletion`, and the action property `NoUseAfterDestroy` |
| `session_liveness` | `MCSessionLive.cfg` | pass | `SyncedCommandsReported` on a session that stays attached |

The properties:

* **`ExecutionSyncOrdered`:** an `execution.sync` reported complete implies
  that every earlier command was reported complete. This covers the
  front-of-set comparison in `addPendingExecutionSync` and the drain loop.
* **`NoDuplicateAccept`:** no transfer is in a second `Message.Accept`.
* **`CompleterSeesHandler`:** a worker that finds the completer attached
  always finds a handler. This depends on the order of the two steps of
  detach and attach.
* **`NoStrandedCompletion`:** a queued completion record always has an IO
  callback queued or running. This is the size-1 wake-up coalescing.
* **`NoUseAfterDestroy`:** after `cancel()`, nothing changes the session's
  bookkeeping.
* **`SyncedCommandsReported`:** every command with the sync bit is
  eventually reported complete, on a session that stays attached. After a
  detach, `detached()` disables completion scheduling from every thread
  (its comment, and the test at line 450), and session resume is not
  implemented (lines 330-331); the specification leaves resume undefined
  (section 9). So no property claims that a re-attached session reports a
  completion dropped while it was detached.

Every property has a mutant of the code that TLC finds it violated by
(listed in `PROJECT.json`), for example:

* a dropped `session &&` guard;
* `size() == 1` tested before the push;
* an off-by-one in the sync deferral;
* a missing `accepted.clear()`;
* the detach steps swapped;
* an `execution.sync` that does not flush.

**Bounds.**

* `MaxCmd = 4` reaches a sync deferred behind a transfer twice
  (transfer, sync, transfer, sync). It also reaches two deferred syncs drained in
  one `completeRcvMsg`, and an accept batched with a completion.
* `MaxHolders = 2` lets one holder of a message finish before the other,
  and lets a completion race the routing of the next command.
* `MaxDetach = 1` gives one full detach/re-attach cycle, interleaved with
  every other step.
* The liveness runs use three commands, which is enough for a transfer
  followed by syncs.

**Fairness.** Weak fairness is assumed on the IO thread's steps that finish
work it has started or was asked to do:

* the drain loop;
* the three steps of `completeCommands`;
* the second half of detach and of attach.

It is also assumed for the completion of a store write that has been
*flushed*. A write that was never flushed may wait in the store's buffer
forever, which is exactly why `clone()` and `addPendingExecutionSync` flush.
No fairness is assumed on the peer sending commands, or on detach and destroy.

### Session proofs (`SessionStateProofs`, TLAPS)

Each theorem is proved for every value of `MaxCmd`, `MaxHolders` and
`MaxDetach` that satisfies `SessionAssumption` (positive command and holder
bounds, natural detach bound).

* **`TypeCorrect`: `Spec => []TypeOK`.**
  * The inductive invariant is `TypeInv`: `TypeOK` plus the fact that every
    message with outstanding holders is a received command. Without that fact,
    a `HolderComplete` step could not be shown to build a well-typed
    `MessageInfo`.
  * The step proof has one case per action, with lemmas for `Record`,
    `Received` and `sendAcceptAndCompletion`.
* **`CompleterSeesHandlerHolds`: `Spec => []CompleterSeesHandler`.**
  * The invariant is not inductive by itself. It is strengthened to
    `LinkInv`, which adds that the completer is detached while the IO thread is
    between the two steps of detach, and that the handler is set between the
    two steps of attach.
  * `LinkInv` was first checked by TLC as an invariant.
* **`NoStrandedCompletionHolds`: `Spec => []NoStrandedCompletion`.** It is
  proved inductive together with `TypeInv`, because the `Append` and
  `Len` facts need the types.
* **`NoUseAfterDestroyHolds`: `Spec => NoUseAfterDestroy`** (an action
  property).
  * It rests on `DestroyInv`: once destroyed, the completer's session
    pointer is cleared, the IO thread is between calls, and no
    `completeCommands` walk is in progress.
  * `Destroy` establishes it, because its guard requires an idle IO thread
    and no walk.
  * It is kept because every IO handler and detach/attach is guarded by
    `~destroyed` or by an IO position that a destroyed session never reaches.
    A `completeCommands` callback that runs after `cancel()` drops its batch
    instead of starting a walk. A worker's `scheduleMsgCompletion` queues
    nothing once the pointer is cleared.
  * `DestroyInv` was first checked by TLC as an invariant of the
    `session_safety` instance.

**Ordering proofs (`SessionSyncProofs`).** This module extends
`SessionStateProofs` and proves:

* `ExecutionSyncOrderedHolds`: `Spec => []ExecutionSyncOrdered`;
* `NoDuplicateAcceptHolds`: `Spec => []NoDuplicateAccept`.

Both rest on `OrderInv == TypeInv /\ AcceptInv /\ SyncInv`, which TLC
checked as an invariant of the `session_safety` instance (7.8 million
distinct states) before it was proved.

* `AcceptInv` relates the accept sets to the completion pipeline:
  * accepted and sent-accepted ids are received ids that are no longer
    incomplete;
  * a message with holders is an incomplete transfer;
  * a queued completion record that the walk has not reached names an
    incomplete transfer with no holders left;
  * no two such records name the same command.

  From these, a completion can never add to `accepted` an id that has already
  been sent.
* `SyncInv` relates the deferred syncs to the incomplete set:
  * `pendingExecutionSyncs` is strictly increasing and holds only incomplete
    `execution.sync` ids;
  * every sent completion is for a complete id;
  * every completed `execution.sync` has all its predecessors complete
    (`CompletedSyncOrder`).
* `MinClosed(incomplete)`: every non-empty subset of `incomplete` has a
  least element.
  * It is part of the invariant because `Front`, the receiver's
    `front()`, is a `CHOOSE` of the least element. Its existence cannot be
    obtained from the library's well-founded induction, whose theorems take
    an operator parameter that the installed provers cannot instantiate.
  * It is inductive because ids enter `incomplete` in increasing order, one
    above every id already received (`MinClosedAddMax`), and leave it only
    by removal (`MinClosedSubset`).
  * With it, `DrainPopsLeast` shows that the drain loop pops the least
    deferred sync only when nothing before it is incomplete.

**What stays with TLC.** TLAPS cannot reason about liveness
(`SyncedCommandsReported`) or about anything that uses `ENABLED`, so these
are only model-checked.

Nothing in these modules uses `RECURSIVE`.


## Client dispatch: module `IncomingMessages`

Several application threads share one `IncomingMessages` object:

* `Receiver::fetch` calls `get()` with a handler for its destination.
* `Session::nextReceiver` calls `getNextDestination()`.
* `available()`, `available(destination)`, `releasePending()` and
  `releaseAll()` first pump the incoming queue.

The connection thread appends every `Message.Transfer` to `incoming`. A
transfer popped by a thread that does not want it is pushed onto the shared
`received` list under `lock`. `qpid::sys::Mutex` is recursive on posix, so
the lock is modelled as an owner that may re-lock it. Only
`getNextDestination` holds it across a blocking wait.

| Variable | Code |
|---|---|
| `incoming`, `received` | the session's incoming queue, `IncomingMessages::received` |
| `lockOwner` | the thread holding `lock` across `wait()` |
| `pc`, `call`, `timed`, `hand` | where each thread is, its call, whether its timeout is finite, the frameset it popped |
| `sent`, `fetched`, `discarded` | transfers sent by the broker, returned by a fetch, taken off the lists without being returned (by `releaseAll`, or by `releasePending`'s erase) |
| `pendingAccept`, `acceptedIds`, `releasedIds` | the `AcceptTracker`'s delivered-but-unsettled ids, and the ids sent to the broker in `Message.Accept` and in `Message.Release` |
| `count` | what each thread's last `available` call returned |

| Action | Code |
|---|---|
| `Arrive` | the session demux queues a transfer (outside `src/`, `spec_modelled`) |
| `Get` | `get()`: scan `received` under the lock and erase the match, or go on to `process()` |
| `Pop`, `Deliver`, `Keep`, `GetTimeout` | `process()`: `pop`, the handler accepts (`Retrieve`, also used by `Get`), or the transfer is pushed onto `received` under the lock; a finite pop times out |
| `NextDestination`, `NextWaitPop`, `NextWaitTimeout` | `getNextDestination()` with `wait()` |
| `Pump`, `PumpDone`, `AvailableDone` | the pump loop of `available`, `releasePending` and `releaseAll` (`GetAny` for the last), then their final step under the lock: `releaseAll` calls `acceptTracker.release`, which releases every pending id; `releasePending` erases its destination's transfers (`MatchAndTrack`), and the two `available` calls count `received` or its transfers for one destination (`Match`) |
| `ReleaseErase`, `ReleaseDone` | `releasePending`'s erase loop under the lock: one step per transfer for the destination (`NextMatch`, the first one `MatchAndTrack` accepts, its id recorded for `messageRelease`), then the unlock |
| `Retrieve` | `retrieve()`: in explicit accept mode, `acceptTracker.delivered` under the lock records the id as pending accept |
| `AcceptAll`, `AcceptId` | `accept()` and `accept(id, false)`: under the lock, the tracker sends all pending ids, or one, in `Message.Accept` |

`AcceptTracker.cpp` is not in the tree. Its three calls are modelled as
moving ids between the three sets, in explicit accept mode; cumulative
accept is not modelled. Transfers are model values with a destination. Non-transfer commands are
ignored by the code and left out. A finite timeout may expire whenever the
thread is blocked on an empty queue.

**Fairness.** A thread that is inside a call keeps running it:

* it pops when the queue is non-empty;
* it places what it popped once the lock is free;
* it finishes a pump.

This is the code's own loop. Nothing forces a call to start, a transfer to
arrive or a finite timeout to expire.

| Run | cfg | Result | What it shows |
|---|---|---|---|
| `incoming_safety` | `MCIncomingSafety.cfg` | pass | `MessageConserved`: every sent transfer is in exactly one place (queue, a hand, `received`, fetched, discarded), so none is lost, returned twice, or both returned and discarded; `NoDoubleSettle`: no transfer is both accepted and released, however `accept()` interleaves with `releaseAll` and `releasePending` on other threads |
| `incoming_fetch_race` | `MCIncomingRace.cfg` | violation | `FetchReturns`: see the findings |
| `incoming_next_hang` | `MCIncomingNextHang.cfg` | violation | `NextDestinationReturns`: see the findings |

Bounds: two threads, two destinations and two transfers. That is the
smallest instance where one thread pops another's transfer, and where every
call kind overlaps every other. The mutant `GetNoErase` (the transfer found
in `received` is not erased) breaks `MessageConserved`. The mutant
`PumpDoneKeepsPending` (`acceptTracker.release` sends the pending ids but
does not clear them) breaks `NoDoubleSettle`: a later `accept()` accepts a
transfer that was already released.

The erase loop of `releasePending` is a step per erased transfer, not one
step that filters `received` with `SelectSeq`. The code erases them one by
one while it holds the lock, so no other thread sees the difference; but
`SelectSeq` is a recursive function, and what it returns can only be
proved by induction over the sequence, which the provers cannot do here.

### Proof of `MessageConserved` (`IncomingProofs`, TLAPS)

**`MessageConservedHolds`: `Spec => []MessageConserved`**, for every set of
threads, destinations and transfers (`IncomingAssumption`).

`MessageConserved` counts, for each sent transfer, the indices of
`incoming` and `received` that hold it plus the hands, fetches and releases
that do. It is not inductive: a step that moves a transfer must know that it
was nowhere else. It is strengthened to `ConsInv`:

* `incoming` and `received` are injective (`IsInjective`);
* no two threads hold the same transfer, and a thread holds one exactly
  while its `pc` is `popped`;
* the five places (`InIncoming`, `InReceived`, `InHand`, `Fetched`,
  `discarded`) are pairwise disjoint and their union is `sent` (`Part`).

TLC checked `ConsInv` as an invariant of the `incoming_safety` instance,
and of one with three transfers, before it was proved.

The argument:

* `ConsConserved`: under `ConsInv` a transfer occurs at one index of at
  most one sequence, so its count is 1 (`IndexCount`, `HandCount`).
* `ConsInit`: everything is empty.
* Each action that moves a transfer takes it out of one place and puts it
  into another (`PartMoves`):
  * `Arrive` puts a new transfer on `incoming`;
  * `Pop` and `NextWaitPop` take the head of `incoming`;
  * `Keep` pushes a hand onto `received`;
  * `Deliver` returns it or releases it;
  * `Get` and `ReleaseErase` remove one index of `received`;
  * `releaseAll`'s `Pump` moves all of `received` to `discarded`.
* The sequence lemmas say what `Append`, `Tail` and `RemoveAt` do to
  `Range` and injectivity (`AppendFacts`, `TailFacts`, `RemoveAtFacts`).
* `FirstAcceptedFacts` and `NextMatchFacts` say that `SelectInSeq`'s index
  is in range and accepted. They rest on `NatMin`: a non-empty set of
  naturals has a least element, from `WellFoundedInduction`'s `WFMin`.
* `ConsFrame` covers the steps that move nothing (`ConsControl`).

**`NoDoubleSettleHolds`: `Spec => []NoDoubleSettle`.** `NoDoubleSettle` is
not inductive: a pending id that is also on `received` could be released by
`releasePending` and later accepted. It is strengthened to `SettleInv`:

* every pending, accepted or released id has been taken off the lists
  (`Taken`: fetched or discarded);
* the pending, accepted and released sets are pairwise disjoint.

TLC checked `SettleInv`, with `ConsInv`, on the `incoming_safety` instance
before it was proved. The argument, with `ConsInv`:

* `WaitingNotTaken`: by `Part`, a transfer on `received` or in a hand has
  not been taken.
* `SettleRetrieve`: `Get` and `Deliver` retrieve a waiting transfer, so it
  enters `Taken` and `pendingAccept` at once and is in no other set.
* `SettleTrack`: `releaseAll`'s drain does the same for all of `received`.
* `SettleReleaseOne`: `ReleaseErase` releases a transfer still on
  `received`, which is in no set yet.
* `releaseAll`'s `acceptTracker.release` and the two `accept` calls move
  ids out of `pendingAccept`, which they empty or shrink.
* Every other step leaves the sets and `Taken` alone (`SettleFrame`).

## SPF router: module `SpfRouter`

Connection threads route messages through `SpfExchange::route` and bind or
unbind client queues. The router's timer thread fires `Tick` once a second:

1. On the first fire, `setupRouter` (`SetupRouter`) declares the unroutable fanout exchange
   and the holding queue.
2. It calls the Python engine's `handleTimerTick` under `Router::lock`.
3. Still under the lock, it reads and clears `bindingsChanged`.
4. Outside the lock, it purges the holding queue back through the exchange.

The engine is outside the tree. Every call into it may make binding
callbacks (`local_bind_cb`, `remote_bind_cb`, and so on), each of which sets
`bindingsChanged`. The local callbacks reach `SpfExchange::localBind` and
`localUnbind` (`LocalBind`, `LocalUnbind`). During a tick it may also `send_cb` messages. A message
is a model value with a routing key, and topic matching is key equality.

| Action | Code |
|---|---|
| `Publish`, `RouteLocal`, `RouteTopic`, `RouteAlternate` | a client's transfer, `SpfExchange::route` (local subject to the engine, then `TopicExchange::route`), and the broker's alternate-exchange routing to the holding queue |
| `ClientBind`, `ClientUnbind` | `SpfExchange::bind`/`unbind` with `Router::bindingAdded`/`bindingDeleted` (`BindingDeleted`) |
| `ManagementMethod` | `Router::ManagementMethod`: `get_router_data` calls the engine under `Router::lock`; `add_link` and `del_link` touch only the broker's link registry, which is not modelled |
| `TickStart`, `EngineSend`, `TickEnd`, `Reprocess`, `PurgeDone` | `Tick::fire` and `Router::tick`, `send_cb` with `routeOutbound`, `reprocessHeldMessages` |

**Fairness.** The timer fires forever, because `Tick::fire` re-adds itself
before it calls `tick()`. A thread that has started to route a message
finishes. Clients need not publish or bind, and the engine need not send.
`MaxChanges = 3` bounds the engine's binding callbacks.

| Run | cfg | Result | What it shows |
|---|---|---|---|
| `spf_liveness` | `MCSpfLive.cfg` | pass | `HeldRetriedAfterChange`: once a callback has set `bindingsChanged`, every message then held is routed again. The mutant that clears the flag before reading it breaks this. |
| `spf_held_race` | `MCSpfRace.cfg` | violation | `HeldRoutable`: see the findings |

## SPF value conversion: module `PythonVariant`

`Router::handleControlMessage` passes `PythonVariant(bodyMap).asPyObject()`
to the engine, and `send_cb` turns the engine's dict back with
`PythonVariant(body).asVariant()`. The conversions are recursive operators:

* `VariantToPy` covers `VariantToPy`, `MapToPy` and `ListToPy`.
* `PyToVariants` covers `PyToVariant` and `PyToMap`, and `PySeqToList`
  covers `PyToList` and `PyTupleToList`. `PyToVariants` returns a set,
  because two keys that collide after conversion are kept in `PyDict_Next`
  order.

`Widened` is the reference: the widening that `VariantToPy`'s switch does on
purpose, and nothing else. The module declares `RECURSIVE` operators, so it
holds no theorems.

`long long` is scaled down to `LongLongBits = 3` bits, because TLC's integers
stop at 2^31. Its range matters only relative to `uint64`, and 3 bits keep
both sides of the `int64` bound.

The run `python_echo` checks `EchoFaithful` and finds it violated. See the
findings.

## HA backup: module `HaBackup`

A cluster of brokers, each either primary or running a `Backup`. All of
`Backup`'s operations run under `Backup::lock`:

* `setBrokerUrl` (`SetBrokerUrl`/`ConnectCluster`) connects the replication
  link and, while the broker is JOINING, starts a `StatusCheck`.
* `promote` with `recover` and `stop` (`Promote`/`StopBackup`) refuses a
  CATCHUP broker, and refuses a JOINING broker unless its check allows it.

`recover()` re-locks the lock that `promote()` holds. This is safe because
`qpid::sys::Mutex` is recursive on posix, so it is not listed as a hazard.

The following are modelled from the code's comments and marked
`spec_modelled`:

* `StatusCheck.cpp`, which is not in the tree (`CheckStatus`);
* replication progress JOINING → CATCHUP → READY (`CatchUp`);
* crashes and restarts (`Crash`, `Restart`, bounded by `MaxRestarts`);
* the cluster manager, which promotes only when there is no primary.

**Abstract specification `HaCluster`.** It states what the backup role
promises the cluster, without the link, the replicator or the StatusCheck.
Each broker has a status and a role: idle, replicating or stopped.

* A running idle backup connects once.
* Only a replicating backup catches up, and only while there is a primary.
* Only a JOINING or READY backup that has not stopped is promoted, and only
  when there is no primary. Promotion stops it for good.
* A restart gives a fresh, idle backup.

`HaBackup` instantiates it as `Cluster` through the refinement mapping
`Role`:

* a broker with an open link is replicating;
* otherwise a stopped one is stopped;
* otherwise it is idle.

`ClusterSpec == Cluster!Spec` is a property of the `ha_safety` run. Under
this mapping, a `setBrokerUrl` on a connected or stopped backup, and a
status check, are stuttering steps of `HaCluster`.

No fairness is assumed: all three properties are safety properties. Deadlock
checking is off, because a cluster whose brokers are all down, with its
restarts used up, really stops.

| Run | cfg | Result | What it shows |
|---|---|---|---|
| `ha_safety` | `MCHaBackup.cfg` | pass | `PrimaryNotReplicating`: a primary never has an open link or a running replicator, in any order of URL changes and promotions. `ClusterSpec`: every behaviour is one of `HaCluster`. The mutant that drops `setBrokerUrl`'s `stopped` test breaks both: the primary's link reopens, a step `HaCluster` does not allow. |
| `ha_promote_race` | `MCHaPromoteRace.cfg` | violation | `NoJoiningPromotionOverReady`: see the findings |

Three brokers and two restarts let a primary fail and be replaced twice,
and give every broker a peer in each status.

## Producer flow control: module `QueueFlowLimit`

`QueueFlowLimit.cpp` is not in the tree. Its threshold machine is modelled
from the specification (section 4.4) and marked `spec_modelled`:

* `Enqueued` and `Dequeued` (stop strictly above a stop value; resume
  strictly below every enabled resume value);
* `CreateLimit` and `SetDefaults`.

Every test case of `QueueFlowLimitTest.cpp` is translated step by step into
one script (`Script`), in the file's order. `testFlowArgs` is left out,
because its sizes exceed TLC's integers. The default-limit rounding (stop
rounded, resume truncated) is taken from the values that the test expects.

The run `flow_limit_test` executes the script. `TestExpectation` states every
`BOOST_CHECK`, and it holds. The mutant that stops flow *at* the stop value
breaks it.

## Findings

Each finding is a violation run.

* **SPF held message** (`Router.cpp:744`, `spf_held_race`).
  * A client's message misses on the old bindings in `SpfExchange::route`.
  * Meanwhile, a tick sees the binding change, clears `bindingsChanged` and
    purges the holding queue.
  * The message then reaches the holding queue through the alternate
    exchange.
  * Nothing retries it until bindings change again, so a message whose key
    is now bound stays held.
* **Fetch race** (`IncomingMessages.cpp:208`, `incoming_fetch_race`).
  * `get()` scans `received` and releases the lock.
  * Another receiver's `process()` then pushes this receiver's transfer onto
    `received`.
  * `get()` blocks in `pop()` for good, with its transfer waiting in
    `received`.
* **`nextReceiver` deadlock** (`IncomingMessages.cpp:135`, `incoming_next_hang`).
  * `getNextDestination` takes the lock (line 133), finds `received`
    empty, and calls `wait()` on `incoming` still holding it (line 135).
  * Another thread's `available()` or `releasePending()` pump has already
    popped the only transfer, and blocks on the lock to push it onto
    `received` (`process()`, lines 207-208).
  * Each waits on the other for good: the transfer never reaches a
    receiver, and neither call returns.
* **Promotion over READY** (`StatusCheck.h:35`, `ha_promote_race`).
  * `StatusCheck` only lowers `promote` when it ran while another broker was
    already non-JOINING.
  * A JOINING broker whose check ran earlier, or never ran, is promoted while
    another broker is READY.
  * The FIXME at that line admits the gap.
* **Python round trip** (`PythonTypes.cpp:42`, `python_echo`).
  * A `uint64` at or above 2^63 comes back through `PyLong_AsLongLong` as -1.
  * With those values removed from the instance, a string or map key with an
    embedded NUL comes back cut short by `std::string(PyString_AS_STRING)`
    (lines 43 and 169).

## Proofs of the HA backup (`HaBackupProofs`, TLAPS)

These theorems hold for every set of brokers and every `MaxRestarts` in `Nat`
(`BackupAssumption`).

* **`TypeCorrect`: `Spec => []TypeOK`.** The proof has one step per action.
* **`PrimaryNotReplicatingHolds`: `Spec => []PrimaryNotReplicating`.**
  * The invariant is not inductive by itself. A JOINING broker with an open
    link could become active through a step the proof cannot rule out from
    the invariant alone.
  * It is strengthened to `StopInv`: an active broker is stopped, and a
    stopped `Backup` has no open link and no replicator.
  * `Promote` establishes the first conjunct through `stop()`.
    `SetBrokerUrl`'s `stopped` test preserves the second.
  * `Restart` builds a fresh, unstopped `Backup` for a broker that is down.
* **`ClusterRefinement`: `Spec => ClusterSpec`.** `HaBackup` implements
  `HaCluster` under the mapping `Role`.
  * `RefineInit`: the initial primary maps to the stopped broker, and the
    others to idle backups.
  * `RefineStep` takes each action in turn, needing only `TypeOK`:
    * a first `setBrokerUrl` on an unstopped backup (link `none` to `open`)
      is `Connect`;
    * any other `setBrokerUrl` is a stutter;
    * `Promote` is the abstract `Promote`, because the concrete
      `~stopped` guard makes the role idle or replicating;
    * `CatchUp` is `CatchUp`, because an open link is the replicating
      role;
    * `Crash` is `Crash`;
    * `Restart` is `Restart`.
  * `RoleFrame` shows that a broker's step changes no other broker's role.
  * The temporal step combines these with `TypeCorrect` by `PTL`.

## What only TLC checks, and why

TLAPS cannot prove the following, so they are only model-checked:

* Liveness (`SyncedCommandsReported`, `HeldRetriedAfterChange`) and anything
  that uses `ENABLED`.
* Recursive definitions (`PythonVariant`). tlapm cannot use its SMT backend
  in a module that declares `RECURSIVE`, and induction over data needs
  operator parameters that the provers cannot instantiate.
* `IncomingMessages`'s `FetchReturns` and `NextDestinationReturns`. They
  are liveness properties, and the code violates both.
* `SpfRouter`. The properties that its runs check are liveness properties.
* `QueueFlowLimit`'s `TestExpectation`. It is the unit test's fixed script,
  run to its end, and TLC checks it exhaustively. A proof would only repeat
  the script's arithmetic one step at a time.

## Not modelled, and why

* **`QueueFactory::create`.** It is a straight-line choice of queue
  class, container and distributor from the settings, and any property of
  that choice restates one of its branches. The classes that would give the
  choice a meaning (`Queue`, `LossyQueue`, `Lvq`, `MessageMap`) and
  `QueueSettings::validate` are not in the tree; the setters only store
  pointers.
* **AMQP 1.0 receiver (`ReceiverContext`) and `Connection`.** Credit
  bookkeeping that is delegated to proton.
* **Codecs, SASL, `Descriptor`, QMF `ValueImpl`/`EventImpl`, generated QMF
  example code.** Byte-level encoding, value containers and generated code,
  with no shared state.
* **Utilities (`AclValidator.h`, `NodeProperties.h`, posix `Time.cpp`,
  `unordered_map.h`).** Declarations and formatting.
* **Session leftovers.**
  * The outbound path (`deliver`, `handleOut`, `senderCompleted`) only
    forwards frames.
  * The session's management methods are not modelled: `detach` only asks
    the handler outside the tree to send `Session.Detach`.
  * The 32-bit `SequenceNumber` wrap is not modelled: ids stay below it.
    This leaves a hazard with no property.
* **`send_cb`'s `Py_DECREF` of a borrowed reference** (`Router.cpp:510`).
  This is an over-release, and reference counts are not part of the value
  model.
* **Tuples in the echo run.** `PySeqToList` converts a tuple, but an echoed
  body never contains one, so the run never reaches that case.

The hazards of each part, with the properties that cover them, are listed in
`PROJECT.json`.
