------------------------------ MODULE SpfRouter ------------------------------
(***************************************************************************)
(* The SPF routing exchange: qpid::spf::SpfExchange                        *)
(* (src/cpp/src/qpid/spf/SpfExchange.cpp) and the C++ side of its router,  *)
(* qpid::spf::Router (src/cpp/src/qpid/spf/Router.cpp).                    *)
(*                                                                         *)
(* Actors.  Connection threads route messages through the exchange         *)
(* (SpfExchange::route) and bind or unbind client queues.  The router's    *)
(* timer thread fires Tick once a second: on the first fire it declares    *)
(* the unroutable exchange and the holding queue, then it calls the Python *)
(* engine's handleTimerTick under Router::lock, reads and clears           *)
(* bindingsChanged, and, outside the lock, purges the holding queue back   *)
(* through the exchange.  The Python engine is external: each call into it *)
(* (handleTimerTick, handleControlMessage, addLocalAddress,                *)
(* delLocalAddress) may make callbacks that add or remove a local subject  *)
(* or a subject bound to the peer queue, or send a message.                *)
(*                                                                         *)
(* Abstractions.  A message is a model value with a routing key; the       *)
(* exchange's topic matching is key equality; one peer queue stands for    *)
(* every spf_<domain>_<peer> queue.  Router::lock is held only inside an   *)
(* engine call; each such call is one step, except handleTimerTick, during *)
(* which the engine may also send (tpc = "tick").                          *)
(***************************************************************************)
EXTENDS Naturals, FiniteSets

CONSTANTS
  Keys,        \* routing keys (subjects)
  PeerKey,     \* the key "_peer", routed only to the router itself
  Msgs,        \* messages, each published once by a client or sent by the engine
  MsgKey,      \* MsgKey[m]: the routing key of message m
  MaxChanges   \* most binding callbacks the engine makes in one behaviour

ASSUME RouterAssumption ==
  /\ PeerKey \in Keys
  /\ MsgKey \in [Msgs -> Keys]
  /\ MaxChanges \in Nat

MsgStates == {"unsent", "route", "unrouted", "held", "delivered", "dropped"}
TimerPcs == {"idle", "tick", "reprocess", "purging"}

VARIABLES
  clientBound,     \* keys a client queue is bound with (TopicExchange bindings)
  remoteBound,     \* keys the peer queue is bound with by remote_bind_cb
  routerBindings,  \* SpfExchange::routerBindings (local_bind_cb)
  bindingsChanged, \* Router::bindingsChanged
  firstInvocation, \* Router::firstInvocation
  alternate,       \* setupRouter has run: the exchange has its alternate and
                   \* the holding queue exists (holdingQueue.get() # 0)
  mpc,             \* mpc[m]: where message m is
  purging,         \* messages the running reprocessHeldMessages took out of the holding queue
  tpc,             \* the timer thread: idle, in handleTimerTick (lock held),
                   \* about to reprocess, or purging
  changes          \* engine binding callbacks so far (bounded by MaxChanges)

vars == <<clientBound, remoteBound, routerBindings, bindingsChanged, firstInvocation,
          alternate, mpc, purging, tpc, changes>>

\* Keys a TopicExchange::route of the exchange delivers to.
Bound == clientBound \cup remoteBound

Holding == {m \in Msgs : mpc[m] = "held"}

\* Router::lock is free unless the timer is inside handleTimerTick.
RouterLockFree == tpc # "tick"

-----------------------------------------------------------------------------
(* A call into the Python engine, made under Router::lock.                  *)

\* The engine makes no binding callback.
EngineQuiet == UNCHANGED <<remoteBound, routerBindings, changes>>

\* SpfExchange::localBind and localUnbind (the targets of local_bind_cb and
\* local_unbind_cb): routerBindings changes under routerLock.
LocalBind(k) == routerBindings' = routerBindings \cup {k}
LocalUnbind(k) == routerBindings' = routerBindings \ {k}

\* The engine makes one binding callback: remote_bind_cb binds the peer queue
\* (queue->bind reaches SpfExchange::bind, whose "spf_" prefix test skips
\* bindingAdded), remote_unbind_cb unbinds it through SpfExchange::unbind (the
\* same test skips bindingDeleted), local_bind_cb / local_unbind_cb change
\* routerBindings under routerLock.  Every callback sets bindingsChanged; the
\* callers below do that.
EngineRebind ==
  /\ changes < MaxChanges
  /\ changes' = changes + 1
  /\ \E k \in Keys :
       \/ remoteBound' = remoteBound \cup {k} /\ UNCHANGED routerBindings
       \/ remoteBound' = remoteBound \ {k} /\ UNCHANGED routerBindings
       \/ LocalBind(k) /\ UNCHANGED remoteBound
       \/ LocalUnbind(k) /\ UNCHANGED remoteBound

\* An engine call outside handleTimerTick: its callbacks set bindingsChanged.
EngineCall ==
  \/ EngineQuiet /\ UNCHANGED bindingsChanged
  \/ EngineRebind /\ bindingsChanged' = TRUE

-----------------------------------------------------------------------------
(* Connection threads.                                                      *)

\* A client publishes m to the exchange.
Publish(m) ==
  /\ mpc[m] = "unsent"
  /\ mpc' = [mpc EXCEPT ![m] = "route"]
  /\ UNCHANGED <<clientBound, remoteBound, routerBindings, bindingsChanged,
                 firstInvocation, alternate, purging, tpc, changes>>

\* SpfExchange::route: a message for a local router subject goes to the engine
\* (handleControlMessage, under Router::lock) and counts as delivered; unless
\* its key is "_peer" it is then routed through TopicExchange::route on the
\* bindings as they are after the engine call.
RouteLocal(m) ==
  /\ mpc[m] = "route"
  /\ MsgKey[m] \in routerBindings
  /\ RouterLockFree
  /\ EngineCall
  /\ mpc' = [mpc EXCEPT ![m] = "delivered"]
  /\ UNCHANGED <<clientBound, firstInvocation, alternate, purging, tpc>>

\* The same with no local match: TopicExchange::route on a snapshot of the
\* bindings; an unmatched message is left to the caller's alternate routing.
RouteTopic(m) ==
  /\ mpc[m] = "route"
  /\ MsgKey[m] \notin routerBindings
  /\ mpc' = [mpc EXCEPT ![m] = IF MsgKey[m] # PeerKey /\ MsgKey[m] \in Bound
                                THEN "delivered" ELSE "unrouted"]
  /\ UNCHANGED <<clientBound, remoteBound, routerBindings, bindingsChanged,
                 firstInvocation, alternate, purging, tpc, changes>>

\* Exchange::routeWithAlternate: an undelivered message goes to the alternate
\* exchange, the fanout <domain>_unroutable bound to the holding queue; before
\* setupRouter there is none and the message is dropped.
RouteAlternate(m) ==
  /\ mpc[m] = "unrouted"
  /\ mpc' = [mpc EXCEPT ![m] = IF alternate THEN "held" ELSE "dropped"]
  /\ UNCHANGED <<clientBound, remoteBound, routerBindings, bindingsChanged,
                 firstInvocation, alternate, purging, tpc, changes>>

\* SpfExchange::bind of a client queue: TopicExchange::bind, and if it added a
\* binding, Router::bindingAdded calls the engine's addLocalAddress.
ClientBind(k) ==
  /\ k \notin clientBound
  /\ RouterLockFree
  /\ clientBound' = clientBound \cup {k}
  /\ EngineCall
  /\ UNCHANGED <<firstInvocation, alternate, mpc, purging, tpc>>

\* Router::bindingDeleted: the engine's delLocalAddress under Router::lock.
BindingDeleted ==
  /\ RouterLockFree
  /\ EngineCall

\* SpfExchange::unbind of a client queue: bindingDeleted whether or not the
\* binding exists, then TopicExchange::unbind.
ClientUnbind(k) ==
  /\ BindingDeleted
  /\ clientBound' = clientBound \ {k}
  /\ UNCHANGED <<firstInvocation, alternate, mpc, purging, tpc>>

\* Router::ManagementMethod, from a management connection: add_link and
\* del_link declare or close a link in the broker's LinkRegistry, which the
\* model leaves out; get_router_data calls getRouterData, which takes
\* Router::lock and calls the engine's getRouterData.
ManagementMethod ==
  /\ RouterLockFree
  /\ EngineCall
  /\ UNCHANGED <<clientBound, firstInvocation, alternate, mpc, purging, tpc>>

-----------------------------------------------------------------------------
(* The timer thread.                                                        *)

\* SpfExchange::setupRouter: declare the fanout exchange <domain>_unroutable
\* and make it the exchange's alternate, declare the holding queue
\* spf_holding_<domain> and bind it to that fanout.
SetupRouter == alternate' = TRUE

\* Tick::fire re-arms the timer and calls tick(): on the first invocation it
\* runs SpfExchange::setupRouter, then takes Router::lock and calls the
\* engine's handleTimerTick.
TickStart ==
  /\ tpc = "idle"
  /\ \/ firstInvocation /\ firstInvocation' = FALSE /\ SetupRouter
     \/ ~firstInvocation /\ UNCHANGED <<firstInvocation, alternate>>
  /\ tpc' = "tick"
  /\ UNCHANGED <<clientBound, remoteBound, routerBindings, bindingsChanged, mpc,
                 purging, changes>>

\* Inside handleTimerTick the engine sends m (send_cb): SpfExchange::routeOutbound
\* routes it through TopicExchange::route only, then to the alternate if unmatched.
EngineSend(m) ==
  /\ tpc = "tick"
  /\ mpc[m] = "unsent"
  /\ mpc' = [mpc EXCEPT ![m] = IF MsgKey[m] \in Bound THEN "delivered"
                               ELSE IF alternate THEN "held" ELSE "dropped"]
  /\ UNCHANGED <<clientBound, remoteBound, routerBindings, bindingsChanged,
                 firstInvocation, alternate, purging, tpc, changes>>

\* Mutant: bindingsChanged is cleared before it is read, so no tick reprocesses.
TickEndClearsFirst ==
  /\ tpc = "tick"
  /\ bindingsChanged' = FALSE
  /\ \/ EngineQuiet /\ tpc' = "idle"
     \/ EngineRebind /\ tpc' = "idle"
  /\ UNCHANGED <<clientBound, firstInvocation, alternate, mpc, purging>>

\* handleTimerTick returns (its callbacks may have changed bindings); still
\* under the lock, reprocess := bindingsChanged and bindingsChanged := false.
TickEnd ==
  /\ tpc = "tick"
  /\ bindingsChanged' = FALSE
  /\ \/ EngineQuiet /\ tpc' = IF bindingsChanged THEN "reprocess" ELSE "idle"
     \/ EngineRebind /\ tpc' = "reprocess"
  /\ UNCHANGED <<clientBound, firstInvocation, alternate, mpc, purging>>

\* reprocessHeldMessages, outside the lock: holdingQueue->purge moves every
\* held message back through the exchange (its alternate exchange).
Reprocess ==
  /\ tpc = "reprocess"
  /\ purging' = Holding
  /\ mpc' = [m \in Msgs |-> IF mpc[m] = "held" THEN "route" ELSE mpc[m]]
  /\ tpc' = "purging"
  /\ UNCHANGED <<clientBound, remoteBound, routerBindings, bindingsChanged,
                 firstInvocation, alternate, changes>>

\* purge returns once each purged message has been routed again.
PurgeDone ==
  /\ tpc = "purging"
  /\ \A m \in purging : mpc[m] \notin {"route", "unrouted"}
  /\ purging' = {}
  /\ tpc' = "idle"
  /\ UNCHANGED <<clientBound, remoteBound, routerBindings, bindingsChanged,
                 firstInvocation, alternate, mpc, changes>>

-----------------------------------------------------------------------------

\* Router constructor: firstInvocation = true, bindingsChanged = false, the Tick
\* added to the timer; the exchange has no bindings yet.
Init ==
  /\ clientBound = {}
  /\ remoteBound = {}
  /\ routerBindings = {}
  /\ bindingsChanged = FALSE
  /\ firstInvocation = TRUE
  /\ alternate = FALSE
  /\ mpc = [m \in Msgs |-> "unsent"]
  /\ purging = {}
  /\ tpc = "idle"
  /\ changes = 0

Next ==
  \/ \E m \in Msgs : Publish(m) \/ RouteLocal(m) \/ RouteTopic(m) \/ RouteAlternate(m)
                     \/ EngineSend(m)
  \/ \E k \in Keys : ClientBind(k) \/ ClientUnbind(k)
  \/ ManagementMethod
  \/ TickStart \/ TickEnd \/ Reprocess \/ PurgeDone

\* The timer fires forever (Tick::fire re-adds itself before tick()), and a
\* thread that has started to route a message finishes.  Clients need not
\* publish or bind, and the engine need not send.
Fairness ==
  /\ WF_vars(TickStart) /\ WF_vars(TickEnd) /\ WF_vars(Reprocess) /\ WF_vars(PurgeDone)
  /\ \A m \in Msgs : WF_vars(RouteLocal(m)) /\ WF_vars(RouteTopic(m))
                     /\ WF_vars(RouteAlternate(m))

Spec == Init /\ [][Next]_vars /\ Fairness

-----------------------------------------------------------------------------
(* Properties.                                                             *)

\* Every variable holds a value of its type.
TypeOK ==
  /\ clientBound \subseteq Keys
  /\ remoteBound \subseteq Keys
  /\ routerBindings \subseteq Keys
  /\ bindingsChanged \in BOOLEAN
  /\ firstInvocation \in BOOLEAN
  /\ alternate \in BOOLEAN
  /\ mpc \in [Msgs -> MsgStates]
  /\ purging \subseteq Msgs
  /\ tpc \in TimerPcs
  /\ changes \in 0..MaxChanges

\* Router::tick and reprocessHeldMessages: once a binding callback has set
\* bindingsChanged, every message then in the holding queue is routed again,
\* so that it leaves the queue unless no binding matches its key.
HeldRetriedAfterChange ==
  \A m \in Msgs :
    (mpc[m] = "held" /\ bindingsChanged /\ MsgKey[m] \in Bound)
      ~> (mpc[m] # "held" \/ MsgKey[m] \notin Bound)

\* The purpose of the holding queue (setupRouter: "hold unroutable messages"
\* until tick reprocesses them on a binding change): a held message whose key
\* the router has bound to the peer queue eventually leaves the holding queue,
\* unless that binding goes away again.
HeldRoutable ==
  \A m \in Msgs :
    (mpc[m] = "held" /\ MsgKey[m] \in remoteBound)
      ~> (mpc[m] # "held" \/ MsgKey[m] \notin remoteBound)

=============================================================================
