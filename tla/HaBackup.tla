------------------------------ MODULE HaBackup ------------------------------
(***************************************************************************)
(* The backup role of HA brokers in a cluster: qpid::ha::Backup            *)
(* (src/cpp/src/qpid/ha/Backup.cpp) with its StatusCheck                   *)
(* (src/cpp/src/qpid/ha/StatusCheck.h).                                    *)
(*                                                                         *)
(* Each broker that is not primary runs a Backup.  setBrokerUrl, called    *)
(* when the cluster's URL is configured, connects the replication link     *)
(* and, while the broker is JOINING, starts a StatusCheck that asks the    *)
(* other brokers for their status.  promote(), called by the cluster       *)
(* manager, refuses a CATCHUP broker, and a JOINING one unless its         *)
(* StatusCheck allows it; otherwise recover() stops the backup (closes     *)
(* the link, shuts the replicator down) and the broker becomes primary.    *)
(* All of it runs under Backup::lock.                                      *)
(*                                                                         *)
(* Outside src/ and modelled from the code's comments: StatusCheck's       *)
(* threads (a JOINING broker may promote only if every other reachable     *)
(* broker is also JOINING), the JOINING -> CATCHUP -> READY progress that  *)
(* replication from a live primary makes, the primary's failure, a         *)
(* broker's restart, and the cluster manager, which promotes only when     *)
(* there is no primary.                                                    *)
(***************************************************************************)
EXTENDS Naturals

CONSTANTS
  Brokers,      \* the cluster's brokers
  MaxRestarts   \* most broker restarts in one behaviour

ASSUME BackupAssumption == MaxRestarts \in Nat

\* BrokerStatus of a broker ("down": not running, unreachable).
Statuses == {"joining", "catchup", "ready", "active", "down"}

VARIABLES
  status,      \* status[b]: HaBroker status of broker b
  stopped,     \* stopped[b]: Backup::stopped
  link,        \* link[b]: Backup::link, "none" (null), "open" or "closed"
  replicator,  \* replicator[b]: Backup::replicator is set (running)
  canPromote,  \* canPromote[b]: StatusCheck::promote of b's StatusCheck
  restarts     \* broker restarts so far

vars == <<status, stopped, link, replicator, canPromote, restarts>>

LinkStates == {"none", "open", "closed"}

\* A Backup object as constructed: not stopped, no link, no replicator, and
\* a StatusCheck whose `promote` starts TRUE.
FreshBackup(b) ==
  /\ stopped' = [stopped EXCEPT ![b] = FALSE]
  /\ link' = [link EXCEPT ![b] = "none"]
  /\ replicator' = [replicator EXCEPT ![b] = FALSE]
  /\ canPromote' = [canPromote EXCEPT ![b] = TRUE]

HasPrimary == \E b \in Brokers : status[b] = "active"

\* StatusCheck::setUrl: one thread per other broker asks for its status; a
\* reachable broker that is not JOINING calls setPromote(false).  `promote`
\* is never set back to TRUE.
CheckStatus(b) ==
  canPromote' = [canPromote EXCEPT ![b] =
                   @ /\ \A o \in Brokers \ {b} : status[o] \in {"joining", "down"}]

-----------------------------------------------------------------------------
(* Backup operations (under Backup::lock).                                  *)

\* The part of setBrokerUrl after its `stopped` test: while JOINING, start a
\* status check; the first call declares the link and starts the replicator;
\* link->setUrl leaves a closed link closed.
ConnectCluster(b) ==
  /\ IF status[b] = "joining" THEN CheckStatus(b) ELSE UNCHANGED canPromote
  /\ IF link[b] = "none"
       THEN link' = [link EXCEPT ![b] = "open"] /\ replicator' = [replicator EXCEPT ![b] = TRUE]
       ELSE UNCHANGED <<link, replicator>>

\* Mutant: setBrokerUrl without the `stopped` test.
SetBrokerUrlAfterStop(b) ==
  /\ status[b] # "down"
  /\ ConnectCluster(b)
  /\ UNCHANGED <<status, stopped, restarts>>

\* setBrokerUrl (each time the cluster's URL is set or changes; the URL of
\* the model is never empty): nothing once stopped, else ConnectCluster.
SetBrokerUrl(b) ==
  /\ status[b] # "down"
  /\ \/ stopped[b] /\ UNCHANGED <<canPromote, link, replicator>>
     \/ ~stopped[b] /\ ConnectCluster(b)
  /\ UNCHANGED <<status, stopped, restarts>>

\* Backup::stop: idempotent; closes the link if there is one and shuts the
\* replicator down.
StopBackup(b) ==
  /\ stopped' = [stopped EXCEPT ![b] = TRUE]
  /\ link' = [link EXCEPT ![b] = IF @ = "none" THEN "none" ELSE "closed"]
  /\ replicator' = [replicator EXCEPT ![b] = FALSE]

\* promote() on a broker, by the cluster manager when there is no primary:
\* a stopped backup returns 0; JOINING promotes only if canPromote() (else
\* it throws); CATCHUP throws; READY promotes.  recover() calls stop() and
\* the broker becomes primary.
Promote(b) ==
  /\ ~HasPrimary
  /\ ~stopped[b]
  /\ \/ status[b] = "joining" /\ canPromote[b]
     \/ status[b] = "ready"
  /\ status' = [status EXCEPT ![b] = "active"]
  /\ StopBackup(b)
  /\ UNCHANGED <<canPromote, restarts>>

-----------------------------------------------------------------------------
(* The rest of the cluster (modelled from the comments).                   *)

\* Replication from the live primary: a JOINING backup with a link starts
\* catching up, a catching-up one becomes READY.
CatchUp(b) ==
  /\ HasPrimary
  /\ link[b] = "open"
  /\ \/ status[b] = "joining" /\ status' = [status EXCEPT ![b] = "catchup"]
     \/ status[b] = "catchup" /\ status' = [status EXCEPT ![b] = "ready"]
  /\ UNCHANGED <<stopped, link, replicator, canPromote, restarts>>

\* The primary, or a backup, fails.
Crash(b) ==
  /\ status[b] # "down"
  /\ status' = [status EXCEPT ![b] = "down"]
  /\ UNCHANGED <<stopped, link, replicator, canPromote, restarts>>

\* A failed broker restarts as a JOINING backup with a new Backup object.
Restart(b) ==
  /\ status[b] = "down"
  /\ restarts < MaxRestarts
  /\ restarts' = restarts + 1
  /\ status' = [status EXCEPT ![b] = "joining"]
  /\ FreshBackup(b)

-----------------------------------------------------------------------------

\* One broker is primary; the others have just started as JOINING backups.
Init ==
  \E p \in Brokers :
    /\ status = [b \in Brokers |-> IF b = p THEN "active" ELSE "joining"]
    /\ stopped = [b \in Brokers |-> b = p]
    /\ link = [b \in Brokers |-> "none"]
    /\ replicator = [b \in Brokers |-> FALSE]
    /\ canPromote = [b \in Brokers |-> TRUE]
    /\ restarts = 0

Next ==
  \E b \in Brokers :
    SetBrokerUrl(b) \/ Promote(b) \/ CatchUp(b) \/ Crash(b) \/ Restart(b)

Spec == Init /\ [][Next]_vars

-----------------------------------------------------------------------------
(* Properties.                                                             *)

\* Every variable holds a value of its type.
TypeOK ==
  /\ status \in [Brokers -> Statuses]
  /\ stopped \in [Brokers -> BOOLEAN]
  /\ link \in [Brokers -> LinkStates]
  /\ replicator \in [Brokers -> BOOLEAN]
  /\ canPromote \in [Brokers -> BOOLEAN]
  /\ restarts \in 0..MaxRestarts

\* Backup::stop and the `stopped` tests of setBrokerUrl and promote: a broker
\* that has become primary never replicates from the cluster (no open link,
\* no replicator), whatever order the management calls arrive in.
PrimaryNotReplicating ==
  \A b \in Brokers : status[b] = "active" => link[b] # "open" /\ ~replicator[b]

\* StatusCheck's purpose (StatusCheck.h): a JOINING broker is never promoted
\* while another broker is READY, "so that one of the READY brokers can".
NoJoiningPromotionOverReady ==
  [][\A b \in Brokers :
       (status[b] = "joining" /\ status'[b] = "active")
         => \A o \in Brokers \ {b} : status[o] # "ready"]_vars

-----------------------------------------------------------------------------
(* Refinement of HaCluster: a broker's replication role is read off its    *)
(* Backup: replicating while its link is open, stopped once Backup::stop   *)
(* has run, idle before setBrokerUrl has connected it.                     *)

Role(b) ==
  IF link[b] = "open" THEN "replicating"
  ELSE IF stopped[b] THEN "stopped" ELSE "idle"

Cluster == INSTANCE HaCluster WITH role <- [b \in Brokers |-> Role(b)]

\* Backup as the cluster sees it: setBrokerUrl connects an idle backup once,
\* promote() only takes a JOINING or READY backup that is not stopped when
\* there is no primary, and stops its replication for good; replication
\* progress needs an open link; a restart yields a fresh idle backup.
ClusterSpec == Cluster!Spec

=============================================================================
