------------------------------ MODULE HaCluster ------------------------------
(***************************************************************************)
(* What the HA backup role promises the cluster, stated without            *)
(* Backup's link, replicator and StatusCheck.  Each broker has a status    *)
(* and a replication role:                                                 *)
(*   "idle"         a backup that has not connected to the cluster yet,    *)
(*   "replicating"  a backup whose replication link is open,               *)
(*   "stopped"      a broker that has left the backup role for good.       *)
(* A backup connects once; it catches up only while it replicates from a  *)
(* live primary; only a JOINING or READY backup that has not stopped is    *)
(* promoted, and only when there is no primary, and promotion stops its    *)
(* replication; a restarted broker is a new, idle backup.  HaBackup is     *)
(* shown to implement this specification (HaBackupProofs).                 *)
(***************************************************************************)
EXTENDS Naturals

CONSTANTS Brokers, MaxRestarts

VARIABLES status, role, restarts

Roles == {"idle", "replicating", "stopped"}

HasPrimary == \E b \in Brokers : status[b] = "active"

\* A running backup opens its replication link.
Connect(b) ==
  /\ status[b] # "down"
  /\ role[b] = "idle"
  /\ role' = [role EXCEPT ![b] = "replicating"]
  /\ UNCHANGED <<status, restarts>>

\* A JOINING or READY backup becomes primary and stops replicating.
Promote(b) ==
  /\ ~HasPrimary
  /\ role[b] # "stopped"
  /\ status[b] \in {"joining", "ready"}
  /\ status' = [status EXCEPT ![b] = "active"]
  /\ role' = [role EXCEPT ![b] = "stopped"]
  /\ UNCHANGED restarts

\* A replicating backup progresses JOINING -> CATCHUP -> READY.
CatchUp(b) ==
  /\ HasPrimary
  /\ role[b] = "replicating"
  /\ \/ status[b] = "joining" /\ status' = [status EXCEPT ![b] = "catchup"]
     \/ status[b] = "catchup" /\ status' = [status EXCEPT ![b] = "ready"]
  /\ UNCHANGED <<role, restarts>>

Crash(b) ==
  /\ status[b] # "down"
  /\ status' = [status EXCEPT ![b] = "down"]
  /\ UNCHANGED <<role, restarts>>

Restart(b) ==
  /\ status[b] = "down"
  /\ restarts < MaxRestarts
  /\ restarts' = restarts + 1
  /\ status' = [status EXCEPT ![b] = "joining"]
  /\ role' = [role EXCEPT ![b] = "idle"]

Init ==
  \E p \in Brokers :
    /\ status = [b \in Brokers |-> IF b = p THEN "active" ELSE "joining"]
    /\ role = [b \in Brokers |-> IF b = p THEN "stopped" ELSE "idle"]
    /\ restarts = 0

Next ==
  \E b \in Brokers :
    Connect(b) \/ Promote(b) \/ CatchUp(b) \/ Crash(b) \/ Restart(b)

Spec == Init /\ [][Next]_<<status, role, restarts>>

=============================================================================
