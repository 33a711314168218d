--------------------------- MODULE HaBackupProofs ---------------------------
(***************************************************************************)
(* TLAPS proofs about the HA backup role (HaBackup).                       *)
(***************************************************************************)
EXTENDS HaBackup, TLAPS

\* The strengthening of PrimaryNotReplicating: a primary has left the backup
\* role (Backup::stopped, set by recover's stop()), and a stopped Backup has
\* no open link and no replicator (stop() closes them, and setBrokerUrl's
\* `stopped` test keeps them closed).
StopInv ==
  \A b \in Brokers :
    /\ status[b] = "active" => stopped[b]
    /\ stopped[b] => link[b] # "open" /\ ~replicator[b]

LEMMA TypeInit == Init => TypeOK
BY BackupAssumption DEF Init, TypeOK, Statuses, LinkStates

LEMMA TypeStep == TypeOK /\ [Next]_vars => TypeOK'
<1> SUFFICES ASSUME TypeOK, [Next]_vars PROVE TypeOK'
  OBVIOUS
<1>1. ASSUME NEW b \in Brokers, SetBrokerUrl(b) PROVE TypeOK'
  BY <1>1 DEF SetBrokerUrl, ConnectCluster, CheckStatus, TypeOK, LinkStates
<1>2. ASSUME NEW b \in Brokers, Promote(b) PROVE TypeOK'
  BY <1>2 DEF Promote, StopBackup, TypeOK, Statuses, LinkStates
<1>3. ASSUME NEW b \in Brokers, CatchUp(b) PROVE TypeOK'
  BY <1>3 DEF CatchUp, TypeOK, Statuses
<1>4. ASSUME NEW b \in Brokers, Crash(b) PROVE TypeOK'
  BY <1>4 DEF Crash, TypeOK, Statuses
<1>5. ASSUME NEW b \in Brokers, Restart(b) PROVE TypeOK'
  BY <1>5, BackupAssumption DEF Restart, FreshBackup, TypeOK, Statuses, LinkStates
<1>6. CASE UNCHANGED vars
  BY <1>6 DEF vars, TypeOK
<1> QED BY <1>1, <1>2, <1>3, <1>4, <1>5, <1>6 DEF Next

\* Type correctness: every reachable state gives each variable a value of
\* its type, whatever the brokers and the restart bound.
THEOREM TypeCorrect == Spec => []TypeOK
BY TypeInit, TypeStep, PTL DEF Spec

LEMMA StopInit == Init => StopInv
BY DEF Init, StopInv

LEMMA StopStep == TypeOK /\ StopInv /\ [Next]_vars => StopInv'
<1> SUFFICES ASSUME TypeOK, StopInv, [Next]_vars PROVE StopInv'
  OBVIOUS
<1>1. ASSUME NEW b \in Brokers, SetBrokerUrl(b) PROVE StopInv'
  <2>1. CASE stopped[b] /\ UNCHANGED <<canPromote, link, replicator>>
    BY <1>1, <2>1 DEF SetBrokerUrl, StopInv
  <2>2. CASE ~stopped[b] /\ ConnectCluster(b)
    <3>1. link' \in [Brokers -> LinkStates] /\ replicator' \in [Brokers -> BOOLEAN]
      BY <2>2 DEF ConnectCluster, CheckStatus, TypeOK, LinkStates
    <3>2. \A o \in Brokers \ {b} : link'[o] = link[o] /\ replicator'[o] = replicator[o]
      BY <2>2, <3>1 DEF ConnectCluster, CheckStatus, TypeOK
    <3>3. status[b] # "active"
      BY <2>2 DEF StopInv
    <3> QED BY <1>1, <2>2, <3>2, <3>3 DEF SetBrokerUrl, StopInv
  <2> QED BY <1>1, <2>1, <2>2 DEF SetBrokerUrl
<1>2. ASSUME NEW b \in Brokers, Promote(b) PROVE StopInv'
  BY <1>2 DEF Promote, StopBackup, StopInv, TypeOK
<1>3. ASSUME NEW b \in Brokers, CatchUp(b) PROVE StopInv'
  BY <1>3 DEF CatchUp, StopInv, TypeOK
<1>4. ASSUME NEW b \in Brokers, Crash(b) PROVE StopInv'
  BY <1>4 DEF Crash, StopInv, TypeOK
<1>5. ASSUME NEW b \in Brokers, Restart(b) PROVE StopInv'
  BY <1>5 DEF Restart, FreshBackup, StopInv, TypeOK
<1>6. CASE UNCHANGED vars
  BY <1>6 DEF vars, StopInv
<1> QED BY <1>1, <1>2, <1>3, <1>4, <1>5, <1>6 DEF Next

\* Backup::stop with the `stopped` tests of setBrokerUrl and promote: for
\* every cluster, a broker that has become primary never has an open
\* replication link or a running replicator.
THEOREM PrimaryNotReplicatingHolds == Spec => []PrimaryNotReplicating
<1>1. Init => TypeOK /\ StopInv
  BY TypeInit, StopInit
<1>2. TypeOK /\ StopInv /\ [Next]_vars => TypeOK' /\ StopInv'
  BY TypeStep, StopStep
<1>3. StopInv => PrimaryNotReplicating
  BY DEF StopInv, PrimaryNotReplicating
<1> QED BY <1>1, <1>2, <1>3, PTL DEF Spec


-----------------------------------------------------------------------------
(* Refinement: HaBackup implements HaCluster under the mapping Role.        *)

\* The abstract role function the mapping gives.
RoleMap == [b \in Brokers |-> Role(b)]

LEMMA RefineInit == Init => Cluster!Init
<1> SUFFICES ASSUME NEW p \in Brokers,
                    status = [b \in Brokers |-> IF b = p THEN "active" ELSE "joining"],
                    stopped = [b \in Brokers |-> b = p],
                    link = [b \in Brokers |-> "none"],
                    restarts = 0
             PROVE  Cluster!Init
  BY DEF Init
<1>1. RoleMap = [b \in Brokers |-> IF b = p THEN "stopped" ELSE "idle"]
  BY DEF RoleMap, Role
<1> QED BY <1>1 DEF Cluster!Init, RoleMap

\* A step of a broker b changes the role of no other broker.
LEMMA RoleFrame ==
  ASSUME TypeOK, NEW b \in Brokers,
         stopped' \in [Brokers -> BOOLEAN], link' \in [Brokers -> LinkStates],
         \A o \in Brokers \ {b} : stopped'[o] = stopped[o] /\ link'[o] = link[o]
  PROVE  RoleMap' = [RoleMap EXCEPT ![b] = Role(b)']
BY DEF RoleMap, Role, TypeOK

LEMMA RefineStep == TypeOK /\ [Next]_vars => [Cluster!Next]_<<status, RoleMap, restarts>>
<1> SUFFICES ASSUME TypeOK, [Next]_vars
             PROVE  [Cluster!Next]_<<status, RoleMap, restarts>>
  OBVIOUS
<1>1. ASSUME NEW b \in Brokers, SetBrokerUrl(b)
      PROVE  [Cluster!Next]_<<status, RoleMap, restarts>>
  <2>1. CASE ~stopped[b] /\ link[b] = "none" /\ ConnectCluster(b)
    <3>1. link' = [link EXCEPT ![b] = "open"] /\ stopped' = stopped
      BY <1>1, <2>1 DEF SetBrokerUrl, ConnectCluster
    <3>2. RoleMap' = [RoleMap EXCEPT ![b] = "replicating"] /\ RoleMap[b] = "idle"
      BY <2>1, <3>1 DEF RoleMap, Role, TypeOK
    <3>3. Cluster!Connect(b)
      BY <1>1, <3>2 DEF Cluster!Connect, SetBrokerUrl, RoleMap
    <3> QED BY <3>3 DEF Cluster!Next
  <2>2. CASE ~stopped[b] /\ link[b] # "none" /\ ConnectCluster(b)
    <3>1. link' = link /\ stopped' = stopped
      BY <1>1, <2>2 DEF SetBrokerUrl, ConnectCluster
    <3> QED BY <1>1, <3>1 DEF RoleMap, Role, SetBrokerUrl
  <2>3. CASE stopped[b] /\ UNCHANGED <<canPromote, link, replicator>>
    BY <1>1, <2>3 DEF RoleMap, Role, SetBrokerUrl
  <2> QED BY <1>1, <2>1, <2>2, <2>3 DEF SetBrokerUrl
<1>2. ASSUME NEW b \in Brokers, Promote(b)
      PROVE  [Cluster!Next]_<<status, RoleMap, restarts>>
  <2>1. stopped' \in [Brokers -> BOOLEAN] /\ link' \in [Brokers -> LinkStates]
        /\ \A o \in Brokers \ {b} : stopped'[o] = stopped[o] /\ link'[o] = link[o]
    BY <1>2 DEF Promote, StopBackup, TypeOK, LinkStates
  <2>2. Role(b)' = "stopped" /\ Role(b) # "stopped"
    BY <1>2 DEF Promote, StopBackup, Role, TypeOK
  <2>3. RoleMap' = [RoleMap EXCEPT ![b] = "stopped"] /\ RoleMap[b] # "stopped"
    BY <2>1, <2>2, RoleFrame DEF RoleMap
  <2>4. Cluster!Promote(b)
    BY <1>2, <2>3 DEF Promote, Cluster!Promote, Cluster!HasPrimary, HasPrimary, RoleMap
  <2> QED BY <2>4 DEF Cluster!Next
<1>3. ASSUME NEW b \in Brokers, CatchUp(b)
      PROVE  [Cluster!Next]_<<status, RoleMap, restarts>>
  <2>1. RoleMap' = RoleMap /\ RoleMap[b] = "replicating"
    BY <1>3 DEF CatchUp, RoleMap, Role
  <2>2. Cluster!CatchUp(b)
    BY <1>3, <2>1 DEF CatchUp, Cluster!CatchUp, Cluster!HasPrimary, HasPrimary, RoleMap
  <2> QED BY <2>2 DEF Cluster!Next
<1>4. ASSUME NEW b \in Brokers, Crash(b)
      PROVE  [Cluster!Next]_<<status, RoleMap, restarts>>
  <2>1. RoleMap' = RoleMap
    BY <1>4 DEF Crash, RoleMap, Role
  <2>2. Cluster!Crash(b)
    BY <1>4, <2>1 DEF Crash, Cluster!Crash, RoleMap
  <2> QED BY <2>2 DEF Cluster!Next
<1>5. ASSUME NEW b \in Brokers, Restart(b)
      PROVE  [Cluster!Next]_<<status, RoleMap, restarts>>
  <2>1. stopped' \in [Brokers -> BOOLEAN] /\ link' \in [Brokers -> LinkStates]
        /\ \A o \in Brokers \ {b} : stopped'[o] = stopped[o] /\ link'[o] = link[o]
    BY <1>5 DEF Restart, FreshBackup, TypeOK, LinkStates
  <2>2. Role(b)' = "idle"
    BY <1>5 DEF Restart, FreshBackup, Role, TypeOK
  <2>3. RoleMap' = [RoleMap EXCEPT ![b] = "idle"]
    BY <2>1, <2>2, RoleFrame
  <2>4. Cluster!Restart(b)
    BY <1>5, <2>3 DEF Restart, Cluster!Restart, RoleMap
  <2> QED BY <2>4 DEF Cluster!Next
<1>6. CASE UNCHANGED vars
  BY <1>6 DEF vars, RoleMap, Role
<1> QED BY <1>1, <1>2, <1>3, <1>4, <1>5, <1>6 DEF Next

\* The Backup code implements the cluster-level backup protocol HaCluster:
\* every behaviour of setBrokerUrl, promote/recover/stop, replication
\* progress, crashes and restarts, seen through the role a broker's link
\* and `stopped` flag give it, is a behaviour of HaCluster, for every
\* cluster and every restart bound.
THEOREM ClusterRefinement == Spec => ClusterSpec
<1>1. Init => Cluster!Init
  BY RefineInit
<1>2. TypeOK /\ [Next]_vars => [Cluster!Next]_<<status, RoleMap, restarts>>
  BY RefineStep
<1>3. Spec => []TypeOK
  BY TypeCorrect
<1> QED BY <1>1, <1>2, <1>3, PTL DEF Spec, ClusterSpec, Cluster!Spec, RoleMap

=============================================================================
