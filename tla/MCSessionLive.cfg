\* Liveness of sync completion on a session that is never detached.
CONSTANTS
  MaxCmd <- MCLiveCmd
  MaxHolders <- MCMaxHolders
  MaxDetach <- MCNoDetach
SPECIFICATION Spec
PROPERTY SyncedCommandsReported
\* A session that has received its last command and completed it is idle.
CHECK_DEADLOCK FALSE
