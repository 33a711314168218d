\* Safety of the session pipeline with one detach/re-attach cycle.
CONSTANTS
  MaxCmd <- MCMaxCmd
  MaxHolders <- MCMaxHolders
  MaxDetach <- MCMaxDetach
SPECIFICATION Spec
INVARIANT TypeOK
INVARIANT ExecutionSyncOrdered
INVARIANT NoDuplicateAccept
INVARIANT CompleterSeesHandler
INVARIANT NoStrandedCompletion
PROPERTY NoUseAfterDestroy
\* A session that has received its last command and completed it is idle.
CHECK_DEADLOCK FALSE
