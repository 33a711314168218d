--------------------------- MODULE MCSessionState ---------------------------
(* Small instances of SessionState for TLC.                                *)
EXTENDS SessionState

\* Four commands reach two syncs deferred behind transfers (T S T S); two holders
\* let a message's completion race its own routing; one detach cycle.
MCMaxCmd == 4
MCMaxHolders == 2
MCMaxDetach == 1
\* The liveness runs use three commands: a transfer, then syncs behind it.
MCLiveCmd == 3
\* The passing liveness run never detaches (see SyncedCommandsReported).
MCNoDetach == 0
=============================================================================
