----------------------------- MODULE MCHaBackup -----------------------------
(* Three brokers, two restarts: enough for the primary to fail and come     *)
(* back as a JOINING backup while another broker becomes READY.            *)
EXTENDS HaBackup

MCBrokers == {"b1", "b2", "b3"}

MCMaxRestarts == 2

=============================================================================
