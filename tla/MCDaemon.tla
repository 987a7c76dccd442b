------------------------------ MODULE MCDaemon ------------------------------
(* Two daemon processes, of which the first is followed, and its clients.  *)
EXTENDS Daemon

MCThreads == {"main"} \cup Clients

=============================================================================
