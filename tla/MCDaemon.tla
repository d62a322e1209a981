------------------------------- MODULE MCDaemon -------------------------------
(***************************************************************************)
(* Two clients, one address and a registry that sends any lines.           *)
(***************************************************************************)
EXTENDS Daemon
=============================================================================
