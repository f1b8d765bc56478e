------------------------------- MODULE MCDaemon -------------------------------
(* The instances of Daemon that TLC checks need only values for its constants. *)
EXTENDS Daemon
===============================================================================
