------------------------------- MODULE MCAgent -------------------------------
(* The instances of Agent that TLC checks need only values for its constants. *)
EXTENDS Agent
=============================================================================
