----------------------------- MODULE MCKeepAlive -----------------------------
(* The instance of KeepAlive that TLC checks needs only values for its constants. *)
EXTENDS KeepAlive
=============================================================================
