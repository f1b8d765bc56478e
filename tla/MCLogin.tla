------------------------------- MODULE MCLogin -------------------------------
(***************************************************************************)
(* An instance of Login for TLC: a stub and an agent share the cache file. *)
(***************************************************************************)
EXTENDS Login

=============================================================================
