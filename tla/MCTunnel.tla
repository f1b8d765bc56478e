------------------------------ MODULE MCTunnel ------------------------------
(***************************************************************************)
(* An instance of Tunnel for TLC.  The key and its tool have underscores   *)
(* wherever a key that is found again and a tool may have them.            *)
(***************************************************************************)
EXTENDS Tunnel

InnerTool == [server |-> <<"c", "_", "c">>, name |-> <<"_", "c", "_", "_", "c">>]
OneTool == {InnerTool}

=============================================================================
