---------------------------- MODULE MCPolicySync ----------------------------
(* Instance of PolicySync for TLC; the cfg file gives the constants. *)
EXTENDS PolicySync
=============================================================================
