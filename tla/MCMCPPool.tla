----------------------------- MODULE MCMCPPool -----------------------------
(***************************************************************************)
(* Instances of MCPPool for TLC.  Liveness is checked in the passing run,  *)
(* so nothing is permuted.                                                 *)
(***************************************************************************)
EXTENDS MCPPool, TLC
=============================================================================
