---------------------------- MODULE MCExecution ----------------------------
(***************************************************************************)
(* Instances of Execution for TLC.  Clients, sessions and messages are     *)
(* interchangeable, but the run has a liveness property and uses no        *)
(* symmetry.                                                               *)
(***************************************************************************)
EXTENDS Execution, TLC
=============================================================================
