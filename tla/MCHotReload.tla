---------------------------- MODULE MCHotReload ----------------------------
(***************************************************************************)
(* Instances of HotReload for TLC.  Liveness is checked in the passing     *)
(* run, so nothing is permuted.                                            *)
(***************************************************************************)
EXTENDS HotReload, TLC
=============================================================================
