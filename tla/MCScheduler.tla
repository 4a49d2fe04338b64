---------------------------- MODULE MCScheduler ----------------------------
(***************************************************************************)
(* Instances of Scheduler for TLC.  Run slots and editors are each         *)
(* interchangeable, jobs are not: the store lists them by id.              *)
(***************************************************************************)
EXTENDS Scheduler, TLC

RunSymmetry == Permutations(Runs) \cup Permutations(Editors)
=============================================================================
