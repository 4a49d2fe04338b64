----------------------------- MODULE MCIndexer -----------------------------
(***************************************************************************)
(* Instances of Indexer for TLC.  One handler is set against the worker,   *)
(* so there is nothing to permute.                                         *)
(***************************************************************************)
EXTENDS Indexer, TLC
=============================================================================
