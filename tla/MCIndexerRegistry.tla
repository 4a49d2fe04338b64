------------------------- MODULE MCIndexerRegistry -------------------------
(***************************************************************************)
(* Instances of IndexerRegistry for TLC.  Liveness is checked in the       *)
(* passing run, so nothing is permuted.                                    *)
(***************************************************************************)
EXTENDS IndexerRegistry, TLC
=============================================================================
