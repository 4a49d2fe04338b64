--------------------------- MODULE MCSessionStore ---------------------------
(***************************************************************************)
(* Instances of SessionStore for TLC.  The run has a liveness property, so *)
(* no symmetry is used.                                                    *)
(***************************************************************************)
EXTENDS SessionStore, TLC
=============================================================================
