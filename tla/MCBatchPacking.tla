--------------------------- MODULE MCBatchPacking ---------------------------
(***************************************************************************)
(* BatchPacking for TLC: lengths from an empty frame to an oversized one,  *)
(* with two that fill a record exactly and two that just miss it.          *)
(***************************************************************************)
EXTENDS BatchPacking
=============================================================================
