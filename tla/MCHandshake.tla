----------------------------- MODULE MCHandshake ----------------------------
(***************************************************************************)
(* Handshake for TLC.                                                      *)
(***************************************************************************)
EXTENDS Handshake, TLC

CONSTANTS c1, c2, s1, s2

Interchangeable == Permutations({c1, c2}) \cup Permutations({s1, s2})
=============================================================================
