--------------------------- MODULE MCDatagramLeg ----------------------------
(***************************************************************************)
(* DatagramLeg for TLC.                                                    *)
(***************************************************************************)
EXTENDS DatagramLeg

CONSTANTS ClientSeals, ServerSeals

SealBounds == [p \in Peers |-> IF p = "client" THEN ClientSeals ELSE ServerSeals]
=============================================================================
