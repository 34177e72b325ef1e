-------------------------- MODULE MCEpochReceiver ---------------------------
(***************************************************************************)
(* EpochReceiver for TLC.  W = 4 is smaller than the epoch, so slots of    *)
(* the ring are reused; WireWindow = 8 makes Half = W, so both limits of   *)
(* InWindowOpens matter; RekeyAfter = 12 exceeds the wire window, so       *)
(* truncated counters are ambiguous.                                       *)
(***************************************************************************)
EXTENDS EpochReceiver
=============================================================================
