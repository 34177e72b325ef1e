------------------------------ MODULE MCTcpLeg ------------------------------
(***************************************************************************)
(* TcpLeg for TLC, at a scale where every length limit is a few bytes: a   *)
(* frame header of 2, a tag of 2, records of at most 8 + 2, and length     *)
(* fields of 4 bits.  Payloads of 0 .. 6 fit a record, 7 .. 11 are         *)
(* oversized, 12 .. 14 wrap the record's length field below its minimum    *)
(* and 15 wraps it to a length the receiver accepts.                       *)
(***************************************************************************)
EXTENDS TcpLeg
=============================================================================
