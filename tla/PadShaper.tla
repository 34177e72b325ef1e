------------------------------ MODULE PadShaper -----------------------------
(***************************************************************************)
(* Lengths of the TLS records of the TCP leg (nrxp/codec.rs, struct        *)
(* PadShaper, and the size constants of nrxp/frame.rs).  The length field  *)
(* of a record travels in the clear, so every connection pads its records  *)
(* up to boundaries it chose at random when it was set up.                 *)
(*                                                                         *)
(* A shaper is the set of its boundaries.  The floating-point share of the *)
(* current boundary that new() draws for each gap is abstracted to any gap *)
(* between MIN_GAP and the ceiling of GAP_CAP.                             *)
(***************************************************************************)
EXTENDS Integers, FiniteSets, FiniteSetsExt

CONSTANTS MaxRecordPlaintext,   \* MAX_RECORD_PLAINTEXT
          AeadTagLen,           \* AEAD_TAG_LEN
          FloorRange,           \* FLOOR_RANGE
          MinGap, MaxGap        \* MIN_GAP and the greatest value of GAP_CAP

ASSUME ShaperAssumption ==
    /\ MaxRecordPlaintext \in Nat /\ AeadTagLen \in Nat \ {0}
    /\ MinGap \in Nat \ {0} /\ MaxGap \in Nat /\ MinGap <= MaxGap
    /\ FloorRange # {} /\ FloorRange \subseteq 1 .. (MaxRecordPlaintext + AeadTagLen - 1)

MaxRecordLen == MaxRecordPlaintext + AeadTagLen

\* What new() can draw: from a floor, gaps up to the ceiling, which is always a boundary.
Shapers ==
    {boundaries \in SUBSET (1 .. MaxRecordLen) :
        /\ MaxRecordLen \in boundaries
        /\ Min(boundaries) \in FloorRange
        /\ \A b \in boundaries \ {MaxRecordLen} :
              LET next == Min({c \in boundaries : c > b})
              IN  /\ next - b <= MaxGap
                  /\ next - b >= MinGap \/ next = MaxRecordLen}

\* Faulty variant: a length that is a boundary is padded to the next one.
TargetRecordLenAbove(shaper, plaintext_len) ==
    LET above == {b \in shaper : b > plaintext_len + AeadTagLen}
    IN  IF above = {} THEN plaintext_len + AeadTagLen ELSE Min(above)

\* The record length plaintext of this length is padded to: the boundary at or
\* above it, or its own length at and beyond the ceiling.
TargetRecordLen(shaper, plaintext_len) ==
    LET record_len == plaintext_len + AeadTagLen
        above      == {b \in shaper : b >= record_len}
    IN  IF record_len >= MaxRecordLen \/ above = {} THEN record_len ELSE Min(above)

=============================================================================
