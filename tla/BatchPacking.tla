---------------------------- MODULE BatchPacking ----------------------------
(***************************************************************************)
(* encode_batch as a function of its argument: the records it makes of     *)
(* every sequence of frames, compared with what its comment promises.      *)
(***************************************************************************)
EXTENDS TxCodec

CONSTANTS PayloadLens,          \* payload lengths of the frames
          MaxItems              \* bound: frames in one call

ASSUME PackingAssumption == PayloadLens \subseteq Nat /\ MaxItems \in Nat

VARIABLES shaper,       \* the connection's boundaries
          items         \* the argument of encode_batch

vars == <<shaper, items>>

Init ==
    /\ shaper \in Shapers
    /\ items = <<>>

\* The caller's queue grows by a frame before the call.
Enqueue(len) ==
    /\ Len(items) < MaxItems
    /\ items' = Append(items, [id |-> Len(items) + 1, type |-> "data", len |-> len, step |-> 0])
    /\ UNCHANGED shaper

Next == \E len \in PayloadLens : Enqueue(len)

Spec == Init /\ [][Next]_vars

-----------------------------------------------------------------------------
Need(i) == WireLen(items[i].len, 0)

\* The bytes of the items after the first k and up to the n-th.
Span(k, n) == SumSeq([i \in 1 .. (n - k) |-> Need(k + i)])

\* Those items may share a record: together they are within its ceiling, or there
\* is only one, which gets a record of its own even when it is oversized.
Fits(k, n) == n = k + 1 \/ Span(k, n) <= MaxRecordPlaintext

\* The least number of records any in-order packing of the first n items needs.
LeastRecords ==
    LET least[n \in 0 .. Len(items)] ==
            IF n = 0 THEN 0
            ELSE 1 + Min({least[k] : k \in {k \in 0 .. (n - 1) : Fits(k, n)}})
    IN  least[Len(items)]

\* encode_batch packs its frames into the least number of TLS records that keeps
\* their order, as its comment says, oversized frames included.
PackingMinimal == Len(EncodeBatch(shaper, items)) = LeastRecords

\* Packing loses, adds and reorders nothing: the records one after the other hold
\* the ids of the frames in the order they were given.
PackingKeepsFrames ==
    LET frames == FlattenSeq(EncodeBatch(shaper, items))
    IN  /\ Len(frames) = Len(items)
        /\ \A i \in 1 .. Len(items) : frames[i].id = items[i].id /\ frames[i].len = items[i].len

\* The lengths in the clear hide the frames: batches that fall between the same
\* two boundaries look the same, so the length of a record is determined by the
\* boundary above its plaintext alone, and padding is never negative nor past
\* the ceiling.
PaddingReachesBoundary ==
    \A r \in 1 .. Len(EncodeBatch(shaper, items)) :
        LET plaintext == EncodeBatch(shaper, items)[r]
            bare      == PlainLen(plaintext) - plaintext[Len(plaintext)].padding_len
        IN  IF bare > MaxRecordPlaintext
            THEN PlainLen(plaintext) = bare
            ELSE /\ PlainLen(plaintext) + AeadTagLen \in shaper
                 /\ \A b \in shaper : b >= bare + AeadTagLen =>
                       PlainLen(plaintext) + AeadTagLen <= b

=============================================================================
