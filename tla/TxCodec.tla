------------------------------- MODULE TxCodec ------------------------------
(***************************************************************************)
(* How the TCP leg packs frames into TLS records (nrxp/codec.rs, impl      *)
(* TxCodec; nrxp/frame.rs, Frame::new and into_bytes; TlsRecord in         *)
(* tlseng/tls_record.rs).                                                  *)
(*                                                                         *)
(* An item is what encode_batch is given: a frame of a type with a payload *)
(* of some length, an id that stands for its contents, and the time step   *)
(* its authenticator is computed for.  A plaintext is the sequence of its  *)
(* frames with the header fields the receiver will read: payload_len and   *)
(* padding_len are u16, so both are kept modulo LenMod.                    *)
(***************************************************************************)
EXTENDS PadShaper, Sequences, SequencesExt

CONSTANTS FrameHeaderSize,      \* FRAME_HEADER_SIZE
          LenMod                \* number of values of a u16 length field

ASSUME CodecAssumption ==
    /\ FrameHeaderSize \in Nat \ {0}
    /\ LenMod \in Nat /\ MaxRecordLen < LenMod

WireLen(payload_len, padding_len) == FrameHeaderSize + payload_len + padding_len

\* Frame::new followed by into_bytes.
Serialized(item, padding_len) ==
    [id |-> item.id, type |-> item.type, step |-> item.step, len |-> item.len,
     payload_len |-> item.len % LenMod, padding_len |-> padding_len % LenMod]

\* Faulty variant: the padding announced in the header is not written.
FrameBytesUnpadded(frame) == WireLen(frame.len, 0)

FrameBytes(frame) == WireLen(frame.len, frame.padding_len)

\* The sum of a sequence of lengths.
SumSeq(lens) == FoldLeft(+, 0, lens)

PlainLen(plaintext) == SumSeq([i \in DOMAIN plaintext |-> FrameBytes(plaintext[i])])

\* The plaintext flush_record encrypts: the padding goes to the last frame.
FlushRecord(items, pad) ==
    [i \in DOMAIN items |-> Serialized(items[i], IF i = Len(items) THEN pad ELSE 0)]

\* Faulty variant: the tag is left out of the padding's arithmetic.
FlushShapedPastTag(shaper, items, plain_len) ==
    FlushRecord(items, TargetRecordLen(shaper, plain_len) - plain_len)

FlushShaped(shaper, items, plain_len) ==
    LET target == TargetRecordLen(shaper, plain_len)
        excess == Max({target - (plain_len + AeadTagLen), 0})
    IN  FlushRecord(items, Min({excess, MaxRecordPlaintext - plain_len}))

\* The records so far and the batch being filled, in the loop of encode_batch.
NoBatch == [records |-> <<>>, batch |-> <<>>, batch_len |-> 0]

Flushed(shaper, acc) ==
    IF acc.batch = <<>>
    THEN acc
    ELSE [records   |-> Append(acc.records, FlushShaped(shaper, acc.batch, acc.batch_len)),
          batch     |-> <<>>,
          batch_len |-> 0]

\* Faulty variants of the next operator: a frame that would fill the record
\* exactly opens a new one; an oversized frame overtakes the batch before it.
PackItemEarly(shaper, acc, item) ==
    LET need == WireLen(item.len, 0)
        room == IF acc.batch_len + need >= MaxRecordPlaintext THEN Flushed(shaper, acc) ELSE acc
    IN  IF need > MaxRecordPlaintext
        THEN [room EXCEPT !.records = Append(@, FlushRecord(<<item>>, 0))]
        ELSE [room EXCEPT !.batch = Append(@, item), !.batch_len = @ + need]

PackItemOvertaking(shaper, acc, item) ==
    LET need == WireLen(item.len, 0)
        room == IF acc.batch_len + need > MaxRecordPlaintext THEN Flushed(shaper, acc) ELSE acc
    IN  IF need > MaxRecordPlaintext
        THEN [acc EXCEPT !.records = Append(@, FlushRecord(<<item>>, 0))]
        ELSE [room EXCEPT !.batch = Append(@, item), !.batch_len = @ + need]

\* One turn of that loop.  A batch that is full is never empty, so the flush of
\* the second branch needs no test of its own.
PackItem(shaper, acc, item) ==
    LET need == WireLen(item.len, 0)
        room == IF need > MaxRecordPlaintext \/ acc.batch_len + need > MaxRecordPlaintext
                THEN Flushed(shaper, acc)
                ELSE acc
    IN  IF need > MaxRecordPlaintext
        THEN [room EXCEPT !.records = Append(@, FlushRecord(<<item>>, 0))]
        ELSE [room EXCEPT !.batch = Append(@, item), !.batch_len = @ + need]

\* The plaintexts of the records encode_batch makes of items.
EncodeBatch(shaper, items) ==
    Flushed(shaper, FoldLeft(LAMBDA acc, item : PackItem(shaper, acc, item),
                             NoBatch, items)).records

EmptyCoverRecord == FrameHeaderSize + AeadTagLen

\* encode_cover: one empty frame padded to an exact record length.
EncodeCover(item, target_record_len) ==
    LET target == Max({EmptyCoverRecord, Min({target_record_len, MaxRecordLen})})
    IN  FlushRecord(<<item>>, target - EmptyCoverRecord)

\* TlsRecord::build_application_data around the AEAD's output.
AppDataRecord(counter, plaintext) ==
    LET body == PlainLen(plaintext) + AeadTagLen
    IN  [type |-> "app", version_ok |-> TRUE, len |-> body % LenMod, body |-> body,
         counter |-> counter, plaintext |-> plaintext]

=============================================================================
