------------------------------- MODULE TcpLeg -------------------------------
(***************************************************************************)
(* One direction of the TCP leg of an established session: TxCodec, the    *)
(* byte stream between the ends, and RxCodec (nrxp/codec.rs), over the     *)
(* per-direction nonce counters of ChaChaStream (crypto/chacha.rs) and the *)
(* record parser (tlseng/tls_record.rs, bridge.rs).  The other direction   *)
(* is a copy of this one: Codec::split gives the two directions nothing in *)
(* common but the key of the frame authenticator.                          *)
(*                                                                         *)
(* TCP hands the receiver the stream in pieces that need not end at record *)
(* boundaries: arrived counts the bytes of the unconsumed stream that are  *)
(* in the receiver's buffer.  A middlebox may also interfere with records  *)
(* that have not arrived: take one out, put an earlier one in again,       *)
(* damage one or rewrite its clear header (the last is not covered by the  *)
(* AEAD).                                                                  *)
(*                                                                         *)
(* The callers of the codec are not part of the repository.  They are      *)
(* modelled by the contract of ErrorAction: Drop and Redirect end the use  *)
(* of the RxCodec that returned them, and a reader calls decode_inbound    *)
(* again and again.  Nothing in TxCodec prevents its caller from going on  *)
(* after a failed call, so here it may.                                    *)
(***************************************************************************)
EXTENDS TxCodec

CONSTANTS RecordHeaderSize,     \* bytes of a TLS record header, 5
          PayloadLens,          \* payload lengths the layer above sends
          CoverTargets,         \* record lengths asked of encode_cover
          FrameTypes,           \* types of frames sent in batches: "data", or "future"
                                \*   for a type byte this receiver does not know
          AuthWindow,           \* AUTH_WINDOW_SIZE
          MaxFrames,            \* bound: frames ever sent
          MaxFailures,          \* bound: AEAD failures of the sender
          MaxInterference,      \* bound: interferences with the stream
          MaxNow                \* bound: authenticator time steps that pass

ASSUME LegAssumption ==
    /\ RecordHeaderSize \in Nat \ {0}
    /\ PayloadLens \subseteq Nat /\ CoverTargets \subseteq Nat
    /\ FrameTypes \subseteq {"data", "future"}
    /\ {AuthWindow, MaxFrames, MaxFailures, MaxInterference, MaxNow} \subseteq Nat

VARIABLES tx,           \* TxCodec: its nonce counter and shaper; its failures so far
          rx,           \* RxCodec: its nonce counter, staging, and the fate of the leg
          wire,         \* the records sent and not yet consumed by the receiver
          arrived,      \* how many bytes of them are in the receiver's buffer
          log,          \* history: every record ever sent
          accepted,     \* history: every frame handed to the sender
          decoded,      \* history: every frame handed out by the receiver
          now,          \* the clock both ends read, in authenticator steps
          interfered    \* how often the stream was interfered with

vars == <<tx, rx, wire, arrived, log, accepted, decoded, now, interfered>>

\* The least length of an application record: a tag and one byte.
MinAppData == AeadTagLen + 1

\* Bytes of a record in the stream, and of a sequence of records.
RecordBytes(record) == RecordHeaderSize + record.body

StreamBytes(records) == SumSeq([i \in DOMAIN records |-> RecordBytes(records[i])])

TypeOK ==
    /\ tx.counter \in Nat /\ tx.shaper \in Shapers /\ tx.failures \in 0 .. MaxFailures
    /\ rx.counter \in Nat /\ rx.status \in {"open", "dropped", "redirected"}
    /\ rx.status # "open" => rx.staging = <<>>
    /\ arrived \in 0 .. StreamBytes(wire)
    /\ Len(accepted) <= MaxFrames /\ Len(decoded) <= MaxFrames
    /\ now \in 0 .. MaxNow /\ interfered \in 0 .. MaxInterference

-----------------------------------------------------------------------------
(***************************************************************************)
(* The sending end.                                                        *)
(***************************************************************************)

\* The k-th frame of a call, stamped with its authenticator's step.
Item(type, len, k) == [id |-> Len(accepted) + k, type |-> type, len |-> len, step |-> now]

\* Faulty variant: one nonce for all records of a call.
EncryptedAlike(plaintexts) ==
    [i \in DOMAIN plaintexts |-> AppDataRecord(tx.counter, plaintexts[i])]

\* Encrypts one plaintext after another: each takes the next nonce.
Encrypted(plaintexts) ==
    [i \in DOMAIN plaintexts |-> AppDataRecord(tx.counter + i - 1, plaintexts[i])]

\* All plaintexts of a call are sealed and its bytes go to the stream.
SendRecords(plaintexts) ==
    LET records == Encrypted(plaintexts)
    IN  /\ tx' = [tx EXCEPT !.counter = @ + Len(plaintexts)]
        /\ wire' = wire \o records
        /\ log' = log \o records

\* Faulty variant: a failed call gives its nonces back.
LoseRecordsRollingBack(plaintexts, i) ==
    /\ tx.failures < MaxFailures
    /\ tx' = [tx EXCEPT !.failures = @ + 1]
    /\ UNCHANGED <<wire, log>>

\* The AEAD fails on the i-th plaintext: that nonce is spent too, and the records
\* already built by the call are lost with its result.
LoseRecords(plaintexts, i) ==
    /\ tx.failures < MaxFailures
    /\ tx' = [tx EXCEPT !.counter = @ + i, !.failures = @ + 1]
    /\ UNCHANGED <<wire, log>>

EncodeWith(items, plaintexts) ==
    /\ Len(accepted) + Len(items) <= MaxFrames
    /\ accepted' = accepted \o items
    /\ \/ SendRecords(plaintexts)
       \/ \E i \in 1 .. Len(plaintexts) : LoseRecords(plaintexts, i)
    /\ UNCHANGED <<rx, arrived, decoded, now, interfered>>

\* TxCodec::encode_batch, and encode_frame for a batch of one.
Batch ==
    \E n \in 1 .. (MaxFrames - Len(accepted)) :
        \E lens \in [1 .. n -> PayloadLens], types \in [1 .. n -> FrameTypes] :
            LET items == [k \in 1 .. n |-> Item(types[k], lens[k], k)]
            IN  EncodeWith(items, EncodeBatch(tx.shaper, items))

Cover ==
    \E target \in CoverTargets :
        LET item == Item("cover", 0, 1)
        IN  EncodeWith(<<item>>, <<EncodeCover(item, target)>>)

-----------------------------------------------------------------------------
(***************************************************************************)
(* The stream.                                                             *)
(***************************************************************************)

\* One more byte reaches the receiver's buffer; a longer read is several such steps.
Arrive ==
    /\ rx.status = "open"
    /\ arrived < StreamBytes(wire)
    /\ arrived' = arrived + 1
    /\ UNCHANGED <<tx, rx, wire, log, accepted, decoded, now, interfered>>

\* What rewriting a record in transit can make of it.
Damaged(record) ==
    {[record EXCEPT !.counter = -1],
     [record EXCEPT !.type = "other"],
     [record EXCEPT !.type = "unknown"],
     [record EXCEPT !.version_ok = FALSE],
     [record EXCEPT !.len = (record.len + 1) % LenMod],
     [record EXCEPT !.len = MinAppData]} \ {record}

\* The positions of the stream of which no byte has arrived.
InTransit == {i \in 1 .. Len(wire) : StreamBytes(SubSeq(wire, 1, i - 1)) >= arrived}

Interfere ==
    /\ rx.status = "open"
    /\ interfered < MaxInterference
    /\ interfered' = interfered + 1
    /\ \/ \E i \in InTransit : wire' = RemoveAt(wire, i)
       \/ \E i \in InTransit, record \in ToSet(log) : wire' = InsertAt(wire, i, record)
       \/ \E i \in InTransit : \E record \in Damaged(wire[i]) : wire' = ReplaceAt(wire, i, record)
    /\ UNCHANGED <<tx, rx, arrived, log, accepted, decoded, now>>

Tick ==
    /\ now < MaxNow
    /\ now' = now + 1
    /\ UNCHANGED <<tx, rx, wire, arrived, log, accepted, decoded, interfered>>

-----------------------------------------------------------------------------
(***************************************************************************)
(* The receiving end: RxCodec::decode_inbound.                             *)
(***************************************************************************)

\* Faulty variant: a record is taken only once a byte follows it.
RecordReadyLate ==
    /\ wire # <<>>
    /\ arrived > RecordHeaderSize + Head(wire).len
    /\ Head(wire).type # "unknown"
    /\ ~(Head(wire).type = "app" /\ Head(wire).len < MinAppData)

\* TlsRecord::can_parse: a known type, a length the type allows, and all bytes of it.
RecordReady ==
    /\ wire # <<>>
    /\ arrived >= RecordHeaderSize
    /\ Head(wire).type # "unknown"
    /\ ~(Head(wire).type = "app" /\ Head(wire).len < MinAppData)
    /\ arrived >= RecordHeaderSize + Head(wire).len

\* Faulty variant: any nonce will do.
DecryptsAnyNonce(record) == record.len = record.body /\ record.counter >= 0

\* ChaChaStream::decrypt succeeds: the payload is a whole ciphertext, sealed
\* under the nonce the receiver's counter is at.
Decrypts(record) == record.len = record.body /\ record.counter = rx.counter

\* Frame::can_parse: the bytes held are those the first header asks for, or more.
FrameReady(staging) ==
    /\ staging # <<>>
    /\ PlainLen(staging) >= WireLen(Head(staging).payload_len, Head(staging).padding_len)

\* The leg ends with an ErrorAction; its buffers go with it.
Fail(status) ==
    /\ rx' = [rx EXCEPT !.status = status, !.staging = <<>>]
    /\ wire' = <<>>
    /\ arrived' = 0
    /\ UNCHANGED decoded

\* Faulty variant: the frame handed out stays in staging.
TakeFrameAgain(staging, counter) ==
    LET head == Head(staging)
    IN  /\ head.type # "future"
        /\ decoded' = Append(decoded, [id |-> head.id, type |-> head.type,
                                       len |-> head.payload_len, step |-> head.step])
        /\ rx' = [rx EXCEPT !.staging = staging, !.counter = counter]

\* try_parse_frame on a staging that holds a frame: hand it out, unless its type
\* byte is unknown.
TakeFrame(staging, counter) ==
    LET head == Head(staging)
    IN  /\ head.type # "future"
        /\ decoded' = Append(decoded, [id |-> head.id, type |-> head.type,
                                       len |-> head.payload_len, step |-> head.step])
        /\ rx' = [rx EXCEPT !.staging = Tail(staging), !.counter = counter]

DrainStaging ==
    /\ FrameReady(rx.staging)
    /\ \/ TakeFrame(rx.staging, rx.counter) /\ UNCHANGED <<wire, arrived>>
       \/ Head(rx.staging).type = "future" /\ Fail("dropped")

\* A record is taken off the buffer, decrypted behind what staging holds, and its
\* first frame is handed out.  Should no frame be ready, the loop goes on to the
\* next record, which is another step of this action.
DecodeRecord ==
    /\ ~FrameReady(rx.staging)
    /\ RecordReady
    /\ LET record  == Head(wire)
           staging == rx.staging \o record.plaintext
       IN  \/ ~record.version_ok /\ Fail("redirected")
           \/ /\ record.version_ok
              /\ record.type # "app" \/ ~Decrypts(record)
              /\ Fail("dropped")
           \/ /\ record.version_ok /\ record.type = "app" /\ Decrypts(record)
              /\ FrameReady(staging)
              /\ \/ /\ TakeFrame(staging, rx.counter + 1)
                    /\ wire' = Tail(wire)
                    /\ arrived' = arrived - RecordBytes(record)
                 \/ Head(staging).type = "future" /\ Fail("dropped")
           \/ /\ record.version_ok /\ record.type = "app" /\ Decrypts(record)
              /\ ~FrameReady(staging)
              /\ rx' = [rx EXCEPT !.staging = staging, !.counter = @ + 1]
              /\ wire' = Tail(wire)
              /\ arrived' = arrived - RecordBytes(record)
              /\ UNCHANGED decoded

\* Ok(None): there is nothing to hand out until more bytes arrive.
AwaitBytes ==
    /\ ~FrameReady(rx.staging)
    /\ ~RecordReady
    /\ UNCHANGED <<rx, wire, arrived, decoded>>

DecodeInbound ==
    /\ rx.status = "open"
    /\ DrainStaging \/ DecodeRecord \/ AwaitBytes
    /\ UNCHANGED <<tx, log, accepted, now, interfered>>

-----------------------------------------------------------------------------
Init ==
    /\ tx \in [counter : {0}, shaper : Shapers, failures : {0}]
    /\ rx = [counter |-> 0, staging |-> <<>>, status |-> "open"]
    /\ wire = <<>> /\ arrived = 0 /\ log = <<>>
    /\ accepted = <<>> /\ decoded = <<>>
    /\ now = 0 /\ interfered = 0

Next == Batch \/ Cover \/ Arrive \/ Interfere \/ Tick \/ DecodeInbound

Spec == Init /\ [][Next]_vars

\* TCP delivers what was sent while the leg is up, and the reader task keeps
\* calling decode_inbound.  Nothing is assumed of the sender.
FairSpec == Spec /\ WF_vars(Arrive) /\ WF_vars(DecodeInbound)

-----------------------------------------------------------------------------
(***************************************************************************)
(* Properties.                                                             *)
(***************************************************************************)
Stream == INSTANCE FrameStream WITH open <- rx.status = "open"

\* The leg is an in-order stream of frames with no gap and no repetition, however
\* frames were batched, wherever the stream was cut, whatever was taken out of
\* it, repeated or rewritten, and whichever encode call failed half-way.
InOrder == Stream!StreamSpec

\* The encoding invariant decode_inbound relies on: what is left in staging
\* between two calls is whole frames whose header fields are their true lengths,
\* although both lengths are cut to 16 bits on the way.
StagingHoldsWholeFrames ==
    \A i \in 1 .. Len(rx.staging) :
        /\ rx.staging[i].payload_len = rx.staging[i].len
        /\ FrameReady(SubSeq(rx.staging, i, Len(rx.staging)))

\* No nonce seals two records of a leg, whichever calls failed half-way.  While
\* nothing interferes, a receiver that is still open comes to each record on the way
\* with the very nonce it was sealed under, as long as no call failed; after a
\* failed call it never comes to one with a later nonce, so a record behind the gap
\* is refused and not taken for another.
CountersInStep ==
    /\ \A j, k \in 1 .. Len(log) : j < k => log[j].counter < log[k].counter
    /\ interfered = 0 /\ rx.status = "open" =>
          /\ \A i \in 1 .. Len(wire) : wire[i].counter >= rx.counter + i - 1
          /\ tx.failures = 0 =>
                /\ rx.counter + Len(wire) = tx.counter
                /\ \A i \in 1 .. Len(wire) : wire[i].counter = rx.counter + i - 1

\* Every record that carries no oversized frame has a length in the clear that is
\* one of the connection's boundaries, or the one encode_cover was asked for (the
\* least or the largest there is, where that is impossible), and never more than
\* TLS 1.3 allows.
LengthsShaped ==
    \A i \in 1 .. Len(log) :
        (\A k \in 1 .. Len(log[i].plaintext) :
            WireLen(log[i].plaintext[k].len, 0) <= MaxRecordPlaintext)
        => /\ log[i].len = log[i].body
           /\ IF log[i].plaintext[1].type = "cover"
              THEN log[i].len \in CoverTargets \cup {EmptyCoverRecord, MaxRecordLen}
              ELSE log[i].len \in tx.shaper

\* Every frame the sender took is handed out in the end, unless a call of the
\* sender failed or the leg was given up: a leg never just stops.
FramesSettle ==
    \A n \in 1 .. MaxFrames :
        Len(accepted) >= n ~>
            Len(decoded) >= n \/ rx.status # "open" \/ tx.failures > 0

\* What the comment on FrameHeader.auth_tag says: the authenticator of a frame is
\* checked by the receiving end, so a frame handed out is no older than the
\* window of verify_tag.
FrameTagsChecked ==
    [][Len(decoded') > Len(decoded) =>
          now - decoded'[Len(decoded')].step <= AuthWindow]_vars

=============================================================================
