---------------------------- MODULE TcpLegProofs ----------------------------
(***************************************************************************)
(* The TCP leg, for every size of frames, records and length fields, every *)
(* number of frames, failed calls and interferences with the stream.       *)
(*                                                                         *)
(* The argument goes through the nonces.  The k-th record sent has a nonce *)
(* of k - 1 or more, and of exactly k - 1 only if no call failed before    *)
(* it, in which case its first frame follows the last frame of the record  *)
(* before it (Successive).  A receiver that has opened c records has       *)
(* opened the first c, under the nonces 0 .. c - 1; the next record it can *)
(* open is therefore the one after them, whatever happened to the stream.  *)
(* A record that opens has a length that fits the length field, hence its  *)
(* frames have, and what staging holds is whole frames.                    *)
(***************************************************************************)
EXTENDS TcpLeg, TxCodecProofs, SequenceTheorems

-----------------------------------------------------------------------------
(***************************************************************************)
(* The inductive invariant.                                                *)
(***************************************************************************)

\* The records of the stream, rewritten ones included.
Records == [type : {"app", "other", "unknown"}, version_ok : BOOLEAN, len : Nat, body : Nat,
            counter : Int, plaintext : Plaintexts]

\* The id of the last frame of the first k records sent.
LastSent(sent, k) == IF k = 0 THEN 0 ELSE LastId(sent[k].plaintext)

\* LengthsShaped for one record.
ShapedLength(record, shaper) ==
    (\A k \in 1 .. Len(record.plaintext) :
        WireLen(record.plaintext[k].len, 0) <= MaxRecordPlaintext)
    => /\ record.len = record.body
       /\ IF record.plaintext[1].type = "cover"
          THEN record.len \in CoverTargets \cup {EmptyCoverRecord, MaxRecordLen}
          ELSE record.len \in shaper

\* A record as build_application_data made it.
SentRecord(record, shaper) ==
    /\ record.body = PlainLen(record.plaintext) + AeadTagLen
    /\ record.len <= LenMod
    /\ ShapedLength(record, shaper)

\* The k-th record sent under the k-th nonce, that is, after no failed call,
\* carries the frames that follow those of the records before it.
Successive(sent, frames, k) ==
    sent[k].counter = k - 1 =>
        CarriesFrom(sent[k].plaintext, frames, 0, LastSent(sent, k - 1))

SentInv(sent, frames, sender) ==
    /\ sent \in Seq(Records)
    /\ \A k \in 1 .. Len(sent) :
          /\ SentRecord(sent[k], sender.shaper)
          /\ k - 1 <= sent[k].counter
          /\ Successive(sent, frames, k)
    /\ Len(sent) <= sender.counter
    /\ sender.counter = Len(sent) => Len(frames) = LastSent(sent, Len(sent))
    /\ sender.failures = 0 => sender.counter = Len(sent)

\* A record of the stream is one that was sent, but for its clear header, or does
\* not decrypt at all.
FromSent(record, sent) ==
    \/ record.counter = -1
    \/ \E k \in 1 .. Len(sent) : /\ record.counter = sent[k].counter
                                 /\ record.plaintext = sent[k].plaintext
                                 /\ record.body = sent[k].body

Travels(record, sent) == record.len <= LenMod /\ FromSent(record, sent)

WireInv(stream, sent) ==
    /\ stream \in Seq(Records)
    /\ \A i \in 1 .. Len(stream) : Travels(stream[i], sent)

WholeFrames(staging) == \A j \in 1 .. Len(staging) : staging[j].payload_len = staging[j].len

\* Where the receiver stands when it has decrypted the first counter records.
ReaderInv(staging, counter, count, sent, frames) ==
    /\ staging \in Seq(Frames) /\ WholeFrames(staging)
    /\ counter \in Nat /\ counter <= Len(sent)
    /\ \A k \in 1 .. counter : sent[k].counter = k - 1
    /\ count + Len(staging) = LastSent(sent, counter)
    /\ CarriesFrom(staging, frames, 0, count)

QuietInv(stream, sent, counter) ==
    /\ Len(stream) = Len(sent) - counter
    /\ \A i \in 1 .. Len(stream) : stream[i] = sent[counter + i]

Statuses == {"open", "dropped", "redirected"}

LegTypes ==
    /\ tx \in [counter : Nat, shaper : Shapers, failures : 0 .. MaxFailures]
    /\ rx \in [counter : Nat, staging : Seq(Frames), status : Statuses]
    /\ arrived \in 0 .. StreamBytes(wire)
    /\ accepted \in Seq(Items) /\ Numbered(accepted, 0) /\ Len(accepted) <= MaxFrames
    /\ decoded \in Seq(Items) /\ Len(decoded) <= Len(accepted)
    /\ now \in 0 .. MaxNow /\ interfered \in 0 .. MaxInterference

LegInv ==
    /\ LegTypes
    /\ SentInv(log, accepted, tx)
    /\ WireInv(wire, log)
    /\ rx.status = "open" => ReaderInv(rx.staging, rx.counter, Len(decoded), log, accepted)
    /\ rx.status # "open" => rx.staging = <<>>
    /\ interfered = 0 /\ rx.status = "open" => QuietInv(wire, log, rx.counter)

-----------------------------------------------------------------------------
(***************************************************************************)
(* The stream as a number of bytes.                                        *)
(***************************************************************************)

\* The bytes of a record are a number.
LEMMA RecordSize ==
    ASSUME NEW record \in Records
    PROVE  RecordBytes(record) \in Nat
  BY LegAssumption DEF Records, RecordBytes

\* The lengths of the records of a stream.
Sizes(stream) == [i \in DOMAIN stream |-> RecordBytes(stream[i])]

\* They are natural numbers.
LEMMA SizesAreLens ==
    ASSUME NEW stream \in Seq(Records)
    PROVE  /\ Lens(Sizes(stream), Len(stream)) /\ StreamBytes(stream) = SumSeq(Sizes(stream))
           /\ DOMAIN Sizes(stream) = 1 .. Len(stream)
           /\ \A i \in 1 .. Len(stream) : Sizes(stream)[i] = RecordBytes(stream[i])
  <1> DEFINE n == Len(stream)
  <1>1. n \in Nat /\ DOMAIN stream = 1 .. n /\ \A i \in 1 .. n : stream[i] \in Records
    OBVIOUS
  <1> HIDE DEF n
  <1>2. \A i \in 1 .. n : RecordBytes(stream[i]) \in Nat
    BY <1>1, RecordSize
  <1>3. /\ DOMAIN Sizes(stream) = 1 .. n
        /\ \A i \in 1 .. n : Sizes(stream)[i] = RecordBytes(stream[i])
    BY <1>1 DEF Sizes
  <1>4. Lens(Sizes(stream), n)
    BY <1>2, <1>3 DEF Lens
  <1>5. StreamBytes(stream) = SumSeq(Sizes(stream))
    BY DEF StreamBytes, Sizes
  <1> QED
    BY <1>3, <1>4, <1>5 DEF n

\* The bytes of a stream are a number.
LEMMA StreamSize ==
    ASSUME NEW stream \in Seq(Records)
    PROVE  StreamBytes(stream) \in Nat
  <1>1. Len(stream) \in Nat
    OBVIOUS
  <1> QED
    BY <1>1, SizesAreLens, SumNat

\* The bytes of two streams, one after the other.
LEMMA StreamConcat ==
    ASSUME NEW a \in Seq(Records), NEW b \in Seq(Records)
    PROVE  StreamBytes(a \o b) = StreamBytes(a) + StreamBytes(b)
  <1> DEFINE m == Len(a)
             n == Len(b)
             c == a \o b
             r == Sizes(c)
             s == Sizes(a)
             t == Sizes(b)
  <1>1. m \in Nat /\ n \in Nat /\ c \in Seq(Records) /\ Len(c) = m + n
    OBVIOUS
  <1>2. /\ \A i \in 1 .. m : i \in 1 .. (m + n) /\ c[i] = a[i]
        /\ \A i \in 1 .. n : m + i \in 1 .. (m + n) /\ c[m + i] = b[i]
    OBVIOUS
  <1> HIDE DEF c
  <1>3. /\ Lens(s, m) /\ StreamBytes(a) = SumSeq(s) /\ \A i \in 1 .. m : s[i] = RecordBytes(a[i])
    BY SizesAreLens
  <1>4. /\ Lens(t, n) /\ StreamBytes(b) = SumSeq(t) /\ \A i \in 1 .. n : t[i] = RecordBytes(b[i])
    BY SizesAreLens
  <1>5. /\ StreamBytes(c) = SumSeq(r) /\ DOMAIN r = 1 .. (m + n)
        /\ \A i \in 1 .. (m + n) : r[i] = RecordBytes(c[i])
    <2>1. /\ StreamBytes(c) = SumSeq(r) /\ DOMAIN r = 1 .. Len(c)
          /\ \A i \in 1 .. Len(c) : r[i] = RecordBytes(c[i])
      BY <1>1, SizesAreLens
    <2> HIDE DEF m, n, r
    <2> QED
      BY <1>1, <2>1
  <1> HIDE DEF m, n, r, s, t
  <1>6. Begins(r, s, m)
    BY <1>2, <1>3, <1>5 DEF Begins
  <1>7. Continues(r, t, m, n)
    BY <1>2, <1>4, <1>5 DEF Continues
  <1>8. SumSeq(r) = SumSeq(s) + SumSeq(t)
    BY <1>1, <1>3, <1>4, <1>5, <1>6, <1>7, SumSplit
  <1> QED
    BY <1>3, <1>4, <1>5, <1>8 DEF c

\* The bytes of a stream of one record, and of a stream that begins with one.
LEMMA StreamFirst ==
    ASSUME NEW stream \in Seq(Records), stream # <<>>
    PROVE  /\ Head(stream) \in Records /\ Tail(stream) \in Seq(Records)
           /\ StreamBytes(stream) = RecordBytes(Head(stream)) + StreamBytes(Tail(stream))
  <1> DEFINE h == Head(stream)
             rest == Tail(stream)
             one == <<h>>
  <1>1. h \in Records /\ rest \in Seq(Records) /\ stream = one \o rest
    OBVIOUS
  <1> HIDE DEF h, rest
  <1>2. one \in Seq(Records) /\ Len(one) = 1 /\ one[1] = h
    BY <1>1
  <1> HIDE DEF one
  <1>3. /\ StreamBytes(one) = SumSeq(Sizes(one)) /\ DOMAIN Sizes(one) = 1 .. 1
        /\ Sizes(one)[1] = RecordBytes(h)
    <2>1. 1 \in 1 .. Len(one)
      BY <1>2
    <2> QED
      BY <1>2, <2>1, SizesAreLens
  <1>4. StreamBytes(one) = RecordBytes(h)
    BY <1>1, <1>3, RecordSize, SumShort
  <1>5. StreamBytes(one \o rest) = StreamBytes(one) + StreamBytes(rest)
    BY <1>1, <1>2, StreamConcat
  <1> QED
    BY <1>1, <1>4, <1>5 DEF h, rest

\* No records are no bytes.
LEMMA StreamNothing == StreamBytes(<<>>) = 0
  <1>1. <<>> \in Seq(Records) /\ Len(<<>>) = 0
    OBVIOUS
  <1>2. StreamBytes(<<>>) = SumSeq(Sizes(<<>>)) /\ DOMAIN Sizes(<<>>) = 1 .. 0
    BY <1>1, SizesAreLens
  <1> QED
    BY <1>2, SumShort

\* Rewriting a record without changing its length on the wire.
LEMMA StreamRewritten ==
    ASSUME NEW stream \in Seq(Records), NEW i \in 1 .. Len(stream), NEW record \in Records,
           record.body = stream[i].body
    PROVE  LET other == [stream EXCEPT ![i] = record]
           IN  /\ other \in Seq(Records) /\ Len(other) = Len(stream)
               /\ \A j \in 1 .. Len(stream) : other[j] = IF j = i THEN record ELSE stream[j]
               /\ StreamBytes(other) = StreamBytes(stream)
  <1> DEFINE other == [stream EXCEPT ![i] = record]
  <1>1. /\ other \in Seq(Records) /\ Len(other) = Len(stream)
        /\ \A j \in 1 .. Len(stream) : other[j] = IF j = i THEN record ELSE stream[j]
    BY ExceptSeq
  <1>2. DOMAIN other = DOMAIN stream /\ DOMAIN stream = 1 .. Len(stream)
    OBVIOUS
  <1> HIDE DEF other
  <1>3. RecordBytes(record) = RecordBytes(stream[i])
    BY DEF RecordBytes
  <1>4. \A j \in DOMAIN stream : RecordBytes(other[j]) = RecordBytes(stream[j])
    BY <1>1, <1>2, <1>3
  <1>5. Sizes(other) = Sizes(stream)
    BY <1>2, <1>4 DEF Sizes
  <1>6. StreamBytes(other) = StreamBytes(stream)
    BY <1>5 DEF StreamBytes, Sizes
  <1> QED
    BY <1>1, <1>6 DEF other

-----------------------------------------------------------------------------
(***************************************************************************)
(* Interference with the stream.                                           *)
(***************************************************************************)

\* Streams of such records, one after the other.
LEMMA WireConcat ==
    ASSUME NEW sent, NEW a, NEW b, WireInv(a, sent), WireInv(b, sent)
    PROVE  WireInv(a \o b, sent)
  <1>1. a \in Seq(Records) /\ b \in Seq(Records)
    BY DEF WireInv
  <1>2. a \o b \in Seq(Records) /\ Len(a \o b) = Len(a) + Len(b)
    BY <1>1
  <1>3. ASSUME NEW i \in 1 .. Len(a \o b)
        PROVE  Travels((a \o b)[i], sent)
    <2>1. CASE i <= Len(a)
      <3>1. i \in 1 .. Len(a) /\ (a \o b)[i] = a[i]
        BY <1>1, <1>2, <2>1
      <3> QED
        BY <3>1 DEF WireInv
    <2>2. CASE ~(i <= Len(a))
      <3>1. i - Len(a) \in 1 .. Len(b) /\ (a \o b)[i] = b[i - Len(a)]
        BY <1>1, <1>2, <2>2
      <3> QED
        BY <3>1 DEF WireInv
    <2> QED
      BY <2>1, <2>2
  <1> QED
    BY <1>2, <1>3 DEF WireInv

\* A part of such a stream.
LEMMA WirePart ==
    ASSUME NEW sent, NEW a, WireInv(a, sent), NEW m \in Nat, m >= 1, NEW n \in Nat, n <= Len(a)
    PROVE  WireInv(SubSeq(a, m, n), sent) /\ SubSeq(a, m, n) \in Seq(Records)
  <1> DEFINE part == SubSeq(a, m, n)
  <1>1. a \in Seq(Records) /\ Len(a) \in Nat
    BY DEF WireInv
  <1>2. \A i \in m .. n : a[i] \in Records
    BY <1>1
  <1>3. /\ part \in Seq(Records) /\ Len(part) = IF m <= n THEN (n - m) + 1 ELSE 0
        /\ \A i \in 1 .. ((n - m) + 1) : part[i] = a[(m + i) - 1]
    BY <1>2, SubSeqProperties
  <1> HIDE DEF part
  <1>4. ASSUME NEW i \in 1 .. Len(part)
        PROVE  Travels(part[i], sent)
    <2>1. i \in 1 .. ((n - m) + 1) /\ (m + i) - 1 \in 1 .. Len(a)
      BY <1>1, <1>3
    <2> QED
      BY <1>3, <2>1 DEF WireInv
  <1> QED
    BY <1>3, <1>4 DEF part, WireInv

\* One record is a stream of its own.
LEMMA WireOne ==
    ASSUME NEW sent, NEW record \in Records, Travels(record, sent)
    PROVE  WireInv(<<record>>, sent) /\ <<record>> \in Seq(Records)
  <1>1. /\ <<record>> \in Seq(Records) /\ Len(<<record>>) = 1 /\ <<record>>[1] = record
    OBVIOUS
  <1> QED
    BY <1>1 DEF WireInv

\* What was sent travels.
LEMMA SentTravels ==
    ASSUME NEW frames, NEW sender, NEW sent, SentInv(sent, frames, sender)
    PROVE  \A k \in 1 .. Len(sent) : sent[k] \in Records /\ Travels(sent[k], sent)
  <1> SUFFICES ASSUME NEW k \in 1 .. Len(sent)
               PROVE  sent[k] \in Records /\ Travels(sent[k], sent)
    OBVIOUS
  <1>1. sent \in Seq(Records) /\ SentRecord(sent[k], sender.shaper)
    BY DEF SentInv
  <1>2. sent[k] \in Records /\ sent[k].len <= LenMod
    BY <1>1 DEF SentRecord
  <1>3. FromSent(sent[k], sent)
    BY DEF FromSent
  <1> QED
    BY <1>2, <1>3 DEF Travels

\* Taking a record out of the stream.
LEMMA RemovedWire ==
    ASSUME NEW sent, NEW stream, WireInv(stream, sent), NEW i \in 1 .. Len(stream)
    PROVE  /\ WireInv(RemoveAt(stream, i), sent)
           /\ StreamBytes(RemoveAt(stream, i)) >= StreamBytes(SubSeq(stream, 1, i - 1))
  <1> DEFINE a == SubSeq(stream, 1, i - 1)
             b == SubSeq(stream, i + 1, Len(stream))
  <1>1. /\ stream \in Seq(Records) /\ Len(stream) \in Nat /\ i - 1 \in Nat /\ i - 1 <= Len(stream)
        /\ i + 1 \in Nat /\ i + 1 >= 1 /\ Len(stream) <= Len(stream)
    BY DEF WireInv
  <1>2. WireInv(a, sent) /\ a \in Seq(Records)
    BY <1>1, WirePart
  <1>3. WireInv(b, sent) /\ b \in Seq(Records)
    BY <1>1, WirePart
  <1>4. RemoveAt(stream, i) = a \o b
    BY DEF RemoveAt
  <1> HIDE DEF a, b
  <1>5. /\ StreamBytes(a \o b) = StreamBytes(a) + StreamBytes(b)
        /\ StreamBytes(a) \in Nat /\ StreamBytes(b) \in Nat
    BY <1>2, <1>3, StreamConcat, StreamSize
  <1>6. StreamBytes(a \o b) >= StreamBytes(a)
    BY <1>5
  <1>7. WireInv(a \o b, sent)
    BY <1>2, <1>3, WireConcat
  <1> QED
    BY <1>4, <1>6, <1>7 DEF a

\* Putting a record into the stream.
LEMMA InsertedWire ==
    ASSUME NEW sent, NEW stream, WireInv(stream, sent), NEW i \in 1 .. Len(stream),
           NEW record \in Records, Travels(record, sent)
    PROVE  /\ WireInv(InsertAt(stream, i, record), sent)
           /\ StreamBytes(InsertAt(stream, i, record)) >= StreamBytes(SubSeq(stream, 1, i - 1))
  <1> DEFINE a == SubSeq(stream, 1, i - 1)
             b == SubSeq(stream, i, Len(stream))
             one == <<record>>
  <1>1. /\ stream \in Seq(Records) /\ Len(stream) \in Nat /\ i - 1 \in Nat /\ i - 1 <= Len(stream)
        /\ i \in Nat /\ i >= 1 /\ Len(stream) <= Len(stream)
    BY DEF WireInv
  <1>2. WireInv(a, sent) /\ a \in Seq(Records)
    BY <1>1, WirePart
  <1>3. WireInv(b, sent) /\ b \in Seq(Records)
    BY <1>1, WirePart
  <1>4. WireInv(one, sent) /\ one \in Seq(Records)
    BY WireOne
  <1>5. InsertAt(stream, i, record) = (a \o one) \o b
    BY DEF InsertAt
  <1> HIDE DEF a, b, one
  <1> DEFINE c == a \o one
  <1>6. WireInv(c, sent) /\ c \in Seq(Records)
    BY <1>2, <1>4, WireConcat
  <1>7. /\ StreamBytes(c) = StreamBytes(a) + StreamBytes(one)
        /\ StreamBytes(a) \in Nat /\ StreamBytes(one) \in Nat
    BY <1>2, <1>4, StreamConcat, StreamSize
  <1> HIDE DEF c
  <1>8. /\ StreamBytes(c \o b) = StreamBytes(c) + StreamBytes(b) /\ StreamBytes(b) \in Nat
    BY <1>3, <1>6, StreamConcat, StreamSize
  <1>9. StreamBytes(c \o b) >= StreamBytes(a)
    BY <1>7, <1>8
  <1>10. WireInv(c \o b, sent)
    BY <1>3, <1>6, WireConcat
  <1> QED
    BY <1>5, <1>9, <1>10 DEF a, c

\* What rewriting makes of a record: a record of the same length on the wire.
LEMMA DamagedRecord ==
    ASSUME NEW sent, NEW record \in Records, Travels(record, sent), NEW other \in Damaged(record)
    PROVE  other \in Records /\ Travels(other, sent) /\ other.body = record.body
  <1>1. /\ record.len \in Nat /\ record.body \in Nat /\ record.version_ok \in BOOLEAN
        /\ record.type \in {"app", "other", "unknown"} /\ record.counter \in Int
        /\ record.plaintext \in Plaintexts
    BY DEF Records
  <1>2. (record.len + 1) % LenMod \in Nat /\ (record.len + 1) % LenMod <= LenMod
    <2>1. LenMod \in Nat /\ LenMod > 0
      BY CodecConstants
    <2>2. \A x \in Nat : x % LenMod \in 0 .. (LenMod - 1)
      BY <2>1
    <2> QED
      BY <1>1, <2>1, <2>2
  <1>3. MinAppData \in Nat /\ MinAppData <= LenMod
    BY CodecConstants DEF MinAppData
  <1>4. record.len <= LenMod /\ FromSent(record, sent)
    BY DEF Travels
  <1> DEFINE long == (record.len + 1) % LenMod
             short == MinAppData
  <1>5. \/ other = [record EXCEPT !.counter = -1]
        \/ other = [record EXCEPT !.type = "other"]
        \/ other = [record EXCEPT !.type = "unknown"]
        \/ other = [record EXCEPT !.version_ok = FALSE]
        \/ other = [record EXCEPT !.len = long]
        \/ other = [record EXCEPT !.len = short]
    BY DEF Damaged
  <1>6. long \in Nat /\ long <= LenMod /\ short \in Nat /\ short <= LenMod
    BY <1>2, <1>3
  <1> HIDE DEF long, short
  <1>7. other \in Records
    <2>1. /\ [record EXCEPT !.counter = -1] \in Records
          /\ [record EXCEPT !.type = "other"] \in Records
          /\ [record EXCEPT !.type = "unknown"] \in Records
      BY <1>1 DEF Records
    <2>2. [record EXCEPT !.version_ok = FALSE] \in Records
      BY <1>1 DEF Records
    <2>3. /\ [record EXCEPT !.len = long] \in Records
          /\ [record EXCEPT !.len = short] \in Records
      BY <1>1, <1>6 DEF Records
    <2> QED
      BY <1>5, <2>1, <2>2, <2>3
  <1>8. /\ other.body = record.body /\ other.plaintext = record.plaintext
        /\ other.counter = -1 \/ other.counter = record.counter
        /\ other.len = record.len \/ other.len = long \/ other.len = short
    BY <1>5 DEF Records
  <1>9. FromSent(other, sent)
    BY <1>4, <1>8 DEF FromSent
  <1> QED
    BY <1>4, <1>6, <1>7, <1>8, <1>9 DEF Travels

\* Rewriting a record of the stream.
LEMMA ReplacedWire ==
    ASSUME NEW sent, NEW stream, WireInv(stream, sent), NEW i \in 1 .. Len(stream),
           NEW other \in Damaged(stream[i])
    PROVE  /\ WireInv(ReplaceAt(stream, i, other), sent)
           /\ StreamBytes(ReplaceAt(stream, i, other)) = StreamBytes(stream)
  <1>1. stream \in Seq(Records) /\ stream[i] \in Records /\ Travels(stream[i], sent)
    BY DEF WireInv
  <1>2. other \in Records /\ Travels(other, sent) /\ other.body = stream[i].body
    BY <1>1, DamagedRecord
  <1> DEFINE new == [stream EXCEPT ![i] = other]
  <1>3. /\ new \in Seq(Records) /\ Len(new) = Len(stream)
        /\ \A j \in 1 .. Len(stream) : new[j] = IF j = i THEN other ELSE stream[j]
        /\ StreamBytes(new) = StreamBytes(stream)
    BY <1>1, <1>2, StreamRewritten
  <1>4. ReplaceAt(stream, i, other) = new
    BY DEF ReplaceAt
  <1> HIDE DEF new
  <1>5. ASSUME NEW j \in 1 .. Len(new) PROVE Travels(new[j], sent)
    BY <1>2, <1>3 DEF WireInv
  <1> QED
    BY <1>3, <1>4, <1>5 DEF WireInv

-----------------------------------------------------------------------------
(***************************************************************************)
(* The sending end.                                                        *)
(***************************************************************************)

\* What is known of the plaintexts a call of the sender makes of its frames, the
\* first of which follows the id base: they carry the frames in order, each once,
\* and the records built of them are shaped.
Call(items, base, plaintexts, shaper) ==
    /\ plaintexts \in Seq(Plaintexts)
    /\ \A r \in 1 .. Len(plaintexts) :
          /\ CarriesFrom(plaintexts[r], items, base, Before(plaintexts, base, r))
          /\ \A c \in Nat : ShapedLength(AppDataRecord(c, plaintexts[r]), shaper)
    /\ Before(plaintexts, base, Len(plaintexts) + 1) = base + Len(items)

\* A record of build_application_data.
LEMMA BuiltRecord ==
    ASSUME NEW p \in Plaintexts, NEW c \in Nat
    PROVE  LET record == AppDataRecord(c, p)
           IN  /\ record \in Records /\ record.counter = c /\ record.plaintext = p
               /\ record.body = PlainLen(p) + AeadTagLen /\ record.body \in Nat
               /\ record.len = record.body % LenMod /\ record.len <= LenMod
  <1> DEFINE body == PlainLen(p) + AeadTagLen
             len == body % LenMod
  <1>1. PlainLen(p) \in Nat
    BY PlainAtLeast DEF Plaintexts
  <1>2. body \in Nat
    BY <1>1, CodecConstants
  <1>3. len \in Nat /\ len <= LenMod
    <2> HIDE DEF body
    <2>1. LenMod \in Nat /\ LenMod > 0
      BY CodecConstants
    <2>2. body % LenMod \in 0 .. (LenMod - 1)
      BY <1>2, <2>1
    <2> QED
      BY <2>1, <2>2
  <1>4. AppDataRecord(c, p) = [type |-> "app", version_ok |-> TRUE, len |-> len, body |-> body,
                               counter |-> c, plaintext |-> p]
    BY DEF AppDataRecord
  <1> HIDE DEF body, len
  <1> DEFINE record == [type |-> "app", version_ok |-> TRUE, len |-> len, body |-> body,
                        counter |-> c, plaintext |-> p]
  <1>5. record \in Records
    BY <1>2, <1>3 DEF Records
  <1>6. /\ record.counter = c /\ record.plaintext = p
        /\ record.body = body /\ record.len = len
    OBVIOUS
  <1> HIDE DEF record
  <1>7. AppDataRecord(c, p) = record
    BY <1>4 DEF record
  <1> QED
    BY <1>2, <1>3, <1>5, <1>6, <1>7 DEF body, len

\* A record whose length fits the length field has its true length in the clear.
LEMMA FittingRecord ==
    ASSUME NEW p \in Plaintexts, NEW c \in Nat, PlainLen(p) + AeadTagLen <= MaxRecordLen
    PROVE  /\ AppDataRecord(c, p).len = PlainLen(p) + AeadTagLen
           /\ AppDataRecord(c, p).len = AppDataRecord(c, p).body
  <1> DEFINE body == PlainLen(p) + AeadTagLen
  <1>1. /\ AppDataRecord(c, p).body = body /\ body \in Nat
        /\ AppDataRecord(c, p).len = body % LenMod
    BY BuiltRecord
  <1>2. body < LenMod /\ LenMod \in Nat
    BY <1>1, CodecConstants
  <1> HIDE DEF body
  <1>3. body % LenMod = body
    BY <1>1, <1>2
  <1> QED
    BY <1>1, <1>3 DEF body

\* The records of encode_batch, on frames that are no cover frames.
LEMMA BatchCall ==
    ASSUME NEW shaper \in Shapers, NEW items \in Seq(Items), NEW base \in Nat,
           Numbered(items, base), \A i \in 1 .. Len(items) : items[i].type # "cover"
    PROVE  Call(items, base, EncodeBatch(shaper, items), shaper)
  <1> DEFINE records == EncodeBatch(shaper, items)
  <1>1. /\ Covering(shaper, items, base, records)
        /\ Before(records, base, Len(records) + 1) = base + Len(items)
    BY EncodeBatchCovers
  <1> HIDE DEF records
  <1>2. records \in Seq(Plaintexts)
    BY <1>1 DEF Covering
  <1>3. ASSUME NEW r \in 1 .. Len(records), NEW c \in Nat
        PROVE  ShapedLength(AppDataRecord(c, records[r]), shaper)
    <2> DEFINE p == records[r]
               record == AppDataRecord(c, p)
    <2>1. p \in Plaintexts /\ p \in Seq(Frames) /\ Len(p) \in Nat /\ Len(p) >= 1
      <3>1. p \in Plaintexts
        BY <1>2
      <3> HIDE DEF p
      <3> QED
        BY <3>1 DEF Plaintexts
    <2>2. /\ CarriesFrom(p, items, base, Before(records, base, r)) /\ ShapedRecord(shaper, p)
      BY <1>1 DEF Covering
    <2> DEFINE from == Before(records, base, r)
    <2> HIDE DEF p, from
    <2>3. p[1].type # "cover"
      <3>1. (from + 1) - base \in 1 .. Len(items) /\ Carries(p[1], items[(from + 1) - base])
        <4>1. 1 \in 1 .. Len(p)
          BY <2>1
        <4> QED
          BY <2>2, <4>1 DEF CarriesFrom, from
      <3> QED
        BY <3>1 DEF Carries
    <2>4. record.plaintext = p
      BY <2>1, BuiltRecord
    <2> SUFFICES ASSUME \A k \in 1 .. Len(p) : WireLen(p[k].len, 0) <= MaxRecordPlaintext
                 PROVE  record.len = record.body /\ record.len \in shaper
      <3> HIDE DEF record
      <3> QED
        BY <2>3, <2>4 DEF ShapedLength, record, p
    <2>5. ~(Bare(p) > MaxRecordPlaintext)
      <3> SUFFICES ASSUME Bare(p) > MaxRecordPlaintext PROVE FALSE
        OBVIOUS
      <3>1. Len(p) = 1
        BY <2>2 DEF ShapedRecord
      <3>2. DOMAIN p = 1 .. 1 /\ p[1] \in Frames /\ 1 \in 1 .. Len(p)
        BY <2>1, <3>1
      <3>3. p[1].len \in Nat
        BY <3>2 DEF Frames
      <3>4. Bare(p) = WireLen(p[1].len, 0)
        BY <3>2, <3>3, BareOne
      <3>5. WireLen(p[1].len, 0) <= MaxRecordPlaintext /\ WireLen(p[1].len, 0) \in Nat
        BY <3>2, <3>3, FrameSizes
      <3> QED
        BY <3>4, <3>5, CodecConstants
    <2>6. PlainLen(p) + AeadTagLen = TargetRecordLen(shaper, Bare(p))
      BY <2>2, <2>5 DEF ShapedRecord
    <2>7. Bare(p) \in Nat /\ Bare(p) <= MaxRecordPlaintext
      <3>1. Bare(p) \in Nat
        BY <2>1, BareNat
      <3> QED
        BY <2>5, <3>1, CodecConstants
    <2>8. /\ TargetRecordLen(shaper, Bare(p)) \in shaper
          /\ TargetRecordLen(shaper, Bare(p)) <= MaxRecordLen
      BY <2>7, TargetIsLeastBoundary
    <2>9. record.len = PlainLen(p) + AeadTagLen /\ record.len = record.body
      BY <2>1, <2>6, <2>8, FittingRecord
    <2> QED
      BY <2>6, <2>8, <2>9
  <1>4. \A r \in 1 .. Len(records) : CarriesFrom(records[r], items, base, Before(records, base, r))
    BY <1>1 DEF Covering
  <1> QED
    BY <1>1, <1>2, <1>3, <1>4 DEF Call, records

\* The record of encode_cover.
LEMMA CoverCall ==
    ASSUME NEW shaper, NEW base \in Nat, NEW item \in Items, item.id = base + 1, item.len = 0,
           item.type = "cover", NEW target \in CoverTargets
    PROVE  Call(<<item>>, base, <<EncodeCover(item, target)>>, shaper)
  <1> DEFINE items == <<item>>
             aim == Max({EmptyCoverRecord, Min({target, MaxRecordLen})})
             pad == aim - EmptyCoverRecord
             p == FlushRecord(items, pad)
  <1>1. items \in Seq(Items) /\ items # <<>> /\ Len(items) = 1 /\ items[1] = item /\ DOMAIN items = 1 .. 1
    OBVIOUS
  <1>2. EncodeCover(item, target) = p
    BY DEF EncodeCover
  <1>3. target \in Nat /\ EmptyCoverRecord = FrameHeaderSize + AeadTagLen
    BY LegAssumption DEF EmptyCoverRecord
  <1> DEFINE low == Min({target, MaxRecordLen})
  <1>4. low = (IF target <= MaxRecordLen THEN target ELSE MaxRecordLen) /\ low \in Nat
    BY <1>3, PairMinMax, CodecConstants
  <1>5. EmptyCoverRecord \in Nat
    BY <1>3, CodecConstants
  <1> HIDE DEF low
  <1>6. aim = IF EmptyCoverRecord >= low THEN EmptyCoverRecord ELSE low
    <2>1. aim = Max({EmptyCoverRecord, low})
      BY DEF low
    <2>2. EmptyCoverRecord \in Int /\ low \in Int
      BY <1>4, <1>5
    <2> HIDE DEF aim
    <2>3. Max({EmptyCoverRecord, low}) = IF EmptyCoverRecord >= low THEN EmptyCoverRecord ELSE low
      BY <2>2, PairMinMax
    <2> QED
      BY <2>1, <2>3
  <1> HIDE DEF aim
  <1>7. /\ aim \in Nat /\ pad \in Nat /\ pad < LenMod
        /\ aim \in CoverTargets \cup {EmptyCoverRecord, MaxRecordLen}
        /\ aim <= MaxRecordLen \/ aim = EmptyCoverRecord
    <2>1. aim \in Nat /\ pad \in Nat /\ pad < LenMod
      BY <1>4, <1>5, <1>6, CodecConstants
    <2>2. aim = EmptyCoverRecord \/ aim = target \/ aim = MaxRecordLen
      BY <1>4, <1>6
    <2>3. aim <= MaxRecordLen \/ aim = EmptyCoverRecord
      BY <1>3, <1>4, <1>6, CodecConstants
    <2> QED
      BY <2>1, <2>2, <2>3
  <1>8. pad + EmptyCoverRecord = aim
    BY <1>5, <1>7
  <1> HIDE DEF pad, items
  <1>9. /\ p \in Seq(Frames) /\ Len(p) = 1 /\ Carries(p[1], item)
    <2>1. /\ p \in Seq(Frames) /\ Len(p) = Len(items)
          /\ \A i \in 1 .. Len(items) : Carries(p[i], items[i])
      BY <1>1, <1>7, FlushedFrames
    <2>2. 1 \in 1 .. Len(items)
      BY <1>1
    <2> QED
      BY <1>1, <2>1, <2>2
  <1>10. PlainLen(p) = Bare(items) + pad
    BY <1>1, <1>7, FlushedLen
  <1>11. Bare(items) = FrameHeaderSize
    <2>1. items[1].len \in Nat /\ items[1].len = 0
      BY <1>1
    <2>2. Bare(items) = WireLen(0, 0)
      BY <1>1, <2>1, BareOne
    <2> QED
      BY <2>2, FrameSizes, CodecConstants
  <1> HIDE DEF p
  <1>12. PlainLen(p) + AeadTagLen = aim
    BY <1>3, <1>7, <1>8, <1>10, <1>11, CodecConstants
  <1>13. p \in Plaintexts
    <2>1. Len(p) # 0
      BY <1>9
    <2> QED
      BY <1>9, <2>1, NonEmptyPlaintext
  <1>14. p[1].id = base + 1 /\ p[1].type = "cover" /\ p[1].len = 0
    BY <1>9 DEF Carries
  <1>15. ASSUME NEW c \in Nat PROVE ShapedLength(AppDataRecord(c, p), shaper)
    <2> DEFINE record == AppDataRecord(c, p)
    <2>1. record.plaintext = p
      BY <1>13, BuiltRecord
    <2> SUFFICES ASSUME \A k \in 1 .. Len(p) : WireLen(p[k].len, 0) <= MaxRecordPlaintext
                 PROVE  /\ record.len = record.body
                        /\ record.len \in CoverTargets \cup {EmptyCoverRecord, MaxRecordLen}
      <3> HIDE DEF record
      <3> QED
        BY <1>14, <2>1 DEF ShapedLength, record
    <2>2. FrameHeaderSize <= MaxRecordPlaintext
      <3>1. 1 \in 1 .. Len(p)
        BY <1>9
      <3>2. WireLen(0, 0) <= MaxRecordPlaintext
        BY <1>14, <3>1
      <3> QED
        BY <3>2, FrameSizes, CodecConstants
    <2>3. aim <= MaxRecordLen
      BY <1>3, <1>7, <2>2, CodecConstants
    <2>4. record.len = PlainLen(p) + AeadTagLen /\ record.len = record.body
      BY <1>12, <1>13, <2>3, FittingRecord
    <2> QED
      BY <1>7, <1>12, <2>4
  <1> DEFINE ps == <<p>>
  <1>16. ps \in Seq(Plaintexts) /\ Len(ps) = 1 /\ ps[1] = p
    BY <1>13
  <1> HIDE DEF ps
  <1>17. Before(ps, base, 1) = base
    BY DEF Before
  <1>18. Before(ps, base, Len(ps) + 1) = base + Len(items)
    BY <1>1, <1>9, <1>14, <1>16 DEF Before, LastId
  <1>19. CarriesFrom(p, items, base, base)
    <2>1. (base + 1) - base = 1 /\ 1 \in 1 .. Len(items)
      BY <1>1
    <2> QED
      BY <1>1, <1>9, <1>14, <2>1 DEF CarriesFrom
  <1>20. Call(items, base, ps, shaper)
    BY <1>15, <1>16, <1>17, <1>18, <1>19 DEF Call
  <1> QED
    BY <1>2, <1>20 DEF items, ps

\* A plaintext goes on carrying the frames it carries when others are accepted.
LEMMA CarriesMore ==
    ASSUME NEW frames \in Seq(Items), NEW items \in Seq(Items), NEW p, NEW from,
           CarriesFrom(p, frames, 0, from)
    PROVE  CarriesFrom(p, frames \o items, 0, from)
  <1>1. /\ Len(frames \o items) = Len(frames) + Len(items)
        /\ \A i \in 1 .. Len(frames) : i \in 1 .. Len(frames \o items) /\ (frames \o items)[i] = frames[i]
    OBVIOUS
  <1> QED
    BY <1>1 DEF CarriesFrom

\* A plaintext that carries frames of a call carries the same accepted frames.
LEMMA CarriesShifted ==
    ASSUME NEW frames \in Seq(Items), NEW items \in Seq(Items), NEW p, NEW from \in Nat,
           CarriesFrom(p, items, Len(frames), from)
    PROVE  CarriesFrom(p, frames \o items, 0, from)
  <1> DEFINE all == frames \o items
             b == Len(frames)
  <1>1. /\ b \in Nat /\ Len(items) \in Nat /\ Len(all) = b + Len(items)
        /\ \A i \in 1 .. Len(items) : all[b + i] = items[i]
    OBVIOUS
  <1> HIDE DEF all, b
  <1>2. ASSUME NEW j \in 1 .. Len(p)
        PROVE  /\ p[j].id = from + j
               /\ (from + j) - 0 \in 1 .. Len(all)
               /\ Carries(p[j], all[(from + j) - 0])
    <2>1. p[j].id = from + j /\ (from + j) - b \in 1 .. Len(items) /\ Carries(p[j], items[(from + j) - b])
      BY DEF CarriesFrom, b
    <2>2. j \in Int /\ (from + j) - 0 = b + ((from + j) - b) /\ (from + j) - 0 \in 1 .. Len(all)
      <3>1. j \in Int
        OBVIOUS
      <3> QED
        BY <1>1, <2>1, <3>1
    <2> QED
      BY <1>1, <2>1, <2>2
  <1> QED
    BY <1>2 DEF CarriesFrom, all

\* What a sender is.
Senders == [counter : Nat, shaper : Shapers, failures : Nat]

\* The ids of the frames before a record of a call are numbers.
LEMMA BeforeNat ==
    ASSUME NEW ps \in Seq(Plaintexts), NEW base \in Nat, NEW r \in 1 .. (Len(ps) + 1)
    PROVE  Before(ps, base, r) \in Nat
  <1>1. CASE r = 1
    BY <1>1 DEF Before
  <1>2. CASE r # 1
    <2> DEFINE p == ps[r - 1]
    <2>1. p \in Plaintexts
      BY <1>2
    <2> HIDE DEF p
    <2>2. p \in Seq(Frames) /\ Len(p) \in 1 .. Len(p)
      BY <2>1 DEF Plaintexts
    <2>3. p[Len(p)] \in Frames
      BY <2>2
    <2>4. LastId(p) \in Nat
      BY <2>3 DEF LastId, Frames
    <2> QED
      BY <1>2, <2>4 DEF Before, p
  <1> QED
    BY <1>1, <1>2

\* The records take the nonces from counter on, one each.
Sealed(records, ps, counter) ==
    records = [i \in DOMAIN ps |-> AppDataRecord(counter + i - 1, ps[i])]

\* A call that succeeds: its records take the next nonces, one each.
LEMMA SendKeeps ==
    ASSUME NEW sent, NEW frames \in Seq(Items), NEW sender \in Senders,
           SentInv(sent, frames, sender), NEW items \in Seq(Items), NEW ps,
           Call(items, Len(frames), ps, sender.shaper),
           NEW records, Sealed(records, ps, sender.counter)
    PROVE  /\ records \in Seq(Records) /\ Len(records) = Len(ps)
           /\ SentInv(sent \o records, frames \o items,
                      [sender EXCEPT !.counter = sender.counter + Len(ps)])
  <1> DEFINE n == Len(sent)
             m == Len(ps)
             b == Len(frames)
             c == sender.counter
             all == sent \o records
             more == frames \o items
             after == [sender EXCEPT !.counter = c + m]
  <1>1. /\ ps \in Seq(Plaintexts) /\ Before(ps, b, m + 1) = b + Len(items)
        /\ \A r \in 1 .. m : /\ CarriesFrom(ps[r], items, b, Before(ps, b, r))
                             /\ \A x \in Nat : ShapedLength(AppDataRecord(x, ps[r]), sender.shaper)
    BY DEF Call
  <1>2. /\ m \in Nat /\ DOMAIN ps = 1 .. m /\ b \in Nat /\ Len(items) \in Nat
        /\ c \in Nat /\ sender.failures \in Nat
        /\ \A r \in 1 .. m : ps[r] \in Plaintexts
    BY <1>1 DEF Senders
  <1>3. /\ sent \in Seq(Records) /\ n \in Nat /\ n <= c
        /\ c = n => b = LastSent(sent, n)
        /\ sender.failures = 0 => c = n
        /\ \A k \in 1 .. n : /\ SentRecord(sent[k], sender.shaper)
                             /\ k - 1 <= sent[k].counter
                             /\ Successive(sent, frames, k)
    BY DEF SentInv
  <1> HIDE DEF m
  <1>4. ASSUME NEW r \in 1 .. m
        PROVE  /\ records[r] \in Records /\ records[r].counter = (c + r) - 1
               /\ records[r].plaintext = ps[r] /\ SentRecord(records[r], sender.shaper)
    <2> DEFINE x == (c + r) - 1
    <2>1. x \in Nat /\ records[r] = AppDataRecord(x, ps[r])
      <3>1. x \in Nat /\ c + r - 1 = x
        BY <1>2
      <3>2. records[r] = AppDataRecord(c + r - 1, ps[r])
        BY <1>2 DEF Sealed
      <3> QED
        BY <3>1, <3>2
    <2> HIDE DEF x
    <2>2. /\ records[r] \in Records /\ records[r].counter = x /\ records[r].plaintext = ps[r]
          /\ records[r].body = PlainLen(ps[r]) + AeadTagLen /\ records[r].len <= LenMod
      BY <1>2, <2>1, BuiltRecord
    <2>3. ShapedLength(records[r], sender.shaper)
      BY <1>1, <2>1
    <2>4. SentRecord(records[r], sender.shaper)
      BY <2>2, <2>3 DEF SentRecord
    <2> QED
      BY <2>2, <2>4 DEF x
  <1>5. records \in Seq(Records) /\ Len(records) = m
    <2>1. DOMAIN records = 1 .. m /\ \A r \in 1 .. m : records[r] \in Records
      BY <1>2, <1>4 DEF Sealed
    <2>2. records = [i \in DOMAIN records |-> records[i]]
      BY DEF Sealed
    <2>3. records = [i \in 1 .. m |-> records[i]]
      BY <2>1, <2>2
    <2> QED
      BY <1>2, <2>1, <2>3
  <1>6. /\ all \in Seq(Records) /\ Len(all) = n + m
        /\ \A k \in 1 .. n : k \in 1 .. (n + m) /\ all[k] = sent[k]
        /\ \A r \in 1 .. m : n + r \in 1 .. (n + m) /\ all[n + r] = records[r]
    <2>1. /\ all \in Seq(Records) /\ Len(all) = n + m
          /\ \A k \in 1 .. (n + m) : all[k] = IF k <= n THEN sent[k] ELSE records[k - n]
      BY <1>3, <1>5, ConcatProperties
    <2> HIDE DEF all, n
    <2>2. \A r \in 1 .. m : n + r \in 1 .. (n + m) /\ ~(n + r <= n) /\ (n + r) - n = r
      BY <1>2, <1>3
    <2>3. \A k \in 1 .. n : k \in 1 .. (n + m) /\ k <= n
      BY <1>2, <1>3
    <2> QED
      BY <2>1, <2>2, <2>3
  <1>7. more \in Seq(Items) /\ Len(more) = b + Len(items)
    OBVIOUS
  <1> HIDE DEF all, more, n, b, c
  <1>8. \A k \in 0 .. n : LastSent(all, k) = LastSent(sent, k)
    BY <1>3, <1>6 DEF LastSent
  <1>9. \A r \in 1 .. (m + 1) : c = n => LastSent(all, (n + r) - 1) = Before(ps, b, r)
    <2> SUFFICES ASSUME NEW r \in 1 .. (m + 1), c = n
                 PROVE  LastSent(all, (n + r) - 1) = Before(ps, b, r)
      OBVIOUS
    <2>1. CASE r = 1
      <3>1. (n + r) - 1 = n /\ n \in 0 .. n
        BY <1>3, <2>1
      <3> QED
        BY <1>3, <1>8, <2>1, <3>1 DEF Before
    <2>2. CASE r # 1
      <3> DEFINE q == r - 1
      <3>1. q \in 1 .. m /\ (n + r) - 1 = n + q /\ n + q # 0
        BY <1>2, <1>3, <2>2
      <3>2. Before(ps, b, r) = LastId(ps[q])
        BY <2>2 DEF Before
      <3> HIDE DEF q
      <3>3. LastSent(all, n + q) = LastId(all[n + q].plaintext)
        BY <3>1 DEF LastSent
      <3> QED
        BY <1>4, <1>6, <3>1, <3>2, <3>3
    <2> QED
      BY <2>1, <2>2
  <1>10. ASSUME NEW k \in 1 .. n
         PROVE  /\ SentRecord(all[k], sender.shaper) /\ k - 1 <= all[k].counter
                /\ Successive(all, more, k)
    <2>1. all[k] = sent[k] /\ LastSent(all, k - 1) = LastSent(sent, k - 1)
      BY <1>3, <1>6, <1>8
    <2>2. SentRecord(sent[k], sender.shaper) /\ k - 1 <= sent[k].counter /\ Successive(sent, frames, k)
      BY <1>3
    <2>3. Successive(all, more, k)
      BY <2>1, <2>2, CarriesMore DEF Successive, more
    <2> QED
      BY <2>1, <2>2, <2>3
  <1>11. ASSUME NEW r \in 1 .. m
         PROVE  /\ SentRecord(all[n + r], sender.shaper) /\ (n + r) - 1 <= all[n + r].counter
                /\ Successive(all, more, n + r)
    <2>1. /\ all[n + r] = records[r] /\ records[r].counter = (c + r) - 1
          /\ records[r].plaintext = ps[r] /\ SentRecord(records[r], sender.shaper)
      BY <1>4, <1>6
    <2>2. (n + r) - 1 <= (c + r) - 1
      BY <1>2, <1>3
    <2>3. Successive(all, more, n + r)
      <3> SUFFICES ASSUME all[n + r].counter = (n + r) - 1
                   PROVE  CarriesFrom(all[n + r].plaintext, more, 0, LastSent(all, (n + r) - 1))
        BY DEF Successive
      <3>1. c = n
        BY <1>2, <1>3, <2>1
      <3> DEFINE from == Before(ps, b, r)
      <3>2. r \in 1 .. (m + 1)
        BY <1>2
      <3>3. from \in Nat /\ LastSent(all, (n + r) - 1) = from
        BY <1>1, <1>2, <1>9, <3>1, <3>2, BeforeNat DEF m
      <3>4. CarriesFrom(ps[r], items, b, from)
        BY <1>1
      <3> HIDE DEF from
      <3>5. CarriesFrom(ps[r], more, 0, from)
        BY <3>3, <3>4, CarriesShifted DEF more, b
      <3> QED
        BY <2>1, <3>3, <3>5
    <2> QED
      BY <2>1, <2>2, <2>3
  <1>12. ASSUME NEW k \in 1 .. (n + m)
         PROVE  /\ SentRecord(all[k], sender.shaper) /\ k - 1 <= all[k].counter
                /\ Successive(all, more, k)
    <2>1. CASE k <= n
      <3>1. k \in 1 .. n
        BY <1>3, <2>1
      <3> QED
        BY <1>10, <3>1
    <2>2. CASE ~(k <= n)
      <3> DEFINE r == k - n
      <3>1. r \in 1 .. m /\ n + r = k
        BY <1>2, <1>3, <2>2
      <3> HIDE DEF r
      <3> QED
        BY <1>11, <3>1
    <2> QED
      BY <2>1, <2>2
  <1>13. /\ n + m <= c + m
         /\ c + m = n + m => c = n
         /\ (n + (m + 1)) - 1 = n + m /\ m + 1 \in 1 .. (m + 1)
    BY <1>2, <1>3
  <1>14. c + m = n + m => Len(more) = LastSent(all, n + m)
    BY <1>1, <1>7, <1>9, <1>13
  <1> DEFINE d == c + m
  <1>15. after.counter = d /\ after.shaper = sender.shaper /\ after.failures = sender.failures
    BY DEF Senders
  <1> HIDE DEF after
  <1>16. /\ Len(all) <= after.counter
         /\ after.counter = Len(all) => Len(more) = LastSent(all, Len(all))
         /\ after.failures = 0 => after.counter = Len(all)
    BY <1>3, <1>6, <1>13, <1>14, <1>15
  <1>17. SentInv(all, more, after)
    BY <1>6, <1>12, <1>15, <1>16 DEF SentInv
  <1> QED
    BY <1>5, <1>17 DEF all, more, after, c, m

\* A call that fails: nonces are spent, so no later record comes next in step.
LEMMA LoseKeeps ==
    ASSUME NEW sent, NEW frames \in Seq(Items), NEW sender \in Senders,
           SentInv(sent, frames, sender), NEW items \in Seq(Items), NEW i \in Nat, i > 0
    PROVE  SentInv(sent, frames \o items,
                   [sender EXCEPT !.counter = sender.counter + i, !.failures = sender.failures + 1])
  <1> DEFINE more == frames \o items
             c == sender.counter + i
             f == sender.failures + 1
             after == [sender EXCEPT !.counter = c, !.failures = f]
  <1>1. sender.counter \in Nat /\ sender.failures \in Nat
    BY DEF Senders
  <1>2. /\ sent \in Seq(Records) /\ Len(sent) \in Nat /\ Len(sent) <= sender.counter
        /\ \A k \in 1 .. Len(sent) : /\ SentRecord(sent[k], sender.shaper)
                                     /\ k - 1 <= sent[k].counter
                                     /\ Successive(sent, frames, k)
    BY DEF SentInv
  <1>3. Len(sent) <= c /\ c # Len(sent) /\ f # 0
    BY <1>1, <1>2
  <1> HIDE DEF c, f
  <1>4. after.counter = c /\ after.failures = f /\ after.shaper = sender.shaper
    BY DEF Senders
  <1>5. \A k \in 1 .. Len(sent) : Successive(sent, more, k)
    BY <1>2, CarriesMore DEF Successive
  <1> HIDE DEF after, more
  <1>6. SentInv(sent, more, after)
    BY <1>2, <1>3, <1>4, <1>5 DEF SentInv
  <1> QED
    BY <1>6 DEF after, more, c, f

\* The elements of two sequences one after the other.
LEMMA ConcatElements ==
    ASSUME NEW S, NEW a \in Seq(S), NEW b \in Seq(S)
    PROVE  /\ a \o b \in Seq(S) /\ Len(a \o b) = Len(a) + Len(b)
           /\ Len(a) \in Nat /\ Len(b) \in Nat
           /\ \A k \in 1 .. Len(a) : k \in 1 .. Len(a \o b) /\ (a \o b)[k] = a[k]
           /\ \A r \in 1 .. Len(b) : Len(a) + r \in 1 .. Len(a \o b) /\ (a \o b)[Len(a) + r] = b[r]
           /\ \A k \in 1 .. Len(a \o b) :
                 k \in 1 .. Len(a) \/ \E r \in 1 .. Len(b) : k = Len(a) + r
  <1> DEFINE all == a \o b
             n == Len(a)
             m == Len(b)
  <1>1. /\ all \in Seq(S) /\ Len(all) = n + m /\ n \in Nat /\ m \in Nat
        /\ \A k \in 1 .. (n + m) : all[k] = IF k <= n THEN a[k] ELSE b[k - n]
    BY ConcatProperties
  <1> HIDE DEF all, n, m
  <1>2. \A r \in 1 .. m : n + r \in 1 .. (n + m) /\ ~(n + r <= n) /\ (n + r) - n = r
    BY <1>1
  <1>3. \A k \in 1 .. n : k \in 1 .. (n + m) /\ k <= n
    BY <1>1
  <1>4. ASSUME NEW k \in 1 .. (n + m), ~(k \in 1 .. n)
        PROVE  \E r \in 1 .. m : k = n + r
    <2>1. k - n \in 1 .. m /\ k = n + (k - n)
      BY <1>1, <1>4
    <2> QED
      BY <2>1
  <1>5. /\ \A k \in 1 .. n : k \in 1 .. Len(all) /\ all[k] = a[k]
        /\ \A r \in 1 .. m : n + r \in 1 .. Len(all) /\ all[n + r] = b[r]
        /\ \A k \in 1 .. Len(all) : k \in 1 .. n \/ \E r \in 1 .. m : k = n + r
    BY <1>1, <1>2, <1>3, <1>4
  <1> QED
    BY <1>1, <1>5 DEF all, n, m

\* all is a followed by b.
ConcatOf(all, a, b) ==
    /\ Len(all) = Len(a) + Len(b) /\ Len(a) \in Nat /\ Len(b) \in Nat
    /\ \A k \in 1 .. Len(a) : k \in 1 .. Len(all) /\ all[k] = a[k]
    /\ \A r \in 1 .. Len(b) : Len(a) + r \in 1 .. Len(all) /\ all[Len(a) + r] = b[r]
    /\ \A k \in 1 .. Len(all) : k \in 1 .. Len(a) \/ \E r \in 1 .. Len(b) : k = Len(a) + r

\* Two sequences of records, one after the other.
LEMMA ConcatParts ==
    ASSUME NEW a \in Seq(Records), NEW b \in Seq(Records)
    PROVE  ConcatOf(a \o b, a, b)
  BY ConcatElements DEF ConcatOf

\* The first of two sequences, one after the other, is where it was.
LEMMA ConcatPrefix ==
    ASSUME NEW S, NEW a \in Seq(S), NEW b \in Seq(S)
    PROVE  SubSeq(a \o b, 1, Len(a)) = a
  <1> DEFINE all == a \o b
             n == Len(a)
             part == SubSeq(all, 1, n)
  <1>1. /\ all \in Seq(S) /\ n \in Nat
        /\ \A k \in 1 .. n : k \in 1 .. Len(all) /\ all[k] = a[k]
    BY ConcatElements
  <1> HIDE DEF all
  <1>2. /\ part \in Seq(S) /\ Len(part) = IF 1 <= n THEN (n - 1) + 1 ELSE 0
        /\ \A i \in 1 .. ((n - 1) + 1) : part[i] = all[(1 + i) - 1]
    <2>1. \A i \in 1 .. n : all[i] \in S
      BY <1>1
    <2>2. 1 \in Int /\ n \in Int
      BY <1>1
    <2> QED
      BY <2>1, <2>2, SubSeqProperties
  <1> HIDE DEF part
  <1>3. Len(part) = n /\ \A i \in 1 .. n : part[i] = a[i]
    <2> HIDE DEF n
    <2>1. Len(part) = n
      BY <1>1, <1>2
    <2>2. \A i \in 1 .. n : i \in 1 .. ((n - 1) + 1) /\ (1 + i) - 1 = i
      BY <1>1
    <2> QED
      BY <1>1, <1>2, <2>1, <2>2
  <1>4. part = a
    BY <1>2, <1>3, SeqEqual
  <1> QED
    BY <1>4 DEF part, all, n

\* The records of a call join the stream.
LEMMA SendWire ==
    ASSUME NEW sent \in Seq(Records), NEW records \in Seq(Records), NEW stream,
           WireInv(stream, sent), NEW frames, NEW sender, SentInv(sent \o records, frames, sender)
    PROVE  WireInv(stream \o records, sent \o records)
  <1> DEFINE all == sent \o records
             n == Len(sent)
  <1>1. /\ \A k \in 1 .. n : k \in 1 .. Len(all) /\ all[k] = sent[k]
        /\ \A r \in 1 .. Len(records) : n + r \in 1 .. Len(all) /\ all[n + r] = records[r]
    BY ConcatElements
  <1>2. \A k \in 1 .. Len(all) : all[k] \in Records /\ Travels(all[k], all)
    BY SentTravels
  <1> HIDE DEF all, n
  <1>3. WireInv(records, all)
    BY <1>1, <1>2 DEF WireInv
  <1>4. \A record : FromSent(record, sent) => FromSent(record, all)
    <2> SUFFICES ASSUME NEW record, FromSent(record, sent), record.counter # -1
                 PROVE  \E k \in 1 .. Len(all) : /\ record.counter = all[k].counter
                                                 /\ record.plaintext = all[k].plaintext
                                                 /\ record.body = all[k].body
      BY DEF FromSent
    <2>1. PICK k \in 1 .. n : /\ record.counter = sent[k].counter
                              /\ record.plaintext = sent[k].plaintext
                              /\ record.body = sent[k].body
      BY DEF FromSent, n
    <2> QED
      BY <1>1, <2>1
  <1>5. WireInv(stream, all)
    BY <1>4 DEF WireInv, Travels
  <1>6. WireInv(stream \o records, all)
    BY <1>3, <1>5, WireConcat
  <1> QED
    BY <1>6 DEF all

\* While nothing interferes, the stream is the records the receiver has not opened.
LEMMA SendQuiet ==
    ASSUME NEW sent \in Seq(Records), NEW records \in Seq(Records), NEW stream \in Seq(Records),
           NEW counter \in Nat, counter <= Len(sent), QuietInv(stream, sent, counter)
    PROVE  QuietInv(stream \o records, sent \o records, counter)
  <1> DEFINE all == sent \o records
             more == stream \o records
             n == Len(sent)
             l == Len(stream)
             m == Len(records)
  <1>1. /\ Len(all) = n + m /\ n \in Nat /\ m \in Nat
        /\ \A k \in 1 .. n : k \in 1 .. Len(all) /\ all[k] = sent[k]
        /\ \A r \in 1 .. m : n + r \in 1 .. Len(all) /\ all[n + r] = records[r]
    <2>1. ConcatOf(sent \o records, sent, records)
      BY ConcatParts
    <2> QED
      BY <2>1 DEF ConcatOf
  <1>2. /\ Len(more) = l + m /\ l \in Nat
        /\ \A k \in 1 .. l : more[k] = stream[k]
        /\ \A r \in 1 .. m : more[l + r] = records[r]
        /\ \A k \in 1 .. Len(more) : k \in 1 .. l \/ \E r \in 1 .. m : k = l + r
    <2>1. ConcatOf(stream \o records, stream, records)
      BY ConcatParts
    <2> QED
      BY <2>1 DEF ConcatOf
  <1>3. l = n - counter /\ \A i \in 1 .. l : stream[i] = sent[counter + i]
    BY DEF QuietInv
  <1> HIDE DEF all, more, n, l, m
  <1>4. Len(more) = Len(all) - counter
    BY <1>1, <1>2, <1>3
  <1>5. ASSUME NEW i \in 1 .. Len(more)
        PROVE  more[i] = all[counter + i]
    <2>1. CASE i \in 1 .. l
      <3>1. counter + i \in 1 .. n
        BY <1>1, <1>2, <1>3, <2>1
      <3> QED
        BY <1>1, <1>2, <1>3, <2>1, <3>1
    <2>2. CASE ~(i \in 1 .. l)
      <3>1. PICK r \in 1 .. m : i = l + r
        BY <1>2, <2>2
      <3>2. counter + i = n + r
        <4>1. n \in Nat /\ l \in Nat /\ l = n - counter /\ r \in Int
          BY <1>1, <1>2, <1>3
        <4> QED
          BY <3>1, <4>1
      <3> QED
        BY <1>1, <1>2, <3>1, <3>2
    <2> QED
      BY <2>1, <2>2
  <1> QED
    BY <1>4, <1>5 DEF QuietInv, all, more

-----------------------------------------------------------------------------
(***************************************************************************)
(* The receiving end.                                                      *)
(***************************************************************************)

\* The receiver does not notice what is accepted and sent.
LEMMA ReaderMore ==
    ASSUME NEW sent \in Seq(Records), NEW records \in Seq(Records), NEW frames \in Seq(Items),
           NEW items \in Seq(Items), NEW staging, NEW counter, NEW count,
           ReaderInv(staging, counter, count, sent, frames)
    PROVE  ReaderInv(staging, counter, count, sent \o records, frames \o items)
  <1> DEFINE all == sent \o records
             more == frames \o items
             n == Len(sent)
  <1>1. /\ Len(all) = n + Len(records) /\ n \in Nat /\ Len(records) \in Nat
        /\ \A k \in 1 .. n : k \in 1 .. Len(all) /\ all[k] = sent[k]
    BY ConcatElements
  <1>2. /\ staging \in Seq(Frames) /\ WholeFrames(staging)
        /\ counter \in Nat /\ counter <= n
        /\ \A k \in 1 .. counter : sent[k].counter = k - 1
        /\ count + Len(staging) = LastSent(sent, counter)
        /\ CarriesFrom(staging, frames, 0, count)
    BY DEF ReaderInv
  <1>3. CarriesFrom(staging, more, 0, count)
    BY <1>2, CarriesMore
  <1> HIDE DEF all, more, n
  <1>4. counter <= Len(all) /\ \A k \in 1 .. counter : k \in 1 .. n
    BY <1>1, <1>2
  <1>5. LastSent(all, counter) = LastSent(sent, counter)
    <2>1. CASE counter = 0
      BY <2>1 DEF LastSent
    <2>2. CASE counter # 0
      <3>1. counter \in 1 .. n
        BY <1>2, <2>2
      <3> QED
        BY <1>1, <2>2, <3>1 DEF LastSent
    <2> QED
      BY <2>1, <2>2
  <1>6. ReaderInv(staging, counter, count, all, more)
    BY <1>1, <1>2, <1>3, <1>4, <1>5 DEF ReaderInv
  <1> QED
    BY <1>6 DEF all, more

\* The only record of the stream that decrypts is the one after those opened so
\* far; its frames are whole, and follow those of the records before it.
LEMMA DecryptedRecord ==
    ASSUME NEW sent, NEW frames \in Seq(Items), NEW sender, SentInv(sent, frames, sender),
           NEW record \in Records, Travels(record, sent), NEW counter \in Nat,
           counter <= Len(sent), \A k \in 1 .. counter : sent[k].counter = k - 1,
           record.len = record.body, record.counter = counter
    PROVE  LET p == record.plaintext
           IN  /\ counter + 1 <= Len(sent) /\ sent[counter + 1].counter = counter
               /\ p = sent[counter + 1].plaintext
               /\ p \in Plaintexts /\ WholeFrames(p)
               /\ CarriesFrom(p, frames, 0, LastSent(sent, counter))
  <1> DEFINE p == record.plaintext
             l == Len(sent)
  <1>1. record.counter # -1
    OBVIOUS
  <1>2. PICK k \in 1 .. l : /\ record.counter = sent[k].counter
                            /\ p = sent[k].plaintext
                            /\ record.body = sent[k].body
    BY <1>1 DEF Travels, FromSent
  <1>3. /\ sent \in Seq(Records) /\ l \in Nat /\ k - 1 <= sent[k].counter
        /\ Successive(sent, frames, k) /\ SentRecord(sent[k], sender.shaper)
    BY <1>2 DEF SentInv
  <1> HIDE DEF l
  <1>4. k = counter + 1
    <2>1. k - 1 <= counter
      BY <1>2, <1>3
    <2>2. CASE k <= counter
      <3>1. k \in 1 .. counter
        BY <1>3, <2>2
      <3>2. sent[k].counter = k - 1
        BY <3>1
      <3> QED
        BY <1>2, <1>3, <2>2, <3>2
    <2> QED
      BY <1>3, <2>1, <2>2
  <1>5. k - 1 = counter /\ counter + 1 <= l
    BY <1>3, <1>4
  <1>6. p \in Plaintexts
    BY DEF Records
  <1>7. CarriesFrom(p, frames, 0, LastSent(sent, counter))
    <2>1. sent[k].counter = k - 1 /\ LastSent(sent, k - 1) = LastSent(sent, counter)
      BY <1>2, <1>5
    <2> QED
      BY <1>2, <1>3, <2>1 DEF Successive
  <1>8. p \in Seq(Frames) /\ PlainLen(p) \in Nat /\ PlainLen(p) < LenMod
    <2>1. p \in Seq(Frames) /\ PlainLen(p) \in Nat
      BY <1>6, PlainAtLeast DEF Plaintexts
    <2>2. record.body = PlainLen(p) + AeadTagLen
      BY <1>2, <1>3 DEF SentRecord
    <2>3. record.body <= LenMod
      BY DEF Travels
    <2> QED
      BY <2>1, <2>2, <2>3, CodecConstants
  <1> HIDE DEF p
  <1>9. ASSUME NEW j \in 1 .. Len(p) PROVE p[j].payload_len = p[j].len
    <2>1. p[j] \in Frames /\ FrameBytes(p[j]) <= PlainLen(p)
      BY <1>8, PlainAtLeast
    <2>2. p[j].len \in Nat /\ FrameBytes(p[j]) \in Nat /\ FrameBytes(p[j]) > p[j].len
      <3>1. p[j].len \in Nat
        BY <2>1 DEF Frames
      <3> QED
        BY <2>1, <3>1, FrameSizes
    <2>3. p[j].payload_len = p[j].len % LenMod
      BY <1>7 DEF CarriesFrom, Carries
    <2>4. p[j].len < LenMod /\ LenMod \in Nat
      BY <1>8, <2>1, <2>2, CodecConstants
    <2>5. \A x \in Nat : x < LenMod => x % LenMod = x
      BY <2>4
    <2> QED
      BY <2>2, <2>3, <2>4, <2>5
  <1>10. WholeFrames(p)
    BY <1>9 DEF WholeFrames
  <1> QED
    BY <1>2, <1>4, <1>5, <1>6, <1>7, <1>10 DEF p, l

\* Decrypting a record behind what staging holds.
LEMMA AbsorbKeeps ==
    ASSUME NEW sent, NEW frames \in Seq(Items), NEW sender, SentInv(sent, frames, sender),
           NEW staging, NEW counter, NEW count \in Nat,
           ReaderInv(staging, counter, count, sent, frames),
           NEW record \in Records, Travels(record, sent),
           record.len = record.body, record.counter = counter
    PROVE  LET more == staging \o record.plaintext
           IN  /\ ReaderInv(more, counter + 1, count, sent, frames)
               /\ more # <<>>
  <1> DEFINE p == record.plaintext
             more == staging \o p
             n == Len(staging)
             from == LastSent(sent, counter)
  <1>1. /\ staging \in Seq(Frames) /\ WholeFrames(staging) /\ n \in Nat
        /\ counter \in Nat /\ counter <= Len(sent)
        /\ \A k \in 1 .. counter : sent[k].counter = k - 1
        /\ count + n = from
        /\ CarriesFrom(staging, frames, 0, count)
    BY DEF ReaderInv
  <1>2. /\ counter + 1 <= Len(sent) /\ sent[counter + 1].counter = counter
        /\ p = sent[counter + 1].plaintext
        /\ p \in Plaintexts /\ WholeFrames(p)
        /\ CarriesFrom(p, frames, 0, from)
    BY <1>1, DecryptedRecord
  <1> HIDE DEF p, from
  <1>3. p \in Seq(Frames) /\ Len(p) \in Nat /\ Len(p) >= 1
    BY <1>2 DEF Plaintexts
  <1>4. /\ more \in Seq(Frames) /\ Len(more) = n + Len(p)
        /\ \A k \in 1 .. n : k \in 1 .. Len(more) /\ more[k] = staging[k]
        /\ \A r \in 1 .. Len(p) : n + r \in 1 .. Len(more) /\ more[n + r] = p[r]
        /\ \A k \in 1 .. Len(more) : k \in 1 .. n \/ \E r \in 1 .. Len(p) : k = n + r
    BY <1>1, <1>3, ConcatElements
  <1> HIDE DEF more
  <1>5. more # <<>>
    <2>1. Len(more) # 0
      BY <1>1, <1>3, <1>4
    <2> QED
      BY <2>1
  <1>6. WholeFrames(more)
    <2> SUFFICES ASSUME NEW j \in 1 .. Len(more) PROVE more[j].payload_len = more[j].len
      BY DEF WholeFrames
    <2>1. CASE j \in 1 .. n
      BY <1>1, <1>4, <2>1 DEF WholeFrames
    <2>2. CASE ~(j \in 1 .. n)
      <3>1. PICK r \in 1 .. Len(p) : j = n + r
        BY <1>4, <2>2
      <3>2. more[j] = p[r]
        BY <1>4, <3>1
      <3> QED
        BY <1>2, <3>2 DEF WholeFrames
    <2> QED
      BY <2>1, <2>2
  <1>7. count + Len(more) = LastSent(sent, counter + 1)
    <2>1. LastId(p) = from + Len(p)
      BY <1>2, LastCarried
    <2>2. counter + 1 # 0
      BY <1>1
    <2>3. LastSent(sent, counter + 1) = LastId(p)
      BY <1>2, <2>2 DEF LastSent
    <2> HIDE DEF n
    <2>4. count + (n + Len(p)) = (count + n) + Len(p)
      BY <1>1, <1>3
    <2> QED
      BY <1>1, <1>4, <2>1, <2>3, <2>4
  <1>8. CarriesFrom(more, frames, 0, count)
    <2> SUFFICES ASSUME NEW j \in 1 .. Len(more)
                 PROVE  /\ more[j].id = count + j
                        /\ (count + j) - 0 \in 1 .. Len(frames)
                        /\ Carries(more[j], frames[(count + j) - 0])
      BY DEF CarriesFrom
    <2>1. CASE j \in 1 .. n
      BY <1>1, <1>4, <2>1 DEF CarriesFrom
    <2>2. CASE ~(j \in 1 .. n)
      <3>1. PICK r \in 1 .. Len(p) : j = n + r
        BY <1>4, <2>2
      <3>2. /\ p[r].id = from + r /\ (from + r) - 0 \in 1 .. Len(frames)
            /\ Carries(p[r], frames[(from + r) - 0])
        BY <1>2 DEF CarriesFrom
      <3>3. from + r = count + j
        <4> HIDE DEF n
        <4>1. r \in Int
          OBVIOUS
        <4> QED
          BY <1>1, <3>1, <4>1
      <3>4. more[j] = p[r]
        BY <1>4, <3>1
      <3> QED
        BY <3>2, <3>3, <3>4
    <2> QED
      BY <2>1, <2>2
  <1>9. ASSUME NEW k \in 1 .. (counter + 1) PROVE sent[k].counter = k - 1
    <2>1. CASE k = counter + 1
      <3>1. k - 1 = counter
        BY <1>1, <2>1
      <3> QED
        BY <1>2, <2>1, <3>1
    <2>2. CASE k # counter + 1
      <3>1. k \in 1 .. counter
        BY <1>1, <2>2
      <3> QED
        BY <1>1, <3>1
    <2> QED
      BY <2>1, <2>2
  <1>10. counter + 1 \in Nat
    BY <1>1
  <1>11. ReaderInv(more, counter + 1, count, sent, frames)
    BY <1>2, <1>4, <1>6, <1>7, <1>8, <1>9, <1>10 DEF ReaderInv
  <1> QED
    BY <1>5, <1>11 DEF more, p

\* Handing out the first frame of staging.
LEMMA TakeKeeps ==
    ASSUME NEW sent, NEW frames \in Seq(Items), NEW staging, NEW counter, NEW count \in Nat,
           ReaderInv(staging, counter, count, sent, frames), staging # <<>>
    PROVE  LET head == Head(staging)
               item == [id |-> head.id, type |-> head.type, len |-> head.payload_len, step |-> head.step]
           IN  /\ ReaderInv(Tail(staging), counter, count + 1, sent, frames)
               /\ Tail(staging) \in Seq(Frames)
               /\ count + 1 \in 1 .. Len(frames) /\ item = frames[count + 1]
  <1> DEFINE head == Head(staging)
             rest == Tail(staging)
             item == [id |-> head.id, type |-> head.type, len |-> head.payload_len, step |-> head.step]
  <1>1. /\ staging \in Seq(Frames) /\ WholeFrames(staging)
        /\ counter \in Nat /\ counter <= Len(sent)
        /\ \A k \in 1 .. counter : sent[k].counter = k - 1
        /\ count + Len(staging) = LastSent(sent, counter)
        /\ CarriesFrom(staging, frames, 0, count)
    BY DEF ReaderInv
  <1>2. /\ Len(staging) \in Nat /\ 1 \in 1 .. Len(staging) /\ head = staging[1] /\ head \in Frames
        /\ rest \in Seq(Frames) /\ Len(rest) = Len(staging) - 1
        /\ \A j \in 1 .. Len(rest) : rest[j] = staging[j + 1]
    BY <1>1, HeadTailProperties
  <1> HIDE DEF head, rest
  <1>3. /\ head.id = count + 1 /\ (count + 1) - 0 \in 1 .. Len(frames)
        /\ Carries(head, frames[(count + 1) - 0]) /\ head.payload_len = head.len
    BY <1>1, <1>2 DEF CarriesFrom, WholeFrames
  <1>4. (count + 1) - 0 = count + 1
    OBVIOUS
  <1>5. item = frames[count + 1]
    <2> DEFINE f == frames[count + 1]
    <2>1. f \in Items
      BY <1>3, <1>4
    <2>2. Carries(head, f)
      BY <1>3, <1>4
    <2> HIDE DEF f
    <2>3. item.id = f.id /\ item.type = f.type /\ item.len = f.len /\ item.step = f.step
      BY <1>3, <2>2 DEF Carries
    <2>4. f = [id |-> f.id, type |-> f.type, len |-> f.len, step |-> f.step]
      BY <2>1 DEF Items
    <2>5. item = f
      BY <2>3, <2>4
    <2> QED
      BY <2>5 DEF f
  <1>6. ASSUME NEW j \in 1 .. Len(rest)
        PROVE  /\ j + 1 \in 1 .. Len(staging) /\ rest[j] = staging[j + 1]
               /\ count + (j + 1) = (count + 1) + j
    BY <1>2
  <1>7. WholeFrames(rest)
    BY <1>1, <1>6 DEF WholeFrames
  <1>8. CarriesFrom(rest, frames, 0, count + 1)
    <2> SUFFICES ASSUME NEW j \in 1 .. Len(rest)
                 PROVE  /\ rest[j].id = (count + 1) + j
                        /\ ((count + 1) + j) - 0 \in 1 .. Len(frames)
                        /\ Carries(rest[j], frames[((count + 1) + j) - 0])
      BY DEF CarriesFrom
    <2> DEFINE i == j + 1
    <2>1. i \in 1 .. Len(staging) /\ rest[j] = staging[i] /\ count + i = (count + 1) + j
      BY <1>6
    <2> HIDE DEF i
    <2>2. /\ staging[i].id = count + i /\ (count + i) - 0 \in 1 .. Len(frames)
          /\ Carries(staging[i], frames[(count + i) - 0])
      BY <1>1, <2>1 DEF CarriesFrom
    <2> QED
      BY <2>1, <2>2
  <1>9. (count + 1) + Len(rest) = LastSent(sent, counter)
    <2>1. (count + 1) + Len(rest) = count + Len(staging)
      BY <1>2
    <2> QED
      BY <1>1, <2>1
  <1>10. ReaderInv(rest, counter, count + 1, sent, frames)
    BY <1>1, <1>2, <1>7, <1>8, <1>9 DEF ReaderInv
  <1> QED
    BY <1>2, <1>3, <1>4, <1>5, <1>10 DEF head, rest

-----------------------------------------------------------------------------
(***************************************************************************)
(* The invariant is inductive.                                             *)
(***************************************************************************)

\* Accepted frames are numbered one after the other.
LEMMA NumberedMore ==
    ASSUME NEW frames \in Seq(Items), Numbered(frames, 0), NEW items \in Seq(Items),
           Numbered(items, Len(frames))
    PROVE  Numbered(frames \o items, 0)
  <1> DEFINE all == frames \o items
             n == Len(frames)
  <1>1. /\ n \in Nat
        /\ \A k \in 1 .. n : k \in 1 .. Len(all) /\ all[k] = frames[k]
        /\ \A r \in 1 .. Len(items) : n + r \in 1 .. Len(all) /\ all[n + r] = items[r]
        /\ \A k \in 1 .. Len(all) : k \in 1 .. n \/ \E r \in 1 .. Len(items) : k = n + r
    BY ConcatElements
  <1>2. /\ \A i \in 1 .. n : frames[i].id = 0 + i
        /\ \A i \in 1 .. Len(items) : items[i].id = n + i
    BY DEF Numbered
  <1> HIDE DEF all, n
  <1>3. ASSUME NEW k \in 1 .. Len(all) PROVE all[k].id = 0 + k
    <2>1. CASE k \in 1 .. n
      BY <1>1, <1>2, <2>1
    <2>2. CASE ~(k \in 1 .. n)
      <3>1. PICK r \in 1 .. Len(items) : k = n + r
        BY <1>1, <2>2
      <3>2. all[k].id = n + r
        BY <1>1, <1>2, <3>1
      <3>3. 0 + k = n + r
        BY <1>1, <3>1
      <3> QED
        BY <3>2, <3>3
    <2> QED
      BY <2>1, <2>2
  <1> QED
    BY <1>3 DEF Numbered, all

\* What the invariant says of the types.
LEMMA LegFacts ==
    ASSUME LegInv
    PROVE  /\ tx \in Senders /\ tx.counter \in Nat /\ tx.shaper \in Shapers
           /\ tx.failures \in Nat /\ tx.failures <= MaxFailures
           /\ rx.counter \in Nat /\ rx.staging \in Seq(Frames) /\ rx.status \in Statuses
           /\ arrived \in Nat /\ arrived <= StreamBytes(wire) /\ StreamBytes(wire) \in Nat
           /\ wire \in Seq(Records) /\ log \in Seq(Records)
           /\ accepted \in Seq(Items) /\ Len(accepted) \in Nat /\ Len(accepted) <= MaxFrames
           /\ decoded \in Seq(Items) /\ Len(decoded) \in Nat /\ Len(decoded) <= Len(accepted)
           /\ now \in Nat /\ now <= MaxNow /\ interfered \in Nat /\ interfered <= MaxInterference
  <1>1. tx \in [counter : Nat, shaper : Shapers, failures : 0 .. MaxFailures]
    BY DEF LegInv, LegTypes
  <1>2. /\ tx.counter \in Nat /\ tx.shaper \in Shapers /\ tx.failures \in 0 .. MaxFailures
        /\ tx = [counter |-> tx.counter, shaper |-> tx.shaper, failures |-> tx.failures]
    BY <1>1
  <1>3. tx.failures \in Nat /\ tx.failures <= MaxFailures
    BY <1>2
  <1>4. tx \in Senders
    BY <1>2, <1>3 DEF Senders
  <1>5. rx.counter \in Nat /\ rx.staging \in Seq(Frames) /\ rx.status \in Statuses
    BY DEF LegInv, LegTypes
  <1>6. wire \in Seq(Records) /\ log \in Seq(Records)
    BY DEF LegInv, WireInv, SentInv
  <1>7. StreamBytes(wire) \in Nat
    BY <1>6, StreamSize
  <1>8. arrived \in 0 .. StreamBytes(wire)
    BY DEF LegInv, LegTypes
  <1>9. arrived \in Nat /\ arrived <= StreamBytes(wire)
    BY <1>7, <1>8
  <1>10. /\ accepted \in Seq(Items) /\ Len(accepted) <= MaxFrames
         /\ decoded \in Seq(Items) /\ Len(decoded) <= Len(accepted)
    BY DEF LegInv, LegTypes
  <1>11. now \in 0 .. MaxNow /\ interfered \in 0 .. MaxInterference
    BY DEF LegInv, LegTypes
  <1>12. now \in Nat /\ now <= MaxNow /\ interfered \in Nat /\ interfered <= MaxInterference
    BY <1>11
  <1>13. Len(accepted) \in Nat /\ Len(decoded) \in Nat
    BY <1>10
  <1> QED
    BY <1>2, <1>3, <1>4, <1>5, <1>6, <1>7, <1>9, <1>10, <1>12, <1>13

\* A leg starts as the invariant says.
LEMMA LegStarts == Init => LegInv
  <1> SUFFICES ASSUME Init PROVE LegInv
    OBVIOUS
  <1>1. /\ rx = [counter |-> 0, staging |-> <<>>, status |-> "open"]
        /\ wire = <<>> /\ arrived = 0 /\ log = <<>> /\ accepted = <<>> /\ decoded = <<>>
        /\ now = 0 /\ interfered = 0
    BY DEF Init
  <1>2. MaxFailures \in Nat /\ MaxFrames \in Nat /\ MaxNow \in Nat /\ MaxInterference \in Nat
    BY LegAssumption
  <1>3. /\ tx \in [counter : Nat, shaper : Shapers, failures : 0 .. MaxFailures]
        /\ tx.counter = 0 /\ tx.failures = 0
    <2>1. tx \in [counter : {0}, shaper : Shapers, failures : {0}]
      BY DEF Init
    <2>2. 0 \in 0 .. MaxFailures
      BY <1>2
    <2> QED
      BY <2>1, <2>2
  <1>4. rx \in [counter : Nat, staging : Seq(Frames), status : Statuses]
    BY <1>1 DEF Statuses
  <1>5. \A S : <<>> \in Seq(S)
    OBVIOUS
  <1>6. Len(<<>>) = 0
    OBVIOUS
  <1>7. LegTypes
    <2>1. arrived \in 0 .. StreamBytes(wire)
      BY <1>1, StreamNothing
    <2>2. Numbered(accepted, 0)
      BY <1>1, <1>6 DEF Numbered
    <2>3. now \in 0 .. MaxNow /\ interfered \in 0 .. MaxInterference
      BY <1>1, <1>2
    <2>4. Len(accepted) <= MaxFrames /\ Len(decoded) <= Len(accepted)
      BY <1>1, <1>2, <1>6
    <2>5. accepted \in Seq(Items) /\ decoded \in Seq(Items)
      BY <1>1, <1>5
    <2> QED
      BY <1>3, <1>4, <2>1, <2>2, <2>3, <2>4, <2>5 DEF LegTypes
  <1>8. LastSent(log, 0) = 0
    BY DEF LastSent
  <1>9. SentInv(log, accepted, tx)
    BY <1>1, <1>3, <1>5, <1>6, <1>8 DEF SentInv
  <1>10. WireInv(wire, log)
    BY <1>1, <1>5, <1>6 DEF WireInv
  <1>11. ReaderInv(rx.staging, rx.counter, Len(decoded), log, accepted)
    <2>1. rx.staging = <<>> /\ rx.counter = 0 /\ Len(decoded) = 0 /\ Len(rx.staging) = 0 /\ Len(log) = 0
      BY <1>1, <1>6
    <2>2. WholeFrames(rx.staging) /\ CarriesFrom(rx.staging, accepted, 0, 0)
      BY <2>1 DEF WholeFrames, CarriesFrom
    <2>3. 0 + Len(rx.staging) = LastSent(log, 0)
      BY <1>8, <2>1
    <2>4. \A k \in 1 .. 0 : log[k].counter = k - 1
      OBVIOUS
    <2> QED
      BY <1>5, <2>1, <2>2, <2>3, <2>4 DEF ReaderInv
  <1>12. QuietInv(wire, log, rx.counter)
    BY <1>1, <1>6 DEF QuietInv
  <1>13. rx.status = "open"
    BY <1>1
  <1> QED
    BY <1>7, <1>9, <1>10, <1>11, <1>12, <1>13 DEF LegInv

\* encode_batch and encode_cover, whether or not the AEAD fails.
LEMMA EncodeKeeps ==
    ASSUME LegInv, NEW items \in Seq(Items), Numbered(items, Len(accepted)), NEW ps,
           Call(items, Len(accepted), ps, tx.shaper), EncodeWith(items, ps)
    PROVE  LegInv'
  <1> USE LegFacts
  <1>1. /\ Len(accepted) + Len(items) <= MaxFrames /\ accepted' = accepted \o items
        /\ SendRecords(ps) \/ \E i \in 1 .. Len(ps) : LoseRecords(ps, i)
        /\ rx' = rx /\ arrived' = arrived /\ decoded' = decoded
        /\ now' = now /\ interfered' = interfered
    BY DEF EncodeWith
  <1>2. /\ SentInv(log, accepted, tx) /\ WireInv(wire, log)
        /\ rx.status = "open" => ReaderInv(rx.staging, rx.counter, Len(decoded), log, accepted)
        /\ rx.status # "open" => rx.staging = <<>>
        /\ interfered = 0 /\ rx.status = "open" => QuietInv(wire, log, rx.counter)
        /\ Numbered(accepted, 0)
        /\ rx \in [counter : Nat, staging : Seq(Frames), status : Statuses]
        /\ now \in 0 .. MaxNow /\ interfered \in 0 .. MaxInterference
    BY DEF LegInv, LegTypes
  <1>3. /\ accepted' \in Seq(Items) /\ Numbered(accepted', 0) /\ Len(accepted') <= MaxFrames
        /\ Len(decoded') <= Len(accepted')
    <2>1. /\ accepted \o items \in Seq(Items) /\ Len(items) \in Nat
          /\ Len(accepted \o items) = Len(accepted) + Len(items)
      BY ConcatElements
    <2>2. Numbered(accepted \o items, 0)
      BY <1>2, NumberedMore
    <2>3. Len(accepted \o items) <= MaxFrames /\ Len(decoded) <= Len(accepted \o items)
      BY <1>1, <2>1
    <2> QED
      BY <1>1, <2>1, <2>2, <2>3
  <1>4. rx.status = "open" => rx.counter <= Len(log)
    BY <1>2 DEF ReaderInv
  <1>5. ASSUME tx' \in [counter : Nat, shaper : Shapers, failures : 0 .. MaxFailures],
               arrived \in 0 .. StreamBytes(wire')
        PROVE  LegTypes'
    BY <1>1, <1>2, <1>3, <1>5 DEF LegTypes
  <1>6. CASE SendRecords(ps)
    <2> DEFINE records == Encrypted(ps)
    <2>1. /\ tx' = [tx EXCEPT !.counter = tx.counter + Len(ps)]
          /\ wire' = wire \o records /\ log' = log \o records
      BY <1>6 DEF SendRecords
    <2>2. Sealed(records, ps, tx.counter)
      BY DEF Encrypted, Sealed
    <2> HIDE DEF records
    <2>3. /\ records \in Seq(Records) /\ Len(records) = Len(ps)
          /\ SentInv(log \o records, accepted \o items, [tx EXCEPT !.counter = tx.counter + Len(ps)])
      BY <1>2, <2>2, SendKeeps
    <2>4. SentInv(log', accepted', tx')
      BY <1>1, <2>1, <2>3
    <2>5. WireInv(wire', log')
      <3>1. WireInv(wire \o records, log \o records)
        BY <1>2, <2>3, SendWire
      <3> QED
        BY <2>1, <3>1
    <2>6. arrived \in 0 .. StreamBytes(wire')
      <3>1. StreamBytes(wire \o records) = StreamBytes(wire) + StreamBytes(records)
        BY <2>3, StreamConcat
      <3>2. StreamBytes(records) \in Nat
        BY <2>3, StreamSize
      <3>3. StreamBytes(wire') = StreamBytes(wire) + StreamBytes(records)
        BY <2>1, <3>1
      <3> QED
        BY <3>2, <3>3
    <2>7. tx' \in [counter : Nat, shaper : Shapers, failures : 0 .. MaxFailures]
      <3> DEFINE d == tx.counter + Len(ps)
      <3>1. d \in Nat
        BY <2>3
      <3>2. tx \in [counter : Nat, shaper : Shapers, failures : 0 .. MaxFailures]
        BY DEF LegInv, LegTypes
      <3>3. tx' = [tx EXCEPT !.counter = d]
        BY <2>1
      <3> HIDE DEF d
      <3> QED
        BY <3>1, <3>2, <3>3
    <2>8. rx.status = "open" => ReaderInv(rx.staging, rx.counter, Len(decoded), log', accepted')
      <3> SUFFICES ASSUME rx.status = "open"
                   PROVE  ReaderInv(rx.staging, rx.counter, Len(decoded), log', accepted')
        OBVIOUS
      <3>1. ReaderInv(rx.staging, rx.counter, Len(decoded), log \o records, accepted \o items)
        BY <1>2, <2>3, ReaderMore
      <3> QED
        BY <1>1, <2>1, <3>1
    <2>9. interfered = 0 /\ rx.status = "open" => QuietInv(wire', log', rx.counter)
      <3> SUFFICES ASSUME interfered = 0, rx.status = "open"
                   PROVE  QuietInv(wire', log', rx.counter)
        OBVIOUS
      <3>1. QuietInv(wire \o records, log \o records, rx.counter)
        BY <1>2, <1>4, <2>3, SendQuiet
      <3> QED
        BY <2>1, <3>1
    <2> QED
      BY <1>1, <1>2, <1>5, <2>4, <2>5, <2>6, <2>7, <2>8, <2>9 DEF LegInv
  <1>7. CASE \E i \in 1 .. Len(ps) : LoseRecords(ps, i)
    <2>1. PICK i \in 1 .. Len(ps) : LoseRecords(ps, i)
      BY <1>7
    <2>2. /\ tx.failures < MaxFailures /\ wire' = wire /\ log' = log
          /\ tx' = [tx EXCEPT !.counter = tx.counter + i, !.failures = tx.failures + 1]
      BY <2>1 DEF LoseRecords
    <2>3. i \in Nat /\ i > 0
      OBVIOUS
    <2>4. SentInv(log', accepted', tx')
      <3>1. SentInv(log, accepted \o items,
                    [tx EXCEPT !.counter = tx.counter + i, !.failures = tx.failures + 1])
        BY <1>2, <2>3, LoseKeeps
      <3> QED
        BY <1>1, <2>2, <3>1
    <2>5. WireInv(wire', log') /\ arrived \in 0 .. StreamBytes(wire')
      BY <1>2, <2>2 DEF LegInv, LegTypes
    <2>6. tx' \in [counter : Nat, shaper : Shapers, failures : 0 .. MaxFailures]
      <3> DEFINE d == tx.counter + i
                 f == tx.failures + 1
      <3>1. d \in Nat /\ f \in 0 .. MaxFailures
        <4>1. /\ tx.counter \in Nat /\ tx.failures \in Nat /\ tx.failures < MaxFailures
              /\ MaxFailures \in Nat
          BY <2>2, LegAssumption
        <4>2. \A a, b \in Nat : a + b \in Nat /\ (a < b => a + 1 \in 0 .. b)
          OBVIOUS
        <4>3. f \in 0 .. MaxFailures
          BY <4>1, <4>2
        <4>4. d \in Nat
          BY <2>3, <4>1, <4>2
        <4> QED
          BY <4>3, <4>4
      <3>2. tx \in [counter : Nat, shaper : Shapers, failures : 0 .. MaxFailures]
        BY DEF LegInv, LegTypes
      <3>3. tx' = [tx EXCEPT !.counter = d, !.failures = f]
        BY <2>2
      <3> HIDE DEF d, f
      <3> QED
        BY <3>1, <3>2, <3>3
    <2>7. rx.status = "open" => ReaderInv(rx.staging, rx.counter, Len(decoded), log', accepted')
      <3> SUFFICES ASSUME rx.status = "open"
                   PROVE  ReaderInv(rx.staging, rx.counter, Len(decoded), log', accepted')
        OBVIOUS
      <3>1. <<>> \in Seq(Records) /\ log \o <<>> = log
        OBVIOUS
      <3>2. ReaderInv(rx.staging, rx.counter, Len(decoded), log \o <<>>, accepted \o items)
        BY <1>2, <3>1, ReaderMore
      <3> QED
        BY <1>1, <2>2, <3>1, <3>2
    <2>8. interfered = 0 /\ rx.status = "open" => QuietInv(wire', log', rx.counter)
      BY <1>2, <2>2
    <2> QED
      BY <1>1, <1>2, <1>5, <2>4, <2>5, <2>6, <2>7, <2>8 DEF LegInv
  <1> QED
    BY <1>1, <1>6, <1>7

\* The frames a call is given: numbered after those accepted before.
LEMMA CallItem ==
    ASSUME LegInv, NEW type \in Types, NEW len \in Nat, NEW k \in Nat
    PROVE  /\ Item(type, len, k) \in Items /\ Item(type, len, k).id = Len(accepted) + k
           /\ Item(type, len, k).type = type /\ Item(type, len, k).len = len
  <1>1. Len(accepted) + k \in Nat /\ now \in Nat
    BY LegFacts
  <1> DEFINE id == Len(accepted) + k
  <1>2. Item(type, len, k) = [id |-> id, type |-> type, len |-> len, step |-> now]
    BY DEF Item
  <1> HIDE DEF id
  <1>3. Item(type, len, k) \in Items
    BY <1>1, <1>2 DEF Items, id
  <1> QED
    BY <1>2, <1>3 DEF id

\* A call of encode_batch, as an EncodeWith.
LEMMA BatchIsCall ==
    ASSUME LegInv, Batch
    PROVE  \E items, ps :
              /\ items \in Seq(Items) /\ Len(items) >= 1 /\ Numbered(items, Len(accepted))
              /\ Call(items, Len(accepted), ps, tx.shaper) /\ EncodeWith(items, ps)
  <1>0. \A type \in Types, len \in Nat, j \in Nat :
           /\ Item(type, len, j) \in Items /\ Item(type, len, j).id = Len(accepted) + j
           /\ Item(type, len, j).type = type
    BY CallItem
  <1>1. PICK n \in 1 .. (MaxFrames - Len(accepted)) :
          \E lens \in [1 .. n -> PayloadLens], types \in [1 .. n -> FrameTypes] :
            LET items == [k \in 1 .. n |-> Item(types[k], lens[k], k)]
            IN  EncodeWith(items, EncodeBatch(tx.shaper, items))
    BY DEF Batch
  <1>2. n \in Nat /\ n >= 1
    OBVIOUS
  <1> DEFINE D == 1 .. n
  <1>3. PICK lens \in [D -> PayloadLens], types \in [D -> FrameTypes] :
          LET items == [k \in 1 .. n |-> Item(types[k], lens[k], k)]
          IN  EncodeWith(items, EncodeBatch(tx.shaper, items))
    BY <1>1
  <1> DEFINE items == [k \in 1 .. n |-> Item(types[k], lens[k], k)]
             ps == EncodeBatch(tx.shaper, items)
  <1>4. EncodeWith(items, ps)
    BY <1>3
  <1>5. \A k \in D : k \in Nat /\ lens[k] \in Nat /\ types[k] \in Types /\ types[k] # "cover"
    <2>1. \A k \in D : k \in Nat
      OBVIOUS
    <2> HIDE DEF D
    <2>2. \A k \in D : lens[k] \in PayloadLens /\ types[k] \in FrameTypes
      OBVIOUS
    <2>3. PayloadLens \subseteq Nat /\ FrameTypes \subseteq {"data", "future"}
      BY LegAssumption
    <2> QED
      BY <2>1, <2>2, <2>3 DEF Types
  <1>6. \A k \in D : /\ items[k] \in Items /\ items[k].id = Len(accepted) + k
                     /\ items[k].type # "cover"
    <2> SUFFICES ASSUME NEW k \in D
                 PROVE  /\ items[k] \in Items /\ items[k].id = Len(accepted) + k
                        /\ items[k].type # "cover"
      OBVIOUS
    <2>1. items[k] = Item(types[k], lens[k], k)
      OBVIOUS
    <2>2. k \in Nat /\ lens[k] \in Nat /\ types[k] \in Types /\ types[k] # "cover"
      BY <1>5
    <2> HIDE DEF items, D
    <2>3. /\ Item(types[k], lens[k], k) \in Items
          /\ Item(types[k], lens[k], k).id = Len(accepted) + k
          /\ Item(types[k], lens[k], k).type = types[k]
      BY <1>0, <2>2
    <2> QED
      BY <2>1, <2>2, <2>3
  <1>7. items \in Seq(Items) /\ Len(items) = n
    BY <1>2, <1>6
  <1> HIDE DEF items, ps
  <1>8. Numbered(items, Len(accepted)) /\ \A i \in 1 .. Len(items) : items[i].type # "cover"
    BY <1>6, <1>7 DEF Numbered
  <1>9. Len(accepted) \in Nat /\ tx.shaper \in Shapers
    BY LegFacts
  <1>10. Call(items, Len(accepted), ps, tx.shaper)
    BY <1>7, <1>8, <1>9, BatchCall DEF ps
  <1> QED
    BY <1>2, <1>4, <1>7, <1>8, <1>10

\* A call of encode_cover, as an EncodeWith.
LEMMA CoverIsCall ==
    ASSUME LegInv, Cover
    PROVE  \E items, ps :
              /\ items \in Seq(Items) /\ Len(items) >= 1 /\ Numbered(items, Len(accepted))
              /\ Call(items, Len(accepted), ps, tx.shaper) /\ EncodeWith(items, ps)
  <1> DEFINE item == Item("cover", 0, 1)
             items == <<item>>
  <1>1. PICK target \in CoverTargets : EncodeWith(items, <<EncodeCover(item, target)>>)
    BY DEF Cover
  <1>2. item \in Items /\ item.id = Len(accepted) + 1 /\ item.len = 0 /\ item.type = "cover"
    <2>1. "cover" \in Types
      BY DEF Types
    <2> QED
      BY <2>1, CallItem
  <1>3. Len(accepted) \in Nat
    BY LegFacts
  <1> HIDE DEF item
  <1>4. items \in Seq(Items) /\ Len(items) = 1 /\ items[1] = item
    BY <1>2
  <1>5. Call(items, Len(accepted), <<EncodeCover(item, target)>>, tx.shaper)
    BY <1>2, <1>3, CoverCall
  <1> HIDE DEF items
  <1>6. Numbered(items, Len(accepted)) /\ Len(items) >= 1
    BY <1>2, <1>4 DEF Numbered
  <1> QED
    BY <1>1, <1>4, <1>5, <1>6

\* Bytes arrive, and time passes.
LEMMA ArriveKeeps ==
    ASSUME LegInv, Arrive
    PROVE  LegInv'
  <1>1. /\ arrived < StreamBytes(wire) /\ arrived' = arrived + 1
        /\ UNCHANGED <<tx, rx, wire, log, accepted, decoded, now, interfered>>
    BY DEF Arrive
  <1>2. arrived' \in 0 .. StreamBytes(wire)
    <2>1. arrived \in Nat /\ StreamBytes(wire) \in Nat
      BY LegFacts
    <2> QED
      BY <1>1, <2>1
  <1>3. LegTypes'
    BY <1>1, <1>2 DEF LegInv, LegTypes
  <1> QED
    BY <1>1, <1>3 DEF LegInv

\* The clock ticks.
LEMMA TickKeeps ==
    ASSUME LegInv, Tick
    PROVE  LegInv'
  <1>1. /\ now < MaxNow /\ now' = now + 1
        /\ UNCHANGED <<tx, rx, wire, arrived, log, accepted, decoded, interfered>>
    BY DEF Tick
  <1>2. now' \in 0 .. MaxNow
    <2>1. now \in Nat /\ MaxNow \in Nat
      BY LegFacts, LegAssumption
    <2> QED
      BY <1>1, <2>1
  <1>3. LegTypes'
    BY <1>1, <1>2 DEF LegInv, LegTypes
  <1> QED
    BY <1>1, <1>3 DEF LegInv

\* The stream is interfered with.
LEMMA InterfereKeeps ==
    ASSUME LegInv, Interfere
    PROVE  LegInv'
  <1>1. /\ rx.status = "open" /\ interfered < MaxInterference /\ interfered' = interfered + 1
        /\ \/ \E i \in InTransit : wire' = RemoveAt(wire, i)
           \/ \E i \in InTransit, record \in ToSet(log) : wire' = InsertAt(wire, i, record)
           \/ \E i \in InTransit : \E record \in Damaged(wire[i]) : wire' = ReplaceAt(wire, i, record)
        /\ UNCHANGED <<tx, rx, arrived, log, accepted, decoded, now>>
    BY DEF Interfere
  <1>2. WireInv(wire, log) /\ wire \in Seq(Records)
    BY LegFacts DEF LegInv
  <1>3. \A i \in InTransit : /\ i \in 1 .. Len(wire)
                             /\ StreamBytes(SubSeq(wire, 1, i - 1)) >= arrived
    BY DEF InTransit
  <1>4. \A record \in ToSet(log) : record \in Records /\ Travels(record, log)
    <2>1. \A k \in 1 .. Len(log) : log[k] \in Records /\ Travels(log[k], log)
      BY SentTravels DEF LegInv
    <2>2. log \in Seq(Records)
      BY LegFacts
    <2> QED
      BY <2>1, <2>2 DEF ToSet
  <1>5. ASSUME NEW i \in InTransit
        PROVE  StreamBytes(SubSeq(wire, 1, i - 1)) \in Nat
    <2>1. i - 1 \in Nat /\ i - 1 <= Len(wire)
      BY <1>2, <1>3
    <2>2. SubSeq(wire, 1, i - 1) \in Seq(Records)
      BY <1>2, <2>1, WirePart
    <2> QED
      BY <2>2, StreamSize
  <1>6. WireInv(wire', log) /\ StreamBytes(wire') >= arrived
    <2>1. CASE \E i \in InTransit : wire' = RemoveAt(wire, i)
      <3>1. PICK i \in InTransit : wire' = RemoveAt(wire, i)
        BY <2>1
      <3>2. WireInv(wire', log) /\ StreamBytes(wire') >= StreamBytes(SubSeq(wire, 1, i - 1))
        BY <1>2, <1>3, <3>1, RemovedWire
      <3>3. wire' \in Seq(Records)
        BY <3>2 DEF WireInv
      <3>4. StreamBytes(wire') \in Nat /\ arrived \in Nat
        BY <3>3, StreamSize, LegFacts
      <3> QED
        BY <1>3, <1>5, <3>2, <3>4
    <2>2. CASE \E i \in InTransit, record \in ToSet(log) : wire' = InsertAt(wire, i, record)
      <3>1. PICK i \in InTransit, record \in ToSet(log) : wire' = InsertAt(wire, i, record)
        BY <2>2
      <3>2. WireInv(wire', log) /\ StreamBytes(wire') >= StreamBytes(SubSeq(wire, 1, i - 1))
        BY <1>2, <1>3, <1>4, <3>1, InsertedWire
      <3>3. wire' \in Seq(Records)
        BY <3>2 DEF WireInv
      <3>4. StreamBytes(wire') \in Nat /\ arrived \in Nat
        BY <3>3, StreamSize, LegFacts
      <3> QED
        BY <1>3, <1>5, <3>2, <3>4
    <2>3. CASE \E i \in InTransit : \E record \in Damaged(wire[i]) : wire' = ReplaceAt(wire, i, record)
      <3>1. PICK i \in InTransit : \E record \in Damaged(wire[i]) : wire' = ReplaceAt(wire, i, record)
        BY <2>3
      <3>2. PICK record \in Damaged(wire[i]) : wire' = ReplaceAt(wire, i, record)
        BY <3>1
      <3>3. WireInv(wire', log) /\ StreamBytes(wire') = StreamBytes(wire)
        BY <1>2, <1>3, <3>2, ReplacedWire
      <3>4. arrived \in Nat /\ StreamBytes(wire) \in Nat /\ arrived <= StreamBytes(wire)
        BY LegFacts
      <3> QED
        BY <3>3, <3>4
    <2> QED
      BY <1>1, <2>1, <2>2, <2>3
  <1>7. arrived' \in 0 .. StreamBytes(wire')
    <2>1. wire' \in Seq(Records)
      BY <1>6 DEF WireInv
    <2>2. StreamBytes(wire') \in Nat /\ arrived \in Nat /\ arrived' = arrived
      BY <1>1, <2>1, StreamSize, LegFacts
    <2> QED
      BY <1>6, <2>2
  <1>8. interfered' \in 0 .. MaxInterference /\ interfered' # 0
    <2>1. interfered \in Nat /\ MaxInterference \in Nat
      BY LegFacts, LegAssumption
    <2> QED
      BY <1>1, <2>1
  <1>9. LegTypes'
    BY <1>1, <1>7, <1>8 DEF LegInv, LegTypes
  <1> QED
    BY <1>1, <1>6, <1>8, <1>9 DEF LegInv

\* The leg is given up.
LEMMA FailKeeps ==
    ASSUME LegInv, NEW status \in {"dropped", "redirected"}, Fail(status),
           UNCHANGED <<tx, log, accepted, now, interfered>>
    PROVE  LegInv' /\ rx'.status # "open" /\ decoded' = decoded
  <1>1. /\ rx' = [rx EXCEPT !.status = status, !.staging = <<>>]
        /\ wire' = <<>> /\ arrived' = 0 /\ decoded' = decoded
    BY DEF Fail
  <1>2. rx \in [counter : Nat, staging : Seq(Frames), status : Statuses]
    BY DEF LegInv, LegTypes
  <1>3. /\ rx' \in [counter : Nat, staging : Seq(Frames), status : Statuses]
        /\ rx'.status = status /\ rx'.staging = <<>>
    <2>1. <<>> \in Seq(Frames) /\ status \in Statuses
      BY DEF Statuses
    <2> QED
      BY <1>1, <1>2, <2>1
  <1>4. rx'.status # "open"
    BY <1>3
  <1>5. arrived' \in 0 .. StreamBytes(wire')
    BY <1>1, StreamNothing
  <1>6. LegTypes'
    BY <1>1, <1>3, <1>5 DEF LegInv, LegTypes
  <1>7. WireInv(wire', log')
    BY <1>1 DEF WireInv
  <1>8. SentInv(log', accepted', tx')
    BY DEF LegInv
  <1> QED
    BY <1>1, <1>3, <1>4, <1>6, <1>7, <1>8 DEF LegInv

\* A frame is handed out.
LEMMA TakeStep ==
    ASSUME LegInv, rx.status = "open", NEW staging, NEW counter,
           ReaderInv(staging, counter, Len(decoded), log, accepted), staging # <<>>,
           TakeFrame(staging, counter)
    PROVE  /\ rx' \in [counter : Nat, staging : Seq(Frames), status : Statuses]
           /\ rx'.status = "open" /\ rx'.counter = counter
           /\ ReaderInv(rx'.staging, counter, Len(decoded'), log, accepted)
           /\ decoded' \in Seq(Items) /\ Len(decoded') <= Len(accepted)
           /\ Len(decoded) < Len(accepted)
           /\ decoded' = Append(decoded, accepted[Len(decoded) + 1])
  <1> DEFINE head == Head(staging)
             item == [id |-> head.id, type |-> head.type, len |-> head.payload_len, step |-> head.step]
             rest == Tail(staging)
             count == Len(decoded)
  <1>1. decoded' = Append(decoded, item) /\ rx' = [rx EXCEPT !.staging = rest, !.counter = counter]
    BY DEF TakeFrame
  <1>2. count \in Nat /\ accepted \in Seq(Items) /\ decoded \in Seq(Items) /\ Len(accepted) \in Nat
    BY LegFacts
  <1>3. /\ ReaderInv(rest, counter, count + 1, log, accepted) /\ rest \in Seq(Frames)
        /\ count + 1 \in 1 .. Len(accepted) /\ item = accepted[count + 1]
    <2>1. ReaderInv(staging, counter, count, log, accepted)
      OBVIOUS
    <2> HIDE DEF count
    <2> QED
      BY <1>2, <2>1, TakeKeeps
  <1> HIDE DEF item, rest
  <1>4. counter \in Nat
    BY DEF ReaderInv
  <1>5. rx \in [counter : Nat, staging : Seq(Frames), status : Statuses]
    BY DEF LegInv, LegTypes
  <1>6. /\ rx' \in [counter : Nat, staging : Seq(Frames), status : Statuses]
        /\ rx'.status = "open" /\ rx'.counter = counter /\ rx'.staging = rest
    BY <1>1, <1>3, <1>4, <1>5
  <1>7. item \in Items
    BY <1>2, <1>3
  <1>8. decoded' \in Seq(Items) /\ Len(decoded') = count + 1
    BY <1>1, <1>2, <1>7
  <1>9. count < Len(accepted) /\ count + 1 <= Len(accepted)
    BY <1>2, <1>3
  <1> QED
    BY <1>1, <1>3, <1>6, <1>8, <1>9

\* The record at the head of the stream is consumed.
LEMMA ConsumeStep ==
    ASSUME LegInv, rx.status = "open", RecordReady, Decrypts(Head(wire)),
           wire' = Tail(wire), arrived' = arrived - RecordBytes(Head(wire))
    PROVE  /\ WireInv(wire', log) /\ arrived' \in 0 .. StreamBytes(wire')
           /\ interfered = 0 => QuietInv(wire', log, rx.counter + 1)
  <1> DEFINE record == Head(wire)
             rest == Tail(wire)
  <1>1. wire \in Seq(Records) /\ wire # <<>> /\ WireInv(wire, log)
    BY LegFacts DEF RecordReady, LegInv
  <1>2. /\ record \in Records /\ rest \in Seq(Records)
        /\ StreamBytes(wire) = RecordBytes(record) + StreamBytes(rest)
    BY <1>1, StreamFirst
  <1>3. StreamBytes(rest) \in Nat /\ RecordBytes(record) \in Nat
    BY <1>2, StreamSize, RecordSize
  <1>4. arrived >= RecordBytes(record)
    <2>1. arrived >= RecordHeaderSize + record.len /\ record.len = record.body
      BY DEF RecordReady, Decrypts
    <2> QED
      BY <2>1 DEF RecordBytes
  <1>5. arrived' \in 0 .. StreamBytes(wire')
    <2>1. arrived \in Nat /\ arrived <= StreamBytes(wire)
      BY LegFacts
    <2> HIDE DEF record, rest
    <2>2. arrived' = arrived - RecordBytes(record) /\ wire' = rest
      BY DEF record, rest
    <2>3. \A a, b, c \in Nat : a >= b /\ a <= b + c => a - b \in 0 .. c
      OBVIOUS
    <2>4. arrived - RecordBytes(record) \in 0 .. StreamBytes(rest)
      BY <1>2, <1>3, <1>4, <2>1, <2>3
    <2> QED
      BY <2>2, <2>4
  <1>6. /\ Len(wire) \in Nat /\ Len(rest) = Len(wire) - 1
        /\ \A j \in 1 .. Len(rest) : rest[j] = wire[j + 1]
    BY <1>1, HeadTailProperties
  <1> HIDE DEF record, rest
  <1>7. \A j \in 1 .. Len(rest) : j + 1 \in 1 .. Len(wire)
    BY <1>6
  <1>8. WireInv(rest, log)
    BY <1>1, <1>2, <1>6, <1>7 DEF WireInv
  <1>9. ASSUME interfered = 0 PROVE QuietInv(rest, log, rx.counter + 1)
    <2>1. Len(wire) = Len(log) - rx.counter /\ \A i \in 1 .. Len(wire) : wire[i] = log[rx.counter + i]
      BY <1>9 DEF LegInv, QuietInv
    <2>2. rx.counter \in Nat /\ Len(log) \in Nat
      <3>1. log \in Seq(Records) /\ rx.counter \in Nat
        BY LegFacts
      <3> QED
        BY <3>1
    <2>3. Len(rest) = Len(log) - (rx.counter + 1)
      BY <1>6, <2>1, <2>2
    <2>4. ASSUME NEW j \in 1 .. Len(rest)
          PROVE  rest[j] = log[(rx.counter + 1) + j]
      <3>1. rx.counter + (j + 1) = (rx.counter + 1) + j
        <4>1. j \in Int
          OBVIOUS
        <4> QED
          BY <2>2, <4>1
      <3>2. rest[j] = wire[j + 1] /\ j + 1 \in 1 .. Len(wire)
        BY <1>6, <1>7
      <3> QED
        BY <2>1, <3>1, <3>2
    <2> QED
      BY <2>3, <2>4 DEF QuietInv
  <1> QED
    BY <1>5, <1>8, <1>9 DEF rest

\* What a call of decode_inbound does, as the layer above sees it.
Delivers ==
    /\ Len(decoded) < Len(accepted)
    /\ decoded' = Append(decoded, accepted[Len(decoded) + 1])
    /\ rx'.status = "open"

GivesUp == decoded' = decoded /\ rx'.status # "open"

HandsOutNothing == decoded' = decoded /\ rx'.status = rx.status

\* decode_inbound keeps the invariant, and hands out the next frame or none.
LEMMA DecodeStep ==
    ASSUME LegInv, DecodeInbound
    PROVE  LegInv' /\ (Delivers \/ GivesUp \/ HandsOutNothing)
  <1>1. /\ rx.status = "open" /\ (DrainStaging \/ DecodeRecord \/ AwaitBytes)
        /\ tx' = tx /\ log' = log /\ accepted' = accepted /\ now' = now /\ interfered' = interfered
    BY DEF DecodeInbound
  <1>2. /\ ReaderInv(rx.staging, rx.counter, Len(decoded), log, accepted)
        /\ SentInv(log, accepted, tx) /\ WireInv(wire, log) /\ LegTypes
        /\ interfered = 0 => QuietInv(wire, log, rx.counter)
    BY <1>1 DEF LegInv
  <1>3. SentInv(log', accepted', tx')
    BY <1>1, <1>2
  <1>4. \A staging : FrameReady(staging) => staging # <<>>
    BY DEF FrameReady
  <1>5. ASSUME NEW status \in {"dropped", "redirected"}, Fail(status)
        PROVE  LegInv' /\ GivesUp
    <2>1. UNCHANGED <<tx, log, accepted, now, interfered>>
      BY <1>1
    <2> QED
      BY <1>5, <2>1, FailKeeps DEF GivesUp
  <1>6. "dropped" \in {"dropped", "redirected"} /\ "redirected" \in {"dropped", "redirected"}
    OBVIOUS
  <1>7. ASSUME rx' \in [counter : Nat, staging : Seq(Frames), status : Statuses],
               rx'.status = "open", arrived' \in 0 .. StreamBytes(wire'), WireInv(wire', log),
               decoded' \in Seq(Items), Len(decoded') <= Len(accepted),
               ReaderInv(rx'.staging, rx'.counter, Len(decoded'), log, accepted),
               interfered = 0 => QuietInv(wire', log, rx'.counter)
        PROVE  LegInv'
    <2>1. LegTypes'
      BY <1>1, <1>2, <1>7 DEF LegTypes
    <2> QED
      BY <1>1, <1>3, <1>7, <2>1 DEF LegInv
  <1>8. CASE DrainStaging
    <2>1. FrameReady(rx.staging)
      BY <1>8 DEF DrainStaging
    <2>2. CASE TakeFrame(rx.staging, rx.counter) /\ UNCHANGED <<wire, arrived>>
      <3> DEFINE staging == rx.staging
                 counter == rx.counter
      <3>1. ReaderInv(staging, counter, Len(decoded), log, accepted) /\ TakeFrame(staging, counter)
            /\ staging # <<>>
        BY <1>2, <1>4, <2>1, <2>2
      <3> HIDE DEF staging, counter
      <3>2. /\ rx' \in [counter : Nat, staging : Seq(Frames), status : Statuses]
            /\ rx'.status = "open" /\ rx'.counter = counter
            /\ ReaderInv(rx'.staging, counter, Len(decoded'), log, accepted)
            /\ decoded' \in Seq(Items) /\ Len(decoded') <= Len(accepted)
            /\ Len(decoded) < Len(accepted)
            /\ decoded' = Append(decoded, accepted[Len(decoded) + 1])
        BY <1>1, <3>1, TakeStep
      <3>3. arrived' \in 0 .. StreamBytes(wire') /\ WireInv(wire', log)
        BY <1>2, <2>2 DEF LegTypes
      <3>4. interfered = 0 => QuietInv(wire', log, rx'.counter)
        BY <1>2, <2>2, <3>2 DEF counter
      <3>5. LegInv'
        BY <1>7, <3>2, <3>3, <3>4
      <3> QED
        BY <3>2, <3>5 DEF Delivers
    <2>3. CASE Head(rx.staging).type = "future" /\ Fail("dropped")
      BY <1>5, <1>6, <2>3
    <2> QED
      BY <1>8, <2>2, <2>3 DEF DrainStaging
  <1>9. CASE DecodeRecord
    <2> DEFINE record == Head(wire)
               staging == rx.staging \o record.plaintext
               counter == rx.counter + 1
    <2>1. RecordReady
      BY <1>9 DEF DecodeRecord
    <2>2. \/ Fail("redirected")
          \/ Fail("dropped")
          \/ /\ Decrypts(record) /\ TakeFrame(staging, counter)
             /\ wire' = Tail(wire) /\ arrived' = arrived - RecordBytes(record)
          \/ /\ Decrypts(record)
             /\ rx' = [rx EXCEPT !.staging = staging, !.counter = rx.counter + 1]
             /\ wire' = Tail(wire) /\ arrived' = arrived - RecordBytes(record)
             /\ decoded' = decoded
      BY <1>9 DEF DecodeRecord
    <2>3. record \in Records /\ Travels(record, log)
      <3>1. wire \in Seq(Records) /\ wire # <<>>
        BY <2>1, LegFacts DEF RecordReady
      <3>2. 1 \in 1 .. Len(wire) /\ Head(wire) = wire[1]
        BY <3>1
      <3> QED
        BY <1>2, <3>1, <3>2 DEF WireInv
    <2>4. ASSUME Decrypts(record), wire' = Tail(wire), arrived' = arrived - RecordBytes(record)
          PROVE  /\ WireInv(wire', log) /\ arrived' \in 0 .. StreamBytes(wire')
                 /\ interfered = 0 => QuietInv(wire', log, counter)
                 /\ ReaderInv(staging, counter, Len(decoded), log, accepted) /\ staging # <<>>
      <3>1. /\ WireInv(wire', log) /\ arrived' \in 0 .. StreamBytes(wire')
            /\ interfered = 0 => QuietInv(wire', log, counter)
        BY <1>1, <2>1, <2>4, ConsumeStep
      <3>2. record.len = record.body /\ record.counter = rx.counter
        BY <2>4 DEF Decrypts
      <3>3. accepted \in Seq(Items) /\ Len(decoded) \in Nat
        BY LegFacts
      <3> HIDE DEF record
      <3>4. ReaderInv(staging, counter, Len(decoded), log, accepted) /\ staging # <<>>
        BY <1>2, <2>3, <3>2, <3>3, AbsorbKeeps
      <3> QED
        BY <3>1, <3>4
    <2>5. CASE Fail("redirected") \/ Fail("dropped")
      BY <1>5, <1>6, <2>5
    <2>6. CASE /\ Decrypts(record) /\ TakeFrame(staging, counter)
               /\ wire' = Tail(wire) /\ arrived' = arrived - RecordBytes(record)
      <3>1. /\ WireInv(wire', log) /\ arrived' \in 0 .. StreamBytes(wire')
            /\ interfered = 0 => QuietInv(wire', log, counter)
            /\ ReaderInv(staging, counter, Len(decoded), log, accepted) /\ staging # <<>>
            /\ TakeFrame(staging, counter)
        BY <2>4, <2>6
      <3> HIDE DEF record, staging, counter
      <3>2. /\ rx' \in [counter : Nat, staging : Seq(Frames), status : Statuses]
            /\ rx'.status = "open" /\ rx'.counter = counter
            /\ ReaderInv(rx'.staging, counter, Len(decoded'), log, accepted)
            /\ decoded' \in Seq(Items) /\ Len(decoded') <= Len(accepted)
            /\ Len(decoded) < Len(accepted)
            /\ decoded' = Append(decoded, accepted[Len(decoded) + 1])
        BY <1>1, <3>1, TakeStep
      <3>3. LegInv'
        BY <1>7, <3>1, <3>2
      <3> QED
        BY <3>2, <3>3 DEF Delivers
    <2>7. CASE /\ Decrypts(record)
               /\ rx' = [rx EXCEPT !.staging = staging, !.counter = counter]
               /\ wire' = Tail(wire) /\ arrived' = arrived - RecordBytes(record)
               /\ decoded' = decoded
      <3>1. /\ WireInv(wire', log) /\ arrived' \in 0 .. StreamBytes(wire')
            /\ interfered = 0 => QuietInv(wire', log, counter)
            /\ ReaderInv(staging, counter, Len(decoded), log, accepted)
        BY <2>4, <2>7
      <3> HIDE DEF record, staging, counter
      <3>2. staging \in Seq(Frames) /\ counter \in Nat
        BY <3>1 DEF ReaderInv
      <3>3. rx \in [counter : Nat, staging : Seq(Frames), status : Statuses]
        BY <1>2 DEF LegTypes
      <3>4. /\ rx' \in [counter : Nat, staging : Seq(Frames), status : Statuses]
            /\ rx'.status = rx.status /\ rx'.counter = counter /\ rx'.staging = staging
        BY <2>7, <3>2, <3>3
      <3>5. decoded' \in Seq(Items) /\ Len(decoded') <= Len(accepted)
        BY <2>7, LegFacts
      <3>6. LegInv'
        BY <1>1, <1>7, <2>7, <3>1, <3>4, <3>5
      <3> QED
        BY <2>7, <3>4, <3>6 DEF HandsOutNothing
    <2> QED
      BY <2>2, <2>5, <2>6, <2>7
  <1>10. CASE AwaitBytes
    <2>1. rx' = rx /\ wire' = wire /\ arrived' = arrived /\ decoded' = decoded
      BY <1>10 DEF AwaitBytes
    <2>2. LegTypes'
      BY <1>1, <1>2, <2>1 DEF LegTypes
    <2>3. LegInv'
      BY <1>1, <2>1, <2>2 DEF LegInv
    <2> QED
      BY <2>1, <2>3 DEF HandsOutNothing
  <1> QED
    BY <1>1, <1>8, <1>9, <1>10

\* Every step keeps the invariant.
LEMMA LegStep == LegInv /\ [Next]_vars => LegInv'
  <1> SUFFICES ASSUME LegInv, [Next]_vars PROVE LegInv'
    OBVIOUS
  <1>1. CASE Batch
    <2>1. PICK items, ps :
            /\ items \in Seq(Items) /\ Len(items) >= 1 /\ Numbered(items, Len(accepted))
            /\ Call(items, Len(accepted), ps, tx.shaper) /\ EncodeWith(items, ps)
      BY <1>1, BatchIsCall
    <2> QED
      BY <2>1, EncodeKeeps
  <1>2. CASE Cover
    <2>1. PICK items, ps :
            /\ items \in Seq(Items) /\ Len(items) >= 1 /\ Numbered(items, Len(accepted))
            /\ Call(items, Len(accepted), ps, tx.shaper) /\ EncodeWith(items, ps)
      BY <1>2, CoverIsCall
    <2> QED
      BY <2>1, EncodeKeeps
  <1>3. CASE Arrive
    BY <1>3, ArriveKeeps
  <1>4. CASE Interfere
    BY <1>4, InterfereKeeps
  <1>5. CASE Tick
    BY <1>5, TickKeeps
  <1>6. CASE DecodeInbound
    BY <1>6, DecodeStep
  <1>7. CASE UNCHANGED vars
    <2>1. /\ tx' = tx /\ rx' = rx /\ wire' = wire /\ arrived' = arrived /\ log' = log
          /\ accepted' = accepted /\ decoded' = decoded /\ now' = now /\ interfered' = interfered
      BY <1>7 DEF vars
    <2>2. LegTypes'
      BY <2>1 DEF LegInv, LegTypes
    <2> QED
      BY <2>1, <2>2 DEF LegInv
  <1> QED
    BY <1>1, <1>2, <1>3, <1>4, <1>5, <1>6, <1>7 DEF Next

\* The invariant holds in every state of the leg.
LEMMA LegInvariant == Spec => []LegInv
  BY LegStarts, LegStep, PTL DEF Spec

-----------------------------------------------------------------------------
(***************************************************************************)
(* The theorems.                                                           *)
(***************************************************************************)

\* The leg's state has its types, the receive buffer never holds more than the
\* stream has, and a leg that was given up holds no frames back.
THEOREM LegTypeCorrect == Spec => []TypeOK
  <1>1. ASSUME LegInv PROVE TypeOK
    <2>1. /\ tx.counter \in Nat /\ tx.shaper \in Shapers /\ rx.counter \in Nat
          /\ rx.status \in Statuses
      BY <1>1, LegFacts
    <2>2. tx.failures \in 0 .. MaxFailures
      BY <1>1 DEF LegInv, LegTypes
    <2>3. /\ rx.status # "open" => rx.staging = <<>>
          /\ arrived \in 0 .. StreamBytes(wire)
          /\ now \in 0 .. MaxNow /\ interfered \in 0 .. MaxInterference
      BY <1>1 DEF LegInv, LegTypes
    <2>4. Len(accepted) <= MaxFrames /\ Len(decoded) <= MaxFrames
      <3>1. /\ Len(accepted) \in Nat /\ Len(accepted) <= MaxFrames
            /\ Len(decoded) \in Nat /\ Len(decoded) <= Len(accepted) /\ MaxFrames \in Nat
        BY <1>1, LegFacts, LegAssumption
      <3> QED
        BY <3>1
    <2> QED
      BY <2>1, <2>2, <2>3, <2>4 DEF TypeOK, Statuses
  <1> QED
    BY <1>1, LegInvariant, PTL

\* Between two calls of decode_inbound, staging holds whole frames whose header
\* fields are their true lengths: a payload length cut to 16 bits never gets
\* through, because the record it is in does not decrypt.
THEOREM StagingAlwaysWhole == Spec => []StagingHoldsWholeFrames
  <1>1. ASSUME LegInv PROVE StagingHoldsWholeFrames
    <2> DEFINE staging == rx.staging
               n == Len(staging)
    <2>1. staging \in Seq(Frames) /\ WholeFrames(staging) /\ n \in Nat
      <3>1. staging \in Seq(Frames)
        BY <1>1, LegFacts
      <3>2. CASE rx.status = "open"
        BY <1>1, <3>1, <3>2 DEF LegInv, ReaderInv
      <3>3. CASE rx.status # "open"
        <4>1. staging = <<>>
          BY <1>1, <3>3 DEF LegInv
        <4>2. WholeFrames(<<>>)
          BY DEF WholeFrames
        <4> QED
          BY <3>1, <4>1, <4>2
      <3> QED
        BY <3>2, <3>3
    <2> HIDE DEF staging
    <2>2. ASSUME NEW i \in 1 .. n
          PROVE  /\ staging[i].payload_len = staging[i].len
                 /\ FrameReady(SubSeq(staging, i, n))
      <3> DEFINE rest == SubSeq(staging, i, n)
                 f == staging[i]
      <3>1. f.payload_len = f.len
        BY <2>1 DEF WholeFrames
      <3>2. f \in Frames
        BY <2>1
      <3>3. rest \in Seq(Frames) /\ Len(rest) = (n - i) + 1 /\ rest[1] = f
        <4>1. \A j \in i .. n : staging[j] \in Frames
          BY <2>1
        <4>2. i \in Int /\ n \in Int /\ i <= n /\ 1 \in 1 .. ((n - i) + 1) /\ (i + 1) - 1 = i
          BY <2>1
        <4>3. /\ rest \in Seq(Frames) /\ Len(rest) = IF i <= n THEN (n - i) + 1 ELSE 0
              /\ \A j \in 1 .. ((n - i) + 1) : rest[j] = staging[(i + j) - 1]
          BY <4>1, <4>2, SubSeqProperties
        <4> HIDE DEF rest
        <4> QED
          BY <4>2, <4>3
      <3> HIDE DEF rest, f
      <3>4. Len(rest) \in Nat /\ 1 \in 1 .. Len(rest) /\ rest # <<>> /\ Head(rest) = f
        <4>1. Len(rest) \in Nat /\ Len(rest) >= 1
          BY <2>1, <3>3
        <4> QED
          BY <3>3, <4>1
      <3>5. FrameBytes(f) <= PlainLen(rest) /\ PlainLen(rest) \in Nat
        BY <3>3, <3>4, PlainAtLeast
      <3>6. FrameBytes(f) = WireLen(f.payload_len, f.padding_len) /\ FrameBytes(f) \in Nat
        BY <3>1, <3>2, FrameSizes DEF FrameBytes
      <3>7. PlainLen(rest) >= WireLen(f.payload_len, f.padding_len)
        BY <3>5, <3>6
      <3>8. FrameReady(rest)
        BY <3>4, <3>7 DEF FrameReady
      <3> QED
        BY <3>1, <3>8 DEF rest, f
    <2> QED
      BY <2>2 DEF StagingHoldsWholeFrames, staging
  <1> QED
    BY <1>1, LegInvariant, PTL

\* The nonces of the records sent, in order: each is above those before it, and as
\* many nonces as there are records behind it lie between it and the next to be
\* used.
NonceInv ==
    /\ \A j, k \in 1 .. Len(log) : j < k => log[j].counter < log[k].counter
    /\ \A k \in 1 .. Len(log) : log[k].counter + (Len(log) - k) < tx.counter

\* A step that sends nothing may only spend nonces.
LEMMA NonceUnsent ==
    ASSUME LegInv, NonceInv, log' = log, tx'.counter \in Nat, tx.counter <= tx'.counter
    PROVE  NonceInv'
  <1>1. log \in Seq(Records) /\ Len(log) \in Nat /\ tx.counter \in Nat
    BY LegFacts
  <1>2. ASSUME NEW k \in 1 .. Len(log) PROVE log[k].counter + (Len(log) - k) < tx'.counter
    <2>1. log[k].counter \in Int /\ k \in Int
      <3>1. log[k] \in Records
        BY <1>1
      <3> QED
        BY <3>1 DEF Records
    <2>2. log[k].counter + (Len(log) - k) < tx.counter
      BY DEF NonceInv
    <2> QED
      BY <1>1, <2>1, <2>2
  <1> QED
    BY <1>2 DEF NonceInv

\* The records of one call take the nonces from the sender's counter on.
LEMMA NonceSent ==
    ASSUME LegInv, NonceInv, NEW ps, ps \in Seq(Plaintexts), SendRecords(ps)
    PROVE  NonceInv'
  <1> DEFINE records == Encrypted(ps)
             n == Len(log)
             m == Len(ps)
             c == tx.counter
             d == tx.counter + Len(ps)
  <1>1. log \in Seq(Records) /\ n \in Nat /\ m \in Nat /\ c \in Nat /\ DOMAIN ps = 1 .. m
    BY LegFacts
  <1>2. ASSUME NEW r \in 1 .. m
        PROVE  records[r] \in Records /\ records[r].counter = (c + r) - 1
    <2> DEFINE x == (c + r) - 1
    <2>1. x = c + r - 1 /\ x \in Nat /\ ps[r] \in Plaintexts
      BY <1>1
    <2>2. records[r] = AppDataRecord(x, ps[r])
      BY <1>1, <2>1 DEF Encrypted
    <2> HIDE DEF x, records
    <2>3. records[r] \in Records /\ records[r].counter = x
      BY <2>1, <2>2, BuiltRecord
    <2> QED
      BY <2>3 DEF x
  <1>3. records \in Seq(Records) /\ Len(records) = m
    <2>1. DOMAIN records = 1 .. m /\ records = [i \in DOMAIN records |-> records[i]]
      BY <1>1 DEF Encrypted
    <2> HIDE DEF records
    <2>2. records = [i \in 1 .. m |-> records[i]]
      BY <2>1
    <2> QED
      BY <1>1, <1>2, <2>1, <2>2
  <1>4. log' = log \o records /\ tx'.counter = d
    <2>1. log' = log \o records /\ tx' = [tx EXCEPT !.counter = d]
      BY DEF SendRecords
    <2>2. tx \in Senders
      BY LegFacts
    <2> HIDE DEF d, records
    <2> QED
      BY <2>1, <2>2 DEF Senders
  <1> HIDE DEF records, n, m, c
  <1>5. /\ Len(log') = n + m
        /\ \A k \in 1 .. (n + m) : log'[k] = IF k <= n THEN log[k] ELSE records[k - n]
    <2>1. /\ Len(log \o records) = Len(log) + Len(records)
          /\ \A k \in 1 .. (Len(log) + Len(records)) :
                (log \o records)[k] = IF k <= Len(log) THEN log[k] ELSE records[k - Len(log)]
      BY <1>1, <1>3, ConcatProperties
    <2> QED
      BY <1>3, <1>4, <2>1 DEF n
  <1>6. ASSUME NEW k \in 1 .. (n + m), k <= n
        PROVE  /\ log'[k].counter = log[k].counter /\ log[k].counter \in Int
               /\ log[k].counter + (n - k) < c /\ k \in 1 .. n
    <2>1. k \in 1 .. n
      BY <1>1, <1>6
    <2>2. log[k] \in Records
      BY <1>1, <2>1 DEF n
    <2>3. log[k].counter + (n - k) < c
      BY <2>1 DEF NonceInv, n, c
    <2> QED
      BY <1>5, <1>6, <2>1, <2>2, <2>3 DEF Records
  <1>7. ASSUME NEW k \in 1 .. (n + m), ~(k <= n)
        PROVE  log'[k].counter = (c + (k - n)) - 1
    <2> DEFINE r == k - n
    <2>1. r \in 1 .. m
      BY <1>1, <1>7
    <2>2. log'[k] = records[r]
      BY <1>5, <1>7
    <2> HIDE DEF r
    <2>3. log'[k].counter = (c + r) - 1
      BY <1>2, <2>1, <2>2
    <2> QED
      BY <2>3 DEF r
  <1>8. ASSUME NEW k \in 1 .. (n + m)
        PROVE  log'[k].counter + ((n + m) - k) < c + m
    <2>1. CASE k <= n
      BY <1>1, <1>6, <2>1
    <2>2. CASE ~(k <= n)
      BY <1>1, <1>7, <2>2
    <2> QED
      BY <2>1, <2>2
  <1>9. ASSUME NEW j \in 1 .. (n + m), NEW k \in 1 .. (n + m), j < k
        PROVE  log'[j].counter < log'[k].counter
    <2>1. CASE k <= n
      <3>1. j <= n
        BY <1>1, <1>9, <2>1
      <3>2. /\ log'[j].counter = log[j].counter /\ j \in 1 .. n
            /\ log'[k].counter = log[k].counter /\ k \in 1 .. n
        BY <1>6, <2>1, <3>1
      <3> QED
        BY <1>9, <3>2 DEF NonceInv, n
    <2>2. CASE ~(k <= n) /\ j <= n
      <3>1. /\ log'[j].counter = log[j].counter /\ log[j].counter \in Int
            /\ log[j].counter + (n - j) < c /\ j \in 1 .. n
        BY <1>6, <2>2
      <3>2. log'[k].counter = (c + (k - n)) - 1
        BY <1>7, <2>2
      <3> DEFINE x == log[j].counter
      <3>3. x \in Int /\ x + (n - j) < c /\ j \in 1 .. n
        BY <3>1
      <3> HIDE DEF x
      <3>4. x < (c + (k - n)) - 1
        BY <1>1, <2>2, <3>3
      <3> QED
        BY <3>1, <3>2, <3>4 DEF x
    <2>3. CASE ~(k <= n) /\ ~(j <= n)
      BY <1>1, <1>7, <1>9, <2>3
    <2> QED
      BY <2>1, <2>2, <2>3
  <1> QED
    BY <1>4, <1>5, <1>8, <1>9 DEF NonceInv, c, m

\* encode_batch and encode_cover, whether or not the AEAD fails.
LEMMA NonceEncode ==
    ASSUME LegInv, NonceInv, NEW items, NEW ps, ps \in Seq(Plaintexts), EncodeWith(items, ps)
    PROVE  NonceInv'
  <1>1. CASE SendRecords(ps)
    BY <1>1, NonceSent
  <1>2. ASSUME NEW i \in 1 .. Len(ps), LoseRecords(ps, i)
        PROVE  NonceInv'
    <2> DEFINE d == tx.counter + i
               f == tx.failures + 1
    <2>1. d \in Nat /\ tx.counter <= d
      BY LegFacts
    <2>2. log' = log /\ tx' = [tx EXCEPT !.counter = d, !.failures = f] /\ tx \in Senders
      BY <1>2, LegFacts DEF LoseRecords
    <2> HIDE DEF d, f
    <2>3. tx'.counter = d
      BY <2>2 DEF Senders
    <2> QED
      BY <2>1, <2>2, <2>3, NonceUnsent
  <1> QED
    BY <1>1, <1>2 DEF EncodeWith

\* Every step keeps the nonces in order.
LEMMA NonceStep == LegInv /\ NonceInv /\ [Next]_vars => NonceInv'
  <1> SUFFICES ASSUME LegInv, NonceInv, [Next]_vars PROVE NonceInv'
    OBVIOUS
  <1>1. CASE Batch
    <2>1. PICK items, ps : Call(items, Len(accepted), ps, tx.shaper) /\ EncodeWith(items, ps)
      BY <1>1, BatchIsCall
    <2> QED
      BY <2>1, NonceEncode DEF Call
  <1>2. CASE Cover
    <2>1. PICK items, ps : Call(items, Len(accepted), ps, tx.shaper) /\ EncodeWith(items, ps)
      BY <1>2, CoverIsCall
    <2> QED
      BY <2>1, NonceEncode DEF Call
  <1>3. CASE Arrive \/ Interfere \/ Tick \/ DecodeInbound \/ UNCHANGED vars
    <2>1. log' = log /\ tx' = tx
      BY <1>3 DEF Arrive, Interfere, Tick, DecodeInbound, vars
    <2>2. tx.counter \in Nat
      BY LegFacts
    <2> QED
      BY <2>1, <2>2, NonceUnsent
  <1> QED
    BY <1>1, <1>2, <1>3 DEF Next

\* The nonces are in order in every state of the leg.
LEMMA NonceInvariant == Spec => []NonceInv
  <1>1. Init => NonceInv
    <2> SUFFICES ASSUME Init PROVE NonceInv
      OBVIOUS
    <2>1. log = <<>> /\ 1 .. Len(<<>>) = {}
      BY DEF Init
    <2> QED
      BY <2>1 DEF NonceInv
  <1> QED
    BY <1>1, NonceStep, LegInvariant, PTL DEF Spec

\* No nonce seals two records.  While nothing interferes and no call failed, the
\* receiver comes to each record on the way with the nonce it was sealed under;
\* after a failed call never with a later one.
THEOREM CountersStayInStep == Spec => []CountersInStep
  <1>1. ASSUME LegInv, NonceInv PROVE CountersInStep
    <2>1. \A j, k \in 1 .. Len(log) : j < k => log[j].counter < log[k].counter
      BY <1>1 DEF NonceInv
    <2>2. ASSUME interfered = 0, rx.status = "open"
          PROVE  /\ \A i \in 1 .. Len(wire) : wire[i].counter >= rx.counter + i - 1
                 /\ tx.failures = 0 =>
                       /\ rx.counter + Len(wire) = tx.counter
                       /\ \A i \in 1 .. Len(wire) : wire[i].counter = rx.counter + i - 1
      <3>1. Len(wire) = Len(log) - rx.counter /\ \A i \in 1 .. Len(wire) : wire[i] = log[rx.counter + i]
        BY <1>1, <2>2 DEF LegInv, QuietInv
      <3>2. /\ rx.counter \in Nat /\ tx.counter \in Nat
            /\ wire \in Seq(Records) /\ log \in Seq(Records)
        BY <1>1, LegFacts
      <3>3. Len(log) \in Nat /\ Len(wire) \in Nat
        BY <3>2
      <3>4. /\ tx.failures = 0 => tx.counter = Len(log)
            /\ \A k \in 1 .. Len(log) : k - 1 <= log[k].counter
        BY <1>1 DEF LegInv, SentInv
      <3>5. tx.failures = 0 => rx.counter + Len(wire) = tx.counter
        BY <3>1, <3>2, <3>3, <3>4
      <3>6. ASSUME NEW i \in 1 .. Len(wire)
            PROVE  /\ wire[i].counter >= rx.counter + i - 1
                   /\ tx.failures = 0 => wire[i].counter = rx.counter + i - 1
        <4> DEFINE k == rx.counter + i
                   x == log[k].counter
        <4>1. k \in 1 .. Len(log) /\ k \in Int /\ k - 1 = rx.counter + i - 1
          BY <3>1, <3>2, <3>3
        <4>2. wire[i] = log[k]
          BY <3>1
        <4> HIDE DEF k
        <4>3. log[k] \in Records
          BY <3>2, <4>1
        <4>4. k - 1 <= x /\ x + (Len(log) - k) < tx.counter /\ x \in Int
          BY <1>1, <3>4, <4>1, <4>3 DEF NonceInv, Records
        <4> HIDE DEF x
        <4>5. x >= k - 1 /\ (tx.failures = 0 => x = k - 1)
          BY <3>2, <3>3, <3>4, <4>1, <4>4
        <4> QED
          BY <4>1, <4>2, <4>5 DEF x
      <3> QED
        BY <3>5, <3>6
    <2> QED
      BY <2>1, <2>2 DEF CountersInStep
  <1> QED
    BY <1>1, LegInvariant, NonceInvariant, PTL

\* The length in the clear of every record without an oversized frame is a boundary
\* of the connection, or the length asked of encode_cover, and is the record's true
\* length.
THEOREM LengthsAlwaysShaped == Spec => []LengthsShaped
  <1>1. ASSUME LegInv PROVE LengthsShaped
    <2>1. \A i \in 1 .. Len(log) : ShapedLength(log[i], tx.shaper)
      BY <1>1 DEF LegInv, SentInv, SentRecord
    <2> QED
      BY <2>1 DEF LengthsShaped, ShapedLength
  <1> QED
    BY <1>1, LegInvariant, PTL

\* The leg implements the abstract stream: frames come out in the order they went
\* in, each once, none missing in between, and none after the leg is given up.
THEOREM LegIsInOrder == Spec => InOrder
  <1>1. Init => Stream!StreamInit
    BY DEF Init, Stream!StreamInit
  <1>2. LegInv /\ [Next]_vars => [Stream!StreamNext]_(Stream!streamVars)
    <2> SUFFICES ASSUME LegInv, [Next]_vars
                 PROVE  Stream!StreamNext \/ UNCHANGED Stream!streamVars
      OBVIOUS
    <2>1. ASSUME NEW items \in Seq(Items), NEW ps, Len(items) >= 1, EncodeWith(items, ps)
          PROVE  Stream!Accept
      <3>1. /\ accepted' = accepted \o items /\ decoded' = decoded /\ rx' = rx
        BY <2>1 DEF EncodeWith
      <3>2. accepted \in Seq(Items) /\ Len(accepted) \in Nat
        BY LegFacts
      <3>3. Len(accepted \o items) > Len(accepted)
        BY <2>1, <3>2
      <3>4. SubSeq(accepted \o items, 1, Len(accepted)) = accepted
        BY <3>2, ConcatPrefix
      <3> QED
        BY <3>1, <3>3, <3>4 DEF Stream!Accept
    <2>2. CASE Batch
      <3>1. PICK items, ps : items \in Seq(Items) /\ Len(items) >= 1 /\ EncodeWith(items, ps)
        BY <2>2, BatchIsCall
      <3> QED
        BY <2>1, <3>1 DEF Stream!StreamNext
    <2>3. CASE Cover
      <3>1. PICK items, ps : items \in Seq(Items) /\ Len(items) >= 1 /\ EncodeWith(items, ps)
        BY <2>3, CoverIsCall
      <3> QED
        BY <2>1, <3>1 DEF Stream!StreamNext
    <2>4. CASE Arrive \/ Interfere \/ Tick \/ UNCHANGED vars
      <3>1. accepted' = accepted /\ decoded' = decoded /\ rx' = rx
        BY <2>4 DEF Arrive, Interfere, Tick, vars
      <3> QED
        BY <3>1 DEF Stream!streamVars
    <2>5. CASE DecodeInbound
      <3>1. rx.status = "open" /\ accepted' = accepted
        BY <2>5 DEF DecodeInbound
      <3>2. Delivers \/ GivesUp \/ HandsOutNothing
        BY <2>5, DecodeStep
      <3>3. CASE Delivers
        BY <3>1, <3>3 DEF Delivers, Stream!Deliver, Stream!StreamNext
      <3>4. CASE GivesUp
        BY <3>1, <3>4 DEF GivesUp, Stream!Close, Stream!StreamNext
      <3>5. CASE HandsOutNothing
        BY <3>1, <3>5 DEF HandsOutNothing, Stream!streamVars
      <3> QED
        BY <3>2, <3>3, <3>4, <3>5
    <2> QED
      BY <2>2, <2>3, <2>4, <2>5 DEF Next
  <1> QED
    BY <1>1, <1>2, LegInvariant, PTL DEF Spec, InOrder, Stream!StreamSpec

=============================================================================
