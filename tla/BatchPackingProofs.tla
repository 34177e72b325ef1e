------------------------- MODULE BatchPackingProofs -------------------------
(***************************************************************************)
(* encode_batch, for every sequence of frames and every shaper: it keeps   *)
(* the frames, pads every record to the boundary above it, and needs no    *)
(* more records than the best packing that keeps the order.                *)
(***************************************************************************)
EXTENDS BatchPacking, TxCodecProofs, SequenceTheorems

\* The caller's queue: frames numbered from one on.
QueueInv ==
    /\ shaper \in Shapers
    /\ items \in Seq(Items)
    /\ Numbered(items, 0)

\* The queue is always one.
LEMMA QueueInvariant == Spec => []QueueInv
  <1>1. Init => QueueInv
    BY DEF Init, QueueInv, Numbered
  <1>2. QueueInv /\ [Next]_vars => QueueInv'
    <2> SUFFICES ASSUME QueueInv, [Next]_vars PROVE QueueInv'
      OBVIOUS
    <2>1. CASE UNCHANGED vars
      BY <2>1 DEF vars, QueueInv
    <2>2. ASSUME NEW len \in PayloadLens, Enqueue(len) PROVE QueueInv'
      <3> DEFINE n == Len(items)
                 item == [id |-> n + 1, type |-> "data", len |-> len, step |-> 0]
      <3>1. items' = Append(items, item) /\ shaper' = shaper
        BY <2>2 DEF Enqueue
      <3>2. items \in Seq(Items) /\ n \in Nat /\ \A i \in 1 .. n : items[i].id = 0 + i
        BY DEF QueueInv, Numbered
      <3>3. item \in Items /\ item.id = 0 + (n + 1)
        <4>1. len \in Nat
          BY PackingAssumption
        <4> QED
          BY <3>2, <4>1 DEF Items, Types
      <3> HIDE DEF item
      <3>4. /\ items' \in Seq(Items) /\ Len(items') = n + 1 /\ items'[n + 1] = item
            /\ \A i \in 1 .. n : items'[i] = items[i]
        BY <3>1, <3>2, <3>3
      <3> HIDE DEF n
      <3>5. \A i \in 1 .. (n + 1) : i \in 1 .. n \/ i = n + 1
        BY <3>2
      <3>6. \A i \in 1 .. (n + 1) : items'[i].id = 0 + i
        BY <3>2, <3>3, <3>4, <3>5
      <3> QED
        BY <3>1, <3>4, <3>6 DEF QueueInv, Numbered
    <2> QED
      BY <2>1, <2>2 DEF Next
  <1> QED
    BY <1>1, <1>2, PTL DEF Spec

-----------------------------------------------------------------------------
(***************************************************************************)
(* Padding.                                                                *)
(***************************************************************************)

\* Every record without an oversized frame is padded to the least boundary of the
\* connection that holds it, so its length tells nothing else of its frames; one
\* with an oversized frame is not padded.
THEOREM PaddingAlwaysReaches == Spec => []PaddingReachesBoundary
  <1>1. ASSUME QueueInv PROVE PaddingReachesBoundary
    <2> DEFINE records == EncodeBatch(shaper, items)
    <2>1. Covering(shaper, items, 0, records)
      BY <1>1, EncodeBatchCovers DEF QueueInv
    <2> HIDE DEF records
    <2>2. ASSUME NEW r \in 1 .. Len(records)
          PROVE  LET plaintext == records[r]
                     bare      == PlainLen(plaintext) - plaintext[Len(plaintext)].padding_len
                 IN  IF bare > MaxRecordPlaintext
                     THEN PlainLen(plaintext) = bare
                     ELSE /\ PlainLen(plaintext) + AeadTagLen \in shaper
                          /\ \A b \in shaper : b >= bare + AeadTagLen =>
                                PlainLen(plaintext) + AeadTagLen <= b
      <3> DEFINE p == records[r]
                 l == Len(p)
                 pad == p[l].padding_len
                 bare == PlainLen(p) - pad
      <3>1. p \in Plaintexts /\ ShapedRecord(shaper, p)
        BY <2>1 DEF Covering
      <3> HIDE DEF p
      <3>2. p \in Seq(Frames) /\ l \in Nat /\ l \in 1 .. l
        BY <3>1 DEF Plaintexts
      <3>3. pad \in Nat
        <4>1. p[l] \in Frames
          BY <3>2
        <4> QED
          BY <4>1 DEF Frames
      <3> HIDE DEF pad
      <3>4. /\ PlainLen(p) = Bare(p) + pad
            /\ Bare(p) > MaxRecordPlaintext => l = 1 /\ p[1].padding_len = 0
            /\ ~(Bare(p) > MaxRecordPlaintext) =>
                  PlainLen(p) + AeadTagLen = TargetRecordLen(shaper, Bare(p))
        BY <3>1 DEF ShapedRecord, pad
      <3>5. Bare(p) \in Nat /\ PlainLen(p) \in Nat
        BY <3>2, BareNat, PlainAtLeast
      <3>6. bare = Bare(p)
        BY <3>3, <3>4, <3>5
      <3>7. CASE Bare(p) > MaxRecordPlaintext
        <4>1. pad = 0
          BY <3>4, <3>7 DEF pad
        <4>2. PlainLen(p) = bare
          BY <3>4, <3>5, <3>6, <4>1
        <4> QED
          BY <3>6, <3>7, <4>2 DEF pad, p
      <3>8. CASE ~(Bare(p) > MaxRecordPlaintext)
        <4>1. Bare(p) <= MaxRecordPlaintext /\ shaper \in Shapers
          BY <1>1, <3>5, <3>8, CodecConstants DEF QueueInv
        <4> DEFINE target == TargetRecordLen(shaper, Bare(p))
        <4>2. /\ target \in shaper
              /\ \A b \in shaper : b >= Bare(p) + AeadTagLen => target <= b
          BY <3>5, <4>1, TargetIsLeastBoundary
        <4> HIDE DEF target, bare
        <4>3. /\ PlainLen(p) + AeadTagLen \in shaper
              /\ \A b \in shaper : b >= bare + AeadTagLen => PlainLen(p) + AeadTagLen <= b
          BY <3>4, <3>6, <3>8, <4>2 DEF target
        <4> QED
          BY <3>6, <3>8, <4>3 DEF bare, pad, p
      <3> QED
        BY <3>7, <3>8
    <2> QED
      BY <2>2 DEF PaddingReachesBoundary, records
  <1> QED
    BY <1>1, QueueInvariant, PTL

-----------------------------------------------------------------------------
(***************************************************************************)
(* The frames of the records, one after the other.                         *)
(***************************************************************************)

\* The function FlattenSeq is computed with.
FlatFunction(h, seqs, n) ==
    h = [i \in 1 .. n |-> IF i = 1 THEN seqs[i] ELSE h[i - 1] \o seqs[i]]

\* That function exists.
LEMMA FlatIter ==
    ASSUME NEW seqs, NEW n \in Nat
    PROVE  \E h : FlatFunction(h, seqs, n)
  <1> DEFINE Good(h, k) == FlatFunction(h, seqs, k)
             T == {k \in Nat : \E h : Good(h, k)}
  <1>1. 0 \in T
    <2>1. 1 .. 0 = {}
      OBVIOUS
    <2>2. Good([i \in 1 .. 0 |-> <<>>], 0)
      BY <2>1 DEF FlatFunction
    <2> QED
      BY <2>2
  <1>2. ASSUME NEW k \in Nat, k \in T PROVE k + 1 \in T
    <2>1. PICK h : Good(h, k)
      BY <1>2
    <2> DEFINE D == 1 .. (k + 1)
               new == IF k + 1 = 1 THEN seqs[k + 1] ELSE h[(k + 1) - 1] \o seqs[k + 1]
               g == [i \in D |-> IF i = k + 1 THEN new ELSE h[i]]
               rhs == [i \in D |-> IF i = 1 THEN seqs[i] ELSE g[i - 1] \o seqs[i]]
    <2>2. ASSUME NEW i \in 1 .. k
          PROVE  h[i] = IF i = 1 THEN seqs[i] ELSE h[i - 1] \o seqs[i]
      BY <2>1 DEF FlatFunction
    <2>3. ASSUME NEW i \in D, i # 1
          PROVE  g[i - 1] = h[i - 1]
      <3>1. i - 1 \in D /\ i - 1 # k + 1
        BY <2>3
      <3> QED
        BY <3>1
    <2>4. ASSUME NEW i \in D PROVE g[i] = rhs[i]
      <3>1. CASE i = k + 1
        <4>1. g[i] = new
          BY <3>1
        <4>2. rhs[i] = IF i = 1 THEN seqs[i] ELSE g[i - 1] \o seqs[i]
          OBVIOUS
        <4> HIDE DEF g, rhs, D
        <4> QED
          BY <2>3, <3>1, <4>1, <4>2
      <3>2. CASE i # k + 1
        <4>1. i \in 1 .. k /\ g[i] = h[i]
          BY <3>2
        <4>2. rhs[i] = IF i = 1 THEN seqs[i] ELSE g[i - 1] \o seqs[i]
          OBVIOUS
        <4> HIDE DEF g, rhs, D, new
        <4> QED
          BY <2>2, <2>3, <4>1, <4>2
      <3> QED
        BY <3>1, <3>2
    <2>5. g = [i \in D |-> g[i]] /\ rhs = [i \in D |-> rhs[i]]
      OBVIOUS
    <2>6. g = rhs
      <3> HIDE DEF g, rhs, D
      <3> QED
        BY <2>4, <2>5
    <2>7. Good(g, k + 1)
      <3> HIDE DEF g
      <3> QED
        BY <2>6 DEF FlatFunction
    <2> HIDE DEF g, Good
    <2> QED
      BY <2>7
  <1> HIDE DEF T
  <1>3. Nat \subseteq T
    BY <1>1, <1>2, SetInduction
  <1> QED
    BY <1>3 DEF T

\* The frames of the first records, for each number of records.
LEMMA FlatTrace ==
    ASSUME NEW seqs, Len(seqs) \in Nat, Len(seqs) # 0
    PROVE  \E v : FlatFunction(v, seqs, Len(seqs)) /\ FlattenSeq(seqs) = v[Len(seqs)]
  <1> DEFINE flatten[i \in 1 .. Len(seqs)] ==
                IF i = 1 THEN seqs[i] ELSE flatten[i - 1] \o seqs[i]
  <1>1. FlattenSeq(seqs) = flatten[Len(seqs)]
    BY DEF FlattenSeq
  <1> DEFINE Good(h) == h = [i \in 1 .. Len(seqs) |->
                               IF i = 1 THEN seqs[i] ELSE h[i - 1] \o seqs[i]]
  <1>2. \E h : Good(h)
    <2>1. PICK h : FlatFunction(h, seqs, Len(seqs))
      BY FlatIter
    <2>2. Good(h)
      BY <2>1 DEF FlatFunction
    <2> QED
      BY <2>2
  <1>3. flatten = CHOOSE h : Good(h)
    OBVIOUS
  <1> HIDE DEF Good, flatten
  <1>4. Good(flatten)
    BY <1>2, <1>3
  <1>5. FlatFunction(flatten, seqs, Len(seqs))
    BY <1>4 DEF Good, FlatFunction
  <1> QED
    BY <1>1, <1>5

\* The frames carry the first items of a call, all of them.
CarriesAll(frames, its) ==
    /\ frames \in Seq(Frames)
    /\ \A j \in 1 .. Len(frames) : j \in 1 .. Len(its) /\ Carries(frames[j], its[j])

\* One record more.
LEMMA FlattenOne ==
    ASSUME NEW frames, NEW its \in Seq(Items), CarriesAll(frames, its), NEW p \in Plaintexts,
           CarriesFrom(p, its, 0, Len(frames))
    PROVE  CarriesAll(frames \o p, its) /\ Len(frames \o p) = LastId(p)
  <1> DEFINE all == frames \o p
             n == Len(frames)
             m == Len(p)
  <1>1. frames \in Seq(Frames) /\ p \in Seq(Frames)
    BY DEF CarriesAll, Plaintexts
  <1>2. /\ all \in Seq(Frames) /\ Len(all) = n + m /\ n \in Nat /\ m \in Nat
        /\ \A k \in 1 .. (n + m) : all[k] = IF k <= n THEN frames[k] ELSE p[k - n]
    BY <1>1, ConcatProperties
  <1>3. LastId(p) = n + m
    BY LastCarried
  <1>4. \A j \in 1 .. m : (n + j) - 0 \in 1 .. Len(its) /\ Carries(p[j], its[(n + j) - 0])
    BY DEF CarriesFrom
  <1>5. \A j \in 1 .. n : j \in 1 .. Len(its) /\ Carries(frames[j], its[j])
    BY DEF CarriesAll
  <1> HIDE DEF all, n, m
  <1>6. ASSUME NEW k \in 1 .. Len(all)
        PROVE  k \in 1 .. Len(its) /\ Carries(all[k], its[k])
    <2>1. CASE k <= n
      <3>1. k \in 1 .. n /\ all[k] = frames[k]
        BY <1>2, <2>1
      <3> QED
        BY <1>5, <3>1
    <2>2. CASE ~(k <= n)
      <3> DEFINE j == k - n
      <3>1. j \in 1 .. m /\ all[k] = p[j] /\ (n + j) - 0 = k
        BY <1>2, <2>2
      <3> HIDE DEF j
      <3> QED
        BY <1>4, <3>1
    <2> QED
      BY <2>1, <2>2
  <1> QED
    BY <1>2, <1>3, <1>6 DEF CarriesAll, all

\* The records of a call, one after the other, are its frames.
LEMMA FlattenedRecords ==
    ASSUME NEW sh, NEW its \in Seq(Items), NEW records, Covering(sh, its, 0, records),
           Before(records, 0, Len(records) + 1) = 0 + Len(its)
    PROVE  CarriesAll(FlattenSeq(records), its) /\ Len(FlattenSeq(records)) = Len(its)
  <1> DEFINE n == Len(records)
  <1>1. /\ records \in Seq(Plaintexts) /\ n \in Nat
        /\ \A r \in 1 .. n : CarriesFrom(records[r], its, 0, Before(records, 0, r))
    BY DEF Covering
  <1>2. CASE n = 0
    <2>1. FlattenSeq(records) = <<>> /\ Len(<<>>) = 0
      BY <1>1, <1>2 DEF FlattenSeq
    <2>2. CarriesAll(<<>>, its)
      BY <2>1 DEF CarriesAll
    <2>3. Len(its) = 0
      BY <1>2 DEF Before
    <2> QED
      BY <2>1, <2>2, <2>3
  <1>3. CASE n # 0
    <2>1. PICK v : FlatFunction(v, records, n) /\ FlattenSeq(records) = v[n]
      BY <1>1, <1>3, FlatTrace
    <2>2. /\ v[1] = records[1]
          /\ \A r \in 1 .. n : r # 1 => v[r] = v[r - 1] \o records[r]
      <3>1. 1 \in 1 .. n
        BY <1>1, <1>3
      <3> HIDE DEF n
      <3>2. ASSUME NEW r \in 1 .. n
            PROVE  v[r] = IF r = 1 THEN records[r] ELSE v[r - 1] \o records[r]
        BY <2>1 DEF FlatFunction
      <3> QED
        BY <3>1, <3>2
    <2> HIDE DEF n
    <2> DEFINE Holds(r) == CarriesAll(v[r], its) /\ Len(v[r]) = LastId(records[r])
               T == {k \in Nat : k + 1 <= n => Holds(k + 1)}
    <2>3. 0 \in T
      <3> DEFINE p == records[1]
      <3>1. p \in Plaintexts /\ CarriesFrom(p, its, 0, 0) /\ 1 \in 1 .. n
        <4>1. 1 \in 1 .. n
          BY <1>1, <1>3
        <4>2. Before(records, 0, 1) = 0
          BY DEF Before
        <4> QED
          BY <1>1, <4>1, <4>2 DEF n
      <3> HIDE DEF p
      <3>2. p \in Seq(Frames) /\ <<>> \o p = p /\ <<>> \in Seq(Frames) /\ Len(<<>>) = 0
        BY <3>1 DEF Plaintexts
      <3>3. CarriesAll(<<>>, its)
        BY <3>2 DEF CarriesAll
      <3>4. CarriesAll(<<>> \o p, its) /\ Len(<<>> \o p) = LastId(p)
        <4>1. CarriesFrom(p, its, 0, Len(<<>>))
          BY <3>1, <3>2
        <4> QED
          BY <3>1, <3>3, <4>1, FlattenOne
      <3>5. Holds(1)
        BY <2>2, <3>2, <3>4 DEF p
      <3> HIDE DEF Holds
      <3>6. Holds(0 + 1)
        BY <3>5
      <3> QED
        BY <3>6
    <2>4. ASSUME NEW k \in Nat, k \in T PROVE k + 1 \in T
      <3> SUFFICES ASSUME (k + 1) + 1 <= n PROVE Holds((k + 1) + 1)
        OBVIOUS
      <3> DEFINE q == k + 1
                 r == q + 1
      <3>1. q \in 1 .. n /\ r \in 1 .. n /\ r # 1 /\ r - 1 = q /\ q <= n
        BY <1>1
      <3>2. Holds(q)
        BY <2>4, <3>1
      <3> HIDE DEF q, r
      <3>3. v[r] = v[q] \o records[r]
        BY <2>2, <3>1
      <3>4. Before(records, 0, r) = LastId(records[q])
        BY <3>1 DEF Before
      <3>5. records[r] \in Plaintexts /\ CarriesFrom(records[r], its, 0, Len(v[q]))
        BY <1>1, <3>1, <3>2, <3>4 DEF n
      <3>6. CarriesAll(v[q] \o records[r], its) /\ Len(v[q] \o records[r]) = LastId(records[r])
        BY <3>2, <3>5, FlattenOne
      <3>7. Holds(r)
        BY <3>3, <3>6
      <3> QED
        BY <3>7 DEF r, q
    <2> HIDE DEF T
    <2>5. Nat \subseteq T
      BY <2>3, <2>4, SetInduction
    <2>6. Holds(n)
      <3> DEFINE k == n - 1
      <3>1. k \in Nat /\ k + 1 = n /\ k + 1 <= n
        BY <1>1, <1>3
      <3> HIDE DEF k
      <3>2. k \in T
        BY <2>5, <3>1
      <3> QED
        BY <3>1, <3>2 DEF T
    <2>7. LastId(records[n]) = Len(its)
      <3>1. n + 1 # 1 /\ (n + 1) - 1 = n /\ Len(its) \in Nat
        BY <1>1, <1>3
      <3>2. Before(records, 0, n + 1) = LastId(records[n])
        BY <3>1 DEF Before
      <3>3. 0 + Len(its) = Len(its)
        BY <3>1
      <3> QED
        BY <3>2, <3>3 DEF n
    <2> QED
      BY <2>1, <2>6, <2>7
  <1> QED
    BY <1>2, <1>3

\* Packing loses, adds and reorders nothing: the frames of the records encode_batch
\* makes, one record after the other, are the frames it was given.
THEOREM PackingAlwaysKeepsFrames == Spec => []PackingKeepsFrames
  <1>1. ASSUME QueueInv PROVE PackingKeepsFrames
    <2> DEFINE records == EncodeBatch(shaper, items)
               frames == FlattenSeq(records)
    <2>1. /\ Covering(shaper, items, 0, records)
          /\ Before(records, 0, Len(records) + 1) = 0 + Len(items)
      BY <1>1, EncodeBatchCovers DEF QueueInv
    <2> HIDE DEF records
    <2>2. CarriesAll(frames, items) /\ Len(frames) = Len(items)
      BY <1>1, <2>1, FlattenedRecords DEF QueueInv
    <2> HIDE DEF frames
    <2>3. \A i \in 1 .. Len(items) : frames[i].id = items[i].id /\ frames[i].len = items[i].len
      BY <2>2 DEF CarriesAll, Carries
    <2> QED
      BY <2>2, <2>3 DEF PackingKeepsFrames, frames, records
  <1> QED
    BY <1>1, QueueInvariant, PTL

-----------------------------------------------------------------------------
(***************************************************************************)
(* The bytes of a run of items.                                            *)
(***************************************************************************)

\* The bytes of the items after the first k and up to the n-th, one by one.
LEMMA SpanLens ==
    ASSUME QueueInv, NEW k \in Nat, NEW n \in Nat, k <= n, n <= Len(items)
    PROVE  /\ n - k \in Nat /\ Lens([i \in 1 .. (n - k) |-> Need(k + i)], n - k)
           /\ Span(k, n) \in Nat
           /\ \A i \in 1 .. Len(items) : Need(i) \in Nat
  <1> DEFINE s == [i \in 1 .. (n - k) |-> Need(k + i)]
  <1>1. \A i \in 1 .. Len(items) : Need(i) \in Nat
    <2> SUFFICES ASSUME NEW i \in 1 .. Len(items) PROVE Need(i) \in Nat
      OBVIOUS
    <2>1. items[i] \in Items
      BY DEF QueueInv
    <2>2. items[i].len \in Nat
      BY <2>1 DEF Items
    <2> QED
      BY <2>2, FrameSizes DEF Need
  <1>2. n - k \in Nat /\ Len(items) \in Nat
    BY DEF QueueInv
  <1>3. \A i \in 1 .. (n - k) : k + i \in 1 .. Len(items)
    BY <1>2
  <1>4. Lens(s, n - k)
    BY <1>1, <1>3 DEF Lens
  <1>5. Span(k, n) = SumSeq(s)
    BY DEF Span
  <1> HIDE DEF s
  <1>6. SumSeq(s) \in Nat
    BY <1>2, <1>4, SumNat
  <1> QED
    BY <1>1, <1>2, <1>4, <1>5, <1>6 DEF s

\* The bytes of two runs of items, one after the other.
LEMMA SpanSplit ==
    ASSUME QueueInv, NEW k \in Nat, NEW m \in Nat, NEW n \in Nat, k <= m, m <= n,
           n <= Len(items)
    PROVE  Span(k, n) = Span(k, m) + Span(m, n)
  <1> DEFINE a == m - k
             b == n - m
             r == [i \in 1 .. (n - k) |-> Need(k + i)]
             s == [i \in 1 .. (m - k) |-> Need(k + i)]
             t == [i \in 1 .. (n - m) |-> Need(m + i)]
  <1>1. Span(k, n) = SumSeq(r) /\ Span(k, m) = SumSeq(s) /\ Span(m, n) = SumSeq(t)
    BY DEF Span
  <1>2. a \in Nat /\ b \in Nat /\ a + b = n - k /\ m <= Len(items) /\ k <= n
    BY DEF QueueInv
  <1>3. Lens(s, a) /\ Lens(t, b)
    BY <1>2, SpanLens
  <1>4. DOMAIN r = 1 .. (a + b)
    BY <1>2
  <1>5. Begins(r, s, a)
    <2> SUFFICES ASSUME NEW i \in 1 .. a PROVE r[i] = s[i]
      BY DEF Begins
    <2>1. i \in 1 .. (n - k) /\ i \in 1 .. (m - k)
      BY <1>2
    <2> QED
      BY <2>1
  <1>6. Continues(r, t, a, b)
    <2> SUFFICES ASSUME NEW i \in 1 .. b PROVE r[a + i] = t[i]
      BY DEF Continues
    <2>1. a + i \in 1 .. (n - k) /\ k + (a + i) = m + i /\ i \in 1 .. (n - m)
      BY <1>2
    <2>2. r[a + i] = Need(k + (a + i)) /\ t[i] = Need(m + i)
      BY <2>1
    <2> QED
      BY <2>1, <2>2
  <1> HIDE DEF a, b, r, s, t
  <1>7. SumSeq(r) = SumSeq(s) + SumSeq(t)
    BY <1>2, <1>3, <1>4, <1>5, <1>6, SumSplit
  <1> QED
    BY <1>1, <1>7

\* The bytes of one item.
LEMMA SpanOne ==
    ASSUME QueueInv, NEW n \in Nat, n + 1 <= Len(items)
    PROVE  Span(n, n + 1) = Need(n + 1) /\ Need(n + 1) \in Nat
  <1> DEFINE s == [i \in 1 .. ((n + 1) - n) |-> Need(n + i)]
  <1>1. Span(n, n + 1) = SumSeq(s)
    BY DEF Span
  <1>2. (n + 1) - n = 1 /\ n + 1 \in 1 .. Len(items)
    BY DEF QueueInv
  <1>3. DOMAIN s = 1 .. 1 /\ s[1] = Need(n + 1)
    BY <1>2
  <1>4. Need(n + 1) \in Nat
    <2>1. n <= n /\ n <= Len(items)
      BY <1>2
    <2>2. \A i \in 1 .. Len(items) : Need(i) \in Nat
      BY <2>1, SpanLens
    <2> QED
      BY <1>2, <2>2
  <1> HIDE DEF s
  <1>5. s[1] \in Nat
    BY <1>3, <1>4
  <1>6. SumSeq(s) = s[1]
    BY <1>3, <1>5, SumShort
  <1> QED
    BY <1>1, <1>3, <1>4, <1>6

\* A run of items holds at least the bytes of any part of it.
LEMMA SpanWithin ==
    ASSUME QueueInv, NEW k \in Nat, NEW s \in Nat, NEW n \in Nat, NEW m \in Nat,
           k <= s, s <= n, n <= m, m <= Len(items)
    PROVE  Span(s, n) <= Span(k, m) /\ Span(s, n) \in Nat
  <1>1. k <= n /\ s <= m /\ n <= Len(items) /\ s <= Len(items)
    BY DEF QueueInv
  <1>2. Span(k, m) = Span(k, n) + Span(n, m)
    BY <1>1, SpanSplit
  <1>3. Span(k, n) = Span(k, s) + Span(s, n)
    BY <1>1, SpanSplit
  <1>4. Span(k, s) \in Nat /\ Span(s, n) \in Nat /\ Span(n, m) \in Nat
    BY <1>1, SpanLens
  <1> QED
    BY <1>2, <1>3, <1>4

\* The bytes of the batch the loop is filling are those of the items it holds.
LEMMA SpanOfBatch ==
    ASSUME QueueInv, NEW n \in Nat, NEW acc, PackInv(shaper, items, 0, acc, n)
    PROVE  /\ n - Len(acc.batch) \in Nat /\ n - Len(acc.batch) <= n /\ n <= Len(items)
           /\ Span(n - Len(acc.batch), n) = acc.batch_len
  <1> DEFINE b == Len(acc.batch)
             s == n - b
             batch == acc.batch
             p == [i \in 1 .. (n - s) |-> Need(s + i)]
             q == [i \in DOMAIN batch |-> WireLen(batch[i].len, 0)]
  <1>1. /\ batch \in Seq(Items) /\ b \in Nat /\ b <= n /\ n <= Len(items)
        /\ acc.batch_len = Bare(batch)
        /\ \A j \in 1 .. b : batch[j] = items[s + j]
    BY DEF PackInv
  <1>2. s \in Nat /\ s <= n /\ n - s = b
    BY <1>1
  <1>3. DOMAIN batch = 1 .. b
    BY <1>1
  <1>4. ASSUME NEW i \in 1 .. b PROVE p[i] = q[i]
    <2>1. p[i] = Need(s + i) /\ q[i] = WireLen(batch[i].len, 0)
      BY <1>2, <1>3
    <2> HIDE DEF p, q
    <2> QED
      BY <1>1, <2>1 DEF Need
  <1>5. p = [i \in 1 .. b |-> p[i]] /\ q = [i \in 1 .. b |-> q[i]]
    BY <1>2, <1>3
  <1>6. Span(s, n) = SumSeq(p) /\ Bare(batch) = SumSeq(q)
    BY DEF Span, Bare
  <1> HIDE DEF p, q
  <1>7. p = q
    BY <1>4, <1>5
  <1> QED
    BY <1>1, <1>2, <1>6, <1>7

-----------------------------------------------------------------------------
(***************************************************************************)
(* The least number of records.                                            *)
(***************************************************************************)

\* Where a record that ends at the n-th item may begin.
Starts(n) == {k \in 0 .. (n - 1) : Fits(k, n)}

\* The least of a set of numbers.
LEMMA MinOfNats ==
    ASSUME NEW S \in SUBSET Nat, S # {}
    PROVE  Min(S) \in S /\ \A y \in S : Min(S) <= y
  <1>1. \E x \in S : \A y \in S : x <= y
    BY LeastElement
  <1> QED
    BY <1>1, Zenon DEF Min

\* The function LeastRecords is computed with, for the first n items.
LeastFunction(h, n) ==
    h = [m \in 0 .. n |-> IF m = 0 THEN 0 ELSE 1 + Min({h[k] : k \in Starts(m)})]

\* That function exists.
LEMMA LeastIter ==
    ASSUME NEW n \in Nat
    PROVE  \E h : LeastFunction(h, n)
  <1> DEFINE Good(h, j) == LeastFunction(h, j)
             T == {j \in Nat : \E h : Good(h, j)}
  <1>1. 0 \in T
    <2> DEFINE h == [m \in 0 .. 0 |-> 0]
               rhs == [m \in 0 .. 0 |-> IF m = 0 THEN 0 ELSE 1 + Min({h[k] : k \in Starts(m)})]
    <2>1. \A m \in 0 .. 0 : m = 0
      OBVIOUS
    <2>2. h = rhs
      BY <2>1
    <2> HIDE DEF h
    <2>3. Good(h, 0)
      BY <2>2 DEF LeastFunction
    <2> HIDE DEF Good
    <2> QED
      BY <2>3
  <1>2. ASSUME NEW j \in Nat, j \in T PROVE j + 1 \in T
    <2>1. PICK h : Good(h, j)
      BY <1>2
    <2> DEFINE D == 0 .. (j + 1)
               new == 1 + Min({h[k] : k \in Starts(j + 1)})
               g == [m \in D |-> IF m = j + 1 THEN new ELSE h[m]]
               rhs == [m \in D |-> IF m = 0 THEN 0 ELSE 1 + Min({g[k] : k \in Starts(m)})]
    <2>2. ASSUME NEW m \in 0 .. j
          PROVE  h[m] = IF m = 0 THEN 0 ELSE 1 + Min({h[k] : k \in Starts(m)})
      BY <2>1 DEF LeastFunction
    <2>3. ASSUME NEW m \in D, NEW k \in Starts(m) PROVE g[k] = h[k]
      <3>1. k \in 0 .. (m - 1)
        BY DEF Starts
      <3>2. k \in D /\ k # j + 1
        BY <3>1
      <3> QED
        BY <3>2
    <2>4. ASSUME NEW m \in D
          PROVE  {g[k] : k \in Starts(m)} = {h[k] : k \in Starts(m)}
      <3> HIDE DEF g, D
      <3> QED
        BY <2>3
    <2>5. ASSUME NEW m \in D PROVE g[m] = rhs[m]
      <3>1. rhs[m] = IF m = 0 THEN 0 ELSE 1 + Min({h[k] : k \in Starts(m)})
        <4>1. rhs[m] = IF m = 0 THEN 0 ELSE 1 + Min({g[k] : k \in Starts(m)})
          OBVIOUS
        <4> HIDE DEF g, rhs, D
        <4> QED
          BY <2>4, <4>1
      <3>2. CASE m = j + 1
        <4>1. g[m] = new /\ m # 0
          BY <3>2
        <4> HIDE DEF g, rhs, D
        <4> QED
          BY <3>1, <3>2, <4>1
      <3>3. CASE m # j + 1
        <4>1. m \in 0 .. j /\ g[m] = h[m]
          BY <3>3
        <4> HIDE DEF g, rhs, D, new
        <4> QED
          BY <2>2, <3>1, <4>1
      <3> QED
        BY <3>2, <3>3
    <2>6. g = [m \in D |-> g[m]] /\ rhs = [m \in D |-> rhs[m]]
      OBVIOUS
    <2>7. g = rhs
      <3> HIDE DEF g, rhs, D
      <3> QED
        BY <2>5, <2>6
    <2>8. Good(g, j + 1)
      <3> HIDE DEF g
      <3> QED
        BY <2>7 DEF LeastFunction
    <2> HIDE DEF g, Good
    <2> QED
      BY <2>8
  <1> HIDE DEF T
  <1>3. Nat \subseteq T
    BY <1>1, <1>2, SetInduction
  <1> QED
    BY <1>3 DEF T

\* What makes f[n] the least number of records for the first n items: a last record
\* that fits adds one, and some last record attains it.
IsLeast(f) ==
    /\ f[0] = 0
    /\ \A n \in 0 .. Len(items) : f[n] \in Nat
    /\ \A n \in 1 .. Len(items) : \A k \in 0 .. (n - 1) : Fits(k, n) => f[n] <= 1 + f[k]
    /\ \A n \in 1 .. Len(items) : \E k \in 0 .. (n - 1) : Fits(k, n) /\ f[n] = 1 + f[k]

\* LeastRecords is a least number of records.
LEMMA LeastExists ==
    ASSUME QueueInv
    PROVE  \E f : IsLeast(f) /\ LeastRecords = f[Len(items)]
  <1> DEFINE N == Len(items)
             least[n \in 0 .. Len(items)] ==
               IF n = 0 THEN 0
               ELSE 1 + Min({least[k] : k \in {k \in 0 .. (n - 1) : Fits(k, n)}})
             Good(h) == h = [n \in 0 .. Len(items) |->
                               IF n = 0 THEN 0
                               ELSE 1 + Min({h[k] : k \in {k \in 0 .. (n - 1) : Fits(k, n)}})]
  <1>1. LeastRecords = least[Len(items)]
    BY DEF LeastRecords
  <1>2. N \in Nat
    BY DEF QueueInv
  <1>3. \E h : Good(h)
    <2>1. PICK h : LeastFunction(h, Len(items))
      BY <1>2, LeastIter
    <2>2. Good(h)
      BY <2>1 DEF LeastFunction, Starts
    <2> QED
      BY <2>2
  <1>4. least = CHOOSE h : Good(h)
    OBVIOUS
  <1> HIDE DEF Good, least
  <1>5. Good(least)
    BY <1>3, <1>4
  <1>6. LeastFunction(least, N)
    BY <1>5 DEF Good, LeastFunction, Starts
  <1> HIDE DEF N
  <1>7. ASSUME NEW n \in 0 .. N
        PROVE  least[n] = IF n = 0 THEN 0 ELSE 1 + Min({least[k] : k \in Starts(n)})
    BY <1>6 DEF LeastFunction
  <1>8. 0 \in 0 .. N /\ least[0] = 0
    <2>1. 0 \in 0 .. N
      BY <1>2
    <2> QED
      BY <1>7, <2>1
  <1>9. ASSUME NEW n \in 1 .. N
        PROVE  /\ n \in 0 .. N /\ n # 0 /\ n - 1 \in Starts(n)
               /\ \A k \in Starts(n) : k \in 0 .. (n - 1)
    <2>1. n \in 0 .. N /\ n # 0 /\ n - 1 \in 0 .. (n - 1) /\ n = (n - 1) + 1
      BY <1>2
    <2>2. Fits(n - 1, n)
      BY <2>1 DEF Fits
    <2> QED
      BY <2>1, <2>2 DEF Starts
  <1>10. ASSUME NEW n \in 1 .. N, \A k \in 0 .. (n - 1) : least[k] \in Nat
         PROVE  /\ least[n] \in Nat
                /\ \A k \in Starts(n) : least[n] <= 1 + least[k]
                /\ \E k \in Starts(n) : least[n] = 1 + least[k]
    <2> DEFINE S == {least[k] : k \in Starts(n)}
    <2>1. S \in SUBSET Nat /\ S # {}
      BY <1>9, <1>10
    <2>2. Min(S) \in S /\ \A y \in S : Min(S) <= y
      BY <2>1, MinOfNats
    <2>3. least[n] = 1 + Min(S)
      BY <1>7, <1>9
    <2>4. PICK k \in Starts(n) : Min(S) = least[k]
      BY <2>2
    <2>5. Min(S) \in Nat
      BY <2>1, <2>2
    <2>6. \A i \in Starts(n) : Min(S) <= least[i] /\ least[i] \in Nat
      BY <2>1, <2>2
    <2> HIDE DEF S
    <2> QED
      BY <2>3, <2>4, <2>5, <2>6
  <1> DEFINE T == {j \in Nat : \A n \in 0 .. N : n <= j => least[n] \in Nat}
  <1>11. 0 \in T
    <2>1. \A n \in 0 .. N : n <= 0 => n = 0
      BY <1>2
    <2> QED
      BY <1>8, <2>1
  <1>12. ASSUME NEW j \in Nat, j \in T PROVE j + 1 \in T
    <2> SUFFICES ASSUME NEW n \in 0 .. N, n <= j + 1 PROVE least[n] \in Nat
      OBVIOUS
    <2>1. CASE n <= j
      BY <1>12, <2>1
    <2>2. CASE ~(n <= j)
      <3>1. n \in 1 .. N /\ \A k \in 0 .. (n - 1) : k \in 0 .. N /\ k <= j
        BY <1>2, <2>2
      <3>2. \A k \in 0 .. (n - 1) : least[k] \in Nat
        BY <1>12, <3>1
      <3> QED
        BY <1>10, <3>1, <3>2
    <2> QED
      BY <2>1, <2>2
  <1> HIDE DEF T
  <1>13. Nat \subseteq T
    BY <1>11, <1>12, SetInduction
  <1>14. \A n \in 0 .. N : least[n] \in Nat
    <2>1. N \in T
      BY <1>2, <1>13
    <2>2. \A n \in 0 .. N : n <= N
      BY <1>2
    <2> QED
      BY <2>1, <2>2 DEF T
  <1>15. ASSUME NEW n \in 1 .. N
         PROVE  /\ \A k \in 0 .. (n - 1) : Fits(k, n) => least[n] <= 1 + least[k]
                /\ \E k \in 0 .. (n - 1) : Fits(k, n) /\ least[n] = 1 + least[k]
    <2>1. \A k \in 0 .. (n - 1) : k \in 0 .. N
      BY <1>2
    <2>2. \A k \in 0 .. (n - 1) : least[k] \in Nat
      BY <1>14, <2>1
    <2>3. /\ \A k \in Starts(n) : least[n] <= 1 + least[k]
          /\ \E k \in Starts(n) : least[n] = 1 + least[k]
      BY <1>10, <2>2
    <2> QED
      BY <2>3 DEF Starts
  <1>16. IsLeast(least)
    BY <1>8, <1>14, <1>15 DEF IsLeast, N
  <1> QED
    BY <1>1, <1>16

-----------------------------------------------------------------------------
(***************************************************************************)
(* The greedy packing attains it.                                          *)
(***************************************************************************)

\* What the loop has after n items, with R records written and the items after the
\* s-th in the batch: it is as good as any packing, at s and at each item of the
\* batch, and a packing that is behind at an earlier item cannot make it up by
\* a record that reaches past s.
Greedy(f, s, R, n) ==
    /\ s \in 0 .. n /\ R \in Nat /\ n \in 0 .. Len(items)
    /\ f[s] = R
    /\ \A k \in (s + 1) .. n : f[k] = R + 1
    /\ \A k \in 0 .. (s - 1) : f[k] >= R \/ \A m \in (s + 1) .. Len(items) : ~Fits(k, m)

\* Bounds on the least number of records for the first n items.
LEMMA LeastBounds ==
    ASSUME QueueInv, NEW f, IsLeast(f), NEW n \in 1 .. Len(items), NEW B \in Nat,
           \A k \in 0 .. (n - 1) : Fits(k, n) => f[k] >= B,
           \E k \in 0 .. (n - 1) : Fits(k, n) /\ f[k] = B
    PROVE  f[n] = B + 1
  <1>1. PICK i \in 0 .. (n - 1) : Fits(i, n) /\ f[i] = B
    OBVIOUS
  <1>2. f[n] <= 1 + f[i]
    BY <1>1 DEF IsLeast
  <1>3. PICK j \in 0 .. (n - 1) : Fits(j, n) /\ f[n] = 1 + f[j]
    BY DEF IsLeast
  <1>4. f[j] >= B
    BY <1>3
  <1>5. j \in 0 .. Len(items) /\ Len(items) \in Nat
    BY DEF QueueInv
  <1>6. f[j] \in Nat
    BY <1>5 DEF IsLeast
  <1> QED
    BY <1>1, <1>2, <1>3, <1>4, <1>6

\* Too many bytes for a record, and for every longer run.
LEMMA FitsNot ==
    ASSUME QueueInv, NEW s \in Nat, NEW n \in Nat, s <= n, n <= Len(items),
           Span(s, n) > MaxRecordPlaintext,
           NEW k \in Nat, NEW m \in Nat, k <= s, n <= m, m <= Len(items), m # k + 1
    PROVE  ~Fits(k, m)
  <1>1. Span(s, n) <= Span(k, m) /\ Span(s, n) \in Nat
    BY SpanWithin
  <1>2. Span(k, m) \in Nat
    <2>1. k <= m
      OBVIOUS
    <2> QED
      BY <2>1, SpanLens
  <1>3. MaxRecordPlaintext \in Nat
    BY CodecConstants
  <1>4. ~(Span(k, m) <= MaxRecordPlaintext)
    BY <1>1, <1>2, <1>3
  <1> QED
    BY <1>4 DEF Fits

\* The next item joins the batch.
LEMMA GreedyJoin ==
    ASSUME QueueInv, NEW f, IsLeast(f), NEW s, NEW R, NEW n, Greedy(f, s, R, n),
           n + 1 <= Len(items), Span(s, n + 1) <= MaxRecordPlaintext
    PROVE  Greedy(f, s, R, n + 1)
  <1>1. /\ s \in Nat /\ s <= n /\ n \in Nat /\ R \in Nat /\ Len(items) \in Nat
        /\ n + 1 \in 1 .. Len(items) /\ s \in 0 .. (n + 1) /\ n + 1 \in 0 .. Len(items)
        /\ n + 1 \in (s + 1) .. Len(items)
    BY DEF Greedy, QueueInv
  <1>2. /\ f[s] = R
        /\ \A k \in (s + 1) .. n : f[k] = R + 1
        /\ \A k \in 0 .. (s - 1) : f[k] >= R \/ \A m \in (s + 1) .. Len(items) : ~Fits(k, m)
    BY DEF Greedy
  <1>3. Fits(s, n + 1) /\ s \in 0 .. ((n + 1) - 1)
    BY <1>1 DEF Fits
  <1>4. ASSUME NEW k \in 0 .. ((n + 1) - 1), Fits(k, n + 1) PROVE f[k] >= R
    <2>1. k \in 0 .. (s - 1) \/ k = s \/ k \in (s + 1) .. n
      BY <1>1
    <2>2. CASE k \in 0 .. (s - 1)
      BY <1>1, <1>2, <1>4, <2>2
    <2>3. CASE k = s
      BY <1>1, <1>2, <2>3
    <2>4. CASE k \in (s + 1) .. n
      <3>1. f[k] = R + 1
        BY <1>2, <2>4
      <3> QED
        BY <1>1, <3>1
    <2> QED
      BY <2>1, <2>2, <2>3, <2>4
  <1>5. f[n + 1] = R + 1
    <2>1. \E k \in 0 .. ((n + 1) - 1) : Fits(k, n + 1) /\ f[k] = R
      BY <1>2, <1>3
    <2> QED
      BY <1>1, <1>4, <2>1, LeastBounds
  <1>6. \A k \in (s + 1) .. (n + 1) : f[k] = R + 1
    <2>1. \A k \in (s + 1) .. (n + 1) : k \in (s + 1) .. n \/ k = n + 1
      BY <1>1
    <2> QED
      BY <1>2, <1>5, <2>1
  <1> QED
    BY <1>1, <1>2, <1>6 DEF Greedy

\* The next item opens a batch, because the one there has no room for it.
LEMMA GreedyOpen ==
    ASSUME QueueInv, NEW f, IsLeast(f), NEW s, NEW R, NEW n, Greedy(f, s, R, n), s < n,
           n + 1 <= Len(items), Span(s, n + 1) > MaxRecordPlaintext
    PROVE  Greedy(f, n, R + 1, n + 1)
  <1>1. /\ s \in Nat /\ s <= n /\ n \in Nat /\ R \in Nat /\ R + 1 \in Nat /\ Len(items) \in Nat
        /\ n + 1 \in 1 .. Len(items) /\ n \in 0 .. (n + 1) /\ n + 1 \in 0 .. Len(items)
        /\ n \in (s + 1) .. n /\ n + 1 \in Nat /\ s <= n + 1
    BY DEF Greedy, QueueInv
  <1>2. \A k \in (s + 1) .. n : f[k] = R + 1
    BY DEF Greedy
  <1>3. f[n] = R + 1
    BY <1>1, <1>2
  <1>4. Fits(n, n + 1) /\ n \in 0 .. ((n + 1) - 1)
    BY <1>1 DEF Fits
  <1>5. ASSUME NEW k \in 0 .. s, NEW m \in (n + 1) .. Len(items) PROVE ~Fits(k, m)
    <2>1. k \in Nat /\ m \in Nat /\ k <= s /\ n + 1 <= m /\ m <= Len(items) /\ m # k + 1
      BY <1>1
    <2> QED
      BY <1>1, <2>1, FitsNot
  <1>6. ASSUME NEW k \in 0 .. ((n + 1) - 1), Fits(k, n + 1) PROVE f[k] >= R + 1
    <2>1. k \in 0 .. s \/ k \in (s + 1) .. n
      BY <1>1
    <2>2. n + 1 \in (n + 1) .. Len(items)
      BY <1>1
    <2>3. f[k] = R + 1
      BY <1>2, <1>5, <1>6, <2>1, <2>2
    <2> QED
      BY <1>1, <2>3
  <1>7. f[n + 1] = (R + 1) + 1
    <2>1. \E k \in 0 .. ((n + 1) - 1) : Fits(k, n + 1) /\ f[k] = R + 1
      BY <1>3, <1>4
    <2> QED
      BY <1>1, <1>6, <2>1, LeastBounds
  <1>8. \A k \in (n + 1) .. (n + 1) : f[k] = (R + 1) + 1
    <2>1. \A k \in (n + 1) .. (n + 1) : k = n + 1
      BY <1>1
    <2> QED
      BY <1>7, <2>1
  <1>9. ASSUME NEW k \in 0 .. (n - 1)
        PROVE  f[k] >= R + 1 \/ \A m \in (n + 1) .. Len(items) : ~Fits(k, m)
    <2>1. CASE k \in 0 .. s
      BY <1>5, <2>1
    <2>2. CASE k \notin 0 .. s
      <3>1. k \in (s + 1) .. n
        BY <1>1, <2>2
      <3>2. f[k] = R + 1
        BY <1>2, <3>1
      <3> QED
        BY <1>1, <3>2
    <2> QED
      BY <2>1, <2>2
  <1> QED
    BY <1>1, <1>3, <1>8, <1>9 DEF Greedy

\* The next item is oversized: the batch is flushed, if there is one, and the item
\* gets a record of its own.
LEMMA GreedyAlone ==
    ASSUME QueueInv, NEW f, IsLeast(f), NEW s, NEW R, NEW n, Greedy(f, s, R, n),
           n + 1 <= Len(items), Need(n + 1) > MaxRecordPlaintext,
           NEW Q, Q = IF s < n THEN R + 1 ELSE R
    PROVE  Greedy(f, n + 1, Q + 1, n + 1)
  <1>1. /\ s \in Nat /\ s <= n /\ n \in Nat /\ R \in Nat /\ Q \in Nat /\ Len(items) \in Nat
        /\ n + 1 \in 1 .. Len(items) /\ n + 1 \in 0 .. (n + 1) /\ n + 1 \in 0 .. Len(items)
        /\ n + 1 \in Nat /\ n <= n + 1 /\ Q + 1 \in Nat
    BY DEF Greedy, QueueInv
  <1>2. f[n] = Q
    <2>1. f[s] = R /\ \A k \in (s + 1) .. n : f[k] = R + 1
      BY DEF Greedy
    <2>2. CASE s < n
      <3>1. n \in (s + 1) .. n
        BY <1>1, <2>2
      <3> QED
        BY <2>1, <2>2, <3>1
    <2>3. CASE ~(s < n)
      <3>1. s = n
        BY <1>1, <2>3
      <3> QED
        BY <2>1, <2>3, <3>1
    <2> QED
      BY <2>2, <2>3
  <1>3. Fits(n, n + 1) /\ n \in 0 .. ((n + 1) - 1)
    BY <1>1 DEF Fits
  <1>4. Span(n, n + 1) > MaxRecordPlaintext
    BY <1>1, SpanOne
  <1>5. ASSUME NEW k \in 0 .. n, NEW m \in (n + 1) .. Len(items), m # k + 1 PROVE ~Fits(k, m)
    <2>1. k \in Nat /\ m \in Nat /\ k <= n /\ n + 1 <= m /\ m <= Len(items)
      BY <1>1
    <2> QED
      BY <1>1, <1>4, <1>5, <2>1, FitsNot
  <1>6. ASSUME NEW k \in 0 .. ((n + 1) - 1), Fits(k, n + 1) PROVE f[k] >= Q
    <2>1. k \in 0 .. n /\ n + 1 \in (n + 1) .. Len(items) /\ (n + 1 = k + 1 => k = n)
      BY <1>1
    <2>2. k = n
      BY <1>5, <1>6, <2>1
    <2> QED
      BY <1>1, <1>2, <2>2
  <1>7. f[n + 1] = Q + 1
    <2>1. \E k \in 0 .. ((n + 1) - 1) : Fits(k, n + 1) /\ f[k] = Q
      BY <1>2, <1>3
    <2> QED
      BY <1>1, <1>6, <2>1, LeastBounds
  <1>8. \A k \in ((n + 1) + 1) .. (n + 1) : f[k] = (Q + 1) + 1
    <2>1. \A k \in ((n + 1) + 1) .. (n + 1) : FALSE
      BY <1>1
    <2> QED
      BY <2>1
  <1>9. ASSUME NEW k \in 0 .. ((n + 1) - 1), NEW m \in ((n + 1) + 1) .. Len(items)
        PROVE  ~Fits(k, m)
    <2>1. k \in 0 .. n /\ m \in (n + 1) .. Len(items) /\ m # k + 1
      BY <1>1
    <2> QED
      BY <1>5, <2>1
  <1> QED
    BY <1>1, <1>7, <1>8, <1>9 DEF Greedy

\* The records and the batch that a flush leaves.
LEMMA FlushedSizes ==
    ASSUME QueueInv, NEW n \in Nat, NEW acc, PackInv(shaper, items, 0, acc, n)
    PROVE  LET flushed == Flushed(shaper, acc)
               R       == Len(acc.records)
           IN  /\ R \in Nat /\ Len(acc.batch) \in Nat /\ Len(flushed.records) \in Nat
               /\ flushed.records \in Seq(Plaintexts) /\ flushed.batch = <<>>
               /\ flushed \in [records : Seq(Plaintexts), batch : Seq(Items), batch_len : Nat]
               /\ Len(flushed.records) = IF Len(acc.batch) # 0 THEN R + 1 ELSE R
  <1> DEFINE flushed == Flushed(shaper, acc)
             R == Len(acc.records)
             plaintext == FlushShaped(shaper, acc.batch, acc.batch_len)
  <1>1. acc.records \in Seq(Plaintexts) /\ acc.batch \in Seq(Items)
    BY DEF PackInv
  <1>2. R \in Nat /\ Len(acc.batch) \in Nat
    BY <1>1
  <1>3. PackInv(shaper, items, 0, flushed, n) /\ flushed.batch = <<>>
    BY FlushKeeps DEF QueueInv
  <1>4. /\ flushed \in [records : Seq(Plaintexts), batch : Seq(Items), batch_len : Nat]
        /\ flushed.records \in Seq(Plaintexts)
    <2> HIDE DEF flushed
    <2> QED
      BY <1>3 DEF PackInv
  <1>5. Len(flushed.records) \in Nat
    <2> HIDE DEF flushed
    <2> QED
      BY <1>4
  <1>6. Len(flushed.records) = IF Len(acc.batch) # 0 THEN R + 1 ELSE R
    <2>1. CASE acc.batch = <<>>
      <3>1. flushed = acc /\ Len(acc.batch) = 0
        BY <2>1 DEF Flushed
      <3> QED
        BY <3>1
    <2>2. CASE acc.batch # <<>>
      <3>1. flushed = [records |-> Append(acc.records, plaintext), batch |-> <<>>, batch_len |-> 0]
        BY <2>2 DEF Flushed
      <3>2. Len(acc.batch) # 0
        BY <1>1, <2>2
      <3> HIDE DEF plaintext
      <3>3. flushed.records = Append(acc.records, plaintext)
        BY <3>1
      <3>4. Len(Append(acc.records, plaintext)) = R + 1
        BY <1>1
      <3> HIDE DEF flushed, R
      <3> QED
        BY <3>2, <3>3, <3>4
    <2> QED
      BY <2>1, <2>2
  <1> QED
    BY <1>2, <1>3, <1>4, <1>5, <1>6

\* One turn of the loop stays as good as any packing.
LEMMA TurnGreedy ==
    ASSUME QueueInv, NEW f, IsLeast(f), NEW n \in Nat, n + 1 <= Len(items),
           NEW acc, PackInv(shaper, items, 0, acc, n),
           Greedy(f, n - Len(acc.batch), Len(acc.records), n)
    PROVE  LET after == PackItem(shaper, acc, items[n + 1])
           IN  Greedy(f, (n + 1) - Len(after.batch), Len(after.records), n + 1)
  <1> DEFINE item == items[n + 1]
             need == WireLen(item.len, 0)
             flush == need > MaxRecordPlaintext \/ acc.batch_len + need > MaxRecordPlaintext
             flushed == Flushed(shaper, acc)
             room == IF flush THEN flushed ELSE acc
             after == PackItem(shaper, acc, item)
             b == Len(acc.batch)
             s == n - b
             R == Len(acc.records)
  <1>1. after = IF need > MaxRecordPlaintext
                THEN [room EXCEPT !.records = Append(@, FlushRecord(<<item>>, 0))]
                ELSE [room EXCEPT !.batch = Append(@, item), !.batch_len = @ + need]
    BY DEF PackItem
  <1>2. need = Need(n + 1) /\ Span(n, n + 1) = need /\ need \in Nat
    <2>1. need = Need(n + 1)
      BY DEF Need
    <2> HIDE DEF need
    <2> QED
      BY <2>1, SpanOne
  <1>3. /\ R \in Nat /\ b \in Nat /\ Len(flushed.records) \in Nat
        /\ flushed.records \in Seq(Plaintexts) /\ flushed.batch = <<>>
        /\ flushed \in [records : Seq(Plaintexts), batch : Seq(Items), batch_len : Nat]
        /\ Len(flushed.records) = IF b # 0 THEN R + 1 ELSE R
    BY FlushedSizes
  <1>4. /\ acc \in [records : Seq(Plaintexts), batch : Seq(Items), batch_len : Nat]
        /\ acc.records \in Seq(Plaintexts) /\ acc.batch \in Seq(Items) /\ acc.batch_len \in Nat
    BY DEF PackInv
  <1>5. s \in Nat /\ s <= n /\ n <= Len(items) /\ Span(s, n) = acc.batch_len
    BY SpanOfBatch
  <1>6. Span(s, n + 1) = acc.batch_len + need
    <2>1. n <= n + 1 /\ n + 1 \in Nat
      OBVIOUS
    <2> HIDE DEF s, need
    <2> QED
      BY <1>2, <1>5, <2>1, SpanSplit
  <1>7. Greedy(f, s, R, n)
    OBVIOUS
  <1>8. item \in Items
    <2>1. n + 1 \in 1 .. Len(items)
      BY DEF QueueInv
    <2> QED
      BY <2>1 DEF QueueInv
  <1>9. MaxRecordPlaintext \in Nat
    BY CodecConstants
  <1>10. s < n <=> b # 0
    BY <1>3
  <1> HIDE DEF item, need, flushed, after, s, R
  <1>11. CASE need > MaxRecordPlaintext
    <2> DEFINE p == FlushRecord(<<item>>, 0)
               Q == Len(flushed.records)
    <2>1. after = [flushed EXCEPT !.records = Append(@, p)]
      BY <1>1, <1>11
    <2> HIDE DEF p
    <2>2. after.records = Append(flushed.records, p) /\ after.batch = <<>>
      BY <1>3, <2>1
    <2>3. Len(after.records) = Q + 1 /\ (n + 1) - Len(after.batch) = n + 1
      <3>1. Len(Append(flushed.records, p)) = Q + 1
        BY <1>3
      <3>2. Len(after.batch) = 0
        BY <2>2
      <3> HIDE DEF Q
      <3> QED
        BY <2>2, <3>1, <3>2
    <2>4. Q = IF s < n THEN R + 1 ELSE R
      BY <1>3, <1>10
    <2> HIDE DEF Q
    <2>5. Greedy(f, n + 1, Q + 1, n + 1)
      BY <1>2, <1>7, <1>11, <2>4, GreedyAlone
    <2> QED
      BY <2>3, <2>5 DEF after, item
  <1>12. CASE ~(need > MaxRecordPlaintext)
    <2>1. after = [room EXCEPT !.batch = Append(@, item), !.batch_len = @ + need]
      BY <1>1, <1>12
    <2>2. CASE acc.batch_len + need > MaxRecordPlaintext
      <3>1. after = [flushed EXCEPT !.batch = Append(@, item), !.batch_len = @ + need]
        BY <2>1, <2>2
      <3>2. after.records = flushed.records /\ after.batch = Append(<<>>, item)
        BY <1>3, <3>1
      <3>3. Len(after.batch) = 1
        BY <3>2
      <3>4. b # 0
        <4>1. CASE b = 0
          <5>1. acc.batch = <<>>
            BY <1>4, <4>1
          <5>2. acc.batch_len = 0
            BY <5>1, BareEmpty DEF PackInv
          <5> QED
            BY <1>2, <1>9, <1>12, <2>2, <5>2
        <4> QED
          BY <4>1
      <3>5. s < n /\ Len(after.records) = R + 1 /\ (n + 1) - Len(after.batch) = n
        BY <1>3, <1>10, <3>2, <3>3, <3>4
      <3>6. Greedy(f, n, R + 1, n + 1)
        <4>1. Span(s, n + 1) > MaxRecordPlaintext
          BY <1>6, <2>2
        <4> QED
          BY <1>7, <3>5, <4>1, GreedyOpen
      <3> QED
        BY <3>5, <3>6 DEF after, item
    <2>3. CASE ~(acc.batch_len + need > MaxRecordPlaintext)
      <3>1. after = [acc EXCEPT !.batch = Append(@, item), !.batch_len = @ + need]
        BY <1>12, <2>1, <2>3
      <3>2. after.records = acc.records /\ after.batch = Append(acc.batch, item)
        BY <1>4, <3>1
      <3>3. Len(after.batch) = b + 1
        BY <1>4, <1>8, <3>2
      <3>4. Len(after.records) = R /\ (n + 1) - Len(after.batch) = s
        BY <1>3, <3>2, <3>3 DEF R, s
      <3>5. Span(s, n + 1) <= MaxRecordPlaintext
        BY <1>2, <1>4, <1>6, <1>9, <2>3
      <3>6. Greedy(f, s, R, n + 1)
        BY <1>7, <3>5, GreedyJoin
      <3> QED
        BY <3>4, <3>6 DEF after, item
    <2> QED
      BY <2>2, <2>3
  <1> QED
    BY <1>11, <1>12

\* encode_batch packs its frames into the least number of TLS records that keeps
\* their order: no choice of where the records end needs fewer than filling each
\* one as far as it goes, oversized frames included.
THEOREM PackingAlwaysMinimal == Spec => []PackingMinimal
  <1>1. ASSUME QueueInv PROVE PackingMinimal
    <2> DEFINE n == Len(items)
               At(acc, k) == /\ PackInv(shaper, items, 0, acc, k)
                             /\ \A f : IsLeast(f) => Greedy(f, k - Len(acc.batch), Len(acc.records), k)
    <2>1. n \in Nat /\ DOMAIN items = 1 .. n /\ shaper \in Shapers /\ items \in Seq(Items)
          /\ Numbered(items, 0)
      BY <1>1 DEF QueueInv
    <2> HIDE DEF n
    <2>2. PICK v : PackTurns(v, shaper, items, n)
      BY <2>1, PackTrace
    <2>3. /\ v[0] = NoBatch
          /\ \A k \in 1 .. n : v[k] = PackItem(shaper, v[k - 1], items[k])
          /\ EncodeBatch(shaper, items) = Flushed(shaper, v[n]).records
      BY <2>2 DEF PackTurns
    <2> DEFINE T == {k \in Nat : k <= n => At(v[k], k)}
    <2>4. 0 \in T
      <3>1. PackInv(shaper, items, 0, NoBatch, 0)
        BY <2>1, PackStart
      <3>2. ASSUME NEW f, IsLeast(f) PROVE Greedy(f, 0, 0, 0)
        <4>1. /\ f[0] = 0 /\ 0 \in 0 .. 0 /\ 0 \in 0 .. Len(items)
              /\ (\A k \in (0 + 1) .. 0 : FALSE) /\ (\A k \in 0 .. (0 - 1) : FALSE)
          BY <2>1, <3>2 DEF IsLeast, n
        <4> QED
          BY <4>1 DEF Greedy
      <3>3. 0 - Len(NoBatch.batch) = 0 /\ Len(NoBatch.records) = 0
        <4>1. NoBatch.batch = <<>> /\ NoBatch.records = <<>> /\ Len(<<>>) = 0 /\ 0 - 0 = 0
          BY DEF NoBatch
        <4> QED
          BY <4>1
      <3>4. At(NoBatch, 0)
        BY <3>1, <3>2, <3>3
      <3> HIDE DEF At
      <3> QED
        BY <2>3, <3>4
    <2>5. ASSUME NEW k \in Nat, k \in T PROVE k + 1 \in T
      <3> SUFFICES ASSUME k + 1 <= n PROVE At(v[k + 1], k + 1)
        <4> HIDE DEF At
        <4> QED
          OBVIOUS
      <3>1. k <= n /\ k + 1 \in 1 .. n /\ (k + 1) - 1 = k
        BY <2>1
      <3> DEFINE acc == v[k]
                 after == v[k + 1]
      <3>2. At(acc, k) /\ after = PackItem(shaper, acc, items[k + 1])
        BY <2>3, <2>5, <3>1
      <3> HIDE DEF acc, after
      <3>3. k + 1 <= Len(items)
        BY DEF n
      <3>4. PackInv(shaper, items, 0, after, k + 1)
        BY <2>1, <3>2, <3>3, TurnKeeps
      <3>5. ASSUME NEW f, IsLeast(f)
            PROVE  Greedy(f, (k + 1) - Len(after.batch), Len(after.records), k + 1)
        <4>1. PackInv(shaper, items, 0, acc, k) /\ Greedy(f, k - Len(acc.batch), Len(acc.records), k)
          BY <3>2, <3>5
        <4> QED
          BY <1>1, <3>2, <3>3, <3>5, <4>1, TurnGreedy
      <3> QED
        BY <3>4, <3>5 DEF after
    <2> HIDE DEF T
    <2>6. Nat \subseteq T
      BY <2>4, <2>5, SetInduction
    <2> DEFINE acc == v[n]
               R == Len(acc.records)
               s == n - Len(acc.batch)
               flushed == Flushed(shaper, acc)
    <2>7. At(acc, n)
      BY <2>1, <2>6 DEF T
    <2> HIDE DEF acc
    <2>8. PICK f : IsLeast(f) /\ LeastRecords = f[n]
      BY <1>1, LeastExists DEF n
    <2>9. /\ R \in Nat /\ Len(acc.batch) \in Nat
          /\ Len(flushed.records) = IF Len(acc.batch) # 0 THEN R + 1 ELSE R
      BY <1>1, <2>1, <2>7, FlushedSizes
    <2>10. Greedy(f, s, R, n)
      BY <2>7, <2>8
    <2> HIDE DEF R, flushed
    <2>11. s \in 0 .. n /\ f[s] = R /\ \A k \in (s + 1) .. n : f[k] = R + 1
      BY <2>10 DEF Greedy
    <2>12. f[n] = Len(flushed.records)
      <3>1. CASE Len(acc.batch) = 0
        <4>1. s = n
          BY <2>1, <3>1
        <4> QED
          BY <2>9, <2>11, <3>1, <4>1
      <3>2. CASE Len(acc.batch) # 0
        <4>1. n \in (s + 1) .. n
          BY <2>1, <2>9, <2>11, <3>2
        <4> QED
          BY <2>9, <2>11, <3>2, <4>1
      <3> QED
        BY <3>1, <3>2
    <2> QED
      BY <2>3, <2>8, <2>12 DEF PackingMinimal, flushed, acc
  <1> QED
    BY <1>1, QueueInvariant, PTL

=============================================================================
