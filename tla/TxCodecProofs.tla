---------------------------- MODULE TxCodecProofs ---------------------------
(***************************************************************************)
(* What the operators of TxCodec compute, for every sequence of frames:    *)
(* sums of lengths, the boundary a record is padded to, and the records    *)
(* encode_batch makes of its frames.                                       *)
(*                                                                         *)
(* The loops of the code are folds, and a fold is a recursive function of  *)
(* which it must first be shown that it exists.  SumTrace and PackTrace do *)
(* so: they give the sequence of values the loop variable takes, after     *)
(* which everything is induction over the turns of the loop.               *)
(***************************************************************************)
EXTENDS TxCodec, WellFoundedInduction, TLAPS

-----------------------------------------------------------------------------
(***************************************************************************)
(* Induction and folds.                                                    *)
(***************************************************************************)

\* A set of natural numbers that is not empty has a least element.
LEMMA LeastElement ==
    ASSUME NEW T \in SUBSET Nat, T # {}
    PROVE  \E x \in T : \A y \in T : x <= y
  <1> DEFINE R == OpToRel(<, Nat)
  <1>1. IsWellFoundedOn(R, Nat)
    BY NatLessThanWellFounded
  <1>2. \A x, y \in Nat : <<x, y>> \in R <=> x < y
    BY DEF OpToRel
  <1> HIDE DEF R
  <1>3. PICK x \in T : \A y \in T : ~(<<y, x>> \in R)
    BY <1>1, WFMin
  <1>4. ASSUME NEW y \in T PROVE x <= y
    <2>1. x \in Nat /\ y \in Nat /\ ~(<<y, x>> \in R)
      BY <1>3
    <2>2. ~(y < x)
      BY <1>2, <2>1
    <2> QED
      BY <2>1, <2>2
  <1> QED
    BY <1>4

\* Induction over the natural numbers, with a set in place of a predicate.
LEMMA SetInduction ==
    ASSUME NEW T, 0 \in T, \A n \in Nat : n \in T => n + 1 \in T
    PROVE  Nat \subseteq T
  <1> SUFFICES ASSUME NEW m \in Nat, m \notin T PROVE FALSE
    OBVIOUS
  <1> DEFINE B == {n \in Nat : n \notin T}
  <1>1. B \in SUBSET Nat /\ B # {}
    OBVIOUS
  <1>2. PICK x \in B : \A y \in B : x <= y
    BY <1>1, LeastElement
  <1>3. x # 0 /\ x \in Nat
    OBVIOUS
  <1>4. x - 1 \in Nat /\ x - 1 \notin B
    BY <1>2, <1>3
  <1>5. x - 1 \in T
    BY <1>4
  <1> QED
    BY <1>3, <1>4, <1>5

\* The greatest element of a set that holds its upper bound.
LEMMA MaxOfSet ==
    ASSUME NEW n \in Nat, NEW s \in SUBSET (1 .. (n + 1)), n + 1 \in s
    PROVE  Max(s) = n + 1
  <1>1. \A y \in s : n + 1 >= y
    OBVIOUS
  <1>2. Max(s) \in s /\ \A y \in s : Max(s) >= y
    BY <1>1, Zenon DEF Max
  <1>3. Max(s) \in 1 .. (n + 1)
    BY <1>2
  <1>4. Max(s) >= n + 1
    BY <1>2
  <1> QED
    BY <1>3, <1>4

\* The function the sum of a sequence is computed with exists.
LEMMA SumIter ==
    ASSUME NEW seq, NEW n \in Nat
    PROVE  \E h : h = [s \in SUBSET (1 .. n) |->
                         IF s = {} THEN 0 ELSE h[s \ {Max(s)}] + seq[Max(s)]]
  <1> DEFINE D(k) == SUBSET (1 .. k)
             Good(h, k) == h = [s \in D(k) |->
                         IF s = {} THEN 0 ELSE h[s \ {Max(s)}] + seq[Max(s)]]
             T == {k \in Nat : \E h : Good(h, k)}
  <1>1. 0 \in T
    <2>1. D(0) = {{}}
      OBVIOUS
    <2>2. Good([s \in D(0) |-> 0], 0)
      BY <2>1
    <2> QED
      BY <2>2
  <1>2. ASSUME NEW k \in Nat, k \in T PROVE k + 1 \in T
    <2>1. PICK h : Good(h, k)
      BY <1>2
    <2> DEFINE g == [s \in D(k + 1) |-> IF s = {} THEN 0
                        ELSE IF k + 1 \in s THEN h[s \ {k + 1}] + seq[k + 1] ELSE h[s]]
    <2>2. {} \in D(k) /\ h[{}] = 0
      BY <2>1
    <2>3. ASSUME NEW s \in D(k + 1), s # {}
          PROVE  g[s] = g[s \ {Max(s)}] + seq[Max(s)]
      <3>1. CASE k + 1 \in s
        <4>1. Max(s) = k + 1
          BY <3>1, MaxOfSet
        <4>2. s \ {k + 1} \in D(k) /\ s \ {k + 1} \in D(k + 1)
          OBVIOUS
        <4>3. g[s \ {k + 1}] = h[s \ {k + 1}]
          BY <2>2, <4>2
        <4> QED
          BY <3>1, <4>1, <4>3
      <3>2. CASE k + 1 \notin s
        <4>1. \A x \in s : x \in 1 .. k
          BY <3>2
        <4>2. s \in D(k) /\ s \ {Max(s)} \in D(k) /\ s \ {Max(s)} \in D(k + 1)
          BY <4>1
        <4>3. g[s] = h[s]
          BY <2>3, <3>2
        <4>4. g[s \ {Max(s)}] = h[s \ {Max(s)}]
          <5>1. CASE s \ {Max(s)} = {}
            BY <2>2, <4>2, <5>1
          <5>2. CASE s \ {Max(s)} # {}
            <6>1. k + 1 \notin s \ {Max(s)}
              BY <3>2
            <6> QED
              BY <4>2, <5>2, <6>1
          <5> QED
            BY <5>1, <5>2
        <4>5. h[s] = h[s \ {Max(s)}] + seq[Max(s)]
          BY <2>1, <2>3, <4>2
        <4> QED
          BY <4>3, <4>4, <4>5
      <3> QED
        BY <3>1, <3>2
    <2>4. g[{}] = 0
      OBVIOUS
    <2>5. Good(g, k + 1)
      <3> DEFINE rhs == [s \in D(k + 1) |-> IF s = {} THEN 0 ELSE g[s \ {Max(s)}] + seq[Max(s)]]
      <3>1. \A s \in D(k + 1) : rhs[s] = g[s]
        BY <2>3, <2>4
      <3>2. g = [s \in D(k + 1) |-> g[s]] /\ rhs = [s \in D(k + 1) |-> rhs[s]]
        OBVIOUS
      <3> HIDE DEF g, rhs
      <3>3. g = rhs
        BY <3>1, <3>2
      <3> QED
        BY <3>3 DEF rhs
    <2> HIDE DEF g, Good
    <2> QED
      BY <2>5
  <1> HIDE DEF T
  <1>3. Nat \subseteq T
    BY <1>1, <1>2, SetInduction
  <1> QED
    BY <1>3 DEF T

\* The partial sums of a sequence, the last of which is its sum.
LEMMA SumTrace ==
    ASSUME NEW seq, NEW n \in Nat, DOMAIN seq = 1 .. n
    PROVE  \E v : /\ v[0] = 0 /\ \A k \in 1 .. n : v[k] = v[k - 1] + seq[k]
                  /\ SumSeq(seq) = v[n]
  <1> DEFINE iter[s \in SUBSET (DOMAIN seq)] == IF s = {} THEN 0 ELSE iter[s \ {Max(s)}] + seq[Max(s)]
  <1>1. SumSeq(seq) = iter[DOMAIN seq]
    BY DEF SumSeq, FoldLeft, MapThenFoldSet
  <1>2. iter = [s \in SUBSET (1 .. n) |->
                         IF s = {} THEN 0 ELSE iter[s \ {Max(s)}] + seq[Max(s)]]
    <2> DEFINE Good(h) == h = [s \in SUBSET (DOMAIN seq) |-> IF s = {} THEN 0 ELSE h[s \ {Max(s)}] + seq[Max(s)]]
    <2>1. \E h : Good(h)
      <3>1. PICK h : h = [s \in SUBSET (1 .. n) |->
                         IF s = {} THEN 0 ELSE h[s \ {Max(s)}] + seq[Max(s)]]
        BY SumIter
      <3>2. Good(h)
        BY <3>1
      <3> QED
        BY <3>2
    <2>2. iter = CHOOSE h : Good(h)
      OBVIOUS
    <2> HIDE DEF Good, iter
    <2>3. Good(iter)
      BY <2>1, <2>2
    <2> QED
      BY <2>3 DEF Good
  <1> HIDE DEF iter
  <1> DEFINE v == [k \in 0 .. n |-> iter[1 .. k]]
  <1>3. v[0] = 0
    <2>1. 1 .. 0 = {} /\ {} \in SUBSET (1 .. n)
      OBVIOUS
    <2>2. iter[{}] = 0
      BY <1>2, <2>1
    <2> QED
      BY <2>1, <2>2
  <1>4. ASSUME NEW k \in 1 .. n PROVE v[k] = v[k - 1] + seq[k]
    <2>1. 1 .. k \in SUBSET (1 .. n) /\ 1 .. k # {} /\ Max(1 .. k) = k
      <3>1. (k - 1) \in Nat /\ (k - 1) + 1 = k /\ k \in 1 .. k
        OBVIOUS
      <3>2. 1 .. k \in SUBSET (1 .. ((k - 1) + 1))
        BY <3>1
      <3>3. Max(1 .. k) = (k - 1) + 1
        BY <3>1, <3>2, MaxOfSet
      <3> QED
        BY <3>1, <3>3
    <2>2. (1 .. k) \ {k} = 1 .. (k - 1)
      OBVIOUS
    <2>3. iter[1 .. k] = iter[(1 .. k) \ {Max(1 .. k)}] + seq[Max(1 .. k)]
      BY <1>2, <2>1
    <2>4. iter[1 .. k] = iter[1 .. (k - 1)] + seq[k]
      BY <2>1, <2>2, <2>3
    <2> QED
      BY <2>4
  <1>5. SumSeq(seq) = v[n]
    BY <1>1
  <1> HIDE DEF v
  <1> QED
    BY <1>3, <1>4, <1>5

\* A sequence of n natural numbers; one that begins like another; one that goes on
\* like another after its first m elements.
Lens(s, n) == DOMAIN s = 1 .. n /\ \A i \in 1 .. n : s[i] \in Nat

Begins(r, s, m) == \A i \in 1 .. m : r[i] = s[i]

Continues(r, t, m, n) == \A i \in 1 .. n : r[m + i] = t[i]

\* The partial sums of a sequence of natural numbers are natural numbers.
LEMMA NatTrace ==
    ASSUME NEW seq, NEW n \in Nat, Lens(seq, n)
    PROVE  \E v : /\ v[0] = 0 /\ \A k \in 1 .. n : v[k] = v[k - 1] + seq[k]
                  /\ \A k \in 0 .. n : v[k] \in Nat
                  /\ SumSeq(seq) = v[n]
  <1>1. PICK v : /\ v[0] = 0 /\ \A k \in 1 .. n : v[k] = v[k - 1] + seq[k]
                 /\ SumSeq(seq) = v[n]
    BY SumTrace DEF Lens
  <1> DEFINE T == {k \in Nat : k <= n => v[k] \in Nat}
  <1>2. 0 \in T
    BY <1>1
  <1>3. ASSUME NEW k \in Nat, k \in T PROVE k + 1 \in T
    <2>1. CASE k + 1 <= n
      <3>1. k + 1 \in 1 .. n /\ (k + 1) - 1 = k /\ v[k] \in Nat
        BY <1>3, <2>1
      <3>2. v[k + 1] = v[k] + seq[k + 1] /\ seq[k + 1] \in Nat
        BY <1>1, <3>1 DEF Lens
      <3> QED
        BY <3>1, <3>2
    <2>2. CASE ~(k + 1 <= n)
      BY <2>2
    <2> QED
      BY <2>1, <2>2
  <1> HIDE DEF T
  <1>4. Nat \subseteq T
    BY <1>2, <1>3, SetInduction
  <1>5. \A k \in 0 .. n : v[k] \in Nat
    BY <1>4 DEF T
  <1> QED
    BY <1>1, <1>5

\* A sum of natural numbers is one.
LEMMA SumNat ==
    ASSUME NEW seq, NEW n \in Nat, Lens(seq, n)
    PROVE  SumSeq(seq) \in Nat
  <1>1. PICK v : (\A k \in 0 .. n : v[k] \in Nat) /\ SumSeq(seq) = v[n]
    BY NatTrace
  <1> QED
    BY <1>1

\* The sum of a sequence is that of its first m elements and that of the rest.
LEMMA SumSplit ==
    ASSUME NEW m \in Nat, NEW n \in Nat, NEW r, NEW s, NEW t, DOMAIN r = 1 .. (m + n),
           Lens(s, m), Lens(t, n), Begins(r, s, m), Continues(r, t, m, n)
    PROVE  SumSeq(r) = SumSeq(s) + SumSeq(t) /\ Lens(r, m + n)
  <1>1. Lens(r, m + n)
    <2> SUFFICES ASSUME NEW i \in 1 .. (m + n) PROVE r[i] \in Nat
      BY DEF Lens
    <2>1. CASE i <= m
      <3>1. i \in 1 .. m
        BY <2>1
      <3> QED
        BY <3>1 DEF Lens, Begins
    <2>2. CASE ~(i <= m)
      <3>1. i - m \in 1 .. n /\ m + (i - m) = i
        BY <2>2
      <3>2. r[m + (i - m)] = t[i - m] /\ t[i - m] \in Nat
        BY <3>1 DEF Lens, Continues
      <3> QED
        BY <3>1, <3>2
    <2> QED
      BY <2>1, <2>2
  <1>2. PICK u : /\ u[0] = 0 /\ \A k \in 1 .. (m + n) : u[k] = u[k - 1] + r[k]
                 /\ \A k \in 0 .. (m + n) : u[k] \in Nat
                 /\ SumSeq(r) = u[m + n]
    <2>1. m + n \in Nat
      OBVIOUS
    <2> QED
      BY <1>1, <2>1, NatTrace
  <1>3. PICK v : /\ v[0] = 0 /\ \A k \in 1 .. m : v[k] = v[k - 1] + s[k]
                 /\ \A k \in 0 .. m : v[k] \in Nat
                 /\ SumSeq(s) = v[m]
    BY NatTrace
  <1>4. PICK w : /\ w[0] = 0 /\ \A k \in 1 .. n : w[k] = w[k - 1] + t[k]
                 /\ \A k \in 0 .. n : w[k] \in Nat
                 /\ SumSeq(t) = w[n]
    BY NatTrace
  <1>5. \A k \in Nat : k <= m => u[k] = v[k]
    <2> DEFINE T == {k \in Nat : k <= m => u[k] = v[k]}
    <2>1. 0 \in T
      BY <1>2, <1>3
    <2>2. ASSUME NEW k \in Nat, k \in T PROVE k + 1 \in T
      <3>1. CASE k + 1 <= m
        <4>1. k + 1 \in 1 .. m /\ k + 1 \in 1 .. (m + n) /\ (k + 1) - 1 = k /\ u[k] = v[k]
          BY <2>2, <3>1
        <4>2. u[k + 1] = u[k] + r[k + 1] /\ v[k + 1] = v[k] + s[k + 1] /\ r[k + 1] = s[k + 1]
          BY <1>2, <1>3, <4>1 DEF Begins
        <4> QED
          BY <4>1, <4>2
      <3>2. CASE ~(k + 1 <= m)
        BY <3>2
      <3> QED
        BY <3>1, <3>2
    <2> HIDE DEF T
    <2>3. Nat \subseteq T
      BY <2>1, <2>2, SetInduction
    <2> QED
      BY <2>3 DEF T
  <1>6. \A k \in Nat : k <= n => u[m + k] = v[m] + w[k]
    <2> DEFINE T == {k \in Nat : k <= n => u[m + k] = v[m] + w[k]}
    <2>1. 0 \in T
      <3>1. u[m] = v[m] /\ v[m] \in Nat
        BY <1>3, <1>5
      <3> QED
        BY <1>4, <3>1
    <2>2. ASSUME NEW k \in Nat, k \in T PROVE k + 1 \in T
      <3>1. CASE k + 1 <= n
        <4>1. /\ k + 1 \in 1 .. n /\ m + (k + 1) \in 1 .. (m + n)
              /\ (m + (k + 1)) - 1 = m + k /\ (k + 1) - 1 = k /\ u[m + k] = v[m] + w[k]
          BY <2>2, <3>1
        <4>2. /\ u[m + (k + 1)] = u[m + k] + r[m + (k + 1)] /\ w[k + 1] = w[k] + t[k + 1]
              /\ r[m + (k + 1)] = t[k + 1]
          BY <1>2, <1>4, <4>1 DEF Continues
        <4>3. v[m] \in Nat /\ w[k] \in Nat /\ t[k + 1] \in Nat
          BY <1>3, <1>4, <3>1, <4>1 DEF Lens
        <4> QED
          BY <4>1, <4>2, <4>3
      <3>2. CASE ~(k + 1 <= n)
        BY <3>2
      <3> QED
        BY <3>1, <3>2
    <2> HIDE DEF T
    <2>3. Nat \subseteq T
      BY <2>1, <2>2, SetInduction
    <2> QED
      BY <2>3 DEF T
  <1> QED
    BY <1>1, <1>2, <1>3, <1>4, <1>6

\* The sum of one element, and of none.
LEMMA SumShort ==
    /\ \A s : DOMAIN s = 1 .. 0 => SumSeq(s) = 0
    /\ \A s : DOMAIN s = 1 .. 1 /\ s[1] \in Nat => SumSeq(s) = s[1]
  <1>1. ASSUME NEW s, DOMAIN s = 1 .. 0 PROVE SumSeq(s) = 0
    <2>1. PICK v : v[0] = 0 /\ SumSeq(s) = v[0]
      BY <1>1, SumTrace
    <2> QED
      BY <2>1
  <1>2. ASSUME NEW s, DOMAIN s = 1 .. 1, s[1] \in Nat PROVE SumSeq(s) = s[1]
    <2>1. PICK v : /\ v[0] = 0 /\ \A k \in 1 .. 1 : v[k] = v[k - 1] + s[k]
                   /\ SumSeq(s) = v[1]
      BY <1>2, SumTrace
    <2>2. v[1] = v[1 - 1] + s[1]
      BY <2>1
    <2> QED
      BY <1>2, <2>1, <2>2
  <1> QED
    BY <1>1, <1>2

\* One element more adds its value.
LEMMA SumSnoc ==
    ASSUME NEW m \in Nat, NEW r, NEW s, DOMAIN r = 1 .. (m + 1), Lens(s, m), Begins(r, s, m),
           r[m + 1] \in Nat
    PROVE  SumSeq(r) = SumSeq(s) + r[m + 1]
  <1> DEFINE t == [i \in 1 .. 1 |-> r[m + 1]]
  <1>1. t[1] = r[m + 1] /\ SumSeq(t) = t[1]
    BY SumShort
  <1>2. Lens(t, 1) /\ Continues(r, t, m, 1)
    BY DEF Lens, Continues
  <1> HIDE DEF t
  <1>3. SumSeq(r) = SumSeq(s) + SumSeq(t)
    BY <1>2, SumSplit
  <1> QED
    BY <1>1, <1>3

\* No element of a sequence of natural numbers exceeds the sum.
LEMMA SumAtLeast ==
    ASSUME NEW seq, NEW n \in Nat, Lens(seq, n),
           NEW i \in 1 .. n
    PROVE  seq[i] <= SumSeq(seq)
  <1>1. PICK v : /\ v[0] = 0 /\ \A k \in 1 .. n : v[k] = v[k - 1] + seq[k]
                 /\ \A k \in 0 .. n : v[k] \in Nat
                 /\ SumSeq(seq) = v[n]
    BY NatTrace
  <1>2. i \in Nat /\ i <= n /\ i >= 1 /\ seq[i] \in Nat
    BY DEF Lens
  <1> DEFINE T == {k \in Nat : i <= k /\ k <= n => seq[i] <= v[k]}
  <1>3. 0 \in T
    BY <1>2
  <1>4. ASSUME NEW k \in Nat, k \in T PROVE k + 1 \in T
    <2>1. CASE i <= k + 1 /\ k + 1 <= n
      <3>1. k + 1 \in 1 .. n /\ (k + 1) - 1 = k /\ k \in 0 .. n
        BY <2>1
      <3>2. /\ v[k + 1] = v[k] + seq[k + 1] /\ v[k] \in Nat /\ seq[k + 1] \in Nat
        BY <1>1, <3>1 DEF Lens
      <3>3. CASE i <= k
        <4>1. seq[i] <= v[k]
          BY <1>4, <3>1, <3>3
        <4> QED
          BY <1>2, <3>2, <4>1
      <3>4. CASE i = k + 1
        <4>1. seq[i] = seq[k + 1]
          BY <3>4
        <4> QED
          BY <3>2, <4>1
      <3> QED
        BY <1>2, <2>1, <3>3, <3>4
    <2>2. CASE ~(i <= k + 1 /\ k + 1 <= n)
      BY <2>2
    <2> QED
      BY <2>1, <2>2
  <1> HIDE DEF T
  <1>5. Nat \subseteq T
    BY <1>3, <1>4, SetInduction
  <1>6. n \in T
    BY <1>5
  <1> QED
    BY <1>1, <1>2, <1>6 DEF T

\* The lesser and the greater of two numbers.
LEMMA PairMinMax ==
    ASSUME NEW a \in Int, NEW b \in Int
    PROVE  /\ Min({a, b}) = IF a <= b THEN a ELSE b
           /\ Max({a, b}) = IF a >= b THEN a ELSE b
  <1>1. Min({a, b}) \in {a, b} /\ \A y \in {a, b} : Min({a, b}) <= y
    <2>1. \E x \in {a, b} : \A y \in {a, b} : x <= y
      OBVIOUS
    <2> QED
      BY <2>1, Zenon DEF Min
  <1>2. Max({a, b}) \in {a, b} /\ \A y \in {a, b} : Max({a, b}) >= y
    <2>1. \E x \in {a, b} : \A y \in {a, b} : x >= y
      OBVIOUS
    <2> QED
      BY <2>1, Zenon DEF Max
  <1> QED
    BY <1>1, <1>2

-----------------------------------------------------------------------------
(***************************************************************************)
(* The boundary a record is padded to.                                     *)
(***************************************************************************)

\* The constants, as numbers.
LEMMA CodecConstants ==
    /\ MaxRecordPlaintext \in Nat /\ AeadTagLen \in Nat /\ AeadTagLen > 0
    /\ MaxRecordLen = MaxRecordPlaintext + AeadTagLen /\ MaxRecordLen \in Nat
    /\ FrameHeaderSize \in Nat /\ FrameHeaderSize > 0
    /\ LenMod \in Nat /\ MaxRecordLen < LenMod
  BY ShaperAssumption, CodecAssumption DEF MaxRecordLen

\* target_record_len, up to the ceiling: a boundary of the shaper that holds the
\* plaintext and its tag, and the least such.
THEOREM TargetIsLeastBoundary ==
    ASSUME NEW shaper \in Shapers, NEW plaintext_len \in Nat, plaintext_len <= MaxRecordPlaintext
    PROVE  LET target == TargetRecordLen(shaper, plaintext_len)
           IN  /\ target \in shaper /\ target \in Nat
               /\ plaintext_len + AeadTagLen <= target /\ target <= MaxRecordLen
               /\ \A b \in shaper : b >= plaintext_len + AeadTagLen => target <= b
  <1> DEFINE record_len == plaintext_len + AeadTagLen
             above == {b \in shaper : b >= record_len}
             target == TargetRecordLen(shaper, plaintext_len)
  <1>1. record_len \in Nat /\ record_len <= MaxRecordLen /\ MaxRecordLen \in Nat
    BY CodecConstants
  <1>2. MaxRecordLen \in shaper /\ shaper \subseteq 1 .. MaxRecordLen
    BY DEF Shapers
  <1>3. above \in SUBSET Nat /\ MaxRecordLen \in above
    <2>1. \A b \in 1 .. MaxRecordLen : b \in Nat
      BY <1>1
    <2>2. above \in SUBSET Nat
      BY <1>2, <2>1
    <2>3. MaxRecordLen >= record_len
      BY <1>1
    <2> QED
      BY <1>2, <2>2, <2>3
  <1>4. Min(above) \in above /\ \A y \in above : Min(above) <= y
    <2>1. \E x \in above : \A y \in above : x <= y
      BY <1>3, LeastElement
    <2> HIDE DEF above
    <2> QED
      BY <2>1, Zenon DEF Min
  <1>5. CASE record_len >= MaxRecordLen
    <2>1. target = record_len
      BY <1>5 DEF TargetRecordLen
    <2>2. record_len = MaxRecordLen
      BY <1>1, <1>5
    <2> HIDE DEF target
    <2> QED
      BY <1>1, <1>2, <2>1, <2>2 DEF target
  <1>6. CASE ~(record_len >= MaxRecordLen)
    <2>1. target = Min(above)
      BY <1>3, <1>6 DEF TargetRecordLen
    <2>2. target \in shaper /\ target >= record_len
      BY <1>4, <2>1
    <2>3. \A b \in shaper : b >= record_len => target <= b
      BY <1>4, <2>1
    <2>4. target \in Nat /\ target <= MaxRecordLen
      <3>1. target \in 1 .. MaxRecordLen
        BY <1>2, <2>2
      <3> HIDE DEF target
      <3> QED
        BY <1>1, <3>1
    <2> HIDE DEF target
    <2> QED
      BY <1>1, <2>2, <2>3, <2>4 DEF target
  <1> QED
    BY <1>5, <1>6

-----------------------------------------------------------------------------
(***************************************************************************)
(* Frames and records.                                                     *)
(***************************************************************************)
Types == {"data", "future", "cover"}

Items == [id : Nat, type : Types, len : Nat, step : Nat]

Frames == [id : Nat, type : Types, step : Nat, len : Nat, payload_len : Nat, padding_len : Nat]

\* The frame carries the item, with a payload_len cut to 16 bits.
Carries(frame, item) ==
    /\ frame.id = item.id /\ frame.type = item.type
    /\ frame.step = item.step /\ frame.len = item.len
    /\ frame.payload_len = item.len % LenMod

\* The bytes of frames without padding.
Bare(frames) == SumSeq([i \in DOMAIN frames |-> WireLen(frames[i].len, 0)])

\* The bytes of a frame, and of an item without padding.
LEMMA FrameSizes ==
    /\ \A f \in Frames : /\ FrameBytes(f) = FrameHeaderSize + f.len + f.padding_len
                         /\ FrameBytes(f) \in Nat /\ FrameBytes(f) > f.len
    /\ \A len \in Nat : WireLen(len, 0) = FrameHeaderSize + len /\ WireLen(len, 0) \in Nat
  <1>1. FrameHeaderSize \in Nat /\ FrameHeaderSize > 0
    BY CodecConstants
  <1>2. ASSUME NEW f \in Frames
        PROVE  /\ FrameBytes(f) = FrameHeaderSize + f.len + f.padding_len
               /\ FrameBytes(f) \in Nat /\ FrameBytes(f) > f.len
    <2>1. f.len \in Nat /\ f.padding_len \in Nat
      BY DEF Frames
    <2> QED
      BY <1>1, <2>1 DEF FrameBytes, WireLen
  <1>3. ASSUME NEW len \in Nat
        PROVE  WireLen(len, 0) = FrameHeaderSize + len /\ WireLen(len, 0) \in Nat
    BY <1>1 DEF WireLen
  <1> QED
    BY <1>2, <1>3

\* A plaintext is at least as long as any of its frames.
LEMMA PlainAtLeast ==
    ASSUME NEW plaintext \in Seq(Frames)
    PROVE  /\ PlainLen(plaintext) \in Nat
           /\ \A i \in 1 .. Len(plaintext) : FrameBytes(plaintext[i]) <= PlainLen(plaintext)
  <1> DEFINE lens == [i \in DOMAIN plaintext |-> FrameBytes(plaintext[i])]
             n == Len(plaintext)
  <1>1. n \in Nat /\ DOMAIN plaintext = 1 .. n /\ \A i \in 1 .. n : plaintext[i] \in Frames
    OBVIOUS
  <1> HIDE DEF n
  <1>2. \A i \in 1 .. n : lens[i] = FrameBytes(plaintext[i]) /\ lens[i] \in Nat
    BY <1>1, FrameSizes
  <1>3. Lens(lens, n)
    BY <1>1, <1>2 DEF Lens
  <1>4. PlainLen(plaintext) = SumSeq(lens)
    BY DEF PlainLen
  <1> HIDE DEF lens
  <1>5. SumSeq(lens) \in Nat
    BY <1>1, <1>3, SumNat
  <1>6. \A i \in 1 .. n : lens[i] <= SumSeq(lens)
    BY <1>1, <1>3, SumAtLeast
  <1> QED
    BY <1>2, <1>4, <1>5, <1>6 DEF n

\* The bytes of frames without padding are a number.
LEMMA BareNat ==
    ASSUME NEW frames \in Seq(Frames)
    PROVE  Bare(frames) \in Nat
  <1> DEFINE lens == [i \in DOMAIN frames |-> WireLen(frames[i].len, 0)]
             n == Len(frames)
  <1>1. n \in Nat /\ DOMAIN frames = 1 .. n /\ \A i \in 1 .. n : frames[i] \in Frames
    OBVIOUS
  <1> HIDE DEF n
  <1>2. \A i \in 1 .. n : frames[i].len \in Nat
    BY <1>1 DEF Frames
  <1>3. DOMAIN lens = 1 .. n /\ \A i \in 1 .. n : lens[i] \in Nat
    BY <1>1, <1>2, FrameSizes
  <1>4. Bare(frames) = SumSeq(lens)
    BY DEF Bare
  <1> HIDE DEF lens
  <1>5. Lens(lens, n)
    BY <1>3 DEF Lens
  <1> QED
    BY <1>1, <1>4, <1>5, SumNat

\* A plaintext of one frame, without its padding.
LEMMA BareOne ==
    ASSUME NEW p, DOMAIN p = 1 .. 1, p[1].len \in Nat
    PROVE  Bare(p) = WireLen(p[1].len, 0)
  <1> DEFINE lens == [i \in DOMAIN p |-> WireLen(p[i].len, 0)]
  <1>1. Bare(p) = SumSeq(lens)
    BY DEF Bare
  <1>2. DOMAIN lens = 1 .. 1 /\ lens[1] = WireLen(p[1].len, 0)
    <2>1. 1 \in 1 .. 1
      OBVIOUS
    <2> QED
      BY <2>1
  <1>3. WireLen(p[1].len, 0) \in Nat
    BY FrameSizes
  <1> HIDE DEF lens
  <1> QED
    BY <1>1, <1>2, <1>3, SumShort

\* One item more adds its bytes.
LEMMA BareAppend ==
    ASSUME NEW items \in Seq(Items), NEW item \in Items
    PROVE  /\ Bare(items) \in Nat
           /\ Bare(Append(items, item)) = Bare(items) + WireLen(item.len, 0)
  <1> DEFINE all == Append(items, item)
             n == Len(items)
             r == [i \in DOMAIN all |-> WireLen(all[i].len, 0)]
             s == [i \in DOMAIN items |-> WireLen(items[i].len, 0)]
  <1>1. /\ n \in Nat /\ DOMAIN items = 1 .. n /\ DOMAIN all = 1 .. (n + 1)
        /\ \A i \in 1 .. n : items[i] \in Items /\ all[i] = items[i]
        /\ all[n + 1] = item
    OBVIOUS
  <1>2. \A x \in Items : x.len \in Nat /\ WireLen(x.len, 0) \in Nat
    BY FrameSizes DEF Items
  <1> HIDE DEF n, all
  <1>3. DOMAIN r = 1 .. (n + 1) /\ DOMAIN s = 1 .. n
    BY <1>1
  <1>4. ASSUME NEW i \in 1 .. n PROVE s[i] \in Nat /\ r[i] = s[i]
    <2>1. i \in 1 .. (n + 1)
      BY <1>1
    <2> QED
      BY <1>1, <1>2, <2>1
  <1>5. r[n + 1] \in Nat /\ r[n + 1] = WireLen(item.len, 0)
    <2>1. n + 1 \in 1 .. (n + 1)
      BY <1>1
    <2> QED
      BY <1>1, <1>2, <2>1
  <1>6. Bare(all) = SumSeq(r) /\ Bare(items) = SumSeq(s)
    BY DEF Bare
  <1> HIDE DEF r, s
  <1>7. Lens(s, n) /\ Begins(r, s, n)
    BY <1>3, <1>4 DEF Lens, Begins
  <1>8. SumSeq(r) = SumSeq(s) + r[n + 1] /\ SumSeq(s) \in Nat
    BY <1>1, <1>3, <1>5, <1>7, SumSnoc, SumNat
  <1> QED
    BY <1>5, <1>6, <1>8 DEF all

\* flush_record: the frames carry the items in order, and the padding all goes to
\* the last.
LEMMA FlushedFrames ==
    ASSUME NEW items \in Seq(Items), items # <<>>, NEW pad \in Nat, pad < LenMod
    PROVE  LET plaintext == FlushRecord(items, pad)
               n == Len(items)
           IN  /\ plaintext \in Seq(Frames) /\ Len(plaintext) = n
               /\ \A i \in 1 .. n : Carries(plaintext[i], items[i])
               /\ \A i \in 1 .. n : plaintext[i].padding_len = IF i = n THEN pad ELSE 0
  <1> DEFINE n == Len(items)
             plaintext == FlushRecord(items, pad)
             p(i) == IF i = n THEN pad ELSE 0
  <1>1. n \in Nat /\ n # 0 /\ DOMAIN items = 1 .. n /\ \A i \in 1 .. n : items[i] \in Items
    OBVIOUS
  <1>2. plaintext = [i \in 1 .. n |-> Serialized(items[i], p(i))]
    BY <1>1 DEF FlushRecord
  <1> HIDE DEF n, plaintext
  <1>3. \A x \in Nat : x % LenMod \in Nat /\ (x < LenMod => x % LenMod = x)
    BY CodecConstants
  <1>4. ASSUME NEW i \in 1 .. n
        PROVE  /\ plaintext[i] \in Frames /\ Carries(plaintext[i], items[i])
               /\ plaintext[i].padding_len = p(i)
    <2>1. items[i] \in Items
      BY <1>1
    <2>2. p(i) \in Nat /\ p(i) < LenMod
      BY CodecConstants
    <2>3. /\ items[i].id \in Nat /\ items[i].type \in Types /\ items[i].step \in Nat
          /\ items[i].len \in Nat
      BY <2>1 DEF Items
    <2> HIDE DEF p
    <2>4. p(i) % LenMod = p(i) /\ items[i].len % LenMod \in Nat
      BY <1>3, <2>2, <2>3
    <2>5. plaintext[i] = [id |-> items[i].id, type |-> items[i].type, step |-> items[i].step,
                          len |-> items[i].len, payload_len |-> items[i].len % LenMod,
                          padding_len |-> p(i)]
      BY <1>2, <2>4 DEF Serialized
    <2> QED
      BY <2>2, <2>3, <2>4, <2>5 DEF Frames, Carries
  <1>5. plaintext \in [1 .. n -> Frames]
    BY <1>2, <1>4
  <1>6. plaintext \in Seq(Frames) /\ Len(plaintext) = n
    BY <1>1, <1>5
  <1> QED
    BY <1>4, <1>6 DEF n, plaintext, p

\* flush_record: the length of the plaintext is that of the frames and the padding.
LEMMA FlushedLen ==
    ASSUME NEW items \in Seq(Items), items # <<>>, NEW pad \in Nat, pad < LenMod
    PROVE  PlainLen(FlushRecord(items, pad)) = Bare(items) + pad
  <1> DEFINE plaintext == FlushRecord(items, pad)
             n == Len(items)
             m == n - 1
             r == [i \in DOMAIN plaintext |-> FrameBytes(plaintext[i])]
             q == [i \in DOMAIN items |-> WireLen(items[i].len, 0)]
             s == [i \in 1 .. m |-> q[i]]
  <1>1. /\ n \in Nat /\ m \in Nat /\ n = m + 1 /\ DOMAIN items = 1 .. n
        /\ \A i \in 1 .. n : items[i] \in Items
    OBVIOUS
  <1>2. /\ plaintext \in Seq(Frames) /\ Len(plaintext) = n
        /\ \A i \in 1 .. n : Carries(plaintext[i], items[i])
        /\ \A i \in 1 .. n : plaintext[i].padding_len = IF i = n THEN pad ELSE 0
    BY FlushedFrames
  <1>3. DOMAIN plaintext = 1 .. n /\ \A i \in 1 .. n : plaintext[i] \in Frames
    BY <1>2
  <1> HIDE DEF n, m, plaintext
  <1>4. DOMAIN r = 1 .. (m + 1) /\ DOMAIN q = 1 .. (m + 1)
    BY <1>1, <1>3
  <1>5. ASSUME NEW i \in 1 .. n
        PROVE  /\ q[i] \in Nat /\ r[i] = q[i] + (IF i = n THEN pad ELSE 0)
    <2>1. items[i].len \in Nat /\ items[i] \in Items
      BY <1>1 DEF Items
    <2>2. q[i] = FrameHeaderSize + items[i].len /\ q[i] \in Nat
      BY <1>1, <2>1, FrameSizes
    <2>3. r[i] = FrameHeaderSize + plaintext[i].len + plaintext[i].padding_len
      BY <1>3, FrameSizes
    <2>4. plaintext[i].len = items[i].len /\ plaintext[i].padding_len = IF i = n THEN pad ELSE 0
      BY <1>2 DEF Carries
    <2> HIDE DEF q, r
    <2> QED
      BY <2>1, <2>2, <2>3, <2>4, CodecConstants
  <1> HIDE DEF q, r
  <1>6. ASSUME NEW i \in 1 .. m PROVE s[i] \in Nat /\ r[i] = s[i] /\ q[i] = s[i]
    <2>1. i \in 1 .. n /\ i # n
      BY <1>1
    <2>2. q[i] \in Nat /\ r[i] = q[i] + 0
      BY <1>5, <2>1
    <2> QED
      BY <2>2
  <1>7. q[m + 1] \in Nat /\ r[m + 1] = q[m + 1] + pad /\ r[m + 1] \in Nat
    <2>1. n \in 1 .. n /\ m + 1 = n
      BY <1>1
    <2>2. q[n] \in Nat /\ r[n] = q[n] + pad
      BY <1>5, <2>1
    <2> QED
      BY <2>1, <2>2
  <1>8. Lens(s, m) /\ Begins(r, s, m) /\ Begins(q, s, m)
    BY <1>6 DEF Lens, Begins
  <1> HIDE DEF s
  <1>9. SumSeq(r) = SumSeq(s) + r[m + 1] /\ SumSeq(q) = SumSeq(s) + q[m + 1]
    BY <1>1, <1>4, <1>7, <1>8, SumSnoc
  <1>10. SumSeq(s) \in Nat
    BY <1>1, <1>8, SumNat
  <1>11. PlainLen(plaintext) = SumSeq(r) /\ Bare(items) = SumSeq(q)
    BY DEF PlainLen, Bare, r, q
  <1> QED
    BY <1>7, <1>9, <1>10, <1>11 DEF plaintext

\* The shape of a record flush_record makes: an oversized frame travels alone and
\* without padding, anything else is padded to the boundary above it.
ShapedRecord(shaper, plaintext) ==
    /\ PlainLen(plaintext) = Bare(plaintext) + plaintext[Len(plaintext)].padding_len
    /\ IF Bare(plaintext) > MaxRecordPlaintext
       THEN Len(plaintext) = 1 /\ plaintext[1].padding_len = 0
       ELSE PlainLen(plaintext) + AeadTagLen = TargetRecordLen(shaper, Bare(plaintext))

\* The frames of a plaintext are as long, without padding, as the items they carry.
LEMMA BareCarried ==
    ASSUME NEW items \in Seq(Items), NEW plaintext \in Seq(Frames), Len(plaintext) = Len(items),
           \A i \in 1 .. Len(items) : Carries(plaintext[i], items[i])
    PROVE  Bare(plaintext) = Bare(items)
  <1> DEFINE n == Len(items)
             r == [i \in DOMAIN plaintext |-> WireLen(plaintext[i].len, 0)]
             s == [i \in DOMAIN items |-> WireLen(items[i].len, 0)]
  <1>1. DOMAIN plaintext = 1 .. n /\ DOMAIN items = 1 .. n
    OBVIOUS
  <1> HIDE DEF n
  <1>2. \A i \in 1 .. n : plaintext[i].len = items[i].len
    BY DEF Carries, n
  <1>3. r = [i \in 1 .. n |-> WireLen(items[i].len, 0)]
    BY <1>1, <1>2
  <1>4. s = [i \in 1 .. n |-> WireLen(items[i].len, 0)]
    BY <1>1
  <1>5. Bare(plaintext) = SumSeq(r) /\ Bare(items) = SumSeq(s)
    BY DEF Bare
  <1> HIDE DEF r, s
  <1> QED
    BY <1>3, <1>4, <1>5

\* flush_record on a batch that fits a record.
LEMMA FlushShapedRecord ==
    ASSUME NEW shaper \in Shapers, NEW items \in Seq(Items), items # <<>>,
           Bare(items) \in Nat, Bare(items) <= MaxRecordPlaintext
    PROVE  LET plaintext == FlushShaped(shaper, items, Bare(items))
           IN  /\ plaintext \in Seq(Frames) /\ Len(plaintext) = Len(items)
               /\ \A i \in 1 .. Len(items) : Carries(plaintext[i], items[i])
               /\ ShapedRecord(shaper, plaintext)
  <1> DEFINE bare == Bare(items)
             target == TargetRecordLen(shaper, bare)
             excess == target - (bare + AeadTagLen)
             plaintext == FlushShaped(shaper, items, bare)
  <1>1. /\ target \in Nat /\ bare + AeadTagLen <= target /\ target <= MaxRecordLen
    BY TargetIsLeastBoundary
  <1> HIDE DEF bare, target
  <1>2. /\ bare \in Nat /\ bare <= MaxRecordPlaintext
    BY DEF bare
  <1>3. /\ excess \in Nat /\ excess <= MaxRecordPlaintext - bare /\ excess < LenMod
        /\ MaxRecordPlaintext - bare \in Int
    BY <1>1, <1>2, CodecConstants
  <1>4. plaintext = FlushRecord(items, Min({Max({excess, 0}), MaxRecordPlaintext - bare}))
    BY DEF FlushShaped, target
  <1> HIDE DEF excess
  <1>5. Max({excess, 0}) = excess
    <2>1. excess \in Int /\ 0 \in Int /\ excess >= 0
      BY <1>3
    <2> QED
      BY <2>1, PairMinMax
  <1>6. Min({excess, MaxRecordPlaintext - bare}) = excess
    <2> DEFINE room == MaxRecordPlaintext - bare
    <2>1. excess \in Int /\ room \in Int /\ excess <= room
      BY <1>3
    <2> HIDE DEF room
    <2>2. Min({excess, room}) = excess
      BY <2>1, PairMinMax
    <2> QED
      BY <2>2 DEF room
  <1>7. plaintext = FlushRecord(items, excess)
    BY <1>4, <1>5, <1>6
  <1> HIDE DEF plaintext
  <1>8. /\ plaintext \in Seq(Frames) /\ Len(plaintext) = Len(items)
        /\ \A i \in 1 .. Len(items) : Carries(plaintext[i], items[i])
        /\ \A i \in 1 .. Len(items) : plaintext[i].padding_len = IF i = Len(items) THEN excess ELSE 0
    BY <1>3, <1>7, FlushedFrames
  <1>9. PlainLen(plaintext) = bare + excess
    BY <1>3, <1>7, FlushedLen DEF bare
  <1>10. Bare(plaintext) = bare
    BY <1>8, BareCarried DEF bare
  <1>11. ShapedRecord(shaper, plaintext)
    <2>1. plaintext[Len(plaintext)].padding_len = excess
      <3>1. Len(items) \in 1 .. Len(items)
        OBVIOUS
      <3> QED
        BY <1>8, <3>1
    <2>2. PlainLen(plaintext) + AeadTagLen = target
      BY <1>1, <1>2, <1>9, CodecConstants DEF excess
    <2>3. ~(bare > MaxRecordPlaintext)
      BY <1>2, CodecConstants
    <2> QED
      BY <1>9, <1>10, <2>1, <2>2, <2>3 DEF ShapedRecord, target
  <1> QED
    BY <1>8, <1>11 DEF plaintext, bare

\* encode_batch on a frame no record can hold.
LEMMA FlushOversized ==
    ASSUME NEW shaper, NEW item \in Items, WireLen(item.len, 0) > MaxRecordPlaintext
    PROVE  LET plaintext == FlushRecord(<<item>>, 0)
           IN  /\ plaintext \in Seq(Frames) /\ Len(plaintext) = 1
               /\ Carries(plaintext[1], item)
               /\ ShapedRecord(shaper, plaintext)
  <1> DEFINE items == <<item>>
             plaintext == FlushRecord(items, 0)
  <1>1. /\ items \in Seq(Items) /\ items # <<>> /\ Len(items) = 1 /\ items[1] = item
        /\ DOMAIN items = 1 .. 1
    OBVIOUS
  <1>2. 0 \in Nat /\ 0 < LenMod
    BY CodecConstants
  <1>3. Bare(items) = WireLen(item.len, 0)
    <2> DEFINE s == [i \in DOMAIN items |-> WireLen(items[i].len, 0)]
    <2>1. DOMAIN s = 1 .. 1 /\ s[1] = WireLen(item.len, 0)
      BY <1>1
    <2>2. s[1] \in Nat
      <3>1. item.len \in Nat
        BY DEF Items
      <3> QED
        BY <2>1, <3>1, FrameSizes
    <2>3. Bare(items) = SumSeq(s)
      BY DEF Bare
    <2> HIDE DEF s
    <2> QED
      BY <2>1, <2>2, <2>3, SumShort
  <1> HIDE DEF items
  <1>4. /\ plaintext \in Seq(Frames) /\ Len(plaintext) = 1
        /\ \A i \in 1 .. 1 : Carries(plaintext[i], items[i])
        /\ \A i \in 1 .. 1 : plaintext[i].padding_len = IF i = 1 THEN 0 ELSE 0
    BY <1>1, <1>2, FlushedFrames
  <1>5. PlainLen(plaintext) = Bare(items) + 0
    BY <1>1, <1>2, FlushedLen
  <1> HIDE DEF plaintext
  <1>6. Bare(plaintext) = Bare(items)
    BY <1>1, <1>4, BareCarried
  <1>7. Carries(plaintext[1], item) /\ plaintext[1].padding_len = 0
    BY <1>1, <1>4
  <1>8. ShapedRecord(shaper, plaintext)
    BY <1>3, <1>4, <1>5, <1>6, <1>7 DEF ShapedRecord
  <1> QED
    BY <1>4, <1>7, <1>8 DEF plaintext, items

-----------------------------------------------------------------------------
(***************************************************************************)
(* The loop of encode_batch.                                               *)
(***************************************************************************)

\* The function the loop of encode_batch over the first n frames is computed with.
PackFunction(h, shaper, seq, n) ==
    h = [s \in SUBSET (1 .. n) |->
           IF s = {} THEN NoBatch ELSE PackItem(shaper, h[s \ {Max(s)}], seq[Max(s)])]

\* That function exists.
LEMMA PackIter ==
    ASSUME NEW shaper, NEW seq, NEW n \in Nat
    PROVE  \E h : PackFunction(h, shaper, seq, n)
  <1> DEFINE D(k) == SUBSET (1 .. k)
             Good(h, k) == PackFunction(h, shaper, seq, k)
             T == {k \in Nat : \E h : Good(h, k)}
  <1>1. 0 \in T
    <2>1. D(0) = {{}}
      OBVIOUS
    <2>2. Good([s \in D(0) |-> NoBatch], 0)
      BY <2>1 DEF PackFunction
    <2> QED
      BY <2>2
  <1>2. ASSUME NEW k \in Nat, k \in T PROVE k + 1 \in T
    <2>1. PICK h : Good(h, k)
      BY <1>2
    <2> DEFINE g == [s \in D(k + 1) |-> IF s = {} THEN NoBatch
                        ELSE IF k + 1 \in s THEN PackItem(shaper, h[s \ {k + 1}], seq[k + 1])
                        ELSE h[s]]
    <2>2. {} \in D(k) /\ h[{}] = NoBatch
      BY <2>1 DEF PackFunction
    <2>3. ASSUME NEW s \in D(k + 1), s # {}
          PROVE  g[s] = PackItem(shaper, g[s \ {Max(s)}], seq[Max(s)])
      <3>1. CASE k + 1 \in s
        <4>1. Max(s) = k + 1
          BY <3>1, MaxOfSet
        <4>2. s \ {k + 1} \in D(k) /\ s \ {k + 1} \in D(k + 1)
          OBVIOUS
        <4>3. g[s \ {k + 1}] = h[s \ {k + 1}]
          BY <2>2, <4>2
        <4> QED
          BY <3>1, <4>1, <4>3
      <3>2. CASE k + 1 \notin s
        <4>1. \A x \in s : x \in 1 .. k
          BY <3>2
        <4>2. s \in D(k) /\ s \ {Max(s)} \in D(k) /\ s \ {Max(s)} \in D(k + 1)
          BY <4>1
        <4>3. g[s] = h[s]
          BY <2>3, <3>2
        <4>4. g[s \ {Max(s)}] = h[s \ {Max(s)}]
          <5>1. CASE s \ {Max(s)} = {}
            BY <2>2, <4>2, <5>1
          <5>2. CASE s \ {Max(s)} # {}
            <6>1. k + 1 \notin s \ {Max(s)}
              BY <3>2
            <6> QED
              BY <4>2, <5>2, <6>1
          <5> QED
            BY <5>1, <5>2
        <4>5. h[s] = PackItem(shaper, h[s \ {Max(s)}], seq[Max(s)])
          BY <2>1, <2>3, <4>2 DEF PackFunction
        <4> QED
          BY <4>3, <4>4, <4>5
      <3> QED
        BY <3>1, <3>2
    <2>4. g[{}] = NoBatch
      OBVIOUS
    <2>5. Good(g, k + 1)
      <3> DEFINE rhs == [s \in D(k + 1) |->
                           IF s = {} THEN NoBatch
                                     ELSE PackItem(shaper, g[s \ {Max(s)}], seq[Max(s)])]
      <3>1. \A s \in D(k + 1) : rhs[s] = g[s]
        BY <2>3, <2>4
      <3>2. g = [s \in D(k + 1) |-> g[s]] /\ rhs = [s \in D(k + 1) |-> rhs[s]]
        OBVIOUS
      <3> HIDE DEF g, rhs
      <3>3. g = rhs
        BY <3>1, <3>2
      <3> QED
        BY <3>3 DEF rhs, PackFunction
    <2> HIDE DEF g, Good
    <2> QED
      BY <2>5
  <1> HIDE DEF T
  <1>3. Nat \subseteq T
    BY <1>1, <1>2, SetInduction
  <1> QED
    BY <1>3 DEF T

\* The accumulator after every turn of the loop, and what the call returns.
PackTurns(v, shaper, seq, n) ==
    /\ v[0] = NoBatch
    /\ \A k \in 1 .. n : v[k] = PackItem(shaper, v[k - 1], seq[k])
    /\ EncodeBatch(shaper, seq) = Flushed(shaper, v[n]).records

\* The turns of the loop of encode_batch.
LEMMA PackTrace ==
    ASSUME NEW shaper, NEW seq, NEW n \in Nat, DOMAIN seq = 1 .. n
    PROVE  \E v : PackTurns(v, shaper, seq, n)
  <1> DEFINE iter[s \in SUBSET (DOMAIN seq)] ==
                IF s = {} THEN NoBatch ELSE PackItem(shaper, iter[s \ {Max(s)}], seq[Max(s)])
  <1>1. EncodeBatch(shaper, seq) = Flushed(shaper, iter[DOMAIN seq]).records
    BY DEF EncodeBatch, FoldLeft, MapThenFoldSet
  <1>2. iter = [s \in SUBSET (1 .. n) |->
                  IF s = {} THEN NoBatch
                            ELSE PackItem(shaper, iter[s \ {Max(s)}], seq[Max(s)])]
    <2> DEFINE Good(h) == h = [s \in SUBSET (DOMAIN seq) |->
                                 IF s = {} THEN NoBatch
                                           ELSE PackItem(shaper, h[s \ {Max(s)}], seq[Max(s)])]
    <2>1. \E h : Good(h)
      <3>1. PICK h : PackFunction(h, shaper, seq, n)
        BY PackIter
      <3>2. Good(h)
        BY <3>1 DEF PackFunction
      <3> QED
        BY <3>2
    <2>2. iter = CHOOSE h : Good(h)
      OBVIOUS
    <2> HIDE DEF Good, iter
    <2>3. Good(iter)
      BY <2>1, <2>2
    <2> QED
      BY <2>3 DEF Good
  <1> HIDE DEF iter
  <1> DEFINE v == [k \in 0 .. n |-> iter[1 .. k]]
  <1>3. v[0] = NoBatch
    <2>1. 1 .. 0 = {} /\ {} \in SUBSET (1 .. n)
      OBVIOUS
    <2>2. iter[{}] = NoBatch
      BY <1>2, <2>1
    <2> QED
      BY <2>1, <2>2
  <1>4. ASSUME NEW k \in 1 .. n PROVE v[k] = PackItem(shaper, v[k - 1], seq[k])
    <2>1. 1 .. k \in SUBSET (1 .. n) /\ 1 .. k # {} /\ Max(1 .. k) = k
      <3>1. (k - 1) \in Nat /\ (k - 1) + 1 = k /\ k \in 1 .. k
        OBVIOUS
      <3>2. 1 .. k \in SUBSET (1 .. ((k - 1) + 1))
        BY <3>1
      <3>3. Max(1 .. k) = (k - 1) + 1
        BY <3>1, <3>2, MaxOfSet
      <3> QED
        BY <3>1, <3>3
    <2>2. (1 .. k) \ {k} = 1 .. (k - 1)
      OBVIOUS
    <2>3. iter[1 .. k] = PackItem(shaper, iter[(1 .. k) \ {Max(1 .. k)}], seq[Max(1 .. k)])
      BY <1>2, <2>1
    <2>4. iter[1 .. k] = PackItem(shaper, iter[1 .. (k - 1)], seq[k])
      BY <2>1, <2>2, <2>3
    <2>5. v[k] = iter[1 .. k] /\ v[k - 1] = iter[1 .. (k - 1)]
      OBVIOUS
    <2> QED
      BY <2>4, <2>5
  <1>5. v[n] = iter[DOMAIN seq]
    OBVIOUS
  <1> HIDE DEF v
  <1>6. PackTurns(v, shaper, seq, n)
    BY <1>1, <1>3, <1>4, <1>5 DEF PackTurns
  <1> QED
    BY <1>6

Plaintexts == Seq(Frames) \ {<<>>}

\* A sequence of frames that is not empty is a plaintext.
LEMMA NonEmptyPlaintext ==
    ASSUME NEW p \in Seq(Frames), Len(p) # 0
    PROVE  p \in Plaintexts
  BY DEF Plaintexts

\* The items are numbered from base on.
Numbered(items, base) == \A i \in 1 .. Len(items) : items[i].id = base + i

\* The id of the last frame of a plaintext, and of the last frame before the r-th
\* record.
LastId(plaintext) == plaintext[Len(plaintext)].id

Before(records, base, r) == IF r = 1 THEN base ELSE LastId(records[r - 1])

\* The plaintext carries the items that follow the id from, in order.
CarriesFrom(plaintext, items, base, from) ==
    \A j \in 1 .. Len(plaintext) :
        /\ plaintext[j].id = from + j
        /\ (from + j) - base \in 1 .. Len(items)
        /\ Carries(plaintext[j], items[(from + j) - base])

\* The records carry items from the first on, without a gap or a repetition.
Covering(shaper, items, base, records) ==
    /\ records \in Seq(Plaintexts)
    /\ \A r \in 1 .. Len(records) :
          /\ CarriesFrom(records[r], items, base, Before(records, base, r))
          /\ ShapedRecord(shaper, records[r])

\* A plaintext ends with the id that many after where it started.
LEMMA LastCarried ==
    ASSUME NEW plaintext \in Plaintexts, NEW items, NEW base, NEW from,
           CarriesFrom(plaintext, items, base, from)
    PROVE  LastId(plaintext) = from + Len(plaintext)
  <1>1. Len(plaintext) \in 1 .. Len(plaintext)
    BY DEF Plaintexts
  <1> QED
    BY <1>1 DEF CarriesFrom, LastId

\* One record more.
LEMMA AddRecord ==
    ASSUME NEW shaper, NEW items, NEW base \in Nat, NEW records, NEW plaintext \in Plaintexts,
           Covering(shaper, items, base, records), ShapedRecord(shaper, plaintext),
           NEW from \in Nat, Before(records, base, Len(records) + 1) = from,
           CarriesFrom(plaintext, items, base, from)
    PROVE  LET more == Append(records, plaintext)
           IN  /\ Covering(shaper, items, base, more)
               /\ Before(more, base, Len(more) + 1) = from + Len(plaintext)
  <1> DEFINE more == Append(records, plaintext)
             n == Len(records)
  <1>1. records \in Seq(Plaintexts)
    BY DEF Covering
  <1>2. /\ more \in Seq(Plaintexts) /\ Len(more) = n + 1 /\ n \in Nat /\ more[n + 1] = plaintext
        /\ \A i \in 1 .. n : more[i] = records[i]
    BY <1>1
  <1> HIDE DEF more, n
  <1>3. ASSUME NEW r \in 1 .. (n + 1)
        PROVE  Before(more, base, r) = Before(records, base, r)
    <2>1. CASE r = 1
      BY <2>1 DEF Before
    <2>2. CASE r # 1
      <3>1. r - 1 \in 1 .. n
        BY <1>2, <2>2
      <3>2. more[r - 1] = records[r - 1]
        BY <1>2, <3>1
      <3> QED
        BY <2>2, <3>2 DEF Before
    <2> QED
      BY <2>1, <2>2
  <1>4. ASSUME NEW r \in 1 .. (n + 1)
        PROVE  /\ CarriesFrom(more[r], items, base, Before(more, base, r))
               /\ ShapedRecord(shaper, more[r])
    <2>1. CASE r = n + 1
      <3>1. Before(more, base, r) = from /\ more[r] = plaintext
        BY <1>2, <1>3, <2>1 DEF n
      <3> QED
        BY <3>1
    <2>2. CASE r # n + 1
      <3>1. r \in 1 .. n
        BY <1>2, <2>2
      <3>2. more[r] = records[r] /\ Before(more, base, r) = Before(records, base, r)
        BY <1>2, <1>3, <3>1
      <3>3. /\ CarriesFrom(records[r], items, base, Before(records, base, r))
            /\ ShapedRecord(shaper, records[r])
        BY <3>1 DEF Covering, n
      <3> QED
        BY <3>2, <3>3
    <2> QED
      BY <2>1, <2>2
  <1>5. Covering(shaper, items, base, more)
    BY <1>2, <1>4 DEF Covering
  <1>6. Before(more, base, Len(more) + 1) = LastId(plaintext)
    <2>1. Len(more) + 1 # 1 /\ (Len(more) + 1) - 1 = n + 1
      BY <1>2
    <2> QED
      BY <1>2, <2>1 DEF Before
  <1> QED
    BY <1>5, <1>6, LastCarried DEF more

\* Where the loop of encode_batch stands after k frames.
PackInv(shaper, items, base, acc, k) ==
    /\ acc \in [records : Seq(Plaintexts), batch : Seq(Items), batch_len : Nat]
    /\ acc.batch_len = Bare(acc.batch) /\ acc.batch_len <= MaxRecordPlaintext
    /\ Covering(shaper, items, base, acc.records)
    /\ Len(acc.batch) <= k /\ k <= Len(items)
    /\ Before(acc.records, base, Len(acc.records) + 1) = base + (k - Len(acc.batch))
    /\ \A j \in 1 .. Len(acc.batch) : acc.batch[j] = items[(k - Len(acc.batch)) + j]

\* No items are no bytes.
LEMMA BareEmpty == Bare(<<>>) = 0
  <1> DEFINE s == [i \in DOMAIN <<>> |-> WireLen(<<>>[i].len, 0)]
  <1>1. DOMAIN s = 1 .. 0
    OBVIOUS
  <1>2. Bare(<<>>) = SumSeq(s)
    BY DEF Bare
  <1> HIDE DEF s
  <1> QED
    BY <1>1, <1>2, SumShort

\* The loop starts with nothing.
LEMMA PackStart ==
    ASSUME NEW shaper, NEW items \in Seq(Items), NEW base \in Nat
    PROVE  PackInv(shaper, items, base, NoBatch, 0)
  <1>1. /\ NoBatch.records = <<>> /\ NoBatch.batch = <<>> /\ NoBatch.batch_len = 0
        /\ NoBatch \in [records : Seq(Plaintexts), batch : Seq(Items), batch_len : Nat]
    BY DEF NoBatch
  <1>2. Covering(shaper, items, base, <<>>)
    BY DEF Covering
  <1>3. Before(<<>>, base, Len(<<>>) + 1) = base + (0 - 0)
    BY DEF Before
  <1>4. 0 <= MaxRecordPlaintext /\ 0 <= Len(items)
    BY CodecConstants
  <1> HIDE DEF NoBatch
  <1> QED
    BY <1>1, <1>2, <1>3, <1>4, BareEmpty DEF PackInv

\* Flushing the batch keeps the loop's invariant and leaves an empty batch.
LEMMA FlushKeeps ==
    ASSUME NEW shaper \in Shapers, NEW items \in Seq(Items), NEW base \in Nat,
           Numbered(items, base), NEW k \in Nat, NEW acc, PackInv(shaper, items, base, acc, k)
    PROVE  /\ PackInv(shaper, items, base, Flushed(shaper, acc), k)
           /\ Flushed(shaper, acc).batch = <<>> /\ Flushed(shaper, acc).batch_len = 0
  <1> DEFINE flushed == Flushed(shaper, acc)
             batch == acc.batch
             plaintext == FlushShaped(shaper, batch, acc.batch_len)
             from == base + (k - Len(batch))
  <1>1. /\ acc.records \in Seq(Plaintexts) /\ batch \in Seq(Items) /\ acc.batch_len \in Nat
        /\ acc.batch_len = Bare(batch) /\ acc.batch_len <= MaxRecordPlaintext
        /\ Covering(shaper, items, base, acc.records)
        /\ Len(batch) \in Nat /\ Len(batch) <= k /\ k <= Len(items) /\ Len(items) \in Nat
        /\ Before(acc.records, base, Len(acc.records) + 1) = from
        /\ \A j \in 1 .. Len(batch) : batch[j] = items[(k - Len(batch)) + j]
    BY DEF PackInv
  <1>2. CASE batch = <<>>
    <2>1. flushed = acc
      BY <1>2 DEF Flushed
    <2>2. acc.batch_len = 0
      BY <1>1, <1>2, BareEmpty
    <2> QED
      BY <1>2, <2>1, <2>2
  <1>3. CASE batch # <<>>
    <2>1. flushed = [records |-> Append(acc.records, plaintext), batch |-> <<>>, batch_len |-> 0]
      BY <1>3 DEF Flushed
    <2>2. /\ plaintext \in Seq(Frames) /\ Len(plaintext) = Len(batch)
          /\ \A i \in 1 .. Len(batch) : Carries(plaintext[i], batch[i])
          /\ ShapedRecord(shaper, plaintext)
      BY <1>1, <1>3, FlushShapedRecord
    <2> HIDE DEF batch, plaintext, flushed
    <2>3. plaintext \in Plaintexts
      <3>1. Len(plaintext) # 0
        BY <1>1, <1>3, <2>2
      <3> QED
        BY <2>2, <3>1 DEF Plaintexts
    <2>4. from \in Nat
      BY <1>1
    <2>5. CarriesFrom(plaintext, items, base, from)
      <3> SUFFICES ASSUME NEW j \in 1 .. Len(plaintext)
                   PROVE  /\ plaintext[j].id = from + j
                          /\ (from + j) - base \in 1 .. Len(items)
                          /\ Carries(plaintext[j], items[(from + j) - base])
        BY DEF CarriesFrom
      <3>1. j \in 1 .. Len(batch) /\ Carries(plaintext[j], batch[j])
        BY <2>2
      <3>2. /\ (from + j) - base = (k - Len(batch)) + j
            /\ (k - Len(batch)) + j \in 1 .. Len(items)
            /\ base + ((k - Len(batch)) + j) = from + j
        BY <1>1, <3>1
      <3>3. batch[j] = items[(k - Len(batch)) + j]
        BY <1>1, <3>1
      <3>4. items[(k - Len(batch)) + j].id = base + ((k - Len(batch)) + j)
        BY <3>2 DEF Numbered
      <3>5. plaintext[j].id = batch[j].id
        BY <3>1 DEF Carries
      <3> HIDE DEF from
      <3> QED
        BY <3>1, <3>2, <3>3, <3>4, <3>5
    <2> DEFINE more == Append(acc.records, plaintext)
    <2>6. Covering(shaper, items, base, more) /\ Before(more, base, Len(more) + 1) = from + Len(plaintext)
      <3>1. Covering(shaper, items, base, acc.records) /\ ShapedRecord(shaper, plaintext)
        BY <1>1, <2>2
      <3>2. Before(acc.records, base, Len(acc.records) + 1) = from
        BY <1>1
      <3> HIDE DEF from
      <3> QED
        BY <2>3, <2>4, <2>5, <3>1, <3>2, AddRecord
    <2>7. from + Len(plaintext) = base + (k - 0)
      <3>1. \A a, c, d \in Nat : (a + (c - d)) + d = a + (c - 0)
        OBVIOUS
      <3>2. from + Len(batch) = base + (k - 0)
        BY <1>1, <3>1
      <3> QED
        BY <2>2, <3>2
    <2>8. more \in Seq(Plaintexts)
      BY <1>1, <2>3
    <2>9. flushed = [records |-> more, batch |-> <<>>, batch_len |-> 0]
      BY <2>1
    <2> HIDE DEF more, from
    <2>10. /\ flushed.records = more /\ flushed.batch = <<>> /\ flushed.batch_len = 0
           /\ flushed \in [records : Seq(Plaintexts), batch : Seq(Items), batch_len : Nat]
      BY <2>8, <2>9
    <2>11. /\ 0 <= MaxRecordPlaintext /\ Len(flushed.batch) = 0 /\ 0 <= k
           /\ \A j \in 1 .. Len(flushed.batch) :
                 flushed.batch[j] = items[(k - Len(flushed.batch)) + j]
      BY <2>10, CodecConstants
    <2>12. Before(flushed.records, base, Len(flushed.records) + 1) = base + (k - Len(flushed.batch))
      BY <2>6, <2>7, <2>10, <2>11
    <2>13. flushed.batch_len = Bare(flushed.batch) /\ Covering(shaper, items, base, flushed.records)
      BY <2>6, <2>10, BareEmpty
    <2>14. PackInv(shaper, items, base, flushed, k)
      BY <1>1, <2>10, <2>11, <2>12, <2>13 DEF PackInv
    <2> QED
      BY <2>10, <2>14 DEF flushed
  <1> QED
    BY <1>2, <1>3

\* One turn of the loop takes in the next frame.
LEMMA TurnKeeps ==
    ASSUME NEW shaper \in Shapers, NEW items \in Seq(Items), NEW base \in Nat,
           Numbered(items, base), NEW k \in Nat, k + 1 <= Len(items),
           NEW acc, PackInv(shaper, items, base, acc, k)
    PROVE  PackInv(shaper, items, base, PackItem(shaper, acc, items[k + 1]), k + 1)
  <1> DEFINE item == items[k + 1]
             need == WireLen(item.len, 0)
             flush == need > MaxRecordPlaintext \/ acc.batch_len + need > MaxRecordPlaintext
             room == IF flush THEN Flushed(shaper, acc) ELSE acc
             after == PackItem(shaper, acc, item)
  <1>1. k + 1 \in 1 .. Len(items) /\ Len(items) \in Nat
    OBVIOUS
  <1>2. item \in Items /\ item.len \in Nat /\ item.id = base + (k + 1)
    <2>1. item \in Items
      BY <1>1
    <2> QED
      BY <1>1, <2>1 DEF Items, Numbered
  <1>3. need \in Nat
    BY <1>2, FrameSizes
  <1>4. after = IF need > MaxRecordPlaintext
                THEN [room EXCEPT !.records = Append(@, FlushRecord(<<item>>, 0))]
                ELSE [room EXCEPT !.batch = Append(@, item), !.batch_len = @ + need]
    BY DEF PackItem
  <1>5. /\ PackInv(shaper, items, base, Flushed(shaper, acc), k)
        /\ Flushed(shaper, acc).batch = <<>> /\ Flushed(shaper, acc).batch_len = 0
    BY FlushKeeps
  <1> HIDE DEF item, need, after
  <1>6. PackInv(shaper, items, base, room, k)
    BY <1>5
  <1>7. /\ room.records \in Seq(Plaintexts) /\ room.batch \in Seq(Items) /\ room.batch_len \in Nat
        /\ room \in [records : Seq(Plaintexts), batch : Seq(Items), batch_len : Nat]
        /\ room.batch_len = Bare(room.batch) /\ room.batch_len <= MaxRecordPlaintext
        /\ Covering(shaper, items, base, room.records)
        /\ Len(room.batch) \in Nat /\ Len(room.batch) <= k
        /\ Before(room.records, base, Len(room.records) + 1) = base + (k - Len(room.batch))
        /\ \A j \in 1 .. Len(room.batch) : room.batch[j] = items[(k - Len(room.batch)) + j]
    <2> HIDE DEF room
    <2>1. room \in [records : Seq(Plaintexts), batch : Seq(Items), batch_len : Nat]
      BY <1>6 DEF PackInv
    <2>2. /\ room.records \in Seq(Plaintexts) /\ room.batch \in Seq(Items)
          /\ room.batch_len \in Nat
      BY <2>1
    <2>3. Len(room.batch) \in Nat
      BY <2>2
    <2> QED
      BY <1>6, <2>1, <2>2, <2>3 DEF PackInv
  <1>8. /\ need > MaxRecordPlaintext => room.batch = <<>>
        /\ ~(need > MaxRecordPlaintext) => room.batch_len + need <= MaxRecordPlaintext
    <2>1. CASE flush
      BY <1>3, <1>5, <2>1, CodecConstants
    <2>2. CASE ~flush
      <3>1. acc.batch_len \in Nat
        BY DEF PackInv
      <3> QED
        BY <1>3, <2>2, <3>1, CodecConstants
    <2> QED
      BY <2>1, <2>2
  <1> HIDE DEF room
  <1>9. CASE need > MaxRecordPlaintext
    <2> DEFINE plaintext == FlushRecord(<<item>>, 0)
               from == base + k
    <2>1. after = [room EXCEPT !.records = Append(@, plaintext)]
      BY <1>4, <1>9
    <2>2. /\ plaintext \in Seq(Frames) /\ Len(plaintext) = 1 /\ Carries(plaintext[1], item)
          /\ ShapedRecord(shaper, plaintext)
      BY <1>2, <1>9, FlushOversized DEF need
    <2> HIDE DEF plaintext
    <2>3. plaintext \in Plaintexts
      <3>1. plaintext \in Seq(Frames) /\ Len(plaintext) # 0
        BY <2>2
      <3> QED
        BY <3>1, NonEmptyPlaintext
    <2>4. CarriesFrom(plaintext, items, base, from)
      <3> SUFFICES ASSUME NEW j \in 1 .. Len(plaintext)
                   PROVE  /\ plaintext[j].id = from + j
                          /\ (from + j) - base \in 1 .. Len(items)
                          /\ Carries(plaintext[j], items[(from + j) - base])
        BY DEF CarriesFrom
      <3>1. j = 1 /\ (from + j) - base = k + 1 /\ from + j = base + (k + 1)
        BY <2>2
      <3>2. plaintext[1].id = item.id
        BY <2>2 DEF Carries
      <3> HIDE DEF from
      <3> QED
        BY <1>1, <1>2, <2>2, <3>1, <3>2 DEF item
    <2>5. Before(room.records, base, Len(room.records) + 1) = from /\ from \in Nat
      <3>1. Len(room.batch) = 0
        BY <1>8, <1>9
      <3> QED
        BY <1>7, <3>1
    <2> DEFINE more == Append(room.records, plaintext)
    <2> HIDE DEF from
    <2>6. Covering(shaper, items, base, more) /\ Before(more, base, Len(more) + 1) = from + Len(plaintext)
      <3>1. Covering(shaper, items, base, room.records) /\ ShapedRecord(shaper, plaintext)
        BY <1>7, <2>2
      <3>2. from \in Nat /\ Before(room.records, base, Len(room.records) + 1) = from
        BY <2>5
      <3>3. plaintext \in Plaintexts /\ CarriesFrom(plaintext, items, base, from)
        BY <2>3, <2>4
      <3> DEFINE old == room.records
      <3>4. /\ Covering(shaper, items, base, old)
            /\ Before(old, base, Len(old) + 1) = from
        BY <3>1, <3>2
      <3> HIDE DEF old
      <3>5. /\ Covering(shaper, items, base, Append(old, plaintext))
            /\ Before(Append(old, plaintext), base, Len(Append(old, plaintext)) + 1)
                  = from + Len(plaintext)
        BY <3>1, <3>2, <3>3, <3>4, AddRecord
      <3> QED
        BY <3>5 DEF old
    <2>7. more \in Seq(Plaintexts)
      BY <1>7, <2>3
    <2>8. after = [room EXCEPT !.records = more]
      BY <2>1
    <2> HIDE DEF more
    <2>9. /\ after.records = more /\ after.batch = room.batch /\ after.batch_len = room.batch_len
          /\ after \in [records : Seq(Plaintexts), batch : Seq(Items), batch_len : Nat]
      BY <1>7, <2>7, <2>8
    <2>10. after.batch = <<>> /\ Len(after.batch) = 0
      BY <1>8, <1>9, <2>9
    <2>11. from + Len(plaintext) = base + ((k + 1) - 0) /\ 0 <= k + 1
      BY <2>2 DEF from
    <2>12. Before(after.records, base, Len(after.records) + 1) = base + ((k + 1) - Len(after.batch))
      BY <2>6, <2>9, <2>10, <2>11
    <2>13. /\ after.batch_len = Bare(after.batch) /\ after.batch_len <= MaxRecordPlaintext
           /\ Covering(shaper, items, base, after.records)
      BY <1>7, <2>6, <2>9
    <2>14. \A j \in 1 .. Len(after.batch) : after.batch[j] = items[((k + 1) - Len(after.batch)) + j]
      BY <2>10
    <2>15. PackInv(shaper, items, base, after, k + 1)
      BY <2>9, <2>10, <2>11, <2>12, <2>13, <2>14 DEF PackInv
    <2> QED
      BY <2>15 DEF after, item
  <1>10. CASE ~(need > MaxRecordPlaintext)
    <2> DEFINE batch == Append(room.batch, item)
               l == Len(room.batch)
    <2>1. after = [room EXCEPT !.batch = batch, !.batch_len = room.batch_len + need]
      BY <1>4, <1>10
    <2>2. /\ batch \in Seq(Items) /\ Len(batch) = l + 1 /\ batch[l + 1] = item
          /\ \A j \in 1 .. l : batch[j] = room.batch[j]
      BY <1>2, <1>7
    <2>3. Bare(batch) = room.batch_len + need
      BY <1>2, <1>7, BareAppend DEF need
    <2> HIDE DEF batch, l
    <2> DEFINE len == room.batch_len + need
    <2>4. /\ after.records = room.records /\ after.batch = batch /\ after.batch_len = len
          /\ after \in [records : Seq(Plaintexts), batch : Seq(Items), batch_len : Nat]
      <3>1. len \in Nat
        BY <1>3, <1>7
      <3>2. after = [room EXCEPT !.batch = batch, !.batch_len = len]
        BY <2>1
      <3> HIDE DEF len
      <3> QED
        BY <1>7, <2>2, <3>1, <3>2
    <2>5. l \in Nat /\ l <= k /\ l + 1 <= k + 1 /\ (k + 1) - (l + 1) = k - l
      BY <1>7 DEF l
    <2>6. \A j \in 1 .. (l + 1) : batch[j] = items[(k - l) + j]
      <3> SUFFICES ASSUME NEW j \in 1 .. (l + 1) PROVE batch[j] = items[(k - l) + j]
        OBVIOUS
      <3>1. CASE j = l + 1
        <4>1. (k - l) + j = k + 1
          BY <2>5, <3>1
        <4> QED
          BY <2>2, <3>1, <4>1 DEF item
      <3>2. CASE j # l + 1
        <4>1. j \in 1 .. l
          BY <2>5, <3>2
        <4> QED
          BY <1>7, <2>2, <4>1 DEF l
      <3> QED
        BY <3>1, <3>2
    <2>7. /\ room.batch_len + need <= MaxRecordPlaintext
          /\ Before(room.records, base, Len(room.records) + 1) = base + (k - l)
      BY <1>7, <1>8, <1>10 DEF l
    <2>8. /\ after.batch_len = Bare(after.batch) /\ after.batch_len <= MaxRecordPlaintext
          /\ Covering(shaper, items, base, after.records)
      BY <1>7, <2>3, <2>4, <2>7
    <2>9. /\ Len(after.batch) = l + 1 /\ Len(after.batch) <= k + 1
          /\ (k + 1) - Len(after.batch) = k - l
      BY <2>2, <2>4, <2>5
    <2>10. Before(after.records, base, Len(after.records) + 1) = base + ((k + 1) - Len(after.batch))
      BY <2>4, <2>7, <2>9
    <2>11. \A j \in 1 .. Len(after.batch) : after.batch[j] = items[((k + 1) - Len(after.batch)) + j]
      BY <2>4, <2>6, <2>9
    <2> HIDE DEF len
    <2>12. PackInv(shaper, items, base, after, k + 1)
      BY <2>4, <2>8, <2>9, <2>10, <2>11 DEF PackInv
    <2> QED
      BY <2>12 DEF after, item
  <1> QED
    BY <1>9, <1>10

\* encode_batch: the records carry all the frames of the call, in order and each
\* once, and every one of them is shaped.
THEOREM EncodeBatchCovers ==
    ASSUME NEW shaper \in Shapers, NEW items \in Seq(Items), NEW base \in Nat,
           Numbered(items, base)
    PROVE  LET records == EncodeBatch(shaper, items)
           IN  /\ Covering(shaper, items, base, records)
               /\ Before(records, base, Len(records) + 1) = base + Len(items)
  <1> DEFINE n == Len(items)
  <1>1. n \in Nat /\ DOMAIN items = 1 .. n
    OBVIOUS
  <1> HIDE DEF n
  <1>0. PICK v : PackTurns(v, shaper, items, n)
    BY <1>1, PackTrace
  <1>2. /\ v[0] = NoBatch
        /\ \A k \in 1 .. n : v[k] = PackItem(shaper, v[k - 1], items[k])
        /\ EncodeBatch(shaper, items) = Flushed(shaper, v[n]).records
    BY <1>0 DEF PackTurns
  <1> DEFINE T == {k \in Nat : k <= n => PackInv(shaper, items, base, v[k], k)}
  <1>3. 0 \in T
    BY <1>2, PackStart
  <1>4. ASSUME NEW k \in Nat, k \in T PROVE k + 1 \in T
    <2>1. CASE k + 1 <= n
      <3>1. k <= n /\ k + 1 \in 1 .. n /\ (k + 1) - 1 = k
        BY <1>1, <2>1
      <3>2. PackInv(shaper, items, base, v[k], k) /\ v[k + 1] = PackItem(shaper, v[k], items[k + 1])
        BY <1>2, <1>4, <3>1
      <3>3. PackInv(shaper, items, base, v[k + 1], k + 1)
        BY <2>1, <3>2, TurnKeeps DEF n
      <3> QED
        BY <3>3
    <2>2. CASE ~(k + 1 <= n)
      BY <2>2
    <2> QED
      BY <2>1, <2>2
  <1> HIDE DEF T
  <1>5. Nat \subseteq T
    BY <1>3, <1>4, SetInduction
  <1>6. PackInv(shaper, items, base, v[n], n)
    BY <1>1, <1>5 DEF T
  <1> DEFINE flushed == Flushed(shaper, v[n])
  <1>7. PackInv(shaper, items, base, flushed, n) /\ flushed.batch = <<>>
    BY <1>1, <1>6, FlushKeeps
  <1> HIDE DEF flushed
  <1>8. /\ Covering(shaper, items, base, flushed.records)
        /\ Before(flushed.records, base, Len(flushed.records) + 1) = base + (n - Len(<<>>))
    BY <1>7 DEF PackInv
  <1>9. base + (n - Len(<<>>)) = base + n
    BY <1>1
  <1>10. EncodeBatch(shaper, items) = flushed.records
    BY <1>2 DEF flushed
  <1> QED
    BY <1>8, <1>9, <1>10 DEF n

=============================================================================
