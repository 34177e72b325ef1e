--------------------------- MODULE WindowTheorems ---------------------------
(***************************************************************************)
(* Facts about the anti-replay window and the counter reconstruction, for  *)
(* every window size W and every wire width.                               *)
(***************************************************************************)
EXTENDS EpochSlot, TLAPS

\* Remainders: the only fact about % the other proofs need.
LEMMA ModFact ==
    ASSUME NEW n \in Nat \ {0}, NEW a \in Nat
    PROVE  /\ a % n \in 0 .. (n - 1)
           /\ a \div n \in Nat
           /\ a = n * (a \div n) + (a % n)
  OBVIOUS

\* The remainder of n * q + r, with r below n, is r.
LEMMA ModUnique ==
    ASSUME NEW n \in Nat \ {0}, NEW q \in Nat, NEW r \in 0 .. (n - 1)
    PROVE  (n * q + r) % n = r
  <1> DEFINE a == n * q + r
             k == a \div n
             s == a % n
  <1>1. a \in Nat
    OBVIOUS
  <1>2. a = n * k + s /\ s \in 0 .. (n - 1) /\ k \in Nat
    BY <1>1, ModFact
  <1> HIDE DEF k, s
  <1>3. n * (k - q) = r - s
    BY <1>2
  <1>4. k - q < 1 /\ k - q > -1
    BY <1>2, <1>3
  <1>5. k = q
    BY <1>2, <1>4
  <1>6. s = r
    BY <1>2, <1>5
  <1> QED
    BY <1>6 DEF s

\* Two counters closer than n with the same remainder modulo n are equal.
LEMMA ModInjective ==
    ASSUME NEW n \in Nat \ {0}, NEW a \in Nat, NEW b \in Nat,
           a % n = b % n, a <= b, b - a < n
    PROVE  a = b
  <1> DEFINE qa == a \div n
             qb == b \div n
  <1>1. a = n * qa + (a % n) /\ b = n * qb + (b % n) /\ qa \in Nat /\ qb \in Nat
    BY ModFact
  <1>2. b - a = n * (qb - qa)
    BY <1>1
  <1>3. qb - qa < 1
    BY <1>1, <1>2
  <1>4. qb - qa >= 0
    BY <1>1, <1>2
  <1> QED
    BY <1>1, <1>2, <1>3, <1>4
-----------------------------------------------------------------------------
(***************************************************************************)
(* The counter reconstruction.                                             *)
(***************************************************************************)

\* The candidate of expand_counter differs from the true counter by a multiple
\* of the wire window, and lies in the block of highest.
LEMMA CandidateFact ==
    ASSUME NEW h \in Nat, NEW c \in Nat
    PROVE  \E k \in Int :
              /\ Candidate(h, TruncateCounter(c)) = c + k * WireWindow
              /\ Candidate(h, TruncateCounter(c)) \in Nat
  <1> DEFINE N == WireWindow
             qh == h \div N
             qc == c \div N
  <1>0. N \in Nat \ {0}
    BY WireWindowAssumption
  <1>1. /\ h = N * qh + (h % N) /\ h % N \in 0 .. (N - 1) /\ qh \in Nat
        /\ c = N * qc + (c % N) /\ c % N \in 0 .. (N - 1) /\ qc \in Nat
    BY <1>0, ModFact
  <1>2. (c % N) % N = c % N
    BY <1>0, <1>1
  <1>3. Candidate(h, TruncateCounter(c)) = (h - (h % N)) + (c % N)
    BY <1>2 DEF Candidate, TruncateCounter
  <1>4. (h - (h % N)) + (c % N) = c + (qh - qc) * N
    <2>1. h - (h % N) = N * qh
      BY <1>0, <1>1
    <2>2. c % N = c - N * qc
      BY <1>0, <1>1
    <2>3. (qh - qc) * N = N * qh - N * qc
      BY <1>0, <1>1
    <2> QED
      BY <2>1, <2>2, <2>3, <1>0, <1>1
  <1>5. (h - (h % N)) + (c % N) \in Nat
    BY <1>0, <1>1
  <1> QED
    BY <1>1, <1>3, <1>4, <1>5

\* expand_counter undoes truncate_counter for every counter at most half a wire
\* window ahead of highest and less than half a window behind it.
LEMMA ExpandExact ==
    ASSUME NEW h \in Nat, NEW c \in Nat, c <= h + Half, c + Half > h
    PROVE  ExpandCounter(h, TruncateCounter(c)) = c
  <1> DEFINE N == WireWindow
             cand == Candidate(h, TruncateCounter(c))
  <1>0. N \in Nat \ {0} /\ Half \in Nat /\ N = 2 * Half /\ Half > 0
    BY WireWindowAssumption DEF Half
  <1>1. PICK k \in Int : cand = c + k * N /\ cand \in Nat
    BY CandidateFact
  <1>2. h - (h % N) <= h /\ h < (h - (h % N)) + N /\ TruncateCounter(c) % N \in 0 .. (N - 1)
        /\ h % N \in Nat
    <2>1. h % N \in 0 .. (N - 1) /\ c % N \in 0 .. (N - 1)
      BY <1>0, ModFact
    <2>2. (c % N) % N \in 0 .. (N - 1)
      BY <1>0, <2>1, ModFact
    <2> QED
      BY <1>0, <2>1, <2>2 DEF TruncateCounter
  <1>3. cand < h + N /\ cand > h - N
    BY <1>0, <1>2 DEF Candidate
  <1>4. k \in {-1, 0, 1}
    <2>1. k * N < 2 * N /\ k * N > (-2) * N
      BY <1>0, <1>1, <1>3
    <2>2. k < 2 /\ k > -2
      BY <1>0, <2>1
    <2> QED
      BY <2>2
  <1>5. CASE k = 0
    BY <1>0, <1>1, <1>5 DEF ExpandCounter
  <1>6. CASE k = -1
    BY <1>0, <1>1, <1>6 DEF ExpandCounter
  <1>7. CASE k = 1
    BY <1>0, <1>1, <1>7 DEF ExpandCounter
  <1> QED
    BY <1>4, <1>5, <1>6, <1>7

\* What expand_counter returns is always a counter.
LEMMA ExpandType ==
    ASSUME NEW h \in Nat, NEW t \in Nat
    PROVE  ExpandCounter(h, t) \in Nat
  <1> DEFINE N == WireWindow
  <1>1. N \in Nat \ {0} /\ Half \in Nat
    BY WireWindowAssumption DEF Half
  <1>2. h % N \in Nat /\ h % N <= h /\ t % N \in Nat
    <2>1. h % N \in Nat /\ h \div N \in Nat /\ h = N * (h \div N) + (h % N) /\ t % N \in Nat
      BY <1>1, ModFact
    <2>2. N * (h \div N) >= 0
      BY <1>1, <2>1
    <2> QED
      BY <1>1, <2>1, <2>2
  <1>3. Candidate(h, t) \in Nat
    BY <1>2 DEF Candidate
  <1> QED
    BY <1>1, <1>3 DEF ExpandCounter

\* The reconstructed counter lies in the half wire windows around highest, unless
\* that would be below zero; then it is the truncated counter itself.
LEMMA ExpandBlock ==
    ASSUME NEW h \in Nat, NEW t \in WireCounters
    PROVE  LET e == ExpandCounter(h, t)
           IN  \E q \in Nat : /\ e = WireWindow * q + t
                              /\ \/ e <= h + Half /\ e + Half > h
                                 \/ q = 0 /\ e > h + Half
  <1> DEFINE N == WireWindow
             qh == h \div N
             cand == N * qh + t
             e == ExpandCounter(h, t)
  <1>0. /\ N \in Nat \ {0} /\ Half \in Nat /\ N = 2 * Half /\ Half > 0
        /\ t \in 0 .. (N - 1)
    BY WireWindowAssumption DEF Half, WireCounters
  <1>1. h = N * qh + (h % N) /\ h % N \in 0 .. (N - 1) /\ qh \in Nat
    BY <1>0, ModFact
  <1>2. t % N = t
    <2>1. (N * 0 + t) % N = t /\ N * 0 + t = t
      BY <1>0, ModUnique
    <2> QED
      BY <2>1
  <1>3. Candidate(h, t) = cand /\ cand \in Nat
    <2>1. h - (h % N) = N * qh /\ N * qh \in Nat
      BY <1>0, <1>1
    <2> QED
      BY <1>0, <1>2, <2>1 DEF Candidate
  <1>4. /\ N * qh <= h /\ h < N * qh + N /\ N * qh \in Nat
        /\ N * (qh + 1) = N * qh + N
        /\ N * (qh - 1) = N * qh - N
    <2> HIDE DEF qh, N
    <2>1. N * qh \in Nat
      BY <1>0, <1>1
    <2>2. N * (qh + 1) = N * qh + N /\ N * (qh - 1) = N * qh - N
      BY <1>0, <1>1
    <2> QED
      BY <1>0, <1>1, <2>1, <2>2
  <1>5. CASE cand + Half <= h
    <2>1. e = cand + N
      BY <1>3, <1>5 DEF ExpandCounter
    <2>2. e = N * (qh + 1) + t /\ qh + 1 \in Nat
      BY <1>0, <1>1, <1>3, <1>4, <2>1
    <2>3. e <= h + Half /\ e + Half > h
      BY <1>0, <1>3, <1>4, <1>5, <2>1
    <2> QED
      BY <2>2, <2>3
  <1>6. CASE cand > h + Half /\ cand >= N
    <2>1. e = cand - N
      BY <1>0, <1>3, <1>6 DEF ExpandCounter
    <2>2. qh # 0
      BY <1>0, <1>6
    <2>3. e = N * (qh - 1) + t /\ qh - 1 \in Nat
      BY <1>0, <1>1, <1>3, <1>4, <2>1, <2>2
    <2>4. e <= h + Half /\ e + Half > h
      BY <1>0, <1>3, <1>4, <1>6, <2>1
    <2> QED
      BY <2>3, <2>4
  <1>7. CASE ~(cand + Half <= h) /\ ~(cand > h + Half /\ cand >= N)
    <2>1. e = cand
      BY <1>3, <1>7 DEF ExpandCounter
    <2>2. CASE cand <= h + Half
      <3>1. e <= h + Half /\ e + Half > h
        BY <1>0, <1>3, <1>7, <2>1, <2>2
      <3> QED
        BY <1>1, <2>1, <3>1
    <2>3. CASE cand > h + Half
      <3>1. cand < N
        BY <1>0, <1>3, <1>7, <2>3
      <3>2. qh = 0
        <4>1. N * qh < N * 1
          BY <1>0, <1>4, <3>1
        <4>2. qh < 1
          BY <1>0, <1>1, <4>1
        <4> QED
          BY <1>1, <4>2
      <3> QED
        BY <1>0, <1>1, <1>3, <2>1, <2>3, <3>2
    <2> QED
      BY <1>0, <1>1, <1>3, <2>2, <2>3
  <1> QED
    BY <1>5, <1>6, <1>7

\* How far a counter is from the one after highest, the one expected next.
DistFromNext(h, x) == IF x > h + 1 THEN x - (h + 1) ELSE (h + 1) - x

\* No counter with these low bits is nearer to the one after highest.
LEMMA ExpandNearest ==
    ASSUME NEW h \in Nat, NEW t \in WireCounters
    PROVE  /\ ExpandCounter(h, t) \in Nat
           /\ TruncateCounter(ExpandCounter(h, t)) = t
           /\ \A x \in Nat :
                 TruncateCounter(x) = t =>
                    DistFromNext(h, ExpandCounter(h, t)) <= DistFromNext(h, x)
  <1> DEFINE N == WireWindow
             e == ExpandCounter(h, t)
  <1>0. /\ N \in Nat \ {0} /\ Half \in Nat /\ N = 2 * Half /\ Half > 0
        /\ t \in 0 .. (N - 1)
    BY WireWindowAssumption DEF Half, WireCounters
  <1>1. PICK q \in Nat : /\ e = N * q + t
                         /\ \/ e <= h + Half /\ e + Half > h
                            \/ q = 0 /\ e > h + Half
    BY ExpandBlock
  <1>2. e \in Nat
    <2>1. t \in Nat
      BY <1>0
    <2> QED
      BY <2>1, ExpandType
  <1>3. TruncateCounter(e) = t
    BY <1>0, <1>1, ModUnique DEF TruncateCounter
  <1> HIDE DEF e
  <1>4. ASSUME NEW x \in Nat, TruncateCounter(x) = t
        PROVE  DistFromNext(h, e) <= DistFromNext(h, x)
    <2> DEFINE qx == x \div N
    <2>1. x = N * qx + t /\ qx \in Nat
      BY <1>0, <1>4, ModFact DEF TruncateCounter
    <2> HIDE DEF qx
    <2>2. x - e = N * (qx - q)
      <3>1. N * (qx - q) = N * qx - N * q
        BY <1>0, <2>1
      <3> QED
        BY <1>0, <1>1, <2>1, <3>1
    <2>3. CASE qx = q
      BY <1>0, <1>1, <1>2, <2>1, <2>3 DEF DistFromNext
    <2>4. CASE qx > q
      <3>1. N * (qx - q) >= N * 1
        BY <1>0, <2>1, <2>4
      <3>2. x >= e + N
        BY <1>0, <1>2, <2>2, <3>1
      <3> QED
        BY <1>0, <1>1, <1>2, <3>2 DEF DistFromNext
    <2>5. CASE qx < q
      <3>1. N * (qx - q) <= N * (-1)
        BY <1>0, <2>1, <2>5
      <3>2. x + N <= e
        BY <1>0, <1>2, <2>2, <3>1
      <3>3. q # 0
        BY <2>1, <2>5
      <3> QED
        BY <1>0, <1>1, <1>2, <3>2, <3>3 DEF DistFromNext
    <2> QED
      BY <2>1, <2>3, <2>4, <2>5
  <1> QED
    BY <1>2, <1>3, <1>4 DEF e

-----------------------------------------------------------------------------
(***************************************************************************)
(* The anti-replay window.                                                 *)
(***************************************************************************)

\* Two counters less than W apart share a slot of the ring only if they are equal.
LEMMA SlotInjective ==
    ASSUME NEW a \in Nat, NEW b \in Nat, a - b < W, b - a < W, Slot(a) = Slot(b)
    PROVE  a = b
  <1>1. CASE a <= b
    BY <1>1, ModInjective, WindowSizeAssumption DEF Slot
  <1>2. CASE b <= a
    BY <1>2, ModInjective, WindowSizeAssumption DEF Slot
  <1> QED
    BY <1>1, <1>2

\* A counter's slot is a slot of the ring.
LEMMA SlotType ==
    ASSUME NEW a \in Nat
    PROVE  Slot(a) \in Slots
  BY ModFact, WindowSizeAssumption DEF Slot, Slots

\* A new window represents the empty set of counters.
LEMMA NewWindowRepresents ==
    NewWindow \in Window /\ Represents(NewWindow, {})
  BY DEF NewWindow, Window, Represents

\* accept() answers true only for counters it has not accepted before.
LEMMA AcceptedIsNew ==
    ASSUME NEW win \in Window, NEW seen, NEW c \in Nat,
           Represents(win, seen), ~Refused(win, c)
    PROVE  c \notin seen
  <1>1. CASE ~win.initialized
    BY <1>1 DEF Represents
  <1>2. CASE win.initialized /\ c > win.highest
    BY <1>2 DEF Represents, Window
  <1>3. CASE win.initialized /\ c <= win.highest
    <2>1. win.highest - c < W /\ Slot(c) \notin win.bitmap
      BY <1>3, WindowSizeAssumption DEF Refused, Window
    <2> QED
      BY <1>3, <2>1 DEF Represents, Window
  <1> QED
    BY <1>1, <1>2, <1>3 DEF Window

\* accept() keeps a window a window.
LEMMA AcceptType ==
    ASSUME NEW win \in Window, NEW c \in Nat
    PROVE  Accept(win, c) \in Window
  <1>1. Slot(c) \in Slots
    BY SlotType
  <1> QED
    BY <1>1 DEF Accept, SetBit, Advance, Window

\* A counter accept() refuses leaves the meaning of the window as it was.
LEMMA RefusedKeepsMeaning ==
    ASSUME NEW win \in Window, NEW seen, NEW c \in Nat,
           Represents(win, seen), Refused(win, c)
    PROVE  Represents(Accept(win, c), seen)
  <1>1. Accept(win, c) = win \/ Accept(win, c) = [win EXCEPT !.bitmap = win.bitmap \cup {Slot(c)}]
    BY DEF Accept, Refused, SetBit, Window
  <1>2. CASE Accept(win, c) = win
    BY <1>2
  <1>3. CASE Accept(win, c) # win
    <2>1. win.bitmap \cup {Slot(c)} = win.bitmap
      BY <1>3 DEF Accept, Refused, SetBit, Window
    <2> QED
      BY <1>1, <1>3, <2>1 DEF Represents, Window
  <1> QED
    BY <1>2, <1>3

\* An accepted counter is added to what the window represents, whether it is the
\* first, moves the window forward (reusing slots of the ring) or falls into it.
LEMMA AcceptAdds ==
    ASSUME NEW win \in Window, NEW seen, NEW c \in Nat,
           Represents(win, seen), ~Refused(win, c)
    PROVE  Represents(Accept(win, c), seen \cup {c})
  <1> DEFINE new == Accept(win, c)
             all == seen \cup {c}
  <1>w. W \in Nat /\ W > 0 /\ win.highest \in Nat /\ win.bitmap \subseteq Slots
    BY WindowSizeAssumption DEF Window
  <1>1. CASE ~win.initialized
    <2>1. seen = {} /\ win.bitmap = {}
      BY <1>1 DEF Represents
    <2>2. new.initialized /\ new.highest = c /\ new.bitmap = {Slot(c)}
      BY <1>1, <2>1 DEF Accept, SetBit, Window
    <2>3. ASSUME NEW d \in 0 .. c, c - d < W
          PROVE  Slot(d) \in {Slot(c)} <=> d \in {c}
      BY <2>3, <1>w, SlotInjective
    <2> QED
      BY <2>1, <2>2, <2>3 DEF Represents
  <1>2. CASE win.initialized /\ c > win.highest
    <2>1. new.initialized /\ new.highest = c
      BY <1>2 DEF Accept, SetBit, Advance, Window
    <2>2. new.bitmap = Advance(win, c - win.highest).bitmap \cup {Slot(c)}
      BY <1>2 DEF Accept, SetBit, Advance, Window
    <2>3. ASSUME NEW d \in 0 .. c, c - d < W
          PROVE  Slot(d) \in new.bitmap <=> d \in all
      <3>1. CASE d = c
        BY <3>1, <2>2
      <3>2. CASE d < c /\ d > win.highest
        <4>1. Slot(d) # Slot(c)
          BY <3>2, <2>3, <1>w, SlotInjective
        <4>2. Slot(d) \notin Advance(win, c - win.highest).bitmap
          BY <3>2, <1>2, <1>w DEF Advance, Window
        <4>3. d \notin all
          BY <3>2, <1>w DEF Represents
        <4> QED
          BY <4>1, <4>2, <4>3, <2>2
      <3>3. CASE d <= win.highest
        <4>1. Slot(d) # Slot(c)
          BY <3>3, <1>2, <2>3, <1>w, SlotInjective
        <4>2. c - win.highest < W /\ win.highest - d < W /\ d \in 0 .. win.highest
          BY <3>3, <1>2, <2>3, <1>w
        <4>3. \A s \in (win.highest + 1) .. c : Slot(s) # Slot(d)
          <5> SUFFICES ASSUME NEW s \in (win.highest + 1) .. c, Slot(s) = Slot(d)
                       PROVE  FALSE
            OBVIOUS
          <5>1. s \in Nat /\ s - d < W /\ d - s < W
            BY <3>3, <2>3, <1>w
          <5>2. s = d
            BY <5>1, SlotInjective
          <5> QED
            BY <5>2, <3>3, <1>w
        <4>4. Advance(win, c - win.highest).bitmap
                = win.bitmap \ {Slot(s) : s \in (win.highest + 1) .. c}
          BY <4>2, <1>2, <1>w DEF Advance, Window
        <4>5. Slot(d) \in new.bitmap <=> Slot(d) \in win.bitmap
          BY <4>1, <4>3, <4>4, <2>2
        <4>6. Slot(d) \in win.bitmap <=> d \in seen
          BY <4>2, <1>2 DEF Represents
        <4> QED
          BY <4>5, <4>6, <3>3, <1>2, <1>w
      <3> QED
        BY <3>1, <3>2, <3>3, <1>w
    <2>4. \A d \in all : d \in Nat /\ d <= c
      BY <1>2, <1>w DEF Represents
    <2> QED
      BY <2>1, <2>3, <2>4 DEF Represents
  <1>3. CASE win.initialized /\ c <= win.highest
    <2>1. win.highest - c < W
      BY <1>3, <1>w DEF Refused
    <2>2. new.initialized /\ new.highest = win.highest /\ new.bitmap = win.bitmap \cup {Slot(c)}
      BY <1>3, <1>w, <2>1 DEF Accept, SetBit, Window
    <2>3. ASSUME NEW d \in 0 .. win.highest, win.highest - d < W
          PROVE  Slot(d) \in new.bitmap <=> d \in all
      <3>1. Slot(d) \in win.bitmap <=> d \in seen
        BY <2>3 DEF Represents
      <3>2. Slot(d) = Slot(c) <=> d = c
        BY <2>1, <2>3, <1>3, <1>w, SlotInjective
      <3> QED
        BY <3>1, <3>2, <2>2
    <2> QED
      BY <1>3, <2>2, <2>3 DEF Represents
  <1> QED
    BY <1>1, <1>2, <1>3, <1>w DEF Window

-----------------------------------------------------------------------------
(***************************************************************************)
(* One epoch slot.                                                         *)
(***************************************************************************)
LEMMA FullCounterType ==
    ASSUME NEW s \in EpochSlots, NEW wire_counter \in WireCounters
    PROVE  FullCounter(s, wire_counter) \in Nat
  <1>1. s.window.highest \in Nat
    BY DEF EpochSlots, Window
  <1>2. wire_counter \in Nat
    BY WireWindowAssumption DEF WireCounters
  <1> QED
    BY <1>1, <1>2, ExpandType DEF FullCounter

\* A fresh slot is well typed and carries its epoch's id and key and an empty window.
LEMMA FreshSlot ==
    ASSUME NEW keys \in EpochKeys
    PROVE  /\ Fresh(keys) \in EpochSlots
           /\ Fresh(keys).epoch_id = keys.epoch_id
           /\ Fresh(keys).key = keys.key
           /\ Fresh(keys).window = NewWindow
  BY NewWindowRepresents DEF Fresh, EpochSlots, EpochKeys

\* A genuine ciphertext whose counter was not handed up and is within reach of
\* the window and of the truncated counter opens under its own header.
LEMMA UnseenOpens ==
    ASSUME NEW s \in EpochSlots, NEW seen, Represents(s.window, seen),
           NEW ct, NEW c \in Nat, ct.key = s.key, ct.counter = c, c \notin seen,
           c <= s.window.highest + Half, c + Half > s.window.highest,
           c + W > s.window.highest
    PROVE  Opens(s, TruncateCounter(c), ct)
  <1>0. s.window \in Window /\ s.window.highest \in Nat /\ W \in Nat
    BY WindowSizeAssumption DEF EpochSlots, Window
  <1>1. FullCounter(s, TruncateCounter(c)) = c
    BY <1>0, ExpandExact DEF FullCounter
  <1>2. ~Refused(s.window, c)
    <2> SUFFICES ASSUME s.window.initialized, c <= s.window.highest,
                        Slot(c) \in s.window.bitmap
                 PROVE  FALSE
      BY <1>0 DEF Refused
    <2>1. c \in 0 .. s.window.highest /\ s.window.highest - c < W
      BY <1>0
    <2> QED
      BY <2>1 DEF Represents
  <1> QED
    BY <1>1, <1>2 DEF Opens, Decrypts, Authentic

=============================================================================
