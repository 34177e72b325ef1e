------------------------- MODULE DatagramLegProofs --------------------------
(***************************************************************************)
(* The UDP leg, proved for every window size, wire width, rekey threshold, *)
(* modulus of the epoch id and number of datagrams.                        *)
(*                                                                         *)
(* The inductive invariant has one half per sender and one per receiver.   *)
(* The receiver's half is a predicate on a DatagramRx, the datagrams its   *)
(* peer sealed and the set of those handed up, so that what open() does is *)
(* one lemma about operators (OpenStep) with no mention of the network.    *)
(***************************************************************************)
EXTENDS DatagramLeg, WindowTheorems

\* The chain label p seals under.
Label(p) == IF p = "client" THEN "c2s" ELSE "s2c"

\* All datagrams p sealed lie on its chain, not beyond its ratchet, and under the
\* current key below its counter; no two share a key and a counter.
TxConsistent(t, datagrams, label) ==
    /\ t.keys.tx.chain.label = label
    /\ t.keys.tx.epoch_id = t.keys.tx.chain.step % EpochMod
    /\ \A i \in 1 .. Len(datagrams) :
          LET d == datagrams[i] IN
          /\ d.key.label = label
          /\ d.key.step <= t.keys.tx.chain.step
          /\ d.key.step = t.keys.tx.chain.step => d.counter < t.counter
          /\ d.epoch_id = d.key.step % EpochMod
    /\ \A i, j \in 1 .. Len(datagrams) :
          datagrams[i].key = datagrams[j].key /\ datagrams[i].counter = datagrams[j].counter
             => i = j

\* The receiver's slots follow its ratchet, their windows are exact, and nothing
\* was handed up from beyond the current epoch.
RxConsistent(r, datagrams, which, label) ==
    LET chain == r.keys.rx.chain IN
    /\ chain.label = label
    /\ r.current.key = chain
    /\ r.current.epoch_id = chain.step % EpochMod
    /\ r.keys.rx.epoch_id = chain.step % EpochMod
    /\ r.previous # {} <=> chain.step > 0
    /\ \A slot \in r.previous :
          /\ slot.key = [label |-> label, step |-> chain.step - 1]
          /\ slot.epoch_id = slot.key.step % EpochMod
    /\ \A slot, other \in r.previous : slot = other
    /\ which \subseteq 0 .. (Len(datagrams) - 1)
    /\ \A i \in which : datagrams[i + 1].key.step <= chain.step
    /\ \A slot \in LiveSlots(r) :
          Represents(slot.window, OpenedCounters(datagrams, which, slot.key))

LegInv ==
    /\ TypeOK
    /\ \A p \in Peers :
          /\ TxConsistent(tx[p], sent[p], Label(p))
          /\ RxConsistent(rx[p], sent[Other(p)], delivered[p], Label(Other(p)))
          /\ rx[p].keys.rx.chain.step <= tx[Other(p)].keys.tx.chain.step

-----------------------------------------------------------------------------
(***************************************************************************)
(* Arithmetic of the epoch id.                                             *)
(***************************************************************************)
\* wrapping_add(1) on the id of step n gives the id of step n + 1.
LEMMA NextEpochIdOfStep ==
    ASSUME NEW n \in Nat
    PROVE  NextEpochId(n % EpochMod) = (n + 1) % EpochMod
  <1> DEFINE M == EpochMod
             q == n \div M
             r == n % M
  <1>1. M \in Nat \ {0} /\ M >= 3
    BY EpochModAssumption
  <1>2. n = M * q + r /\ r \in 0 .. (M - 1) /\ q \in Nat
    BY <1>1, ModFact
  <1> HIDE DEF M, q, r
  <1>3. CASE r + 1 < M
    <2>1. n + 1 = M * q + (r + 1)
      BY <1>1, <1>2
    <2>2. (n + 1) % M = r + 1
      BY <2>1, <1>1, <1>2, <1>3, ModUnique
    <2>3. r + 1 = M * 0 + (r + 1)
      BY <1>1, <1>2
    <2>4. (r + 1) % M = r + 1
      BY <2>3, <1>1, <1>2, <1>3, ModUnique
    <2> QED
      BY <2>2, <2>4 DEF NextEpochId, M, r
  <1>4. CASE r + 1 = M
    <2>1. n + 1 = M * (q + 1) + 0
      BY <1>1, <1>2, <1>4
    <2>2. (n + 1) % M = 0
      BY <2>1, <1>1, <1>2, ModUnique
    <2>3. r + 1 = M * 1 + 0
      BY <1>1, <1>4
    <2>4. (r + 1) % M = 0
      BY <2>3, <1>1, ModUnique
    <2> QED
      BY <2>2, <2>4 DEF NextEpochId, M, r
  <1> QED
    BY <1>1, <1>2, <1>3, <1>4

\* The id of a step is an epoch id.
LEMMA EpochIdType ==
    ASSUME NEW n \in Nat
    PROVE  n % EpochMod \in EpochIds
  BY ModFact, EpochModAssumption DEF EpochIds

\* The ids of three consecutive epochs are distinct.
LEMMA AdjacentIdsDiffer ==
    ASSUME NEW n \in Nat
    PROVE  /\ n % EpochMod # (n + 1) % EpochMod
           /\ n % EpochMod # (n + 2) % EpochMod
  <1>1. EpochMod \in Nat \ {0} /\ EpochMod >= 3
    BY EpochModAssumption
  <1>2. ASSUME NEW m \in {n + 1, n + 2}
        PROVE  n % EpochMod # m % EpochMod
    <2>1. m \in Nat /\ n <= m /\ m - n < EpochMod /\ m # n
      BY <1>1, <1>2
    <2> QED
      BY <1>1, <2>1, ModInjective
  <1> QED
    BY <1>2
-----------------------------------------------------------------------------
(***************************************************************************)
(* The counters handed up under one key.                                   *)
(***************************************************************************)

\* Sealing more datagrams changes nothing about those already handed up.
LEMMA OpenedAppend ==
    ASSUME NEW s \in Seq(Datagram), NEW d \in Datagram,
           NEW which \in SUBSET (0 .. (Len(s) - 1)), NEW key
    PROVE  OpenedCounters(Append(s, d), which, key) = OpenedCounters(s, which, key)
  <1>1. \A i \in which : Append(s, d)[i + 1] = s[i + 1]
    OBVIOUS
  <1> QED
    BY <1>1 DEF OpenedCounters

\* The i-th of the datagrams s is about to be handed up after those in which.
HandingUp(s, which, i) ==
    /\ s \in Seq(Datagram)
    /\ which \in SUBSET (0 .. (Len(s) - 1))
    /\ i \in 1 .. Len(s)

Includes(which, i) == i - 1 \in which

Including(which, i) == which \cup {i - 1}

\* Handing up one datagram adds its counter under its own key and no other.
LEMMA OpenedAdd ==
    ASSUME NEW s, NEW which, NEW i, NEW key, HandingUp(s, which, i), s[i].key = key
    PROVE  OpenedCounters(s, Including(which, i), key)
             = OpenedCounters(s, which, key) \cup {s[i].counter}
  <1>1. (i - 1) + 1 = i
    BY DEF HandingUp
  <1> QED
    BY <1>1 DEF OpenedCounters, Including

\* Handing up a datagram of another key changes nothing under this key.
LEMMA OpenedAddOther ==
    ASSUME NEW s, NEW which, NEW i, NEW key, HandingUp(s, which, i), s[i].key # key
    PROVE  OpenedCounters(s, Including(which, i), key) = OpenedCounters(s, which, key)
  <1>1. (i - 1) + 1 = i
    BY DEF HandingUp
  <1> QED
    BY <1>1 DEF OpenedCounters, Including

\* The counter of a datagram handed up is among those handed up under its key.
LEMMA OpenedMember ==
    ASSUME NEW s, NEW which, NEW i, HandingUp(s, which, i), Includes(which, i)
    PROVE  s[i].counter \in OpenedCounters(s, which, s[i].key)
  <1>1. (i - 1) + 1 = i
    BY DEF HandingUp
  <1> QED
    BY <1>1 DEF OpenedCounters, Includes

\* No datagram is newly handed up under a key whose epoch lies beyond all of them.
LEMMA OpenedEmpty ==
    ASSUME NEW s \in Seq(Datagram), NEW which \in SUBSET (0 .. (Len(s) - 1)),
           NEW n \in Nat, NEW key \in Chain, key.step > n,
           \A i \in which : s[i + 1].key.step <= n
    PROVE  OpenedCounters(s, which, key) = {}
  <1> SUFFICES ASSUME NEW i \in which, s[i + 1].key = key
               PROVE  FALSE
    BY DEF OpenedCounters
  <1>1. s[i + 1] \in Datagram
    OBVIOUS
  <1> QED
    BY <1>1 DEF Datagram, Chain

-----------------------------------------------------------------------------
(***************************************************************************)
(* What one slot does with a ciphertext of its own key.                    *)
(***************************************************************************)
SlotPresented(slot, s, which, i, wire_counter, ct) ==
    /\ slot \in EpochSlots
    /\ s \in Seq(Datagram)
    /\ which \in SUBSET (0 .. (Len(s) - 1))
    /\ Represents(slot.window, OpenedCounters(s, which, slot.key))
    /\ i \in 0 .. Len(s)
    /\ wire_counter \in WireCounters
    /\ ct = Presented(s, i)

\* try_open hands up only a genuine datagram that was not handed up before, and
\* leaves an exact window behind.
LEMMA SlotStep ==
    ASSUME NEW slot, NEW s, NEW which, NEW i, NEW wire_counter, NEW ct,
           SlotPresented(slot, s, which, i, wire_counter, ct)
    PROVE  LET after == TryOpen(slot, wire_counter, ct)
           IN  /\ after \in EpochSlots
               /\ after.key = slot.key
               /\ after.epoch_id = slot.epoch_id
               /\ Opens(slot, wire_counter, ct) =>
                     /\ HandingUp(s, which, i)
                     /\ ~Includes(which, i)
                     /\ s[i].key = slot.key
                     /\ Represents(after.window, OpenedCounters(s, Including(which, i), slot.key))
               /\ ~Opens(slot, wire_counter, ct) =>
                     Represents(after.window, OpenedCounters(s, which, slot.key))
  <1> DEFINE full == FullCounter(slot, wire_counter)
             after == TryOpen(slot, wire_counter, ct)
             opened == OpenedCounters(s, which, slot.key)
  <1>0. /\ full \in Nat /\ slot.window \in Window /\ slot \in EpochSlots
        /\ Represents(slot.window, opened)
    BY FullCounterType DEF EpochSlots, SlotPresented
  <1>1. CASE ~Decrypts(slot, wire_counter, ct)
    BY <1>0, <1>1 DEF TryOpen, Opens
  <1>2. CASE Decrypts(slot, wire_counter, ct)
    <2>1. ct.key = slot.key /\ ct.counter = full
      BY <1>2 DEF Decrypts, Authentic
    <2>2. HandingUp(s, which, i) /\ ct = s[i]
      BY <1>0, <2>1 DEF Junk, Presented, SlotPresented, HandingUp, EpochSlots, Chain
    <2>3. after = [slot EXCEPT !.window = Accept(slot.window, full)]
      BY <1>2 DEF TryOpen
    <2>4. /\ after \in EpochSlots /\ after.key = slot.key
          /\ after.epoch_id = slot.epoch_id
          /\ after.window = Accept(slot.window, full)
      BY <2>3, <1>0, AcceptType DEF EpochSlots
    <2>5. CASE Refused(slot.window, full)
      <3>1. Represents(Accept(slot.window, full), opened)
        BY <1>0, <2>5, RefusedKeepsMeaning
      <3> QED
        BY <2>4, <2>5, <3>1 DEF Opens
    <2>6. CASE ~Refused(slot.window, full)
      <3>1. full \notin opened
        BY <1>0, <2>6, AcceptedIsNew
      <3>2. Represents(Accept(slot.window, full), opened \cup {full})
        BY <1>0, <2>6, AcceptAdds
      <3>3. ~Includes(which, i)
        BY <2>1, <2>2, <3>1, OpenedMember
      <3>4. OpenedCounters(s, Including(which, i), slot.key) = opened \cup {full}
        BY <2>1, <2>2, OpenedAdd
      <3> QED
        BY <1>2, <2>1, <2>2, <2>4, <2>6, <3>2, <3>3, <3>4 DEF Opens
    <2> QED
      BY <2>5, <2>6
  <1> QED
    BY <1>1, <1>2

-----------------------------------------------------------------------------
(***************************************************************************)
(* What open() does to a consistent receiver.                              *)
(***************************************************************************)

\* The slot a candidate next epoch starts from.
LEMMA CandidateSlot ==
    ASSUME NEW r \in DatagramRx, NEW s \in Seq(Datagram), NEW which, NEW label,
           RxConsistent(r, s, which, label)
    PROVE  LET cand == Fresh(PeekNext(r.keys.rx))
           IN  /\ cand \in EpochSlots
               /\ cand.key = [label |-> label, step |-> r.keys.rx.chain.step + 1]
               /\ cand.key \in Chain
               /\ cand.epoch_id = (r.keys.rx.chain.step + 1) % EpochMod
               /\ Represents(cand.window, OpenedCounters(s, which, cand.key))
  <1> DEFINE n == r.keys.rx.chain.step
             keys == PeekNext(r.keys.rx)
             cand == Fresh(keys)
  <1>1. r.keys.rx.chain \in Chain /\ n \in Nat /\ r.keys.rx.chain.label = label
    BY DEF DatagramRx, KeyMaterial, Ratchet, Chain, RxConsistent
  <1>2. r.keys.rx.epoch_id = n % EpochMod
    BY DEF RxConsistent
  <1>3. keys.epoch_id = (n + 1) % EpochMod
    BY <1>1, <1>2, NextEpochIdOfStep DEF PeekNext, DeriveEpoch
  <1>4. keys.key = [label |-> label, step |-> n + 1] /\ keys.key \in Chain
    BY <1>1 DEF PeekNext, DeriveEpoch, StepChain, Chain
  <1>5. keys \in EpochKeys
    <2>1. (n + 1) % EpochMod \in EpochIds
      BY <1>1, EpochIdType
    <2> QED
      BY <1>3, <1>4, <2>1 DEF EpochKeys, PeekNext, DeriveEpoch
  <1>6. OpenedCounters(s, which, keys.key) = {}
    <2>1. which \in SUBSET (0 .. (Len(s) - 1)) /\ \A i \in which : s[i + 1].key.step <= n
      BY DEF RxConsistent
    <2>2. keys.key.step > n
      BY <1>1, <1>4
    <2> QED
      BY <1>1, <1>4, <2>1, <2>2, OpenedEmpty
  <1> HIDE DEF keys
  <1>7. /\ cand \in EpochSlots /\ cand.epoch_id = keys.epoch_id /\ cand.key = keys.key
        /\ cand.window = NewWindow
    BY <1>5, FreshSlot
  <1> QED
    BY <1>3, <1>4, <1>6, <1>7, NewWindowRepresents DEF keys

\* A consistent receiver stays consistent through any call of open(); when the
\* call succeeds it hands up a sealed datagram that was not handed up before, and
\* if the ratchet moved, one sealed under the key it moved to.
LEMMA OpenStep ==
    ASSUME NEW r \in DatagramRx, NEW s \in Seq(Datagram), NEW which, NEW label,
           RxConsistent(r, s, which, label),
           NEW epoch_id \in EpochIds, NEW wire_counter \in WireCounters,
           NEW i \in 0 .. Len(s), NEW ct, ct = Presented(s, i)
    PROVE  LET after == AfterOpen(r, epoch_id, wire_counter, ct)
               ok    == OpenOk(r, epoch_id, wire_counter, ct)
           IN  /\ after \in DatagramRx
               /\ ok => /\ HandingUp(s, which, i)
                        /\ ~Includes(which, i)
                        /\ s[i].key \in {slot.key : slot \in LiveSlots(after)}
                        /\ RxConsistent(after, s, Including(which, i), label)
               /\ ~ok => RxConsistent(after, s, which, label)
               /\ after.keys # r.keys =>
                     /\ ok
                     /\ s[i].key = after.keys.rx.chain
  <1> DEFINE after == AfterOpen(r, epoch_id, wire_counter, ct)
             ok    == OpenOk(r, epoch_id, wire_counter, ct)
             chain == r.keys.rx.chain
             n     == chain.step
             cand  == Fresh(PeekNext(r.keys.rx))
  <1>0. /\ which \in SUBSET (0 .. (Len(s) - 1))
        /\ r.current \in EpochSlots /\ r.previous \in SUBSET EpochSlots
        /\ r.keys \in KeyMaterial /\ chain \in Chain /\ n \in Nat
        /\ chain.label = label /\ r.current.key = chain
    BY DEF RxConsistent, DatagramRx, KeyMaterial, Ratchet, Chain
  <1>1. CASE Route(r, epoch_id) = "current"
    <2> DEFINE new == TryOpen(r.current, wire_counter, ct)
    <2>1. after = [r EXCEPT !.current = new]
      BY <1>1 DEF AfterOpen
    <2>2. ok <=> Opens(r.current, wire_counter, ct)
      BY <1>1 DEF OpenOk, Tried
    <2>3. Represents(r.current.window, OpenedCounters(s, which, r.current.key))
      BY DEF RxConsistent, LiveSlots
    <2>4. /\ new \in EpochSlots /\ new.key = chain /\ new.epoch_id = r.current.epoch_id
          /\ ok => /\ HandingUp(s, which, i) /\ ~Includes(which, i) /\ s[i].key = chain
                   /\ Represents(new.window, OpenedCounters(s, Including(which, i), chain))
          /\ ~ok => Represents(new.window, OpenedCounters(s, which, chain))
      <3>1. SlotPresented(r.current, s, which, i, wire_counter, ct)
        BY <1>0, <2>3 DEF SlotPresented
      <3> QED
        BY <1>0, <2>2, <3>1, SlotStep
    <2>5. /\ after \in DatagramRx /\ after.current = new /\ after.keys = r.keys
          /\ after.previous = r.previous
      BY <2>1, <2>4 DEF DatagramRx
    <2>6. ASSUME ok
          PROVE  RxConsistent(after, s, Including(which, i), label)
      <3>1. ASSUME NEW slot \in r.previous
            PROVE  Represents(slot.window, OpenedCounters(s, Including(which, i), slot.key))
        <4>1. slot.key # s[i].key
          BY <1>0, <2>4, <2>6 DEF RxConsistent
        <4>2. OpenedCounters(s, Including(which, i), slot.key) = OpenedCounters(s, which, slot.key)
          BY <1>0, <2>4, <2>6, <4>1, OpenedAddOther
        <4> QED
          BY <4>2 DEF RxConsistent, LiveSlots
      <3>2. Including(which, i) \subseteq 0 .. (Len(s) - 1)
        BY <1>0, <2>4, <2>6 DEF HandingUp, Including
      <3>3. \A j \in Including(which, i) : s[j + 1].key.step <= n
        BY <1>0, <2>4, <2>6 DEF RxConsistent, HandingUp, Including
      <3> QED
        BY <2>4, <2>5, <2>6, <3>1, <3>2, <3>3 DEF RxConsistent, LiveSlots
    <2>7. ASSUME ~ok
          PROVE  RxConsistent(after, s, which, label)
      BY <2>4, <2>5, <2>7 DEF RxConsistent, LiveSlots
    <2> QED
      BY <2>4, <2>5, <2>6, <2>7 DEF LiveSlots
  <1>2. CASE Route(r, epoch_id) = "previous"
    <2>1. PICK old \in r.previous : r.previous = {old}
      BY <1>2 DEF Route, RxConsistent
    <2> DEFINE new == TryOpen(old, wire_counter, ct)
    <2>2. after = [r EXCEPT !.previous = {new}]
      BY <1>2, <2>1 DEF AfterOpen
    <2>3. ok <=> Opens(old, wire_counter, ct)
      BY <1>2, <2>1 DEF OpenOk, Tried
    <2>4. /\ Represents(old.window, OpenedCounters(s, which, old.key))
          /\ old.key = [label |-> label, step |-> n - 1]
          /\ old.epoch_id = old.key.step % EpochMod
          /\ old \in EpochSlots /\ n > 0
      BY <1>0, <2>1 DEF RxConsistent, LiveSlots
    <2>5. /\ new \in EpochSlots /\ new.key = old.key /\ new.epoch_id = old.epoch_id
          /\ ok => /\ HandingUp(s, which, i) /\ ~Includes(which, i) /\ s[i].key = old.key
                   /\ Represents(new.window, OpenedCounters(s, Including(which, i), old.key))
          /\ ~ok => Represents(new.window, OpenedCounters(s, which, old.key))
      <3>1. SlotPresented(old, s, which, i, wire_counter, ct)
        BY <1>0, <2>4 DEF SlotPresented
      <3> QED
        BY <2>3, <3>1, SlotStep
    <2>6. /\ after \in DatagramRx /\ after.current = r.current /\ after.keys = r.keys
          /\ after.previous = {new}
      BY <2>2, <2>5 DEF DatagramRx
    <2>7. ASSUME ok
          PROVE  RxConsistent(after, s, Including(which, i), label)
      <3>1. Represents(r.current.window, OpenedCounters(s, Including(which, i), chain))
        <4>1. s[i].key # chain
          BY <1>0, <2>4, <2>5, <2>7
        <4>2. OpenedCounters(s, Including(which, i), chain) = OpenedCounters(s, which, chain)
          BY <1>0, <2>5, <2>7, <4>1, OpenedAddOther
        <4> QED
          BY <1>0, <4>2 DEF RxConsistent, LiveSlots
      <3>2. Including(which, i) \subseteq 0 .. (Len(s) - 1)
        BY <1>0, <2>5, <2>7 DEF HandingUp, Including
      <3>3. \A j \in Including(which, i) : s[j + 1].key.step <= n
        BY <1>0, <2>4, <2>5, <2>7 DEF RxConsistent, HandingUp, Including
      <3> QED
        BY <1>0, <2>4, <2>5, <2>6, <2>7, <3>1, <3>2, <3>3 DEF RxConsistent, LiveSlots
    <2>8. ASSUME ~ok
          PROVE  RxConsistent(after, s, which, label)
      BY <1>0, <2>4, <2>5, <2>6, <2>8 DEF RxConsistent, LiveSlots
    <2> QED
      BY <2>5, <2>6, <2>7, <2>8 DEF LiveSlots
  <1>3. CASE Route(r, epoch_id) = "next"
    <2> DEFINE new == TryOpen(cand, wire_counter, ct)
               keys2 == [r.keys EXCEPT !.rx = AdvanceRatchet(r.keys.rx)]
    <2>1. ok <=> Opens(cand, wire_counter, ct)
      BY <1>3 DEF OpenOk, Tried
    <2>2. CASE ~ok
      <3>1. after = r
        BY <1>3, <2>2 DEF AfterOpen
      <3> QED
        BY <2>2, <3>1
    <2>3. CASE ok
      <3>1. after = [keys |-> keys2, current |-> new, previous |-> {r.current}]
        BY <1>3, <2>3 DEF AfterOpen
      <3>2. /\ cand \in EpochSlots
            /\ cand.key = [label |-> label, step |-> n + 1]
            /\ cand.key \in Chain
            /\ cand.epoch_id = (n + 1) % EpochMod
            /\ Represents(cand.window, OpenedCounters(s, which, cand.key))
        BY CandidateSlot
      <3> HIDE DEF cand
      <3>3. /\ new \in EpochSlots /\ new.key = cand.key /\ new.epoch_id = cand.epoch_id
            /\ HandingUp(s, which, i) /\ ~Includes(which, i) /\ s[i].key = cand.key
            /\ Represents(new.window, OpenedCounters(s, Including(which, i), cand.key))
        <4>1. SlotPresented(cand, s, which, i, wire_counter, ct)
          BY <1>0, <3>2 DEF SlotPresented
        <4> QED
          BY <2>1, <2>3, <4>1, SlotStep
      <3>4. /\ keys2 \in KeyMaterial
            /\ keys2.rx.chain = cand.key
            /\ keys2.rx.epoch_id = (n + 1) % EpochMod
        <4>1. r.keys.rx \in Ratchet /\ r.keys.tx \in Ratchet /\ r.keys.rx.epoch_id = n % EpochMod
          BY <1>0 DEF KeyMaterial, RxConsistent
        <4>2. AdvanceRatchet(r.keys.rx).epoch_id = (n + 1) % EpochMod
          BY <1>0, <4>1, NextEpochIdOfStep DEF AdvanceRatchet
        <4>3. AdvanceRatchet(r.keys.rx).chain = cand.key
          BY <1>0, <3>2, <4>1 DEF AdvanceRatchet, StepChain, Chain
        <4>4. AdvanceRatchet(r.keys.rx) \in Ratchet
          <5>1. (n + 1) % EpochMod \in EpochIds
            BY <1>0, EpochIdType
          <5> QED
            BY <3>2, <4>2, <4>3, <5>1 DEF Ratchet, AdvanceRatchet
        <4> QED
          BY <1>0, <4>2, <4>3, <4>4 DEF KeyMaterial
      <3>5. after \in DatagramRx
        BY <1>0, <3>1, <3>3, <3>4 DEF DatagramRx
      <3>6. Represents(r.current.window, OpenedCounters(s, Including(which, i), chain))
        <4>1. s[i].key # chain
          BY <1>0, <3>2, <3>3
        <4>2. OpenedCounters(s, Including(which, i), chain) = OpenedCounters(s, which, chain)
          BY <1>0, <3>3, <4>1, OpenedAddOther
        <4> QED
          BY <1>0, <4>2 DEF RxConsistent, LiveSlots
      <3>7. Including(which, i) \subseteq 0 .. (Len(s) - 1)
        BY <1>0, <3>3 DEF HandingUp, Including
      <3>8. \A j \in Including(which, i) : s[j + 1].key.step <= n + 1
        <4>1. ASSUME NEW j \in which
              PROVE  s[j + 1].key.step <= n + 1
          <5>1. s[j + 1] \in Datagram
            BY <1>0
          <5>2. s[j + 1].key.step <= n
            BY DEF RxConsistent
          <5> QED
            BY <1>0, <5>1, <5>2 DEF Datagram, Chain
        <4>2. s[(i - 1) + 1].key.step <= n + 1
          BY <1>0, <3>2, <3>3 DEF HandingUp, Including
        <4> QED
          BY <4>1, <4>2 DEF Including
      <3>9. r.current.epoch_id = n % EpochMod /\ chain = [label |-> label, step |-> n]
        BY <1>0 DEF RxConsistent, Chain
      <3>10. RxConsistent(after, s, Including(which, i), label)
        <4>1. after.keys = keys2 /\ after.current = new /\ after.previous = {r.current}
          BY <3>1
        <4>2. keys2.rx.chain.step = n + 1 /\ keys2.rx.chain.label = label
          BY <3>2, <3>4
        <4>3. /\ n = (n + 1) - 1
              /\ n + 1 > 0
          BY <1>0
        <4> HIDE DEF keys2, new
        <4> QED
          BY <1>0, <3>2, <3>3, <3>4, <3>6, <3>7, <3>8, <3>9, <4>1, <4>2, <4>3
             DEF RxConsistent, LiveSlots
      <3>11. after.current = new /\ after.keys = keys2 /\ after.current \in LiveSlots(after)
        BY <3>1 DEF LiveSlots
      <3>12. s[i].key = after.current.key /\ s[i].key = after.keys.rx.chain
        BY <3>3, <3>4, <3>11
      <3> HIDE DEF after, ok
      <3> QED
        BY <2>3, <3>3, <3>5, <3>10, <3>11, <3>12 DEF after, ok
    <2> QED
      BY <2>2, <2>3
  <1>4. CASE Route(r, epoch_id) = "out of range"
    <2>1. after = r /\ ~ok
      BY <1>4 DEF AfterOpen, OpenOk, Tried
    <2> QED
      BY <2>1
  <1> QED
    BY <1>1, <1>2, <1>3, <1>4 DEF Route

-----------------------------------------------------------------------------
(***************************************************************************)
(* What seal() does to a consistent sender.                                *)
(***************************************************************************)
LEMMA RekeyStep ==
    ASSUME NEW t \in DatagramTx, NEW s \in Seq(Datagram), NEW label,
           TxConsistent(t, s, label)
    PROVE  /\ Rekeyed(t) \in DatagramTx
           /\ Rekeyed(t).counter \in 0 .. (RekeyAfter - 1)
           /\ Rekeyed(t).keys.tx.chain.step >= t.keys.tx.chain.step
           /\ TxConsistent(Rekeyed(t), s, label)
  <1> DEFINE n == t.keys.tx.chain.step
             t2 == Rekeyed(t)
  <1>0. /\ t.keys \in KeyMaterial /\ t.counter \in 0 .. RekeyAfter
        /\ t.keys.tx \in Ratchet /\ t.keys.tx.chain \in Chain /\ n \in Nat
        /\ RekeyAfter \in Nat \ {0}
    BY LegAssumption DEF DatagramTx, KeyMaterial, Ratchet, Chain
  <1>1. CASE t.counter < RekeyAfter
    <2>1. Rekeyed(t) = t
      BY <1>0, <1>1 DEF Rekeyed
    <2> QED
      BY <1>0, <1>1, <2>1
  <1>2. CASE t.counter >= RekeyAfter
    <2>1. t2 = [keys |-> [t.keys EXCEPT !.tx = AdvanceRatchet(t.keys.tx)], counter |-> 0]
      BY <1>2 DEF Rekeyed
    <2>2. /\ AdvanceRatchet(t.keys.tx).chain = [label |-> label, step |-> n + 1]
          /\ AdvanceRatchet(t.keys.tx).chain \in Chain
      BY <1>0 DEF AdvanceRatchet, StepChain, Chain, TxConsistent
    <2>3. AdvanceRatchet(t.keys.tx).epoch_id = (n + 1) % EpochMod
      BY <1>0, NextEpochIdOfStep DEF AdvanceRatchet, TxConsistent
    <2>4. AdvanceRatchet(t.keys.tx) \in Ratchet
      <3>1. (n + 1) % EpochMod \in EpochIds
        BY <1>0, EpochIdType
      <3> QED
        BY <2>2, <2>3, <3>1 DEF Ratchet, AdvanceRatchet
    <2>5. /\ t2.keys \in KeyMaterial /\ t2.keys.tx = AdvanceRatchet(t.keys.tx)
          /\ t2.counter = 0 /\ t2 \in DatagramTx
      BY <1>0, <2>1, <2>4 DEF KeyMaterial, DatagramTx
    <2>6. ASSUME NEW j \in 1 .. Len(s)
          PROVE  /\ s[j].key.label = label
                 /\ s[j].key.step < n + 1
                 /\ s[j].key.step \in Nat
                 /\ s[j].epoch_id = s[j].key.step % EpochMod
      <3>1. s[j] \in Datagram
        OBVIOUS
      <3> QED
        BY <1>0, <3>1 DEF TxConsistent, Datagram, Chain
    <2>7. TxConsistent(t2, s, label)
      <3> HIDE DEF t2
      <3>1. t2.keys.tx.chain.label = label /\ t2.keys.tx.chain.step = n + 1
        BY <2>2, <2>5
      <3>2. t2.keys.tx.epoch_id = (n + 1) % EpochMod
        BY <2>3, <2>5
      <3> QED
        BY <1>0, <2>6, <3>1, <3>2 DEF TxConsistent
    <2> QED
      BY <1>0, <2>2, <2>5, <2>7
  <1> QED
    BY <1>0, <1>1, <1>2

\* seal() keeps the sender's half of the invariant.
LEMMA SealStep ==
    ASSUME NEW t \in DatagramTx, NEW s \in Seq(Datagram), NEW label,
           TxConsistent(t, s, label)
    PROVE  LET after == [Rekeyed(t) EXCEPT !.counter = Rekeyed(t).counter + 1]
           IN  /\ after \in DatagramTx
               /\ Sealed(t) \in Datagram
               /\ after.keys.tx.chain.step >= t.keys.tx.chain.step
               /\ TxConsistent(after, Append(s, Sealed(t)), label)
  <1> DEFINE t2 == Rekeyed(t)
             d == Sealed(t)
             after == [t2 EXCEPT !.counter = t2.counter + 1]
             n == t2.keys.tx.chain.step
             ext == Append(s, d)
  <1>0. /\ t2 \in DatagramTx /\ t2.counter \in 0 .. (RekeyAfter - 1)
        /\ n >= t.keys.tx.chain.step
        /\ TxConsistent(t2, s, label)
    BY RekeyStep
  <1>1. d = [epoch_id |-> t2.keys.tx.epoch_id, key |-> t2.keys.tx.chain, counter |-> t2.counter]
    BY DEF Sealed, Current, DeriveEpoch
  <1> HIDE DEF t2, d
  <1>2. d \in Datagram /\ n \in Nat /\ RekeyAfter \in Nat /\ t2.keys.tx.chain \in Chain
    BY <1>0, <1>1, LegAssumption DEF Datagram, DatagramTx, KeyMaterial, Ratchet, Chain
  <1>3. after \in DatagramTx /\ after.keys = t2.keys /\ after.counter = t2.counter + 1
    BY <1>0, <1>2 DEF DatagramTx
  <1>4. /\ ext \in Seq(Datagram) /\ Len(ext) = Len(s) + 1 /\ ext[Len(s) + 1] = d
        /\ \A j \in 1 .. Len(s) : ext[j] = s[j]
        /\ Len(s) \in Nat
    BY <1>2
  <1>5. ASSUME NEW j \in 1 .. Len(s)
        PROVE  /\ s[j] \in Datagram
               /\ s[j].key.label = label
               /\ s[j].key.step <= n
               /\ s[j].key.step = n => s[j].counter < t2.counter
               /\ s[j].epoch_id = s[j].key.step % EpochMod
    BY <1>0 DEF TxConsistent
  <1>6. d.key.label = label /\ d.key.step = n /\ d.counter = t2.counter
        /\ d.epoch_id = n % EpochMod /\ d.counter \in Nat
    BY <1>0, <1>1, <1>2 DEF TxConsistent
  <1>7. ASSUME NEW j \in 1 .. Len(s)
        PROVE  ~(s[j].key = d.key /\ s[j].counter = d.counter)
    BY <1>5, <1>6 DEF Datagram
  <1> HIDE DEF ext, after
  <1>8. ASSUME NEW j \in 1 .. Len(ext)
        PROVE  /\ ext[j].key.label = label
               /\ ext[j].key.step <= n
               /\ ext[j].key.step = n => ext[j].counter < t2.counter + 1
               /\ ext[j].epoch_id = ext[j].key.step % EpochMod
    <2>1. CASE j = Len(s) + 1
      BY <1>2, <1>4, <1>6, <2>1
    <2>2. CASE j \in 1 .. Len(s)
      <3>1. ext[j] = s[j]
        BY <1>4, <2>2
      <3>2. s[j].counter \in Nat
        BY <1>5, <2>2 DEF Datagram
      <3> QED
        BY <1>5, <1>6, <2>2, <3>1, <3>2
    <2> QED
      BY <1>4, <2>1, <2>2
  <1>9. ASSUME NEW i \in 1 .. Len(ext), NEW j \in 1 .. Len(ext),
               ext[i].key = ext[j].key, ext[i].counter = ext[j].counter
        PROVE  i = j
    <2>1. CASE i \in 1 .. Len(s) /\ j \in 1 .. Len(s)
      BY <1>0, <1>4, <1>9, <2>1 DEF TxConsistent
    <2>2. CASE i \in 1 .. Len(s) /\ j = Len(s) + 1
      BY <1>4, <1>7, <1>9, <2>2
    <2>3. CASE i = Len(s) + 1 /\ j \in 1 .. Len(s)
      BY <1>4, <1>7, <1>9, <2>3
    <2> QED
      BY <1>4, <2>1, <2>2, <2>3
  <1>10. TxConsistent(after, ext, label)
    BY <1>0, <1>3, <1>8, <1>9 DEF TxConsistent
  <1> QED
    BY <1>0, <1>2, <1>3, <1>10 DEF t2, d, ext, after

-----------------------------------------------------------------------------
(***************************************************************************)
(* The inductive invariant.                                                *)
(***************************************************************************)
\* There are two peers, and each seals under a label of its own.
LEMMA PeerFacts ==
    /\ \A p \in Peers : Other(p) \in Peers /\ Other(p) # p /\ Other(Other(p)) = p
    /\ \A p \in Peers : Label(p) \in {"c2s", "s2c"}
    /\ \A p, q \in Peers : Label(p) = Label(q) => p = q
    /\ \A p, q \in Peers : p # q => q = Other(p)
  BY DEF Peers, Other, Label

\* The key material the two ends start from fits together.
LEMMA DerivedKeys ==
    ASSUME NEW p \in Peers
    PROVE  LET keys == DeriveFromRoot(p = "client")
           IN  /\ keys \in KeyMaterial
               /\ keys.tx = [chain |-> [label |-> Label(p), step |-> 0], epoch_id |-> 0]
               /\ keys.rx = [chain |-> [label |-> Label(Other(p)), step |-> 0], epoch_id |-> 0]
  BY EpochModAssumption
     DEF DeriveFromRoot, FromRoot, KeyMaterial, Ratchet, Chain, EpochIds, Peers, Other, Label

\* The first epoch has id zero.
LEMMA ZeroMod == 0 % EpochMod = 0
  <1>1. EpochMod \in Nat \ {0} /\ 0 = EpochMod * 0 + 0
    BY EpochModAssumption
  <1> QED
    BY <1>1, ModUnique

\* The inductive invariant holds initially.
LEMMA InitLegInv == Init => LegInv
  <1> SUFFICES ASSUME Init PROVE LegInv
    OBVIOUS
  <1>1. ASSUME NEW p \in Peers
        PROVE  /\ tx[p] \in DatagramTx /\ rx[p] \in DatagramRx
               /\ sent[p] = <<>> /\ delivered[p] = {}
               /\ TxConsistent(tx[p], <<>>, Label(p))
               /\ RxConsistent(rx[p], <<>>, {}, Label(Other(p)))
               /\ rx[p].keys.rx.chain.step = 0 /\ tx[p].keys.tx.chain.step = 0
    <2> DEFINE keys == DeriveFromRoot(p = "client")
               epoch == Current(keys.rx)
    <2>1. /\ keys \in KeyMaterial
          /\ keys.tx = [chain |-> [label |-> Label(p), step |-> 0], epoch_id |-> 0]
          /\ keys.rx = [chain |-> [label |-> Label(Other(p)), step |-> 0], epoch_id |-> 0]
      BY DerivedKeys
    <2>2. tx[p] = [keys |-> keys, counter |-> 0]
      BY DEF Init, NewTx
    <2>3. rx[p] = [keys |-> keys, current |-> Fresh(epoch), previous |-> {}]
      BY DEF Init, NewRx
    <2> HIDE DEF keys
    <2>4. epoch = [epoch_id |-> 0, key |-> keys.rx.chain] /\ epoch \in EpochKeys
      BY <2>1 DEF Current, DeriveEpoch, EpochKeys, KeyMaterial, Ratchet
    <2> HIDE DEF epoch
    <2>5. /\ Fresh(epoch) \in EpochSlots /\ Fresh(epoch).key = keys.rx.chain
          /\ Fresh(epoch).epoch_id = 0 /\ Fresh(epoch).window = NewWindow
      BY <2>4, FreshSlot
    <2>6. OpenedCounters(<<>>, {}, keys.rx.chain) = {}
      BY DEF OpenedCounters
    <2>7. TxConsistent(tx[p], <<>>, Label(p))
      BY <2>1, <2>2, ZeroMod DEF TxConsistent
    <2>8. RxConsistent(rx[p], <<>>, {}, Label(Other(p)))
      <3>1. /\ rx[p].keys = keys /\ rx[p].current = Fresh(epoch) /\ rx[p].previous = {}
            /\ LiveSlots(rx[p]) = {Fresh(epoch)}
        BY <2>3 DEF LiveSlots
      <3>2. keys.rx.chain.step = 0 /\ keys.rx.chain.label = Label(Other(p)) /\ keys.rx.epoch_id = 0
        BY <2>1
      <3>3. Represents(Fresh(epoch).window, OpenedCounters(<<>>, {}, Fresh(epoch).key))
        BY <2>5, <2>6, NewWindowRepresents
      <3> QED
        BY <2>5, <3>1, <3>2, <3>3, ZeroMod DEF RxConsistent
    <2> QED
      BY <2>1, <2>2, <2>3, <2>5, <2>7, <2>8, LegAssumption DEF DatagramTx, DatagramRx, Init
  <1>2. TypeOK
    BY <1>1 DEF TypeOK, Init
  <1>3. ASSUME NEW p \in Peers
        PROVE  /\ TxConsistent(tx[p], sent[p], Label(p))
               /\ RxConsistent(rx[p], sent[Other(p)], delivered[p], Label(Other(p)))
               /\ rx[p].keys.rx.chain.step <= tx[Other(p)].keys.tx.chain.step
    <2>1. Other(p) \in Peers
      BY PeerFacts
    <2>2. sent[Other(p)] = <<>> /\ tx[Other(p)].keys.tx.chain.step = 0
      BY <1>1, <2>1
    <2>3. rx[p].keys.rx.chain.step = 0 /\ sent[p] = <<>> /\ delivered[p] = {}
      BY <1>1
    <2>4. TxConsistent(tx[p], <<>>, Label(p)) /\ RxConsistent(rx[p], <<>>, {}, Label(Other(p)))
      BY <1>1
    <2> QED
      BY <2>2, <2>3, <2>4
  <1> QED
    BY <1>2, <1>3 DEF LegInv

\* What LegInv says of one end, without the quantifier.
LEMMA LegInvAt ==
    ASSUME LegInv, NEW p \in Peers
    PROVE  /\ tx[p] \in DatagramTx /\ rx[p] \in DatagramRx
           /\ sent[p] \in Seq(Datagram)
           /\ delivered[p] \in SUBSET Nat /\ handed[p] \in Nat
           /\ TxConsistent(tx[p], sent[p], Label(p))
           /\ RxConsistent(rx[p], sent[Other(p)], delivered[p], Label(Other(p)))
           /\ delivered[p] \in SUBSET (0 .. (Len(sent[Other(p)]) - 1))
           /\ rx[p].keys.rx.chain.step <= tx[Other(p)].keys.tx.chain.step
           /\ rx[p].keys.rx.chain.step \in Nat
           /\ tx[p].keys.tx.chain.step \in Nat
  <1>1. /\ tx[p] \in DatagramTx /\ rx[p] \in DatagramRx /\ sent[p] \in Seq(Datagram)
        /\ delivered[p] \in SUBSET Nat /\ handed[p] \in Nat
    BY DEF LegInv, TypeOK
  <1>2. /\ TxConsistent(tx[p], sent[p], Label(p))
        /\ RxConsistent(rx[p], sent[Other(p)], delivered[p], Label(Other(p)))
        /\ rx[p].keys.rx.chain.step <= tx[Other(p)].keys.tx.chain.step
    BY DEF LegInv
  <1>3. delivered[p] \in SUBSET (0 .. (Len(sent[Other(p)]) - 1))
    BY <1>2 DEF RxConsistent
  <1>4. rx[p].keys.rx.chain.step \in Nat /\ tx[p].keys.tx.chain.step \in Nat
    BY <1>1 DEF DatagramTx, DatagramRx, KeyMaterial, Ratchet, Chain
  <1> QED
    BY <1>1, <1>2, <1>3, <1>4

\* Appending to the peer's datagrams keeps the receiver consistent.
LEMMA RxConsistentAppend ==
    ASSUME NEW r, NEW s \in Seq(Datagram), NEW d \in Datagram, NEW which, NEW label,
           RxConsistent(r, s, which, label)
    PROVE  RxConsistent(r, Append(s, d), which, label)
  <1> DEFINE ext == Append(s, d)
  <1>1. which \in SUBSET (0 .. (Len(s) - 1))
    BY DEF RxConsistent
  <1>2. \A key : OpenedCounters(ext, which, key) = OpenedCounters(s, which, key)
    BY <1>1, OpenedAppend
  <1>3. \A i \in which : ext[i + 1] = s[i + 1]
    BY <1>1
  <1>4. which \subseteq 0 .. (Len(ext) - 1)
    BY <1>1
  <1>5. \A i \in which : ext[i + 1].key.step <= r.keys.rx.chain.step
    BY <1>3 DEF RxConsistent
  <1>6. \A slot \in LiveSlots(r) : Represents(slot.window, OpenedCounters(ext, which, slot.key))
    BY <1>2 DEF RxConsistent
  <1> HIDE DEF ext
  <1>7. RxConsistent(r, ext, which, label)
    BY <1>4, <1>5, <1>6 DEF RxConsistent
  <1> QED
    BY <1>7 DEF ext

\* The abstract channel towards one end.
ChannelStep(p) ==
    \/ /\ Len(sent'[Other(p)]) = Len(sent[Other(p)]) + 1
       /\ delivered'[p] = delivered[p]
       /\ handed'[p] = handed[p]
    \/ \E i \in 0 .. (Len(sent[Other(p)]) - 1) :
          /\ i \notin delivered[p]
          /\ delivered'[p] = delivered[p] \cup {i}
          /\ handed'[p] = handed[p] + 1
          /\ Len(sent'[Other(p)]) = Len(sent[Other(p)])
    \/ /\ Len(sent'[Other(p)]) = Len(sent[Other(p)])
       /\ delivered'[p] = delivered[p]
       /\ handed'[p] = handed[p]

\* If an end's receiving ratchet moves, a datagram of the new key is handed up.
MovesOnProof(p) ==
    rx'[p].keys # rx[p].keys =>
       \E i \in delivered'[p] \ delivered[p] :
          sent[Other(p)][i + 1].key = rx'[p].keys.rx.chain

\* seal() preserves the invariant.
LEMMA SealPreserves ==
    ASSUME LegInv, NEW q \in Peers, Seal(q)
    PROVE  LegInv' /\ (\A p \in Peers : ChannelStep(p) /\ MovesOnProof(p))
  <1> DEFINE d == Sealed(tx[q])
             after == [Rekeyed(tx[q]) EXCEPT !.counter = Rekeyed(tx[q]).counter + 1]
  <1>1. /\ after \in DatagramTx /\ d \in Datagram
        /\ after.keys.tx.chain.step >= tx[q].keys.tx.chain.step
        /\ TxConsistent(after, Append(sent[q], d), Label(q))
    BY LegInvAt, SealStep
  <1> HIDE DEF d
  <1>2. /\ tx' = [tx EXCEPT ![q] = after]
        /\ sent' = [sent EXCEPT ![q] = Append(sent[q], d)]
        /\ UNCHANGED <<rx, delivered, handed>>
    BY DEF Seal, d
  <1> HIDE DEF after
  <1>3. TypeOK
    BY DEF LegInv
  <1>4. /\ tx'[q] = after /\ sent'[q] = Append(sent[q], d)
        /\ \A p \in Peers : p # q => tx'[p] = tx[p] /\ sent'[p] = sent[p]
    BY <1>2, <1>3 DEF TypeOK
  <1>5. TypeOK'
    BY <1>1, <1>2, <1>3 DEF TypeOK
  <1>6. ASSUME NEW p \in Peers
        PROVE  TxConsistent(tx'[p], sent'[p], Label(p))
    <2>1. CASE p = q
      BY <1>1, <1>4, <2>1
    <2>2. CASE p # q
      BY <1>4, <2>2, LegInvAt
    <2> QED
      BY <2>1, <2>2
  <1>7. ASSUME NEW p \in Peers
        PROVE  /\ RxConsistent(rx'[p], sent'[Other(p)], delivered'[p], Label(Other(p)))
               /\ rx'[p].keys.rx.chain.step <= tx'[Other(p)].keys.tx.chain.step
               /\ ChannelStep(p)
    <2>0. Other(p) \in Peers /\ rx' = rx /\ delivered' = delivered /\ handed' = handed
      BY <1>2, PeerFacts
    <2>1. /\ RxConsistent(rx[p], sent[Other(p)], delivered[p], Label(Other(p)))
          /\ rx[p].keys.rx.chain.step <= tx[Other(p)].keys.tx.chain.step
          /\ rx[p].keys.rx.chain.step \in Nat
          /\ tx[Other(p)].keys.tx.chain.step \in Nat
          /\ sent[Other(p)] \in Seq(Datagram)
      BY <2>0, LegInvAt
    <2>2. CASE Other(p) = q
      <3>1. sent'[Other(p)] = Append(sent[Other(p)], d) /\ tx'[Other(p)] = after
        BY <1>4, <2>2
      <3>2. RxConsistent(rx[p], Append(sent[Other(p)], d), delivered[p], Label(Other(p)))
        BY <1>1, <2>1, RxConsistentAppend
      <3>3. after.keys.tx.chain.step \in Nat
        BY <1>1 DEF DatagramTx, KeyMaterial, Ratchet, Chain
      <3>4. rx'[p].keys.rx.chain.step <= tx'[Other(p)].keys.tx.chain.step
        BY <1>1, <2>0, <2>1, <2>2, <3>1, <3>3
      <3>5. Len(sent'[Other(p)]) = Len(sent[Other(p)]) + 1
        BY <1>1, <2>1, <3>1
      <3> QED
        BY <2>0, <3>1, <3>2, <3>4, <3>5 DEF ChannelStep
    <2>3. CASE Other(p) # q
      <3>1. sent'[Other(p)] = sent[Other(p)] /\ tx'[Other(p)] = tx[Other(p)]
        BY <1>4, <2>0, <2>3
      <3> QED
        BY <2>0, <2>1, <3>1 DEF ChannelStep
    <2> QED
      BY <2>2, <2>3
  <1>8. \A p \in Peers : MovesOnProof(p)
    BY <1>2 DEF MovesOnProof
  <1> QED
    BY <1>5, <1>6, <1>7, <1>8 DEF LegInv

\* open() preserves the invariant, whatever the network presents.
LEMMA OpenPreserves ==
    ASSUME LegInv, NEW q \in Peers, NEW epoch_id \in EpochIds,
           NEW wire_counter \in WireCounters, NEW i \in 0 .. Len(sent[Other(q)]),
           Open(q, epoch_id, wire_counter, i)
    PROVE  LegInv' /\ (\A p \in Peers : ChannelStep(p) /\ MovesOnProof(p))
  <1> DEFINE s == sent[Other(q)]
             ct == Presented(s, i)
             after == AfterOpen(rx[q], epoch_id, wire_counter, ct)
             ok == OpenOk(rx[q], epoch_id, wire_counter, ct)
             which == delivered[q]
             label == Label(Other(q))
  <1>0. /\ Other(q) \in Peers /\ rx[q] \in DatagramRx /\ s \in Seq(Datagram)
        /\ RxConsistent(rx[q], s, which, label)
        /\ which \in SUBSET Nat /\ handed[q] \in Nat
        /\ TxConsistent(tx[Other(q)], s, label)
        /\ tx[Other(q)].keys.tx.chain.step \in Nat
        /\ rx[q].keys.rx.chain.step <= tx[Other(q)].keys.tx.chain.step
    BY LegInvAt, PeerFacts
  <1>1. /\ rx' = [rx EXCEPT ![q] = after]
        /\ tx' = tx /\ sent' = sent
        /\ ok => /\ delivered' = [delivered EXCEPT ![q] = Including(which, i)]
                 /\ handed' = [handed EXCEPT ![q] = handed[q] + 1]
        /\ ~ok => delivered' = delivered /\ handed' = handed
    BY DEF Open, Including
  <1>2. /\ after \in DatagramRx
        /\ ok => /\ HandingUp(s, which, i)
                 /\ ~Includes(which, i)
                 /\ s[i].key \in {slot.key : slot \in LiveSlots(after)}
                 /\ RxConsistent(after, s, Including(which, i), label)
        /\ ~ok => RxConsistent(after, s, which, label)
        /\ after.keys # rx[q].keys => ok /\ s[i].key = after.keys.rx.chain
    BY <1>0, OpenStep
  <1> HIDE DEF after, ok, ct
  <1>3. TypeOK
    BY DEF LegInv
  <1>4. /\ rx'[q] = after
        /\ \A p \in Peers : p # q => /\ rx'[p] = rx[p] /\ delivered'[p] = delivered[p]
                                    /\ handed'[p] = handed[p]
        /\ ok => delivered'[q] = Including(which, i) /\ handed'[q] = handed[q] + 1
        /\ ~ok => delivered'[q] = which /\ handed'[q] = handed[q]
    BY <1>1, <1>3 DEF TypeOK
  <1>5. TypeOK'
    <2>1. ok => Including(which, i) \in SUBSET Nat
      BY <1>0, <1>2 DEF HandingUp, Including
    <2>2. rx' \in [Peers -> DatagramRx] /\ tx' \in [Peers -> DatagramTx]
          /\ sent' \in [Peers -> Seq(Datagram)]
      BY <1>1, <1>2, <1>3 DEF TypeOK
    <2>3. CASE ok
      <3>1. delivered' \in [Peers -> SUBSET Nat]
        BY <1>1, <1>3, <2>1, <2>3 DEF TypeOK
      <3>2. handed' \in [Peers -> Nat]
        <4>1. handed[q] + 1 \in Nat
          BY <1>3 DEF TypeOK
        <4>2. handed' = [handed EXCEPT ![q] = handed[q] + 1]
          BY <1>1, <2>3
        <4> QED
          BY <1>3, <4>1, <4>2 DEF TypeOK
      <3> QED
        BY <2>2, <3>1, <3>2 DEF TypeOK
    <2>4. CASE ~ok
      BY <1>1, <1>3, <2>2, <2>4 DEF TypeOK
    <2> QED
      BY <2>3, <2>4
  <1>6. after.keys.rx.chain.step <= tx[Other(q)].keys.tx.chain.step
    <2>1. CASE after.keys = rx[q].keys
      BY <1>0, <2>1
    <2>2. CASE after.keys # rx[q].keys
      <3>1. s[i].key = after.keys.rx.chain /\ i \in 1 .. Len(s)
        BY <1>2, <2>2 DEF HandingUp
      <3>2. s[i].key.step <= tx[Other(q)].keys.tx.chain.step
        BY <1>0, <3>1 DEF TxConsistent
      <3> QED
        BY <3>1, <3>2
    <2> QED
      BY <2>1, <2>2
  <1>7. ASSUME NEW p \in Peers
        PROVE  /\ RxConsistent(rx'[p], sent'[Other(p)], delivered'[p], Label(Other(p)))
               /\ rx'[p].keys.rx.chain.step <= tx'[Other(p)].keys.tx.chain.step
    <2>1. CASE p = q
      <3>1. RxConsistent(rx'[p], s, delivered'[p], label)
        BY <1>2, <1>4, <2>1
      <3> QED
        BY <1>1, <1>4, <1>6, <2>1, <3>1
    <2>2. CASE p # q
      BY <1>1, <1>4, <2>2, LegInvAt
    <2> QED
      BY <2>1, <2>2
  <1>8. \A p \in Peers : TxConsistent(tx'[p], sent'[p], Label(p))
    BY <1>1, LegInvAt
  <1>9. ASSUME NEW p \in Peers
        PROVE  ChannelStep(p)
    <2>1. CASE p # q \/ ~ok
      BY <1>1, <1>4, <2>1 DEF ChannelStep
    <2>2. CASE p = q /\ ok
      <3>1. /\ i - 1 \in 0 .. (Len(s) - 1)
            /\ i - 1 \notin which
            /\ delivered'[q] = which \cup {i - 1}
        BY <1>2, <1>4, <2>2 DEF HandingUp, Includes, Including
      <3> QED
        BY <1>1, <1>4, <2>2, <3>1 DEF ChannelStep
    <2> QED
      BY <2>1, <2>2
  <1>10. ASSUME NEW p \in Peers
         PROVE  MovesOnProof(p)
    <2>1. CASE p # q
      BY <1>4, <2>1 DEF MovesOnProof
    <2>2. CASE p = q
      <3> SUFFICES ASSUME rx'[q].keys # rx[q].keys
                   PROVE  \E j \in delivered'[q] \ delivered[q] :
                             sent[Other(q)][j + 1].key = rx'[q].keys.rx.chain
        BY <2>2 DEF MovesOnProof
      <3>1. ok /\ s[i].key = rx'[q].keys.rx.chain
        BY <1>2, <1>4
      <3>2. i - 1 \in delivered'[q] \ delivered[q] /\ (i - 1) + 1 = i
        BY <1>2, <1>4, <3>1 DEF HandingUp, Includes, Including
      <3> QED
        BY <3>1, <3>2
    <2> QED
      BY <2>1, <2>2
  <1> QED
    BY <1>5, <1>7, <1>8, <1>9, <1>10 DEF LegInv

\* Every step of the leg keeps the inductive invariant.
LEMMA NextLegInv ==
    ASSUME LegInv, [Next]_vars
    PROVE  LegInv' /\ (\A p \in Peers : ChannelStep(p) /\ MovesOnProof(p))
  <1>1. CASE UNCHANGED vars
    <2>1. LegInv'
      BY <1>1 DEF vars, LegInv, TypeOK
    <2> QED
      BY <1>1, <2>1 DEF vars, ChannelStep, MovesOnProof
  <1>2. CASE Next
    <2>1. PICK q \in Peers :
             \/ Seal(q)
             \/ \E epoch_id \in EpochIds, wire_counter \in WireCounters,
                   i \in 0 .. Len(sent[Other(q)]) :
                     Open(q, epoch_id, wire_counter, i)
      BY <1>2 DEF Next
    <2>2. CASE Seal(q)
      BY <2>2, SealPreserves
    <2>3. CASE \E epoch_id \in EpochIds, wire_counter \in WireCounters,
                 i \in 0 .. Len(sent[Other(q)]) :
                   Open(q, epoch_id, wire_counter, i)
      BY <2>3, OpenPreserves
    <2> QED
      BY <2>1, <2>2, <2>3
  <1> QED
    BY <1>1, <1>2

\* The inductive invariant holds in every reachable state.
LEMMA LegInvariant == Spec => []LegInv
  <1>1. LegInv /\ [Next]_vars => LegInv'
    BY NextLegInv
  <1> QED
    BY <1>1, InitLegInv, PTL DEF Spec

-----------------------------------------------------------------------------
(***************************************************************************)
(* The theorems.                                                           *)
(***************************************************************************)

\* Every reachable state is well typed.
THEOREM LegTypeCorrect == Spec => []TypeOK
  <1>1. LegInv => TypeOK
    BY DEF LegInv
  <1> QED
    BY <1>1, LegInvariant, PTL

\* Both directions implement the at-most-once channel, for any number of rekeys
\* and whatever the network duplicates, reorders, loses or damages.
THEOREM LegIsAtMostOnce == Spec => AtMostOnce
  <1>1. Init => ToServer!ChannelInit /\ ToClient!ChannelInit
    BY DEF Init, ToServer!ChannelInit, ToClient!ChannelInit, Peers
  <1>2. LegInv /\ [Next]_vars => /\ [ToServer!ChannelNext]_(ToServer!channelVars)
                                /\ [ToClient!ChannelNext]_(ToClient!channelVars)
    <2> SUFFICES ASSUME LegInv, [Next]_vars
                 PROVE  /\ [ToServer!ChannelNext]_(ToServer!channelVars)
                        /\ [ToClient!ChannelNext]_(ToClient!channelVars)
      OBVIOUS
    <2>1. ChannelStep("server") /\ ChannelStep("client")
      BY NextLegInv DEF Peers
    <2>2. Other("server") = "client" /\ Other("client") = "server"
      BY DEF Other
    <2>3. [ToServer!ChannelNext]_(ToServer!channelVars)
      BY <2>1, <2>2 DEF ChannelStep, ToServer!ChannelNext, ToServer!channelVars,
                        ToServer!Send, ToServer!Deliver
    <2>4. [ToClient!ChannelNext]_(ToClient!channelVars)
      BY <2>1, <2>2 DEF ChannelStep, ToClient!ChannelNext, ToClient!channelVars,
                        ToClient!Send, ToClient!Deliver
    <2> QED
      BY <2>3, <2>4
  <1>3. LegInv /\ [Next]_vars => LegInv'
    BY NextLegInv
  <1> QED
    BY <1>1, <1>2, <1>3, InitLegInv, PTL
       DEF Spec, AtMostOnce, ToServer!ChannelSpec, ToClient!ChannelSpec

\* No nonce is ever used twice under a key.
THEOREM LegNonceUnique == Spec => []NonceUnique
  <1>1. LegInv => NonceUnique
    <2> SUFFICES ASSUME LegInv, NEW p \in Peers, NEW q \in Peers,
                        NEW i \in 1 .. Len(sent[p]), NEW j \in 1 .. Len(sent[q]),
                        sent[p][i].key = sent[q][j].key,
                        sent[p][i].counter = sent[q][j].counter
                 PROVE  p = q /\ i = j
      BY DEF NonceUnique
    <2>1. TxConsistent(tx[p], sent[p], Label(p)) /\ TxConsistent(tx[q], sent[q], Label(q))
      BY LegInvAt
    <2>2. Label(p) = Label(q)
      BY <2>1 DEF TxConsistent
    <2>3. p = q
      BY <2>2, PeerFacts
    <2> QED
      BY <2>1, <2>3 DEF TxConsistent
  <1> QED
    BY <1>1, LegInvariant, PTL

\* The receiver's slots, its ratchet and the sender's stay in step.
THEOREM LegEpochsInStep == Spec => []EpochsInStep
  <1>1. LegInv => EpochsInStep
    <2> SUFFICES ASSUME LegInv, NEW p \in Peers
                 PROVE  LET chain == rx[p].keys.rx.chain
                            peer  == tx[Other(p)].keys.tx
                        IN  /\ rx[p].current.key = chain
                            /\ rx[p].keys.rx.epoch_id = chain.step % EpochMod
                            /\ rx[p].previous # {} <=> chain.step > 0
                            /\ \A slot \in rx[p].previous :
                                  slot.key = [chain EXCEPT !.step = chain.step - 1]
                            /\ \A slot \in LiveSlots(rx[p]) :
                                  slot.epoch_id = slot.key.step % EpochMod
                            /\ \A slot, other \in rx[p].previous : slot = other
                            /\ chain.label = peer.chain.label
                            /\ chain.step <= peer.chain.step
                            /\ peer.epoch_id = peer.chain.step % EpochMod
      BY DEF EpochsInStep
    <2> DEFINE chain == rx[p].keys.rx.chain
    <2>1. /\ RxConsistent(rx[p], sent[Other(p)], delivered[p], Label(Other(p)))
          /\ TxConsistent(tx[Other(p)], sent[Other(p)], Label(Other(p)))
          /\ chain.step <= tx[Other(p)].keys.tx.chain.step
          /\ rx[p] \in DatagramRx
      BY LegInvAt, PeerFacts
    <2>2. chain \in Chain
      BY <2>1 DEF DatagramRx, KeyMaterial, Ratchet
    <2>3. [chain EXCEPT !.step = chain.step - 1]
            = [label |-> Label(Other(p)), step |-> chain.step - 1]
      BY <2>1, <2>2 DEF Chain, RxConsistent
    <2> QED
      BY <2>1, <2>3 DEF RxConsistent, TxConsistent, LiveSlots
  <1> QED
    BY <1>1, LegInvariant, PTL

\* Both live windows are exact.
THEOREM LegWindowsExact == Spec => []WindowsExact
  <1>1. LegInv => WindowsExact
    BY LegInvAt DEF WindowsExact, RxConsistent
  <1> QED
    BY <1>1, LegInvariant, PTL

\* The receiving ratchet never moves without an authentic datagram of the new epoch.
THEOREM LegRatchetMovesOnProof == Spec => RatchetMovesOnProof
  <1>1. LegInv /\ [Next]_vars =>
          [\A p \in Peers :
             rx'[p].keys # rx[p].keys =>
                \E i \in delivered'[p] \ delivered[p] :
                   sent[Other(p)][i + 1].key = rx'[p].keys.rx.chain]_vars
    BY NextLegInv DEF MovesOnProof
  <1> QED
    BY <1>1, LegInvariant, PTL DEF Spec, RatchetMovesOnProof

\* peek_next_epoch_and_counter foretells the header of the next seal().
THEOREM LegPeekMatchesSeal == Spec => []PeekMatchesSeal
  <1>1. LegInv => PeekMatchesSeal
    <2> SUFFICES ASSUME LegInv, NEW p \in Peers
                 PROVE  PeekNextEpochAndCounter(tx[p])
                          = <<Sealed(tx[p]).epoch_id, Sealed(tx[p]).counter>>
      BY DEF PeekMatchesSeal
    <2>1. tx[p] \in DatagramTx
      BY LegInvAt
    <2>2. tx[p].keys.tx \in Ratchet
      BY <2>1 DEF DatagramTx, KeyMaterial
    <2>3. CASE tx[p].counter >= RekeyAfter
      <3>1. /\ Rekeyed(tx[p]).keys.tx = AdvanceRatchet(tx[p].keys.tx)
            /\ Rekeyed(tx[p]).counter = 0
        BY <2>1, <2>3 DEF Rekeyed, DatagramTx, KeyMaterial
      <3>2. Sealed(tx[p]).epoch_id = NextEpochId(tx[p].keys.tx.epoch_id) /\ Sealed(tx[p]).counter = 0
        BY <3>1 DEF Sealed, Current, DeriveEpoch, AdvanceRatchet
      <3> QED
        BY <2>3, <3>2 DEF PeekNextEpochAndCounter
    <2>4. CASE ~(tx[p].counter >= RekeyAfter)
      <3>1. Rekeyed(tx[p]) = tx[p]
        BY <2>4 DEF Rekeyed
      <3>2. /\ Sealed(tx[p]).epoch_id = tx[p].keys.tx.epoch_id
            /\ Sealed(tx[p]).counter = tx[p].counter
        BY <3>1 DEF Sealed, Current, DeriveEpoch
      <3> QED
        BY <2>4, <3>2 DEF PeekNextEpochAndCounter
    <2> QED
      BY <2>3, <2>4
  <1> QED
    BY <1>1, LegInvariant, PTL

-----------------------------------------------------------------------------
(***************************************************************************)
(* Which epochs a receiver opens.                                          *)
(***************************************************************************)

\* The slots open() tries belong to the current epoch or a neighbour of it.
LEMMA TriedAreAdjacent ==
    ASSUME NEW r \in DatagramRx, NEW s \in Seq(Datagram), NEW which, NEW label,
           RxConsistent(r, s, which, label),
           NEW epoch_id, NEW slot \in Tried(r, epoch_id)
    PROVE  slot.key.step \in (r.keys.rx.chain.step - 1) .. (r.keys.rx.chain.step + 1)
  <1> DEFINE n == r.keys.rx.chain.step
  <1>1. n \in Nat
    BY DEF DatagramRx, KeyMaterial, Ratchet, Chain
  <1>2. CASE slot = r.current
    BY <1>1, <1>2 DEF RxConsistent
  <1>3. CASE slot \in r.previous
    BY <1>1, <1>3 DEF RxConsistent
  <1>4. CASE slot = Fresh(PeekNext(r.keys.rx))
    <2>1. slot.key = [label |-> label, step |-> n + 1]
      BY <1>4, CandidateSlot
    <2> QED
      BY <1>1, <2>1
  <1>5. slot \in {r.current} \cup r.previous \cup {Fresh(PeekNext(r.keys.rx))}
    BY DEF Tried
  <1> QED
    BY <1>2, <1>3, <1>4, <1>5

\* A datagram two or more epochs away never opens, not even when the wire id of
\* its epoch has wrapped around to one the receiver accepts.
THEOREM LegDistantEpochsClosed == Spec => []DistantEpochsClosed
  <1>1. LegInv => DistantEpochsClosed
    <2> SUFFICES ASSUME LegInv, NEW p \in Peers, NEW i \in 1 .. Len(sent[Other(p)]),
                        NEW epoch_id \in EpochIds, NEW wire_counter \in WireCounters,
                        OpenOk(rx[p], epoch_id, wire_counter, sent[Other(p)][i])
                 PROVE  sent[Other(p)][i].key.step
                          \in (rx[p].current.key.step - 1) .. (rx[p].current.key.step + 1)
      BY DEF DistantEpochsClosed
    <2>1. /\ RxConsistent(rx[p], sent[Other(p)], delivered[p], Label(Other(p)))
          /\ rx[p] \in DatagramRx /\ sent[Other(p)] \in Seq(Datagram)
      BY LegInvAt, PeerFacts
    <2>2. PICK slot \in Tried(rx[p], epoch_id) : Opens(slot, wire_counter, sent[Other(p)][i])
      BY DEF OpenOk
    <2>3. slot.key = sent[Other(p)][i].key
      BY <2>2 DEF Opens, Decrypts, Authentic
    <2>4. rx[p].current.key = rx[p].keys.rx.chain
      BY <2>1 DEF RxConsistent
    <2> QED
      BY <2>1, <2>3, <2>4, TriedAreAdjacent
  <1> QED
    BY <1>1, LegInvariant, PTL

\* Within an epoch no counter is out of reach of the truncated one, so a slot
\* opens every datagram of its key that is recent enough and not yet handed up.
LEMMA SlotOpensUnseen ==
    ASSUME NEW slot \in EpochSlots, NEW s \in Seq(Datagram),
           NEW which \in SUBSET (0 .. (Len(s) - 1)), NEW t, NEW label,
           TxConsistent(t, s, label),
           Represents(slot.window, OpenedCounters(s, which, slot.key)),
           NEW i \in 1 .. Len(s), i - 1 \notin which, s[i].key = slot.key,
           s[i].counter + W > slot.window.highest
    PROVE  Opens(slot, TruncateCounter(s[i].counter), s[i])
  <1> DEFINE seen == OpenedCounters(s, which, slot.key)
             c == s[i].counter
             h == slot.window.highest
  <1>0. s[i] \in Datagram
    OBVIOUS
  <1>1. c \in Nat /\ c < RekeyAfter /\ RekeyAfter \in Nat /\ RekeyAfter > 0
    BY <1>0, LegAssumption DEF Datagram
  <1>2. Half \in Nat /\ RekeyAfter <= Half
    BY LegAssumption, WireWindowAssumption DEF Half
  <1>3. \A x \in seen : x \in Nat /\ x < RekeyAfter
    <2>1. ASSUME NEW j \in which
          PROVE  s[j + 1].counter \in Nat /\ s[j + 1].counter < RekeyAfter
      <3>1. s[j + 1] \in Datagram
        OBVIOUS
      <3> QED
        BY <1>1, <3>1 DEF Datagram
    <2> QED
      BY <2>1 DEF OpenedCounters
  <1>4. c \notin seen
    <2>1. ASSUME NEW j \in which, s[j + 1].key = slot.key, s[j + 1].counter = c
          PROVE  FALSE
      <3>1. j + 1 \in 1 .. Len(s) /\ (j + 1) - 1 = j
        OBVIOUS
      <3>2. j + 1 = i
        BY <2>1, <3>1 DEF TxConsistent
      <3> QED
        BY <3>1, <3>2
    <2> QED
      BY <2>1 DEF OpenedCounters
  <1>5. h \in Nat /\ h < RekeyAfter
    <2>1. h \in Nat /\ slot.window.initialized \in BOOLEAN
      BY DEF EpochSlots, Window
    <2>2. CASE slot.window.initialized
      BY <1>3, <2>2 DEF Represents
    <2>3. CASE ~slot.window.initialized
      BY <1>1, <2>3 DEF Represents
    <2> QED
      BY <2>1, <2>2, <2>3
  <1> HIDE DEF seen, c, h
  <1>6. c <= h + Half /\ c + Half > h
    BY <1>1, <1>2, <1>5
  <1> QED
    BY <1>1, <1>4, <1>6, UnseenOpens DEF seen, c, h

\* No false rejects around a rekey: what belongs to the current, the previous or
\* the next epoch and is recent enough opens under its own header.
THEOREM LegAdjacentEpochsOpen == Spec => []AdjacentEpochsOpen
  <1>1. LegInv => AdjacentEpochsOpen
    <2> SUFFICES ASSUME LegInv, NEW p \in Peers, NEW i \in 1 .. Len(sent[Other(p)]),
                        i - 1 \notin delivered[p],
                        sent[Other(p)][i].key.step
                          \in (rx[p].current.key.step - 1) .. (rx[p].current.key.step + 1),
                        \A slot \in LiveSlots(rx[p]) :
                           slot.key = sent[Other(p)][i].key =>
                              sent[Other(p)][i].counter + W > slot.window.highest
                 PROVE  OpenOk(rx[p], sent[Other(p)][i].epoch_id,
                               TruncateCounter(sent[Other(p)][i].counter), sent[Other(p)][i])
      BY DEF AdjacentEpochsOpen
    <2> DEFINE r == rx[p]
               s == sent[Other(p)]
               d == s[i]
               n == r.keys.rx.chain.step
               label == Label(Other(p))
               which == delivered[p]
    <2>1. /\ r \in DatagramRx /\ s \in Seq(Datagram) /\ n \in Nat
          /\ which \in SUBSET (0 .. (Len(s) - 1))
          /\ RxConsistent(r, s, which, label)
          /\ TxConsistent(tx[Other(p)], s, label)
      BY LegInvAt, PeerFacts
    <2>2. /\ d \in Datagram /\ d.key \in Chain /\ d.key.step \in Nat
          /\ d.key = [label |-> label, step |-> d.key.step]
          /\ d.epoch_id = d.key.step % EpochMod
          /\ d.counter \in Nat
      <3>1. d \in Datagram
        BY <2>1
      <3> QED
        BY <2>1, <3>1, LegAssumption DEF TxConsistent, Datagram, Chain
    <2>3. /\ r.current.key = r.keys.rx.chain /\ r.current \in EpochSlots
          /\ r.previous \in SUBSET EpochSlots
          /\ r.keys.rx.chain = [label |-> label, step |-> n]
          /\ r.current.epoch_id = n % EpochMod
          /\ r.previous # {} <=> n > 0
          /\ \A slot \in r.previous :
                /\ slot.key = [label |-> label, step |-> n - 1]
                /\ slot.epoch_id = (n - 1) % EpochMod
      BY <2>1 DEF RxConsistent, DatagramRx, KeyMaterial, Ratchet, Chain
    <2>4. ASSUME NEW slot \in LiveSlots(r), slot.key = d.key
          PROVE  Opens(slot, TruncateCounter(d.counter), d)
      <3>1. slot \in EpochSlots /\ Represents(slot.window, OpenedCounters(s, which, slot.key))
        BY <2>1, <2>3, <2>4 DEF RxConsistent, LiveSlots
      <3>2. d.counter + W > slot.window.highest
        BY <2>4
      <3> QED
        BY <2>1, <2>4, <3>1, <3>2, SlotOpensUnseen
    <2>5. d.key.step \in {n - 1, n, n + 1}
      <3>1. rx[p].current.key.step = n
        BY <2>3
      <3>2. d.key.step \in (n - 1) .. (n + 1)
        BY <3>1
      <3> HIDE DEF d, n
      <3> QED
        BY <2>1, <2>2, <3>2
    <2> HIDE DEF r, s, d, n, label, which
    <2>6. CASE d.key.step = n
      <3>1. Tried(r, d.epoch_id) = {r.current}
        BY <2>2, <2>3, <2>6 DEF Tried, Route
      <3>2. r.current \in LiveSlots(r) /\ r.current.key = d.key
        BY <2>2, <2>3, <2>6 DEF LiveSlots
      <3> QED
        BY <2>4, <3>1, <3>2 DEF OpenOk, r, s, d
    <2>7. CASE d.key.step = n - 1
      <3>1. n > 0 /\ n - 1 \in Nat /\ (n - 1) + 1 = n
        BY <2>1, <2>2, <2>7
      <3>2. PICK slot \in r.previous : TRUE
        BY <2>3, <3>1
      <3>3. d.epoch_id # r.current.epoch_id /\ d.epoch_id = slot.epoch_id
        BY <2>2, <2>3, <2>7, <3>1, AdjacentIdsDiffer
      <3>4. Tried(r, d.epoch_id) = r.previous
        BY <3>2, <3>3 DEF Tried, Route
      <3>5. slot \in LiveSlots(r) /\ slot.key = d.key
        BY <2>2, <2>3, <2>7, <3>2 DEF LiveSlots
      <3> QED
        BY <2>4, <3>2, <3>4, <3>5 DEF OpenOk, r, s, d
    <2>8. CASE d.key.step = n + 1
      <3> DEFINE cand == Fresh(PeekNext(r.keys.rx))
      <3>1. /\ cand \in EpochSlots
            /\ cand.key = [label |-> label, step |-> n + 1]
            /\ Represents(cand.window, OpenedCounters(s, which, cand.key))
            /\ cand.window = NewWindow
        BY <2>1, CandidateSlot DEF Fresh, n
      <3>2. d.epoch_id # r.current.epoch_id /\ d.epoch_id = NextEpochId(r.current.epoch_id)
        <4>1. d.epoch_id = (n + 1) % EpochMod /\ r.current.epoch_id = n % EpochMod
          BY <2>2, <2>3, <2>8
        <4> QED
          BY <2>1, <4>1, AdjacentIdsDiffer, NextEpochIdOfStep
      <3>3. ASSUME NEW slot \in r.previous
            PROVE  slot.epoch_id # d.epoch_id
        <4>1. n - 1 \in Nat /\ (n - 1) + 2 = n + 1
          BY <2>1, <2>3, <3>3
        <4> QED
          BY <2>2, <2>3, <2>8, <3>3, <4>1, AdjacentIdsDiffer
      <3>4. Tried(r, d.epoch_id) = {cand}
        BY <3>2, <3>3 DEF Tried, Route
      <3>5. d.counter + W > cand.window.highest
        BY <2>2, <3>1, WindowSizeAssumption DEF NewWindow
      <3>6. cand.key = s[i].key /\ i - 1 \notin which /\ i \in 1 .. Len(s)
            /\ s[i].counter + W > cand.window.highest
        BY <2>2, <2>8, <3>1, <3>5 DEF s, d, which
      <3> HIDE DEF cand
      <3>7. Opens(cand, TruncateCounter(s[i].counter), s[i])
        BY <2>1, <3>1, <3>6, SlotOpensUnseen
      <3> QED
        BY <3>4, <3>7 DEF OpenOk, r, s, d
    <2> QED
      BY <2>5, <2>6, <2>7, <2>8
  <1> QED
    BY <1>1, LegInvariant, PTL

=============================================================================
