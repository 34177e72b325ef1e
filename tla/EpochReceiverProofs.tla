------------------------ MODULE EpochReceiverProofs -------------------------
(***************************************************************************)
(* One epoch of the UDP leg, proved for every window size, wire width and  *)
(* rekey threshold.  The inductive invariant is TypeOK with WindowExact;   *)
(* that the slot keeps the epoch's key is the only strengthening needed.   *)
(***************************************************************************)
EXTENDS EpochReceiver, WindowTheorems

IInv ==
    /\ TypeOK
    /\ slot.key = TheKey
    /\ WindowExact

\* A ciphertext the slot opens is a sealed one, under the reconstructed counter.
LEMMA OpensSealed ==
    ASSUME TypeOK, slot.key = TheKey,
           NEW wire_counter \in WireCounters, NEW ct \in Ciphertexts,
           Decrypts(slot, wire_counter, ct)
    PROVE  /\ ct.counter = FullCounter(slot, wire_counter)
           /\ ct.counter \in 0 .. (sealed - 1)
  BY DEF TypeOK, Decrypts, Authentic, Ciphertexts, Junk, TheKey

\* The inductive invariant holds initially.
LEMMA InitIInv == Init => IInv
  <1> SUFFICES ASSUME Init PROVE IInv
    OBVIOUS
  <1>1. TypeOK
    BY NewWindowRepresents, RekeyAssumption, EpochModAssumption
       DEF Init, TypeOK, Fresh, DeriveEpoch, TheKey, EpochSlots, Chain, EpochIds
  <1>2. slot.key = TheKey /\ WindowExact
    BY NewWindowRepresents DEF Init, Fresh, DeriveEpoch, WindowExact
  <1> QED
    BY <1>1, <1>2 DEF IInv

\* Every step preserves the invariant and is a step of the abstract channel.
LEMMA NextIInv ==
    ASSUME IInv, [Next]_vars
    PROVE  IInv' /\ [Channel!ChannelNext]_(Channel!channelVars)
  <1> USE DEF IInv
  <1>1. CASE Seal
    <2>1. TypeOK'
      BY <1>1, RekeyAssumption DEF Seal, TypeOK
    <2>2. (slot.key = TheKey)' /\ WindowExact'
      BY <1>1 DEF Seal, WindowExact
    <2>3. Channel!Send
      BY <1>1 DEF Seal, Channel!Send
    <2> QED
      BY <2>1, <2>2, <2>3 DEF Channel!ChannelNext
  <1>2. ASSUME NEW wire_counter \in WireCounters, NEW ct \in Ciphertexts,
               Receive(wire_counter, ct)
        PROVE  IInv' /\ [Channel!ChannelNext]_(Channel!channelVars)
    <2> DEFINE full == FullCounter(slot, wire_counter)
    <2>0. full \in Nat /\ slot \in EpochSlots /\ slot.window \in Window
      BY FullCounterType DEF TypeOK, EpochSlots
    <2>1. CASE ~Decrypts(slot, wire_counter, ct)
      <3>1. UNCHANGED vars
        BY <1>2, <2>1 DEF Receive, TryOpen, Opens, vars
      <3> QED
        BY <3>1 DEF vars, TypeOK, WindowExact, Channel!channelVars
    <2>2. CASE Decrypts(slot, wire_counter, ct)
      <3>1. ct.counter = full /\ full \in 0 .. (sealed - 1)
        BY <2>2, OpensSealed
      <3>2. slot' = [slot EXCEPT !.window = Accept(slot.window, full)]
        BY <1>2, <2>2 DEF Receive, TryOpen
      <3>3. slot' \in EpochSlots /\ slot'.key = TheKey /\ slot'.window = Accept(slot.window, full)
        BY <3>2, <2>0, AcceptType DEF EpochSlots
      <3>4. CASE Refused(slot.window, full)
        <4>1. UNCHANGED <<sealed, seen, handed>>
          BY <1>2, <3>4 DEF Receive, Opens
        <4>2. WindowExact'
          BY <2>0, <3>3, <3>4, <4>1, RefusedKeepsMeaning DEF WindowExact
        <4> QED
          BY <3>3, <4>1, <4>2 DEF TypeOK, Channel!channelVars
      <3>5. CASE ~Refused(slot.window, full)
        <4>1. /\ seen' = seen \cup {full}
              /\ handed' = handed + 1
              /\ sealed' = sealed
          BY <1>2, <2>2, <3>1, <3>5 DEF Receive, Opens
        <4>2. full \notin seen
          BY <2>0, <3>5, AcceptedIsNew DEF WindowExact
        <4>3. WindowExact'
          BY <2>0, <3>3, <3>5, <4>1, AcceptAdds DEF WindowExact
        <4>4. TypeOK'
          <5>1. seen' \subseteq 0 .. (sealed' - 1)
            BY <3>1, <4>1 DEF TypeOK
          <5>2. handed' \in Nat /\ sealed' \in 0 .. RekeyAfter
            BY <4>1 DEF TypeOK
          <5> QED
            BY <3>3, <5>1, <5>2 DEF TypeOK
        <4>5. Channel!Deliver
          BY <3>1, <4>1, <4>2 DEF Channel!Deliver
        <4> QED
          BY <3>3, <4>3, <4>4, <4>5 DEF Channel!ChannelNext
      <3> QED
        BY <3>4, <3>5
    <2> QED
      BY <2>1, <2>2
  <1>3. CASE UNCHANGED vars
    BY <1>3 DEF vars, TypeOK, WindowExact, Channel!channelVars
  <1> QED
    BY <1>1, <1>2, <1>3 DEF Next

\* The receiver's window marks exactly the counters it handed up, in every
\* reachable state and for every window size.
THEOREM WindowIsExact == Spec => []WindowExact
  <1>1. Init => IInv
    BY InitIInv
  <1>2. IInv /\ [Next]_vars => IInv'
    BY NextIInv
  <1>3. IInv => WindowExact
    BY DEF IInv
  <1> QED
    BY <1>1, <1>2, <1>3, PTL DEF Spec

\* One epoch implements the at-most-once channel.
THEOREM EpochIsAtMostOnce == Spec => AtMostOnce
  <1>1. Init => IInv
    BY InitIInv
  <1>2. IInv /\ [Next]_vars => IInv'
    BY NextIInv
  <1>3. IInv /\ [Next]_vars => [Channel!ChannelNext]_(Channel!channelVars)
    BY NextIInv
  <1>4. Init => Channel!ChannelInit
    BY DEF Init, Channel!ChannelInit
  <1> QED
    BY <1>1, <1>2, <1>3, <1>4, PTL DEF Spec, AtMostOnce, Channel!ChannelSpec

\* No false rejects within reach of the window and of the truncated counter.
THEOREM InWindowAlwaysOpens == Spec => []InWindowOpens
  <1>1. Init => IInv
    BY InitIInv
  <1>2. IInv /\ [Next]_vars => IInv'
    BY NextIInv
  <1>3. IInv => InWindowOpens
    <2> SUFFICES ASSUME IInv, NEW c \in (0 .. (sealed - 1)) \ seen,
                        c <= slot.window.highest + Half,
                        c + Half > slot.window.highest,
                        c + W > slot.window.highest
                 PROVE  Opens(slot, TruncateCounter(c), [key |-> TheKey, counter |-> c])
      BY DEF InWindowOpens
    <2>1. slot \in EpochSlots /\ c \in Nat /\ slot.key = TheKey
      BY DEF IInv, TypeOK
    <2>2. Represents(slot.window, seen)
      BY DEF IInv, WindowExact
    <2> QED
      BY <2>1, <2>2, UnseenOpens
  <1> QED
    BY <1>1, <1>2, <1>3, PTL DEF Spec

\* Every reachable state of an epoch is well typed: in particular no counter is
\* handed up that was not sealed.
THEOREM EpochTypeCorrect == Spec => []TypeOK
  <1>1. Init => IInv
    BY InitIInv
  <1>2. IInv /\ [Next]_vars => IInv'
    BY NextIInv
  <1>3. IInv => TypeOK
    BY DEF IInv
  <1> QED
    BY <1>1, <1>2, <1>3, PTL DEF Spec

\* expand_counter returns the nearest counter with the right low bits, whatever
\* the width on the wire and wherever the window has got to.
THEOREM ExpandAlwaysNearest == Spec => []ExpandIsNearest
  <1>1. Init => IInv
    BY InitIInv
  <1>2. IInv /\ [Next]_vars => IInv'
    BY NextIInv
  <1>3. IInv => ExpandIsNearest
    <2> SUFFICES ASSUME IInv PROVE ExpandIsNearest
      OBVIOUS
    <2>1. slot.window.highest \in Nat /\ WireWindow \in Nat
      BY WireWindowAssumption DEF IInv, TypeOK, EpochSlots, Window
    <2>2. \A x \in 0 .. (slot.window.highest + 2 * WireWindow) : x \in Nat
      BY <2>1
    <2> QED
      BY <2>1, <2>2, ExpandNearest DEF ExpandIsNearest, DistFromNext
  <1> QED
    BY <1>1, <1>2, <1>3, PTL DEF Spec

=============================================================================
