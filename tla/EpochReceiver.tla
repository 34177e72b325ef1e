---------------------------- MODULE EpochReceiver ---------------------------
(***************************************************************************)
(* A single epoch of the UDP leg: a sender sealing counters 0, 1, 2, ...   *)
(* under one key, a network that loses, reorders, duplicates and damages   *)
(* datagrams, and the receiver's EpochSlot.  RekeyAfter may exceed half of *)
(* the wire window here, so the case in which a burst of losses outruns    *)
(* the truncated counter is part of the model.                             *)
(***************************************************************************)
EXTENDS EpochSlot

CONSTANT RekeyAfter     \* REKEY_AFTER_DATAGRAMS: counters one key ever seals

ASSUME RekeyAssumption == RekeyAfter \in Nat \ {0}

VARIABLES sealed,       \* DatagramTx.counter: counters below it are sealed
          slot,         \* the receiver's EpochSlot
          seen,         \* history: counters whose frames were handed up
          handed        \* history: number of frames handed up

vars == <<sealed, slot, seen, handed>>

TheKey == [label |-> "c2s", step |-> 0]

Ciphertexts == {[key |-> TheKey, counter |-> c] : c \in 0 .. (sealed - 1)} \cup {Junk}

TypeOK ==
    /\ sealed \in 0 .. RekeyAfter
    /\ slot \in EpochSlots
    /\ seen \subseteq 0 .. (sealed - 1)
    /\ handed \in Nat

Init ==
    /\ sealed = 0
    /\ slot = Fresh(DeriveEpoch(TheKey, 0))
    /\ seen = {}
    /\ handed = 0

Seal ==
    /\ sealed < RekeyAfter
    /\ sealed' = sealed + 1
    /\ UNCHANGED <<slot, seen, handed>>

\* The network presents any ciphertext, any number of times, under any header.
Receive(wire_counter, ct) ==
    /\ slot' = TryOpen(slot, wire_counter, ct)
    /\ IF Opens(slot, wire_counter, ct)
       THEN /\ seen' = seen \cup {ct.counter}
            /\ handed' = handed + 1
       ELSE UNCHANGED <<seen, handed>>
    /\ UNCHANGED sealed

Next ==
    \/ Seal
    \/ \E wire_counter \in WireCounters, ct \in Ciphertexts : Receive(wire_counter, ct)

Spec == Init /\ [][Next]_vars

-----------------------------------------------------------------------------
(***************************************************************************)
(* Properties.                                                             *)
(***************************************************************************)

\* The window is exact for the counters it covers: after every sequence of
\* accept() calls the ring's bits mark those and only those counters of the
\* last W whose frames were handed up, whatever slots were reused on the way.
WindowExact == Represents(slot.window, seen)

Channel == INSTANCE DatagramChannel WITH sent <- sealed, delivered <- seen

\* One epoch is an at-most-once channel: try_open never hands up a frame twice
\* and never one that was not sealed, under duplication and damaged headers.
AtMostOnce == Channel!ChannelSpec

\* expand_counter returns a counter with the right low bits that is nearest to
\* highest + 1, as its comment requires, also next to zero where there is no
\* lower candidate.
ExpandIsNearest ==
    \A truncated \in WireCounters :
        LET h        == slot.window.highest
            expanded == ExpandCounter(h, truncated)
            Dist(x)  == IF x > h + 1 THEN x - (h + 1) ELSE (h + 1) - x
        IN  /\ expanded >= 0
            /\ TruncateCounter(expanded) = truncated
            /\ \A x \in 0 .. (h + 2 * WireWindow) :
                  TruncateCounter(x) = truncated => Dist(expanded) <= Dist(x)

\* No false rejects: a sealed counter that has not been handed up, is at most
\* half a wire window ahead of the greatest accepted one and no further behind
\* it than the replay window and half a wire window reach, opens when its
\* datagram arrives unharmed.
InWindowOpens ==
    \A c \in (0 .. (sealed - 1)) \ seen :
        LET h == slot.window.highest
        IN  /\ c <= h + Half
            /\ c + Half > h
            /\ c + W > h
            => Opens(slot, TruncateCounter(c), [key |-> TheKey, counter |-> c])

=============================================================================
