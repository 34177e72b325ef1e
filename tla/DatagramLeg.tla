----------------------------- MODULE DatagramLeg ----------------------------
(***************************************************************************)
(* The UDP leg between the two ends of an established session              *)
(* (nrxp/datagram.rs, DatagramTx and DatagramRx).  Each end owns one       *)
(* DatagramTx and one DatagramRx, each holding its own copy of the key     *)
(* material derived from the session root.                                 *)
(*                                                                         *)
(* The network is as unkind as UDP allows and a little more: every         *)
(* datagram ever sealed may be presented to the other end at any time, any *)
(* number of times or never, with any epoch id and any truncated counter   *)
(* in its header, and so may Junk.  Losing a datagram is never presenting  *)
(* it; a seal() that fails in the AEAD consumes a counter like one whose   *)
(* datagram is lost.                                                       *)
(*                                                                         *)
(* Frame::parse of an authenticated plaintext succeeds, since seal() only  *)
(* encrypts frames built by Frame::new, so open() returns Ok exactly when  *)
(* a slot opens the ciphertext.                                            *)
(***************************************************************************)
EXTENDS EpochSlot, Sequences

CONSTANTS RekeyAfter,   \* REKEY_AFTER_DATAGRAMS
          MaxSeals      \* bound: MaxSeals[p] is how many datagrams p seals

Peers == {"client", "server"}

Other(p) == IF p = "client" THEN "server" ELSE "client"

\* 1 << 14 datagrams per epoch and at least 16 counter bits on the wire: within
\* an epoch no two counters are further apart than half of the wire window.
ASSUME LegAssumption ==
    /\ RekeyAfter \in Nat \ {0}
    /\ RekeyAfter <= Half
    /\ MaxSeals \in [Peers -> Nat]

VARIABLES tx,           \* tx[p]: the DatagramTx of p
          rx,           \* rx[p]: the DatagramRx of p
          sent,         \* sent[p]: the datagrams p has sealed, in order
          delivered,    \* history: which datagrams of Other(p) p has handed up
          handed        \* history: how many frames p has handed up

vars == <<tx, rx, sent, delivered, handed>>

DatagramTx == [keys : KeyMaterial, counter : 0 .. RekeyAfter]

\* previous is an Option: the empty set or the set of one slot.
DatagramRx == [keys : KeyMaterial, current : EpochSlots, previous : SUBSET EpochSlots]

Datagram == [epoch_id : EpochIds, key : Chain, counter : 0 .. (RekeyAfter - 1)]

TypeOK ==
    /\ tx \in [Peers -> DatagramTx]
    /\ rx \in [Peers -> DatagramRx]
    /\ sent \in [Peers -> Seq(Datagram)]
    /\ delivered \in [Peers -> SUBSET Nat]
    /\ handed \in [Peers -> Nat]

-----------------------------------------------------------------------------
(***************************************************************************)
(* DatagramTx.                                                             *)
(***************************************************************************)
NewTx(keys) == [keys |-> keys, counter |-> 0]

\* Faulty variants: the threshold is missed by one; the counter is reset alone.
RekeyedLate(t) ==
    IF t.counter > RekeyAfter
    THEN [keys |-> [t.keys EXCEPT !.tx = AdvanceRatchet(t.keys.tx)], counter |-> 0]
    ELSE t

RekeyedSameKey(t) == IF t.counter >= RekeyAfter THEN [t EXCEPT !.counter = 0] ELSE t

\* The rekey at the head of seal().
Rekeyed(t) ==
    IF t.counter >= RekeyAfter
    THEN [keys |-> [t.keys EXCEPT !.tx = AdvanceRatchet(t.keys.tx)], counter |-> 0]
    ELSE t

\* Faulty variant: the peek misses the rekey on the boundary.
PeekLate(t) ==
    IF t.counter > RekeyAfter
    THEN <<NextEpochId(t.keys.tx.epoch_id), 0>>
    ELSE <<t.keys.tx.epoch_id, t.counter>>

PeekNextEpochAndCounter(t) ==
    IF t.counter >= RekeyAfter
    THEN <<NextEpochId(t.keys.tx.epoch_id), 0>>
    ELSE <<t.keys.tx.epoch_id, t.counter>>

\* The datagram seal() returns: its header fields and what it is encrypted under.
Sealed(t) ==
    LET epoch == Current(Rekeyed(t).keys.tx)
    IN  [epoch_id |-> epoch.epoch_id, key |-> epoch.key, counter |-> Rekeyed(t).counter]

Seal(p) ==
    /\ Len(sent[p]) < MaxSeals[p]
    /\ sent' = [sent EXCEPT ![p] = Append(sent[p], Sealed(tx[p]))]
    /\ tx' = [tx EXCEPT ![p] = [Rekeyed(tx[p]) EXCEPT !.counter = @ + 1]]
    /\ UNCHANGED <<rx, delivered, handed>>

-----------------------------------------------------------------------------
(***************************************************************************)
(* DatagramRx.                                                             *)
(***************************************************************************)
NewRx(keys) == [keys |-> keys, current |-> Fresh(Current(keys.rx)), previous |-> {}]

\* The branch of open() that a datagram claiming epoch_id takes.
Route(r, epoch_id) ==
    IF epoch_id = r.current.epoch_id
    THEN "current"
    ELSE IF \E slot \in r.previous : slot.epoch_id = epoch_id
    THEN "previous"
    ELSE IF epoch_id = NextEpochId(r.current.epoch_id)
    THEN "next"
    ELSE "out of range"

\* Faulty variant: the previous epoch is forgotten.
TriedWithoutPrevious(r, epoch_id) ==
    CASE Route(r, epoch_id) = "current" -> {r.current}
      [] Route(r, epoch_id) = "next"    -> {Fresh(PeekNext(r.keys.rx))}
      [] OTHER                          -> {}

\* The slots that branch tries: one, or none when the epoch is out of range.
Tried(r, epoch_id) ==
    CASE Route(r, epoch_id) = "current"  -> {r.current}
      [] Route(r, epoch_id) = "previous" -> r.previous
      [] Route(r, epoch_id) = "next"     -> {Fresh(PeekNext(r.keys.rx))}
      [] OTHER                           -> {}

\* open() returns Ok.
OpenOk(r, epoch_id, wire_counter, ct) ==
    \E slot \in Tried(r, epoch_id) : Opens(slot, wire_counter, ct)

\* Faulty variants of the next operator: the ratchet moves before the AEAD has
\* agreed; the first datagram of an epoch leaves no mark; older epochs are kept;
\* the window of the previous epoch is not saved.
AfterOpenUnproven(r, epoch_id, wire_counter, ct) ==
    CASE Route(r, epoch_id) = "current" ->
            [r EXCEPT !.current = TryOpen(r.current, wire_counter, ct)]
      [] Route(r, epoch_id) = "next" ->
            [keys     |-> [r.keys EXCEPT !.rx = AdvanceRatchet(r.keys.rx)],
             current  |-> TryOpen(Fresh(PeekNext(r.keys.rx)), wire_counter, ct),
             previous |-> {r.current}]
      [] OTHER -> r

AfterOpenUnmarked(r, epoch_id, wire_counter, ct) ==
    CASE Route(r, epoch_id) = "current" ->
            [r EXCEPT !.current = TryOpen(r.current, wire_counter, ct)]
      [] Route(r, epoch_id) = "next" /\ OpenOk(r, epoch_id, wire_counter, ct) ->
            [keys     |-> [r.keys EXCEPT !.rx = AdvanceRatchet(r.keys.rx)],
             current  |-> Fresh(PeekNext(r.keys.rx)),
             previous |-> {r.current}]
      [] OTHER -> r

AfterOpenKeepingAll(r, epoch_id, wire_counter, ct) ==
    CASE Route(r, epoch_id) = "current" ->
            [r EXCEPT !.current = TryOpen(r.current, wire_counter, ct)]
      [] Route(r, epoch_id) = "next" /\ OpenOk(r, epoch_id, wire_counter, ct) ->
            [keys     |-> [r.keys EXCEPT !.rx = AdvanceRatchet(r.keys.rx)],
             current  |-> TryOpen(Fresh(PeekNext(r.keys.rx)), wire_counter, ct),
             previous |-> {r.current} \cup r.previous]
      [] OTHER -> r

AfterOpenForgettingLate(r, epoch_id, wire_counter, ct) ==
    CASE Route(r, epoch_id) = "current" ->
            [r EXCEPT !.current = TryOpen(r.current, wire_counter, ct)]
      [] Route(r, epoch_id) = "next" /\ OpenOk(r, epoch_id, wire_counter, ct) ->
            [keys     |-> [r.keys EXCEPT !.rx = AdvanceRatchet(r.keys.rx)],
             current  |-> TryOpen(Fresh(PeekNext(r.keys.rx)), wire_counter, ct),
             previous |-> {r.current}]
      [] OTHER -> r

\* The DatagramRx open() leaves behind.  A refused candidate slot is dropped: the
\* ratchet and the slots move only on the commit after the AEAD and the window agreed.
AfterOpen(r, epoch_id, wire_counter, ct) ==
    CASE Route(r, epoch_id) = "current" ->
            [r EXCEPT !.current = TryOpen(r.current, wire_counter, ct)]
      [] Route(r, epoch_id) = "previous" ->
            [r EXCEPT !.previous = {TryOpen(slot, wire_counter, ct) : slot \in r.previous}]
      [] Route(r, epoch_id) = "next" /\ OpenOk(r, epoch_id, wire_counter, ct) ->
            [keys     |-> [r.keys EXCEPT !.rx = AdvanceRatchet(r.keys.rx)],
             current  |-> TryOpen(Fresh(PeekNext(r.keys.rx)), wire_counter, ct),
             previous |-> {r.current}]
      [] OTHER -> r

\* What the network presents: the i-th of these datagrams, or junk for i = 0.
Presented(datagrams, i) == IF i = 0 THEN Junk ELSE datagrams[i]

\* p is handed the i-th datagram of its peer, or junk, under a header of the
\* network's choosing.
Open(p, epoch_id, wire_counter, i) ==
    LET ct == Presented(sent[Other(p)], i)
    IN  /\ rx' = [rx EXCEPT ![p] = AfterOpen(rx[p], epoch_id, wire_counter, ct)]
        /\ IF OpenOk(rx[p], epoch_id, wire_counter, ct)
           THEN /\ delivered' = [delivered EXCEPT ![p] = delivered[p] \cup {i - 1}]
                /\ handed' = [handed EXCEPT ![p] = handed[p] + 1]
           ELSE UNCHANGED <<delivered, handed>>
        /\ UNCHANGED <<tx, sent>>

-----------------------------------------------------------------------------
Init ==
    /\ tx = [p \in Peers |-> NewTx(DeriveFromRoot(p = "client"))]
    /\ rx = [p \in Peers |-> NewRx(DeriveFromRoot(p = "client"))]
    /\ sent = [p \in Peers |-> <<>>]
    /\ delivered = [p \in Peers |-> {}]
    /\ handed = [p \in Peers |-> 0]

Next ==
    \E p \in Peers :
        \/ Seal(p)
        \/ \E epoch_id \in EpochIds, wire_counter \in WireCounters,
              i \in 0 .. Len(sent[Other(p)]) :
                Open(p, epoch_id, wire_counter, i)

Spec == Init /\ [][Next]_vars

-----------------------------------------------------------------------------
(***************************************************************************)
(* Properties.                                                             *)
(***************************************************************************)
LiveSlots(r) == {r.current} \cup r.previous

\* The counters under key among those datagrams that were handed up.
OpenedCounters(datagrams, which, key) ==
    {datagrams[i + 1].counter : i \in {j \in which : datagrams[j + 1].key = key}}

ToServer == INSTANCE DatagramChannel WITH
    sent <- Len(sent["client"]), delivered <- delivered["server"], handed <- handed["server"]

ToClient == INSTANCE DatagramChannel WITH
    sent <- Len(sent["server"]), delivered <- delivered["client"], handed <- handed["client"]

\* Each direction of the leg is an at-most-once channel across any number of
\* rekeys: DatagramRx::open never hands up a frame twice, nor one its peer did
\* not seal, nor one of its own, whatever the network does with headers and
\* copies.
AtMostOnce == ToServer!ChannelSpec /\ ToClient!ChannelSpec

\* No AEAD nonce is used twice under a key, in either direction: seal() resets the
\* counter only together with the ratchet, and the two ends never seal along
\* the same chain.
NonceUnique ==
    \A p, q \in Peers :
        \A i \in 1 .. Len(sent[p]), j \in 1 .. Len(sent[q]) :
            /\ sent[p][i].key = sent[q][j].key
            /\ sent[p][i].counter = sent[q][j].counter
            => p = q /\ i = j

\* The receiver's slots and ratchet stay one consistent picture of the sender's
\* chain: the current slot is at the ratchet's step, the previous one exactly
\* one step back, the ratchet never overtakes the sender's, and every wire epoch
\* id is its step modulo the u8.
EpochsInStep ==
    \A p \in Peers :
        LET chain == rx[p].keys.rx.chain
            peer  == tx[Other(p)].keys.tx
        IN  /\ rx[p].current.key = chain
            /\ rx[p].keys.rx.epoch_id = chain.step % EpochMod
            /\ rx[p].previous # {} <=> chain.step > 0
            /\ \A slot \in rx[p].previous :
                  slot.key = [chain EXCEPT !.step = chain.step - 1]
            /\ \A slot \in LiveSlots(rx[p]) : slot.epoch_id = slot.key.step % EpochMod
            /\ \A slot, other \in rx[p].previous : slot = other
            /\ chain.label = peer.chain.label
            /\ chain.step <= peer.chain.step
            /\ peer.epoch_id = peer.chain.step % EpochMod

\* Both live windows mark exactly the counters handed up under their epoch's
\* key, also when epochs overlap and a retired slot keeps receiving late ones.
WindowsExact ==
    \A p \in Peers : \A slot \in LiveSlots(rx[p]) :
        Represents(slot.window, OpenedCounters(sent[Other(p)], delivered[p], slot.key))

\* No false rejects around a rekey: a datagram not yet handed up, of the current,
\* the previous or the next epoch, and no further behind its epoch's greatest
\* counter than the window, opens under the header its sender gave it.  In
\* particular one delayed across exactly one rekey still opens.
AdjacentEpochsOpen ==
    \A p \in Peers : \A i \in 1 .. Len(sent[Other(p)]) :
        LET d    == sent[Other(p)][i]
            step == rx[p].current.key.step
        IN  /\ i - 1 \notin delivered[p]
            /\ d.key.step \in (step - 1) .. (step + 1)
            /\ \A slot \in LiveSlots(rx[p]) :
                  slot.key = d.key => d.counter + W > slot.window.highest
            => OpenOk(rx[p], d.epoch_id, TruncateCounter(d.counter), d)

\* A datagram two or more epochs away never opens, under no header at all: one
\* delayed across two rekeys is dropped, and a receiver that missed a whole
\* epoch opens nothing of the later ones, not even when the u8 epoch id has
\* wrapped around to a value it accepts.
DistantEpochsClosed ==
    \A p \in Peers : \A i \in 1 .. Len(sent[Other(p)]) :
        LET d    == sent[Other(p)][i]
            step == rx[p].current.key.step
        IN  d.key.step \notin (step - 1) .. (step + 1) =>
               \A epoch_id \in EpochIds, wire_counter \in WireCounters :
                   ~OpenOk(rx[p], epoch_id, wire_counter, d)

\* The receiving ratchet moves only on proof: a step that moves it hands up a
\* datagram sealed under the very key it moves to, so forged epoch ids and junk
\* cannot desynchronise the ends.
RatchetMovesOnProof ==
    [][\A p \in Peers :
          rx'[p].keys # rx[p].keys =>
             \E i \in delivered'[p] \ delivered[p] :
                sent[Other(p)][i + 1].key = rx'[p].keys.rx.chain]_vars

\* peek_next_epoch_and_counter names the epoch and counter the next seal() uses,
\* also on the call that rekeys (its caller builds the AAD from them).
PeekMatchesSeal ==
    \A p \in Peers :
        PeekNextEpochAndCounter(tx[p]) = <<Sealed(tx[p]).epoch_id, Sealed(tx[p]).counter>>

\* What the module comment of datagram_keys.rs says of the ratchet: once an end
\* seals under epoch N, the chain values of its earlier epochs no longer exist
\* at that end.
PastChainsErased ==
    \A p \in Peers :
        rx[p].keys.tx.chain.step >= tx[p].keys.tx.chain.step

=============================================================================
