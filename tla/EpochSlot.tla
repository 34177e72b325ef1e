----------------------------- MODULE EpochSlot ------------------------------
(***************************************************************************)
(* One epoch on the receiving side of the UDP leg (nrxp/datagram.rs,       *)
(* struct EpochSlot): its keys, its anti-replay window, and try_open.      *)
(*                                                                         *)
(* A ciphertext is a record naming the key and the full counter it was     *)
(* sealed under, the two inputs of the AEAD that can disagree between the  *)
(* ends; build_nonce (salt XOR counter) is injective in the counter, so    *)
(* the counter stands for the nonce.  A datagram damaged on the way, or    *)
(* presented with other associated data, is the ciphertext Junk, which no  *)
(* key opens.                                                              *)
(***************************************************************************)
EXTENDS ReplayWindow, WireCounter, DatagramKeys

Junk == [key |-> [label |-> "junk", step |-> 0], counter |-> 0]

EpochSlots == [epoch_id : EpochIds, key : Chain, window : Window]

Fresh(keys) ==
    [epoch_id |-> keys.epoch_id, key |-> keys.key, window |-> NewWindow]

\* The full counter the slot tries for a truncated one.
FullCounter(slot, wire_counter) == ExpandCounter(slot.window.highest, wire_counter)

\* ChaCha20-Poly1305 opens a ciphertext only under the key and nonce that sealed it.
Authentic(key, counter, ct) == ct.key = key /\ ct.counter = counter

\* decrypt_in_place succeeded
Decrypts(slot, wire_counter, ct) ==
    Authentic(slot.key, FullCounter(slot, wire_counter), ct)

\* try_open returns Some(plaintext)
Opens(slot, wire_counter, ct) ==
    /\ Decrypts(slot, wire_counter, ct)
    /\ ~Refused(slot.window, FullCounter(slot, wire_counter))

\* The slot try_open leaves behind: the window is touched only after the AEAD agreed.
TryOpen(slot, wire_counter, ct) ==
    IF Decrypts(slot, wire_counter, ct)
    THEN [slot EXCEPT !.window = Accept(slot.window, FullCounter(slot, wire_counter))]
    ELSE slot

=============================================================================
