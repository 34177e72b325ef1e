---------------------------- MODULE DatagramKeys ----------------------------
(***************************************************************************)
(* Key material of the UDP leg (crypto/datagram_keys.rs): one one-way HKDF *)
(* chain per direction, each step of which yields the AEAD key and salt of *)
(* one epoch.                                                              *)
(*                                                                         *)
(* A chain value is named by what determines it: the label it was expanded *)
(* from the session root with, and the number of step_chain applications.  *)
(* Distinct names are distinct keys, which is what HKDF-Expand under       *)
(* distinct labels gives.  epoch_id is the u8 that travels on the wire and *)
(* wraps at EpochMod = 256.                                                *)
(***************************************************************************)
EXTENDS Integers

CONSTANT EpochMod       \* number of values of the u8 epoch_id

\* Below 3 the ids of the previous, current and next epoch are not distinct.
ASSUME EpochModAssumption == EpochMod \in Nat /\ EpochMod >= 3

EpochIds == 0 .. (EpochMod - 1)

Chain == [label : {"c2s", "s2c"}, step : Nat]

Ratchet == [chain : Chain, epoch_id : EpochIds]

EpochKeys == [epoch_id : EpochIds, key : Chain]

KeyMaterial == [tx : Ratchet, rx : Ratchet]

NextEpochId(epoch_id) == (epoch_id + 1) % EpochMod

FromRoot(chain0) == [chain |-> chain0, epoch_id |-> 0]

DeriveEpoch(chain, epoch_id) == [epoch_id |-> epoch_id, key |-> chain]

StepChain(chain) == [chain EXCEPT !.step = chain.step + 1]

Current(ratchet) == DeriveEpoch(ratchet.chain, ratchet.epoch_id)

PeekNext(ratchet) ==
    DeriveEpoch(StepChain(ratchet.chain), NextEpochId(ratchet.epoch_id))

AdvanceRatchet(ratchet) ==
    [chain |-> StepChain(ratchet.chain), epoch_id |-> NextEpochId(ratchet.epoch_id)]

\* Faulty variant: the roles are not mirrored.
DeriveFromRootUnmirrored(is_initiator) ==
    [tx |-> FromRoot([label |-> "c2s", step |-> 0]),
     rx |-> FromRoot([label |-> "s2c", step |-> 0])]

\* The client sends along the c2s chain and listens on s2c, the server the reverse.
DeriveFromRoot(is_initiator) ==
    LET c2s == FromRoot([label |-> "c2s", step |-> 0])
        s2c == FromRoot([label |-> "s2c", step |-> 0])
    IN  IF is_initiator THEN [tx |-> c2s, rx |-> s2c] ELSE [tx |-> s2c, rx |-> c2s]

=============================================================================
