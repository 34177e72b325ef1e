# A TLA+ model of the NRXP engine

This directory models the engine crate of the repository (`src/engine`), the
part that sets up a session, carries frames over a TLS-like TCP leg and over a
UDP leg, and decides what is accepted. TLC checks the modules on small
instances. TLAPS proves, for every value of the constants, all safety properties
of the UDP leg, the TCP leg, the packing of frames and the handshake, and that
every draw of a post-quantum key share is well formed. `PROJECT.json` lists
components, runs, the source lines behind every definition, mutants, hazards,
findings and theorems.

## The system

| Component | State | Operations | Hard part |
|---|---|---|---|
| `SessionKeys`, `SessionAuth` (`crypto/session.rs`, `ecdh.rs`, `identity.rs`, `hkdf.rs`) | ephemeral key, salts, claimed version, auth key, AEAD keys, root of the UDP leg | new, with_identity, tags and their check, update_keys, drop | two schemes (anonymous v2, authenticated v3) chosen by an unauthenticated byte; partial failure of update_keys; clocks that differ; different key shares with one result |
| Bridge (`bridge.rs`) | none of its own; works on a `SessionKeys` and on the read buffer of a connection | wrap_client_hello, wrap_server_hello, unpack_handshake, unpack_middlebox_ccs, unpack_app_data | hellos repeated, crossed, rewritten; hello, ChangeCipherSpec and data glued together or cut anywhere in one buffer |
| Hellos on the wire (`tlseng/tls_record.rs`, `handshake.rs`, `extension.rs`) | the block of extensions being built | can_parse and parse of records, hellos and extensions; make_client_hello, make_server_hello | can_parse and parse walk the same lengths separately; complete records with incomplete hellos |
| TCP leg (`nrxp/codec.rs`, `frame.rs`, `crypto/chacha.rs`, `tlseng/tls_record.rs`) | nonce counter per direction, pad boundaries, staging buffer | encode_frame, encode_batch, encode_cover, decode_inbound | a stream cut anywhere, 16-bit lengths, a call failing half-way, nonce counters that must stay in step |
| UDP leg (`nrxp/datagram.rs`, `crypto/datagram_keys.rs`) | counter and ratchet of the sender; ratchet, current and previous epoch with their windows of the receiver | seal, peek_next_epoch_and_counter, open | loss, duplication, reordering across rekeys; truncated counters; an epoch id of 8 bits |
| Shape of the traffic (`tlseng/profile.rs`, `grease.rs`, `mlkem.rs`, `decoy.rs`) | constants, one GREASE draw per connection | apply_profile with shuffle and padding, the key share, validate, the cover flight | values that two functions must agree on, a padding that depends on an order that is shuffled |
| Logger | output set-up | | formatting |

A session starts with the handshake: the client sends a hello, a server
connection checks its tag, derives keys and answers, the client derives the same
keys. The AEAD keys and the key of the frame authenticator go to a `Codec`, which
splits into the two directions of the TCP leg. The HKDF root goes to two copies
of `DatagramKeyMaterial`, one for `DatagramTx` and one for `DatagramRx`. The
tasks that read sockets and call all this are not in the repository; where a
module needs a caller it says what it assumes of it.

What makes the parts correct, and where it is stated:

- handshake: equal configurations agree on keys, keys in common mean the same
  conversation as far as the PRK binds it, keys are written once, an authenticated
  connection is opened only by a fresh tag over this salt and key share, and a hello
  in time is not refused (`Handshake`);
- opening: what one end puts into its hello is what the other reads out of it,
  readers wait only for bytes and never read past them, and an opening between our
  own ends completes however TCP cuts it (`Opening`);
- TCP leg: an in-order stream without gaps that either delivers or is given up
  (`FrameStream`, `TcpLeg`), with record lengths only on the chosen boundaries and as few records as
  possible (`BatchPacking`);
- UDP leg: an at-most-once channel (`DatagramChannel`) that refuses nothing within
  reach of its windows and never repeats a nonce (`EpochReceiver`, `DatagramLeg`).

## Modules

**UDP leg.** `ReplayWindow` (the ring of bits, as the set of marked slots),
`WireCounter` (truncation and reconstruction, masks as `%`), `DatagramKeys` (the
two chains; a chain value is its label and its step) and `EpochSlot` (`try_open`)
are operators without state. `EpochReceiver` puts one slot behind a network.
`DatagramLeg` has the whole of `DatagramTx` and `DatagramRx` at both ends: `Seal`
is `seal()` with its rekey, `Open` is `open()` with its routing by epoch id and
its commit. The network may present any datagram ever sealed, any number of
times, under any epoch id and truncated counter, and junk. A failing AEAD in
`seal()` is a datagram that is never presented.

**TCP leg.** `PadShaper` (boundaries and target length), `TxCodec` (frames into
plaintexts, plaintexts into records), `TcpLeg` (sender, stream, receiver),
`BatchPacking` (`encode_batch` as a function against a reference). A frame is its
type, an id and its length, with the 16-bit fields of its header kept modulo
`LenMod`. `Arrive` adds a byte to the receiver's buffer, so every cut of the
stream occurs. `DecodeInbound` is one call of `decode_inbound`; when a record
yields no frame the loop's next turn is another step, in which nothing else needs
to have happened. `Interfere` removes, repeats, damages or relabels records of
which no byte has arrived. An error ends the receiver, as `ErrorAction` asks; the
sender may go on after a failed call, since nothing in `TxCodec` stops it.

**Handshake.** `SessionKeys` is the key schedule with symbolic values: a key pair
is named after its session, a PRK is the record of its inputs, a tag the record of
what its HMAC covers. `Handshake`
has clients and server connections with any mixture of configurations (none, the
node's, rotated secret, rotated static key; strict node or not), a network that
keeps, repeats, crosses and rewrites hellos, a clock of its own for the node and for
each client, which may run ahead of each other either way, and sessions dropped at
any time. A hello that does not parse, or whose session id has not 32 bytes, touches
no session and is left out.

X25519 is not a free constructor. A key share (`KeyShare`) is some bytes for a
multiple of somebody's point, and `DH` gives one result for many shares, as
`ecdh.rs:58-61` does without a check of its own: it does not see the encoding (bit
255, a coordinate that is not reduced), a share of small order, times 0, gives the
same result to everybody, and a common factor on both shares leaves both ends with
one result. `GoodKeyShare` refuses the all-zero bytes only, which is what
`session.rs:410` does. The network may replace a share by any of these
(`AlteredShares`) or by one of its own. The shares themselves are not inputs of the
PRK (`session.rs:464-485`), so keys in common do not mean that both shares arrived
unchanged; `SharedKeysBindConversation` says what they do mean. Both salts are each
other's, always. The two shares are the same multiple, and if that is not the one by
0, of each other's points. In the anonymous scheme nothing more holds: a common
factor on both shares, 0 included, leaves the ends with keys in common. With
credentials the client's share is the one it sent, byte for byte, because the tag covers it; the
node's static key took part; and the connection's share can only have been written
in other bytes.

The keys of both legs are compared here: `FirstKeys` gives what each end starts
writing and reading with on the TCP leg (from `generate_keys`) and on the UDP leg
(from `DatagramKeys!DeriveFromRoot` of the root it hands over), so that agreement
and separation of keys span both legs and all connections of a node.

**Opening.** The same exchange as bytes. `ByteBlock` is the `bytes` crate: a block
is its length and the fields that begin in it, and a cursor remembers a read past
the end, which panics. `HelloParser` has records, hellos, extensions, the search
for the key share and the interceptors of the bridge as functions from a buffer to
one of some, none, drop, redirect and panic, with the bytes consumed.
`HelloBuilder` has the profiles, the extension builder and the assembly of both
hellos, `Decoy` the catalogue that every SNI goes through and the lengths of the
cover flight, `MlKem` the post-quantum share. `Opening` lets two ends write and
read: `Connect` is `wrap_client_hello` and the ChangeCipherSpec behind it, `Read`
is one call of an unpack function and, for a hello, the answer to it, `Receive`
adds bytes to a buffer. Instead of our client a *stranger* may talk to the node,
or our client may have reached one: some other program that sends one record. The
order in which an end reads hello, ChangeCipherSpec and data is the caller's, which
is not in the repository; the comments of `bridge.rs` fix it. The tag is checked in
`Handshake`; here it is a field that must arrive.

`DatagramChannel` and `FrameStream` are the abstract specifications; `AtMostOnce`
and `InOrder` state by `INSTANCE ... WITH` that the legs implement them.

The operators marked "Faulty variant" are not used by any specification. Each is
a definition with one plausible mistake; put in place of the right one it breaks
the property PROJECT.json names, which shows that the property can fail.

## Runs

| Run | Instance | Shows |
|---|---|---|
| `epoch_receiver` | window 4, wire window 8, 12 counters | the window is exact when slots are reused; reconstruction is nearest; nothing in reach is refused, nothing repeated |
| `leg_one_way` | window 2, wire window 8, 3 datagrams per epoch, epoch ids mod 3, 11 datagrams | four epochs, so ids wrap once while old datagrams are about; what opens and what stays closed |
| `tcp_leg` | header 2, tag 2, records of 8 + 2, 4-bit lengths, 3 frames of 0, 3, 7, 15 or cover, one AEAD failure | order, shaping, counters; under fairness everything settles |
| `tcp_leg_interference` | as above, 3 frames, 2 interferences, unknown types | order survives whatever is done to records, with no gap and no repeat |
| `batch_packing` | up to 4 frames of 0, 3, 4, 8, 9 bytes, record 10, all shapers | least number of records, nothing lost, boundary reached |
| `handshake` | 1 client, 2 connections, 2 steps of the clocks and 2 rewrites, but 3 of both, window 1 | agreement, binding and separation of the keys of both legs, write-once; a hello in time is accepted, one too early or too late is not |
| `opening` | 6 browser and 2 server profiles, 2 GREASE sets, 3 shuffles, hosts of 1 and 253 bytes and 4 that are refused; about 700 records of strangers, sent to either end | hellos carry what they should, readers stay in step, wait only for bytes and stay inside them; padding and shares are what the comments promise; under fairness every opening completes |
| `leg_erasure`, `tcp_leg_wedge`, `tcp_leg_tags`, `handshake_repeat`, `opening_odd_ciphers` | small instances of the same | the five disagreements below |

The bounds keep every case the code distinguishes. In the UDP runs the window is
smaller than an epoch and there are fewer ids than epochs. In
the TCP runs each length class occurs: fits, fills exactly, oversized, wraps. Two
connections are enough for the handshake because each property relates at most
two ends of a kind, and rewriting twice covers a changed version together with a
changed tag, or both shares of a conversation. The time window is one step, and two
steps go to the clocks in any order: both to the client, and its hello is dated beyond
the window ahead of the node; both to the node, before or after the hello was sent, and it
is late; one of each or less, and it is in time, ahead, level or behind. At clock 0 the window
is cut off below.

One direction is enough for the UDP run: the ends share no state, `Handshake`
compares the keys of the directions, and the theorems are about both at once.

In `opening` lengths have their real width, so nothing is scaled. Every published
profile takes part, and `CALIBRATED` has every extension the builder knows, since
the published ones are placeholders that use a few. The shuffles are all swaps with
the first place, none, and a mixture of swaps with the first and inner places; the GREASE sets are all values alike and all
different; the hosts are the shortest and the longest that pass `validate`, which
are the extremes for padding. TCP cuts a stream at, one byte before, four and five
bytes behind each record end: before and inside a header, and exactly behind one.
Strangers' hellos combine session ids of 0, 32 or 255 bytes, cipher lists of 0 and
2 bytes, 0 or 1 compression methods and ten blocks of extensions with wrong or
right lengths, and end at, before or behind the end of any field. Cipher lists of
odd length are left to `opening_odd_ciphers`.

Deadlock checking is off in the TCP, packing, handshake and opening runs, where a bounded
number of frames or hellos is used up and the system may then stop.

**Fairness.** `FairSpec` of `TcpLeg` and of `Opening` assume the same: bytes that were sent arrive
while the leg is up (TCP retransmits, or the connection breaks, which is a leg given
up) and the reader keeps calling `decode_inbound`, or the unpack functions, when there
is something to read (the contract of `Ok(None)` is "call again with more bytes").
In `Opening` the weak fairness of `Read` is written out, as "again and again there
is nothing to read, or bytes are taken". Nothing is assumed of the sender, the network's
interference or the clock. The UDP leg promises no delivery, so no liveness is
stated of it.

## What the checks found

- `leg_erasure`: the ratchet is described as erasing the past chain, but the
  receiver of the same end owns a second copy of the sending chain and never moves
  it (`datagram_keys.rs:24-28`).
- `tcp_leg_wedge`: a frame of 65495 to 65511 bytes wraps the record's length
  field below 17; `can_parse` then waits for ever (`tls_record.rs:46` and `102`).
  Smaller oversized frames pass, larger ones end the leg with an error. `tcp_leg`
  checks `FramesSettle` for all other length classes.
- `tcp_leg_tags`: `decode_inbound` never checks the frame's authenticator that
  `frame.rs:62` says the receiver checks.
- `handshake_repeat`: one hello opens two connections within the tag's window,
  which the README excludes.
- `opening_odd_ciphers`: `ClientHello::parse` reads the cipher list in pairs of
  bytes until nothing remains; `can_parse` does not ask for an even length, so an
  odd one ends in a panic where a refusal is promised (`handshake.rs:266-270`).

Also seen while modelling. `session.rs:199-204` warns that a node which is not
strict allows a downgrade; `SharedKeysBindConversation` holds for such nodes as
well: a client with credentials whose version was rewritten ends with keys nobody
shares. `tls_record.rs:80` says a wrong type leads to Redirect, but `can_parse`
returns false first, so the reader waits; a wrong version does redirect, with the
header already taken from the buffer and no data in the error. The same holds of
application data shorter than 17 bytes; `WaitsOnlyForBytes` names both exceptions.
`encode_cover` raises the 30 bytes of the EncryptedExtensions record of the cover
flight to the 41 of an empty cover frame. A ClientHello of 508 to 511 bytes
would stay unpadded, since padding needs four bytes for itself; no host that passes
`validate` leads there with the published profiles (`PaddedToTarget`). `domains()`
is said to list only what `validate` accepts, but `from_list` keeps IP addresses and
names of wrong syntax.

## Proofs

Each component has its theorems in a module of its own. Every invariant named
below as inductive was also checked by TLC on the runs' instances.

**UDP leg.** `WindowTheorems` proves, for every window size and wire width, that
`accept` keeps the window exact (`AcceptAdds`, `RefusedKeepsMeaning`), that what it
accepts is new (`AcceptedIsNew`), and that reconstruction returns the sealed counter
whenever that is within half a wire window (`ExpandExact`). The arithmetic rests on
two facts: remainders determine a number up to multiples, and two counters closer
than `n` with equal remainders modulo `n` are equal.

`EpochReceiverProofs` shows `TypeOK`, `WindowExact`, `AtMostOnce`, `InWindowOpens` and
`ExpandIsNearest` of one epoch with the invariant "typed, and the window represents
what was handed up".

`DatagramLegProofs` proves all nine properties of `leg_one_way`, for both directions
at once. The inductive invariant `LegInv` has a half per sender (`TxConsistent`:
everything sealed lies on the sender's chain at or before its ratchet, below its
counter in the current epoch, with no key and counter twice) and a half per
receiver (`RxConsistent`: slots and ratchet agree, windows are exact, nothing was
handed up from beyond the current epoch), and says that the receiver's ratchet is
not ahead of the sender's. `AtMostOnce` alone is not inductive: that a fresh slot
for the next epoch starts with an empty window is right only because nothing of
that epoch was handed up before. `OpenStep` states what `open()` does to the
receiver's half as a fact about operators, `SealStep` the same of `seal()`.
`AdjacentEpochsOpen`, `DistantEpochsClosed` and `PeekMatchesSeal` follow from `LegInv`
and the facts of `WindowTheorems`: a live slot is the only one whose epoch id a
neighbouring datagram can carry, because there are at least three ids, and its
counter is within reach because an epoch is at most half of a wire window.

**Handshake.** `HandshakeProofs` proves all eight properties of the `handshake` run
for any number of clients and connections, any drift of their clocks and any number of
rewritten hellos. The invariant `IInv` says of each end that
it is before its derivation (private key, no keys), past it (no private key, and the
keys are `DerivedRoot` of the hello it used) or dropped, and of each hello on the
network that its tag covers nothing or was made by a client over its own salt and key
share; the hello an end used is one of the network's. `DerivedRoot` is stated from the hello that was used and not from the
session's `remote_salt` and `peer_version`: `wrap_server_hello` and `update_keys` overwrite
these for a later hello before they refuse it, so "the keys are what the session's
fields say" is false. `KeysAgree` then is an equality of two roots, the
binding and separation theorems are that a root determines its inputs, which of the
shares is only what `DhEqual` gets out of a result in common, and separation rests on
the salts alone. `NodeAcceptsOnlyTagged` is the invariant on tags at the step that
accepts, and `TimelyHelloIsAccepted` the converse: whichever clock is ahead, a step
within the window is among the `Candidates`, also where the subtraction saturates.

**TCP leg.** `TxCodecProofs` is about `encode_batch` as a function. `SumSeq` and the loop
are folds of the community modules, whose function over subsets is first shown to exist;
`SumTrace` and `PackTrace` turn them into a sequence of turns, and induction over
the natural numbers goes through the well-foundedness of `<` (`SetInduction`, on
a set instead of an operator). `EncodeBatchCovers`: the records carry exactly the frames of the
call, in order, each shaped. `TargetIsLeastBoundary`: `target_record_len` is the least boundary
that holds the plaintext.

`TcpLegProofs` proves all safety properties of `tcp_leg` and `tcp_leg_interference`,
`InOrder` (refinement of `FrameStream`) among them. The argument goes through the
nonces. No nonce is used twice (`NonceInv`), so the k-th record sent has one of at least k - 1, and of exactly k - 1 only if
no call failed before it; then its first frame follows the last one of the record before
it (`Successive`). A receiver that opened c records opened the first c, under the nonces
0 to c - 1 (`ReaderInv`), so the next one it can open is the one after them, whatever
was done to the stream (`WireInv`: a record on the way was sent, but for its clear
header, or does not decrypt). `InOrder` alone is not inductive because it says nothing
of the frames in staging and on the way. `StagingHoldsWholeFrames` needs one more step:
a record that opens has a length that fits its 16-bit field, hence so have its frames,
and no length in it has wrapped.

`BatchPackingProofs` proves the three properties of `batch_packing` for queues of any
length. `PackingMinimal` is the exchange argument for greedy packing as an invariant of
the loop (`Greedy`): with R records written and the items after the s-th in the batch, R
records are the least for s items and R + 1 for each item of the batch; a packing with
fewer records at an earlier place cannot reach past s with one record. It is kept by the
three branches of `encode_batch` (`GreedyJoin`, `GreedyOpen`, `GreedyAlone`).

**Opening.** `OpeningProofs` proves all seven safety properties of the `opening` run,
for every value of the salts, keys and tag, every list of hosts, every GREASE set and
every shuffle that can be drawn, and every profile of the node, with our client's six
profiles as they are in the source. It goes from the parsers to the system in five
parts; `OpeningInvariant` defines what they speak of, the invariant included.

*Parsers, for every byte string.* `ReadersWaitForRecords`: whatever a complete record
contains, each of the three readers answers and takes no more than there is.
`CutsDoNotMatter`: given a prefix of its buffer a reader waits or gives the answer it
gives to all of it, so where TCP cut the stream does not show. Both rest on
`RecordInside`: what follows a record is not read (`PrefixReads`, `PrefixPart`).
`ClientHelloStaysInside` walks the fields with the cursor and finds each end below the
one `can_parse` checked: `parse` reads past the end exactly when the cipher list has
an odd length (the case of `opening_odd_ciphers`), and never otherwise;
`ServerHelloStaysInside`: never. A cursor behind the end is the panic of `Buf`, since
a cursor only moves forward.

*What the writers lay out.* `Block` is the form of every byte string the builders
make, `Lies(c, o, b)` says that `b` stands in `c` at `o`, and `ConcatLaysOut` that
each part of a concatenation does, at the sum of the lengths before it. The extension
list is written in turns, each depending on what is there already (`Turns`);
`ShuffleReorders` shows that whatever was drawn, the shuffle permutes the order and
leaves both ends in place. `HelloRecordBlock` and `AnswerBlock` then say where every
field of both hellos is.

*The inductive invariant* `IInv`. `ReadersInStep` alone is not inductive: that a
reader takes exactly one record needs streams made of whole records that end at the
marks (`StreamsFramed`), that it never takes more than arrived (`PlacesOK`), and that
the first record of each stream is the hello (`FirstWritten`) and a later one is no
handshake record. The node writes only after it has heard a hello it can answer
(`NodeAnswers`, with `HeardFirst`: what an end heard is what the peer's first record
says), and nobody answers a stranger (`StrangerAlone`); without these a second hello
could stand where a reader expects data. `ClientGreets` bounds the host name, which
came through `validate`. Each action keeps `IInv` by a lemma of its own
(`ConnectKeeps`, `ReceiveKeeps`, `ReadKeeps`, ...), and `CutsDoNotMatter` is what
makes a buffer cut anywhere as good as the record in it (`HelloIsFirst`). `TypeOK`,
`ReadersInStep` and `WaitsOnlyForBytes` follow. `OpeningParseStaysInside` has the
hypothesis that strangers' cipher lists have even lengths (`EvenLists`);
`opening_odd_ciphers` is the same property without it, and fails.

*Reading back.* The parsers of extensions and key shares are recursive functions of an
offset; `StackReads` and `SharesRead` turn them into equations by induction from the
end of the list. `StackFinds` shows that looking an id up finds the data of the turn
that wrote it, `EntriesRead` that the shares are the GREASE, ML-KEM and X25519 entries
as the profile has them. `OpeningHelloCarriesKeys` follows with `HeardFirst`,
`OpeningSharesOffered` with the fact that groups and entries begin with the same draw
and then keep the order of the profile.

*Padding.* `OpeningPaddedToTarget` needs that padding is last, which `PaddedOrderKept`
takes from `ShuffleReorders`, and that there is room for it: each id in front of it is
laid out once and is at most `Weight(id)` long, the host name at its longest, so the
list stays below the target (`TurnsShort`), and the padding makes up exactly the rest.

**Key share.** `OpeningProofs` also shows of the share `sample_x25519_mlkem768_share`
makes, for every draw and every tail, that unpacking returns the coefficients in their
order (`EncodingRoundTrips`) and that it has 1216 bytes and only coefficients below
the modulus (`ShareWellFormed`). The argument is one pair at a time: three bytes
determine two 12-bit numbers (`PairSurvives`), and byte `3k + r` of a share belongs to
pair `k` (`ShareTriple`). The space of shares is far beyond TLC.

**Assumptions.** UDP leg: the window and the rekey threshold are positive, the wire
window is even, there are at least three epoch ids, and the rekey threshold is at most
half of the wire window (`1 << 14` datagrams, at least 16 bits on the wire). TCP leg:
headers and tag are not empty, a record with its tag fits the length field, the
boundaries are drawn below the ceiling with a positive gap. Handshake: clients and
connections are different, and none of them is also the name of a secret, a static
key, a foreign value or none; this says that names are distinct. Beyond that the model
itself assumes of the cryptography that HKDF and HMAC give different values for
different inputs, that nobody makes a tag without its key, and of X25519 that results
agree only for the shares said above; it does not model who can compute a value. Opening:
salts, keys, the tag, host names and bytes without a meaning are numbers, and the tag
is not the number that bytes which are no tag read as; drawn GREASE values are among
those of the source, a shuffle draws a number for each turn; the suites of the node's
profiles fit two bytes; a stranger's cipher list fits a record. TLC evaluates all of
them in the runs.

**Only model-checked.** Liveness (`FramesSettle`, `OpeningCompletes`), which needs
fairness, and the five disagreements, which are counterexamples. Every other property
of every run is stated by a theorem.

## Not modelled

Contents of lists nothing reads back (signature algorithms, protocol names, ECH
payload), characters of host names and whether they are UTF-8, `DecoyMode` (the
parsing of a setting no code of the repository acts on), hex parsing of identities,
timing of comparisons, logging, and the callers of the engine, which are not in the
repository. `leg_token` and the header protection keys do not take part in any
decision of the modelled code.

## Plan

All modules, all runs and the proofs of every safety property of every run are done.
What could follow:

1. In `OpeningProofs`, profiles of our client as a constant with the assumptions the
   proof uses of the six (`Listed`, `Ordered`, `Padded`), so that a new profile needs
   only those checked.
2. `TcpLeg` behind `Opening` on one stream, in place of the single data record with
   which an opening ends.
