----------------------------- MODULE SessionKeys ----------------------------
(***************************************************************************)
(* The key schedule of a session (crypto/session.rs, struct SessionKeys    *)
(* and SessionAuth; crypto/ecdh.rs; crypto/identity.rs; crypto/hkdf.rs).   *)
(*                                                                         *)
(* Cryptographic values are named by what determines them.  An ephemeral   *)
(* key pair, and the salt drawn with it, carry the name of the session     *)
(* that made them; a PRK is the record of the inputs of HKDF-Extract; a    *)
(* key is a PRK and the label it was expanded with; a tag is the record of *)
(* the inputs of its HMAC.  Distinct inputs give distinct values there.    *)
(*                                                                         *)
(* Not so for X25519, whose output alone enters the PRK: a key share is 32 *)
(* bytes (its encoding) that stand for a multiple (times) of somebody's    *)
(* own point (of), and several shares give one result.  X25519 does not    *)
(* look at bit 255, reduces the coordinate, and is blind to a component of *)
(* small order, so a point has more than one encoding; the multiples by 0  *)
(* are the shares of small order, of which the code refuses only the one   *)
(* whose bytes are all zeros; and two shares multiplied by one number give *)
(* both ends that multiple of what they would have had.                    *)
(***************************************************************************)
EXTENDS Integers

CONSTANTS AuthWindow,   \* AUTH_WINDOW_SIZE, in steps of AUTH_TIME_STEP seconds
          None          \* Option::None, the all-zero auth_key and remote salt before
                        \*   the handshake, and what the anonymous tag does not cover

ASSUME AuthWindowAssumption == AuthWindow \in Nat

ProtocolVersion == 3
ProtocolVersionAnonymous == 2
MinVersionForStaticDh == 3

\* Identity::Local of a node, and the Identity::Peer its clients are given.  Only
\* a node's strictness is a setting.
LocalIdentity(secret, static, strict) ==
    [role |-> "local", secret |-> secret, static |-> static, strict |-> strict]

PeerIdentity(secret, static) ==
    [role |-> "peer", secret |-> secret, static |-> static, strict |-> TRUE]

NoIdentity == [role |-> None, secret |-> None, static |-> None, strict |-> FALSE]

\* A key share: `times` the own point of `of`.  The encoding is "own" in the share its
\* owner sends, "other" in other bytes for a point, and "zero" in 32 zero bytes, which
\* also stand for a hello without an X25519 share: that is refused alike.
KeyShare(of, times, encoding) == [of |-> of, times |-> times, encoding |-> encoding]

OwnShare(name) == KeyShare(name, 1, "own")

\* Faulty variant: every session takes itself for the initiator.
NewSessionInitiator(name, is_initiator, identity) ==
    [name |-> name, is_initiator |-> TRUE, remote_salt |-> None,
     private_key |-> TRUE, identity |-> identity, auth_key |-> None,
     peer_version |-> IF identity = NoIdentity THEN ProtocolVersionAnonymous
                                               ELSE ProtocolVersion,
     current_aead |-> None, datagram_root |-> None]

\* SessionKeys::new and with_identity.
NewSession(name, is_initiator, identity) ==
    [name |-> name, is_initiator |-> is_initiator, remote_salt |-> None,
     private_key |-> TRUE, identity |-> identity, auth_key |-> None,
     peer_version |-> IF identity = NoIdentity THEN ProtocolVersionAnonymous
                                               ELSE ProtocolVersion,
     current_aead |-> None, datagram_root |-> None]

\* Drop for SessionKeys, and the ZeroizeOnDrop of the ephemeral key.
Dropped(s) ==
    [s EXCEPT !.private_key = FALSE, !.auth_key = None,
              !.current_aead = None, !.datagram_root = None]

HasIdentity(s) == s.identity # NoIdentity

ClaimedVersion(s) ==
    IF HasIdentity(s) THEN ProtocolVersion ELSE ProtocolVersionAnonymous

UsesStaticDh(s) == HasIdentity(s) /\ s.peer_version >= MinVersionForStaticDh

RejectsAnonymous(s) == HasIdentity(s) /\ s.identity.strict

-----------------------------------------------------------------------------
(***************************************************************************)
(* SessionAuth: tags bound to a time step.                                 *)
(***************************************************************************)
ComputeTag(key, step) ==
    [key |-> key, step |-> step, random |-> None, public |-> None]

\* Faulty variant: the tag does not cover the key share.
ComputeHandshakeTagUnbound(key, step, random, public) ==
    [key |-> key, step |-> step, random |-> random, public |-> None]

ComputeHandshakeTag(key, step, random, public) ==
    [key |-> key, step |-> step, random |-> random, public |-> public]

\* Faulty variant: no tag of a client whose clock is ahead is tried.
CandidatesPast(step) ==
    (IF step < AuthWindow THEN 0 ELSE step - AuthWindow) .. step

\* Faulty variant: one step too many.
CandidatesAhead(step) ==
    (IF step < AuthWindow THEN 0 ELSE step - AuthWindow) .. (step + AuthWindow + 1)

\* The steps verify_tag and verify_handshake_tag try; the subtraction saturates.
Candidates(step) ==
    (IF step < AuthWindow THEN 0 ELSE step - AuthWindow) .. (step + AuthWindow)

\* The tag of a client's own hello.
HandshakeTag(s, step) ==
    IF HasIdentity(s)
    THEN ComputeHandshakeTag(s.identity.secret, step, s.name, OwnShare(s.name))
    ELSE ComputeTag(s.auth_key, step)

VerifyHandshakeTag(s, tag, random, public, step) ==
    \/ /\ UsesStaticDh(s)
       /\ \E t \in Candidates(step) :
             tag = ComputeHandshakeTag(s.identity.secret, t, random, public)
    \/ /\ ~UsesStaticDh(s)
       /\ ~RejectsAnonymous(s)
       /\ \E t \in Candidates(step) : tag = ComputeTag(s.auth_key, t)

-----------------------------------------------------------------------------
(***************************************************************************)
(* From the peer's hello to the keys.                                      *)
(***************************************************************************)
\* ECDH::dh and the static half: the owners of both points compute the same value.
\* Nothing checks that the other point contributed, so that the result of a share of
\* small order, zero, is a value like any other; and the encoding takes no part.
DH(private, share) ==
    IF share.times = 0 THEN [halves |-> {}, times |-> 0]
    ELSE [halves |-> {private, share.of}, times |-> share.times]

\* Faulty variant: each end puts its own half first.
TotalSaltUnmirrored(s) == <<s.name, s.remote_salt>>

\* SaltPair::get_total: the client's half first at both ends.
TotalSalt(s) ==
    IF s.is_initiator THEN <<s.name, s.remote_salt>> ELSE <<s.remote_salt, s.name>>

\* extract_peer_public succeeds: there is an X25519 share, and it is not all zeros.
GoodKeyShare(key_share) == key_share.encoding # "zero"

\* Identity::static_dh.
StaticDh(s, peer_ephemeral) ==
    IF s.identity.role = "peer"
    THEN DH(s.name, OwnShare(s.identity.static))
    ELSE DH(s.identity.static, peer_ephemeral)

\* Faulty variant: the static exchange is left out.
PrkWithoutStatic(s, public_key) ==
    [salt |-> TotalSalt(s), dh |-> DH(s.name, public_key), static |-> {}]

\* HKDF-Extract over the salt and the key exchange results, of which the static one
\* is there or not; the domain label of version 3 tells the two cases apart.  The
\* key shares themselves are not among the inputs.
Prk(s, public_key) ==
    [salt   |-> TotalSalt(s),
     dh     |-> DH(s.name, public_key),
     static |-> IF UsesStaticDh(s) THEN {StaticDh(s, public_key)} ELSE {}]

Expand(prk, label) == [prk |-> prk, label |-> label]

\* Faulty variant: the private key outlives the handshake.
GenerateKeysUnburnt(s, public_key, is_server) ==
    LET prk    == Prk(s, public_key)
        client == Expand(prk, "client")
        server == Expand(prk, "server")
    IN  [s EXCEPT !.datagram_root = prk,
                  !.auth_key = Expand(prk, "auth"),
                  !.current_aead = IF is_server THEN [tx |-> server, rx |-> client]
                                                ELSE [tx |-> client, rx |-> server]]

\* generate_keys, which fails when the private key is already burnt.
GenerateKeys(s, public_key, is_server) ==
    LET prk    == Prk(s, public_key)
        client == Expand(prk, "client")
        server == Expand(prk, "server")
    IN  [s EXCEPT !.private_key = FALSE,
                  !.datagram_root = prk,
                  !.auth_key = Expand(prk, "auth"),
                  !.current_aead = IF is_server THEN [tx |-> server, rx |-> client]
                                                ELSE [tx |-> client, rx |-> server]]

\* Faulty variant: a burnt private key goes unnoticed.
UpdateKeysOkAgain(s, key_share) == GoodKeyShare(key_share)

UpdateKeysOk(s, key_share) == GoodKeyShare(key_share) /\ s.private_key

\* The SessionKeys update_keys leaves behind: the remote salt is set in any case.
UpdateKeys(s, salt, key_share, is_server) ==
    LET salted == [s EXCEPT !.remote_salt = salt]
    IN  IF UpdateKeysOk(s, key_share)
        THEN GenerateKeys(salted, key_share, is_server)
        ELSE salted

=============================================================================
