--------------------------- MODULE HandshakeProofs --------------------------
(***************************************************************************)
(* Handshakes, proved for any number of clients and server connections,    *)
(* any drift of their clocks and any number of rewritten hellos.           *)
(*                                                                         *)
(* What an end's keys are is a function of the hello it derived them from: *)
(* DerivedRoot.  It mentions neither remote_salt nor peer_version, which   *)
(* later hellos overwrite although they no longer change a key.  The       *)
(* inductive invariant says of every end that it is before, after or past  *)
(* the derivation, and of every hello on the network that its tag is the   *)
(* public one or was made by a client over its own salt and key share.     *)
(***************************************************************************)
EXTENDS Handshake, TLAPS

Versions == {ProtocolVersionAnonymous, ProtocolVersion}

Salts == Ends \cup {"foreign"}

\* Whatever the network may put in a hello as a key share.
KeyShares == [of : Ends \cup {"foreign"}, times : Nat, encoding : {"own", "other", "zero"}]

\* Everything that can enter a key exchange or a salt.
Names == Ends \cup {"foreign", None, "static", "old static"}

\* What X25519 can yield.
Products == [halves : SUBSET Names, times : Nat]

Secrets == {None, "secret", "old secret"}

Tags == [key : Secrets, step : Nat, random : Ends \cup {None}, public : KeyShares \cup {None}]

Hellos == [type : {"client", "server"}, version : Versions, tag : Tags, random : Salts,
           key_share : KeyShares]

Identities == NodeIdentities \cup ClientIdentities

Roots == [salt : Names \X Names, dh : Products, static : SUBSET Products]

Keys == [prk : Roots, label : {"client", "server", "auth"}]

Sessions == [name : Ends, is_initiator : BOOLEAN, remote_salt : Salts \cup {None},
             private_key : BOOLEAN, identity : Identities, auth_key : Keys \cup {None},
             peer_version : Versions, current_aead : [tx : Keys, rx : Keys] \cup {None},
             datagram_root : Roots \cup {None}]

\* The static exchange is part of the keys an end derives from hello u.
DerivesStatic(s, u) == HasIdentity(s) /\ (s.is_initiator \/ u.version >= MinVersionForStaticDh)

\* The root of the keys an end derives from hello u.
DerivedRoot(s, u) ==
    [salt   |-> IF s.is_initiator THEN <<s.name, u.random>> ELSE <<u.random, s.name>>,
     dh     |-> DH(s.name, u.key_share),
     static |-> IF DerivesStatic(s, u) THEN {StaticDh(s, u.key_share)} ELSE {}]

\* The tag of hello u is one that a server which derives its keys from it verified.
TagFits(s, u) ==
    IF DerivesStatic(s, u)
    THEN /\ u.tag.key = s.identity.secret
         /\ u.tag.random = u.random /\ u.tag.public = u.key_share
    ELSE u.tag.key = None

\* The end holds the keys that follow from hello u, whose tag it verified if it
\* is a server's.
Derived(s, u) ==
    LET root == DerivedRoot(s, u) IN
    /\ u \in Hellos
    /\ s.datagram_root = root
    /\ s.auth_key = Expand(root, "auth")
    /\ s.current_aead =
          IF s.is_initiator THEN [tx |-> Expand(root, "client"), rx |-> Expand(root, "server")]
                            ELSE [tx |-> Expand(root, "server"), rx |-> Expand(root, "client")]
    /\ ~s.is_initiator => TagFits(s, u)

NoKeys(s) == s.auth_key = None /\ s.current_aead = None /\ s.datagram_root = None

\* What stays as it was when the session was set up.
Settled(s, p) ==
    /\ s \in Sessions
    /\ s.name = p
    /\ s.is_initiator <=> p \in Clients
    /\ s.identity \in IF p \in Clients THEN ClientIdentities ELSE NodeIdentities
    /\ p \in Clients => s.peer_version = ClaimedVersion(s)

\* An end is before its handshake, past it, or dropped.
Phase(s, u, is_closed) ==
    \/ s.private_key /\ NoKeys(s) /\ ~is_closed
    \/ ~s.private_key /\ Derived(s, u) /\ ~is_closed
    \/ ~s.private_key /\ NoKeys(s) /\ is_closed

\* The tag covers nothing, or a client made it over its own salt and key share.
Genuine(tag) ==
    \/ tag.key = None /\ tag.random = None /\ tag.public = None
    \/ \E c \in Clients :
          /\ HasIdentity(session[c]) /\ tag.key = session[c].identity.secret
          /\ tag.random = c /\ tag.public = OwnShare(c)

HelloSent(c) == \E m \in net : m.type = "client" /\ m.random = c

\* An end that is past its handshake had a hello from the network for it, and a
\* client has sent its own.
Met(p) == used[p] \in net /\ (p \in Clients => HelloSent(p))

IInv ==
    /\ session \in [Ends -> Sessions]
    /\ net \subseteq Hellos
    /\ used \in [Ends -> net \cup {None}]
    /\ closed \subseteq Ends
    /\ clock \in [Machines -> Nat]
    /\ ticks \in 0 .. MaxTicks /\ rewrites \in 0 .. MaxRewrites
    /\ \A p \in Ends : Settled(session[p], p) /\ Phase(session[p], used[p], p \in closed)
    /\ \A p \in Ends : session[p].private_key \/ p \in closed \/ Met(p)
    /\ \A m \in net : Genuine(m.tag)

-----------------------------------------------------------------------------
(***************************************************************************)
(* The configurations and the names.                                       *)
(***************************************************************************)

\* An end is a client or a server connection, and no other name is an end's.
LEMMA EndFacts ==
    /\ \A p \in Ends : (p \in Clients) <=> ~(p \in Servers)
    /\ Clients \subseteq Ends /\ Servers \subseteq Ends
    /\ None \notin Salts
    /\ \A p \in Ends : p \notin {None, "foreign", "node", "static", "old static"}
  BY HandshakeAssumption DEF Ends, Salts

\* The version claimed with credentials has the static exchange, the other not.
LEMMA VersionFacts ==
    /\ ProtocolVersion >= MinVersionForStaticDh
    /\ ~(ProtocolVersionAnonymous >= MinVersionForStaticDh)
  BY DEF ProtocolVersion, ProtocolVersionAnonymous, MinVersionForStaticDh

\* What the credentials of a node and of its clients are.
LEMMA IdentityFacts ==
    ASSUME NEW identity
    PROVE  /\ identity \in NodeIdentities /\ identity # NoIdentity =>
                 /\ identity.role = "local" /\ identity.secret = "secret"
                 /\ identity.static = "static"
           /\ identity \in ClientIdentities /\ identity # NoIdentity =>
                 /\ identity.role = "peer" /\ identity.secret \in {"secret", "old secret"}
                 /\ identity.static \in {"static", "old static"}
           /\ identity \in Identities =>
                 /\ identity.secret \in Secrets
                 /\ identity.secret = None <=> identity = NoIdentity
                 /\ identity # NoIdentity => identity.static \in Names
                 /\ identity.strict \in BOOLEAN
  <1>1. NoIdentity.secret = None /\ NoIdentity.strict = FALSE
    BY DEF NoIdentity
  <1>2. ASSUME identity \in NodeIdentities, identity # NoIdentity
        PROVE  /\ identity.role = "local" /\ identity.secret = "secret"
               /\ identity.static = "static" /\ identity.strict \in BOOLEAN
    BY <1>2 DEF NodeIdentities, LocalIdentity
  <1>3. ASSUME identity \in ClientIdentities, identity # NoIdentity
        PROVE  /\ identity.role = "peer" /\ identity.secret \in {"secret", "old secret"}
               /\ identity.static \in {"static", "old static"} /\ identity.strict = TRUE
    <2>1. PICK secret \in {"secret", "old secret"}, static \in {"static", "old static"} :
             identity = PeerIdentity(secret, static)
      BY <1>3 DEF ClientIdentities
    <2> QED
      BY <2>1 DEF PeerIdentity
  <1>4. None \notin {"secret", "old secret"}
    BY HandshakeAssumption
  <1> QED
    BY <1>1, <1>2, <1>3, <1>4 DEF Identities, Secrets, Names

\* What a settled session knows of itself.
LEMMA SettledFacts ==
    ASSUME NEW s, NEW p \in Ends, Settled(s, p)
    PROVE  /\ s \in Sessions /\ s.name = p
           /\ s.is_initiator \in BOOLEAN /\ s.private_key \in BOOLEAN
           /\ s.is_initiator <=> p \in Clients
           /\ s.identity \in Identities
           /\ HasIdentity(s) /\ p \in Clients => s.identity.role = "peer"
           /\ HasIdentity(s) /\ p \in Servers => s.identity.role = "local"
  BY EndFacts, IdentityFacts DEF Settled, Sessions, HasIdentity, Identities

\* An own share is a key share, and stands for the name's own point.
LEMMA OwnShareFacts ==
    ASSUME NEW name
    PROVE  LET share == OwnShare(name)
           IN  /\ share.of = name /\ share.times = 1 /\ share.encoding = "own"
               /\ name \in Ends \cup {"foreign"} => share \in KeyShares
               /\ GoodKeyShare(share)
  BY DEF OwnShare, KeyShare, KeyShares, GoodKeyShare

\* Both owners of two points that arrived unchanged compute the same value.
LEMMA DhCommutes ==
    ASSUME NEW a, NEW b
    PROVE  DH(a, OwnShare(b)) = DH(b, OwnShare(a))
  <1>1. ASSUME NEW x, NEW y
        PROVE  DH(x, OwnShare(y)) = [halves |-> {x, y}, times |-> 1]
    <2>1. OwnShare(y).times = 1 /\ OwnShare(y).of = y
      BY DEF OwnShare, KeyShare
    <2> QED
      BY <2>1 DEF DH
  <1>2. {a, b} = {b, a}
    OBVIOUS
  <1> QED
    BY <1>1, <1>2

\* The result of X25519 is well typed.
LEMMA DhType ==
    ASSUME NEW private \in Names, NEW share, share.times \in Nat, share.of \in Names
    PROVE  DH(private, share) \in Products
  BY DEF DH, Products

\* One result at two ends: both shares are the same multiple, and unless that is
\* the one by 0, each is of the other end's point.
LEMMA DhEqual ==
    ASSUME NEW c, NEW p, c # p, NEW back, NEW there, DH(c, back) = DH(p, there)
    PROVE  /\ there.times = back.times
           /\ there.times # 0 => there.of = c /\ back.of = p
  <1> DEFINE x == DH(c, back)
             y == DH(p, there)
  <1>1. x = y
    OBVIOUS
  <1>2. /\ back.times = 0 => x.halves = {} /\ x.times = 0
        /\ back.times # 0 => x.halves = {c, back.of} /\ x.times = back.times
    BY DEF DH
  <1>3. /\ there.times = 0 => y.halves = {} /\ y.times = 0
        /\ there.times # 0 => y.halves = {p, there.of} /\ y.times = there.times
    BY DEF DH
  <1> HIDE DEF x, y
  <1>4. there.times = back.times
    BY <1>1, <1>2, <1>3
  <1>5. ASSUME there.times # 0 PROVE there.of = c /\ back.of = p
    <2>1. {c, back.of} = {p, there.of}
      BY <1>1, <1>2, <1>3, <1>4, <1>5
    <2> QED
      BY <2>1
  <1> QED
    BY <1>4, <1>5

\* A root is its three inputs.
LEMMA RootEqual ==
    ASSUME NEW a \in Roots, NEW b \in Roots, a.salt = b.salt, a.dh = b.dh, a.static = b.static
    PROVE  a = b
  BY DEF Roots

\* The root an end derives is well typed.
LEMMA DerivedRootType ==
    ASSUME NEW s, NEW p \in Ends, Settled(s, p), NEW u \in Hellos
    PROVE  DerivedRoot(s, u) \in Roots
  <1>1. /\ s.name = p /\ p \in Names /\ u.random \in Names
        /\ u.key_share.of \in Names /\ u.key_share.times \in Nat
    <2>1. u.random \in Salts /\ u.key_share \in KeyShares /\ s.name = p
      BY SettledFacts DEF Hellos
    <2> QED
      BY <2>1 DEF Names, Salts, KeyShares
  <1>2. HasIdentity(s) => s.identity.static \in Names
    BY SettledFacts, IdentityFacts DEF HasIdentity
  <1>3. ASSUME DerivesStatic(s, u)
        PROVE  StaticDh(s, u.key_share) \in Products
    <2>1. s.identity.static \in Names
      BY <1>2, <1>3 DEF DerivesStatic
    <2>2. DH(s.identity.static, u.key_share) \in Products
      BY <1>1, <2>1, DhType
    <2>3. DH(s.name, OwnShare(s.identity.static)) \in Products
      <3>1. /\ OwnShare(s.identity.static).times = 1
            /\ OwnShare(s.identity.static).of = s.identity.static
        BY OwnShareFacts
      <3> QED
        BY <1>1, <2>1, <3>1, DhType
    <2> QED
      BY <2>2, <2>3 DEF StaticDh
  <1>4. DH(s.name, u.key_share) \in Products
    BY <1>1, DhType
  <1> QED
    BY <1>1, <1>3, <1>4 DEF DerivedRoot, Roots

-----------------------------------------------------------------------------
(***************************************************************************)
(* update_keys.                                                            *)
(***************************************************************************)

\* Where the version an end goes by answers uses_static_dh the way DerivesStatic
\* does, HKDF-Extract is given exactly the inputs of DerivedRoot.
LEMMA PrkIsDerivedRoot ==
    ASSUME NEW s, NEW p \in Ends, Settled(s, p), NEW u \in Hellos,
           p \in Servers => s.peer_version = u.version
    PROVE  Prk([s EXCEPT !.remote_salt = u.random], u.key_share) = DerivedRoot(s, u)
  <1> DEFINE salted == [s EXCEPT !.remote_salt = u.random]
  <1>1. /\ salted.name = s.name /\ salted.is_initiator = s.is_initiator
        /\ salted.remote_salt = u.random /\ salted.identity = s.identity
        /\ salted.peer_version = s.peer_version
    BY SettledFacts DEF Sessions
  <1> HIDE DEF salted
  <1>2. UsesStaticDh(salted) <=> DerivesStatic(s, u)
    <2>1. CASE p \in Clients
      <3>1. s.is_initiator /\ s.peer_version = ClaimedVersion(s)
        BY <2>1, SettledFacts DEF Settled
      <3> QED
        BY <1>1, <3>1 DEF UsesStaticDh, DerivesStatic, HasIdentity, ClaimedVersion,
                          ProtocolVersion, ProtocolVersionAnonymous, MinVersionForStaticDh
    <2>2. CASE p \in Servers
      BY <1>1, <2>2, SettledFacts, EndFacts DEF UsesStaticDh, DerivesStatic, HasIdentity
    <2> QED
      BY <2>1, <2>2 DEF Ends
  <1>3. TotalSalt(salted) = IF s.is_initiator THEN <<s.name, u.random>> ELSE <<u.random, s.name>>
    BY <1>1 DEF TotalSalt
  <1>4. StaticDh(salted, u.key_share) = StaticDh(s, u.key_share)
    BY <1>1 DEF StaticDh
  <1>5. Prk(salted, u.key_share) = DerivedRoot(s, u)
    BY <1>1, <1>2, <1>3, <1>4 DEF Prk, DerivedRoot
  <1> QED
    BY <1>5 DEF salted

\* What update_keys never touches.
LEMMA UpdateKeepsRest ==
    ASSUME NEW s, NEW p \in Ends, Settled(s, p), NEW u \in Hellos, NEW is_server \in BOOLEAN,
           p \in Servers => s.peer_version = u.version
    PROVE  LET after == UpdateKeys(s, u.random, u.key_share, is_server)
           IN  /\ Settled(after, p)
               /\ after.identity = s.identity /\ after.is_initiator = s.is_initiator
               /\ after.peer_version = s.peer_version
               /\ ~UpdateKeysOk(s, u.key_share) =>
                     /\ after.private_key = s.private_key /\ after.auth_key = s.auth_key
                     /\ after.current_aead = s.current_aead
                     /\ after.datagram_root = s.datagram_root
               /\ UpdateKeysOk(s, u.key_share) =>
                     /\ ~after.private_key
                     /\ after.datagram_root = DerivedRoot(s, u)
                     /\ after.auth_key = Expand(DerivedRoot(s, u), "auth")
                     /\ after.current_aead =
                           IF is_server THEN [tx |-> Expand(DerivedRoot(s, u), "server"),
                                              rx |-> Expand(DerivedRoot(s, u), "client")]
                                        ELSE [tx |-> Expand(DerivedRoot(s, u), "client"),
                                              rx |-> Expand(DerivedRoot(s, u), "server")]
  <1> DEFINE salted == [s EXCEPT !.remote_salt = u.random]
             after == UpdateKeys(s, u.random, u.key_share, is_server)
             root == DerivedRoot(s, u)
  <1>1. s \in Sessions /\ u.random \in Salts
    BY SettledFacts DEF Hellos
  <1>2. /\ salted \in Sessions /\ salted.name = s.name /\ salted.is_initiator = s.is_initiator
        /\ salted.identity = s.identity /\ salted.peer_version = s.peer_version
        /\ salted.private_key = s.private_key /\ salted.auth_key = s.auth_key
        /\ salted.current_aead = s.current_aead /\ salted.datagram_root = s.datagram_root
    BY <1>1 DEF Sessions
  <1>3. root \in Roots
    BY DerivedRootType
  <1>4. Prk(salted, u.key_share) = root
    BY PrkIsDerivedRoot
  <1> HIDE DEF salted, root
  <1>5. CASE ~UpdateKeysOk(s, u.key_share)
    <2>1. after = salted
      BY <1>5 DEF UpdateKeys, salted
    <2> HIDE DEF after
    <2>2. Settled(salted, p)
      BY <1>2 DEF Settled, ClaimedVersion, HasIdentity
    <2> QED
      BY <1>2, <1>5, <2>1, <2>2 DEF after, root
  <1>6. CASE UpdateKeysOk(s, u.key_share)
    <2> DEFINE client == Expand(root, "client")
               server == Expand(root, "server")
               auth == Expand(root, "auth")
               aead == IF is_server THEN [tx |-> server, rx |-> client]
                                    ELSE [tx |-> client, rx |-> server]
    <2>1. after = GenerateKeys(salted, u.key_share, is_server)
      BY <1>6 DEF UpdateKeys, salted
    <2>2. after = [salted EXCEPT !.private_key = FALSE, !.datagram_root = root,
                                 !.auth_key = auth, !.current_aead = aead]
      BY <1>4, <2>1 DEF GenerateKeys
    <2>3. client \in Keys /\ server \in Keys /\ auth \in Keys
      BY <1>3 DEF Expand, Keys
    <2>4. aead \in [tx : Keys, rx : Keys]
      BY <2>3
    <2> HIDE DEF after, client, server, auth, aead
    <2>5. /\ after \in Sessions /\ after.name = s.name /\ after.is_initiator = s.is_initiator
          /\ after.identity = s.identity /\ after.peer_version = s.peer_version
          /\ after.private_key = FALSE /\ after.auth_key = auth
          /\ after.current_aead = aead /\ after.datagram_root = root
      BY <1>2, <1>3, <2>2, <2>3, <2>4 DEF Sessions
    <2>6. Settled(after, p)
      BY <2>5 DEF Settled, ClaimedVersion, HasIdentity
    <2> QED
      BY <1>6, <2>5, <2>6 DEF after, client, server, auth, aead, root
  <1> QED
    BY <1>5, <1>6

\* Keys that are derived stay derived while the fields they depend on stay.
LEMMA PhaseStable ==
    ASSUME NEW s, NEW after, NEW u, NEW is_closed, Phase(s, u, is_closed),
           after.name = s.name, after.is_initiator = s.is_initiator,
           after.identity = s.identity, after.private_key = s.private_key,
           after.auth_key = s.auth_key, after.current_aead = s.current_aead,
           after.datagram_root = s.datagram_root
    PROVE  Phase(after, u, is_closed)
  <1>1. NoKeys(s) => NoKeys(after)
    BY DEF NoKeys
  <1>2. DerivesStatic(after, u) = DerivesStatic(s, u) /\ StaticDh(after, u.key_share) = StaticDh(s, u.key_share)
    BY DEF DerivesStatic, HasIdentity, StaticDh
  <1>3. DerivedRoot(after, u) = DerivedRoot(s, u)
    BY <1>2 DEF DerivedRoot
  <1>4. Derived(s, u) => Derived(after, u)
    BY <1>2, <1>3 DEF Derived, TagFits
  <1> QED
    BY <1>1, <1>4 DEF Phase

\* update_keys takes an end that is open from a phase to a phase, and derives keys
\* only from the hello at hand.
LEMMA UpdatePhase ==
    ASSUME NEW s, NEW p \in Ends, Settled(s, p), NEW u, Phase(s, u, FALSE), NEW m \in Hellos,
           p \in Servers => s.peer_version = m.version,
           p \in Servers /\ s.private_key => TagFits(s, m)
    PROVE  Phase(UpdateKeys(s, m.random, m.key_share, p \in Servers),
                 IF UpdateKeysOk(s, m.key_share) THEN m ELSE u, FALSE)
  <1> DEFINE is_server == p \in Servers
             after == UpdateKeys(s, m.random, m.key_share, is_server)
  <1>0. is_server \in BOOLEAN
    OBVIOUS
  <1> HIDE DEF is_server
  <1>1. /\ Settled(after, p)
        /\ after.identity = s.identity /\ after.is_initiator = s.is_initiator
        /\ ~UpdateKeysOk(s, m.key_share) =>
              /\ after.private_key = s.private_key /\ after.auth_key = s.auth_key
              /\ after.current_aead = s.current_aead
              /\ after.datagram_root = s.datagram_root
        /\ UpdateKeysOk(s, m.key_share) =>
              /\ ~after.private_key
              /\ after.datagram_root = DerivedRoot(s, m)
              /\ after.auth_key = Expand(DerivedRoot(s, m), "auth")
              /\ after.current_aead =
                    IF is_server THEN [tx |-> Expand(DerivedRoot(s, m), "server"),
                                       rx |-> Expand(DerivedRoot(s, m), "client")]
                                 ELSE [tx |-> Expand(DerivedRoot(s, m), "client"),
                                       rx |-> Expand(DerivedRoot(s, m), "server")]
    BY <1>0, UpdateKeepsRest
  <1> HIDE DEF after
  <1>2. after.name = s.name
    BY <1>1, SettledFacts
  <1>3. CASE ~UpdateKeysOk(s, m.key_share)
    <2>1. Phase(after, u, FALSE)
      BY <1>1, <1>2, <1>3, PhaseStable
    <2> QED
      BY <1>3, <2>1 DEF after, is_server
  <1>4. CASE UpdateKeysOk(s, m.key_share)
    <2>1. s.private_key /\ (s.is_initiator <=> ~is_server)
      BY <1>4, SettledFacts, EndFacts DEF UpdateKeysOk, is_server
    <2>2. DerivesStatic(after, m) = DerivesStatic(s, m) /\ StaticDh(after, m.key_share) = StaticDh(s, m.key_share)
      BY <1>1, <1>2 DEF DerivesStatic, HasIdentity, StaticDh
    <2>3. DerivedRoot(after, m) = DerivedRoot(s, m)
      BY <1>1, <1>2, <2>2 DEF DerivedRoot
    <2>4. ~after.is_initiator => TagFits(after, m)
      BY <1>1, <2>1, <2>2 DEF is_server, TagFits
    <2>5. Derived(after, m)
      BY <1>1, <1>4, <2>1, <2>3, <2>4 DEF Derived
    <2> QED
      BY <1>1, <1>4, <2>5 DEF Phase, after, is_server
  <1> QED
    BY <1>3, <1>4

-----------------------------------------------------------------------------
(***************************************************************************)
(* The inductive invariant.                                                *)
(***************************************************************************)

\* The invariant at one end.
LEMMA IInvAt ==
    ASSUME IInv, NEW p \in Ends
    PROVE  /\ session[p] \in Sessions /\ Settled(session[p], p)
           /\ Phase(session[p], used[p], p \in closed)
           /\ session[p].private_key \in BOOLEAN
  BY SettledFacts DEF IInv

\* The clocks show numbers, and the counters of the bounds are bounded.
LEMMA Bounds ==
    ASSUME IInv
    PROVE  /\ MaxTicks \in Nat /\ MaxRewrites \in Nat
           /\ ticks \in Nat /\ ticks <= MaxTicks /\ rewrites \in Nat /\ rewrites <= MaxRewrites
           /\ \A x \in Machines : clock[x] \in Nat
           /\ \A p \in Ends : Clock(p) \in Nat
  <1>1. MaxTicks \in Nat /\ MaxRewrites \in Nat
    BY HandshakeAssumption
  <1>2. ticks \in 0 .. MaxTicks /\ rewrites \in 0 .. MaxRewrites
    BY DEF IInv
  <1>3. \A x \in Machines : clock[x] \in Nat
    BY DEF IInv
  <1>4. \A p \in Ends : Clock(p) \in Nat
    BY <1>3 DEF Clock, Machines
  <1> QED
    BY <1>1, <1>2, <1>3, <1>4

\* The hello an end's keys were derived from is one of the network's.
LEMMA UsedHello ==
    ASSUME IInv, NEW p \in Ends
    PROVE  used[p] \in net \cup {None}
  BY DEF IInv

\* A step that changes one end, keeps its credentials, and adds well-typed hellos
\* with genuine tags, keeps the invariant.
LEMMA OneEndStep ==
    ASSUME IInv, NEW p \in Ends, NEW s, NEW u,
           session' = [session EXCEPT ![p] = s], used' = [used EXCEPT ![p] = u],
           Settled(s, p), s.identity = session[p].identity,
           Phase(s, u, p \in closed'), u \in net' \cup {None},
           closed' \in {closed, closed \cup {p}},
           \/ s.private_key \/ p \in closed'
           \/ u \in net' /\ (p \in Clients => HelloSent(p)),
           net \subseteq net', net' \subseteq Hellos,
           \A m \in net' \ net : Genuine(m.tag),
           clock' \in [Machines -> Nat],
           ticks' \in 0 .. MaxTicks, rewrites' \in 0 .. MaxRewrites
    PROVE  IInv'
  <1>0. session \in [Ends -> Sessions] /\ used \in [Ends -> net' \cup {None}] /\ s \in Sessions
    <2>1. \A q \in Ends : used[q] \in net' \cup {None}
      BY UsedHello
    <2> QED
      BY <2>1, SettledFacts DEF IInv
  <1>1. session' \in [Ends -> Sessions] /\ used' \in [Ends -> net' \cup {None}]
    BY <1>0
  <1>2. session'[p] = s /\ used'[p] = u
    BY <1>0
  <1>3. ASSUME NEW q \in Ends, q # p
        PROVE  session'[q] = session[q] /\ used'[q] = used[q] /\ (q \in closed' <=> q \in closed)
    BY <1>0, <1>3
  <1>4. \A q \in Ends : Settled(session'[q], q) /\ Phase(session'[q], used'[q], q \in closed')
    <2> SUFFICES ASSUME NEW q \in Ends
                 PROVE  Settled(session'[q], q) /\ Phase(session'[q], used'[q], q \in closed')
      OBVIOUS
    <2>1. CASE q = p
      BY <1>2, <2>1
    <2>2. CASE q # p
      <3>1. Settled(session[q], q) /\ Phase(session[q], used[q], q \in closed)
        BY IInvAt
      <3> QED
        BY <1>3, <2>2, <3>1 DEF Phase
    <2> QED
      BY <2>1, <2>2
  <1>5. ASSUME NEW q \in Ends
        PROVE  session'[q].private_key \/ q \in closed' \/ Met(q)'
    <2>1. HelloSent(q) => HelloSent(q)'
      BY DEF HelloSent
    <2>2. CASE q = p
      BY <1>2, <2>1, <2>2 DEF Met
    <2>3. CASE q # p
      <3>1. session[q].private_key \/ q \in closed \/ Met(q)
        BY DEF IInv
      <3> QED
        BY <1>3, <2>1, <2>3, <3>1 DEF Met
    <2> QED
      BY <2>2, <2>3
  <1>6. \A c \in Clients : session'[c].identity = session[c].identity
    BY <1>2, <1>3, EndFacts
  <1>7. ASSUME NEW m \in net'
        PROVE  Genuine(m.tag)'
    <2>1. Genuine(m.tag)
      BY <1>7 DEF IInv
    <2> QED
      BY <1>6, <2>1 DEF Genuine, HasIdentity
  <1>8. closed' \subseteq Ends
    BY DEF IInv
  <1> QED
    BY <1>1, <1>4, <1>5, <1>7, <1>8 DEF IInv

\* A step that changes no end and adds well-typed hellos with genuine tags keeps
\* the invariant.
LEMMA NetworkStep ==
    ASSUME IInv, UNCHANGED <<session, used, closed>>,
           net \subseteq net', net' \subseteq Hellos,
           \A m \in net' \ net : Genuine(m.tag),
           clock' \in [Machines -> Nat],
           ticks' \in 0 .. MaxTicks, rewrites' \in 0 .. MaxRewrites
    PROVE  IInv'
  <1>1. \A p \in Ends : Met(p) => Met(p)'
    BY DEF Met, HelloSent
  <1>2. ASSUME NEW m \in net'
        PROVE  Genuine(m.tag)'
    <2>1. Genuine(m.tag)
      BY <1>2 DEF IInv
    <2> QED
      BY <2>1 DEF Genuine
  <1>3. used' \in [Ends -> net' \cup {None}]
    BY DEF IInv
  <1> QED
    BY <1>1, <1>2, <1>3 DEF IInv

\* The fields of a tag that covers nothing.
LEMMA PublicTag ==
    ASSUME NEW step \in Nat
    PROVE  ComputeTag(None, step) \in Tags /\ Genuine(ComputeTag(None, step))
  BY DEF ComputeTag, Tags, Secrets, Genuine

\* make_client_hello keeps the invariant: a client that has no hello out still has
\* its private key, so the tag it computes without credentials is the public one.
LEMMA SendPreserves ==
    ASSUME IInv, NEW c \in Clients, SendClientHello(c)
    PROVE  IInv'
  <1> DEFINE s == session[c]
             hello == ClientHello(s, Clock(c))
  <1>0. c \in Ends /\ Settled(s, c) /\ Phase(s, used[c], c \in closed) /\ s.name = c
        /\ c \notin closed /\ Clock(c) \in Nat
    <2>1. c \in Ends
      BY EndFacts
    <2>2. Settled(s, c) /\ Phase(s, used[c], c \in closed)
      BY <2>1, IInvAt
    <2> QED
      BY <2>1, <2>2, SettledFacts, Bounds DEF SendClientHello
  <1>1. s.private_key
    BY <1>0 DEF IInv, Met, HelloSent, SendClientHello
  <1>2. s.auth_key = None
    BY <1>0, <1>1 DEF Phase, NoKeys
  <1>3. HandshakeTag(s, Clock(c)) \in Tags /\ Genuine(HandshakeTag(s, Clock(c)))
    <2>1. CASE HasIdentity(s)
      <3>1. HandshakeTag(s, Clock(c)) = [key |-> s.identity.secret, step |-> Clock(c),
                                         random |-> c, public |-> OwnShare(c)]
        BY <1>0, <2>1 DEF HandshakeTag, ComputeHandshakeTag
      <3>2. s.identity.secret \in Secrets /\ OwnShare(c) \in KeyShares
        BY <1>0, SettledFacts, IdentityFacts, OwnShareFacts
      <3> HIDE DEF s
      <3>3. HandshakeTag(s, Clock(c)) \in Tags
        BY <1>0, <3>1, <3>2 DEF Tags
      <3>4. Genuine(HandshakeTag(s, Clock(c)))
        BY <2>1, <3>1 DEF Genuine, s
      <3> QED
        BY <3>3, <3>4
    <2>2. CASE ~HasIdentity(s)
      <3>1. HandshakeTag(s, Clock(c)) = ComputeTag(None, Clock(c))
        BY <1>0, <1>2, <2>2 DEF HandshakeTag
      <3> QED
        BY <1>0, <3>1, PublicTag
    <2> QED
      BY <2>1, <2>2
  <1>4. hello \in Hellos /\ hello.tag = HandshakeTag(s, Clock(c))
    <2>1. ClaimedVersion(s) \in Versions
      BY DEF ClaimedVersion, Versions
    <2>2. OwnShare(c) \in KeyShares
      BY <1>0, OwnShareFacts
    <2> QED
      BY <1>0, <1>3, <2>1, <2>2 DEF ClientHello, Hellos, Salts
  <1>5. net' = net \cup {hello} /\ UNCHANGED <<session, used, closed, clock, ticks, rewrites>>
    BY DEF SendClientHello
  <1> HIDE DEF hello
  <1> QED
    BY <1>3, <1>4, <1>5, NetworkStep DEF IInv

\* A rewritten hello is still a hello, and its tag is the old one or the public one.
LEMMA RewritePreserves ==
    ASSUME IInv, NEW m \in net, Rewrite(m)
    PROVE  IInv'
  <1> DEFINE step == clock["node"]
  <1>1. /\ m \in Hellos /\ Genuine(m.tag) /\ step \in Nat
        /\ rewrites \in Nat /\ MaxRewrites \in Nat
    BY Bounds DEF IInv, Machines
  <1>2. PICK altered \in Rewritings(m) : net' = net \cup {altered}
    BY DEF Rewrite
  <1>3. /\ altered \in Hellos
        /\ altered.tag = m.tag \/ altered.tag = ComputeTag(None, step)
    <2>1. ComputeTag(None, step) \in Tags
      BY <1>1, PublicTag
    <2>2. CASE altered \in {[m EXCEPT !.random = "foreign"], [m EXCEPT !.tag = ComputeTag(None, step)]}
      BY <1>1, <2>1, <2>2 DEF Hellos, Salts
    <2>3. CASE altered \in {[m EXCEPT !.version = v] :
                              v \in {ProtocolVersionAnonymous, ProtocolVersion}}
      BY <1>1, <2>3 DEF Hellos, Versions
    <2>4. CASE altered \in {[m EXCEPT !.key_share = share] : share \in AlteredShares(m.key_share)}
      <3>1. PICK share \in AlteredShares(m.key_share) : altered = [m EXCEPT !.key_share = share]
        BY <2>4
      <3>2. m.key_share \in KeyShares
        BY <1>1 DEF Hellos
      <3>3. share \in KeyShares
        BY <3>2 DEF AlteredShares, OwnShare, KeyShare, KeyShares, Factor
      <3> QED
        BY <1>1, <3>1, <3>3 DEF Hellos
    <2> QED
      BY <1>2, <2>2, <2>3, <2>4 DEF Rewritings
  <1>4. Genuine(altered.tag)
    BY <1>1, <1>3, PublicTag
  <1>5. /\ UNCHANGED <<session, used, closed, clock, ticks>>
        /\ rewrites' \in 0 .. MaxRewrites
    BY <1>1 DEF Rewrite
  <1> QED
    BY <1>2, <1>3, <1>4, <1>5, NetworkStep DEF IInv

\* A step of one clock.
LEMMA TickPreserves ==
    ASSUME IInv, NEW x \in Machines, Tick(x)
    PROVE  IInv'
  <1>1. clock' \in [Machines -> Nat] /\ ticks' \in 0 .. MaxTicks
    <2>1. ticks' \in 0 .. MaxTicks
      BY Bounds DEF Tick
    <2>2. clock \in [Machines -> Nat] /\ clock[x] + 1 \in Nat
      BY Bounds DEF IInv
    <2>3. clock' = [clock EXCEPT ![x] = clock[x] + 1]
      BY DEF Tick
    <2> QED
      BY <2>1, <2>2, <2>3
  <1>2. UNCHANGED <<session, net, used, closed, rewrites>>
    BY DEF Tick
  <1> QED
    BY <1>1, <1>2, NetworkStep DEF IInv

\* Dropping a session erases its keys.
LEMMA DropPreserves ==
    ASSUME IInv, NEW p \in Ends, DropSession(p)
    PROVE  IInv'
  <1> DEFINE s == Dropped(session[p])
  <1>1. session[p] \in Sessions /\ Settled(session[p], p)
    BY IInvAt
  <1>2. /\ s \in Sessions /\ s.name = session[p].name /\ s.identity = session[p].identity
        /\ s.is_initiator = session[p].is_initiator /\ s.peer_version = session[p].peer_version
        /\ ~s.private_key /\ NoKeys(s)
    BY <1>1 DEF Dropped, Sessions, NoKeys
  <1> HIDE DEF s
  <1>3. Settled(s, p)
    BY <1>1, <1>2 DEF Settled, ClaimedVersion, HasIdentity
  <1>4. /\ session' = [session EXCEPT ![p] = s] /\ closed' = closed \cup {p}
        /\ UNCHANGED <<net, used, clock, ticks, rewrites>>
    BY DEF DropSession, s
  <1>5. used' = [used EXCEPT ![p] = used[p]] /\ used[p] \in net' \cup {None}
    BY <1>4, UsedHello DEF IInv
  <1>6. Phase(s, used[p], p \in closed')
    BY <1>2, <1>4 DEF Phase
  <1> QED
    BY <1>2, <1>3, <1>4, <1>5, <1>6, OneEndStep DEF IInv

\* update_keys at a client.
LEMMA FinishPreserves ==
    ASSUME IInv, NEW c \in Clients, NEW m \in net, FinishClient(c, m)
    PROVE  IInv'
  <1> DEFINE s == UpdateKeys(session[c], m.random, m.key_share, FALSE)
             u == IF UpdateKeysOk(session[c], m.key_share) THEN m ELSE used[c]
  <1>1. /\ c \in Ends /\ c \notin Servers /\ c \notin closed /\ m \in Hellos
        /\ Settled(session[c], c) /\ Phase(session[c], used[c], FALSE)
        /\ HelloSent(c) /\ used[c] \in net \cup {None}
        /\ session[c].private_key \/ used[c] \in net
    BY EndFacts, IInvAt, UsedHello DEF FinishClient, HelloSent, IInv, Met, Phase
  <1>2. (c \in Servers) = FALSE
    BY <1>1
  <1>3. /\ Settled(s, c) /\ s.identity = session[c].identity
        /\ ~UpdateKeysOk(session[c], m.key_share) => s.private_key = session[c].private_key
    BY <1>1, UpdateKeepsRest
  <1>4. Phase(s, u, FALSE) /\ (s.private_key \/ u \in net)
    <2>1. Phase(s, u, FALSE)
      BY <1>1, <1>2, UpdatePhase
    <2>2. s.private_key \/ u \in net
      BY <1>1, <1>3
    <2> QED
      BY <2>1, <2>2
  <1>5. /\ session' = [session EXCEPT ![c] = s] /\ used' = [used EXCEPT ![c] = u]
        /\ UNCHANGED <<net, closed, clock, ticks, rewrites>>
    BY DEF FinishClient
  <1>6. u \in net' \cup {None} /\ Phase(s, u, c \in closed')
    BY <1>1, <1>4, <1>5 DEF Phase
  <1> HIDE DEF s, u
  <1> QED
    BY <1>1, <1>3, <1>4, <1>5, <1>6, OneEndStep DEF IInv

\* The SessionKeys wrap_server_hello verifies the tag with: the version the hello
\* claims is recorded first.
Versioned(p, m) == [session[p] EXCEPT !.peer_version = m.version]

\* Recording the version leaves a server's session settled and in its phase.
LEMMA VersionedFacts ==
    ASSUME IInv, NEW p \in Servers, NEW m \in net
    PROVE  LET s == Versioned(p, m)
           IN  /\ p \in Ends /\ m \in Hellos /\ Settled(s, p)
               /\ s.peer_version = m.version /\ s.identity = session[p].identity
               /\ s.private_key = session[p].private_key /\ s.auth_key = session[p].auth_key
               /\ s.current_aead = session[p].current_aead
               /\ s.datagram_root = session[p].datagram_root
               /\ Phase(s, used[p], p \in closed)
               /\ UsesStaticDh(s) <=> DerivesStatic(s, m)
  <1> DEFINE s == Versioned(p, m)
  <1>1. p \in Ends /\ p \notin Clients /\ m \in Hellos
    BY EndFacts DEF IInv
  <1>2. session[p] \in Sessions /\ Settled(session[p], p) /\ Phase(session[p], used[p], p \in closed)
    BY <1>1, IInvAt
  <1>3. /\ s \in Sessions /\ s.name = session[p].name /\ s.is_initiator = session[p].is_initiator
        /\ s.peer_version = m.version /\ s.identity = session[p].identity
        /\ s.private_key = session[p].private_key /\ s.auth_key = session[p].auth_key
        /\ s.current_aead = session[p].current_aead
        /\ s.datagram_root = session[p].datagram_root
    BY <1>1, <1>2 DEF Versioned, Sessions, Hellos
  <1> HIDE DEF s
  <1>4. Settled(s, p)
    BY <1>1, <1>2, <1>3 DEF Settled
  <1>5. Phase(s, used[p], p \in closed)
    BY <1>2, <1>3, PhaseStable
  <1>6. UsesStaticDh(s) <=> DerivesStatic(s, m)
    BY <1>1, <1>3, <1>4, SettledFacts DEF UsesStaticDh, DerivesStatic
  <1> QED
    BY <1>1, <1>3, <1>4, <1>5, <1>6 DEF s

\* A tag a server with its private key verified is the one its scheme asks for: under
\* the node's secret and over this salt and share with a static exchange, and the
\* public one without.
LEMMA VerifiedTagKey ==
    ASSUME IInv, NEW p \in Servers, NEW m \in net, TagAccepted(session[p], m, Clock(p)),
           session[p].private_key
    PROVE  TagFits(Versioned(p, m), m)
  <1> DEFINE s == Versioned(p, m)
  <1>1. /\ s.private_key = session[p].private_key /\ s.auth_key = session[p].auth_key
        /\ s.identity = session[p].identity /\ Phase(s, used[p], p \in closed)
        /\ UsesStaticDh(s) <=> DerivesStatic(s, m)
    BY VersionedFacts
  <1>2. VerifyHandshakeTag(s, m.tag, m.random, m.key_share, Clock(p))
    BY DEF TagAccepted, Versioned
  <1> HIDE DEF s
  <1>3. s.auth_key = None
    BY <1>1 DEF Phase, NoKeys
  <1>4. CASE UsesStaticDh(s)
    <2>1. PICK t : m.tag = ComputeHandshakeTag(s.identity.secret, t, m.random, m.key_share)
      BY <1>2, <1>4 DEF VerifyHandshakeTag
    <2>2. m.tag.key = s.identity.secret /\ m.tag.random = m.random /\ m.tag.public = m.key_share
      BY <2>1 DEF ComputeHandshakeTag
    <2> QED
      BY <1>1, <1>4, <2>2 DEF s, TagFits
  <1>5. CASE ~UsesStaticDh(s)
    <2>1. PICK t : m.tag = ComputeTag(s.auth_key, t)
      BY <1>2, <1>5 DEF VerifyHandshakeTag
    <2>2. m.tag.key = s.auth_key
      BY <2>1 DEF ComputeTag
    <2> QED
      BY <1>1, <1>3, <1>5, <2>2 DEF s, TagFits
  <1> QED
    BY <1>4, <1>5

\* wrap_server_hello, whether it accepts the hello or not.
LEMMA WrapPreserves ==
    ASSUME IInv, NEW p \in Servers, NEW m \in net, WrapServerHello(p, m)
    PROVE  IInv'
  <1> DEFINE s == Versioned(p, m)
             after == UpdateKeys(s, m.random, m.key_share, TRUE)
  <1>1. /\ p \in Ends /\ m \in Hellos /\ Settled(s, p) /\ s.peer_version = m.version
        /\ s.private_key = session[p].private_key /\ s.identity = session[p].identity
        /\ Phase(s, used[p], p \in closed)
    BY VersionedFacts
  <1>2. p \notin closed /\ UNCHANGED <<closed, clock, ticks, rewrites>> /\ p \notin Clients
    BY <1>1, EndFacts DEF WrapServerHello
  <1>3. /\ Phase(s, used[p], FALSE) /\ (p \in Servers) = TRUE /\ used[p] \in net \cup {None}
        /\ s.private_key \/ used[p] \in net
    BY <1>1, <1>2, UsedHello DEF Phase, IInv, Met
  <1>4. CASE ~TagAccepted(session[p], m, Clock(p))
    <2>1. session' = [session EXCEPT ![p] = s] /\ UNCHANGED <<net, used>>
      BY <1>4 DEF WrapServerHello, Versioned
    <2>2. used' = [used EXCEPT ![p] = used[p]] /\ Phase(s, used[p], p \in closed')
      BY <1>1, <1>2, <2>1 DEF IInv
    <2> HIDE DEF s
    <2> QED
      BY <1>1, <1>2, <1>3, <2>1, <2>2, OneEndStep DEF IInv
  <1>5. CASE TagAccepted(session[p], m, Clock(p))
    <2> DEFINE ok == UpdateKeysOk(s, m.key_share)
               u == IF ok THEN m ELSE used[p]
    <2>1. session' = [session EXCEPT ![p] = after]
      BY <1>5 DEF WrapServerHello, Versioned
    <2>2. /\ ok => net' = net \cup {ServerHello(s)} /\ used' = [used EXCEPT ![p] = m]
          /\ ~ok => UNCHANGED <<net, used>>
      BY <1>5 DEF WrapServerHello, Versioned
    <2>3. ServerHello(s) \in Hellos /\ Genuine(ServerHello(s).tag)
      <3>1. s.name \in Ends /\ ComputeTag(None, 0) \in Tags /\ Genuine(ComputeTag(None, 0))
        BY <1>1, PublicTag, SettledFacts
      <3> HIDE DEF s
      <3> QED
        BY <3>1, OwnShareFacts DEF ServerHello, Hellos, Versions, Salts
    <2>4. s.private_key => TagFits(s, m)
      BY <1>1, <1>5, VerifiedTagKey
    <2> HIDE DEF s
    <2>5. /\ Settled(after, p) /\ after.identity = s.identity
          /\ ~ok => after.private_key = s.private_key
      BY <1>1, UpdateKeepsRest
    <2>6. Phase(after, u, FALSE)
      BY <1>1, <1>3, <2>4, UpdatePhase
    <2>7. u \in net' \cup {None} /\ used' = [used EXCEPT ![p] = u]
      BY <1>1, <1>3, <2>2 DEF IInv
    <2>8. net \subseteq net' /\ net' \subseteq Hellos /\ \A x \in net' \ net : Genuine(x.tag)
      BY <2>2, <2>3 DEF IInv
    <2>9. Phase(after, u, p \in closed') /\ (after.private_key \/ u \in net')
      BY <1>2, <1>3, <2>2, <2>5, <2>6 DEF Phase
    <2> HIDE DEF after, u, ok
    <2> QED
      BY <1>1, <1>2, <2>1, <2>5, <2>7, <2>8, <2>9, OneEndStep DEF IInv
  <1> QED
    BY <1>4, <1>5

\* The inductive invariant holds initially.
LEMMA InitIInv == Init => IInv
  <1> SUFFICES ASSUME Init PROVE IInv
    OBVIOUS
  <1>1. PICK node \in NodeIdentities, given \in [Clients -> ClientIdentities] :
           session = [p \in Ends |-> NewSession(p, p \in Clients,
                                                IF p \in Clients THEN given[p] ELSE node)]
    BY DEF Init
  <1>2. ASSUME NEW p \in Ends
        PROVE  /\ Settled(session[p], p) /\ session[p].private_key /\ NoKeys(session[p])
    <2> DEFINE identity == IF p \in Clients THEN given[p] ELSE node
               is_initiator == p \in Clients
               version == IF identity = NoIdentity THEN ProtocolVersionAnonymous ELSE ProtocolVersion
    <2>1. /\ identity \in IF p \in Clients THEN ClientIdentities ELSE NodeIdentities
          /\ identity \in Identities /\ is_initiator \in BOOLEAN
      BY DEF Identities
    <2>2. version \in Versions
      BY DEF Versions
    <2>3. session[p] = [name |-> p, is_initiator |-> is_initiator, remote_salt |-> None,
                        private_key |-> TRUE, identity |-> identity, auth_key |-> None,
                        peer_version |-> version, current_aead |-> None, datagram_root |-> None]
      BY <1>1 DEF NewSession
    <2> HIDE DEF identity, version, is_initiator
    <2>4. /\ session[p] \in Sessions /\ session[p].name = p
          /\ session[p].is_initiator = is_initiator /\ session[p].identity = identity
          /\ session[p].peer_version = version
          /\ session[p].private_key /\ NoKeys(session[p])
      BY <2>1, <2>2, <2>3 DEF Sessions, NoKeys
    <2>5. version = ClaimedVersion(session[p])
      BY <2>4 DEF ClaimedVersion, HasIdentity, version
    <2> QED
      BY <2>1, <2>4, <2>5 DEF Settled, is_initiator
  <1>3. session \in [Ends -> Sessions]
    <2>1. \A p \in Ends : session[p] \in Sessions
      BY <1>2 DEF Settled
    <2> QED
      BY <1>1, <2>1
  <1>4. /\ net = {} /\ used = [p \in Ends |-> None] /\ closed = {}
        /\ clock = [x \in Machines |-> 0] /\ ticks = 0 /\ rewrites = 0
    BY DEF Init
  <1>5. ticks \in 0 .. MaxTicks /\ rewrites \in 0 .. MaxRewrites
    <2>1. MaxTicks \in Nat /\ MaxRewrites \in Nat
      BY HandshakeAssumption
    <2> QED
      BY <1>4, <2>1
  <1>6. \A p \in Ends : Phase(session[p], used[p], p \in closed)
    BY <1>2, <1>4 DEF Phase
  <1>7. \A p \in Ends : session[p].private_key
    BY <1>2
  <1> QED
    BY <1>2, <1>3, <1>4, <1>5, <1>6, <1>7 DEF IInv

\* Every step keeps the inductive invariant.
LEMMA NextIInv == IInv /\ [Next]_vars => IInv'
  <1> SUFFICES ASSUME IInv, [Next]_vars PROVE IInv'
    OBVIOUS
  <1>1. ASSUME NEW c \in Clients, SendClientHello(c) PROVE IInv'
    BY <1>1, SendPreserves
  <1>2. ASSUME NEW c \in Clients, NEW m \in net, FinishClient(c, m) PROVE IInv'
    BY <1>2, FinishPreserves
  <1>3. ASSUME NEW p \in Servers, NEW m \in net, WrapServerHello(p, m) PROVE IInv'
    BY <1>3, WrapPreserves
  <1>4. ASSUME NEW p \in Ends, DropSession(p) PROVE IInv'
    BY <1>4, DropPreserves
  <1>5. ASSUME NEW m \in net, Rewrite(m) PROVE IInv'
    BY <1>5, RewritePreserves
  <1>6. ASSUME NEW x \in Machines, Tick(x) PROVE IInv'
    BY <1>6, TickPreserves
  <1>7. CASE UNCHANGED vars
    <2>1. UNCHANGED <<session, net, used, closed, clock, ticks, rewrites>>
      BY <1>7 DEF vars
    <2> QED
      BY <2>1, NetworkStep DEF IInv
  <1> QED
    BY <1>1, <1>2, <1>3, <1>4, <1>5, <1>6, <1>7 DEF Next

\* The inductive invariant holds in every reachable state.
LEMMA HandshakeInvariant == Spec => []IInv
  BY InitIInv, NextIInv, PTL DEF Spec

-----------------------------------------------------------------------------
(***************************************************************************)
(* Consequences in a state.                                                *)
(***************************************************************************)

\* An end with keys holds those of its phase past the handshake.
LEMMA KeysAreDerived ==
    ASSUME IInv, NEW p \in Ends, HasKeys(p)
    PROVE  /\ ~session[p].private_key /\ p \notin closed
           /\ Derived(session[p], used[p]) /\ Settled(session[p], p)
  BY IInvAt DEF HasKeys, Phase, NoKeys

\* Every reachable state is well typed.
THEOREM HandshakeTypeCorrect == Spec => []TypeOK
  <1>1. IInv => TypeOK
    <2> SUFFICES ASSUME IInv PROVE TypeOK
      OBVIOUS
    <2>1. ASSUME NEW p \in Ends
          PROVE  /\ session[p].name = p
                 /\ session[p].is_initiator <=> p \in Clients
                 /\ session[p].private_key \in BOOLEAN
                 /\ session[p].peer_version \in {ProtocolVersionAnonymous, ProtocolVersion}
                 /\ session[p].remote_salt \in Ends \cup {None, "foreign"}
      <3>1. Settled(session[p], p) /\ session[p] \in Sessions
        BY IInvAt
      <3>2. /\ session[p].peer_version \in Versions /\ session[p].private_key \in BOOLEAN
            /\ session[p].remote_salt \in Salts \cup {None}
        BY <3>1 DEF Sessions
      <3> QED
        BY <3>1, <3>2 DEF Settled, Versions, Salts
    <2> QED
      BY <2>1 DEF IInv, TypeOK
  <1> QED
    BY <1>1, HandshakeInvariant, PTL

\* The ephemeral private key does not outlive the derivation, nor anything a
\* dropped session.
THEOREM EphemeralKeyIsGone == Spec => []EphemeralKeyGone
  <1>1. IInv => EphemeralKeyGone
    BY IInvAt, KeysAreDerived DEF EphemeralKeyGone, Phase, NoKeys, HasKeys
  <1> QED
    BY <1>1, HandshakeInvariant, PTL

\* The root of an end with keys, by its role.
LEMMA RootOf ==
    ASSUME IInv, NEW p \in Ends, HasKeys(p)
    PROVE  LET s == session[p]
               u == used[p]
           IN  /\ u \in Hellos
               /\ p \in Clients => s.datagram_root.salt = <<p, u.random>>
               /\ p \in Servers => s.datagram_root.salt = <<u.random, p>>
               /\ s.datagram_root.dh = DH(p, u.key_share)
               /\ p \in Clients =>
                     s.datagram_root.static =
                        IF HasIdentity(s) THEN {DH(p, OwnShare(s.identity.static))} ELSE {}
               /\ p \in Servers =>
                     s.datagram_root.static =
                        IF HasIdentity(s) /\ u.version >= MinVersionForStaticDh
                        THEN {DH(s.identity.static, u.key_share)} ELSE {}
               /\ p \in Servers =>
                     IF HasIdentity(s) /\ u.version >= MinVersionForStaticDh
                     THEN /\ u.tag.key = s.identity.secret
                          /\ u.tag.random = u.random /\ u.tag.public = u.key_share
                     ELSE u.tag.key = None
               /\ s.auth_key = [prk |-> s.datagram_root, label |-> "auth"]
               /\ p \in Clients =>
                     s.current_aead = [tx |-> [prk |-> s.datagram_root, label |-> "client"],
                                       rx |-> [prk |-> s.datagram_root, label |-> "server"]]
               /\ p \in Servers =>
                     s.current_aead = [tx |-> [prk |-> s.datagram_root, label |-> "server"],
                                       rx |-> [prk |-> s.datagram_root, label |-> "client"]]
  <1> DEFINE s == session[p]
             u == used[p]
             root == DerivedRoot(s, u)
  <1>1. Derived(s, u) /\ Settled(s, p)
    BY KeysAreDerived
  <1>2. /\ s.name = p /\ (s.is_initiator <=> p \in Clients) /\ (p \in Servers <=> p \notin Clients)
        /\ HasIdentity(s) /\ p \in Clients => s.identity.role = "peer"
        /\ HasIdentity(s) /\ p \in Servers => s.identity.role = "local"
    BY <1>1, SettledFacts, EndFacts
  <1> HIDE DEF s, u
  <1>3. /\ p \in Clients => (DerivesStatic(s, u) <=> HasIdentity(s))
        /\ p \in Servers =>
              (DerivesStatic(s, u) <=> HasIdentity(s) /\ u.version >= MinVersionForStaticDh)
    BY <1>2 DEF DerivesStatic
  <1>4. /\ p \in Clients => root.salt = <<p, u.random>>
        /\ p \in Servers => root.salt = <<u.random, p>>
        /\ root.dh = DH(p, u.key_share)
    BY <1>2 DEF DerivedRoot
  <1>5. p \in Clients => root.static = IF HasIdentity(s) THEN {DH(p, OwnShare(s.identity.static))}
                                                       ELSE {}
    BY <1>2, <1>3 DEF DerivedRoot, StaticDh
  <1>6. p \in Servers => root.static = IF HasIdentity(s) /\ u.version >= MinVersionForStaticDh
                                       THEN {DH(s.identity.static, u.key_share)} ELSE {}
    BY <1>2, <1>3 DEF DerivedRoot, StaticDh
  <1> HIDE DEF root
  <1>7. /\ u \in Hellos /\ s.datagram_root = root /\ s.auth_key = Expand(root, "auth")
        /\ p \in Clients =>
              s.current_aead = [tx |-> Expand(root, "client"), rx |-> Expand(root, "server")]
        /\ p \in Servers =>
              s.current_aead = [tx |-> Expand(root, "server"), rx |-> Expand(root, "client")]
        /\ p \in Servers => TagFits(s, u)
    BY <1>1, <1>2 DEF Derived, root
  <1> QED
    BY <1>3, <1>4, <1>5, <1>6, <1>7 DEF Expand, TagFits, s, u

\* The labels under which an end expands what it writes and what it reads with.
WriteLabel(p, leg) ==
    IF leg = "tcp" THEN IF p \in Clients THEN "client" ELSE "server"
                   ELSE IF p \in Clients THEN "c2s" ELSE "s2c"

ReadLabel(p, leg) ==
    IF leg = "tcp" THEN IF p \in Servers THEN "client" ELSE "server"
                   ELSE IF p \in Servers THEN "c2s" ELSE "s2c"

\* The first keys of an end are expansions of its one root: the roles update_keys
\* was called with and is_initiator answer alike.
LEMMA FirstKeysOf ==
    ASSUME IInv, NEW p \in Ends, HasKeys(p), NEW leg \in Legs
    PROVE  /\ FirstKeys(p, leg).tx = Expand(session[p].datagram_root, WriteLabel(p, leg))
           /\ FirstKeys(p, leg).rx = Expand(session[p].datagram_root, ReadLabel(p, leg))
  <1> DEFINE root == session[p].datagram_root
  <1>1. p \in Servers <=> p \notin Clients
    BY EndFacts
  <1>2. CASE leg = "tcp"
    <2>1. FirstKeys(p, leg) = session[p].current_aead
      BY <1>2 DEF FirstKeys
    <2>2. FirstKeys(p, leg) = [tx |-> Expand(root, WriteLabel(p, leg)),
                               rx |-> Expand(root, ReadLabel(p, leg))]
      BY <1>1, <1>2, <2>1, RootOf DEF WriteLabel, ReadLabel, Expand
    <2> QED
      BY <2>2
  <1>3. CASE leg # "tcp"
    <2> DEFINE chains == DeriveFromRoot(session[p].is_initiator)
    <2>1. session[p].is_initiator <=> p \in Clients
      BY IInvAt, SettledFacts
    <2>2. /\ chains.tx.chain.label = WriteLabel(p, leg)
          /\ chains.rx.chain.label = ReadLabel(p, leg)
      BY <1>1, <1>3, <2>1 DEF DeriveFromRoot, FromRoot, WriteLabel, ReadLabel
    <2>3. FirstKeys(p, leg) = [tx |-> Expand(root, chains.tx.chain.label),
                               rx |-> Expand(root, chains.rx.chain.label)]
      BY <1>3 DEF FirstKeys
    <2> HIDE DEF chains
    <2> QED
      BY <2>2, <2>3
  <1> QED
    BY <1>2, <1>3

\* Keys in common: the salts are each other's; the key shares were changed by one
\* factor, and if it is not 0 they are shares of each other's points; and a client
\* with credentials has its own share at the connection, where the node's static key
\* took part.
THEOREM SharedKeysAlwaysBind == Spec => []SharedKeysBindConversation
  <1>1. IInv => SharedKeysBindConversation
    <2> SUFFICES ASSUME IInv, NEW c \in Clients, NEW p \in Servers, HasKeys(c), HasKeys(p),
                        \/ session[c].datagram_root = session[p].datagram_root
                        \/ session[c].current_aead.tx = session[p].current_aead.rx
                        \/ session[c].auth_key = session[p].auth_key
                 PROVE  LET there == used[p].key_share
                            back  == used[c].key_share
                        IN  /\ used[p].random = c /\ used[c].random = p
                            /\ there.times = back.times
                            /\ there.times # 0 => there.of = c /\ back.of = p
                            /\ HasIdentity(session[c]) =>
                                  /\ there = OwnShare(c)
                                  /\ session[p].datagram_root.static =
                                        {DH(c, OwnShare(session[p].identity.static))}
      BY DEF SharedKeysBindConversation
    <2> DEFINE rc == session[c].datagram_root
               rp == session[p].datagram_root
               there == used[p].key_share
               back == used[c].key_share
               static == session[p].identity.static
    <2>1. c \in Ends /\ p \in Ends /\ c # p
      BY EndFacts
    <2>2. /\ rc.salt = <<c, used[c].random>> /\ rc.dh = DH(c, back)
          /\ HasIdentity(session[c]) => rc.static # {}
          /\ session[c].auth_key = [prk |-> rc, label |-> "auth"]
          /\ session[c].current_aead = [tx |-> [prk |-> rc, label |-> "client"],
                                        rx |-> [prk |-> rc, label |-> "server"]]
      BY <2>1, RootOf
    <2>3. /\ rp.salt = <<used[p].random, p>> /\ rp.dh = DH(p, there)
          /\ rp.static # {} =>
                /\ rp.static = {DH(static, there)}
                /\ used[p].tag.random = used[p].random /\ used[p].tag.public = there
          /\ session[p].auth_key = [prk |-> rp, label |-> "auth"]
          /\ session[p].current_aead = [tx |-> [prk |-> rp, label |-> "server"],
                                        rx |-> [prk |-> rp, label |-> "client"]]
      BY <2>1, RootOf
    <2> HIDE DEF rc, rp, there, back, static
    <2>4. rc = rp
      BY <2>2, <2>3 DEF rc, rp
    <2>5. used[p].random = c /\ used[c].random = p
      BY <2>2, <2>3, <2>4
    <2>6. there.times = back.times /\ (there.times # 0 => there.of = c /\ back.of = p)
      <3>1. DH(c, back) = DH(p, there)
        BY <2>2, <2>3, <2>4
      <3> QED
        BY <2>1, <3>1, DhEqual
    <2>7. ASSUME HasIdentity(session[c])
          PROVE  there = OwnShare(c) /\ rp.static = {DH(c, OwnShare(static))}
      <3>1. /\ rp.static = {DH(static, there)}
            /\ used[p].tag.random = c /\ used[p].tag.public = there
        BY <2>2, <2>3, <2>4, <2>5, <2>7
      <3>2. Genuine(used[p].tag)
        <4>1. used[p] \in net
          BY <2>1, KeysAreDerived DEF IInv, Met
        <4> QED
          BY <4>1 DEF IInv
      <3>3. c # None
        BY <2>1, EndFacts
      <3>4. there = OwnShare(c)
        BY <3>1, <3>2, <3>3 DEF Genuine
      <3> QED
        BY <3>1, <3>4, DhCommutes
    <2> QED
      BY <2>5, <2>6, <2>7 DEF rp, there, back, static
  <1> QED
    BY <1>1, HandshakeInvariant, PTL

\* Honest ends that were in one conversation hold mirrored keys on both legs.
THEOREM KeysAgree == Spec => []KeyAgreement
  <1>1. IInv => KeyAgreement
    <2> SUFFICES ASSUME IInv, NEW c \in Clients, NEW p \in Servers, HasKeys(c), HasKeys(p),
                        SameConversation(c, p),
                        used[p].version = ClaimedVersion(session[c]),
                        used[p].tag.key = session[c].identity.secret,
                        session[c].identity.static # "old static"
                 PROVE  Mirrored(c, p)
      BY DEF KeyAgreement
    <2> DEFINE rc == session[c].datagram_root
               rp == session[p].datagram_root
    <2>1. c \in Ends /\ p \in Ends /\ c \notin Servers /\ p \notin Clients
      BY EndFacts
    <2>2. /\ rc.salt = <<c, p>> /\ rc.dh = DH(c, OwnShare(p))
          /\ rc.static = IF HasIdentity(session[c])
                         THEN {DH(c, OwnShare(session[c].identity.static))} ELSE {}
          /\ session[c].auth_key = [prk |-> rc, label |-> "auth"]
          /\ session[c].current_aead = [tx |-> [prk |-> rc, label |-> "client"],
                                        rx |-> [prk |-> rc, label |-> "server"]]
      BY <2>1, RootOf DEF SameConversation
    <2>3. /\ rp.salt = <<c, p>> /\ rp.dh = DH(p, OwnShare(c))
          /\ rp.static = IF HasIdentity(session[p]) /\ used[p].version >= MinVersionForStaticDh
                         THEN {DH(session[p].identity.static, OwnShare(c))} ELSE {}
          /\ used[p].tag.key = (IF HasIdentity(session[p]) /\ used[p].version >= MinVersionForStaticDh
                                THEN session[p].identity.secret ELSE None)
          /\ session[p].auth_key = [prk |-> rp, label |-> "auth"]
          /\ session[p].current_aead = [tx |-> [prk |-> rp, label |-> "server"],
                                        rx |-> [prk |-> rp, label |-> "client"]]
      BY <2>1, RootOf DEF SameConversation
    <2>4. /\ session[c].identity \in ClientIdentities /\ session[p].identity \in NodeIdentities
          /\ session[c].is_initiator = TRUE /\ session[p].is_initiator = FALSE
      <3>1. Settled(session[c], c) /\ Settled(session[p], p)
        BY <2>1, IInvAt
      <3> QED
        BY <2>1, <3>1, SettledFacts DEF Settled
    <2> HIDE DEF rc, rp
    <2>5. rc.static = rp.static
      <3>1. CASE HasIdentity(session[c])
        <4>1. /\ session[c].identity.secret # None /\ session[c].identity.static = "static"
              /\ used[p].version >= MinVersionForStaticDh
          <5>1. /\ session[c].identity \in Identities /\ session[c].identity # NoIdentity
            BY <2>4, <3>1 DEF Identities, HasIdentity
          <5>2. /\ session[c].identity.secret \in {"secret", "old secret"}
                /\ session[c].identity.static \in {"static", "old static"}
            BY <2>4, <5>1, IdentityFacts
          <5>4. None \notin {"secret", "old secret"}
            BY HandshakeAssumption
          <5>3. used[p].version >= MinVersionForStaticDh
            <6>1. used[p].version = ProtocolVersion
              BY <3>1 DEF ClaimedVersion
            <6> QED
              BY <6>1, VersionFacts
          <5> QED
            BY <5>2, <5>3, <5>4
        <4>2. HasIdentity(session[p])
          BY <2>3, <4>1
        <4>3. session[p].identity.static = "static"
          BY <2>4, <4>2, IdentityFacts DEF HasIdentity
        <4> QED
          BY <2>2, <2>3, <3>1, <4>1, <4>2, <4>3, DhCommutes
      <3>2. CASE ~HasIdentity(session[c])
        <4>1. ~(used[p].version >= MinVersionForStaticDh)
          <5>1. used[p].version = ProtocolVersionAnonymous
            BY <3>2 DEF ClaimedVersion
          <5> QED
            BY <5>1, VersionFacts
        <4> QED
          BY <2>2, <2>3, <3>2, <4>1
      <3> QED
        BY <3>1, <3>2
    <2>6. rc = rp
      <3>1. rc \in Roots /\ rp \in Roots
        BY <2>1, KeysAreDerived, DerivedRootType DEF Derived, rc, rp
      <3>2. rc.dh = rp.dh
        BY <2>2, <2>3, DhCommutes
      <3>3. rc.salt = rp.salt
        BY <2>2, <2>3
      <3> QED
        BY <2>5, <3>1, <3>2, <3>3, RootEqual
    <2>7. \A leg \in Legs : /\ FirstKeys(c, leg).tx = FirstKeys(p, leg).rx
                           /\ FirstKeys(c, leg).rx = FirstKeys(p, leg).tx
      <3>1. TAKE leg \in Legs
      <3>2. /\ FirstKeys(c, leg).tx = Expand(rc, WriteLabel(c, leg))
            /\ FirstKeys(c, leg).rx = Expand(rc, ReadLabel(c, leg))
            /\ FirstKeys(p, leg).tx = Expand(rp, WriteLabel(p, leg))
            /\ FirstKeys(p, leg).rx = Expand(rp, ReadLabel(p, leg))
        BY <2>1, FirstKeysOf DEF rc, rp
      <3>3. WriteLabel(c, leg) = ReadLabel(p, leg) /\ ReadLabel(c, leg) = WriteLabel(p, leg)
        BY <2>1 DEF WriteLabel, ReadLabel
      <3> QED
        BY <2>6, <3>2, <3>3
    <2>8. session[c].auth_key = session[p].auth_key
      BY <2>2, <2>3, <2>6
    <2> QED
      BY <2>7, <2>8 DEF Mirrored
  <1> QED
    BY <1>1, HandshakeInvariant, PTL

\* No key has two writers, and no key is read on another leg or by its own writer:
\* the label tells leg and direction apart, the root which end it is.
THEOREM KeysAlwaysSeparate == Spec => []KeysSeparate
  <1>1. IInv => KeysSeparate
    <2> SUFFICES ASSUME IInv, NEW p \in Ends, NEW q \in Ends, HasKeys(p), HasKeys(q),
                        NEW a \in Legs, NEW b \in Legs
                 PROVE  /\ FirstKeys(p, a).tx = FirstKeys(q, b).tx => p = q /\ a = b
                        /\ FirstKeys(p, a).tx = FirstKeys(q, b).rx =>
                              a = b /\ (p \in Clients <=> q \in Servers)
      BY DEF KeysSeparate
    <2> DEFINE rp == session[p].datagram_root
               rq == session[q].datagram_root
    <2>1. /\ FirstKeys(p, a).tx = [prk |-> rp, label |-> WriteLabel(p, a)]
          /\ FirstKeys(q, b).tx = [prk |-> rq, label |-> WriteLabel(q, b)]
          /\ FirstKeys(q, b).rx = [prk |-> rq, label |-> ReadLabel(q, b)]
      BY FirstKeysOf DEF Expand
    <2>2. /\ p \in Servers <=> p \notin Clients
          /\ q \in Servers <=> q \notin Clients
      BY EndFacts
    <2>3. /\ p \in Clients => rp.salt = <<p, used[p].random>>
          /\ p \in Servers => rp.salt = <<used[p].random, p>>
          /\ q \in Clients => rq.salt = <<q, used[q].random>>
          /\ q \in Servers => rq.salt = <<used[q].random, q>>
      BY RootOf
    <2> HIDE DEF rp, rq
    <2>4. ASSUME FirstKeys(p, a).tx = FirstKeys(q, b).tx
          PROVE  p = q /\ a = b
      <3>1. rp = rq /\ WriteLabel(p, a) = WriteLabel(q, b)
        BY <2>1, <2>4
      <3>2. a = b /\ (p \in Clients <=> q \in Clients)
        BY <3>1 DEF WriteLabel, Legs
      <3>3. CASE p \in Clients
        <4>1. <<p, used[p].random>> = <<q, used[q].random>>
          BY <2>3, <3>1, <3>2, <3>3
        <4> QED
          BY <3>2, <4>1
      <3>4. CASE p \in Servers
        <4>1. <<used[p].random, p>> = <<used[q].random, q>>
          BY <2>2, <2>3, <3>1, <3>2, <3>4
        <4> QED
          BY <3>2, <4>1
      <3> QED
        BY <2>2, <3>3, <3>4
    <2>5. ASSUME FirstKeys(p, a).tx = FirstKeys(q, b).rx
          PROVE  a = b /\ (p \in Clients <=> q \in Servers)
      <3>1. WriteLabel(p, a) = ReadLabel(q, b)
        BY <2>1, <2>5
      <3> QED
        BY <3>1 DEF WriteLabel, ReadLabel, Legs
    <2> QED
      BY <2>4, <2>5
  <1> QED
    BY <1>1, HandshakeInvariant, PTL

-----------------------------------------------------------------------------
(***************************************************************************)
(* What a step does to the keys of one end.                                *)
(***************************************************************************)

\* The keys of two sessions are the same.
SameKeys(s, after) ==
    /\ after.current_aead = s.current_aead
    /\ after.auth_key = s.auth_key
    /\ after.datagram_root = s.datagram_root

\* update_keys at a client without its private key changes no key.
LEMMA FinishKeys ==
    ASSUME IInv, NEW c \in Clients, NEW m \in net, FinishClient(c, m), NEW p \in Ends,
           p # c \/ ~session[c].private_key
    PROVE  SameKeys(session[p], session'[p])
  <1> DEFINE after == UpdateKeys(session[c], m.random, m.key_share, FALSE)
  <1>1. c \in Ends /\ c \notin Servers /\ m \in Hellos /\ Settled(session[c], c)
    BY EndFacts, IInvAt DEF IInv
  <1>2. session' = [session EXCEPT ![c] = after] /\ session \in [Ends -> Sessions]
    BY DEF FinishClient, IInv
  <1>3. CASE p # c
    BY <1>2, <1>3 DEF SameKeys
  <1>4. CASE p = c
    <2>1. ~UpdateKeysOk(session[c], m.key_share)
      BY <1>4 DEF UpdateKeysOk
    <2>2. /\ after.auth_key = session[c].auth_key /\ after.current_aead = session[c].current_aead
          /\ after.datagram_root = session[c].datagram_root
      BY <1>1, <2>1, UpdateKeepsRest
    <2>3. session'[p] = after
      BY <1>1, <1>2, <1>4
    <2> HIDE DEF after
    <2> QED
      BY <1>4, <2>2, <2>3 DEF SameKeys
  <1> QED
    BY <1>3, <1>4

\* A connection of the node derives keys in one way only: it holds its private
\* key, accepts the hello, and takes it for the one its keys follow from.
LEMMA WrapKeys ==
    ASSUME IInv, NEW q \in Servers, NEW m \in net, WrapServerHello(q, m), NEW p \in Ends
    PROVE  \/ SameKeys(session[p], session'[p])
           \/ /\ p = q /\ session[p].private_key
              /\ TagAccepted(session[p], m, Clock(p)) /\ used'[p] = m
              /\ session'[p].identity = session[p].identity
              /\ session'[p].peer_version = m.version
  <1> DEFINE s == Versioned(q, m)
             after == UpdateKeys(s, m.random, m.key_share, TRUE)
             ok == UpdateKeysOk(s, m.key_share)
  <1>1. /\ q \in Ends /\ m \in Hellos /\ Settled(s, q) /\ s.peer_version = m.version
        /\ s.private_key = session[q].private_key /\ s.identity = session[q].identity
        /\ SameKeys(session[q], s)
    BY VersionedFacts DEF SameKeys
  <1>2. session \in [Ends -> Sessions] /\ used \in [Ends -> net \cup {None}]
    BY DEF IInv
  <1>3. CASE ~TagAccepted(session[q], m, Clock(q))
    <2>1. session' = [session EXCEPT ![q] = s]
      BY <1>3 DEF WrapServerHello, Versioned
    <2> HIDE DEF s
    <2> QED
      BY <1>1, <1>2, <2>1 DEF SameKeys
  <1>4. CASE TagAccepted(session[q], m, Clock(q))
    <2>1. /\ session' = [session EXCEPT ![q] = after]
          /\ ok => used' = [used EXCEPT ![q] = m]
      BY <1>4 DEF WrapServerHello, Versioned
    <2> HIDE DEF s
    <2>2. /\ after.identity = s.identity /\ after.peer_version = s.peer_version
          /\ ~ok => SameKeys(s, after)
      BY <1>1, UpdateKeepsRest DEF SameKeys
    <2>3. ok => s.private_key
      BY DEF UpdateKeysOk
    <2> HIDE DEF after, ok
    <2>4. CASE p # q
      BY <1>2, <2>1, <2>4 DEF SameKeys
    <2>5. CASE p = q /\ ~ok
      BY <1>1, <1>2, <2>1, <2>2, <2>5 DEF SameKeys
    <2>6. CASE p = q /\ ok
      <3>1. session'[p] = after /\ used'[p] = m
        BY <1>1, <1>2, <2>1, <2>6
      <3> QED
        BY <1>1, <1>4, <2>2, <2>3, <2>6, <3>1
    <2> QED
      BY <2>4, <2>5, <2>6
  <1> QED
    BY <1>3, <1>4

\* Dropping a session leaves the keys of the others.
LEMMA DropKeys ==
    ASSUME IInv, NEW q \in Ends, DropSession(q), NEW p \in Ends
    PROVE  \/ SameKeys(session[p], session'[p])
           \/ p \in closed' /\ session'[p].current_aead = None
  <1>1. /\ session' = [session EXCEPT ![q] = Dropped(session[q])] /\ closed' = closed \cup {q}
        /\ session \in [Ends -> Sessions]
    BY DEF DropSession, IInv
  <1>2. CASE p # q
    BY <1>1, <1>2 DEF SameKeys
  <1>3. CASE p = q
    <2>1. session[q] \in Sessions /\ session'[p] = Dropped(session[q])
      BY <1>1, <1>3
    <2>2. Dropped(session[q]).current_aead = None
      BY <2>1 DEF Dropped, Sessions
    <2> QED
      BY <1>1, <1>3, <2>1, <2>2
  <1> QED
    BY <1>2, <1>3

\* Every step leaves the keys of an end alone, drops the session, is the client's
\* own update_keys before the private key is burnt, or the acceptance of a hello.
LEMMA StepKeys ==
    ASSUME IInv, [Next]_vars, NEW p \in Ends
    PROVE  \/ SameKeys(session[p], session'[p])
           \/ p \in closed' /\ session'[p].current_aead = None
           \/ p \in Clients /\ session[p].private_key
           \/ /\ p \in Servers /\ session[p].private_key
              /\ \E m \in net :
                    /\ TagAccepted(session[p], m, Clock(p)) /\ used'[p] = m
                    /\ session'[p].identity = session[p].identity
                    /\ session'[p].peer_version = m.version
  <1>1. CASE UNCHANGED session
    BY <1>1 DEF SameKeys
  <1>2. ASSUME NEW c \in Clients, SendClientHello(c) PROVE UNCHANGED session
    BY <1>2 DEF SendClientHello
  <1>3. ASSUME NEW c \in Clients, NEW m \in net, FinishClient(c, m)
        PROVE  SameKeys(session[p], session'[p]) \/ (p \in Clients /\ session[p].private_key)
    BY <1>3, FinishKeys
  <1>4. ASSUME NEW q \in Servers, NEW m \in net, WrapServerHello(q, m)
        PROVE  \/ SameKeys(session[p], session'[p])
               \/ /\ p \in Servers /\ session[p].private_key
                  /\ TagAccepted(session[p], m, Clock(p)) /\ used'[p] = m
                  /\ session'[p].identity = session[p].identity
                  /\ session'[p].peer_version = m.version
    BY <1>4, WrapKeys
  <1>5. ASSUME NEW q \in Ends, DropSession(q)
        PROVE  \/ SameKeys(session[p], session'[p])
               \/ p \in closed' /\ session'[p].current_aead = None
    BY <1>5, DropKeys
  <1>6. ASSUME NEW m \in net, Rewrite(m) PROVE UNCHANGED session
    BY <1>6 DEF Rewrite
  <1>7. ASSUME NEW x \in Machines, Tick(x) PROVE UNCHANGED session
    BY <1>7 DEF Tick
  <1>8. CASE UNCHANGED vars
    BY <1>1, <1>8 DEF vars
  <1> QED
    BY <1>1, <1>2, <1>3, <1>4, <1>5, <1>6, <1>7, <1>8 DEF Next

\* Session keys are written once: while a session lives, nothing any end or the
\* network does replaces or mixes them.
THEOREM KeysAreWrittenOnce == Spec => KeysWrittenOnce
  <1> DEFINE Kept == \A p \in Ends :
                        HasKeys(p) => \/ p \in closed'
                                      \/ /\ session'[p].current_aead = session[p].current_aead
                                         /\ session'[p].auth_key = session[p].auth_key
                                         /\ session'[p].datagram_root = session[p].datagram_root
  <1>1. IInv /\ [Next]_vars => Kept
    <2> SUFFICES ASSUME IInv, [Next]_vars, NEW p \in Ends, HasKeys(p)
                 PROVE  p \in closed' \/ SameKeys(session[p], session'[p])
      BY DEF SameKeys
    <2>1. ~session[p].private_key
      BY KeysAreDerived
    <2> QED
      BY <2>1, StepKeys
  <1>2. IInv /\ [Next]_vars => [Kept]_vars
    BY <1>1
  <1> QED
    BY <1>2, HandshakeInvariant, PTL DEF Spec, KeysWrittenOnce

\* The steps verify_handshake_tag tries lie within the window.
LEMMA CandidatesWithin ==
    ASSUME NEW step \in Nat, NEW t \in Candidates(step)
    PROVE  step - t \in (-AuthWindow) .. AuthWindow
  BY AuthWindowAssumption DEF Candidates

\* A tag over the salt and key share of the hello it came with, under a secret, is
\* one that a client with that secret made for itself.
LEMMA TaggedTogether ==
    ASSUME IInv, NEW m \in net, NEW secret, NEW t,
           m.tag = ComputeHandshakeTag(secret, t, m.random, m.key_share)
    PROVE  \E c \in Clients : /\ m.random = c /\ m.key_share = OwnShare(c)
                             /\ session[c].identity.secret = secret
  <1>1. /\ m.tag.key = secret /\ m.tag.random = m.random /\ m.tag.public = m.key_share
    BY DEF ComputeHandshakeTag
  <1>2. m.random \in Salts /\ Genuine(m.tag)
    BY DEF IInv, Hellos
  <1>3. m.tag.random # None
    BY <1>1, <1>2, EndFacts
  <1> QED
    BY <1>1, <1>2, <1>3 DEF Genuine

\* A hello a connection of the node accepts under the authenticated scheme is one
\* client's, fresh, and under the node's secret; a strict node accepts no other.
LEMMA AcceptedHello ==
    ASSUME IInv, NEW p \in Servers, NEW m \in net, TagAccepted(session[p], m, Clock(p)),
           NEW after, after.identity = session[p].identity, after.peer_version = m.version
    PROVE  /\ RejectsAnonymous(session[p]) => UsesStaticDh(after)
           /\ UsesStaticDh(after) =>
                 \E c \in Clients :
                    /\ m.random = c /\ m.key_share = OwnShare(c)
                    /\ session[c].identity.secret = session[p].identity.secret
                    /\ Clock(p) - m.tag.step \in (-AuthWindow) .. AuthWindow
  <1> DEFINE s == Versioned(p, m)
  <1>1. p \in Ends /\ s.peer_version = m.version /\ s.identity = session[p].identity
    BY VersionedFacts
  <1>2. VerifyHandshakeTag(s, m.tag, m.random, m.key_share, Clock(p))
    BY DEF TagAccepted, Versioned
  <1> HIDE DEF s
  <1>3. /\ UsesStaticDh(after) <=> UsesStaticDh(s)
        /\ RejectsAnonymous(session[p]) <=> RejectsAnonymous(s)
    BY <1>1 DEF UsesStaticDh, RejectsAnonymous, HasIdentity
  <1>4. RejectsAnonymous(s) => UsesStaticDh(s)
    BY <1>2 DEF VerifyHandshakeTag
  <1>5. ASSUME UsesStaticDh(s)
        PROVE  \E c \in Clients :
                  /\ m.random = c /\ m.key_share = OwnShare(c)
                  /\ session[c].identity.secret = session[p].identity.secret
                  /\ Clock(p) - m.tag.step \in (-AuthWindow) .. AuthWindow
    <2>1. PICK t \in Candidates(Clock(p)) :
             m.tag = ComputeHandshakeTag(s.identity.secret, t, m.random, m.key_share)
      BY <1>2, <1>5 DEF VerifyHandshakeTag
    <2>2. Clock(p) - t \in (-AuthWindow) .. AuthWindow
      BY <1>1, Bounds, CandidatesWithin
    <2>3. m.tag.step = t
      BY <2>1 DEF ComputeHandshakeTag
    <2>4. PICK c \in Clients : /\ m.random = c /\ m.key_share = OwnShare(c)
                              /\ session[c].identity.secret = s.identity.secret
      BY <2>1, TaggedTogether
    <2> QED
      BY <1>1, <2>2, <2>3, <2>4
  <1> QED
    BY <1>3, <1>4, <1>5

\* A connection derives keys under the authenticated scheme only from what one
\* client with the node's secret tagged, inside the time window, and a strict node
\* under no other scheme.
THEOREM NodeAcceptsOnlyTagged == Spec => AcceptsOnlyTagged
  <1> DEFINE Tagged == \A p \in Servers :
                 ~HasKeys(p) /\ HasKeys(p)' =>
                    LET m == used'[p]
                    IN  /\ RejectsAnonymous(session[p]) => UsesStaticDh(session'[p])
                        /\ UsesStaticDh(session'[p]) =>
                              \E c \in Clients :
                                 /\ m.random = c /\ m.key_share = OwnShare(c)
                                 /\ session[c].identity.secret = session[p].identity.secret
                                 /\ Clock(p) - m.tag.step \in (-AuthWindow) .. AuthWindow
  <1>1. IInv /\ [Next]_vars => Tagged
    <2> SUFFICES ASSUME IInv, [Next]_vars, NEW p \in Servers, ~HasKeys(p), HasKeys(p)'
                 PROVE  /\ RejectsAnonymous(session[p]) => UsesStaticDh(session'[p])
                        /\ UsesStaticDh(session'[p]) =>
                              \E c \in Clients :
                                 /\ used'[p].random = c /\ used'[p].key_share = OwnShare(c)
                                 /\ session[c].identity.secret = session[p].identity.secret
                                 /\ Clock(p) - used'[p].tag.step \in (-AuthWindow) .. AuthWindow
      OBVIOUS
    <2>1. p \in Ends /\ p \notin Clients
      BY EndFacts
    <2>2. session[p].current_aead = None /\ session'[p].current_aead # None
      BY DEF HasKeys
    <2>3. PICK m \in net :
             /\ TagAccepted(session[p], m, Clock(p)) /\ used'[p] = m
             /\ session'[p].identity = session[p].identity
             /\ session'[p].peer_version = m.version
      BY <2>1, <2>2, StepKeys DEF SameKeys
    <2> QED
      BY <2>3, AcceptedHello
  <1>2. IInv /\ [Next]_vars => [Tagged]_vars
    BY <1>1
  <1> QED
    BY <1>2, HandshakeInvariant, PTL DEF Spec, AcceptsOnlyTagged

\* Every step within the window is tried, on both sides of the clock.
LEMMA CandidatesReach ==
    ASSUME NEW step \in Nat, NEW t \in Nat, step - t \in (-AuthWindow) .. AuthWindow
    PROVE  t \in Candidates(step)
  BY AuthWindowAssumption DEF Candidates

\* A tag is its four inputs.
LEMMA TagEqual ==
    ASSUME NEW tag \in Tags
    PROVE  tag = [key |-> tag.key, step |-> tag.step, random |-> tag.random, public |-> tag.public]
  BY DEF Tags

\* A client's own hello passes the check of every connection with the same
\* credentials, or with a node that asks for none, that is before its handshake,
\* while the clocks are no more than the window apart, either of them ahead.
THEOREM TimelyHelloIsAccepted == Spec => []TimelyHelloAccepted
  <1>1. IInv => TimelyHelloAccepted
    <2> SUFFICES ASSUME IInv, NEW c \in Clients, NEW p \in Servers, NEW m \in net,
                        m.random = c, m.key_share = OwnShare(c),
                        m.version = ClaimedVersion(session[c]),
                        m.tag.key = session[c].identity.secret,
                        IF HasIdentity(session[c])
                        THEN /\ m.tag.random = c
                             /\ session[p].identity.secret = session[c].identity.secret
                        ELSE ~RejectsAnonymous(session[p]),
                        session[p].private_key,
                        Clock(p) - m.tag.step \in (-AuthWindow) .. AuthWindow
                 PROVE  TagAccepted(session[p], m, Clock(p))
      BY DEF TimelyHelloAccepted
    <2> DEFINE s == Versioned(p, m)
               t == m.tag.step
    <2>1. /\ p \in Ends /\ c \in Ends /\ m \in Hellos /\ s.peer_version = m.version
          /\ s.identity = session[p].identity /\ s.auth_key = session[p].auth_key
          /\ s.private_key /\ Phase(s, used[p], p \in closed)
      BY VersionedFacts, EndFacts
    <2>2. GoodKeyShare(m.key_share)
      BY OwnShareFacts
    <2>3. m.tag \in Tags /\ Genuine(m.tag)
      BY <2>1 DEF IInv, Hellos
    <2>4. Clock(p) \in Nat /\ t \in Nat
      BY <2>1, <2>3, Bounds DEF Tags
    <2>5. t \in Candidates(Clock(p))
      BY <2>4, CandidatesReach
    <2>6. /\ session[c].identity \in Identities /\ session[p].identity \in Identities
          /\ session[c].identity.secret = None <=> ~HasIdentity(session[c])
          /\ session[p].identity.secret = None <=> ~HasIdentity(session[p])
      <3>1. session[c].identity \in Identities /\ session[p].identity \in Identities
        BY <2>1, IInvAt, SettledFacts
      <3> QED
        BY <3>1, IdentityFacts DEF HasIdentity
    <2> HIDE DEF s, t
    <2>7. VerifyHandshakeTag(s, m.tag, m.random, m.key_share, Clock(p))
      <3>1. CASE HasIdentity(session[c])
        <4>1. m.version = ProtocolVersion /\ HasIdentity(s)
          BY <2>1, <2>6, <3>1 DEF ClaimedVersion, HasIdentity
        <4>2. UsesStaticDh(s)
          BY <2>1, <4>1, VersionFacts DEF UsesStaticDh
        <4>3. m.tag.public = OwnShare(c)
          BY <2>3, <2>6, <3>1 DEF Genuine
        <4>4. m.tag = ComputeHandshakeTag(s.identity.secret, t, m.random, m.key_share)
          BY <2>1, <2>3, <3>1, <4>3, TagEqual DEF ComputeHandshakeTag, t
        <4> QED
          BY <2>5, <4>2, <4>4 DEF VerifyHandshakeTag
      <3>2. CASE ~HasIdentity(session[c])
        <4>1. ~UsesStaticDh(s)
          BY <2>1, <3>2, VersionFacts DEF ClaimedVersion, UsesStaticDh
        <4>2. ~RejectsAnonymous(s)
          BY <2>1, <3>2 DEF RejectsAnonymous, HasIdentity
        <4>3. s.auth_key = None
          BY <2>1 DEF Phase, NoKeys
        <4>4. m.tag.key = None /\ m.tag.random = None /\ m.tag.public = None
          <5>1. m.tag.key = None
            BY <2>6, <3>2
          <5>2. \A d \in Clients : HasIdentity(session[d]) => session[d].identity.secret # None
            BY EndFacts, IInvAt, SettledFacts, IdentityFacts DEF HasIdentity
          <5> QED
            BY <2>3, <5>1, <5>2 DEF Genuine
        <4>5. m.tag = ComputeTag(s.auth_key, t)
          BY <2>3, <4>3, <4>4, TagEqual DEF ComputeTag, t
        <4> QED
          BY <2>5, <4>1, <4>2, <4>5 DEF VerifyHandshakeTag
      <3> QED
        BY <3>1, <3>2
    <2> QED
      BY <2>2, <2>7 DEF TagAccepted, Versioned, s
  <1> QED
    BY <1>1, HandshakeInvariant, PTL

=============================================================================
