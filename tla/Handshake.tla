------------------------------ MODULE Handshake -----------------------------
(***************************************************************************)
(* Handshakes between clients and the connections of one node (bridge.rs,  *)
(* wrap_client_hello and wrap_server_hello; tlseng/handshake.rs; the key   *)
(* schedule is SessionKeys).  Every client and every server connection     *)
(* owns one SessionKeys.                                                   *)
(*                                                                         *)
(* The network keeps every hello it has seen and may hand any of them to   *)
(* any end, late, repeatedly or never, and may rewrite their fields.  Time *)
(* passes in steps of AUTH_TIME_STEP; the node and every client read       *)
(* clocks of their own, which drift apart either way.                      *)
(*                                                                         *)
(* The tasks that call these functions are not part of the repository: a   *)
(* client calls update_keys with the fields of the ServerHello it is       *)
(* given, as the tests do, and a session may be dropped at any time.  A    *)
(* hello that fails to parse, or whose session id has not 32 bytes, yields *)
(* Err before any SessionKeys is touched, so it is not among the messages. *)
(***************************************************************************)
EXTENDS SessionKeys, DatagramKeys, FiniteSets

CONSTANTS Clients, Servers,     \* names of the client and server sessions
          MaxTicks,             \* bound: steps of all clocks together
          MaxRewrites,          \* bound: rewritings of a hello
          MaxEvents             \* bound: steps of clocks and rewritings together

\* What stands for a secret, a static key, a foreign value or none is none of the
\* sessions' own salts and keys, and None is none of them.
ASSUME HandshakeAssumption ==
    /\ Clients \cap Servers = {}
    /\ {None, "foreign", "node", "static", "old static"} \cap (Clients \cup Servers) = {}
    /\ None \notin {"foreign", "secret", "old secret"}
    /\ {MaxTicks, MaxRewrites, MaxEvents} \subseteq Nat

VARIABLES session,      \* session[p]: the SessionKeys of p
          net,          \* every hello the network holds
          used,         \* history: the hello p's keys were derived from, or None
          closed,       \* the sessions that were dropped
          clock,        \* clock[x]: the clock of client x, or of the node
          ticks,        \* how many steps the clocks have made
          rewrites      \* how many hellos were rewritten

vars == <<session, net, used, closed, clock, ticks, rewrites>>

Ends == Clients \cup Servers

\* What a node may be configured with, and what the backend may have given a
\* client: nothing, the node's credentials, or some that were rotated since.
NodeIdentities ==
    {NoIdentity} \cup {LocalIdentity("secret", "static", strict) : strict \in BOOLEAN}

ClientIdentities ==
    {NoIdentity, PeerIdentity("secret", "static"),
     PeerIdentity("old secret", "static"), PeerIdentity("secret", "old static")}

\* The machines that have a clock; the connections of the node share its clock.
Machines == Clients \cup {"node"}

\* The clock p reads.
Clock(p) == IF p \in Clients THEN clock[p] ELSE clock["node"]

HasKeys(p) == session[p].current_aead # None

\* The first key p writes or reads with, by leg: get_aead_parameters, and
\* DatagramKeyMaterial::derive.  The roles of the TCP leg come from the caller of
\* update_keys, those of the UDP leg from is_initiator.
Legs == {"tcp", "udp"}

FirstKeys(p, leg) ==
    LET chains == DeriveFromRoot(session[p].is_initiator)
        root   == session[p].datagram_root
    IN  IF leg = "tcp"
        THEN session[p].current_aead
        ELSE [tx |-> Expand(root, chains.tx.chain.label), rx |-> Expand(root, chains.rx.chain.label)]

-----------------------------------------------------------------------------
(***************************************************************************)
(* The ends.                                                               *)
(***************************************************************************)

\* make_client_hello: salt, key share, version and tag.
ClientHello(s, step) ==
    [type |-> "client", version |-> ClaimedVersion(s), tag |-> HandshakeTag(s, step),
     random |-> s.name, key_share |-> OwnShare(s.name)]

\* make_server_hello; the session id it echoes takes no part in the keys.
ServerHello(s) ==
    [type |-> "server", version |-> ProtocolVersion, tag |-> ComputeTag(None, 0),
     random |-> s.name, key_share |-> OwnShare(s.name)]

SendClientHello(c) ==
    /\ c \notin closed
    /\ ~HasKeys(c)
    /\ \A m \in net : m.type = "client" => m.random # c
    /\ net' = net \cup {ClientHello(session[c], Clock(c))}
    /\ UNCHANGED <<session, used, closed, clock, ticks, rewrites>>

\* wrap_server_hello passes the tag check: the version is recorded first, and the
\* key share read, because the tag depends on both.
TagAccepted(s, m, step) ==
    /\ GoodKeyShare(m.key_share)
    /\ VerifyHandshakeTag([s EXCEPT !.peer_version = m.version], m.tag, m.random,
                          m.key_share, step)

WrapServerHello(p, m) ==
    LET s == [session[p] EXCEPT !.peer_version = m.version]
    IN  /\ p \notin closed
        /\ m.type = "client"
        /\ \/ \* Auth Failed, or Bad KeyShare
              /\ ~TagAccepted(session[p], m, Clock(p))
              /\ session' = [session EXCEPT ![p] = s]
              /\ UNCHANGED <<net, used>>
           \/ /\ TagAccepted(session[p], m, Clock(p))
              /\ session' = [session EXCEPT ![p] = UpdateKeys(s, m.random, m.key_share, TRUE)]
              /\ IF UpdateKeysOk(s, m.key_share)
                 THEN /\ net' = net \cup {ServerHello(s)}
                      /\ used' = [used EXCEPT ![p] = m]
                 ELSE UNCHANGED <<net, used>>       \* Key Exchange Failed
        /\ UNCHANGED <<closed, clock, ticks, rewrites>>

\* The client's half: update_keys on a ServerHello.
FinishClient(c, m) ==
    /\ c \notin closed
    /\ m.type = "server"
    /\ \E hello \in net : hello.type = "client" /\ hello.random = c
    /\ session' = [session EXCEPT ![c] = UpdateKeys(session[c], m.random, m.key_share, FALSE)]
    /\ used' = [used EXCEPT ![c] = IF UpdateKeysOk(session[c], m.key_share) THEN m ELSE @]
    /\ UNCHANGED <<net, closed, clock, ticks, rewrites>>

DropSession(p) ==
    /\ p \notin closed
    /\ session' = [session EXCEPT ![p] = Dropped(session[p])]
    /\ closed' = closed \cup {p}
    /\ UNCHANGED <<net, used, clock, ticks, rewrites>>

-----------------------------------------------------------------------------
(***************************************************************************)
(* The network and the clock.                                              *)
(***************************************************************************)

\* What can be put in place of a key share: one of the network's own, and what can be
\* made of this one without its private key: other bytes for the same point, a
\* multiple, or a share of small order, among them the one of all zeros.
Factor == 2

AlteredShares(share) ==
    {OwnShare("foreign"), [share EXCEPT !.encoding = "other"],
     KeyShare(share.of, Factor, "other")}
    \cup {KeyShare(share.of, 0, encoding) : encoding \in {"other", "zero"}}

\* Any one field changed that the receiver of the hello reads.  The tag without a key
\* is a function of the time alone, so the network can put it in; it cannot make a
\* tag under a secret.
Rewritings(m) ==
    {[m EXCEPT !.random = "foreign"]}
    \cup {[m EXCEPT !.key_share = share] : share \in AlteredShares(m.key_share)}
    \cup IF m.type = "server" THEN {} ELSE
            {[m EXCEPT !.tag = ComputeTag(None, clock["node"])]}
            \cup {[m EXCEPT !.version = v] : v \in {ProtocolVersionAnonymous, ProtocolVersion}}

Rewrite(m) ==
    /\ rewrites < MaxRewrites /\ ticks + rewrites < MaxEvents
    /\ rewrites' = rewrites + 1
    /\ \E altered \in Rewritings(m) \ net : net' = net \cup {altered}
    /\ UNCHANGED <<session, used, closed, clock, ticks>>

Tick(x) ==
    /\ ticks < MaxTicks /\ ticks + rewrites < MaxEvents
    /\ ticks' = ticks + 1
    /\ clock' = [clock EXCEPT ![x] = @ + 1]
    /\ UNCHANGED <<session, net, used, closed, rewrites>>

Init ==
    /\ \E node \in NodeIdentities, given \in [Clients -> ClientIdentities] :
          session = [p \in Ends |-> NewSession(p, p \in Clients,
                                               IF p \in Clients THEN given[p] ELSE node)]
    /\ net = {}
    /\ used = [p \in Ends |-> None]
    /\ closed = {}
    /\ clock = [x \in Machines |-> 0]
    /\ ticks = 0 /\ rewrites = 0

Next ==
    \/ \E c \in Clients : SendClientHello(c) \/ \E m \in net : FinishClient(c, m)
    \/ \E p \in Servers, m \in net : WrapServerHello(p, m)
    \/ \E p \in Ends : DropSession(p)
    \/ \E m \in net : Rewrite(m)
    \/ \E x \in Machines : Tick(x)

Spec == Init /\ [][Next]_vars

-----------------------------------------------------------------------------
(***************************************************************************)
(* Properties.                                                             *)
(***************************************************************************)
TypeOK ==
    /\ \A p \in Ends :
          /\ session[p].name = p
          /\ session[p].is_initiator <=> p \in Clients
          /\ session[p].private_key \in BOOLEAN
          /\ session[p].peer_version \in {ProtocolVersionAnonymous, ProtocolVersion}
          /\ session[p].remote_salt \in Ends \cup {None, "foreign"}
    /\ closed \subseteq Ends
    /\ clock \in [Machines -> Nat]
    /\ ticks \in 0 .. MaxTicks /\ rewrites \in 0 .. MaxRewrites

\* The ends hold mirrored keys on both legs: what one writes with, the other reads
\* with, and the frame authenticator is common.
Mirrored(c, p) ==
    /\ \A leg \in Legs :
          /\ FirstKeys(c, leg).tx = FirstKeys(p, leg).rx
          /\ FirstKeys(c, leg).rx = FirstKeys(p, leg).tx
    /\ session[c].auth_key = session[p].auth_key

\* Each end derived its keys from the salt and the key share the other sent.
SameConversation(c, p) ==
    /\ used[p].random = c /\ used[p].key_share = OwnShare(c)
    /\ used[c].random = p /\ used[c].key_share = OwnShare(p)

\* Whenever a server connection accepted a client's own hello, sent with
\* credentials that are still the node's or with none, and the client took that
\* connection's answer, the two hold mirrored keys: both must have answered
\* uses_static_dh alike, whatever mixture of configurations met.
KeyAgreement ==
    \A c \in Clients, p \in Servers :
        /\ HasKeys(c) /\ HasKeys(p)
        /\ SameConversation(c, p)
        /\ used[p].version = ClaimedVersion(session[c])
        /\ used[p].tag.key = session[c].identity.secret
        /\ session[c].identity.static # "old static"
        => Mirrored(c, p)

\* What keys in common mean.  The PRK binds the salts, so both are each other's; of
\* the key shares it binds the result of X25519 alone.  Both shares may have been
\* changed on the way by the same factor, to shares of small order if that is 0;
\* otherwise each is a share of the other end's point.  A client with credentials
\* has its own share at the connection, byte for byte, since the tag covers it; so
\* nothing but the bytes of the connection's share can have changed, and the node's
\* static key took part.  Rewriting the version a client claims never leads it into
\* the unauthenticated scheme.
SharedKeysBindConversation ==
    \A c \in Clients, p \in Servers :
        /\ HasKeys(c) /\ HasKeys(p)
        /\ \/ session[c].datagram_root = session[p].datagram_root
           \/ session[c].current_aead.tx = session[p].current_aead.rx
           \/ session[c].auth_key = session[p].auth_key
        => LET there == used[p].key_share
               back  == used[c].key_share
           IN  /\ used[p].random = c /\ used[c].random = p
               /\ there.times = back.times
               /\ there.times # 0 => there.of = c /\ back.of = p
               /\ HasIdentity(session[c]) =>
                     /\ there = OwnShare(c)
                     /\ session[p].datagram_root.static =
                           {DH(c, OwnShare(session[p].identity.static))}

\* No key has two writers, an end and a leg each, which with nonce counters that
\* all start at zero would repeat nonces; and what is written on a leg is read on
\* the same leg by an end of the other role, never by the writer.
KeysSeparate ==
    \A p, q \in {r \in Ends : HasKeys(r)}, a, b \in Legs :
        /\ FirstKeys(p, a).tx = FirstKeys(q, b).tx => p = q /\ a = b
        /\ FirstKeys(p, a).tx = FirstKeys(q, b).rx => a = b /\ (p \in Clients <=> q \in Servers)

\* A server connection derives keys under the authenticated scheme only from a
\* salt and key share that one client with the node's secret tagged together,
\* and within AUTH_WINDOW_SIZE steps of its own clock, which may be ahead of the
\* client's or behind it; a strict node derives
\* keys under no other.
AcceptsOnlyTagged ==
    [][\A p \in Servers :
          ~HasKeys(p) /\ HasKeys(p)' =>
             LET m == used'[p]
             IN  /\ RejectsAnonymous(session[p]) => UsesStaticDh(session'[p])
                 /\ UsesStaticDh(session'[p]) =>
                       \E c \in Clients :
                          /\ m.random = c /\ m.key_share = OwnShare(c)
                          /\ session[c].identity.secret = session[p].identity.secret
                          /\ Clock(p) - m.tag.step \in (-AuthWindow) .. AuthWindow]_vars

\* The other half: the hello a client sent, with the credentials of the node or, to
\* a node that takes such, with none, passes the check of every connection that is
\* still before its handshake, for as long as the two clocks are AUTH_WINDOW_SIZE
\* steps apart or less, whichever of them is ahead and however near to zero.
TimelyHelloAccepted ==
    \A c \in Clients, p \in Servers : \A m \in net :
        /\ m.type = "client" /\ m.random = c /\ m.key_share = OwnShare(c)
        /\ m.version = ClaimedVersion(session[c])
        /\ m.tag.key = session[c].identity.secret
        /\ IF HasIdentity(session[c])
           THEN m.tag.random = c /\ session[p].identity.secret = session[c].identity.secret
           ELSE ~RejectsAnonymous(session[p])
        /\ session[p].private_key
        /\ Clock(p) - m.tag.step \in (-AuthWindow) .. AuthWindow
        => TagAccepted(session[p], m, Clock(p))

\* Session keys are written once: no later hello, accepted or refused, changes or
\* mixes them, since the private key is gone; only dropping the session does.
KeysWrittenOnce ==
    [][\A p \in Ends :
          HasKeys(p) =>
             \/ p \in closed'
             \/ /\ session'[p].current_aead = session[p].current_aead
                /\ session'[p].auth_key = session[p].auth_key
                /\ session'[p].datagram_root = session[p].datagram_root]_vars

\* Forward secrecy in the state: an end that holds session keys holds no ephemeral
\* private key any more, and a dropped session holds neither.
EphemeralKeyGone ==
    \A p \in Ends :
        /\ HasKeys(p) => ~session[p].private_key
        /\ p \in closed => ~session[p].private_key /\ ~HasKeys(p)
                           /\ session[p].datagram_root = None /\ session[p].auth_key = None

\* What the README says of the first message: its authenticator is bound to one
\* connection, so that, presented again, it does not fit even inside its time
\* window.
HelloOpensOneConnection ==
    \A p, q \in Servers :
        /\ HasKeys(p) /\ UsesStaticDh(session[p]) /\ used[p] = used[q]
        => p = q

=============================================================================
