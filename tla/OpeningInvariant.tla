--------------------------- MODULE OpeningInvariant --------------------------
(***************************************************************************)
(* What the proofs about Opening speak of: the form of byte strings and    *)
(* where their parts lie, streams of records, the inductive invariant      *)
(* IInv, and what is read back from a hello.                               *)
(***************************************************************************)
EXTENDS Opening

-----------------------------------------------------------------------------
(***************************************************************************)
(* Byte strings and their concatenation.                                   *)
(***************************************************************************)

\* A byte string in the form all of them have: fields begin inside it, and are numbers.
Block(b) ==
    /\ b = [len |-> b.len, at |-> b.at]
    /\ b.at = [p \in DOMAIN b.at |-> b.at[p]]
    /\ b.len \in Nat
    /\ \A p \in DOMAIN b.at : p \in Nat /\ p < b.len /\ b.at[p] \in Nat

\* The same fields begin at the same places, and read the same.
Agree(a, b) ==
    /\ \A p \in Nat : p \in DOMAIN a.at <=> p \in DOMAIN b.at
    /\ \A p \in Nat : Get(a, p) = Get(b, p)

\* Block b lies in block c, at o.
Lies(c, o, b) ==
    /\ o \in Nat /\ o + b.len <= c.len
    /\ \A p \in Nat : p < b.len => Get(c, o + p) = Get(b, p)
    /\ \A from \in Nat, m \in Nat :
           from + m <= b.len => SubBlock(c, o + from, m) = SubBlock(b, from, m)

\* The blocks of a sequence, and where they begin if they follow one another.
Blocks(blocks, n) == DOMAIN blocks = 1 .. n /\ \A i \in 1 .. n : Block(blocks[i])

Offsets(off, blocks, n) ==
    /\ \A k \in 0 .. n : off[k] \in Nat
    /\ off[0] = 0 /\ \A k \in 1 .. n : off[k] = off[k - 1] + blocks[k].len

LiesAll(c, off, blocks, n) == \A k \in 1 .. n : Lies(c, off[k - 1], blocks[k])

\* A record: the length behind its header is in the header.
IsRecord(r) == Block(r) /\ r.len = 5 + Get(r, 3)

\* Stream s is a sequence of whole records, which end at the places in marks.
Framed(s, marks) ==
    /\ Block(s)
    /\ \A n \in marks : n \in Nat /\ 0 < n /\ n <= s.len
    /\ s.len \in {0} \cup marks
    /\ \A n \in {0} \cup marks : n < s.len =>
           /\ n + 5 + Get(s, n + 3) \in marks
           /\ \A k \in marks : n < k => n + 5 + Get(s, n + 3) <= k

-----------------------------------------------------------------------------
(***************************************************************************)
(* What the writers lay out.                                               *)
(***************************************************************************)

\* A list of n values of 16 bits.
Words(values, n) ==
    DOMAIN values = 1 .. n /\ \A i \in 1 .. n : values[i] \in Nat /\ values[i] < 65536

\* What the profiles have in common.
Listed(p) ==
    /\ p.groups \in {<<X25519, SECP256R1>>, <<X25519_MLKEM768, X25519>>,
                     <<X25519, SECP256R1, SECP521R1>>}
    /\ p.versions \in {<<Tls13>>, <<Tls13, Tls12>>}
    /\ p.alpn = <<2, 8>> /\ p.alps_protocols \in {<<2>>, <<>>}
    /\ p.signatures \in {3, 7} /\ p.delegated_signatures \in {3, 7}
    /\ p.cipher_suites = Suites
    /\ p.record_layer_version \in {Tls10, Tls12}
    /\ p.target_padding_len \in {0, 512}

\* A list with one element in front.
Ahead(v, t) == <<v>> \o t

ListIn(t, S) == t \in Seq(S)

\* A list of n values of 16 bits.
Word == {v \in Nat : v < 65536}
WordSeq(x, n) == ListIn(x, Word) /\ Len(x) = n

\* The shares of a client: a GREASE group, the post-quantum one, X25519.
GreaseShare(p, group) == IF p.has_grease THEN AddExtension(group, U8(0)) ELSE Empty
MlKemShare(p) ==
    IF X25519_MLKEM768 \in ToSet(p.groups)
    THEN AddExtension(X25519_MLKEM768, Slice(X25519_MLKEM768_SHARE_LEN, Noise))
    ELSE Empty
Shares(p, group, key) == Concat(<<GreaseShare(p, group), MlKemShare(p), AddExtension(X25519, key)>>)

\* What make_client_hello is given.
Fine(h) ==
    /\ Block(h.host) /\ h.host.len > 0 /\ h.host.len <= MaxHostLen
    /\ Block(h.key) /\ h.key.len = 32
    /\ Block(h.salt) /\ h.salt.len = 32
    /\ Block(h.tag) /\ h.tag.len = 16
    /\ h.version \in Nat /\ h.version < 256
    /\ h.grease.cipher \in GREASE_VALUES /\ h.grease.group \in GREASE_VALUES
    /\ h.grease.version \in GREASE_VALUES /\ h.grease.ext_first \in GREASE_VALUES
    /\ h.grease.ext_last \in GREASE_VALUES

\* The extensions a reader looks for, and what they hold.
Sought == {SNI, KEY_SHARE, SUPPORTED_GROUPS}
DataOf(p, h, t) ==
    IF t = SNI THEN ServerNameData(h.host)
    ELSE IF t = KEY_SHARE THEN KeyShareData(p, h.grease, h.key)
    ELSE SupportedGroupsData(p, h.grease)

\* What a turn of apply_profile appends is an extension or nothing; it is one that
\* is looked for exactly where its id is, and then it holds what it should.
Shaped(p, h, id, x) ==
    \/ x = Empty /\ id \notin Sought
    \/ \E t, d : /\ t \in Word /\ Block(d) /\ d.len < 2000
                 /\ x = AddExtension(t, d)
                 /\ t \in Sought \/ id \in Sought => t = id /\ d = DataOf(p, h, id)

\* The ids with an arm of their own in apply_profile.
PlainIds ==
    {GREASE_SLOT_FIRST, GREASE_SLOT_LAST, SIGNATURE_ALGORITHMS, DELEGATED_CREDENTIAL, ALPN, ALPS,
     SCT, EMS, SESSION_TICKET, ECH, COMPRESS_CERT, SUPPORTED_VERSIONS, PSK_MODES, EC_POINT_FORMATS,
     STATUS_REQUEST, RENEGOTIATION_INFO, PADDING}

\* One turn of apply_profile, and all of them.
Grown(p, hello, o, payload, id) == Joined(payload, Extension(p, hello, o, payload, id))

Applied(p, hello, o, order) ==
    FoldLeft(LAMBDA payload, id : Joined(payload, Extension(p, hello, o, payload, id)), Empty, order)

FinalOrder(p, hello) ==
    IF p.shuffle_extensions THEN ShuffleMiddle(p.extension_order, hello.rnd) ELSE p.extension_order

\* The function apply_profile is computed with exists.
AppliedBy(h, p, hello, o, order, n) ==
    h = [s \in SUBSET (1 .. n) |->
            IF s = {} THEN Empty ELSE Grown(p, hello, o, h[s \ {Max(s)}], order[Max(s)])]

\* What apply_profile has built after each of its turns.
Turns(v, p, h, o, order, m) ==
    v[0] = Empty /\ \A k \in 1 .. m : v[k] = Grown(p, h, o, v[k - 1], order[k])

\* One turn of shuffle_middle.
Turn(s, rnd, i) ==
    [s EXCEPT ![i + 2] = s[(rnd[i] % (i + 1)) + 2], ![(rnd[i] % (i + 1)) + 2] = s[i + 2]]

\* The turns of shuffle_middle, from the last.
ShuffledBy(f, order, rnd, n) ==
    f = [i \in Nat |-> IF i >= n THEN order ELSE Turn(f[i + 1], rnd, i)]

\* s is t in another order, with the same ends.
Reordered(s, t, m) ==
    /\ s = [i \in 1 .. m |-> s[i]]
    /\ s[1] = t[1] /\ s[m] = t[m]
    /\ \A i \in 1 .. m : \E j \in 1 .. m : s[j] = t[i]
    /\ \A i \in 1 .. m : \E j \in 1 .. m : s[i] = t[j]
    /\ (\A i, j \in 1 .. m : t[i] = t[j] => i = j) => (\A i, j \in 1 .. m : s[i] = s[j] => i = j)

\* order is a sequence of m.
ListOf(order, m) == order = [i \in 1 .. m |-> order[i]] /\ Len(order) = m

\* The orders of the profiles: none is long, each holds what a reader looks for, and
\* those that are shuffled are short enough for the entropy that is drawn.
Ordered(p) ==
    /\ \E m \in 5 .. 20 : ListOf(p.extension_order, m) /\ (p.shuffle_extensions => m \in 4 .. 8)
    /\ \A t \in Sought : \E i \in DOMAIN p.extension_order : p.extension_order[i] = t

\* The body of a ClientHello, and where its fields are.
ClientBody(random, session_id, suites, extensions) ==
    Concat(<<U16(Tls12), random, U8(session_id.len), session_id, U16(2 * Len(suites)), U16s(suites),
             U8(1), U8(0), U16(extensions.len), extensions>>)

ClientFields(b, random, session_id, suites, n, extensions) ==
    /\ Block(b) /\ b.len = 73 + 2 * n + extensions.len
    /\ Get(b, 0) = Tls12 /\ Get(b, 34) = 32 /\ Get(b, 67) = 2 * n
    /\ Get(b, 69 + 2 * n) = 1 /\ Get(b, 71 + 2 * n) = extensions.len
    /\ Lies(b, 2, random) /\ Lies(b, 35, session_id) /\ Lies(b, 69, U16s(suites))
    /\ Lies(b, 73 + 2 * n, extensions)

\* The session id of a client: version, noise, tag.
SessionId(h) == Concat(<<U8(h.version), Slice(15, Noise), h.tag>>)

\* The extensions, suites, body and payload of make_client_hello.
Extensions(p, h) == ApplyProfile(p, h, Overhead(p, h.grease))
HelloBody(p, h) == ClientBody(h.salt, SessionId(h), OfferedSuites(p, h.grease), Extensions(p, h))
HelloPayload(p, h) == HandshakeMessage(ClientType, HelloBody(p, h))

\* What a caller passes to make_client_hello.
Hello(p, h) == p \in BrowserProfiles /\ Fine(h) /\ (p.shuffle_extensions => h.rnd \in [1 .. 6 -> Nat])

\* The place of the first suite of a list that is in another.
FirstCommon(list, other) == SelectInSeq(list, LAMBDA suite : suite \in ToSet(other))

\* The body of a ServerHello, and where its fields are.
ServerBody(random, session_id, suite, extensions) ==
    Concat(<<U16(Tls12), random, U8(session_id.len), session_id, U16(suite), U8(0),
             U16(extensions.len), extensions>>)

ServerFields(b, random, session_id, suite, extensions) ==
    /\ Block(b) /\ b.len = 72 + extensions.len
    /\ Get(b, 0) = Tls12 /\ Get(b, 34) = 32 /\ Get(b, 67) = suite % 65536
    /\ Get(b, 70) = extensions.len
    /\ Lies(b, 2, random) /\ Lies(b, 35, session_id) /\ Lies(b, 72, extensions)

\* The body of an answer, and its payload.
AnswerBody(m, key, salt, profile) ==
    ServerBody(salt, m.session_id, SelectedSuite(m.cipher_suites, profile), ServerExtensions(key, profile))
AnswerPayload(m, key, salt, profile) ==
    HandshakeMessage(ServerType, AnswerBody(m, key, salt, profile))

\* A list of suites as it is read from a hello.
SuiteList(offered) ==
    \E k \in Nat : DOMAIN offered = 1 .. k /\ Len(offered) = k /\ \A i \in 1 .. k : offered[i] \in Nat

\* What make_server_hello needs of the hello it answers.
Answerable(m) == Block(m.session_id) /\ m.session_id.len = 32 /\ SuiteList(m.cipher_suites)

\* The sum over the chain that the cover flight stands for.
ChainTotal(lens) == FoldLeft(LAMBDA sum, l : sum + 3 + l + 2, 0, lens)

-----------------------------------------------------------------------------
(***************************************************************************)
(* Strangers.                                                              *)
(***************************************************************************)

\* A payload cut around the end of a field.
Cut(whole, t) ==
    \E k \in Nat : k <= whole.len + 1 /\ t = Prefix(whole, k)

\* The payload of a record, the body of the message in it, and what the parser of
\* its kind makes of that.
Payload(r) == SubBlock(r, 5, Get(r, 3))
Body(r) == Suffix(Payload(r), 4)
ParsedBody(r) == IF Get(Payload(r), 0) = ClientType THEN ClientHelloParse(Body(r))
                                                    ELSE ServerHelloParse(Body(r))

\* The lengths in a stranger's hello, and the middle of its session id.
StrangerFields(w, sid, c) ==
    /\ Get(w, 38) = sid /\ Get(w, 39 + sid) = c /\ c \in Nat
    /\ sid = 32 => Get(w, 55) = 0

\* A short block, as strangers send for extensions.
Small(x) == Block(x) /\ x.len < 100

\* The node finds no tag in a record, and no reader panics on it.
Untagged(r) ==
    LET answer == StartProcess(r, Handshake)
    IN  answer.result = "some" /\ answer.value.type = ClientType =>
            answer.value.session_id.len # 32 \/ Get(answer.value.session_id, 16) = 0
Calm(r) == StartProcess(r, Handshake).result # "panic"

\* All lists of suites that strangers send have an even length.
EvenLists == \A n \in StrangerCipherLens : n % 2 = 0

\* A stranger's payload: a ClientHello with these fields, or a ServerHello.
StrangerKind(w, sid, c) == StrangerFields(w, sid, c) \/ Get(w, 0) = ServerType

-----------------------------------------------------------------------------
(***************************************************************************)
(* Streams of records, and a reader on one.                                *)
(***************************************************************************)

\* A list of n records.
Records(records, n) == DOMAIN records = 1 .. n /\ \A i \in 1 .. n : IsRecord(records[i])

\* What the node answers with: its hello, a ChangeCipherSpec and the cover flight.
Flight(r) == <<r, ChangeCipherSpecRecord>>
             \o [i \in DOMAIN NodeDefault |-> AppDataRecord(CoverRecordLen(NodeDefault[i]))]

\* Stream t with the marks F continues stream s with the marks E.
Continues(t, F, s, E) ==
    /\ Framed(s, E) /\ Framed(t, F)
    /\ Lies(t, 0, s) /\ E \subseteq F
    /\ \A k \in F : k \notin E => s.len < k

\* The stream and the marks behind records that were written.
Longer(s, records) == Joined(s, Concat(records))
Marked(s, E, records) == E \cup {s.len + Concat(SubSeq(records, 1, i)).len : i \in DOMAIN records}

\* The marks a reader has passed.
Passed(E, t) == {m \in E : m <= t}

-----------------------------------------------------------------------------
(***************************************************************************)
(* The inductive invariant.                                                *)
(***************************************************************************)

\* The hello of our client, and the first record that e writes.
OurHello(o) ==
    [host |-> HostOf(o.sni), grease |-> o.grease, rnd |-> o.rnd,
     salt |-> Slice(32, ClientSalt), key |-> Slice(X25519_LEN, ClientKey),
     version |-> ClaimedVersion, tag |-> Slice(16, Tag)]

First(o, e, m) ==
    IF o.kind = "stranger" THEN o.record
    ELSE IF e = "client" THEN MakeClientHello(o.profile, OurHello(o))
    ELSE MakeServerHello(m, Slice(X25519_LEN, ServerKey), Slice(32, ServerSalt), o.server)

\* The inductive invariant, in parts.
MapsOK ==
    /\ opener \in OurConnections \cup Strangers
    /\ DOMAIN stream = Ends /\ DOMAIN ends = Ends /\ DOMAIN arrived = Ends /\ DOMAIN taken = Ends
    /\ DOMAIN phase = Ends /\ DOMAIN heard = Ends

\* Streams are whole records, the first of them First.
StreamsFramed == \A e \in Ends : Framed(stream[e], ends[e])
FirstLies(s, r) == IsRecord(r) /\ Lies(s, 0, r)
FirstWritten == \A e \in Ends : ends[e] # {} => FirstLies(stream[e], First(opener, e, heard["server"]))

\* Readers are where they can be.
PhaseNames == {"hello", "ccs", "data", "drop", "redirect", "panic"}
PlacesOK ==
    \A e \in Ends : /\ taken[e] \in Nat /\ arrived[e] \in Nat
                    /\ taken[e] <= arrived[e] /\ arrived[e] <= stream[Peer(e)].len
                    /\ phase[e] \in PhaseNames

\* The node writes when it has read a hello of our client, and what stands across
\* from a stranger does not write.
AnswerOnlyTo(m) == m # Unheard /\ Answerable(m)
NodeAnswers ==
    opener.kind = "ours" =>
        /\ phase["server"] = "hello" => ends["server"] = {}
        /\ ends["server"] # {} => AnswerOnlyTo(heard["server"])
StrangerAlone == opener.kind = "stranger" => ends[Peer(opener.end)] = {}

\* What an end has heard is what its peer's first record says.
Says(r, m) == StartProcess(r, Handshake).result = "some" /\ StartProcess(r, Handshake).value = m
HeardFirst ==
    \A e \in Ends : heard[e] # Unheard =>
        ends[Peer(e)] # {} /\ Says(First(opener, Peer(e), heard["server"]), heard[e])

\* Our client sends a hello for a host it may name.
ClientGreets == opener.kind = "ours" /\ ends["client"] # {} => Hello(opener.profile, OurHello(opener))

IInv ==
    /\ MapsOK /\ StreamsFramed /\ FirstWritten /\ PlacesOK /\ ReadersInStep
    /\ NodeAnswers /\ StrangerAlone /\ HeardFirst /\ ClientGreets

\* The place of a reader whose peer may have written.
InStep(e) ==
    Reading(e) =>
        /\ taken[e] \in {0} \cup ends[Peer(e)]
        /\ LET n == Cardinality(Passed(ends[Peer(e)], taken[e]))
           IN  phase[e] = CASE n = 0 -> "hello" [] n = 1 -> "ccs" [] OTHER -> "data"

\* What a reader answers.
AnswerTo(e) == StartProcess(Buffer(e), Expected[phase[e]])

\* The phase behind a record that was read.
Following(p) == IF p = "hello" THEN "ccs" ELSE "data"

\* The streams in a step in which e may write.
StreamsGrow(e) ==
    /\ DOMAIN stream' = Ends /\ DOMAIN ends' = Ends
    /\ \A d \in Ends : Continues(stream'[d], ends'[d], stream[d], ends[d])
    /\ \A d \in Ends : d # e => stream'[d] = stream[d] /\ ends'[d] = ends[d]

-----------------------------------------------------------------------------
(***************************************************************************)
(* What is read back from a hello.                                         *)
(***************************************************************************)

\* A list read off from the front: at o in S there is H[o], and the next is at Jump[o].
ReadOff(f, S, Jump, H) == f = [o \in Nat |-> IF o \in S THEN Ahead(H[o], f[Jump[o]]) ELSE <<>>]
Forward(S, Jump, l) == \A o \in S : o \in Nat /\ o < l /\ Jump[o] \in Nat /\ o < Jump[o]

\* The extensions in a block, read off from o, and the shares in a list.
ExtensionAt(x, o) == [etype |-> Get(x, o), data |-> SubBlock(x, o + 4, Get(x, o + 2))]
StackOf(f, x) ==
    \A o \in Nat : f[o] = IF x.len - o >= 4 THEN Ahead(ExtensionAt(x, o), f[o + 4 + Get(x, o + 2)])
                                            ELSE <<>>
ShareAt(x, o) == [group |-> Get(x, o), key |-> SubBlock(x, o + 4, Get(x, o + 2))]
SharesOf(f, x) ==
    \A o \in Nat : f[o] = IF o + 4 <= x.len /\ o + 4 + Get(x, o + 2) <= x.len
                          THEN Ahead(ShareAt(x, o), f[o + 4 + Get(x, o + 2)])
                          ELSE <<>>

\* From a to b, block x holds what apply_profile appends for id: an extension that is
\* looked for exactly where its id is, and then holds what it should, or nothing.
Laid(x, a, b, p, h, id) ==
    \/ a = b /\ id \notin Sought
    \/ \E d : /\ Block(d) /\ b = a + 4 + d.len /\ b <= x.len
              /\ Get(x, a) \in Nat /\ Get(x, a + 2) = d.len
              /\ SubBlock(x, a + 4, d.len) = d
              /\ Get(x, a) \in Sought \/ id \in Sought => Get(x, a) = id /\ d = DataOf(p, h, id)

\* The extensions that a block may hold.
ExtensionsIn(x) == {ExtensionAt(x, o) : o \in Nat}

\* A stack whose extensions hold what they should, as far as they are looked for, and
\* in which those are found that the order has from there on.
Sound(s, p, h) ==
    \A i \in 1 .. Len(s) : s[i].etype \in Sought => s[i].data = DataOf(p, h, s[i].etype)
HasFrom(s, order, from, m) ==
    \A k \in from .. m : order[k] \in Sought => \E i \in 1 .. Len(s) : s[i].etype = order[k]

\* The offsets between which the turns of apply_profile are laid out in x.
LaidOut(off, x, p, h, order, m) ==
    /\ off[0] = 0 /\ off[m] = x.len
    /\ \A k \in 1 .. m : off[k - 1] \in Nat /\ Laid(x, off[k - 1], off[k], p, h, order[k])

\* The extensions of the turns from k on.
TurnsFrom(s, x, p, h, order, k, m) ==
    ListIn(s, ExtensionsIn(x)) /\ Sound(s, p, h) /\ HasFrom(s, order, k, m)

\* The shares of a client's hello, as entries.
Entry(group, key) == [group |-> group, key |-> key]
LastEntries(key) == Ahead(Entry(X25519, key), <<>>)
MlKemEntries(p, key) ==
    IF X25519_MLKEM768 \in ToSet(p.groups)
    THEN Ahead(Entry(X25519_MLKEM768, Slice(X25519_MLKEM768_SHARE_LEN, Noise)), LastEntries(key))
    ELSE LastEntries(key)
Entries(p, group, key) ==
    IF p.has_grease THEN Ahead(Entry(group, U8(0)), MlKemEntries(p, key)) ELSE MlKemEntries(p, key)

\* A list of shares with one key for X25519.
Keyed(s, key) ==
    /\ \E j \in 1 .. Len(s) : s[j].group = X25519 /\ s[j].key = key
    /\ \A i \in 1 .. Len(s) : s[i].group = X25519 => s[i].key = key

\* The entries are for the first of the groups.
Begins(s, groups) ==
    Len(s) <= Len(groups) /\ \A i \in 1 .. Len(s) : s[i].group = groups[i]

\* The positions of one list in another, in order.
InOrder(at, entries, groups) ==
    /\ at \in [DOMAIN entries -> DOMAIN groups]
    /\ \A i \in DOMAIN entries : groups[at[i]] = entries[i].group
    /\ \A i, j \in DOMAIN entries : i < j => at[i] < at[j]

-----------------------------------------------------------------------------
(***************************************************************************)
(* Padding.                                                                *)
(***************************************************************************)

\* The ids between the ends of a padded profile.
BusyIds ==
    {SNI, SUPPORTED_GROUPS, SIGNATURE_ALGORITHMS, KEY_SHARE, SUPPORTED_VERSIONS}
    \cup (GREASE_VALUES \ {GREASE_SLOT_FIRST, GREASE_SLOT_LAST})

\* No id of the list occurs twice, the last is padding, and what is in front of it is
\* known.
PaddedOrder(order, m) ==
    /\ order[m] = PADDING
    /\ \A i \in 1 .. m : i < m => order[i] \in BusyIds
    /\ \A i, j \in 1 .. m : order[i] = order[j] => i = j

\* A profile that pads.
Padded(p) ==
    /\ p.target_padding_len = 512 /\ p.groups = <<X25519, SECP256R1>> /\ p.signatures = 7
    /\ p.shuffle_extensions
    /\ \E m \in {7, 8} : Len(p.extension_order) = m /\ PaddedOrder(p.extension_order, m)

\* How long the extension of an id is at most.
Weight(id) == IF id = SNI THEN 262 ELSE IF id = KEY_SHARE THEN 47 ELSE 20

\* What the extensions of the first k ids have room in.
Seen(order, k, id) == \E j \in 1 .. k : order[j] = id
Extra(order, k, id, n) == IF Seen(order, k, id) THEN n ELSE 0
Room(order, k) == 20 * k + Extra(order, k, SNI, 242) + Extra(order, k, KEY_SHARE, 27)

\* No id occurs twice in an order, and those in front of the last one are known.
Distinct(order, m) == \A i, j \in 1 .. m : order[i] = order[j] => i = j
Busy(order, m) == \A i \in 1 .. m : i < m => order[i] \in BusyIds

=============================================================================
