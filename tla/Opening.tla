------------------------------- MODULE Opening ------------------------------
(***************************************************************************)
(* The opening of the TCP leg on the wire: hello, middlebox                *)
(* ChangeCipherSpec and first data of both ends, byte for byte as lengths  *)
(* and fields (bridge.rs over tlseng/).  What the hellos mean for the keys *)
(* is module Handshake; here is whether they arrive as what they are.      *)
(*                                                                         *)
(* Each end writes a stream of records, and its peer reads them from a     *)
(* buffer to which TCP adds bytes in pieces of any size.  A connection is  *)
(* opened by our client, or one of the ends talks to a stranger: some      *)
(* other program that sends one record of its own.                         *)
(*                                                                         *)
(* The tasks that call the bridge are not part of the repository.  As its  *)
(* comments say, each end sends its ChangeCipherSpec right after its hello *)
(* and expects the peer's there; the node's cover flight follows its own.  *)
(***************************************************************************)
EXTENDS HelloBuilder, Decoy

CONSTANTS ClientSalt, ServerSalt,   \* the salts, key shares and the tag as the
          ClientKey, ServerKey,     \*   ends know them
          Tag,
          ServerProfiles,           \* what the node may answer with
          GreaseSets,               \* bound: the GREASE sets drawn
          ShuffleDraws,             \* bound: the entropy drawn for a shuffle
          DecoyDomains,             \* the node's list of domains
          SniChoices,               \* what may be typed as SNI
          StrangerCipherLens        \* lengths of a stranger's cipher list

\* Salts, keys, the tag and the name of a host are numbers, each for all its bytes;
\* the tag is not what bytes that are no tag read as.
ASSUME ValuesAssumption ==
    {ClientSalt, ServerSalt, ClientKey, ServerKey, Tag} \subseteq Nat /\ Tag # 0

ASSUME HostsAssumption ==
    SniChoices \subseteq [name : Nat, len : Nat, kind : {"name", "ip", "other"},
                          spelling : {"plain", "typed"}]

\* What is drawn: GREASE values, and one number for each turn of the shuffle.
ASSUME DrawsAssumption ==
    /\ GreaseSets \subseteq [cipher : GREASE_VALUES, group : GREASE_VALUES, version : GREASE_VALUES,
                             ext_first : GREASE_VALUES, ext_last : GREASE_VALUES]
    /\ ShuffleDraws \subseteq [1 .. 6 -> Nat]

ASSUME ServerProfilesAssumption ==
    \A profile \in ServerProfiles :
        /\ profile.record_layer_version \in ProtocolVersions
        /\ profile.cipher_suites \in Seq(0 .. (2^16 - 1))
        /\ profile.honor_cipher_order \in BOOLEAN

\* The list fits a record with room for the rest of the hello.
ASSUME StrangersAssumption == StrangerCipherLens \subseteq 0 .. 2^15

VARIABLES opener,       \* who opens the connection, and with which choices
          stream,       \* stream[e]: all bytes e has written
          ends,         \* ends[e]: where the records in stream[e] end
          arrived,      \* arrived[e]: bytes of the peer's stream e was given
          taken,        \* taken[e]: bytes of it e has consumed
          phase,        \* phase[e]: what e expects, or how it ended
          heard         \* heard[e]: the hello e has read

vars == <<opener, stream, ends, arrived, taken, phase, heard>>

Ends == {"client", "server"}
Peer(e) == IF e = "client" THEN "server" ELSE "client"

BrowserProfiles == {CHROME_140, CHROME_131, FIREFOX_130, EDGE_130, SAFARI_17, CALIBRATED}

ClaimedVersion == 3

Unheard == [type |-> 0]

\* What each phase reads.
Expected == [hello |-> Handshake, ccs |-> ChangeCipherSpec, data |-> ApplicationData]
Reading(e) == phase[e] \in DOMAIN Expected

HostOf(sni) == LET host == Normalised(sni) IN Slice(host.len, host.name)

\* The bytes in e's buffer.
Buffer(e) == SubBlock(stream[Peer(e)], taken[e], arrived[e] - taken[e])

\* e writes records.
Write(e, records) ==
    /\ stream' = [stream EXCEPT ![e] = Joined(stream[e], Concat(records))]
    /\ ends' = [ends EXCEPT ![e] =
                   ends[e] \cup {stream[e].len + Concat(SubSeq(records, 1, i)).len : i \in DOMAIN records}]

-----------------------------------------------------------------------------
(***************************************************************************)
(* Our client.                                                             *)
(***************************************************************************)

\* What the caller and the random generator choose for a connection; there is
\* entropy for a shuffle only where there is a shuffle.
OurConnections ==
    UNION {[kind : {"ours"}, profile : {profile}, server : ServerProfiles, sni : SniChoices,
            grease : GreaseSets, rnd : IF profile.shuffle_extensions THEN ShuffleDraws ELSE {<<>>}] :
           profile \in BrowserProfiles}

\* wrap_client_hello and build_middlebox_ccs, for a domain the catalogue knows.
Connect ==
    /\ opener.kind = "ours" /\ ends["client"] = {}
    /\ Validate(FromList(DecoyDomains), opener.sni) = "Ok"
    /\ LET hello == [host |-> HostOf(opener.sni), grease |-> opener.grease, rnd |-> opener.rnd,
                     salt |-> Slice(32, ClientSalt), key |-> Slice(X25519_LEN, ClientKey),
                     version |-> ClaimedVersion, tag |-> Slice(16, Tag)]
       IN  Write("client", <<MakeClientHello(opener.profile, hello), ChangeCipherSpecRecord>>)
    /\ UNCHANGED <<opener, arrived, taken, phase, heard>>

\* The first frames, once the client's leg is open.
SendData ==
    /\ phase["client"] = "data"
    /\ Cardinality(ends["client"]) = 2
    /\ Write("client", <<AppDataRecord(100)>>)
    /\ UNCHANGED <<opener, arrived, taken, phase, heard>>

-----------------------------------------------------------------------------
(***************************************************************************)
(* Strangers.  Their hellos have every combination of a few field lengths, *)
(* and a payload that ends anywhere around the end of a field.             *)
(***************************************************************************)
StrangerExtensions ==
    LET share(group, len, key) == Concat(<<U16(group), U16(len), key>>)
        list(n, entries)       == AddExtension(KEY_SHARE, Joined(U16(n), entries))
        x25519                 == share(X25519, 32, Slice(32, Noise))
    IN  {Empty, AddExtension(KEY_SHARE, Empty), x25519,
         list(36, x25519),                                  \* well formed
         list(36, share(X25519, 32, Slice(32, 0))),         \* a key of zeros
         list(37, x25519), list(36, share(X25519, 33, Slice(32, Noise))),   \* overlong
         Concat(<<U16(KEY_SHARE), U16(9), Slice(4, Noise)>>),
         AddExtension(KEY_SHARE, x25519),                   \* a server's share
         Joined(AddExtension(EMS, Empty), Slice(2, Noise))} \* trailing bytes

StrangerClientHello(version, sid, ciphers, comp, extensions) ==
    <<U8(ClientType), U24(0), U16(version), Slice(32, Noise), U8(sid), Slice(sid, Noise),
      U16(ciphers), Slice(ciphers, Noise), U8(comp), Slice(comp, Noise),
      U16(extensions.len), extensions>>

StrangerServerHello(version, sid, extensions) ==
    <<U8(ServerType), U24(0), U16(version), Slice(32, Noise), U8(sid), Slice(sid, Noise),
      U16(\h1301), U8(0), U16(extensions.len), extensions>>

\* The payload, ended up to a byte before or after the end of any field.
Truncations(fields) ==
    LET whole == Concat(fields)
        marks == UNION {{n - 1, n, n + 1} : n \in {Concat(SubSeq(fields, 1, i)).len : i \in DOMAIN fields}}
    IN  {Prefix(whole, n) : n \in marks}

StrangerPayloads ==
    UNION {Truncations(f) : f \in
        {StrangerClientHello(v, sid, ciphers, comp, x) :
            v \in {Tls12}, sid \in {0, 32}, ciphers \in StrangerCipherLens,
            comp \in {0, 1}, x \in StrangerExtensions}
        \cup {StrangerClientHello(\h0300, 32, 2, 1, Empty)}
        \cup {StrangerServerHello(v, sid, x) :
            v \in {Tls12, \h0300}, sid \in {0, 255}, x \in StrangerExtensions}}

StrangerRecords ==
    {Record(Handshake, Tls10, payload) : payload \in StrangerPayloads}
    \cup {Record(type, version, Slice(len, Noise)) :
            type \in ContentTypes \cup {\h80}, version \in {Tls12, \h0300}, len \in {0, 16, 17}}

\* A stranger connects to the node, or our client reached one; the client's own
\* hello then went where we do not look.
Strangers == [kind : {"stranger"}, end : Ends, record : StrangerRecords]

MeetStranger ==
    /\ opener.kind = "stranger" /\ ends[opener.end] = {}
    /\ Write(opener.end, <<opener.record>>)
    /\ UNCHANGED <<opener, arrived, taken, phase, heard>>

-----------------------------------------------------------------------------
(***************************************************************************)
(* Both readers.                                                           *)
(***************************************************************************)

\* TCP hands e more of what was sent, in a piece that ends at, just before or just
\* behind the end of a record or of its header.
Receive(e) ==
    LET s    == Peer(e)
        cuts == UNION {{n - 1, n, n + 4, n + 5} : n \in {0} \cup ends[s]}
    IN  /\ \E n \in cuts \cap (arrived[e] + 1) .. stream[s].len :
              arrived' = [arrived EXCEPT ![e] = n]
        /\ UNCHANGED <<opener, stream, ends, taken, phase, heard>>

\* wrap_server_hello does not refuse m.  The checks of the tag are in module
\* Handshake: the only tag that passes is the one our client made.
Accepts(m) ==
    /\ m.type = ClientType
    /\ m.session_id.len = 32
    /\ ExtractPeerPublic(m.extensions, TRUE) # 0
    /\ Get(m.session_id, 16) = Tag

\* The node answers with its hello, its ChangeCipherSpec and its cover flight.
AnswerHello(m) ==
    IF Accepts(m)
    THEN /\ phase' = [phase EXCEPT !["server"] = "ccs"]
         /\ Write("server",
                  <<MakeServerHello(m, Slice(X25519_LEN, ServerKey), Slice(32, ServerSalt), opener.server),
                    ChangeCipherSpecRecord>>
                  \o [i \in DOMAIN NodeDefault |-> AppDataRecord(CoverRecordLen(NodeDefault[i]))])
    ELSE /\ phase' = [phase EXCEPT !["server"] = "drop"]
         /\ UNCHANGED <<stream, ends>>

\* The client's update_keys.
FinishHello(m) ==
    /\ phase' = [phase EXCEPT !["client"] =
                    IF ExtractPeerPublic(m.extensions, FALSE) # 0 THEN "ccs" ELSE "drop"]
    /\ UNCHANGED <<stream, ends>>

\* One call of unpack_handshake, unpack_middlebox_ccs or unpack_app_data that does
\* not return Ok(None).
Read(e) ==
    /\ Reading(e)
    /\ LET answer == StartProcess(Buffer(e), Expected[phase[e]])
       IN  /\ answer.result # "none"
           /\ taken' = [taken EXCEPT ![e] = taken[e] + answer.used]
           /\ \/ /\ answer.result # "some"
                 /\ phase' = [phase EXCEPT ![e] = answer.result]
                 /\ UNCHANGED <<stream, ends, heard>>
              \/ /\ answer.result = "some" /\ phase[e] = "hello"
                 /\ heard' = [heard EXCEPT ![e] = answer.value]
                 /\ IF e = "server" THEN AnswerHello(answer.value) ELSE FinishHello(answer.value)
              \/ /\ answer.result = "some" /\ phase[e] # "hello"
                 /\ phase' = [phase EXCEPT ![e] = "data"]
                 /\ UNCHANGED <<stream, ends, heard>>
    /\ UNCHANGED <<opener, arrived>>

Init ==
    /\ opener \in OurConnections \cup Strangers
    /\ stream = [e \in Ends |-> Empty]
    /\ ends = [e \in Ends |-> {}]
    /\ arrived = [e \in Ends |-> 0]
    /\ taken = [e \in Ends |-> 0]
    /\ phase = [e \in Ends |-> "hello"]
    /\ heard = [e \in Ends |-> Unheard]

Next ==
    \/ Connect \/ MeetStranger \/ SendData
    \/ \E e \in Ends : Receive(e) \/ Read(e)

Spec == Init /\ [][Next]_vars

\* e's buffer holds something its reader has an answer to: ENABLED Read(e).
Readable(e) == Reading(e) /\ StartProcess(Buffer(e), Expected[phase[e]]).result # "none"

\* TCP delivers what was sent while the connection is up, and the task of each end
\* reads when there is something to read: WF_vars(Read(e)), with ENABLED written
\* out and Read recognised by the bytes it takes.
FairSpec ==
    /\ Spec
    /\ \A e \in Ends : WF_vars(Receive(e))
    /\ \A e \in Ends : []<>~Readable(e) \/ []<><<TRUE>>_(taken[e])

-----------------------------------------------------------------------------
(***************************************************************************)
(* Properties.                                                             *)
(***************************************************************************)
TypeOK ==
    \A e \in Ends :
        /\ phase[e] \in DOMAIN Expected \cup {"drop", "redirect", "panic"}
        /\ 0 <= taken[e] /\ taken[e] <= arrived[e] /\ arrived[e] <= stream[Peer(e)].len
        /\ \A n \in ends[e] : n \in 1 .. stream[e].len

\* Our client has sent its hello.
Ours == opener.kind = "ours" /\ ends["client"] # {}

\* What the ends know each other by survives the wire whatever the profile, the
\* shuffle, the GREASE draw and the host: the server reads the client's salt,
\* version, tag, key share, suites and SNI, the client the server's salt and key
\* share, its own session id and a suite it offered.
HelloCarriesKeys ==
    Ours =>
        /\ heard["server"] # Unheard =>
              LET m == heard["server"]
              IN  /\ m.random = ClientSalt
                  /\ m.session_id.len = 32
                  /\ Get(m.session_id, 0) = ClaimedVersion /\ Get(m.session_id, 16) = Tag
                  /\ m.cipher_suites = OfferedSuites(opener.profile, opener.grease)
                  /\ ExtractPeerPublic(m.extensions, TRUE) = ClientKey
                  /\ ServerName(m.extensions) = HostOf(opener.sni)
        /\ heard["client"] # Unheard =>
              LET m == heard["client"]
              IN  /\ m.random = ServerSalt
                  /\ m.session_id = heard["server"].session_id
                  /\ m.cipher_suite \in ToSet(heard["server"].cipher_suites)
                  /\ ExtractPeerPublic(m.extensions, FALSE) = ServerKey

\* A reader that waits (Ok(None)) waits for bytes: no record lies complete in its
\* buffer, however malformed its contents, unless the record is of a type that is
\* not TLS or is too short for application data, which the parser takes for
\* incomplete.
WaitsOnlyForBytes ==
    \A e \in Ends :
        /\ Reading(e)
        /\ StartProcess(Buffer(e), Expected[phase[e]]).result = "none"
        /\ \E n \in ends[Peer(e)] : n > taken[e] /\ n <= arrived[e]
        => LET b == Buffer(e)
           IN  \/ Get(b, 0) \notin ContentTypes
               \/ Get(b, 0) = ApplicationData /\ Get(b, 3) < MinAppData

\* parse reads nothing that can_parse has not made sure of: no hello, however its
\* lengths contradict each other, makes a parser read past its buffer.
ParseStaysInside == \A e \in Ends : phase[e] # "panic"

\* Hello, ChangeCipherSpec and data are told apart however TCP glued them together:
\* a reader always stands at the start of a record, and expects the kind of record
\* its peer wrote there.
ReadersInStep ==
    \A e \in Ends :
        Reading(e) =>
            /\ taken[e] \in {0} \cup ends[Peer(e)]
            /\ LET n == Cardinality({m \in ends[Peer(e)] : m <= taken[e]})
               IN  phase[e] = CASE n = 0 -> "hello" [] n = 1 -> "ccs" [] OTHER -> "data"

\* A profile that pads its ClientHello makes a record whose payload has exactly the
\* target length, in whatever order the shuffle put the extensions: never one in
\* the range 256 to 511 that the comment on make_client_hello is about.
PaddedToTarget ==
    Ours /\ opener.profile.target_padding_len > 0 =>
        Min(ends["client"]) - RecordHeaderSize = opener.profile.target_padding_len

\* No share is offered for a group that is not: the groups of key_share are among
\* those of supported_groups and in the same order, the GREASE group included; `at'
\* says which.
SharesOffered ==
    Ours /\ heard["server"] # Unheard =>
        LET stack   == heard["server"].extensions
            listed  == FindByType(stack, SUPPORTED_GROUPS)
            groups  == [i \in 1 .. (Get(listed, 0) \div 2) |-> Get(listed, 2 * i)]
            entries == KeyShareEntries(Suffix(FindByType(stack, KEY_SHARE), 2))
        IN  \E at \in [DOMAIN entries -> DOMAIN groups] :
                /\ \A i \in DOMAIN entries : groups[at[i]] = entries[i].group
                /\ \A i, j \in DOMAIN entries : i < j => at[i] < at[j]

\* An opening of our client against our node comes to an end: both ends read data,
\* and nothing that was sent stays unread.
OpeningCompletes ==
    Ours ~> \A e \in Ends : phase[e] = "data" /\ taken[e] = stream[Peer(e)].len

=============================================================================
