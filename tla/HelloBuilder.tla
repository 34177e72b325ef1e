---------------------------- MODULE HelloBuilder ----------------------------
(***************************************************************************)
(* Writing hello messages: the profiles (tlseng/profile.rs, types.rs,      *)
(* grease.rs), ExtensionBuilder (tlseng/extension.rs), make_client_hello   *)
(* and make_server_hello (tlseng/handshake.rs).                            *)
(*                                                                         *)
(* Lists whose elements nothing reads back are kept as lengths: signature  *)
(* algorithms as their number, protocol names as the sequence of their     *)
(* lengths, the ML-KEM share and the ECH payload as bytes of noise.        *)
(***************************************************************************)
EXTENDS HelloParser, MlKem

CONSTANTS Noise         \* bytes nothing reads back

ASSUME NoiseAssumption == Noise \in Nat

\* TlsExtensions
STATUS_REQUEST       == \h0005
SUPPORTED_GROUPS     == \h000a
EC_POINT_FORMATS     == \h000b
SIGNATURE_ALGORITHMS == \h000d
ALPN                 == \h0010
SCT                  == \h0012
PADDING              == \h0015
EMS                  == \h0017
COMPRESS_CERT        == \h001b
DELEGATED_CREDENTIAL == \h0022
SESSION_TICKET       == \h0023
SUPPORTED_VERSIONS   == \h002b
PSK_MODES            == \h002d
ALPS                 == \h44cd
ECH                  == \hfe0d
RENEGOTIATION_INFO   == \hff01
GREASE_SLOT_FIRST    == \h0a0a
GREASE_SLOT_LAST     == \h2a2a

\* GREASE_VALUES, of which is_grease is the test.
GREASE_VALUES == {\h0a0a + i * \h1010 : i \in 0 .. 15}

\* TlsGroups
X25519_MLKEM768 == \h11ec
SECP256R1       == \h0017
SECP521R1       == \h0019

-----------------------------------------------------------------------------
(***************************************************************************)
(* Profiles.                                                               *)
(***************************************************************************)
Suites == <<\h1301, \h1302, \h1303>>

ExtensionOrder ==
    [CHROMIUM_131 |-> <<\haaaa, SNI, SUPPORTED_GROUPS, SIGNATURE_ALGORITHMS, KEY_SHARE,
                        SUPPORTED_VERSIONS, PADDING>>,
     CHROME_140   |-> <<GREASE_SLOT_FIRST, SNI, SUPPORTED_GROUPS, KEY_SHARE, SUPPORTED_VERSIONS,
                        SIGNATURE_ALGORITHMS, GREASE_SLOT_LAST>>,
     EDGE_130     |-> <<\h1a1a, SNI, SUPPORTED_GROUPS, SIGNATURE_ALGORITHMS, KEY_SHARE,
                        SUPPORTED_VERSIONS, \h3a3a, PADDING>>,
     FIREFOX_133  |-> <<SNI, RENEGOTIATION_INFO, SUPPORTED_GROUPS, KEY_SHARE, SUPPORTED_VERSIONS,
                        SIGNATURE_ALGORITHMS>>,
     SAFARI_17    |-> <<SNI, RENEGOTIATION_INFO, SUPPORTED_GROUPS, KEY_SHARE, SUPPORTED_VERSIONS>>]

CHROME_131 ==
    [groups |-> <<X25519, SECP256R1>>, signatures |-> 7, delegated_signatures |-> 7,
     versions |-> <<Tls13>>, alpn |-> <<2, 8>>, cipher_suites |-> Suites,
     extension_order |-> ExtensionOrder.CHROMIUM_131,
     record_layer_version |-> Tls10, target_padding_len |-> 512, alps_protocols |-> <<2>>,
     has_grease |-> TRUE, shuffle_extensions |-> TRUE]

CHROME_140 ==
    [CHROME_131 EXCEPT
        !.groups = <<X25519_MLKEM768, X25519>>, !.signatures = 3, !.delegated_signatures = 3,
        !.versions = <<Tls13, Tls12>>, !.target_padding_len = 0,
        !.extension_order = ExtensionOrder.CHROME_140]

EDGE_130 == [CHROME_131 EXCEPT !.extension_order = ExtensionOrder.EDGE_130]

SAFARI_17 ==
    [CHROME_131 EXCEPT
        !.versions = <<Tls13, Tls12>>, !.record_layer_version = Tls12,
        !.target_padding_len = 0, !.alps_protocols = <<>>,
        !.has_grease = FALSE, !.shuffle_extensions = FALSE,
        !.extension_order = ExtensionOrder.SAFARI_17]

FIREFOX_130 ==
    [SAFARI_17 EXCEPT
        !.groups = <<X25519, SECP256R1, SECP521R1>>,
        !.extension_order = ExtensionOrder.FIREFOX_133]

\* The published profiles are placeholders for a calibration.  This one stands for
\* a calibrated profile: every extension apply_profile knows, and one it does not.
CALIBRATED ==
    [CHROME_140 EXCEPT
        !.shuffle_extensions = FALSE,
        !.extension_order = <<GREASE_SLOT_FIRST, SNI, EMS, SUPPORTED_GROUPS, ALPN, STATUS_REQUEST,
                              DELEGATED_CREDENTIAL, SIGNATURE_ALGORITHMS, SCT, KEY_SHARE,
                              PSK_MODES, EC_POINT_FORMATS, SUPPORTED_VERSIONS, COMPRESS_CERT,
                              ALPS, ECH, SESSION_TICKET, RENEGOTIATION_INFO, \h4469,
                              GREASE_SLOT_LAST>>]

MODERN == [versions |-> <<Tls13, Tls12>>, record_layer_version |-> Tls12,
           cipher_suites |-> Suites, honor_cipher_order |-> TRUE]

COMPAT == [MODERN EXCEPT !.cipher_suites = Suites \o <<\hc02b, \hc02f, \hc02c, \hc030>>]

\* TlsVersions::max
MaxVersion(versions) ==
    IF Tls13 \in ToSet(versions) THEN Tls13 ELSE IF Tls12 \in ToSet(versions) THEN Tls12 ELSE Tls10

-----------------------------------------------------------------------------
(***************************************************************************)
(* ExtensionBuilder.                                                       *)
(***************************************************************************)
AddExtension(etype, data) == Concat(<<U16(etype), U16(data.len), data>>)

\* Length-prefixed names in a list with a length of its own: alpn and ALPS.
ProtocolList(lens) ==
    LET list == Concat([i \in DOMAIN lens |-> Joined(U8(lens[i]), Slice(lens[i], Noise))])
    IN  Joined(U16(list.len), list)

Greased(profile, value, list) == (IF profile.has_grease THEN <<value>> ELSE <<>>) \o list

ServerNameData(host) == Concat(<<U16(1 + 2 + host.len), U8(TYPE_HOST_NAME), U16(host.len), host>>)

SupportedGroupsData(profile, grease) ==
    LET groups == Greased(profile, grease.group, profile.groups)
    IN  Joined(U16(2 * Len(groups)), U16s(groups))

SupportedVersionsData(profile, grease) ==
    LET versions == Greased(profile, grease.version, profile.versions)
    IN  Joined(U8(2 * Len(versions)), U16s(versions))

\* key_share with a GREASE group: the shares in the order of supported_groups.
KeyShareList(profile, grease_group, pub_key) ==
    LET share(group, key) == Concat(<<U16(group), U16(key.len), key>>)
        list == Concat(<<IF profile.has_grease THEN share(grease_group, U8(0)) ELSE Empty,
                         IF X25519_MLKEM768 \in ToSet(profile.groups)
                         THEN share(X25519_MLKEM768, Slice(X25519_MLKEM768_SHARE_LEN, Noise))
                         ELSE Empty,
                         share(X25519, pub_key)>>)
    IN  Joined(U16(list.len), list)

\* Faulty variant: the GREASE group of the share is a draw of its own.
KeyShareDataRedrawn(profile, grease, pub_key) == KeyShareList(profile, grease.ext_last, pub_key)

KeyShareData(profile, grease, pub_key) == KeyShareList(profile, grease.group, pub_key)

SignaturesData(count) == Joined(U16(2 * count), Slice(2 * count, Noise))

\* ech_grease: type, two suite ids, config id, a 32-byte key and 144 bytes of payload.
EchData ==
    Concat(<<U8(0), U16(1), U16(1), Slice(1, Noise), U16(32), Slice(32, Noise),
             U16(144), Slice(144, Noise)>>)

\* padding: target_size counts what is built so far, the overhead, and the four
\* bytes of the extension itself.
PaddingExtension(payload, target_size, overhead) ==
    IF target_size > payload.len + overhead + 4
    THEN AddExtension(PADDING, Slice(target_size - (payload.len + overhead) - 4, 0))
    ELSE Empty

\* One turn of the loop of apply_profile: what ext_id appends to payload.
Extension(profile, hello, overhead, payload, ext_id) ==
    CASE ext_id = GREASE_SLOT_FIRST ->
            IF profile.has_grease THEN AddExtension(hello.grease.ext_first, Empty) ELSE Empty
      [] ext_id = GREASE_SLOT_LAST ->
            IF profile.has_grease THEN AddExtension(hello.grease.ext_last, U8(0)) ELSE Empty
      [] ext_id = SNI -> AddExtension(SNI, ServerNameData(hello.host))
      [] ext_id = SUPPORTED_GROUPS ->
            AddExtension(ext_id, SupportedGroupsData(profile, hello.grease))
      [] ext_id = SIGNATURE_ALGORITHMS ->
            AddExtension(ext_id, SignaturesData(profile.signatures))
      [] ext_id = DELEGATED_CREDENTIAL ->
            AddExtension(ext_id, SignaturesData(profile.delegated_signatures))
      [] ext_id = ALPN -> AddExtension(ext_id, ProtocolList(profile.alpn))
      [] ext_id = ALPS ->
            IF profile.alps_protocols # <<>>
            THEN AddExtension(ext_id, ProtocolList(profile.alps_protocols))
            ELSE Empty
      [] ext_id \in {SCT, EMS, SESSION_TICKET} -> AddExtension(ext_id, Empty)
      [] ext_id = ECH -> AddExtension(ext_id, EchData)
      [] ext_id = COMPRESS_CERT -> AddExtension(ext_id, Joined(U8(2), U16(2)))
      [] ext_id = SUPPORTED_VERSIONS ->
            AddExtension(ext_id, SupportedVersionsData(profile, hello.grease))
      [] ext_id \in {PSK_MODES, EC_POINT_FORMATS} ->
            AddExtension(ext_id, Joined(U8(1), U8(IF ext_id = PSK_MODES THEN 1 ELSE 0)))
      [] ext_id = KEY_SHARE -> AddExtension(ext_id, KeyShareData(profile, hello.grease, hello.key))
      [] ext_id = STATUS_REQUEST -> AddExtension(ext_id, Concat(<<U8(1), U16(0), U16(0)>>))
      [] ext_id = RENEGOTIATION_INFO -> AddExtension(ext_id, U8(0))
      [] ext_id = PADDING ->
            IF profile.target_padding_len > 0
            THEN PaddingExtension(payload, profile.target_padding_len, overhead)
            ELSE Empty
      [] ext_id \in GREASE_VALUES \ {GREASE_SLOT_FIRST, GREASE_SLOT_LAST} ->
            IF profile.has_grease THEN AddExtension(ext_id, Empty) ELSE Empty
      [] OTHER -> Empty

\* Faulty variant: the last place takes part in the shuffle.
ShuffleMiddleToTheEnd(order, rnd) ==
    LET n == Len(order) - 1
        swap(s, i, j) == [s EXCEPT ![i] = s[j], ![j] = s[i]]
        from[i \in Nat] == IF i >= n THEN order ELSE swap(from[i + 1], i + 2, (rnd[i] % (i + 1)) + 2)
    IN  from[1]

\* shuffle_middle: Fisher-Yates on all but the first and the last; from[i] is the
\* order after the turns n - 1 down to i, where middle[k] is order[k + 2].
ShuffleMiddle(order, rnd) ==
    LET n == Len(order) - 2
        swap(s, i, j) == [s EXCEPT ![i] = s[j], ![j] = s[i]]
        from[i \in Nat] == IF i >= n THEN order ELSE swap(from[i + 1], i + 2, (rnd[i] % (i + 1)) + 2)
    IN  IF Len(order) < 4 THEN order ELSE from[1]

\* apply_profile and build.
ApplyProfile(profile, hello, overhead) ==
    LET order == IF profile.shuffle_extensions
                 THEN ShuffleMiddle(profile.extension_order, hello.rnd)
                 ELSE profile.extension_order
    IN  FoldLeft(LAMBDA payload, id :
                    Joined(payload, Extension(profile, hello, overhead, payload, id)),
                 Empty, order)

-----------------------------------------------------------------------------
(***************************************************************************)
(* Whole messages.                                                         *)
(***************************************************************************)
Record(type, version, payload) == Concat(<<U8(type), U16(version), U16(payload.len), payload>>)

\* build_change_cipher_spec and build_application_data.
ChangeCipherSpecRecord == Record(ChangeCipherSpec, Tls12, U8(1))
AppDataRecord(len) == Record(ApplicationData, Tls12, Slice(len, Noise))

HandshakeMessage(type, body) == Concat(<<U8(type), U24(body.len), body>>)

\* ClientHello::serialize
ClientHello(random, session_id, suites, extensions) ==
    HandshakeMessage(ClientType,
        Concat(<<U16(Tls12), random, U8(session_id.len), session_id,
                 U16(2 * Len(suites)), U16s(suites), U8(1), U8(0),
                 U16(extensions.len), extensions>>))

OfferedSuites(profile, grease) == Greased(profile, grease.cipher, profile.cipher_suites)

\* total_overhead: the payload of the record without the extensions.
Overhead(profile, grease) ==
    4 + 2 + 32 + 1 + 32 + 2 + 2 * Len(OfferedSuites(profile, grease)) + 2 + 2

\* make_client_hello.  hello holds the host, the GREASE set, the entropy of the
\* shuffle, the salt, the key share, the claimed version and the tag.
MakeClientHello(profile, hello) ==
    LET session_id == Concat(<<U8(hello.version), Slice(15, Noise), hello.tag>>)
        extensions == ApplyProfile(profile, hello, Overhead(profile, hello.grease))
    IN  Record(Handshake, profile.record_layer_version,
               ClientHello(hello.salt, session_id, OfferedSuites(profile, hello.grease), extensions))

\* from_client_hello's choice of a suite.
SelectedSuite(offered, profile) ==
    LET first(list, other) == SelectInSeq(list, LAMBDA suite : suite \in ToSet(other))
        i == IF profile.honor_cipher_order THEN first(profile.cipher_suites, offered)
                                           ELSE first(offered, profile.cipher_suites)
    IN  IF i = 0 THEN \h1301
        ELSE IF profile.honor_cipher_order THEN profile.cipher_suites[i] ELSE offered[i]

\* The two extensions of the answer.
ServerExtensions(key, profile) ==
    Concat(<<U16(SUPPORTED_VERSIONS), U16(2), U16(MaxVersion(profile.versions)),
             U16(KEY_SHARE), U16(key.len + 4), U16(X25519), U16(key.len), key>>)

\* ServerHello::serialize
ServerHello(random, session_id, suite, extensions) ==
    HandshakeMessage(ServerType,
        Concat(<<U16(Tls12), random, U8(session_id.len), session_id, U16(suite), U8(0),
                 U16(extensions.len), extensions>>))

\* make_server_hello and from_client_hello.
MakeServerHello(client_hello, key, salt, profile) ==
    Record(Handshake, profile.record_layer_version,
           ServerHello(salt, client_hello.session_id,
                       SelectedSuite(client_hello.cipher_suites, profile),
                       ServerExtensions(key, profile)))

=============================================================================
