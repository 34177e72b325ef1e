----------------------------- MODULE HelloParser ----------------------------
(***************************************************************************)
(* Reading hello messages: TlsRecord (tlseng/tls_record.rs), HelloHeader,  *)
(* ClientHello and ServerHello (tlseng/handshake.rs), ExtensionStack       *)
(* (tlseng/extension.rs), SessionKeys::extract_peer_public                 *)
(* (crypto/session.rs) and the three interceptors of bridge.rs.            *)
(*                                                                         *)
(* A parser answers with a result: "some" (Ok(Some)), "none" (Ok(None):    *)
(* wait for more bytes), "drop" or "redirect" (Err with that ErrorAction), *)
(* or "panic" when it read past the end of its buffer; `used' is how many  *)
(* bytes of the buffer are gone afterwards.                                *)
(***************************************************************************)
EXTENDS ByteBlock

RecordHeaderSize == 5
MinAppData == 17

\* ContentType and ProtocolVersion
ChangeCipherSpec == \h14
Alert            == \h15
Handshake        == \h16
ApplicationData  == \h17
ContentTypes     == {ChangeCipherSpec, Alert, Handshake, ApplicationData}

Tls10 == \h0301
Tls12 == \h0303
Tls13 == \h0304
ProtocolVersions == {Tls10, Tls12, Tls13}

\* HelloType
ClientType == 1
ServerType == 2

\* The TlsExtensions and TlsGroups that are looked for.
SNI       == \h0000
KEY_SHARE == \h0033
X25519    == \h001d

X25519_LEN == 32
TYPE_HOST_NAME == 0

Answer(result, used) == [result |-> result, used |-> used, value |-> <<>>]
Found(value, used) == [result |-> "some", used |-> used, value |-> value]

-----------------------------------------------------------------------------
(***************************************************************************)
(* TLS records.                                                            *)
(***************************************************************************)

\* Faulty variant: the payload is not waited for.
RecordCanParseEager(b) ==
    /\ b.len >= RecordHeaderSize
    /\ Get(b, 0) \in ContentTypes
    /\ ~(Get(b, 0) = ApplicationData /\ Get(b, 3) < MinAppData)

\* Faulty variant: a record is taken only once a byte follows it.
RecordCanParseLate(b) ==
    /\ b.len >= RecordHeaderSize
    /\ Get(b, 0) \in ContentTypes
    /\ ~(Get(b, 0) = ApplicationData /\ Get(b, 3) < MinAppData)
    /\ b.len > RecordHeaderSize + Get(b, 3)

RecordCanParse(b) ==
    /\ b.len >= RecordHeaderSize
    /\ Get(b, 0) \in ContentTypes
    /\ ~(Get(b, 0) = ApplicationData /\ Get(b, 3) < MinAppData)
    /\ b.len >= RecordHeaderSize + Get(b, 3)

\* Faulty variant: the payload is whatever the buffer holds.
RecordParseGreedy(b) ==
    IF ~RecordCanParse(b) THEN Answer("none", 0)
    ELSE IF Get(b, 1) \notin ProtocolVersions THEN Answer("redirect", RecordHeaderSize)
    ELSE Found([type |-> Get(b, 0), payload |-> Suffix(b, RecordHeaderSize)], b.len)

\* The header is consumed before the version is looked at.
RecordParse(b) ==
    IF ~RecordCanParse(b) THEN Answer("none", 0)
    ELSE IF Get(b, 1) \notin ProtocolVersions THEN Answer("redirect", RecordHeaderSize)
    ELSE Found([type |-> Get(b, 0), payload |-> SubBlock(b, RecordHeaderSize, Get(b, 3))],
               RecordHeaderSize + Get(b, 3))

-----------------------------------------------------------------------------
(***************************************************************************)
(* Hello messages.  The 24-bit length of the header is read and not used.  *)
(***************************************************************************)
HelloHeaderCanParse(b) == b.len >= 4 /\ Get(b, 0) \in {ClientType, ServerType}

\* Faulty variant: the compression methods are not waited for.
ClientHelloCanParseShort(b) ==
    LET sid     == 35 + Get(b, 34)
        ciphers == sid + 2 + Get(b, sid)
        comp    == ciphers + 1 + Get(b, ciphers)
    IN  /\ b.len >= 35
        /\ b.len >= sid + 2
        /\ b.len >= ciphers + 1
        /\ b.len >= comp + 2 => b.len >= comp + 2 + Get(b, comp)

\* The walk of can_parse: session id, cipher suites and compression methods end
\* where their lengths say, with room for the length that follows.
ClientHelloCanParse(b) ==
    LET sid     == 35 + Get(b, 34)
        ciphers == sid + 2 + Get(b, sid)
        comp    == ciphers + 1 + Get(b, ciphers)
    IN  /\ b.len >= 35
        /\ b.len >= sid + 2
        /\ b.len >= ciphers + 1
        /\ b.len >= comp
        /\ b.len >= comp + 2 => b.len >= comp + 2 + Get(b, comp)

\* parse: one get after the other.  The suites are read in pairs of bytes, so a
\* list of odd length ends in a read past its end.
ClientHelloParse(b) ==
    LET random     == Skip(Cursor(b), 2)
        sid_len    == Skip(random, 32)
        session_id == Skip(sid_len, 1)
        c_len      == Skip(session_id, Peek(sid_len))
        suites     == Skip(c_len, 2)
        cmp_len    == Skip(suites, Peek(c_len))
        ext_len    == Skip(Skip(cmp_len, 1), Peek(cmp_len))
        extensions == Skip(ext_len, 2)
        end        == IF Remaining(ext_len) >= 2 THEN Skip(extensions, Peek(ext_len)) ELSE ext_len
        ciphers    == Split(suites, Peek(c_len))
    IN  IF ~ClientHelloCanParse(b) THEN Answer("none", 0)
        ELSE IF Get(b, 0) \notin ProtocolVersions THEN Answer("drop", 2)
        ELSE IF Overrun(end) \/ ciphers.len % 2 = 1 THEN Answer("panic", end.pos)
        ELSE Found([type          |-> ClientType,
                    random        |-> Peek(random),
                    session_id    |-> Split(session_id, Peek(sid_len)),
                    cipher_suites |-> [i \in 1 .. (ciphers.len \div 2) |-> Get(ciphers, 2 * i - 2)],
                    extensions    |-> IF Remaining(ext_len) >= 2
                                      THEN Split(extensions, Peek(ext_len))
                                      ELSE Empty],
                   end.pos)

\* ServerHello::parse measures the message, cuts it off and reads it.
ServerHelloParse(b) ==
    LET fixed      == 34 + 1 + Get(b, 34) + 3
        offset     == IF b.len >= fixed + 2 THEN fixed + 2 + Get(b, fixed) ELSE fixed
        msg        == Prefix(b, offset)
        random     == Skip(Cursor(msg), 2)
        sid_len    == Skip(random, 32)
        session_id == Skip(sid_len, 1)
        suite      == Skip(session_id, Peek(sid_len))
        ext_len    == Skip(Skip(suite, 2), 1)
        extensions == Skip(ext_len, 2)
        end        == IF Remaining(ext_len) >= 2 THEN Skip(extensions, Peek(ext_len)) ELSE ext_len
    IN  IF b.len < 35 \/ b.len < offset THEN Answer("none", 0)
        ELSE IF Get(b, 0) \notin ProtocolVersions THEN Answer("drop", offset)
        ELSE IF Overrun(end) THEN Answer("panic", offset)
        ELSE Found([type         |-> ServerType,
                    random       |-> Peek(random),
                    session_id   |-> Split(session_id, Peek(sid_len)),
                    cipher_suite |-> Peek(suite),
                    extensions   |-> IF Remaining(ext_len) >= 2
                                     THEN Split(extensions, Peek(ext_len))
                                     ELSE Empty],
                   offset)

-----------------------------------------------------------------------------
(***************************************************************************)
(* Extensions.                                                             *)
(***************************************************************************)

\* ExtensionStack::parse: a dry run over the lengths, which must end exactly at
\* the end of the block, then the extensions themselves.
ExtensionStackParse(b) ==
    LET next(offset)    == offset + 4 + Get(b, offset + 2)
        walk[o \in Nat] == IF o + 4 <= b.len THEN walk[next(o)] ELSE o
        take[o \in Nat] ==
            IF b.len - o >= 4
            THEN <<[etype |-> Get(b, o), data |-> SubBlock(b, o + 4, Get(b, o + 2))]>>
                 \o take[next(o)]
            ELSE <<>>
    IN  IF walk[0] > b.len THEN Answer("none", 0)
        ELSE IF walk[0] # b.len THEN Answer("drop", 0)
        ELSE Found(take[0], b.len)

Has(stack, etype) == \E i \in DOMAIN stack : stack[i].etype = etype

\* find_by_type, where there is one: the first.
FindByType(stack, etype) ==
    stack[Min({i \in DOMAIN stack : stack[i].etype = etype})].data

\* ExtensionStack::server_name: the name as a block, or Empty for None.
ServerName(stack) ==
    LET data == FindByType(stack, SNI)
        list == SubBlock(data, 2, Get(data, 0))
    IN  IF /\ Has(stack, SNI)
           /\ data.len >= 2 /\ data.len >= 2 + list.len
           /\ list.len >= 3 /\ Get(list, 0) = TYPE_HOST_NAME
           /\ list.len >= 3 + Get(list, 1)
        THEN SubBlock(list, 3, Get(list, 1))
        ELSE Empty

\* The entries of a client's key_share list that lie inside it, in order.
KeyShareEntries(list) ==
    LET entries[o \in Nat] ==
            IF o + 4 <= list.len /\ o + 4 + Get(list, o + 2) <= list.len
            THEN <<[group |-> Get(list, o), key |-> SubBlock(list, o + 4, Get(list, o + 2))]>>
                 \o entries[o + 4 + Get(list, o + 2)]
            ELSE <<>>
    IN  entries[0]

\* Faulty variant: the share of the first group is taken for X25519.
FirstShareAnyGroup(list) ==
    LET entries == KeyShareEntries(list)
    IN  IF entries = <<>> THEN 0 ELSE Get(entries[1].key, 0)

\* The loop of extract_peer_public: the first X25519 entry of 32 bytes; 0 if none.
FirstShare(list) ==
    LET entries == KeyShareEntries(list)
        good    == {i \in DOMAIN entries :
                       entries[i].group = X25519 /\ entries[i].key.len = X25519_LEN}
    IN  IF good = {} THEN 0 ELSE Get(entries[Min(good)].key, 0)

\* extract_peer_public: the key, or 0 for each of its errors, the last of which is
\* a key of zeros.
ExtractPeerPublic(stack, is_server) ==
    LET data == FindByType(stack, KEY_SHARE)
    IN  IF ~Has(stack, KEY_SHARE) THEN 0
        ELSE IF is_server
        THEN IF data.len >= 2 /\ data.len >= 2 + Get(data, 0)
             THEN FirstShare(SubBlock(data, 2, Get(data, 0)))
             ELSE 0
        ELSE IF data.len >= 4 + X25519_LEN /\ Get(data, 2) = X25519_LEN
             THEN Get(data, 4)
             ELSE 0

-----------------------------------------------------------------------------
(***************************************************************************)
(* The interceptors of bridge.rs.                                          *)
(***************************************************************************)

\* Faulty variant: a hello that does not parse is waited for.
HandleHandshakeWaiting(record, used) ==
    LET body  == Suffix(record.payload, 4)
        hello == IF Get(record.payload, 0) = ClientType THEN ClientHelloParse(body)
                                                        ELSE ServerHelloParse(body)
    IN  IF record.type # Handshake THEN Answer("drop", used)
        ELSE IF ~HelloHeaderCanParse(record.payload) THEN Answer("none", used)
        ELSE IF hello.result # "some" THEN Answer(hello.result, used)
        ELSE LET stack == ExtensionStackParse(hello.value.extensions)
             IN  IF stack.result # "some" THEN Answer("drop", used)
                 ELSE Found([hello.value EXCEPT !.extensions = stack.value], used)

\* HandshakeMessage::handle_record: the record is complete, so a message in it that
\* does not parse is refused, not waited for.
HandleHandshake(record, used) ==
    LET body  == Suffix(record.payload, 4)
        hello == IF Get(record.payload, 0) = ClientType THEN ClientHelloParse(body)
                                                        ELSE ServerHelloParse(body)
    IN  IF record.type # Handshake \/ ~HelloHeaderCanParse(record.payload)
           \/ hello.result \in {"none", "drop"}
        THEN Answer("drop", used)
        ELSE IF hello.result = "panic" THEN Answer("panic", used)
        ELSE LET stack == ExtensionStackParse(hello.value.extensions)
             IN  IF stack.result # "some" THEN Answer("drop", used)
                 ELSE Found([hello.value EXCEPT !.extensions = stack.value], used)

\* handle_record of ChangeCipherSpecMarker and of ApplicationData.
HandleTyped(record, type, used) ==
    IF record.type # type THEN Answer("drop", used) ELSE Found(record.payload, used)

\* TlsInterceptor::start_process for what a reader expects.
StartProcess(b, expected) ==
    LET record == RecordParse(b)
    IN  IF record.result # "some" THEN record
        ELSE IF expected = Handshake THEN HandleHandshake(record.value, record.used)
        ELSE HandleTyped(record.value, expected, record.used)

=============================================================================
