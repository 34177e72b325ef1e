---------------------------- MODULE OpeningProofs ---------------------------
(***************************************************************************)
(* The opening of the TCP leg, proved for all values of salts, keys and    *)
(* tag, every list of host names, every GREASE set and shuffle that can be *)
(* drawn, every profile of the node and every length of a stranger's       *)
(* cipher list.                                                            *)
(*                                                                         *)
(* Parsers and the post-quantum key share come first: they are proved for  *)
(* every byte string, whoever wrote it.  Then byte strings as the writers  *)
(* put them together: Block is what they all are, Lies says where a part   *)
(* of one is found in the whole, Framed that a stream is made of whole     *)
(* records.  With these the extension list of every profile, after every   *)
(* shuffle, is laid out, and the hellos around it.                         *)
(*                                                                         *)
(* The inductive invariant IInv ties both streams to the hellos written    *)
(* first, and both readers to the marks at which records end.  Each action *)
(* keeps it (Connect, MeetStranger, SendData, Receive, Read), one lemma    *)
(* each.  The properties of the module follow: from IInv alone that        *)
(* readers keep in step; with what a parser reads of a hello that was laid *)
(* out, that hellos carry the keys; with the length of what is laid out,   *)
(* that padding meets its target.                                          *)
(***************************************************************************)
EXTENDS OpeningInvariant, FiniteSetTheorems, SequenceTheorems, WellFoundedInduction, TLAPS

-----------------------------------------------------------------------------
(***************************************************************************)
(* Records.                                                                *)
(***************************************************************************)

\* A byte string whose fields are numbers.
Numeric(b) == b.len \in Nat /\ \A p \in Nat : Get(b, p) \in Nat

\* A byte string of any fields, in which the length of a record is a number.
RecordLike(b) == b.len \in Nat /\ Get(b, 3) \in Nat

\* What is behind the bytes that are read does not show in what is read.
LEMMA PrefixReads ==
    ASSUME NEW b, NEW n \in Nat
    PROVE  /\ Prefix(b, n).len = n
           /\ \A p \in Nat : p < n => Get(Prefix(b, n), p) = Get(b, p)
  <1> DEFINE at == [p \in {q - 0 : q \in DOMAIN b.at \cap 0 .. (0 + n - 1)} |-> b.at[0 + p]]
  <1>1. Prefix(b, n) = [len |-> n, at |-> at]
    BY DEF Prefix, SubBlock
  <1>2. ASSUME NEW p \in Nat, p < n
        PROVE  /\ p \in DOMAIN at <=> p \in DOMAIN b.at
               /\ p \in DOMAIN at => at[p] = b.at[p]
    <2>1. p \in 0 .. (0 + n - 1) /\ p - 0 = p /\ 0 + p = p
      BY <1>2
    <2>2. ASSUME NEW q \in DOMAIN b.at \cap 0 .. (0 + n - 1), p = q - 0 PROVE p = q
      BY <2>2
    <2>3. p \in DOMAIN at <=> p \in DOMAIN b.at
      BY <2>1, <2>2
    <2> QED
      BY <2>1, <2>3
  <1> HIDE DEF at
  <1>3. Prefix(b, n).len = n /\ Prefix(b, n).at = at
    BY <1>1
  <1> QED
    BY <1>2, <1>3 DEF Get

\* The same of a part of it that lies within these bytes.
LEMMA PrefixPart ==
    ASSUME NEW b, NEW n \in Nat, NEW from \in Nat, NEW k \in Nat, from + k <= n
    PROVE  SubBlock(Prefix(b, n), from, k) = SubBlock(b, from, k)
  <1> DEFINE a == Prefix(b, n)
             D == DOMAIN b.at \cap from .. (from + k - 1)
             E == DOMAIN a.at \cap from .. (from + k - 1)
             x == [p \in {q - from : q \in D} |-> b.at[from + p]]
             y == [p \in {q - from : q \in E} |-> a.at[from + p]]
  <1>1. SubBlock(b, from, k) = [len |-> k, at |-> x] /\ SubBlock(a, from, k) = [len |-> k, at |-> y]
    BY DEF SubBlock
  <1>2. DOMAIN a.at = {q - 0 : q \in DOMAIN b.at \cap 0 .. (0 + n - 1)}
    BY DEF Prefix, SubBlock
  <1>3. \A p \in DOMAIN a.at : a.at[p] = b.at[0 + p]
    BY DEF Prefix, SubBlock
  <1> HIDE DEF a
  <1>4. D = E
    <2>1. ASSUME NEW q \in D PROVE q \in E
      <3>1. q \in 0 .. (0 + n - 1) /\ q - 0 = q
        OBVIOUS
      <3> QED
        BY <1>2, <3>1
    <2>2. ASSUME NEW q \in E PROVE q \in D
      <3>1. PICK i \in DOMAIN b.at \cap 0 .. (0 + n - 1) : q = i - 0
        BY <1>2
      <3>2. q = i
        BY <3>1
      <3> QED
        BY <3>1, <3>2
    <2> QED
      BY <2>1, <2>2
  <1>5. ASSUME NEW q \in D PROVE a.at[q] = b.at[q] /\ from + (q - from) = q
    <2>1. q \in DOMAIN a.at /\ 0 + q = q /\ from + (q - from) = q
      BY <1>4
    <2> QED
      BY <1>3, <2>1
  <1>6. ASSUME NEW q \in D PROVE a.at[from + (q - from)] = b.at[from + (q - from)]
    BY <1>5
  <1>7. x = y
    <2> DEFINE P == {q - from : q \in D}
    <2>1. x = [p \in P |-> b.at[from + p]] /\ y = [p \in P |-> a.at[from + p]]
      BY <1>4
    <2>2. ASSUME NEW p \in P PROVE a.at[from + p] = b.at[from + p]
      BY <1>6
    <2> HIDE DEF P, x, y
    <2> QED
      BY <2>1, <2>2
  <1> QED
    BY <1>1, <1>7 DEF a

\* What a record parser takes is there, and is the whole record.
LEMMA RecordInside ==
    ASSUME NEW b, RecordLike(b)
    PROVE  LET answer == RecordParse(b)
           IN  /\ answer.result \in {"none", "redirect", "some"}
               /\ answer.result = "none" <=> ~RecordCanParse(b)
               /\ answer.used \in Nat /\ answer.used <= b.len
               /\ answer.result = "some" => answer.used = RecordHeaderSize + Get(b, 3)
  <1>1. CASE ~RecordCanParse(b)
    BY <1>1 DEF RecordParse, Answer, RecordLike
  <1>2. CASE RecordCanParse(b)
    <2>1. b.len >= RecordHeaderSize /\ b.len >= RecordHeaderSize + Get(b, 3)
      BY <1>2 DEF RecordCanParse
    <2>2. b.len \in Nat /\ Get(b, 3) \in Nat /\ RecordHeaderSize = 5
      BY DEF RecordLike, RecordHeaderSize
    <2>3. CASE Get(b, 1) \notin ProtocolVersions
      <3>1. RecordParse(b) = Answer("redirect", RecordHeaderSize)
        BY <1>2, <2>3 DEF RecordParse
      <3> QED
        BY <1>2, <2>1, <2>2, <3>1 DEF Answer
    <2>4. CASE Get(b, 1) \in ProtocolVersions
      <3> DEFINE value == [type |-> Get(b, 0), payload |-> SubBlock(b, RecordHeaderSize, Get(b, 3))]
      <3>1. RecordParse(b) = Found(value, RecordHeaderSize + Get(b, 3))
        BY <1>2, <2>4 DEF RecordParse
      <3> HIDE DEF value
      <3> QED
        BY <1>2, <2>1, <2>2, <3>1 DEF Found
    <2> QED
      BY <2>3, <2>4
  <1> QED
    BY <1>1, <1>2

\* start_process waits for nothing but the rest of a record: whatever a complete
\* record contains, each of the three readers answers, and takes no more than
\* there is.
THEOREM ReadersWaitForRecords ==
    ASSUME NEW b, RecordLike(b), NEW expected
    PROVE  LET answer == StartProcess(b, expected)
           IN  /\ answer.result = "none" <=> ~RecordCanParse(b)
               /\ answer.used \in Nat /\ answer.used <= b.len
               /\ answer.result = "some" => answer.used = RecordHeaderSize + Get(b, 3)
  <1> DEFINE record == RecordParse(b)
             answer == StartProcess(b, expected)
  <1>1. /\ record.result \in {"none", "redirect", "some"}
        /\ record.result = "none" <=> ~RecordCanParse(b)
        /\ record.used \in Nat /\ record.used <= b.len
        /\ record.result = "some" => record.used = RecordHeaderSize + Get(b, 3)
    BY RecordInside
  <1> HIDE DEF record
  <1>2. CASE record.result # "some"
    <2>1. answer = record
      BY <1>2 DEF StartProcess, record
    <2> QED
      BY <1>1, <1>2, <2>1
  <1>3. CASE record.result = "some"
    <2>1. answer.result \in {"drop", "panic", "some"} /\ answer.used = record.used
      <3>1. CASE expected = Handshake
        <4>1. answer = HandleHandshake(record.value, record.used)
          BY <1>3, <3>1 DEF StartProcess, record
        <4>2. \A r, u : /\ HandleHandshake(r, u).result \in {"drop", "panic", "some"}
                        /\ HandleHandshake(r, u).used = u
          BY DEF HandleHandshake, Answer, Found
        <4> HIDE DEF answer
        <4> QED
          BY <4>1, <4>2
      <3>2. CASE expected # Handshake
        <4>1. answer = HandleTyped(record.value, expected, record.used)
          BY <1>3, <3>2 DEF StartProcess, record
        <4> QED
          BY <4>1 DEF HandleTyped, Answer, Found
      <3> QED
        BY <3>1, <3>2
    <2> HIDE DEF answer
    <2>2. /\ answer.result # "none" /\ RecordCanParse(b)
          /\ answer.used \in Nat /\ answer.used <= b.len
          /\ answer.used = RecordHeaderSize + Get(b, 3)
      BY <1>1, <1>3, <2>1
    <2> QED
      BY <2>2 DEF answer
  <1> QED
    BY <1>2, <1>3

\* However TCP cuts the stream, a reader makes the same of it: given the first n
\* bytes of a buffer it waits, or gives the answer it gives to all of it, to the
\* value it hands on and the bytes it takes.
THEOREM CutsDoNotMatter ==
    ASSUME NEW b, RecordLike(b), NEW n \in Nat, n <= b.len, NEW expected
    PROVE  LET part == StartProcess(Prefix(b, n), expected)
           IN  part.result # "none" => part = StartProcess(b, expected)
  <1> DEFINE a == Prefix(b, n)
  <1>1. a.len = n /\ \A p \in Nat : p < n => Get(a, p) = Get(b, p)
    BY PrefixReads
  <1>2. b.len \in Nat /\ Get(b, 3) \in Nat /\ RecordHeaderSize = 5
    BY DEF RecordLike, RecordHeaderSize
  <1>3. CASE ~RecordCanParse(a)
    <2>1. RecordParse(a) = Answer("none", 0)
      BY <1>3 DEF RecordParse
    <2>2. StartProcess(a, expected).result = "none"
      BY <2>1 DEF StartProcess, Answer
    <2> QED
      BY <2>2
  <1>4. CASE RecordCanParse(a)
    <2> HIDE DEF a
    <2>1. n >= 5
      BY <1>1, <1>2, <1>4 DEF RecordCanParse
    <2>2. Get(a, 0) = Get(b, 0) /\ Get(a, 1) = Get(b, 1) /\ Get(a, 3) = Get(b, 3)
      BY <1>1, <2>1
    <2>3. RecordCanParse(b) /\ 5 + Get(b, 3) <= n
      BY <1>1, <1>2, <1>4, <2>2 DEF RecordCanParse
    <2>4. SubBlock(a, 5, Get(b, 3)) = SubBlock(b, 5, Get(b, 3))
      BY <1>2, <2>3, PrefixPart DEF a
    <2>5. RecordParse(a) = RecordParse(b)
      BY <1>2, <1>4, <2>2, <2>3, <2>4 DEF RecordParse
    <2>6. StartProcess(a, expected) = StartProcess(b, expected)
      BY <2>5 DEF StartProcess
    <2> QED
      BY <2>6 DEF a
  <1> QED
    BY <1>3, <1>4

-----------------------------------------------------------------------------
(***************************************************************************)
(* Hello messages.                                                         *)
(***************************************************************************)

\* The cursor at position p of b.
At(b, p) == [block |-> b, pos |-> p]

\* What is read at a cursor.
LEMMA AtCursor ==
    /\ \A b, p : Peek(At(b, p)) = Get(b, p) /\ Remaining(At(b, p)) = b.len - p
    /\ \A b, p : At(b, p).pos = p /\ (Overrun(At(b, p)) <=> b.len - p < 0)
    /\ \A b, p, n : Split(At(b, p), n) = SubBlock(b, p, n) /\ Split(At(b, p), n).len = n
    /\ \A b : Cursor(b) = At(b, 0)
  <1>1. ASSUME NEW b, NEW p PROVE Peek(At(b, p)) = Get(b, p) /\ Remaining(At(b, p)) = b.len - p
    BY DEF Peek, Remaining, At
  <1>2. ASSUME NEW b, NEW p PROVE At(b, p).pos = p /\ (Overrun(At(b, p)) <=> b.len - p < 0)
    BY DEF At, Overrun, Remaining
  <1>3. ASSUME NEW b, NEW p, NEW n
        PROVE  Split(At(b, p), n) = SubBlock(b, p, n) /\ Split(At(b, p), n).len = n
    BY DEF Split, SubBlock, At
  <1>4. ASSUME NEW b PROVE Cursor(b) = At(b, 0)
    BY DEF Cursor, At
  <1> QED
    BY <1>1, <1>2, <1>3, <1>4

\* A move.
LEMMA SkipMoves ==
    ASSUME NEW b, NEW p, NEW n
    PROVE  Skip(At(b, p), n) = At(b, p + n)
  BY DEF Skip, At

\* What ClientHello::parse makes of a message: random, session id, suites and
\* extensions are read behind the lengths that announce them.
ClientValue(b) ==
    LET sid     == 35 + Get(b, 34)
        ciphers == sid + 2 + Get(b, sid)
        comp    == ciphers + 1 + Get(b, ciphers)
        list    == SubBlock(b, sid + 2, Get(b, sid))
    IN  [type          |-> ClientType,
         random        |-> Get(b, 2),
         session_id    |-> SubBlock(b, 35, Get(b, 34)),
         cipher_suites |-> [i \in 1 .. (Get(b, sid) \div 2) |-> Get(list, 2 * i - 2)],
         extensions    |-> IF b.len - comp >= 2 THEN SubBlock(b, comp + 2, Get(b, comp)) ELSE Empty]

\* ClientHello::parse, for every byte string: it panics on a list of suites of odd
\* length and on nothing else, since can_parse made sure of all its other reads;
\* it takes no more than there is; and it reads each field behind its length.
THEOREM ClientHelloStaysInside ==
    ASSUME NEW b, Numeric(b)
    PROVE  LET answer == ClientHelloParse(b)
           IN  /\ answer.result = "panic" <=>
                     /\ ClientHelloCanParse(b) /\ Get(b, 0) \in ProtocolVersions
                     /\ Get(b, 35 + Get(b, 34)) % 2 = 1
               /\ answer.result = "none" <=> ~ClientHelloCanParse(b)
               /\ answer.used \in Nat /\ answer.used <= b.len
               /\ answer.result = "some" <=>
                     /\ ClientHelloCanParse(b) /\ Get(b, 0) \in ProtocolVersions
                     /\ Get(b, 35 + Get(b, 34)) % 2 # 1
               /\ answer.result = "some" => answer.value = ClientValue(b)
  <1> DEFINE sid == 35 + Get(b, 34)
             ciph == sid + 2 + Get(b, sid)
             comp == ciph + 1 + Get(b, ciph)
             random == Skip(Cursor(b), 2)
             sid_len == Skip(random, 32)
             session_id == Skip(sid_len, 1)
             c_len == Skip(session_id, Peek(sid_len))
             suites == Skip(c_len, 2)
             cmp_len == Skip(suites, Peek(c_len))
             ext_len == Skip(Skip(cmp_len, 1), Peek(cmp_len))
             extensions == Skip(ext_len, 2)
             end == IF Remaining(ext_len) >= 2 THEN Skip(extensions, Peek(ext_len)) ELSE ext_len
             ciphers == Split(suites, Peek(c_len))
             value == [type          |-> ClientType,
                       random        |-> Peek(random),
                       session_id    |-> Split(session_id, Peek(sid_len)),
                       cipher_suites |-> [i \in 1 .. (ciphers.len \div 2) |-> Get(ciphers, 2 * i - 2)],
                       extensions    |-> IF Remaining(ext_len) >= 2
                                         THEN Split(extensions, Peek(ext_len))
                                         ELSE Empty]
             answer == ClientHelloParse(b)
             can == ClientHelloCanParse(b)
  <1>1. answer = IF ~can THEN Answer("none", 0)
                 ELSE IF Get(b, 0) \notin ProtocolVersions THEN Answer("drop", 2)
                 ELSE IF Overrun(end) \/ ciphers.len % 2 = 1 THEN Answer("panic", end.pos)
                 ELSE Found(value, end.pos)
    BY Zenon DEF ClientHelloParse
  <1>2. can <=> /\ b.len >= 35
                /\ b.len >= sid + 2
                /\ b.len >= ciph + 1
                /\ b.len >= comp
                /\ b.len >= comp + 2 => b.len >= comp + 2 + Get(b, comp)
    BY DEF ClientHelloCanParse
  <1>3. b.len \in Nat /\ \A p \in Nat : Get(b, p) \in Nat
    BY DEF Numeric
  <1> HIDE DEF answer, can, value
  <1>4. CASE ~can
    <2>1. answer = Answer("none", 0)
      BY <1>1, <1>4
    <2> QED
      BY <1>3, <1>4, <2>1 DEF Answer, answer, can
  <1>5. CASE can
    <2> DEFINE g34 == Get(b, 34)
               gsid == Get(b, sid)
               gciph == Get(b, ciph)
               gcomp == Get(b, comp)
    <2>1. /\ g34 \in Nat /\ sid \in Nat /\ gsid \in Nat /\ ciph \in Nat
          /\ gciph \in Nat /\ comp \in Nat /\ gcomp \in Nat
          /\ sid = 35 + g34 /\ ciph = sid + 2 + gsid /\ comp = ciph + 1 + gciph
      <3>1. g34 \in Nat
        BY <1>3
      <3>2. sid \in Nat
        BY <3>1
      <3> HIDE DEF sid
      <3>3. gsid \in Nat
        BY <1>3, <3>2
      <3>4. ciph \in Nat
        BY <3>2, <3>3
      <3> HIDE DEF ciph
      <3>5. gciph \in Nat
        BY <1>3, <3>4
      <3>6. comp \in Nat
        BY <3>4, <3>5
      <3> HIDE DEF comp
      <3>7. gcomp \in Nat
        BY <1>3, <3>6
      <3> QED
        BY <3>1, <3>2, <3>3, <3>4, <3>5, <3>6, <3>7 DEF sid, ciph, comp
    <2>2. /\ b.len >= 35 /\ b.len >= sid + 2 /\ b.len >= ciph + 1 /\ b.len >= comp
          /\ b.len >= comp + 2 => b.len >= comp + 2 + gcomp
      BY <1>2, <1>5
    <2>3. Peek(At(b, 34)) = g34 /\ Peek(At(b, sid)) = gsid /\ Peek(At(b, ciph)) = gciph
          /\ Peek(At(b, comp)) = gcomp
      BY AtCursor
    <2> HIDE DEF sid, ciph, comp, g34, gsid, gciph, gcomp
    <2>4. random = At(b, 2)
      <3>1. Skip(At(b, 0), 2) = At(b, 0 + 2)
        BY SkipMoves
      <3> QED
        BY <3>1, AtCursor
    <2> HIDE DEF random
    <2>5. sid_len = At(b, 34)
      <3>1. Skip(At(b, 2), 32) = At(b, 2 + 32)
        BY SkipMoves
      <3> QED
        BY <2>4, <3>1
    <2> HIDE DEF sid_len
    <2>6. session_id = At(b, 35)
      <3>1. Skip(At(b, 34), 1) = At(b, 34 + 1)
        BY SkipMoves
      <3> QED
        BY <2>5, <3>1
    <2> HIDE DEF session_id
    <2>7. c_len = At(b, sid)
      <3>1. Skip(At(b, 35), g34) = At(b, 35 + g34)
        BY SkipMoves
      <3> QED
        BY <2>1, <2>3, <2>5, <2>6, <3>1
    <2> HIDE DEF c_len
    <2>8. suites = At(b, sid + 2)
      BY <2>7, SkipMoves
    <2>9. ciphers = SubBlock(b, sid + 2, gsid) /\ ciphers.len = gsid
      BY <2>3, <2>7, <2>8, AtCursor
    <2> HIDE DEF suites, ciphers
    <2>10. cmp_len = At(b, ciph)
      <3>1. (sid + 2) + gsid = ciph
        BY <2>1
      <3>2. Skip(At(b, sid + 2), gsid) = At(b, (sid + 2) + gsid)
        BY SkipMoves
      <3> QED
        BY <2>3, <2>7, <2>8, <3>1, <3>2
    <2> HIDE DEF cmp_len
    <2>11. ext_len = At(b, comp)
      <3>1. (ciph + 1) + gciph = comp
        BY <2>1
      <3>2. Skip(At(b, ciph), 1) = At(b, ciph + 1)
        BY SkipMoves
      <3>3. Skip(At(b, ciph + 1), gciph) = At(b, (ciph + 1) + gciph)
        BY SkipMoves
      <3> QED
        BY <2>3, <2>10, <3>1, <3>2, <3>3
    <2> HIDE DEF ext_len
    <2>12. ~Overrun(end) /\ end.pos \in Nat /\ end.pos <= b.len
      <3>1. CASE Remaining(ext_len) >= 2
        <4>1. b.len - comp >= 2
          BY <2>11, <3>1, AtCursor
        <4>2. /\ comp + 2 \in Nat /\ comp + 2 <= b.len
              /\ (comp + 2) + gcomp <= b.len /\ (comp + 2) + gcomp \in Nat
          BY <1>3, <2>1, <2>2, <4>1
        <4>3. extensions = At(b, comp + 2)
          BY <2>11, SkipMoves
        <4>4. Skip(At(b, comp + 2), gcomp) = At(b, (comp + 2) + gcomp)
          BY SkipMoves
        <4> HIDE DEF extensions
        <4>5. end = At(b, (comp + 2) + gcomp)
          BY <2>3, <2>11, <3>1, <4>3, <4>4
        <4> HIDE DEF end
        <4> QED
          BY <1>3, <4>2, <4>5, AtCursor
      <3>2. CASE ~(Remaining(ext_len) >= 2)
        <4>1. end = At(b, comp)
          BY <2>11, <3>2
        <4> HIDE DEF end
        <4> QED
          BY <1>3, <2>1, <2>2, <4>1, AtCursor
      <3> QED
        BY <3>1, <3>2
    <2> HIDE DEF end
    <2>13. answer = IF Get(b, 0) \notin ProtocolVersions THEN Answer("drop", 2)
                    ELSE IF gsid % 2 = 1 THEN Answer("panic", end.pos)
                    ELSE Found(value, end.pos)
      BY <1>1, <1>5, <2>9, <2>12
    <2>14. value = ClientValue(b)
      <3> DEFINE list == SubBlock(b, sid + 2, gsid)
                 ours == [i \in 1 .. (gsid \div 2) |-> Get(list, 2 * i - 2)]
                 x == IF b.len - comp >= 2 THEN SubBlock(b, comp + 2, gcomp) ELSE Empty
      <3>1. Peek(random) = Get(b, 2) /\ Split(session_id, Peek(sid_len)) = SubBlock(b, 35, g34)
        BY <2>3, <2>4, <2>5, <2>6, AtCursor
      <3>2. [i \in 1 .. (ciphers.len \div 2) |-> Get(ciphers, 2 * i - 2)] = ours
        BY <2>9
      <3>3. (IF Remaining(ext_len) >= 2 THEN Split(extensions, Peek(ext_len)) ELSE Empty) = x
        <4>1. extensions = At(b, comp + 2)
          BY <2>11, SkipMoves
        <4> HIDE DEF extensions
        <4> QED
          BY <2>3, <2>11, <4>1, AtCursor
      <3>4. ClientValue(b) = [type |-> ClientType, random |-> Get(b, 2),
                              session_id |-> SubBlock(b, 35, g34), cipher_suites |-> ours,
                              extensions |-> x]
        BY DEF ClientValue, sid, ciph, comp, g34, gsid, gciph, gcomp
      <3> HIDE DEF ours, x, extensions
      <3> QED
        BY <3>1, <3>2, <3>3, <3>4 DEF value
    <2>15. /\ answer.result = "panic" <=> Get(b, 0) \in ProtocolVersions /\ gsid % 2 = 1
           /\ answer.result # "none" /\ answer.used \in Nat /\ answer.used <= b.len
           /\ answer.result = "some" <=> Get(b, 0) \in ProtocolVersions /\ gsid % 2 # 1
           /\ answer.result = "some" => answer.value = value
      <3>1. b.len \in Nat /\ 2 <= b.len
        BY <1>3, <2>2
      <3>2. CASE Get(b, 0) \notin ProtocolVersions
        <4>1. answer = Answer("drop", 2)
          BY <2>13, <3>2
        <4> QED
          BY <3>1, <3>2, <4>1 DEF Answer
      <3>3. CASE Get(b, 0) \in ProtocolVersions /\ gsid % 2 = 1
        <4>1. answer = Answer("panic", end.pos)
          BY <2>13, <3>3
        <4> QED
          BY <2>12, <3>3, <4>1 DEF Answer
      <3>4. CASE Get(b, 0) \in ProtocolVersions /\ ~(gsid % 2 = 1)
        <4>1. answer = Found(value, end.pos)
          BY <2>13, <3>4
        <4> QED
          BY <2>12, <3>4, <4>1 DEF Found
      <3> QED
        BY <3>2, <3>3, <3>4
    <2> QED
      BY <1>5, <2>14, <2>15 DEF answer, can, gsid, sid
  <1> QED
    BY <1>4, <1>5, SMTT(30)

\* Where a ServerHello ends, and what ServerHello::parse makes of it.
ServerFixed(b) == 38 + Get(b, 34)
ServerEnd(b) ==
    IF b.len >= ServerFixed(b) + 2 THEN ServerFixed(b) + 2 + Get(b, ServerFixed(b)) ELSE ServerFixed(b)
ServerValue(b) ==
    [type         |-> ServerType,
     random       |-> Get(b, 2),
     session_id   |-> SubBlock(b, 35, Get(b, 34)),
     cipher_suite |-> Get(b, 35 + Get(b, 34)),
     extensions   |-> IF b.len >= ServerFixed(b) + 2
                      THEN SubBlock(b, ServerFixed(b) + 2, Get(b, ServerFixed(b)))
                      ELSE Empty]

\* ServerHello::parse, for every byte string: it never reads past the message it
\* measured and cut off, takes no more than there is, and reads each field behind
\* its length.
THEOREM ServerHelloStaysInside ==
    ASSUME NEW b, Numeric(b)
    PROVE  LET answer == ServerHelloParse(b)
           IN  /\ answer.result # "panic"
               /\ answer.used \in Nat /\ answer.used <= b.len
               /\ answer.result = "some" <=>
                     b.len >= 35 /\ b.len >= ServerEnd(b) /\ Get(b, 0) \in ProtocolVersions
               /\ answer.result = "some" => answer.value = ServerValue(b)
  <1> DEFINE fixed == 34 + 1 + Get(b, 34) + 3
             offset == IF b.len >= fixed + 2 THEN fixed + 2 + Get(b, fixed) ELSE fixed
             msg == Prefix(b, offset)
             random == Skip(Cursor(msg), 2)
             sid_len == Skip(random, 32)
             session_id == Skip(sid_len, 1)
             suite == Skip(session_id, Peek(sid_len))
             ext_len == Skip(Skip(suite, 2), 1)
             extensions == Skip(ext_len, 2)
             end == IF Remaining(ext_len) >= 2 THEN Skip(extensions, Peek(ext_len)) ELSE ext_len
             value == [type         |-> ServerType,
                       random       |-> Peek(random),
                       session_id   |-> Split(session_id, Peek(sid_len)),
                       cipher_suite |-> Peek(suite),
                       extensions   |-> IF Remaining(ext_len) >= 2
                                        THEN Split(extensions, Peek(ext_len))
                                        ELSE Empty]
             answer == ServerHelloParse(b)
  <1>1. answer = IF b.len < 35 \/ b.len < offset THEN Answer("none", 0)
                 ELSE IF Get(b, 0) \notin ProtocolVersions THEN Answer("drop", offset)
                 ELSE IF Overrun(end) THEN Answer("panic", offset)
                 ELSE Found(value, offset)
    BY DEF ServerHelloParse
  <1>2. b.len \in Nat /\ \A p \in Nat : Get(b, p) \in Nat
    BY DEF Numeric
  <1> DEFINE g34 == Get(b, 34)
             gext == Get(b, fixed)
  <1>3. /\ g34 \in Nat /\ fixed \in Nat /\ gext \in Nat /\ offset \in Nat
        /\ fixed = 38 + g34
        /\ offset = IF b.len >= fixed + 2 THEN fixed + 2 + gext ELSE fixed
    <2>1. g34 \in Nat
      BY <1>2
    <2>2. fixed \in Nat /\ fixed = 38 + g34
      BY <2>1
    <2> HIDE DEF fixed
    <2>3. gext \in Nat
      BY <1>2, <2>2
    <2> QED
      BY <1>2, <2>1, <2>2, <2>3
  <1>0. fixed = ServerFixed(b) /\ offset = ServerEnd(b)
    <2>1. fixed = ServerFixed(b)
      BY <1>3 DEF ServerFixed
    <2> HIDE DEF fixed
    <2> QED
      BY <2>1 DEF ServerEnd
  <1> HIDE DEF answer, value
  <1>4. CASE b.len < 35 \/ b.len < offset
    <2>1. answer = Answer("none", 0)
      BY <1>1, <1>4
    <2>2. answer.result = "none" /\ answer.used = 0
      BY <2>1 DEF Answer
    <2> HIDE DEF offset
    <2>3. ~(b.len >= 35 /\ b.len >= ServerEnd(b))
      BY <1>0, <1>2, <1>3, <1>4
    <2> QED
      BY <1>2, <2>2, <2>3 DEF answer
  <1>5. CASE ~(b.len < 35 \/ b.len < offset)
    <2>1. offset <= b.len /\ fixed <= offset
      BY <1>2, <1>3, <1>5
    <2>2. /\ msg.len = offset
          /\ \A p \in Nat : p < offset => Get(msg, p) = Get(b, p)
      BY <1>3, PrefixReads
    <2> HIDE DEF msg
    <2>3. Peek(At(msg, 34)) = g34
      <3>1. 34 < offset
        BY <1>3, <2>1
      <3> QED
        BY <2>2, <3>1, AtCursor
    <2> HIDE DEF fixed, offset, g34, gext
    <2>4. msg.len \in Nat /\ 38 + g34 <= msg.len
      BY <1>3, <2>1, <2>2
    <2>5. random = At(msg, 2)
      <3>1. Skip(At(msg, 0), 2) = At(msg, 0 + 2)
        BY SkipMoves
      <3> QED
        BY <3>1, AtCursor
    <2> HIDE DEF random
    <2>6. sid_len = At(msg, 34)
      <3>1. Skip(At(msg, 2), 32) = At(msg, 2 + 32)
        BY SkipMoves
      <3> QED
        BY <2>5, <3>1
    <2> HIDE DEF sid_len
    <2>7. session_id = At(msg, 35)
      <3>1. Skip(At(msg, 34), 1) = At(msg, 34 + 1)
        BY SkipMoves
      <3> QED
        BY <2>6, <3>1
    <2> HIDE DEF session_id
    <2>8. suite = At(msg, 35 + g34)
      <3>1. Skip(At(msg, 35), g34) = At(msg, 35 + g34)
        BY SkipMoves
      <3> QED
        BY <2>3, <2>6, <2>7, <3>1
    <2> HIDE DEF suite
    <2>9. ext_len = At(msg, fixed)
      <3>1. ((35 + g34) + 2) + 1 = fixed
        BY <1>3
      <3>2. Skip(At(msg, 35 + g34), 2) = At(msg, (35 + g34) + 2)
        BY SkipMoves
      <3>3. Skip(At(msg, (35 + g34) + 2), 1) = At(msg, ((35 + g34) + 2) + 1)
        BY SkipMoves
      <3> QED
        BY <2>8, <3>1, <3>2, <3>3
    <2> HIDE DEF ext_len
    <2>10. ~Overrun(end)
      <3>1. CASE Remaining(ext_len) >= 2
        <4>1. msg.len - fixed >= 2
          BY <2>9, <3>1, AtCursor
        <4>2. /\ offset = fixed + 2 + gext /\ fixed < offset /\ fixed + 2 \in Nat
              /\ fixed + 2 <= msg.len /\ (fixed + 2) + gext <= msg.len
          BY <1>2, <1>3, <2>2, <4>1
        <4>3. Peek(At(msg, fixed)) = gext
          BY <1>3, <2>2, <4>2, AtCursor DEF gext
        <4>4. extensions = At(msg, fixed + 2)
          BY <2>9, SkipMoves
        <4>5. Skip(At(msg, fixed + 2), gext) = At(msg, (fixed + 2) + gext)
          BY SkipMoves
        <4> HIDE DEF extensions
        <4>6. end = At(msg, (fixed + 2) + gext)
          BY <2>9, <3>1, <4>3, <4>4, <4>5
        <4> HIDE DEF end
        <4> QED
          BY <1>3, <2>4, <4>2, <4>6, AtCursor
      <3>2. CASE ~(Remaining(ext_len) >= 2)
        <4>1. end = At(msg, fixed)
          BY <2>9, <3>2
        <4> HIDE DEF end
        <4> QED
          BY <1>3, <2>1, <2>2, <4>1, AtCursor
      <3> QED
        BY <3>1, <3>2
    <2> HIDE DEF end
    <2>11. answer = IF Get(b, 0) \notin ProtocolVersions THEN Answer("drop", offset)
                    ELSE Found(value, offset)
      BY <1>1, <1>5, <2>10
    <2>12. /\ answer.result # "panic" /\ answer.used = offset
           /\ answer.result = "some" <=> Get(b, 0) \in ProtocolVersions
           /\ answer.result = "some" => answer.value = value
      BY <2>11 DEF Answer, Found
    <2>13. value = ServerValue(b)
      <3> DEFINE x == IF b.len >= fixed + 2 THEN SubBlock(b, fixed + 2, gext) ELSE Empty
      <3>1. 2 < offset /\ 35 + g34 < offset /\ 35 + g34 <= offset /\ 35 + g34 \in Nat
        BY <1>3, <2>1
      <3>2. Peek(random) = Get(b, 2) /\ Peek(suite) = Get(b, 35 + g34)
        BY <2>2, <2>5, <2>8, <3>1, AtCursor
      <3>3. Split(session_id, Peek(sid_len)) = SubBlock(b, 35, g34)
        <4>1. SubBlock(msg, 35, g34) = SubBlock(b, 35, g34)
          BY <1>3, <3>1, PrefixPart DEF msg
        <4> QED
          BY <2>3, <2>6, <2>7, <4>1, AtCursor
      <3>4. (IF Remaining(ext_len) >= 2 THEN Split(extensions, Peek(ext_len)) ELSE Empty) = x
        <4>1. Remaining(ext_len) >= 2 <=> b.len >= fixed + 2
          <5>1. Remaining(ext_len) = msg.len - fixed
            BY <2>9, AtCursor
          <5> QED
            BY <1>2, <1>3, <2>1, <2>2, <5>1
        <4>2. ASSUME b.len >= fixed + 2
              PROVE  Split(extensions, Peek(ext_len)) = SubBlock(b, fixed + 2, gext)
          <5>1. offset = fixed + 2 + gext /\ fixed < offset /\ fixed + 2 \in Nat
                /\ (fixed + 2) + gext <= offset
            BY <1>3, <4>2
          <5>2. Peek(At(msg, fixed)) = gext
            BY <1>3, <2>2, <5>1, AtCursor DEF gext
          <5>3. extensions = At(msg, fixed + 2)
            BY <2>9, SkipMoves
          <5>4. SubBlock(msg, fixed + 2, gext) = SubBlock(b, fixed + 2, gext)
            BY <1>3, <5>1, PrefixPart DEF msg
          <5> HIDE DEF extensions
          <5> QED
            BY <2>9, <5>2, <5>3, <5>4, AtCursor
        <4> HIDE DEF extensions
        <4> QED
          BY <4>1, <4>2
      <3>5. ServerValue(b) = [type |-> ServerType, random |-> Get(b, 2),
                              session_id |-> SubBlock(b, 35, g34), cipher_suite |-> Get(b, 35 + g34),
                              extensions |-> x]
        BY <1>0 DEF ServerValue, g34, gext
      <3> HIDE DEF x, extensions
      <3> QED
        BY <3>2, <3>3, <3>4, <3>5 DEF value
    <2>14. b.len >= 35 /\ b.len >= offset
      BY <1>2, <1>3, <1>5
    <2> QED
      BY <1>0, <1>3, <2>1, <2>12, <2>13, <2>14 DEF answer
  <1> QED
    BY <1>4, <1>5, SMTT(30)

-----------------------------------------------------------------------------
(***************************************************************************)
(* The key share.                                                          *)
(***************************************************************************)

\* The sets of positions, as bounds.
LEMMA Ranges ==
    /\ \A p : p \in Positions <=> p \in Int /\ 0 <= p /\ p <= 767
    /\ \A p : p \in PackedOffsets <=> p \in Int /\ 0 <= p /\ p <= 1151
    /\ \A p : p \in TailOffsets <=> p \in Int /\ 0 <= p /\ p <= 63
    /\ \A p : p \in ShareOffsets <=> p \in Int /\ 0 <= p /\ p <= 1215
    /\ \A v : v \in Reduced <=> v \in Int /\ 0 <= v /\ v <= 3328
    /\ \A v : v \in Byte <=> v \in Int /\ 0 <= v /\ v <= 255
    /\ T_HAT_LEN = 1152
<1>1. K * N = 768 /\ T_HAT_LEN = 1152 /\ X25519_MLKEM768_SHARE_LEN = 1216
      /\ RHO_LEN = 32 /\ X25519_PK_LEN = 32 /\ Q = 3329
  BY DEF Q, K, N, T_HAT_LEN, RHO_LEN, X25519_PK_LEN, X25519_MLKEM768_SHARE_LEN
<1>3. \A p : p \in Positions <=> p \in Int /\ 0 <= p /\ p <= 767
  BY <1>1 DEF Positions
<1>4. \A p : p \in PackedOffsets <=> p \in Int /\ 0 <= p /\ p <= 1151
  BY <1>1, SMTT(30) DEF PackedOffsets
<1>5. \A p : p \in TailOffsets <=> p \in Int /\ 0 <= p /\ p <= 63
  BY <1>1 DEF TailOffsets
<1>6. \A p : p \in ShareOffsets <=> p \in Int /\ 0 <= p /\ p <= 1215
  BY <1>1, SMTT(30) DEF ShareOffsets
<1>7. \A v : v \in Reduced <=> v \in Int /\ 0 <= v /\ v <= 3328
  <2>1. Q - 1 = 3328 /\ Q - 1 \in Int
    BY <1>1
  <2>2. Reduced = {v \in Int : 0 <= v /\ v <= Q - 1}
    BY <2>1 DEF Reduced
  <2> QED BY <2>1, <2>2
<1>8. \A v : v \in Byte <=> v \in Int /\ 0 <= v /\ v <= 255
  BY DEF Byte
<1> QED BY <1>1, <1>3, <1>4, <1>5, <1>6, <1>7, <1>8

\* What is sampled is reduced.
LEMMA CoefficientsReduced ==
    ASSUME NEW coeffs \in Coefficients, NEW p \in Positions
    PROVE  coeffs[p] \in Reduced
<1>1. SampledCoefficients \subseteq Reduced
  BY DEF SampledCoefficients
<1> QED BY <1>1 DEF Coefficients

\* Three bytes hold two 12-bit numbers.
LEMMA PairSurvives ==
    ASSUME NEW a \in Reduced, NEW b \in Reduced
    PROVE  /\ \A r \in 0 .. 2 : PackedByte(a, b, r) \in Byte
           /\ Unpacked(PackedByte(a, b, 0), PackedByte(a, b, 1), PackedByte(a, b, 2), 0) = a
           /\ Unpacked(PackedByte(a, b, 0), PackedByte(a, b, 1), PackedByte(a, b, 2), 1) = b
<1>0. a \in Int /\ 0 <= a /\ a <= 3328 /\ b \in Int /\ 0 <= b /\ b <= 3328
  BY Ranges
<1>1. PICK ah \in 0 .. 15, al \in 0 .. 255 : a = 256 * ah + al
  <2>1. a \div 256 \in 0 .. 15 /\ a % 256 \in 0 .. 255 /\ a = 256 * (a \div 256) + (a % 256)
    BY <1>0
  <2> QED BY <2>1
<1>2. PICK bh \in 0 .. 255, bl \in 0 .. 15 : b = 16 * bh + bl
  <2>1. b \div 16 \in 0 .. 255 /\ b % 16 \in 0 .. 15 /\ b = 16 * (b \div 16) + (b % 16)
    BY <1>0
  <2> QED BY <2>1
<1>3. a % 256 = al /\ (a \div 256) % 16 = ah
  BY <1>1
<1>4. b % 16 = bl /\ (b \div 16) % 256 = bh
  BY <1>2
<1>5. (ah + 16 * bl) % 16 = ah /\ (ah + 16 * bl) \div 16 = bl /\ ah + 16 * bl \in 0 .. 255
  OBVIOUS
<1>6. PackedByte(a, b, 0) = al /\ PackedByte(a, b, 1) = ah + 16 * bl /\ PackedByte(a, b, 2) = bh
  BY <1>3, <1>4 DEF PackedByte
<1>7. Unpacked(al, ah + 16 * bl, bh, 0) = a /\ Unpacked(al, ah + 16 * bl, bh, 1) = b
  BY <1>1, <1>2, <1>5 DEF Unpacked
<1>8. \A r \in 0 .. 2 : PackedByte(a, b, r) \in 0 .. 255
  <2>1. \A r \in 0 .. 2 : r = 0 \/ r = 1 \/ r = 2
    OBVIOUS
  <2> QED BY <1>5, <1>6, <2>1
<1> QED BY <1>6, <1>7, <1>8 DEF Byte

\* The packed bytes of a share.
LEMMA ShareBytes ==
    ASSUME NEW coeffs, NEW tail, NEW i \in PackedOffsets
    PROVE  Share(coeffs, tail)[i] = PackedByte(coeffs[2 * (i \div 3)], coeffs[2 * (i \div 3) + 1], i % 3)
<1>1. i \in ShareOffsets /\ i < T_HAT_LEN
  BY Ranges
<1>2. Share(coeffs, tail)[i] = ByteEncode12(coeffs)[i]
  BY <1>1 DEF Share
<1>3. ByteEncode12(coeffs)[i] = PackedByte(coeffs[2 * (i \div 3)], coeffs[2 * (i \div 3) + 1], i % 3)
  BY DEF ByteEncode12
<1> QED BY <1>2, <1>3

\* The three bytes of pair k.
LEMMA ShareTriple ==
    ASSUME NEW coeffs, NEW tail, NEW k \in Int, 0 <= k, k <= 383
    PROVE  /\ Share(coeffs, tail)[3 * k] = PackedByte(coeffs[2 * k], coeffs[2 * k + 1], 0)
           /\ Share(coeffs, tail)[3 * k + 1] = PackedByte(coeffs[2 * k], coeffs[2 * k + 1], 1)
           /\ Share(coeffs, tail)[3 * k + 2] = PackedByte(coeffs[2 * k], coeffs[2 * k + 1], 2)
<1>1. ASSUME NEW i \in PackedOffsets, NEW r, i \div 3 = k, i % 3 = r
      PROVE  Share(coeffs, tail)[i] = PackedByte(coeffs[2 * k], coeffs[2 * k + 1], r)
  BY <1>1, ShareBytes
<1>2. /\ 3 * k \in PackedOffsets /\ (3 * k) \div 3 = k /\ (3 * k) % 3 = 0
      /\ 3 * k + 1 \in PackedOffsets /\ (3 * k + 1) \div 3 = k /\ (3 * k + 1) % 3 = 1
      /\ 3 * k + 2 \in PackedOffsets /\ (3 * k + 2) \div 3 = k /\ (3 * k + 2) % 3 = 2
  BY Ranges
<1> QED BY <1>1, <1>2

\* byte_encode_12 loses nothing: decoding the share gives back the coefficients,
\* in their order.
THEOREM EncodingRoundTrips ==
    ASSUME NEW coeffs \in Coefficients, NEW tail, NEW j \in Positions
    PROVE  ByteDecode12(Share(coeffs, tail))[j] = coeffs[j]
<1> DEFINE s == Share(coeffs, tail)
           k == j \div 2
           a == coeffs[2 * k]
           b == coeffs[2 * k + 1]
<1>1. k \in Int /\ 0 <= k /\ k <= 383
  BY Ranges
<1>2. 2 * k \in Positions /\ 2 * k + 1 \in Positions
  BY <1>1, Ranges
<1>3. a \in Reduced /\ b \in Reduced
  BY <1>2, CoefficientsReduced
<1>4. s[3 * k] = PackedByte(a, b, 0) /\ s[3 * k + 1] = PackedByte(a, b, 1)
      /\ s[3 * k + 2] = PackedByte(a, b, 2)
  <2> HIDE DEF k
  <2> QED BY <1>1, ShareTriple
<1>5. ByteDecode12(s)[j] = Unpacked(s[3 * k], s[3 * k + 1], s[3 * k + 2], j % 2)
  <2> HIDE DEF s
  <2> QED BY DEF ByteDecode12
<1>6. ByteDecode12(s)[j] = Unpacked(PackedByte(a, b, 0), PackedByte(a, b, 1), PackedByte(a, b, 2), j % 2)
  <2> HIDE DEF s, a, b, k
  <2> QED BY <1>4, <1>5
<1>7. (j % 2 = 0 /\ j = 2 * k) \/ (j % 2 = 1 /\ j = 2 * k + 1)
  <2>1. j \in Int
    BY Ranges
  <2>2. \A n \in Int : \/ n % 2 = 0 /\ n = 2 * (n \div 2)
                       \/ n % 2 = 1 /\ n = 2 * (n \div 2) + 1
    OBVIOUS
  <2> QED BY <2>1, <2>2
<1>8. CASE j % 2 = 0 /\ j = 2 * k
  <2>1. ByteDecode12(s)[j] = a
    <3> HIDE DEF s, a, b, k
    <3> QED BY <1>3, <1>6, <1>8, PairSurvives
  <2> QED BY <1>8, <2>1
<1>9. CASE j % 2 = 1 /\ j = 2 * k + 1
  <2>1. ByteDecode12(s)[j] = b
    <3> HIDE DEF s, a, b, k
    <3> QED BY <1>3, <1>6, <1>9, PairSurvives
  <2> QED BY <1>9, <2>1
<1> QED BY <1>7, <1>8, <1>9

\* Whatever was drawn, the share has 1216 bytes and passes the modulus check of its
\* receiver: every coefficient read back from it is below Q.
THEOREM ShareWellFormed ==
    ASSUME NEW coeffs \in Coefficients, NEW tail \in [TailOffsets -> Byte]
    PROVE  WellFormedShare(Share(coeffs, tail))
<1> DEFINE s == Share(coeffs, tail)
<1>1. ASSUME NEW i \in ShareOffsets
      PROVE  s[i] \in Byte
  <2>1. CASE i \notin PackedOffsets
    <3>1. i - T_HAT_LEN \in TailOffsets /\ ~(i < T_HAT_LEN)
      BY <2>1, Ranges
    <3>2. s[i] = tail[i - T_HAT_LEN]
      BY <3>1 DEF Share
    <3> QED BY <3>1, <3>2
  <2>2. CASE i \in PackedOffsets
    <3> DEFINE k == i \div 3
               a == coeffs[2 * k]
               b == coeffs[2 * k + 1]
    <3>1. 2 * k \in Positions /\ 2 * k + 1 \in Positions /\ i % 3 \in 0 .. 2
      BY <2>2, Ranges
    <3>2. a \in Reduced /\ b \in Reduced
      BY <3>1, CoefficientsReduced
    <3>3. s[i] = PackedByte(a, b, i % 3)
      BY <2>2, ShareBytes
    <3> HIDE DEF s, a, b
    <3> QED BY <3>1, <3>2, <3>3, PairSurvives
  <2> QED BY <2>1, <2>2
<1>2. s \in [ShareOffsets -> Byte]
  <2>1. s = [i \in ShareOffsets |-> s[i]]
    BY DEF Share
  <2> HIDE DEF s
  <2> QED BY <1>1, <2>1
<1>3. \A j \in Positions : ByteDecode12(s)[j] \in Reduced
  BY EncodingRoundTrips, CoefficientsReduced
<1> QED BY <1>2, <1>3 DEF WellFormedShare

-----------------------------------------------------------------------------
(***************************************************************************)
(* Byte strings and their concatenation.                                   *)
(***************************************************************************)

\* Blocks of the same length and the same fields are equal.
LEMMA SameBlock ==
    ASSUME NEW a, NEW b, Block(a), Block(b), a.len = b.len, Agree(a, b)
    PROVE  a = b
  <1>1. DOMAIN a.at = DOMAIN b.at
    BY DEF Block, Agree
  <1>2. \A p \in DOMAIN a.at : a.at[p] = b.at[p]
    BY <1>1 DEF Block, Get, Agree
  <1>3. a.at = [p \in DOMAIN a.at |-> a.at[p]] /\ b.at = [p \in DOMAIN b.at |-> b.at[p]]
    BY DEF Block
  <1>4. a.at = b.at
    BY <1>1, <1>2, <1>3
  <1> QED
    BY <1>4 DEF Block

\* What is read of a block is a number.
LEMMA BlockReads ==
    ASSUME NEW b, Block(b)
    PROVE  b.len \in Nat /\ (\A p : Get(b, p) \in Nat) /\ Numeric(b) /\ RecordLike(b)
  <1>1. b.len \in Nat /\ \A p : Get(b, p) \in Nat
    BY DEF Block, Get
  <1> QED
    BY <1>1 DEF Numeric, RecordLike

\* The empty byte string is one of them.
LEMMA EmptyBlock == Block(Empty) /\ Empty.len = 0 /\ DOMAIN Empty.at = {}
  BY DEF Block, Empty

\* A slice.
LEMMA SliceBlock ==
    ASSUME NEW n \in Nat, NEW v \in Nat
    PROVE  /\ Block(Slice(n, v)) /\ Slice(n, v).len = n
           /\ Get(Slice(n, v), 0) = IF n = 0 THEN 0 ELSE v
           /\ \A p \in Nat : p > 0 => Get(Slice(n, v), p) = 0
  <1>1. Min({n, 1}) = IF n = 0 THEN 0 ELSE 1
    BY DEF Min
  <1> DEFINE dom == 0 .. (Min({n, 1}) - 1)
  <1>2. dom = IF n = 0 THEN {} ELSE {0}
    BY <1>1
  <1>3. Slice(n, v) = [len |-> n, at |-> [p \in dom |-> v]]
    BY DEF Slice
  <1> HIDE DEF dom
  <1> QED
    BY <1>2, <1>3 DEF Block, Get

\* The integers.
LEMMA IntegerBlocks ==
    ASSUME NEW v \in Nat
    PROVE  /\ Block(U8(v)) /\ U8(v).len = 1 /\ Get(U8(v), 0) = v % 256
           /\ Block(U16(v)) /\ U16(v).len = 2 /\ Get(U16(v), 0) = v % 65536
           /\ Block(U24(v)) /\ U24(v).len = 3
           /\ v < 256 => v % 256 = v
           /\ v < 65536 => v % 65536 = v
  <1>1. v % 2^8 \in Nat /\ v % 2^16 \in Nat /\ v % 2^24 \in Nat
    OBVIOUS
  <1>2. Block(U8(v)) /\ U8(v).len = 1 /\ Get(U8(v), 0) = v % 2^8
    BY <1>1, SliceBlock DEF U8
  <1>3. Block(U16(v)) /\ U16(v).len = 2 /\ Get(U16(v), 0) = v % 2^16
    BY <1>1, SliceBlock DEF U16
  <1>4. Block(U24(v)) /\ U24(v).len = 3
    BY <1>1, SliceBlock DEF U24
  <1>5. 2^8 = 256 /\ 2^16 = 65536
    OBVIOUS
  <1> QED
    BY <1>2, <1>3, <1>4, <1>5

\* Two blocks, one behind the other.
LEMMA JoinedBlock ==
    ASSUME NEW a, NEW b, Block(a), Block(b)
    PROVE  /\ Block(Joined(a, b)) /\ Joined(a, b).len = a.len + b.len
           /\ \A p \in Nat : p < a.len => Get(Joined(a, b), p) = Get(a, p)
           /\ \A p \in Nat : Get(Joined(a, b), a.len + p) = Get(b, p)
           /\ \A p \in Nat : /\ p < a.len => (p \in DOMAIN Joined(a, b).at <=> p \in DOMAIN a.at)
                             /\ a.len + p \in DOMAIN Joined(a, b).at <=> p \in DOMAIN b.at
  <1> DEFINE dom == DOMAIN a.at \cup {a.len + q : q \in DOMAIN b.at}
             at == [p \in dom |-> IF p < a.len THEN a.at[p] ELSE b.at[p - a.len]]
             j == Joined(a, b)
  <1>1. j.len = a.len + b.len /\ j.at = at /\ j = [len |-> j.len, at |-> j.at]
    BY DEF Joined
  <1>2. /\ a.len \in Nat /\ \A p \in DOMAIN a.at : p \in Nat /\ p < a.len /\ a.at[p] \in Nat
        /\ b.len \in Nat /\ \A p \in DOMAIN b.at : p \in Nat /\ p < b.len /\ b.at[p] \in Nat
    BY DEF Block
  <1> HIDE DEF j
  <1>3. ASSUME NEW p \in Nat, p < a.len
        PROVE  /\ p \in dom <=> p \in DOMAIN a.at
               /\ p \in dom => at[p] = a.at[p]
    BY <1>2, <1>3
  <1>4. ASSUME NEW p \in Nat
        PROVE  /\ a.len + p \in dom <=> p \in DOMAIN b.at
               /\ a.len + p \in dom => at[a.len + p] = b.at[p]
    <2>1. ~(a.len + p < a.len) /\ (a.len + p) - a.len = p
      BY <1>2
    <2>2. a.len + p \notin DOMAIN a.at
      BY <1>2, <2>1
    <2>3. a.len + p \in {a.len + q : q \in DOMAIN b.at} <=> p \in DOMAIN b.at
      BY <1>2
    <2> QED
      BY <2>1, <2>2, <2>3
  <1>5. ASSUME NEW p \in dom PROVE p \in Nat /\ p < a.len + b.len /\ at[p] \in Nat
    <2>1. CASE p \in DOMAIN a.at
      BY <1>2, <1>3, <2>1
    <2>2. CASE p \notin DOMAIN a.at
      <3>1. PICK q \in DOMAIN b.at : p = a.len + q
        BY <2>2
      <3> QED
        BY <1>2, <1>4, <3>1
    <2> QED
      BY <2>1, <2>2
  <1>6. DOMAIN at = dom /\ at = [p \in DOMAIN at |-> at[p]]
    OBVIOUS
  <1> HIDE DEF dom, at
  <1>7. Block(j)
    BY <1>1, <1>2, <1>5, <1>6 DEF Block
  <1>8. ASSUME NEW p \in Nat, p < a.len PROVE Get(j, p) = Get(a, p)
    BY <1>1, <1>3, <1>6, <1>8 DEF Get
  <1>9. ASSUME NEW p \in Nat PROVE Get(j, a.len + p) = Get(b, p)
    BY <1>1, <1>4, <1>6 DEF Get
  <1> QED
    BY <1>1, <1>3, <1>4, <1>6, <1>7, <1>8, <1>9 DEF j

\* A part of a block.
LEMMA PartBlock ==
    ASSUME NEW b, Block(b), NEW from \in Nat, NEW n \in Nat
    PROVE  /\ Block(SubBlock(b, from, n)) /\ SubBlock(b, from, n).len = n
           /\ \A p \in Nat : p < n => Get(SubBlock(b, from, n), p) = Get(b, from + p)
           /\ \A p \in Nat : p >= n => Get(SubBlock(b, from, n), p) = 0
           /\ \A p \in Nat : p \in DOMAIN SubBlock(b, from, n).at <=> p < n /\ from + p \in DOMAIN b.at
  <1> DEFINE dom == {q - from : q \in DOMAIN b.at \cap from .. (from + n - 1)}
             at == [p \in dom |-> b.at[from + p]]
             s == SubBlock(b, from, n)
  <1>1. s.len = n /\ s.at = at /\ s = [len |-> s.len, at |-> s.at]
    BY DEF SubBlock
  <1>2. b.len \in Nat /\ \A p \in DOMAIN b.at : p \in Nat /\ p < b.len /\ b.at[p] \in Nat
    BY DEF Block
  <1> HIDE DEF s
  <1>3. ASSUME NEW p \in Nat
        PROVE  p \in dom <=> p < n /\ from + p \in DOMAIN b.at
    <2>1. ASSUME p \in dom PROVE p < n /\ from + p \in DOMAIN b.at
      <3>1. PICK q \in DOMAIN b.at \cap from .. (from + n - 1) : p = q - from
        BY <2>1
      <3> QED
        BY <3>1
    <2>2. ASSUME p < n, from + p \in DOMAIN b.at PROVE p \in dom
      <3>1. from + p \in from .. (from + n - 1) /\ p = (from + p) - from
        BY <2>2
      <3> QED
        BY <2>2, <3>1
    <2> QED
      BY <2>1, <2>2
  <1>4. ASSUME NEW p \in dom PROVE p \in Nat /\ p < n /\ at[p] = b.at[from + p] /\ at[p] \in Nat
    <2>1. PICK q \in DOMAIN b.at \cap from .. (from + n - 1) : p = q - from
      OBVIOUS
    <2>2. p \in Nat /\ p < n
      BY <2>1
    <2> QED
      BY <1>2, <1>3, <2>2
  <1>5. DOMAIN at = dom /\ at = [p \in DOMAIN at |-> at[p]]
    OBVIOUS
  <1> HIDE DEF dom, at
  <1>6. Block(s)
    BY <1>1, <1>4, <1>5 DEF Block
  <1>7. ASSUME NEW p \in Nat, p < n PROVE Get(s, p) = Get(b, from + p)
    BY <1>1, <1>3, <1>4, <1>5, <1>7 DEF Get
  <1>8. ASSUME NEW p \in Nat, p >= n PROVE Get(s, p) = 0
    BY <1>1, <1>3, <1>5, <1>8 DEF Get
  <1> QED
    BY <1>1, <1>3, <1>5, <1>6, <1>7, <1>8 DEF s

\* A part of two joined blocks that lies within the first or the second is the same
\* part of that block; so is a part of a part.
LEMMA PartOfJoined ==
    ASSUME NEW a, NEW b, Block(a), Block(b), NEW from \in Nat, NEW n \in Nat
    PROVE  /\ from + n <= a.len => SubBlock(Joined(a, b), from, n) = SubBlock(a, from, n)
           /\ SubBlock(Joined(a, b), a.len + from, n) = SubBlock(b, from, n)
  <1> DEFINE j == Joined(a, b)
  <1>1. /\ Block(j)
        /\ \A p \in Nat : p < a.len => Get(j, p) = Get(a, p)
        /\ \A p \in Nat : Get(j, a.len + p) = Get(b, p)
        /\ \A p \in Nat : /\ p < a.len => (p \in DOMAIN j.at <=> p \in DOMAIN a.at)
                          /\ a.len + p \in DOMAIN j.at <=> p \in DOMAIN b.at
    BY JoinedBlock
  <1>2. a.len \in Nat
    BY DEF Block
  <1> HIDE DEF j
  <1>4. ASSUME from + n <= a.len PROVE SubBlock(j, from, n) = SubBlock(a, from, n)
    <2> DEFINE x == SubBlock(j, from, n)
               y == SubBlock(a, from, n)
    <2>1. /\ Block(x) /\ x.len = n
          /\ \A p \in Nat : p < n => Get(x, p) = Get(j, from + p)
          /\ \A p \in Nat : p >= n => Get(x, p) = 0
          /\ \A p \in Nat : p \in DOMAIN x.at <=> p < n /\ from + p \in DOMAIN j.at
      BY <1>1, PartBlock
    <2>2. /\ Block(y) /\ y.len = n
          /\ \A p \in Nat : p < n => Get(y, p) = Get(a, from + p)
          /\ \A p \in Nat : p >= n => Get(y, p) = 0
          /\ \A p \in Nat : p \in DOMAIN y.at <=> p < n /\ from + p \in DOMAIN a.at
      BY PartBlock
    <2> HIDE DEF x, y
    <2>3. ASSUME NEW p \in Nat
          PROVE  (p \in DOMAIN x.at <=> p \in DOMAIN y.at) /\ Get(x, p) = Get(y, p)
      <3>1. CASE p < n
        <4>1. from + p \in Nat /\ from + p < a.len
          BY <1>2, <1>4, <3>1
        <4> QED
          BY <1>1, <2>1, <2>2, <3>1, <4>1
      <3>2. CASE ~(p < n)
        BY <2>1, <2>2, <3>2
      <3> QED
        BY <3>1, <3>2
    <2>4. Agree(x, y)
      BY <2>3 DEF Agree
    <2>5. x = y
      BY <2>1, <2>2, <2>4, SameBlock
    <2> QED
      BY <2>5 DEF x, y
  <1>5. SubBlock(j, a.len + from, n) = SubBlock(b, from, n)
    <2> DEFINE x == SubBlock(j, a.len + from, n)
               y == SubBlock(b, from, n)
    <2>0. a.len + from \in Nat
      BY <1>2
    <2>1. /\ Block(x) /\ x.len = n
          /\ \A p \in Nat : p < n => Get(x, p) = Get(j, (a.len + from) + p)
          /\ \A p \in Nat : p >= n => Get(x, p) = 0
          /\ \A p \in Nat : p \in DOMAIN x.at <=> p < n /\ (a.len + from) + p \in DOMAIN j.at
      BY <1>1, <2>0, PartBlock
    <2>2. /\ Block(y) /\ y.len = n
          /\ \A p \in Nat : p < n => Get(y, p) = Get(b, from + p)
          /\ \A p \in Nat : p >= n => Get(y, p) = 0
          /\ \A p \in Nat : p \in DOMAIN y.at <=> p < n /\ from + p \in DOMAIN b.at
      BY PartBlock
    <2> HIDE DEF x, y
    <2>3. ASSUME NEW p \in Nat
          PROVE  (p \in DOMAIN x.at <=> p \in DOMAIN y.at) /\ Get(x, p) = Get(y, p)
      <3>1. CASE p < n
        <4>1. from + p \in Nat /\ (a.len + from) + p = a.len + (from + p)
          BY <1>2
        <4> QED
          BY <1>1, <2>1, <2>2, <3>1, <4>1
      <3>2. CASE ~(p < n)
        BY <2>1, <2>2, <3>2
      <3> QED
        BY <3>1, <3>2
    <2>4. Agree(x, y)
      BY <2>3 DEF Agree
    <2>5. x = y
      BY <2>1, <2>2, <2>4, SameBlock
    <2> QED
      BY <2>5 DEF x, y
  <1> QED
    BY <1>4, <1>5 DEF j

\* A block is all of itself, and a part of a part is a part.
LEMMA PartOfPart ==
    ASSUME NEW b, Block(b)
    PROVE  /\ SubBlock(b, 0, b.len) = b
           /\ \A from \in Nat, n \in Nat, g \in Nat, m \in Nat : g + m <= n =>
                  SubBlock(SubBlock(b, from, n), g, m) = SubBlock(b, from + g, m)
  <1>1. SubBlock(b, 0, b.len) = b
    <2> DEFINE x == SubBlock(b, 0, b.len)
    <2>1. b.len \in Nat /\ 0 \in Nat /\ \A p \in DOMAIN b.at : p \in Nat /\ p < b.len
      BY DEF Block
    <2>2. /\ Block(x) /\ x.len = b.len
          /\ \A p \in Nat : p < b.len => Get(x, p) = Get(b, 0 + p)
          /\ \A p \in Nat : p >= b.len => Get(x, p) = 0
          /\ \A p \in Nat : p \in DOMAIN x.at <=> p < b.len /\ 0 + p \in DOMAIN b.at
      BY <2>1, PartBlock
    <2> HIDE DEF x
    <2>3. ASSUME NEW p \in Nat
          PROVE  (p \in DOMAIN x.at <=> p \in DOMAIN b.at) /\ Get(x, p) = Get(b, p)
      <3>1. 0 + p = p
        OBVIOUS
      <3>2. p \in DOMAIN x.at <=> p \in DOMAIN b.at
        BY <2>1, <2>2, <3>1
      <3>3. CASE p < b.len
        BY <2>2, <3>1, <3>2, <3>3
      <3>4. CASE ~(p < b.len)
        <4>1. Get(b, p) = 0
          BY <2>1, <3>4 DEF Get
        <4> QED
          BY <2>1, <2>2, <3>2, <3>4, <4>1
      <3> QED
        BY <3>3, <3>4
    <2>4. Agree(x, b)
      BY <2>3 DEF Agree
    <2> QED
      BY <2>2, <2>4, SameBlock DEF x
  <1>2. ASSUME NEW from \in Nat, NEW n \in Nat, NEW g \in Nat, NEW m \in Nat, g + m <= n
        PROVE  SubBlock(SubBlock(b, from, n), g, m) = SubBlock(b, from + g, m)
    <2> DEFINE s == SubBlock(b, from, n)
               x == SubBlock(s, g, m)
               y == SubBlock(b, from + g, m)
    <2>1. /\ Block(s) /\ s.len = n
          /\ \A p \in Nat : p < n => Get(s, p) = Get(b, from + p)
          /\ \A p \in Nat : p >= n => Get(s, p) = 0
          /\ \A p \in Nat : p \in DOMAIN s.at <=> p < n /\ from + p \in DOMAIN b.at
      BY PartBlock
    <2> HIDE DEF s
    <2>2. /\ Block(x) /\ x.len = m
          /\ \A p \in Nat : p < m => Get(x, p) = Get(s, g + p)
          /\ \A p \in Nat : p >= m => Get(x, p) = 0
          /\ \A p \in Nat : p \in DOMAIN x.at <=> p < m /\ g + p \in DOMAIN s.at
      BY <2>1, PartBlock
    <2>3. from + g \in Nat
      OBVIOUS
    <2>4. /\ Block(y) /\ y.len = m
          /\ \A p \in Nat : p < m => Get(y, p) = Get(b, (from + g) + p)
          /\ \A p \in Nat : p >= m => Get(y, p) = 0
          /\ \A p \in Nat : p \in DOMAIN y.at <=> p < m /\ (from + g) + p \in DOMAIN b.at
      BY <2>3, PartBlock
    <2> HIDE DEF x, y
    <2>5. ASSUME NEW p \in Nat
          PROVE  (p \in DOMAIN x.at <=> p \in DOMAIN y.at) /\ Get(x, p) = Get(y, p)
      <3>1. CASE p < m
        <4>1. g + p \in Nat /\ g + p < n /\ (from + g) + p = from + (g + p)
          BY <1>2, <3>1
        <4> QED
          BY <2>1, <2>2, <2>4, <3>1, <4>1
      <3>2. CASE ~(p < m)
        BY <2>2, <2>4, <3>2
      <3> QED
        BY <3>1, <3>2
    <2>6. Agree(x, y)
      BY <2>5 DEF Agree
    <2>7. x = y
      BY <2>2, <2>4, <2>6, SameBlock
    <2> QED
      BY <2>7 DEF x, y, s
  <1> QED
    BY <1>1, <1>2

-----------------------------------------------------------------------------
(* Concatenations. *)

\* A set of natural numbers that is not empty has a least element.
LEMMA LeastElement ==
    ASSUME NEW T \in SUBSET Nat, T # {}
    PROVE  \E x \in T : \A y \in T : x <= y
  <1> DEFINE R == OpToRel(<, Nat)
  <1>1. IsWellFoundedOn(R, Nat)
    BY NatLessThanWellFounded
  <1>2. \A x, y \in Nat : <<x, y>> \in R <=> x < y
    BY DEF OpToRel
  <1> HIDE DEF R
  <1>3. PICK x \in T : \A y \in T : ~(<<y, x>> \in R)
    BY <1>1, WFMin
  <1>4. ASSUME NEW y \in T PROVE x <= y
    <2>1. x \in Nat /\ y \in Nat /\ ~(<<y, x>> \in R)
      BY <1>3
    <2>2. ~(y < x)
      BY <1>2, <2>1
    <2> QED
      BY <2>1, <2>2
  <1> QED
    BY <1>4

\* Induction over the natural numbers, with a set in place of a predicate.
LEMMA SetInduction ==
    ASSUME NEW T, 0 \in T, \A n \in Nat : n \in T => n + 1 \in T
    PROVE  Nat \subseteq T
  <1> SUFFICES ASSUME NEW m \in Nat, m \notin T PROVE FALSE
    OBVIOUS
  <1> DEFINE B == {n \in Nat : n \notin T}
  <1>1. B \in SUBSET Nat /\ B # {}
    OBVIOUS
  <1>2. PICK x \in B : \A y \in B : x <= y
    BY <1>1, LeastElement
  <1>3. x # 0 /\ x \in Nat
    OBVIOUS
  <1>4. x - 1 \in Nat /\ x - 1 \notin B
    BY <1>2, <1>3
  <1>5. x - 1 \in T
    BY <1>4
  <1> QED
    BY <1>3, <1>4, <1>5

\* The greatest element of a set that holds its upper bound.
LEMMA MaxOfSet ==
    ASSUME NEW n \in Nat, NEW s \in SUBSET (1 .. (n + 1)), n + 1 \in s
    PROVE  Max(s) = n + 1
  <1>1. \A y \in s : n + 1 >= y
    OBVIOUS
  <1>2. Max(s) \in s /\ \A y \in s : Max(s) >= y
    BY <1>1, Zenon DEF Max
  <1>3. Max(s) \in 1 .. (n + 1)
    BY <1>2
  <1>4. Max(s) >= n + 1
    BY <1>2
  <1> QED
    BY <1>3, <1>4

\* The function Concat is computed with exists.
LEMMA ConcatIter ==
    ASSUME NEW blocks, NEW n \in Nat
    PROVE  \E h : h = [s \in SUBSET (1 .. n) |->
                         IF s = {} THEN Empty ELSE Joined(h[s \ {Max(s)}], blocks[Max(s)])]
  <1> DEFINE D(k) == SUBSET (1 .. k)
             Good(h, k) == h = [s \in D(k) |->
                         IF s = {} THEN Empty ELSE Joined(h[s \ {Max(s)}], blocks[Max(s)])]
             T == {k \in Nat : \E h : Good(h, k)}
  <1>1. 0 \in T
    <2>1. D(0) = {{}}
      OBVIOUS
    <2>2. Good([s \in D(0) |-> Empty], 0)
      BY <2>1
    <2> QED
      BY <2>2
  <1>2. ASSUME NEW k \in Nat, k \in T PROVE k + 1 \in T
    <2>1. PICK h : Good(h, k)
      BY <1>2
    <2> DEFINE g == [s \in D(k + 1) |-> IF s = {} THEN Empty
                        ELSE IF k + 1 \in s THEN Joined(h[s \ {k + 1}], blocks[k + 1]) ELSE h[s]]
    <2>2. {} \in D(k) /\ h[{}] = Empty
      BY <2>1
    <2>3. ASSUME NEW s \in D(k + 1), s # {}
          PROVE  g[s] = Joined(g[s \ {Max(s)}], blocks[Max(s)])
      <3>1. CASE k + 1 \in s
        <4>1. Max(s) = k + 1
          BY <3>1, MaxOfSet
        <4>2. s \ {k + 1} \in D(k) /\ s \ {k + 1} \in D(k + 1)
          OBVIOUS
        <4>3. g[s \ {k + 1}] = h[s \ {k + 1}]
          BY <2>2, <4>2
        <4> QED
          BY <3>1, <4>1, <4>3
      <3>2. CASE k + 1 \notin s
        <4>1. \A x \in s : x \in 1 .. k
          BY <3>2
        <4>2. s \in D(k) /\ s \ {Max(s)} \in D(k) /\ s \ {Max(s)} \in D(k + 1)
          BY <4>1
        <4>3. g[s] = h[s]
          BY <2>3, <3>2
        <4>4. g[s \ {Max(s)}] = h[s \ {Max(s)}]
          <5>1. CASE s \ {Max(s)} = {}
            BY <2>2, <4>2, <5>1
          <5>2. CASE s \ {Max(s)} # {}
            <6>1. k + 1 \notin s \ {Max(s)}
              BY <3>2
            <6> QED
              BY <4>2, <5>2, <6>1
          <5> QED
            BY <5>1, <5>2
        <4>5. h[s] = Joined(h[s \ {Max(s)}], blocks[Max(s)])
          BY <2>1, <2>3, <4>2
        <4> QED
          BY <4>3, <4>4, <4>5
      <3> QED
        BY <3>1, <3>2
    <2>4. g[{}] = Empty
      OBVIOUS
    <2>5. Good(g, k + 1)
      <3> DEFINE rhs == [s \in D(k + 1) |-> IF s = {} THEN Empty ELSE Joined(g[s \ {Max(s)}], blocks[Max(s)])]
      <3>1. \A s \in D(k + 1) : rhs[s] = g[s]
        BY <2>3, <2>4
      <3>2. g = [s \in D(k + 1) |-> g[s]] /\ rhs = [s \in D(k + 1) |-> rhs[s]]
        OBVIOUS
      <3> HIDE DEF g, rhs
      <3>3. g = rhs
        BY <3>1, <3>2
      <3> QED
        BY <3>3 DEF rhs
    <2> HIDE DEF g, Good
    <2> QED
      BY <2>5
  <1> HIDE DEF T
  <1>3. Nat \subseteq T
    BY <1>1, <1>2, SetInduction
  <1> QED
    BY <1>3 DEF T

\* What is there after each block, at last all of them.
LEMMA ConcatTrace ==
    ASSUME NEW blocks, NEW n \in Nat, DOMAIN blocks = 1 .. n
    PROVE  \E v : /\ v[0] = Empty /\ \A k \in 1 .. n : v[k] = Joined(v[k - 1], blocks[k])
                  /\ Concat(blocks) = v[n]
  <1> DEFINE iter[s \in SUBSET (DOMAIN blocks)] == IF s = {} THEN Empty ELSE Joined(iter[s \ {Max(s)}], blocks[Max(s)])
  <1>1. Concat(blocks) = iter[DOMAIN blocks]
    BY DEF Concat, FoldLeft, MapThenFoldSet
  <1>2. iter = [s \in SUBSET (1 .. n) |->
                         IF s = {} THEN Empty ELSE Joined(iter[s \ {Max(s)}], blocks[Max(s)])]
    <2> DEFINE Good(h) == h = [s \in SUBSET (DOMAIN blocks) |-> IF s = {} THEN Empty ELSE Joined(h[s \ {Max(s)}], blocks[Max(s)])]
    <2>1. \E h : Good(h)
      <3>1. PICK h : h = [s \in SUBSET (1 .. n) |->
                         IF s = {} THEN Empty ELSE Joined(h[s \ {Max(s)}], blocks[Max(s)])]
        BY ConcatIter
      <3>2. Good(h)
        BY <3>1
      <3> QED
        BY <3>2
    <2>2. iter = CHOOSE h : Good(h)
      OBVIOUS
    <2> HIDE DEF Good, iter
    <2>3. Good(iter)
      BY <2>1, <2>2
    <2> QED
      BY <2>3 DEF Good
  <1> HIDE DEF iter
  <1> DEFINE v == [k \in 0 .. n |-> iter[1 .. k]]
  <1>3. v[0] = Empty
    <2>1. 1 .. 0 = {} /\ {} \in SUBSET (1 .. n)
      OBVIOUS
    <2>2. iter[{}] = Empty
      BY <1>2, <2>1
    <2> QED
      BY <2>1, <2>2
  <1>4. ASSUME NEW k \in 1 .. n PROVE v[k] = Joined(v[k - 1], blocks[k])
    <2>1. 1 .. k \in SUBSET (1 .. n) /\ 1 .. k # {} /\ Max(1 .. k) = k
      <3>1. (k - 1) \in Nat /\ (k - 1) + 1 = k /\ k \in 1 .. k
        OBVIOUS
      <3>2. 1 .. k \in SUBSET (1 .. ((k - 1) + 1))
        BY <3>1
      <3>3. Max(1 .. k) = (k - 1) + 1
        BY <3>1, <3>2, MaxOfSet
      <3> QED
        BY <3>1, <3>3
    <2>2. (1 .. k) \ {k} = 1 .. (k - 1)
      OBVIOUS
    <2>3. iter[1 .. k] = Joined(iter[(1 .. k) \ {Max(1 .. k)}], blocks[Max(1 .. k)])
      BY <1>2, <2>1
    <2>4. iter[1 .. k] = Joined(iter[1 .. (k - 1)], blocks[k])
      BY <2>1, <2>2, <2>3
    <2> QED
      BY <2>4
  <1>5. Concat(blocks) = v[n]
    BY <1>1
  <1> HIDE DEF v
  <1> QED
    BY <1>3, <1>4, <1>5

\* What lies in a part lies in the whole.
LEMMA LiesWithin ==
    ASSUME NEW a, NEW b, NEW c, NEW o, NEW q, Block(a), Block(b), Block(c),
           Lies(c, o, b), Lies(b, q, a)
    PROVE  Lies(c, o + q, a)
  <1>1. /\ a.len \in Nat /\ b.len \in Nat /\ c.len \in Nat /\ o \in Nat /\ q \in Nat
        /\ o + b.len <= c.len /\ q + a.len <= b.len
    BY DEF Block, Lies
  <1>2. o + q \in Nat /\ (o + q) + a.len <= c.len
    BY <1>1
  <1>3. ASSUME NEW p \in Nat, p < a.len PROVE Get(c, (o + q) + p) = Get(a, p)
    <2>1. q + p \in Nat /\ q + p < b.len /\ (o + q) + p = o + (q + p)
      BY <1>1, <1>3
    <2>2. Get(b, q + p) = Get(a, p)
      BY <1>3 DEF Lies
    <2>3. Get(c, o + (q + p)) = Get(b, q + p)
      BY <2>1 DEF Lies
    <2> QED
      BY <2>1, <2>2, <2>3
  <1>4. ASSUME NEW from \in Nat, NEW m \in Nat, from + m <= a.len
        PROVE  SubBlock(c, (o + q) + from, m) = SubBlock(a, from, m)
    <2>1. q + from \in Nat /\ (q + from) + m <= b.len /\ (o + q) + from = o + (q + from)
      BY <1>1, <1>4
    <2>2. SubBlock(b, q + from, m) = SubBlock(a, from, m)
      BY <1>4 DEF Lies
    <2>3. SubBlock(c, o + (q + from), m) = SubBlock(b, q + from, m)
      BY <2>1 DEF Lies
    <2> QED
      BY <2>1, <2>2, <2>3
  <1> QED
    BY <1>2, <1>3, <1>4 DEF Lies

\* Both of two joined blocks lie in the result; a part lies in the block it is of;
\* and what lies there can be cut out.
LEMMA LiesJoined ==
    ASSUME NEW a, NEW b, Block(a), Block(b)
    PROVE  Lies(Joined(a, b), 0, a) /\ Lies(Joined(a, b), a.len, b)
  <1> DEFINE j == Joined(a, b)
  <1>1. /\ Block(j) /\ j.len = a.len + b.len
        /\ \A p \in Nat : p < a.len => Get(j, p) = Get(a, p)
        /\ \A p \in Nat : Get(j, a.len + p) = Get(b, p)
    BY JoinedBlock
  <1>2. \A from \in Nat, n \in Nat :
            /\ from + n <= a.len => SubBlock(j, from, n) = SubBlock(a, from, n)
            /\ SubBlock(j, a.len + from, n) = SubBlock(b, from, n)
    BY PartOfJoined
  <1>3. a.len \in Nat /\ b.len \in Nat /\ 0 + a.len <= a.len + b.len
    BY DEF Block
  <1> HIDE DEF j
  <1>4. \A p \in Nat : 0 + p = p
    OBVIOUS
  <1>5. Lies(j, 0, a)
    BY <1>1, <1>2, <1>3, <1>4 DEF Lies
  <1>6. Lies(j, a.len, b)
    BY <1>1, <1>2, <1>3 DEF Lies
  <1> QED
    BY <1>5, <1>6 DEF j

\* A part of a byte string lies in it where it was taken from.
LEMMA LiesPart ==
    ASSUME NEW b, Block(b), NEW from \in Nat, NEW n \in Nat, from + n <= b.len
    PROVE  Lies(b, from, SubBlock(b, from, n))
  <1> DEFINE s == SubBlock(b, from, n)
  <1>1. /\ Block(s) /\ s.len = n
        /\ \A p \in Nat : p < n => Get(s, p) = Get(b, from + p)
        /\ \A p \in Nat : p >= n => Get(s, p) = 0
        /\ \A p \in Nat : p \in DOMAIN s.at <=> p < n /\ from + p \in DOMAIN b.at
    BY PartBlock
  <1>2. ASSUME NEW g \in Nat, NEW m \in Nat, g + m <= n
        PROVE  SubBlock(s, g, m) = SubBlock(b, from + g, m)
    BY <1>2, PartOfPart
  <1> HIDE DEF s
  <1>3. Lies(b, from, s)
    BY <1>1, <1>2 DEF Lies
  <1> QED
    BY <1>3 DEF s

\* What lies in a byte string is what is cut out of it there.
LEMMA CutOut ==
    ASSUME NEW b, NEW c, NEW o, Block(b), Block(c), Lies(c, o, b)
    PROVE  SubBlock(c, o, b.len) = b
  <1>1. b.len \in Nat /\ o \in Nat /\ o + 0 = o /\ 0 + b.len <= b.len
    BY DEF Block, Lies
  <1>2. SubBlock(c, o + 0, b.len) = SubBlock(b, 0, b.len)
    BY <1>1 DEF Lies
  <1> QED
    BY <1>1, <1>2, PartOfPart

\* Concat lays its blocks one behind the other.
LEMMA ConcatLaysOut ==
    ASSUME NEW n \in Nat, NEW blocks, Blocks(blocks, n)
    PROVE  /\ Block(Concat(blocks))
           /\ \E off : /\ Offsets(off, blocks, n) /\ Concat(blocks).len = off[n]
                       /\ LiesAll(Concat(blocks), off, blocks, n)
  <1>1. PICK v : /\ v[0] = Empty /\ \A k \in 1 .. n : v[k] = Joined(v[k - 1], blocks[k])
                 /\ Concat(blocks) = v[n]
    BY ConcatTrace DEF Blocks
  <1> DEFINE off == [k \in 0 .. n |-> v[k].len]
             Stands(k) == Block(v[k]) /\ LiesAll(v[k], off, blocks, k)
             T == {k \in Nat : k <= n => Stands(k)}
  <1>2. 0 \in T
    <2>1. Block(v[0])
      BY <1>1, EmptyBlock
    <2>2. LiesAll(v[0], off, blocks, 0)
      BY DEF LiesAll
    <2> QED
      BY <2>1, <2>2
  <1>3. ASSUME NEW k \in Nat, k \in T PROVE k + 1 \in T
    <2> SUFFICES ASSUME k + 1 <= n PROVE Stands(k + 1)
      OBVIOUS
    <2>1. Stands(k) /\ k + 1 \in 1 .. n /\ (k + 1) - 1 = k /\ k \in 0 .. n
      BY <1>3
    <2>2. v[k + 1] = Joined(v[k], blocks[k + 1]) /\ Block(blocks[k + 1]) /\ Block(v[k])
      BY <1>1, <2>1 DEF Blocks
    <2>3. Block(v[k + 1]) /\ Lies(v[k + 1], 0, v[k]) /\ Lies(v[k + 1], v[k].len, blocks[k + 1])
      BY <2>2, JoinedBlock, LiesJoined
    <2>4. off[k] = v[k].len
      BY <2>1
    <2>5. LiesAll(v[k], off, blocks, k)
      BY <2>1
    <2> HIDE DEF off, Stands, T
    <2>6. ASSUME NEW j \in 1 .. (k + 1) PROVE Lies(v[k + 1], off[j - 1], blocks[j])
      <3>1. CASE j = k + 1
        BY <2>3, <2>4, <3>1, <2>1
      <3>2. CASE j # k + 1
        <4>1. j \in 1 .. k /\ j \in 1 .. n
          BY <2>1, <3>2
        <4>2. Lies(v[k], off[j - 1], blocks[j]) /\ Block(blocks[j])
          BY <2>5, <4>1 DEF LiesAll, Blocks
        <4>3. off[j - 1] \in Nat
          BY <4>2 DEF Lies
        <4>4. Lies(v[k + 1], 0 + off[j - 1], blocks[j])
          BY <2>2, <2>3, <4>2, LiesWithin
        <4>5. 0 + off[j - 1] = off[j - 1]
          BY <4>3
        <4> QED
          BY <4>4, <4>5
      <3> QED
        BY <3>1, <3>2
    <2>7. LiesAll(v[k + 1], off, blocks, k + 1)
      BY <2>6 DEF LiesAll
    <2> QED
      BY <2>3, <2>7 DEF Stands
  <1> HIDE DEF T
  <1>4. Nat \subseteq T
    BY <1>2, <1>3, SetInduction
  <1>5. \A k \in 0 .. n : Stands(k)
    BY <1>4 DEF T
  <1>6. Offsets(off, blocks, n)
    <2>1. ASSUME NEW k \in 0 .. n PROVE off[k] = v[k].len /\ off[k] \in Nat
      BY <1>5 DEF Block
    <2>2. off[0] = 0
      BY <1>1, EmptyBlock
    <2>3. ASSUME NEW k \in 1 .. n PROVE off[k] = off[k - 1] + blocks[k].len
      <3>1. k - 1 \in 0 .. n /\ k \in 0 .. n /\ Block(blocks[k])
        BY DEF Blocks
      <3>2. v[k] = Joined(v[k - 1], blocks[k]) /\ Block(v[k - 1])
        BY <1>1, <1>5, <3>1
      <3>3. v[k].len = v[k - 1].len + blocks[k].len
        BY <3>1, <3>2, JoinedBlock
      <3> QED
        BY <2>1, <3>1, <3>3
    <2> HIDE DEF off
    <2> QED
      BY <2>1, <2>2, <2>3 DEF Offsets
  <1>7. Concat(blocks).len = off[n] /\ n \in 0 .. n
    BY <1>1
  <1>8. Block(Concat(blocks)) /\ LiesAll(Concat(blocks), off, blocks, n)
    BY <1>1, <1>5, <1>7
  <1> HIDE DEF off
  <1> QED
    BY <1>6, <1>7, <1>8

-----------------------------------------------------------------------------
(* Streams of records. *)

\* A stream nothing was written to is framed, with no record in it.
LEMMA FramedEmpty == Framed(Empty, {})
  BY EmptyBlock DEF Framed

\* One record alone is a framed stream, and ends where the record does.
LEMMA FramedRecord ==
    ASSUME NEW r, IsRecord(r)
    PROVE  Framed(r, {r.len})
  <1>1. Block(r) /\ r.len = 5 + Get(r, 3) /\ r.len \in Nat /\ Get(r, 3) \in Nat
    BY BlockReads DEF IsRecord
  <1>2. 0 + 3 = 3 /\ 0 + 5 + Get(r, 3) = r.len /\ 0 < r.len
    BY <1>1
  <1> QED
    BY <1>1, <1>2 DEF Framed

\* Records behind records.
LEMMA FramedJoin ==
    ASSUME NEW s, NEW E, Framed(s, E), NEW r, NEW F, Framed(r, F)
    PROVE  Framed(Joined(s, r), E \cup {s.len + f : f \in F})
  <1> DEFINE j == Joined(s, r)
             G == {s.len + f : f \in F}
             H == E \cup G
             next(b, n) == n + 5 + Get(b, n + 3)
  <1>1. /\ Block(j) /\ j.len = s.len + r.len
        /\ \A p \in Nat : p < s.len => Get(j, p) = Get(s, p)
        /\ \A p \in Nat : Get(j, s.len + p) = Get(r, p)
    BY JoinedBlock DEF Framed
  <1>2. /\ s.len \in Nat /\ \A p : Get(s, p) \in Nat
        /\ r.len \in Nat /\ \A p : Get(r, p) \in Nat
    BY BlockReads DEF Framed
  <1>3. /\ \A n \in E : n \in Nat /\ 0 < n /\ n <= s.len
        /\ s.len \in {0} \cup E
        /\ \A n \in {0} \cup E : n < s.len =>
              next(s, n) \in E /\ \A k \in E : n < k => next(s, n) <= k
    BY DEF Framed
  <1>4. /\ \A n \in F : n \in Nat /\ 0 < n /\ n <= r.len
        /\ r.len \in {0} \cup F
        /\ \A n \in {0} \cup F : n < r.len =>
              next(r, n) \in F /\ \A k \in F : n < k => next(r, n) <= k
    BY DEF Framed
  <1> HIDE DEF j
  <1>5. ASSUME NEW n \in H PROVE n \in Nat /\ 0 < n /\ n <= j.len
    BY <1>1, <1>2, <1>3, <1>4
  <1>6. j.len \in {0} \cup H
    <2>1. CASE r.len = 0
      BY <1>1, <1>2, <1>3, <2>1
    <2>2. CASE r.len # 0
      BY <1>1, <1>4, <2>2
    <2> QED
      BY <2>1, <2>2
  <1>7. ASSUME NEW n \in {0} \cup H, n < j.len
        PROVE  next(j, n) \in H /\ \A k \in H : n < k => next(j, n) <= k
    <2>1. CASE n \in {0} \cup E /\ n < s.len
      <3>1. next(s, n) \in E /\ \A k \in E : n < k => next(s, n) <= k
        BY <1>3, <2>1
      <3>2. n \in Nat /\ next(s, n) <= s.len /\ Get(s, n + 3) \in Nat
        BY <1>2, <1>3, <2>1, <3>1
      <3>3. n + 3 \in Nat /\ n + 3 < s.len
        BY <1>2, <3>2
      <3>4. Get(j, n + 3) = Get(s, n + 3)
        BY <1>1, <3>3
      <3>5. next(j, n) = next(s, n)
        BY <3>4
      <3> HIDE DEF next
      <3>6. ASSUME NEW k \in G PROVE next(s, n) <= k
        BY <1>2, <1>3, <1>4, <3>1, <3>2
      <3> QED
        BY <3>1, <3>5, <3>6
    <2>2. CASE ~(n \in {0} \cup E /\ n < s.len)
      <3>1. PICK f \in {0} \cup F : n = s.len + f
        <4>1. CASE n \in G
          BY <4>1
        <4>2. CASE n \notin G
          <5>1. n \in {0} \cup E /\ n \in Nat /\ n <= s.len
            BY <1>2, <1>3, <4>2
          <5>2. n = s.len + 0
            BY <1>2, <2>2, <5>1
          <5> QED
            BY <5>2
        <4> QED
          BY <4>1, <4>2
      <3>2. f \in Nat /\ f < r.len
        BY <1>1, <1>2, <1>4, <1>7, <3>1
      <3>3. next(r, f) \in F /\ \A k \in F : f < k => next(r, f) <= k
        BY <1>4, <3>2
      <3>4. f + 3 \in Nat /\ n + 3 = s.len + (f + 3) /\ Get(r, f + 3) \in Nat
        BY <1>2, <3>1, <3>2
      <3>5. next(j, n) = s.len + next(r, f)
        BY <1>1, <1>2, <3>1, <3>2, <3>4
      <3>6. next(r, f) \in Nat
        BY <3>2, <3>4
      <3> HIDE DEF next
      <3>7. next(j, n) \in G
        BY <3>3, <3>5
      <3>8. ASSUME NEW k \in H, n < k PROVE next(j, n) <= k
        <4>1. k \notin E
          BY <1>2, <1>3, <3>1, <3>2, <3>8
        <4>2. PICK g \in F : k = s.len + g
          BY <4>1
        <4>3. g \in Nat /\ f < g
          BY <1>2, <1>4, <3>1, <3>2, <3>8, <4>2
        <4>4. next(r, f) <= g
          BY <3>3, <4>3
        <4> QED
          BY <1>2, <3>5, <3>6, <4>2, <4>3, <4>4
      <3> QED
        BY <3>7, <3>8
    <2> QED
      BY <2>1, <2>2
  <1> HIDE DEF H
  <1>8. Framed(j, H)
    BY <1>1, <1>5, <1>6, <1>7 DEF Framed
  <1> QED
    BY <1>8 DEF j, H

\* The first blocks, as they were on the way to all of them.
LEMMA ConcatFirst ==
    ASSUME NEW n \in Nat, NEW blocks, DOMAIN blocks = 1 .. n, NEW v, v[0] = Empty,
           \A k \in 1 .. n : v[k] = Joined(v[k - 1], blocks[k]),
           NEW i \in 1 .. n
    PROVE  Concat(SubSeq(blocks, 1, i)) = v[i]
  <1> DEFINE b == SubSeq(blocks, 1, i)
  <1>1. DOMAIN b = 1 .. i /\ \A k \in 1 .. i : b[k] = blocks[k]
    OBVIOUS
  <1> HIDE DEF b
  <1>2. PICK w : /\ w[0] = Empty /\ \A k \in 1 .. i : w[k] = Joined(w[k - 1], b[k])
                 /\ Concat(b) = w[i]
    <2>1. i \in Nat
      OBVIOUS
    <2> QED
      BY <1>1, <2>1, ConcatTrace
  <1> DEFINE T == {k \in Nat : k <= i => w[k] = v[k]}
  <1>3. 0 \in T
    BY <1>2
  <1>4. ASSUME NEW k \in Nat, k \in T PROVE k + 1 \in T
    <2> SUFFICES ASSUME k + 1 <= i PROVE w[k + 1] = v[k + 1]
      OBVIOUS
    <2>1. k + 1 \in 1 .. i /\ k + 1 \in 1 .. n /\ (k + 1) - 1 = k /\ w[k] = v[k]
      BY <1>4
    <2> HIDE DEF T
    <2>2. w[k + 1] = Joined(w[k], b[k + 1]) /\ v[k + 1] = Joined(v[k], blocks[k + 1])
      BY <1>2, <2>1
    <2> QED
      BY <1>1, <2>1, <2>2
  <1> HIDE DEF T
  <1>5. Nat \subseteq T
    BY <1>3, <1>4, SetInduction
  <1>6. w[i] = v[i]
    BY <1>5 DEF T
  <1> QED
    BY <1>2, <1>6 DEF b

\* A sequence of records is framed by their ends.
LEMMA FramedConcat ==
    ASSUME NEW n \in Nat, NEW records, DOMAIN records = 1 .. n,
           \A i \in 1 .. n : IsRecord(records[i])
    PROVE  Framed(Concat(records), {Concat(SubSeq(records, 1, i)).len : i \in 1 .. n})
  <1>1. PICK v : /\ v[0] = Empty /\ \A k \in 1 .. n : v[k] = Joined(v[k - 1], records[k])
                 /\ Concat(records) = v[n]
    BY ConcatTrace
  <1> DEFINE E(k) == {v[i].len : i \in 1 .. k}
             T == {k \in Nat : k <= n => Framed(v[k], E(k))}
  <1>2. 0 \in T
    <2>1. E(0) = {}
      OBVIOUS
    <2> HIDE DEF E
    <2> QED
      BY <1>1, <2>1, FramedEmpty
  <1>3. ASSUME NEW k \in Nat, k \in T PROVE k + 1 \in T
    <2> SUFFICES ASSUME k + 1 <= n PROVE Framed(v[k + 1], E(k + 1))
      OBVIOUS
    <2> DEFINE r == records[k + 1]
    <2>1. k + 1 \in 1 .. n /\ (k + 1) - 1 = k /\ Framed(v[k], E(k))
      BY <1>3
    <2>2. v[k + 1] = Joined(v[k], r) /\ IsRecord(r)
      BY <1>1, <2>1
    <2>3. v[k + 1].len = v[k].len + r.len
      BY <2>1, <2>2, JoinedBlock DEF IsRecord, Framed
    <2>4. E(k + 1) = E(k) \cup {v[k].len + f : f \in {r.len}}
      <3>1. 1 .. (k + 1) = (1 .. k) \cup {k + 1}
        OBVIOUS
      <3> HIDE DEF r
      <3>2. {v[k].len + f : f \in {r.len}} = {v[k].len + r.len}
        OBVIOUS
      <3> QED
        BY <2>3, <3>1, <3>2
    <2> HIDE DEF E, r, T
    <2>5. Framed(Joined(v[k], r), E(k) \cup {v[k].len + f : f \in {r.len}})
      BY <2>1, <2>2, FramedJoin, FramedRecord
    <2> QED
      BY <2>2, <2>4, <2>5
  <1> HIDE DEF T
  <1>4. Nat \subseteq T
    BY <1>2, <1>3, SetInduction
  <1> HIDE DEF E
  <1>5. Framed(v[n], E(n))
    BY <1>4 DEF T
  <1>6. E(n) = {Concat(SubSeq(records, 1, i)).len : i \in 1 .. n}
    <2>1. \A i \in 1 .. n : Concat(SubSeq(records, 1, i)) = v[i]
      BY <1>1, ConcatFirst
    <2> QED
      BY <2>1 DEF E
  <1> QED
    BY <1>1, <1>5, <1>6

-----------------------------------------------------------------------------
(* Concatenations of a few blocks. *)

\* Where each of three blocks lies.
LEMMA Concat3 ==
    ASSUME NEW x1, NEW x2, NEW x3,
           Block(x1), Block(x2), Block(x3)
    PROVE  /\ Block(Concat(<<x1, x2, x3>>))
           /\ Concat(<<x1, x2, x3>>).len =
                 x1.len + x2.len + x3.len
           /\ Lies(Concat(<<x1, x2, x3>>), 0, x1)
           /\ Lies(Concat(<<x1, x2, x3>>), x1.len, x2)
           /\ Lies(Concat(<<x1, x2, x3>>), x1.len + x2.len, x3)
  <1> DEFINE s == <<x1, x2, x3>>
  <1>1. Blocks(s, 3)
    BY DEF Blocks
  <1>2. s[1] = x1 /\ s[2] = x2 /\ s[3] = x3
    OBVIOUS
  <1>3. x1.len \in Nat /\ x2.len \in Nat /\ x3.len \in Nat
    BY DEF Block
  <1> HIDE DEF s
  <1>4. Block(Concat(s))
    BY <1>1, ConcatLaysOut
  <1>5. PICK off : /\ Offsets(off, s, 3) /\ Concat(s).len = off[3]
                   /\ LiesAll(Concat(s), off, s, 3)
    BY <1>1, ConcatLaysOut
  <1>6. off[0] = 0 /\ off[1] = off[0] + s[1].len /\ off[2] = off[1] + s[2].len
        /\ off[3] = off[2] + s[3].len
    BY <1>5 DEF Offsets
  <1>7. Lies(Concat(s), off[0], s[1]) /\ Lies(Concat(s), off[1], s[2])
        /\ Lies(Concat(s), off[2], s[3])
    BY <1>5 DEF LiesAll
  <1>8. off[1] = x1.len
    BY <1>2, <1>3, <1>6
  <1>9. off[2] = x1.len + x2.len
    BY <1>2, <1>3, <1>6, <1>8
  <1>10. off[3] = x1.len + x2.len + x3.len
    BY <1>2, <1>3, <1>6, <1>9
  <1> QED
    BY <1>2, <1>4, <1>5, <1>6, <1>7, <1>8, <1>9, <1>10
    DEF s

\* Where each of four blocks lies.
LEMMA Concat4 ==
    ASSUME NEW x1, NEW x2, NEW x3, NEW x4,
           Block(x1), Block(x2), Block(x3), Block(x4)
    PROVE  /\ Block(Concat(<<x1, x2, x3, x4>>))
           /\ Concat(<<x1, x2, x3, x4>>).len =
                 x1.len + x2.len + x3.len + x4.len
           /\ Lies(Concat(<<x1, x2, x3, x4>>), 0, x1)
           /\ Lies(Concat(<<x1, x2, x3, x4>>), x1.len, x2)
           /\ Lies(Concat(<<x1, x2, x3, x4>>), x1.len + x2.len, x3)
           /\ Lies(Concat(<<x1, x2, x3, x4>>), x1.len + x2.len + x3.len, x4)
  <1> DEFINE s == <<x1, x2, x3, x4>>
  <1>1. Blocks(s, 4)
    BY DEF Blocks
  <1>2. s[1] = x1 /\ s[2] = x2 /\ s[3] = x3 /\ s[4] = x4
    OBVIOUS
  <1>3. x1.len \in Nat /\ x2.len \in Nat /\ x3.len \in Nat /\ x4.len \in Nat
    BY DEF Block
  <1> HIDE DEF s
  <1>4. Block(Concat(s))
    BY <1>1, ConcatLaysOut
  <1>5. PICK off : /\ Offsets(off, s, 4) /\ Concat(s).len = off[4]
                   /\ LiesAll(Concat(s), off, s, 4)
    BY <1>1, ConcatLaysOut
  <1>6. off[0] = 0 /\ off[1] = off[0] + s[1].len /\ off[2] = off[1] + s[2].len
        /\ off[3] = off[2] + s[3].len /\ off[4] = off[3] + s[4].len
    BY <1>5 DEF Offsets
  <1>7. Lies(Concat(s), off[0], s[1]) /\ Lies(Concat(s), off[1], s[2])
        /\ Lies(Concat(s), off[2], s[3]) /\ Lies(Concat(s), off[3], s[4])
    BY <1>5 DEF LiesAll
  <1>8. off[1] = x1.len
    BY <1>2, <1>3, <1>6
  <1>9. off[2] = x1.len + x2.len
    BY <1>2, <1>3, <1>6, <1>8
  <1>10. off[3] = x1.len + x2.len + x3.len
    BY <1>2, <1>3, <1>6, <1>9
  <1>11. off[4] = x1.len + x2.len + x3.len + x4.len
    BY <1>2, <1>3, <1>6, <1>10
  <1> QED
    BY <1>2, <1>4, <1>5, <1>6, <1>7, <1>8, <1>9, <1>10, <1>11
    DEF s

\* Where each of eight blocks lies.
LEMMA Concat8 ==
    ASSUME NEW x1, NEW x2, NEW x3, NEW x4, NEW x5, NEW x6, NEW x7, NEW x8,
           Block(x1), Block(x2), Block(x3), Block(x4), Block(x5), Block(x6), Block(x7), Block(x8)
    PROVE  /\ Block(Concat(<<x1, x2, x3, x4, x5, x6, x7, x8>>))
           /\ Concat(<<x1, x2, x3, x4, x5, x6, x7, x8>>).len =
                 x1.len + x2.len + x3.len + x4.len + x5.len + x6.len + x7.len + x8.len
           /\ Lies(Concat(<<x1, x2, x3, x4, x5, x6, x7, x8>>), 0, x1)
           /\ Lies(Concat(<<x1, x2, x3, x4, x5, x6, x7, x8>>), x1.len, x2)
           /\ Lies(Concat(<<x1, x2, x3, x4, x5, x6, x7, x8>>), x1.len + x2.len, x3)
           /\ Lies(Concat(<<x1, x2, x3, x4, x5, x6, x7, x8>>), x1.len + x2.len + x3.len, x4)
           /\ Lies(Concat(<<x1, x2, x3, x4, x5, x6, x7, x8>>),
                   x1.len + x2.len + x3.len + x4.len, x5)
           /\ Lies(Concat(<<x1, x2, x3, x4, x5, x6, x7, x8>>),
                   x1.len + x2.len + x3.len + x4.len + x5.len, x6)
           /\ Lies(Concat(<<x1, x2, x3, x4, x5, x6, x7, x8>>),
                   x1.len + x2.len + x3.len + x4.len + x5.len + x6.len, x7)
           /\ Lies(Concat(<<x1, x2, x3, x4, x5, x6, x7, x8>>),
                   x1.len + x2.len + x3.len + x4.len + x5.len + x6.len + x7.len, x8)
  <1> DEFINE s == <<x1, x2, x3, x4, x5, x6, x7, x8>>
  <1>1. Blocks(s, 8)
    BY DEF Blocks
  <1>2. s[1] = x1 /\ s[2] = x2 /\ s[3] = x3 /\ s[4] = x4 /\ s[5] = x5 /\ s[6] = x6 /\ s[7] = x7
        /\ s[8] = x8
    OBVIOUS
  <1>3. x1.len \in Nat /\ x2.len \in Nat /\ x3.len \in Nat /\ x4.len \in Nat /\ x5.len \in Nat
        /\ x6.len \in Nat /\ x7.len \in Nat /\ x8.len \in Nat
    BY DEF Block
  <1> HIDE DEF s
  <1>4. Block(Concat(s))
    BY <1>1, ConcatLaysOut
  <1>5. PICK off : /\ Offsets(off, s, 8) /\ Concat(s).len = off[8]
                   /\ LiesAll(Concat(s), off, s, 8)
    BY <1>1, ConcatLaysOut
  <1>6. off[0] = 0 /\ off[1] = off[0] + s[1].len /\ off[2] = off[1] + s[2].len
        /\ off[3] = off[2] + s[3].len /\ off[4] = off[3] + s[4].len /\ off[5] = off[4] + s[5].len
        /\ off[6] = off[5] + s[6].len /\ off[7] = off[6] + s[7].len /\ off[8] = off[7] + s[8].len
    BY <1>5 DEF Offsets
  <1>7. Lies(Concat(s), off[0], s[1]) /\ Lies(Concat(s), off[1], s[2])
        /\ Lies(Concat(s), off[2], s[3]) /\ Lies(Concat(s), off[3], s[4])
        /\ Lies(Concat(s), off[4], s[5]) /\ Lies(Concat(s), off[5], s[6])
        /\ Lies(Concat(s), off[6], s[7]) /\ Lies(Concat(s), off[7], s[8])
    BY <1>5 DEF LiesAll
  <1>8. off[1] = x1.len
    BY <1>2, <1>3, <1>6
  <1>9. off[2] = x1.len + x2.len
    BY <1>2, <1>3, <1>6, <1>8
  <1>10. off[3] = x1.len + x2.len + x3.len
    BY <1>2, <1>3, <1>6, <1>9
  <1>11. off[4] = x1.len + x2.len + x3.len + x4.len
    BY <1>2, <1>3, <1>6, <1>10
  <1>12. off[5] = x1.len + x2.len + x3.len + x4.len + x5.len
    BY <1>2, <1>3, <1>6, <1>11
  <1>13. off[6] = x1.len + x2.len + x3.len + x4.len + x5.len + x6.len
    BY <1>2, <1>3, <1>6, <1>12
  <1>14. off[7] = x1.len + x2.len + x3.len + x4.len + x5.len + x6.len + x7.len
    BY <1>2, <1>3, <1>6, <1>13
  <1>15. off[8] = x1.len + x2.len + x3.len + x4.len + x5.len + x6.len + x7.len + x8.len
    BY <1>2, <1>3, <1>6, <1>14
  <1> QED
    BY <1>2, <1>4, <1>5, <1>6, <1>7, <1>8, <1>9, <1>10, <1>11, <1>12, <1>13, <1>14, <1>15
    DEF s

\* Where each of ten blocks lies.
LEMMA Concat10 ==
    ASSUME NEW x1, NEW x2, NEW x3, NEW x4, NEW x5, NEW x6, NEW x7, NEW x8, NEW x9, NEW x10,
           Block(x1), Block(x2), Block(x3), Block(x4), Block(x5), Block(x6), Block(x7), Block(x8),
           Block(x9), Block(x10)
    PROVE  /\ Block(Concat(<<x1, x2, x3, x4, x5, x6, x7, x8, x9, x10>>))
           /\ Concat(<<x1, x2, x3, x4, x5, x6, x7, x8, x9, x10>>).len =
                 x1.len + x2.len + x3.len + x4.len + x5.len + x6.len + x7.len + x8.len + x9.len
                 + x10.len
           /\ Lies(Concat(<<x1, x2, x3, x4, x5, x6, x7, x8, x9, x10>>), 0, x1)
           /\ Lies(Concat(<<x1, x2, x3, x4, x5, x6, x7, x8, x9, x10>>), x1.len, x2)
           /\ Lies(Concat(<<x1, x2, x3, x4, x5, x6, x7, x8, x9, x10>>), x1.len + x2.len, x3)
           /\ Lies(Concat(<<x1, x2, x3, x4, x5, x6, x7, x8, x9, x10>>),
                   x1.len + x2.len + x3.len, x4)
           /\ Lies(Concat(<<x1, x2, x3, x4, x5, x6, x7, x8, x9, x10>>),
                   x1.len + x2.len + x3.len + x4.len, x5)
           /\ Lies(Concat(<<x1, x2, x3, x4, x5, x6, x7, x8, x9, x10>>),
                   x1.len + x2.len + x3.len + x4.len + x5.len, x6)
           /\ Lies(Concat(<<x1, x2, x3, x4, x5, x6, x7, x8, x9, x10>>),
                   x1.len + x2.len + x3.len + x4.len + x5.len + x6.len, x7)
           /\ Lies(Concat(<<x1, x2, x3, x4, x5, x6, x7, x8, x9, x10>>),
                   x1.len + x2.len + x3.len + x4.len + x5.len + x6.len + x7.len, x8)
           /\ Lies(Concat(<<x1, x2, x3, x4, x5, x6, x7, x8, x9, x10>>),
                   x1.len + x2.len + x3.len + x4.len + x5.len + x6.len + x7.len + x8.len, x9)
           /\ Lies(Concat(<<x1, x2, x3, x4, x5, x6, x7, x8, x9, x10>>),
                   x1.len + x2.len + x3.len + x4.len + x5.len + x6.len + x7.len + x8.len + x9.len, x10)
  <1> DEFINE s == <<x1, x2, x3, x4, x5, x6, x7, x8, x9, x10>>
  <1>1. Blocks(s, 10)
    BY DEF Blocks
  <1>2. s[1] = x1 /\ s[2] = x2 /\ s[3] = x3 /\ s[4] = x4 /\ s[5] = x5 /\ s[6] = x6 /\ s[7] = x7
        /\ s[8] = x8 /\ s[9] = x9 /\ s[10] = x10
    OBVIOUS
  <1>3. x1.len \in Nat /\ x2.len \in Nat /\ x3.len \in Nat /\ x4.len \in Nat /\ x5.len \in Nat
        /\ x6.len \in Nat /\ x7.len \in Nat /\ x8.len \in Nat /\ x9.len \in Nat /\ x10.len \in Nat
    BY DEF Block
  <1> HIDE DEF s
  <1>4. Block(Concat(s))
    BY <1>1, ConcatLaysOut
  <1>5. PICK off : /\ Offsets(off, s, 10) /\ Concat(s).len = off[10]
                   /\ LiesAll(Concat(s), off, s, 10)
    BY <1>1, ConcatLaysOut
  <1>6. off[0] = 0 /\ off[1] = off[0] + s[1].len /\ off[2] = off[1] + s[2].len
        /\ off[3] = off[2] + s[3].len /\ off[4] = off[3] + s[4].len /\ off[5] = off[4] + s[5].len
        /\ off[6] = off[5] + s[6].len /\ off[7] = off[6] + s[7].len /\ off[8] = off[7] + s[8].len
        /\ off[9] = off[8] + s[9].len /\ off[10] = off[9] + s[10].len
    BY <1>5 DEF Offsets
  <1>7. Lies(Concat(s), off[0], s[1]) /\ Lies(Concat(s), off[1], s[2])
        /\ Lies(Concat(s), off[2], s[3]) /\ Lies(Concat(s), off[3], s[4])
        /\ Lies(Concat(s), off[4], s[5]) /\ Lies(Concat(s), off[5], s[6])
        /\ Lies(Concat(s), off[6], s[7]) /\ Lies(Concat(s), off[7], s[8])
        /\ Lies(Concat(s), off[8], s[9]) /\ Lies(Concat(s), off[9], s[10])
    BY <1>5 DEF LiesAll
  <1>8. off[1] = x1.len
    BY <1>2, <1>3, <1>6
  <1>9. off[2] = x1.len + x2.len
    BY <1>2, <1>3, <1>6, <1>8
  <1>10. off[3] = x1.len + x2.len + x3.len
    BY <1>2, <1>3, <1>6, <1>9
  <1>11. off[4] = x1.len + x2.len + x3.len + x4.len
    BY <1>2, <1>3, <1>6, <1>10
  <1>12. off[5] = x1.len + x2.len + x3.len + x4.len + x5.len
    BY <1>2, <1>3, <1>6, <1>11
  <1>13. off[6] = x1.len + x2.len + x3.len + x4.len + x5.len + x6.len
    BY <1>2, <1>3, <1>6, <1>12
  <1>14. off[7] = x1.len + x2.len + x3.len + x4.len + x5.len + x6.len + x7.len
    BY <1>2, <1>3, <1>6, <1>13
  <1>15. off[8] = x1.len + x2.len + x3.len + x4.len + x5.len + x6.len + x7.len + x8.len
    BY <1>2, <1>3, <1>6, <1>14
  <1>16. off[9] = x1.len + x2.len + x3.len + x4.len + x5.len + x6.len + x7.len + x8.len + x9.len
    BY <1>2, <1>3, <1>6, <1>15
  <1>17. off[10] = x1.len + x2.len + x3.len + x4.len + x5.len + x6.len + x7.len + x8.len + x9.len
                   + x10.len
    BY <1>2, <1>3, <1>6, <1>16
  <1> QED
    BY <1>2, <1>4, <1>5, <1>6, <1>7, <1>8, <1>9, <1>10, <1>11, <1>12, <1>13, <1>14, <1>15, <1>16
       , <1>17
    DEF s

\* Where each of twelve blocks lies.
LEMMA Concat12 ==
    ASSUME NEW x1, NEW x2, NEW x3, NEW x4, NEW x5, NEW x6, NEW x7, NEW x8, NEW x9, NEW x10,
           NEW x11, NEW x12,
           Block(x1), Block(x2), Block(x3), Block(x4), Block(x5), Block(x6), Block(x7), Block(x8),
           Block(x9), Block(x10), Block(x11), Block(x12)
    PROVE  /\ Block(Concat(<<x1, x2, x3, x4, x5, x6, x7, x8, x9, x10, x11, x12>>))
           /\ Concat(<<x1, x2, x3, x4, x5, x6, x7, x8, x9, x10, x11, x12>>).len =
                 x1.len + x2.len + x3.len + x4.len + x5.len + x6.len + x7.len + x8.len + x9.len
                 + x10.len + x11.len + x12.len
           /\ Lies(Concat(<<x1, x2, x3, x4, x5, x6, x7, x8, x9, x10, x11, x12>>), 0, x1)
           /\ Lies(Concat(<<x1, x2, x3, x4, x5, x6, x7, x8, x9, x10, x11, x12>>), x1.len, x2)
           /\ Lies(Concat(<<x1, x2, x3, x4, x5, x6, x7, x8, x9, x10, x11, x12>>),
                   x1.len + x2.len, x3)
           /\ Lies(Concat(<<x1, x2, x3, x4, x5, x6, x7, x8, x9, x10, x11, x12>>),
                   x1.len + x2.len + x3.len, x4)
           /\ Lies(Concat(<<x1, x2, x3, x4, x5, x6, x7, x8, x9, x10, x11, x12>>),
                   x1.len + x2.len + x3.len + x4.len, x5)
           /\ Lies(Concat(<<x1, x2, x3, x4, x5, x6, x7, x8, x9, x10, x11, x12>>),
                   x1.len + x2.len + x3.len + x4.len + x5.len, x6)
           /\ Lies(Concat(<<x1, x2, x3, x4, x5, x6, x7, x8, x9, x10, x11, x12>>),
                   x1.len + x2.len + x3.len + x4.len + x5.len + x6.len, x7)
           /\ Lies(Concat(<<x1, x2, x3, x4, x5, x6, x7, x8, x9, x10, x11, x12>>),
                   x1.len + x2.len + x3.len + x4.len + x5.len + x6.len + x7.len, x8)
           /\ Lies(Concat(<<x1, x2, x3, x4, x5, x6, x7, x8, x9, x10, x11, x12>>),
                   x1.len + x2.len + x3.len + x4.len + x5.len + x6.len + x7.len + x8.len, x9)
           /\ Lies(Concat(<<x1, x2, x3, x4, x5, x6, x7, x8, x9, x10, x11, x12>>),
                   x1.len + x2.len + x3.len + x4.len + x5.len + x6.len + x7.len + x8.len + x9.len, x10)
           /\ Lies(Concat(<<x1, x2, x3, x4, x5, x6, x7, x8, x9, x10, x11, x12>>),
                   x1.len + x2.len + x3.len + x4.len + x5.len + x6.len + x7.len + x8.len + x9.len
                   + x10.len, x11)
           /\ Lies(Concat(<<x1, x2, x3, x4, x5, x6, x7, x8, x9, x10, x11, x12>>),
                   x1.len + x2.len + x3.len + x4.len + x5.len + x6.len + x7.len + x8.len + x9.len
                   + x10.len + x11.len, x12)
  <1> DEFINE s == <<x1, x2, x3, x4, x5, x6, x7, x8, x9, x10, x11, x12>>
  <1>1. Blocks(s, 12)
    BY DEF Blocks
  <1>2. s[1] = x1 /\ s[2] = x2 /\ s[3] = x3 /\ s[4] = x4 /\ s[5] = x5 /\ s[6] = x6 /\ s[7] = x7
        /\ s[8] = x8 /\ s[9] = x9 /\ s[10] = x10 /\ s[11] = x11 /\ s[12] = x12
    OBVIOUS
  <1>3. x1.len \in Nat /\ x2.len \in Nat /\ x3.len \in Nat /\ x4.len \in Nat /\ x5.len \in Nat
        /\ x6.len \in Nat /\ x7.len \in Nat /\ x8.len \in Nat /\ x9.len \in Nat /\ x10.len \in Nat
        /\ x11.len \in Nat /\ x12.len \in Nat
    BY DEF Block
  <1> HIDE DEF s
  <1>4. Block(Concat(s))
    BY <1>1, ConcatLaysOut
  <1>5. PICK off : /\ Offsets(off, s, 12) /\ Concat(s).len = off[12]
                   /\ LiesAll(Concat(s), off, s, 12)
    BY <1>1, ConcatLaysOut
  <1>6. off[0] = 0 /\ off[1] = off[0] + s[1].len /\ off[2] = off[1] + s[2].len
        /\ off[3] = off[2] + s[3].len /\ off[4] = off[3] + s[4].len /\ off[5] = off[4] + s[5].len
        /\ off[6] = off[5] + s[6].len /\ off[7] = off[6] + s[7].len /\ off[8] = off[7] + s[8].len
        /\ off[9] = off[8] + s[9].len /\ off[10] = off[9] + s[10].len
        /\ off[11] = off[10] + s[11].len /\ off[12] = off[11] + s[12].len
    BY <1>5 DEF Offsets
  <1>7. Lies(Concat(s), off[0], s[1]) /\ Lies(Concat(s), off[1], s[2])
        /\ Lies(Concat(s), off[2], s[3]) /\ Lies(Concat(s), off[3], s[4])
        /\ Lies(Concat(s), off[4], s[5]) /\ Lies(Concat(s), off[5], s[6])
        /\ Lies(Concat(s), off[6], s[7]) /\ Lies(Concat(s), off[7], s[8])
        /\ Lies(Concat(s), off[8], s[9]) /\ Lies(Concat(s), off[9], s[10])
        /\ Lies(Concat(s), off[10], s[11]) /\ Lies(Concat(s), off[11], s[12])
    BY <1>5 DEF LiesAll
  <1>8. off[1] = x1.len
    BY <1>2, <1>3, <1>6
  <1>9. off[2] = x1.len + x2.len
    BY <1>2, <1>3, <1>6, <1>8
  <1>10. off[3] = x1.len + x2.len + x3.len
    BY <1>2, <1>3, <1>6, <1>9
  <1>11. off[4] = x1.len + x2.len + x3.len + x4.len
    BY <1>2, <1>3, <1>6, <1>10
  <1>12. off[5] = x1.len + x2.len + x3.len + x4.len + x5.len
    BY <1>2, <1>3, <1>6, <1>11
  <1>13. off[6] = x1.len + x2.len + x3.len + x4.len + x5.len + x6.len
    BY <1>2, <1>3, <1>6, <1>12
  <1>14. off[7] = x1.len + x2.len + x3.len + x4.len + x5.len + x6.len + x7.len
    BY <1>2, <1>3, <1>6, <1>13
  <1>15. off[8] = x1.len + x2.len + x3.len + x4.len + x5.len + x6.len + x7.len + x8.len
    BY <1>2, <1>3, <1>6, <1>14
  <1>16. off[9] = x1.len + x2.len + x3.len + x4.len + x5.len + x6.len + x7.len + x8.len + x9.len
    BY <1>2, <1>3, <1>6, <1>15
  <1>17. off[10] = x1.len + x2.len + x3.len + x4.len + x5.len + x6.len + x7.len + x8.len + x9.len
                   + x10.len
    BY <1>2, <1>3, <1>6, <1>16
  <1>18. off[11] = x1.len + x2.len + x3.len + x4.len + x5.len + x6.len + x7.len + x8.len + x9.len
                   + x10.len + x11.len
    BY <1>2, <1>3, <1>6, <1>17
  <1>19. off[12] = x1.len + x2.len + x3.len + x4.len + x5.len + x6.len + x7.len + x8.len + x9.len
                   + x10.len + x11.len + x12.len
    BY <1>2, <1>3, <1>6, <1>18
  <1> QED
    BY <1>2, <1>4, <1>5, <1>6, <1>7, <1>8, <1>9, <1>10, <1>11, <1>12, <1>13, <1>14, <1>15, <1>16
       , <1>17, <1>18, <1>19
    DEF s

-----------------------------------------------------------------------------
(***************************************************************************)
(* What the writers lay out.                                               *)
(***************************************************************************)

\* What is read of a block that lies in another, and of a single field.
LEMMA LiesReads ==
    ASSUME NEW c, NEW o, NEW b, Lies(c, o, b), NEW p \in Nat, p < b.len
    PROVE  Get(c, o + p) = Get(b, p)
  BY DEF Lies

\* The first field of what lies in a byte string reads the same in both.
LEMMA LiesHead ==
    ASSUME NEW c, NEW o, NEW b, Lies(c, o, b), 0 < b.len
    PROVE  Get(c, o) = Get(b, 0)
  <1>1. o + 0 = o
    BY DEF Lies
  <1> QED
    BY <1>1 DEF Lies

\* A u16 that fits.
LEMMA WordBlock ==
    ASSUME NEW v \in Nat, v < 65536
    PROVE  Block(U16(v)) /\ U16(v).len = 2 /\ Get(U16(v), 0) = v
  BY IntegerBlocks

\* TlsRecord::build: a record, with its type, version and length in front and its
\* payload behind.
LEMMA RecordBlock ==
    ASSUME NEW type \in Nat, type < 256, NEW version \in Nat, version < 65536,
           NEW payload, Block(payload), payload.len < 65536
    PROVE  /\ IsRecord(Record(type, version, payload))
           /\ Record(type, version, payload).len = 5 + payload.len
           /\ Get(Record(type, version, payload), 0) = type
           /\ Get(Record(type, version, payload), 1) = version
           /\ Get(Record(type, version, payload), 3) = payload.len
           /\ Lies(Record(type, version, payload), 5, payload)
  <1> DEFINE r == Concat(<<U8(type), U16(version), U16(payload.len), payload>>)
  <1>1. payload.len \in Nat /\ type \in Nat /\ version \in Nat
    BY DEF Block
  <1>2. /\ Block(U8(type)) /\ U8(type).len = 1 /\ Get(U8(type), 0) = type
        /\ Block(U16(version)) /\ U16(version).len = 2 /\ Get(U16(version), 0) = version
        /\ Block(U16(payload.len)) /\ U16(payload.len).len = 2
        /\ Get(U16(payload.len), 0) = payload.len
    BY <1>1, IntegerBlocks
  <1>3. /\ Block(r)
        /\ r.len = U8(type).len + U16(version).len + U16(payload.len).len + payload.len
        /\ Lies(r, 0, U8(type))
        /\ Lies(r, U8(type).len, U16(version))
        /\ Lies(r, U8(type).len + U16(version).len, U16(payload.len))
        /\ Lies(r, U8(type).len + U16(version).len + U16(payload.len).len, payload)
    BY <1>2, Concat4
  <1>4. Record(type, version, payload) = r
    BY DEF Record
  <1> HIDE DEF r
  <1>5. r.len = 5 + payload.len
    BY <1>1, <1>2, <1>3
  <1>6. Lies(r, 1, U16(version)) /\ Lies(r, 3, U16(payload.len)) /\ Lies(r, 5, payload)
    BY <1>2, <1>3
  <1>7. Get(r, 0) = type /\ Get(r, 1) = version /\ Get(r, 3) = payload.len
    BY <1>2, <1>3, <1>6, LiesHead
  <1> QED
    BY <1>3, <1>4, <1>5, <1>6, <1>7 DEF IsRecord

\* HelloHeader: type, length, body.
LEMMA MessageBlock ==
    ASSUME NEW type \in Nat, type < 256, NEW body, Block(body)
    PROVE  /\ Block(HandshakeMessage(type, body))
           /\ HandshakeMessage(type, body).len = 4 + body.len
           /\ Get(HandshakeMessage(type, body), 0) = type
           /\ Lies(HandshakeMessage(type, body), 4, body)
  <1> DEFINE m == Concat(<<U8(type), U24(body.len), body>>)
  <1>1. body.len \in Nat /\ type \in Nat
    BY DEF Block
  <1>2. /\ Block(U8(type)) /\ U8(type).len = 1 /\ Get(U8(type), 0) = type
        /\ Block(U24(body.len)) /\ U24(body.len).len = 3
    BY <1>1, IntegerBlocks
  <1>3. /\ Block(m)
        /\ m.len = U8(type).len + U24(body.len).len + body.len
        /\ Lies(m, 0, U8(type))
        /\ Lies(m, U8(type).len, U24(body.len))
        /\ Lies(m, U8(type).len + U24(body.len).len, body)
    BY <1>2, Concat3
  <1>4. HandshakeMessage(type, body) = m
    BY DEF HandshakeMessage
  <1> HIDE DEF m
  <1>5. m.len = 4 + body.len
    BY <1>1, <1>2, <1>3
  <1>6. Lies(m, 4, body)
    BY <1>2, <1>3
  <1>7. Get(m, 0) = type
    BY <1>2, <1>3, LiesHead
  <1> QED
    BY <1>3, <1>4, <1>5, <1>6, <1>7

\* add_extension and a share: two integers and the data they announce.
LEMMA EntryBlock ==
    ASSUME NEW t \in Nat, t < 65536, NEW data, Block(data), data.len < 65536
    PROVE  /\ Block(Concat(<<U16(t), U16(data.len), data>>))
           /\ Concat(<<U16(t), U16(data.len), data>>).len = 4 + data.len
           /\ Get(Concat(<<U16(t), U16(data.len), data>>), 0) = t
           /\ Get(Concat(<<U16(t), U16(data.len), data>>), 2) = data.len
           /\ Lies(Concat(<<U16(t), U16(data.len), data>>), 4, data)
  <1> DEFINE r == Concat(<<U16(t), U16(data.len), data>>)
  <1>1. data.len \in Nat /\ t \in Nat
    BY DEF Block
  <1>2. /\ Block(U16(t)) /\ U16(t).len = 2 /\ Get(U16(t), 0) = t
        /\ Block(U16(data.len)) /\ U16(data.len).len = 2 /\ Get(U16(data.len), 0) = data.len
    BY <1>1, IntegerBlocks
  <1>3. /\ Block(r)
        /\ r.len = U16(t).len + U16(data.len).len + data.len
        /\ Lies(r, 0, U16(t))
        /\ Lies(r, U16(t).len, U16(data.len))
        /\ Lies(r, U16(t).len + U16(data.len).len, data)
    BY <1>2, Concat3
  <1> HIDE DEF r
  <1>5. r.len = 4 + data.len
    BY <1>1, <1>2, <1>3
  <1>6. Lies(r, 2, U16(data.len)) /\ Lies(r, 4, data)
    BY <1>2, <1>3
  <1>7. Get(r, 0) = t /\ Get(r, 2) = data.len
    BY <1>2, <1>3, <1>6, LiesHead
  <1> QED
    BY <1>3, <1>5, <1>6, <1>7 DEF r

\* add_extension writes the type, the length of the data, and the data behind them.
LEMMA ExtensionBlock ==
    ASSUME NEW t \in Nat, t < 65536, NEW data, Block(data), data.len < 65536
    PROVE  /\ Block(AddExtension(t, data)) /\ AddExtension(t, data).len = 4 + data.len
           /\ Get(AddExtension(t, data), 0) = t
           /\ Get(AddExtension(t, data), 2) = data.len
           /\ Lies(AddExtension(t, data), 4, data)
  BY EntryBlock DEF AddExtension

\* Offsets two apart.
LEMMA EvenOffsets ==
    ASSUME NEW n \in Nat, NEW off, off[0] = 0, \A k \in 1 .. n : off[k] = off[k - 1] + 2
    PROVE  \A k \in Nat : k <= n => off[k] = 2 * k
  <1> DEFINE T == {k \in Nat : k <= n => off[k] = 2 * k}
  <1>1. 0 \in T
    OBVIOUS
  <1>2. ASSUME NEW k \in Nat, k \in T PROVE k + 1 \in T
    <2> SUFFICES ASSUME k + 1 <= n PROVE off[k + 1] = 2 * (k + 1)
      OBVIOUS
    <2>1. k + 1 \in 1 .. n /\ (k + 1) - 1 = k /\ off[k] = 2 * k
      BY <1>2
    <2> QED
      BY <2>1
  <1> HIDE DEF T
  <1>3. Nat \subseteq T
    BY <1>1, <1>2, SetInduction
  <1> QED
    BY <1>3 DEF T

\* A list of u16 values: the k-th is read at 2k - 2.
LEMMA ValuesBlock ==
    ASSUME NEW n \in Nat, NEW values, Words(values, n)
    PROVE  /\ Block(U16s(values)) /\ U16s(values).len = 2 * n
           /\ \A i \in 1 .. n : Get(U16s(values), 2 * i - 2) = values[i]
  <1> DEFINE s == [i \in DOMAIN values |-> U16(values[i])]
  <1>1. ASSUME NEW i \in 1 .. n
        PROVE  s[i] = U16(values[i]) /\ Block(s[i]) /\ s[i].len = 2 /\ Get(s[i], 0) = values[i]
    <2>1. values[i] \in Nat /\ values[i] < 65536 /\ s[i] = U16(values[i])
      BY DEF Words
    <2> HIDE DEF s
    <2> QED
      BY <2>1, WordBlock
  <1>2. Blocks(s, n)
    BY <1>1 DEF Blocks, Words
  <1>3. U16s(values) = Concat(s)
    BY DEF U16s
  <1> HIDE DEF s
  <1>4. Block(Concat(s))
    BY <1>2, ConcatLaysOut
  <1>5. PICK off : /\ Offsets(off, s, n) /\ Concat(s).len = off[n]
                   /\ LiesAll(Concat(s), off, s, n)
    BY <1>2, ConcatLaysOut
  <1>9. \A k \in Nat : k <= n => off[k] = 2 * k
    <2>1. off[0] = 0 /\ \A k \in 1 .. n : off[k] = off[k - 1] + s[k].len
      BY <1>5 DEF Offsets
    <2>2. \A k \in 1 .. n : off[k] = off[k - 1] + 2
      BY <1>1, <2>1
    <2> QED
      BY <2>1, <2>2, EvenOffsets
  <1>10. ASSUME NEW i \in 1 .. n PROVE Get(Concat(s), 2 * i - 2) = values[i]
    <2>1. off[i - 1] = 2 * i - 2
      <3>1. i - 1 \in Nat /\ i - 1 <= n
        OBVIOUS
      <3> QED
        BY <1>9, <3>1
    <2>2. Lies(Concat(s), off[i - 1], s[i])
      BY <1>5 DEF LiesAll
    <2> QED
      BY <1>1, <2>1, <2>2, LiesHead
  <1> QED
    BY <1>3, <1>4, <1>5, <1>9, <1>10

-----------------------------------------------------------------------------
(* Profiles and GREASE. *)

\* GREASE values are not what a reader looks for.
LEMMA GreaseValues ==
    ASSUME NEW v \in GREASE_VALUES
    PROVE  /\ v \in Nat /\ v < 65536
           /\ v \notin {SNI, KEY_SHARE, SUPPORTED_GROUPS, X25519, X25519_MLKEM768, SECP256R1, SECP521R1}
  <1>1. PICK i \in 0 .. 15 : v = 2570 + i * 4112
    BY DEF GREASE_VALUES
  <1>2. 2570 <= v /\ v <= 64250 /\ v \in Nat
    BY <1>1
  <1>3. v # 4588
    BY <1>1
  <1> QED
    BY <1>2, <1>3 DEF SNI, KEY_SHARE, SUPPORTED_GROUPS, X25519, X25519_MLKEM768, SECP256R1, SECP521R1

\* What Listed says holds of each of the browser profiles of the source.
LEMMA ProfilesListed ==
    ASSUME NEW p \in BrowserProfiles
    PROVE  Listed(p)
  <1>1. Listed(CHROME_131)
    BY DEF Listed, CHROME_131
  <1>2. Listed(CHROME_140)
    BY DEF Listed, CHROME_131, CHROME_140
  <1>3. Listed(EDGE_130)
    BY DEF Listed, CHROME_131, EDGE_130
  <1>4. Listed(SAFARI_17)
    BY DEF Listed, CHROME_131, SAFARI_17
  <1>5. Listed(FIREFOX_130)
    BY DEF Listed, CHROME_131, SAFARI_17, FIREFOX_130
  <1>6. Listed(CALIBRATED)
    BY DEF Listed, CHROME_131, CHROME_140, CALIBRATED
  <1> QED
    BY <1>1, <1>2, <1>3, <1>4, <1>5, <1>6 DEF BrowserProfiles

\* Sequences of the same elements are equal.
LEMMA SameList ==
    ASSUME NEW S, NEW s, NEW t, ListIn(s, S), ListIn(t, S), Len(s) = Len(t),
           \A i \in 1 .. Len(s) : s[i] = t[i]
    PROVE  s = t
  <1>1. s \in Seq(S) /\ t \in Seq(S)
    BY DEF ListIn
  <1> QED
    BY <1>1, SeqEqual

\* What a list with one more word in front of it holds, and where.
LEMMA InFront ==
    ASSUME NEW S, NEW v \in S, NEW t, ListIn(t, S)
    PROVE  /\ ListIn(Ahead(v, t), S) /\ Len(Ahead(v, t)) = Len(t) + 1
           /\ Ahead(v, t)[1] = v
           /\ \A i \in 1 .. Len(t) : Ahead(v, t)[i + 1] = t[i]
  <1> DEFINE s == <<v>>
  <1>1. s \in Seq(S) /\ Len(s) = 1 /\ s[1] = v
    OBVIOUS
  <1> HIDE DEF s
  <1>2. t \in Seq(S) /\ Len(t) \in Nat
    BY DEF ListIn
  <1>3. /\ s \o t \in Seq(S)
        /\ Len(s \o t) = Len(s) + Len(t)
        /\ \A i \in 1 .. (Len(s) + Len(t)) : (s \o t)[i] = IF i <= Len(s) THEN s[i] ELSE t[i - Len(s)]
    BY <1>1, <1>2, ConcatProperties
  <1>4. 1 \in 1 .. (Len(s) + Len(t)) /\ 1 <= Len(s)
    BY <1>1, <1>2
  <1>5. ASSUME NEW i \in 1 .. Len(t) PROVE (s \o t)[i + 1] = t[i]
    <2>1. i + 1 \in 1 .. (Len(s) + Len(t)) /\ ~(i + 1 <= Len(s)) /\ (i + 1) - Len(s) = i
      BY <1>1, <1>2
    <2> QED
      BY <1>3, <2>1
  <1>6. (s \o t)[1] = v
    BY <1>1, <1>3, <1>4
  <1>7. Len(s \o t) = Len(t) + 1
    BY <1>1, <1>2, <1>3
  <1> QED
    BY <1>3, <1>5, <1>6, <1>7 DEF s, Ahead, ListIn

\* A sequence of n words is a list of n words.
LEMMA SeqWords ==
    ASSUME NEW n, NEW x, WordSeq(x, n)
    PROVE  n \in Nat /\ Words(x, n)
  <1>1. x \in Seq(Word) /\ Len(x) = n
    BY DEF WordSeq, ListIn
  <1>2. n \in Nat /\ DOMAIN x = 1 .. n /\ \A i \in 1 .. n : x[i] \in Word
    BY <1>1
  <1> QED
    BY <1>2 DEF Words, Word

\* A list with a GREASE value in front, or without.
LEMMA GreasedSeq ==
    ASSUME NEW n, NEW x, WordSeq(x, n), NEW p, NEW v \in Word
    PROVE  /\ p.has_grease => Greased(p, v, x) = Ahead(v, x) /\ WordSeq(Greased(p, v, x), n + 1)
           /\ ~p.has_grease => Greased(p, v, x) = x /\ WordSeq(Greased(p, v, x), n)
  <1>1. ListIn(x, Word) /\ Len(x) = n
    BY DEF WordSeq
  <1>2. /\ ListIn(Ahead(v, x), Word) /\ Len(Ahead(v, x)) = Len(x) + 1
        /\ Ahead(v, x)[1] = v
        /\ \A i \in 1 .. Len(x) : Ahead(v, x)[i + 1] = x[i]
    BY <1>1, InFront
  <1>3. <<>> \o x = x
    <2>1. x \in Seq(Word)
      BY <1>1 DEF ListIn
    <2> QED
      BY <2>1, ConcatEmptySeq
  <1>4. Greased(p, v, x) = (IF p.has_grease THEN <<v>> ELSE <<>>) \o x
    BY DEF Greased
  <1>5. CASE p.has_grease
    <2>1. Greased(p, v, x) = Ahead(v, x)
      BY <1>4, <1>5 DEF Ahead
    <2> QED
      BY <1>1, <1>2, <1>5, <2>1 DEF WordSeq
  <1>6. CASE ~p.has_grease
    <2>1. Greased(p, v, x) = x
      BY <1>3, <1>4, <1>6
    <2> QED
      BY <1>6, <2>1
  <1> QED
    BY <1>5, <1>6

\* The lists of the profiles.
LEMMA ProfileLists ==
    ASSUME NEW p, Listed(p)
    PROVE  /\ \E n \in {2, 3} : WordSeq(p.groups, n)
           /\ \E n \in {1, 2} : WordSeq(p.versions, n)
           /\ WordSeq(p.cipher_suites, 3)
  <1>1. /\ X25519 \in Word /\ SECP256R1 \in Word /\ SECP521R1 \in Word
        /\ X25519_MLKEM768 \in Word /\ Tls13 \in Word /\ Tls12 \in Word
    BY DEF X25519, SECP256R1, SECP521R1, X25519_MLKEM768, Tls13, Tls12, Word
  <1>2. 4865 \in Word /\ 4866 \in Word /\ 4867 \in Word
    BY DEF Word
  <1>3. /\ WordSeq(<<X25519, SECP256R1>>, 2) /\ WordSeq(<<X25519_MLKEM768, X25519>>, 2)
        /\ WordSeq(<<X25519, SECP256R1, SECP521R1>>, 3)
        /\ WordSeq(<<Tls13>>, 1) /\ WordSeq(<<Tls13, Tls12>>, 2)
    BY <1>1 DEF WordSeq, ListIn
  <1>4. WordSeq(Suites, 3)
    BY <1>2 DEF WordSeq, ListIn, Suites
  <1> QED
    BY <1>3, <1>4 DEF Listed

\* The groups, versions and suites a profile puts into a hello.
LEMMA GreasedWords ==
    ASSUME NEW p, Listed(p), NEW v \in Word
    PROVE  /\ \E n \in 2 .. 4 : WordSeq(Greased(p, v, p.groups), n)
           /\ \E n \in 1 .. 3 : WordSeq(Greased(p, v, p.versions), n)
           /\ \E n \in 3 .. 4 : WordSeq(Greased(p, v, p.cipher_suites), n)
  <1>1. PICK n \in {2, 3} : WordSeq(p.groups, n)
    BY ProfileLists
  <1>2. PICK m \in {1, 2} : WordSeq(p.versions, m)
    BY ProfileLists
  <1>3. WordSeq(p.cipher_suites, 3)
    BY ProfileLists
  <1>4. WordSeq(Greased(p, v, p.groups), n) \/ WordSeq(Greased(p, v, p.groups), n + 1)
    BY <1>1, GreasedSeq
  <1>5. WordSeq(Greased(p, v, p.versions), m) \/ WordSeq(Greased(p, v, p.versions), m + 1)
    BY <1>2, GreasedSeq
  <1>6. \/ WordSeq(Greased(p, v, p.cipher_suites), 3)
        \/ WordSeq(Greased(p, v, p.cipher_suites), 3 + 1)
    BY <1>3, GreasedSeq
  <1>7. n \in 2 .. 4 /\ n + 1 \in 2 .. 4 /\ m \in 1 .. 3 /\ m + 1 \in 1 .. 3 /\ 3 + 1 = 4
    OBVIOUS
  <1> QED
    BY <1>4, <1>5, <1>6, <1>7

-----------------------------------------------------------------------------
(* Extension data. *)

\* A list of u16 values behind its length in bytes, as a u16.
LEMMA WordList ==
    ASSUME NEW n \in Nat, n < 100, NEW values, Words(values, n)
    PROVE  LET list == Joined(U16(2 * n), U16s(values))
           IN  /\ Block(list) /\ list.len = 2 + 2 * n
               /\ Get(list, 0) = 2 * n
               /\ \A i \in 1 .. n : Get(list, 2 * i) = values[i]
  <1> DEFINE a == U16(2 * n)
             b == U16s(values)
             list == Joined(a, b)
  <1>1. 2 * n \in Nat /\ 2 * n < 65536
    OBVIOUS
  <1>2. Block(a) /\ a.len = 2 /\ Get(a, 0) = 2 * n
    BY <1>1, WordBlock
  <1>3. Block(b) /\ b.len = 2 * n /\ \A i \in 1 .. n : Get(b, 2 * i - 2) = values[i]
    BY ValuesBlock
  <1> HIDE DEF a, b
  <1>4. /\ Block(list) /\ list.len = a.len + b.len
        /\ \A p \in Nat : p < a.len => Get(list, p) = Get(a, p)
        /\ \A p \in Nat : Get(list, a.len + p) = Get(b, p)
        /\ \A p \in Nat : /\ p < a.len => (p \in DOMAIN list.at <=> p \in DOMAIN a.at)
                          /\ a.len + p \in DOMAIN list.at <=> p \in DOMAIN b.at
    BY <1>2, <1>3, JoinedBlock
  <1> HIDE DEF list
  <1>5. Get(list, 0) = 2 * n
    BY <1>2, <1>4
  <1>6. ASSUME NEW i \in 1 .. n PROVE Get(list, 2 * i) = values[i]
    <2>1. 2 * i - 2 \in Nat /\ 2 + (2 * i - 2) = 2 * i
      OBVIOUS
    <2>2. Get(list, 2 + (2 * i - 2)) = Get(b, 2 * i - 2)
      BY <1>2, <1>4, <2>1
    <2> QED
      BY <1>3, <2>1, <2>2
  <1> QED
    BY <1>2, <1>3, <1>4, <1>5, <1>6 DEF a, b, list

\* Two blocks: length and place.
LEMMA Joined2 ==
    ASSUME NEW a, NEW b, Block(a), Block(b)
    PROVE  /\ Block(Joined(a, b)) /\ Joined(a, b).len = a.len + b.len
           /\ Lies(Joined(a, b), 0, a) /\ Lies(Joined(a, b), a.len, b)
  BY JoinedBlock, LiesJoined

\* server_name: list length, name type, name length, name.
LEMMA NameBlock ==
    ASSUME NEW host, Block(host), host.len < 1000
    PROVE  LET data == ServerNameData(host)
           IN  /\ Block(data) /\ data.len = 5 + host.len
               /\ Get(data, 0) = 3 + host.len /\ Get(data, 2) = 0 /\ Get(data, 3) = host.len
               /\ Lies(data, 5, host)
  <1> DEFINE a == U16(1 + 2 + host.len)
             b == U8(TYPE_HOST_NAME)
             c == U16(host.len)
             data == Concat(<<a, b, c, host>>)
  <1>1. host.len \in Nat /\ 1 + 2 + host.len \in Nat /\ 1 + 2 + host.len < 65536 /\ host.len < 65536
    BY DEF Block
  <1>2. Block(a) /\ a.len = 2 /\ Get(a, 0) = 1 + 2 + host.len
    BY <1>1, WordBlock
  <1>3. Block(b) /\ b.len = 1 /\ Get(b, 0) = 0
    BY IntegerBlocks DEF TYPE_HOST_NAME
  <1>4. Block(c) /\ c.len = 2 /\ Get(c, 0) = host.len
    BY <1>1, WordBlock
  <1>5. ServerNameData(host) = data
    BY DEF ServerNameData
  <1> HIDE DEF a, b, c
  <1>6. /\ Block(data) /\ data.len = a.len + b.len + c.len + host.len
        /\ Lies(data, 0, a) /\ Lies(data, a.len, b) /\ Lies(data, a.len + b.len, c)
        /\ Lies(data, a.len + b.len + c.len, host)
    BY <1>2, <1>3, <1>4, Concat4
  <1> HIDE DEF data
  <1>7. data.len = 5 + host.len
    BY <1>1, <1>2, <1>3, <1>4, <1>6
  <1>8. Lies(data, 2, b) /\ Lies(data, 3, c) /\ Lies(data, 5, host)
    BY <1>2, <1>3, <1>4, <1>6
  <1>9. Get(data, 0) = 3 + host.len /\ Get(data, 2) = 0 /\ Get(data, 3) = host.len
    BY <1>1, <1>2, <1>3, <1>4, <1>6, <1>8, LiesHead
  <1> QED
    BY <1>5, <1>6, <1>7, <1>8, <1>9

\* signature_algorithms and delegated_credential.
LEMMA SignaturesBlock ==
    ASSUME NEW count \in Nat
    PROVE  Block(SignaturesData(count)) /\ SignaturesData(count).len = 2 + 2 * count
  <1>1. 2 * count \in Nat
    OBVIOUS
  <1>2. Block(U16(2 * count)) /\ U16(2 * count).len = 2
    BY <1>1, IntegerBlocks
  <1>3. Block(Slice(2 * count, Noise)) /\ Slice(2 * count, Noise).len = 2 * count
    BY <1>1, NoiseAssumption, SliceBlock
  <1> QED
    BY <1>2, <1>3, Joined2 DEF SignaturesData

\* A name behind its length.
LEMMA ProtocolName ==
    ASSUME NEW n \in Nat
    PROVE  /\ Block(Joined(U8(n), Slice(n, Noise)))
           /\ Joined(U8(n), Slice(n, Noise)).len = 1 + n
  <1>1. Block(U8(n)) /\ U8(n).len = 1
    BY IntegerBlocks
  <1>2. Block(Slice(n, Noise)) /\ Slice(n, Noise).len = n
    BY NoiseAssumption, SliceBlock
  <1> QED
    BY <1>1, <1>2, Joined2

\* A list of blocks behind its length.
LEMMA LengthFirst ==
    ASSUME NEW list, Block(list)
    PROVE  Block(Joined(U16(list.len), list)) /\ Joined(U16(list.len), list).len = 2 + list.len
  <1>1. list.len \in Nat
    BY DEF Block
  <1>2. Block(U16(list.len)) /\ U16(list.len).len = 2
    BY <1>1, IntegerBlocks
  <1> QED
    BY <1>2, Joined2

\* alpn and ALPS, as the profiles have them.
LEMMA ProtocolsBlock ==
    /\ Block(ProtocolList(<<2, 8>>)) /\ ProtocolList(<<2, 8>>).len = 14
    /\ Block(ProtocolList(<<2>>)) /\ ProtocolList(<<2>>).len = 5
  <1> DEFINE name(n) == Joined(U8(n), Slice(n, Noise))
             two == [i \in DOMAIN <<2, 8>> |-> Joined(U8(<<2, 8>>[i]), Slice(<<2, 8>>[i], Noise))]
             one == [i \in DOMAIN <<2>> |-> Joined(U8(<<2>>[i]), Slice(<<2>>[i], Noise))]
  <1>1. /\ DOMAIN two = 1 .. 2 /\ two[1] = name(2) /\ two[2] = name(8)
        /\ DOMAIN one = 1 .. 1 /\ one[1] = name(2)
    OBVIOUS
  <1>2. Block(name(2)) /\ name(2).len = 3 /\ Block(name(8)) /\ name(8).len = 9
    BY ProtocolName
  <1>3. /\ ProtocolList(<<2, 8>>) = Joined(U16(Concat(two).len), Concat(two))
        /\ ProtocolList(<<2>>) = Joined(U16(Concat(one).len), Concat(one))
    BY DEF ProtocolList
  <1> HIDE DEF name, two, one
  <1>4. Blocks(two, 2) /\ Blocks(one, 1)
    BY <1>1, <1>2 DEF Blocks
  <1>5. Block(Concat(two)) /\ Concat(two).len = 12
    <2>1. Block(Concat(two))
      BY <1>4, ConcatLaysOut
    <2>2. PICK off : /\ Offsets(off, two, 2) /\ Concat(two).len = off[2]
                     /\ LiesAll(Concat(two), off, two, 2)
      BY <1>4, ConcatLaysOut
    <2>3. off[0] = 0 /\ off[1] = off[0] + two[1].len /\ off[2] = off[1] + two[2].len
      BY <2>2 DEF Offsets
    <2> QED
      BY <1>1, <1>2, <2>1, <2>2, <2>3
  <1>6. Block(Concat(one)) /\ Concat(one).len = 3
    <2>1. Block(Concat(one))
      BY <1>4, ConcatLaysOut
    <2>2. PICK off : /\ Offsets(off, one, 1) /\ Concat(one).len = off[1]
                     /\ LiesAll(Concat(one), off, one, 1)
      BY <1>4, ConcatLaysOut
    <2>3. off[0] = 0 /\ off[1] = off[0] + one[1].len
      BY <2>2 DEF Offsets
    <2> QED
      BY <1>1, <1>2, <2>1, <2>2, <2>3
  <1> QED
    BY <1>3, <1>5, <1>6, LengthFirst

\* ech_grease.
LEMMA EchBlock == Block(EchData) /\ EchData.len = 186
  <1> DEFINE a == U8(0)
             b == U16(1)
             c == Slice(1, Noise)
             d == U16(32)
             e == Slice(32, Noise)
             f == U16(144)
             g == Slice(144, Noise)
  <1>1. Block(a) /\ a.len = 1 /\ Block(b) /\ b.len = 2 /\ Block(d) /\ d.len = 2 /\ Block(f) /\ f.len = 2
    BY IntegerBlocks
  <1>2. Block(c) /\ c.len = 1 /\ Block(e) /\ e.len = 32 /\ Block(g) /\ g.len = 144
    BY NoiseAssumption, SliceBlock
  <1>3. EchData = Concat(<<a, b, b, c, d, e, f, g>>)
    BY DEF EchData
  <1> HIDE DEF a, b, c, d, e, f, g
  <1>4. /\ Block(Concat(<<a, b, b, c, d, e, f, g>>))
        /\ Concat(<<a, b, b, c, d, e, f, g>>).len =
              a.len + b.len + b.len + c.len + d.len + e.len + f.len + g.len
    BY <1>1, <1>2, Concat8
  <1> QED
    BY <1>1, <1>2, <1>3, <1>4

\* The three entries of the key share list, and their lengths: the GREASE entry and the
\* ML-KEM one are there or empty, the X25519 entry always is.
LEMMA ShareBlocks ==
    ASSUME NEW p, NEW group \in Word, NEW key, Block(key), key.len = 32
    PROVE  /\ Block(GreaseShare(p, group)) /\ Block(MlKemShare(p)) /\ Block(AddExtension(X25519, key))
           /\ GreaseShare(p, group).len \in {0, 5}
           /\ MlKemShare(p).len = IF X25519_MLKEM768 \in ToSet(p.groups) THEN 1220 ELSE 0
           /\ AddExtension(X25519, key).len = 36
  <1>1. Block(U8(0)) /\ U8(0).len = 1
    BY IntegerBlocks
  <1>2. group \in Nat /\ group < 65536
    BY DEF Word
  <1>3. Block(AddExtension(group, U8(0))) /\ AddExtension(group, U8(0)).len = 5
    BY <1>1, <1>2, ExtensionBlock
  <1>4. Block(GreaseShare(p, group)) /\ GreaseShare(p, group).len \in {0, 5}
    BY <1>3, EmptyBlock DEF GreaseShare
  <1>5. Block(Slice(1216, Noise)) /\ Slice(1216, Noise).len = 1216
    BY NoiseAssumption, SliceBlock
  <1>6. X25519_MLKEM768 \in Nat /\ X25519_MLKEM768 < 65536 /\ X25519 \in Nat /\ X25519 < 65536
    BY DEF X25519_MLKEM768, X25519
  <1>7. X25519_MLKEM768_SHARE_LEN = 1216
    BY DEF X25519_MLKEM768_SHARE_LEN, T_HAT_LEN, RHO_LEN, X25519_PK_LEN, K, N
  <1>8. LET x == AddExtension(X25519_MLKEM768, Slice(X25519_MLKEM768_SHARE_LEN, Noise))
        IN  Block(x) /\ x.len = 1220
    BY <1>5, <1>6, <1>7, ExtensionBlock
  <1>9. /\ Block(MlKemShare(p))
        /\ MlKemShare(p).len = IF X25519_MLKEM768 \in ToSet(p.groups) THEN 1220 ELSE 0
    BY <1>8, EmptyBlock DEF MlKemShare
  <1>10. Block(AddExtension(X25519, key)) /\ AddExtension(X25519, key).len = 36
    BY <1>6, ExtensionBlock
  <1> QED
    BY <1>4, <1>9, <1>10

\* key_share.
LEMMA SharesBlock ==
    ASSUME NEW p, NEW group \in Word, NEW key, Block(key), key.len = 32
    PROVE  LET data == KeyShareList(p, group, key)
               list == Shares(p, group, key)
           IN  /\ Block(list) /\ list.len \in Nat
               /\ list.len = GreaseShare(p, group).len + MlKemShare(p).len + 36
               /\ list.len <= 1261
               /\ Lies(list, 0, GreaseShare(p, group))
               /\ Lies(list, GreaseShare(p, group).len, MlKemShare(p))
               /\ Lies(list, GreaseShare(p, group).len + MlKemShare(p).len, AddExtension(X25519, key))
               /\ Block(data) /\ data.len = 2 + list.len
               /\ Get(data, 0) = list.len /\ Lies(data, 2, list)
  <1> DEFINE a == GreaseShare(p, group)
             b == MlKemShare(p)
             c == AddExtension(X25519, key)
             list == Shares(p, group, key)
             data == Joined(U16(list.len), list)
  <1>1. /\ Block(a) /\ Block(b) /\ Block(c) /\ a.len \in {0, 5} /\ b.len \in {0, 1220} /\ c.len = 36
    BY ShareBlocks
  <1>2. KeyShareList(p, group, key) = data
    BY DEF KeyShareList, Shares, GreaseShare, MlKemShare, AddExtension
  <1>3. list = Concat(<<a, b, c>>)
    BY DEF Shares
  <1> HIDE DEF a, b, c
  <1>4. /\ Block(list) /\ list.len = a.len + b.len + c.len
        /\ Lies(list, 0, a) /\ Lies(list, a.len, b) /\ Lies(list, a.len + b.len, c)
    BY <1>1, <1>3, Concat3
  <1> HIDE DEF list
  <1>5. list.len \in Nat /\ list.len = a.len + b.len + 36 /\ list.len <= 1261 /\ list.len < 65536
    BY <1>1, <1>4
  <1>6. Block(U16(list.len)) /\ U16(list.len).len = 2 /\ Get(U16(list.len), 0) = list.len
    BY <1>5, WordBlock
  <1>7. /\ Block(data) /\ data.len = U16(list.len).len + list.len
        /\ Lies(data, 0, U16(list.len)) /\ Lies(data, U16(list.len).len, list)
    BY <1>4, <1>6, Joined2
  <1>8. Get(data, 0) = list.len
    BY <1>6, <1>7, LiesHead
  <1> QED
    BY <1>2, <1>4, <1>5, <1>6, <1>7, <1>8 DEF a, b, c, list

\* The key share list fits the two bytes of its length by far.
LEMMA SharesLength ==
    ASSUME NEW p, NEW group \in Word, NEW key, Block(key), key.len = 32
    PROVE  Block(KeyShareList(p, group, key)) /\ KeyShareList(p, group, key).len < 2000
  <1> DEFINE list == Shares(p, group, key)
             data == KeyShareList(p, group, key)
  <1>1. /\ Block(list) /\ list.len \in Nat
        /\ list.len = GreaseShare(p, group).len + MlKemShare(p).len + 36
        /\ list.len <= 1261
        /\ Lies(list, 0, GreaseShare(p, group))
        /\ Lies(list, GreaseShare(p, group).len, MlKemShare(p))
        /\ Lies(list, GreaseShare(p, group).len + MlKemShare(p).len, AddExtension(X25519, key))
        /\ Block(data) /\ data.len = 2 + list.len
        /\ Get(data, 0) = list.len /\ Lies(data, 2, list)
    BY SharesBlock
  <1> QED
    BY <1>1

-----------------------------------------------------------------------------
(* One extension of a hello, whatever its id. *)

\* What is no SNI, no key share and no group list has no shape to keep.
LEMMA ShapedPlain ==
    ASSUME NEW p, NEW h, NEW id, id \notin Sought
    PROVE  /\ Shaped(p, h, id, Empty)
           /\ \A t, d : t \in Word /\ t \notin Sought /\ Block(d) /\ d.len < 2000
                           => Shaped(p, h, id, AddExtension(t, d))
  BY DEF Shaped

\* The blocks that make up the plain extensions.
LEMMA SmallData ==
    /\ Block(Empty) /\ Empty.len = 0
    /\ Block(U8(0)) /\ U8(0).len = 1
    /\ Block(Joined(U8(2), U16(2))) /\ Joined(U8(2), U16(2)).len = 3
    /\ Block(Joined(U8(1), U8(0))) /\ Joined(U8(1), U8(0)).len = 2
    /\ Block(Joined(U8(1), U8(1))) /\ Joined(U8(1), U8(1)).len = 2
    /\ Block(Concat(<<U8(1), U16(0), U16(0)>>)) /\ Concat(<<U8(1), U16(0), U16(0)>>).len = 5
  <1>1. /\ Block(U8(0)) /\ U8(0).len = 1 /\ Block(U8(1)) /\ U8(1).len = 1
        /\ Block(U8(2)) /\ U8(2).len = 1 /\ Block(U16(0)) /\ U16(0).len = 2
        /\ Block(U16(2)) /\ U16(2).len = 2
    BY IntegerBlocks
  <1>2. /\ Block(Joined(U8(2), U16(2))) /\ Joined(U8(2), U16(2)).len = 3
        /\ Block(Joined(U8(1), U8(0))) /\ Joined(U8(1), U8(0)).len = 2
        /\ Block(Joined(U8(1), U8(1))) /\ Joined(U8(1), U8(1)).len = 2
    BY <1>1, Joined2
  <1>3. Block(Concat(<<U8(1), U16(0), U16(0)>>)) /\ Concat(<<U8(1), U16(0), U16(0)>>).len = 5
    BY <1>1, Concat3
  <1> QED
    BY <1>1, <1>2, <1>3, EmptyBlock

\* supported_versions and supported_groups.
LEMMA VersionsBlock ==
    ASSUME NEW p, Listed(p), NEW g, g.version \in Word
    PROVE  /\ Block(SupportedVersionsData(p, g))
           /\ SupportedVersionsData(p, g).len <= 7
  <1> DEFINE vs == Greased(p, g.version, p.versions)
  <1>1. PICK n \in 1 .. 3 : WordSeq(vs, n)
    BY GreasedWords
  <1>2. n \in Nat /\ Words(vs, n) /\ Len(vs) = n
    BY <1>1, SeqWords DEF WordSeq
  <1>3. SupportedVersionsData(p, g) = Joined(U8(2 * Len(vs)), U16s(vs))
    BY DEF SupportedVersionsData
  <1> HIDE DEF vs
  <1>4. Block(U16s(vs)) /\ U16s(vs).len = 2 * n
    BY <1>2, ValuesBlock
  <1>5. 2 * n \in Nat
    BY <1>2
  <1>6. Block(U8(2 * n)) /\ U8(2 * n).len = 1
    BY <1>5, IntegerBlocks
  <1>7. Block(Joined(U8(2 * n), U16s(vs))) /\ Joined(U8(2 * n), U16s(vs)).len = 1 + 2 * n
    BY <1>4, <1>6, Joined2
  <1> QED
    BY <1>2, <1>3, <1>7

\* The data of supported_groups is a length and then each group, GREASE included.
LEMMA GroupsBlock ==
    ASSUME NEW p, Listed(p), NEW g, g.group \in Word
    PROVE  LET data   == SupportedGroupsData(p, g)
               groups == Greased(p, g.group, p.groups)
           IN  \E n \in 2 .. 4 :
                  /\ WordSeq(groups, n) /\ Block(data) /\ data.len = 2 + 2 * n
                  /\ Get(data, 0) = 2 * n
                  /\ \A i \in 1 .. n : Get(data, 2 * i) = groups[i]
  <1> DEFINE gs == Greased(p, g.group, p.groups)
             list == Joined(U16(2 * Len(gs)), U16s(gs))
  <1>1. PICK n \in 2 .. 4 : WordSeq(gs, n)
    BY GreasedWords
  <1>2. n \in Nat /\ Words(gs, n) /\ Len(gs) = n /\ n < 100
    BY <1>1, SeqWords DEF WordSeq
  <1>3. SupportedGroupsData(p, g) = list
    BY DEF SupportedGroupsData
  <1> HIDE DEF gs
  <1>4. /\ Block(list) /\ list.len = 2 + 2 * n /\ Get(list, 0) = 2 * n
        /\ \A i \in 1 .. n : Get(list, 2 * i) = gs[i]
    BY <1>2, WordList
  <1> HIDE DEF list
  <1> QED
    BY <1>1, <1>3, <1>4 DEF gs

\* None of the other ids is looked for.
LEMMA OtherIds ==
    /\ {GREASE_SLOT_FIRST, GREASE_SLOT_LAST, SIGNATURE_ALGORITHMS, DELEGATED_CREDENTIAL, ALPN, ALPS,
        SCT, EMS, SESSION_TICKET, ECH, COMPRESS_CERT, SUPPORTED_VERSIONS, PSK_MODES,
        EC_POINT_FORMATS, STATUS_REQUEST, RENEGOTIATION_INFO, PADDING} \cap Sought = {}
    /\ {SIGNATURE_ALGORITHMS, DELEGATED_CREDENTIAL, ALPN, ALPS,
        SCT, EMS, SESSION_TICKET, ECH, COMPRESS_CERT, SUPPORTED_VERSIONS, PSK_MODES,
        EC_POINT_FORMATS, STATUS_REQUEST, RENEGOTIATION_INFO, PADDING} \cup Sought \subseteq Word
    /\ GREASE_VALUES \subseteq Word
    /\ GREASE_VALUES \cap Sought = {}
  <1>1. GREASE_VALUES \subseteq Word /\ GREASE_VALUES \cap Sought = {}
    BY GreaseValues DEF Word, Sought
  <1> QED
    BY <1>1 DEF GREASE_SLOT_FIRST, GREASE_SLOT_LAST, SIGNATURE_ALGORITHMS, DELEGATED_CREDENTIAL, ALPN,
        ALPS, SCT, EMS, SESSION_TICKET, ECH, COMPRESS_CERT, SUPPORTED_VERSIONS, PSK_MODES,
        EC_POINT_FORMATS, STATUS_REQUEST, RENEGOTIATION_INFO, PADDING, Sought, SNI, KEY_SHARE,
        SUPPORTED_GROUPS, Word

\* What is looked for is laid out as it should be.
LEMMA SoughtData ==
    ASSUME NEW p, Listed(p), NEW h, Fine(h), NEW t \in Sought
    PROVE  Block(DataOf(p, h, t)) /\ DataOf(p, h, t).len < 2000
  <1>1. h.grease.group \in Word
    BY OtherIds DEF Fine
  <1>2. Block(ServerNameData(h.host)) /\ ServerNameData(h.host).len < 2000
    <2>1. Block(h.host) /\ h.host.len < 1000 /\ h.host.len \in Nat
      BY DEF Fine, MaxHostLen, Block
    <2>2. Block(ServerNameData(h.host)) /\ ServerNameData(h.host).len = 5 + h.host.len
      BY <2>1, NameBlock
    <2> QED
      BY <2>1, <2>2
  <1>3. /\ Block(KeyShareData(p, h.grease, h.key))
        /\ KeyShareData(p, h.grease, h.key).len < 2000
    <2>1. Block(h.key) /\ h.key.len = 32
      BY DEF Fine
    <2>2. /\ Block(KeyShareList(p, h.grease.group, h.key))
          /\ KeyShareList(p, h.grease.group, h.key).len < 2000
      BY <1>1, <2>1, SharesLength
    <2> QED
      BY <2>2 DEF KeyShareData
  <1>4. /\ Block(SupportedGroupsData(p, h.grease))
        /\ SupportedGroupsData(p, h.grease).len < 2000
    <2>1. PICK n \in 2 .. 4 : /\ Block(SupportedGroupsData(p, h.grease))
                              /\ SupportedGroupsData(p, h.grease).len = 2 + 2 * n
      BY <1>1, GroupsBlock
    <2> QED
      BY <2>1
  <1> QED
    BY <1>2, <1>3, <1>4 DEF DataOf

\* GREASE values are no other ids either.
LEMMA GreaseIds ==
    {SIGNATURE_ALGORITHMS, DELEGATED_CREDENTIAL, ALPN, ALPS, SCT, EMS, SESSION_TICKET, ECH,
     COMPRESS_CERT, SUPPORTED_VERSIONS, PSK_MODES, EC_POINT_FORMATS, STATUS_REQUEST,
     RENEGOTIATION_INFO, PADDING} \cap GREASE_VALUES = {}
  <1>1. ASSUME NEW v \in GREASE_VALUES
        PROVE  v >= 2570 /\ v <= 64250 /\ v # 17613
    <2>1. PICK i \in 0 .. 15 : v = 2570 + i * 4112
      BY DEF GREASE_VALUES
    <2> QED
      BY <2>1
  <1> QED
    BY <1>1 DEF SIGNATURE_ALGORITHMS, DELEGATED_CREDENTIAL, ALPN, ALPS, SCT, EMS, SESSION_TICKET,
        ECH, COMPRESS_CERT, SUPPORTED_VERSIONS, PSK_MODES, EC_POINT_FORMATS, STATUS_REQUEST,
        RENEGOTIATION_INFO, PADDING

\* The arms of apply_profile, one by one.
LEMMA Arms ==
    ASSUME NEW p, NEW h, NEW overhead, NEW payload, NEW id
    PROVE  LET x == Extension(p, h, overhead, payload, id)
           IN  /\ id = GREASE_SLOT_FIRST =>
                     x = IF p.has_grease
                     THEN AddExtension(h.grease.ext_first, Empty)
                     ELSE Empty
               /\ id = GREASE_SLOT_LAST =>
                     x = IF p.has_grease THEN AddExtension(h.grease.ext_last, U8(0)) ELSE Empty
               /\ id = SIGNATURE_ALGORITHMS =>
                     x = AddExtension(id, SignaturesData(p.signatures))
               /\ id = DELEGATED_CREDENTIAL =>
                     x = AddExtension(id, SignaturesData(p.delegated_signatures))
               /\ id = ALPN =>
                     x = AddExtension(id, ProtocolList(p.alpn))
               /\ id = ALPS =>
                     x = IF p.alps_protocols # <<>>
                     THEN AddExtension(id, ProtocolList(p.alps_protocols))
                     ELSE Empty
               /\ id \in {SCT, EMS, SESSION_TICKET} =>
                     x = AddExtension(id, Empty)
               /\ id = ECH =>
                     x = AddExtension(id, EchData)
               /\ id = COMPRESS_CERT =>
                     x = AddExtension(id, Joined(U8(2), U16(2)))
               /\ id = SUPPORTED_VERSIONS =>
                     x = AddExtension(id, SupportedVersionsData(p, h.grease))
               /\ id \in {PSK_MODES, EC_POINT_FORMATS} =>
                     x = AddExtension(id, Joined(U8(1), U8(IF id = PSK_MODES THEN 1 ELSE 0)))
               /\ id = STATUS_REQUEST =>
                     x = AddExtension(id, Concat(<<U8(1), U16(0), U16(0)>>))
               /\ id = RENEGOTIATION_INFO =>
                     x = AddExtension(id, U8(0))
               /\ id = PADDING =>
                     x = IF p.target_padding_len > 0
                     THEN PaddingExtension(payload, p.target_padding_len, overhead)
                     ELSE Empty
               /\ id = SNI =>
                     x = AddExtension(SNI, ServerNameData(h.host))
               /\ id = SUPPORTED_GROUPS =>
                     x = AddExtension(id, SupportedGroupsData(p, h.grease))
               /\ id = KEY_SHARE =>
                     x = AddExtension(id, KeyShareData(p, h.grease, h.key))
               /\ id \in GREASE_VALUES \ {GREASE_SLOT_FIRST, GREASE_SLOT_LAST} =>
                     x = IF p.has_grease THEN AddExtension(id, Empty) ELSE Empty
               /\ id \notin PlainIds \cup Sought \cup GREASE_VALUES => x = Empty
  <1> DEFINE x == Extension(p, h, overhead, payload, id)
  <1>1. ASSUME id = GREASE_SLOT_FIRST
        PROVE  x = IF p.has_grease
              THEN AddExtension(h.grease.ext_first, Empty)
              ELSE Empty
    <2>1. id \notin GREASE_VALUES \ {GREASE_SLOT_FIRST, GREASE_SLOT_LAST}
      BY <1>1, GreaseIds, OtherIds DEF Sought
    <2> QED
      BY <1>1, <2>1 DEF Extension, GREASE_SLOT_FIRST, GREASE_SLOT_LAST, SIGNATURE_ALGORITHMS, DELEGATED_CREDENTIAL,
        ALPN, ALPS, SCT, EMS, SESSION_TICKET, ECH, COMPRESS_CERT, SUPPORTED_VERSIONS, PSK_MODES,
        EC_POINT_FORMATS, STATUS_REQUEST, RENEGOTIATION_INFO, PADDING, SNI, KEY_SHARE, SUPPORTED_GROUPS
  <1>2. ASSUME id = GREASE_SLOT_LAST
        PROVE  x = IF p.has_grease
              THEN AddExtension(h.grease.ext_last, U8(0))
              ELSE Empty
    <2>1. id \notin GREASE_VALUES \ {GREASE_SLOT_FIRST, GREASE_SLOT_LAST}
      BY <1>2, GreaseIds, OtherIds DEF Sought
    <2> QED
      BY <1>2, <2>1 DEF Extension, GREASE_SLOT_FIRST, GREASE_SLOT_LAST, SIGNATURE_ALGORITHMS, DELEGATED_CREDENTIAL,
        ALPN, ALPS, SCT, EMS, SESSION_TICKET, ECH, COMPRESS_CERT, SUPPORTED_VERSIONS, PSK_MODES,
        EC_POINT_FORMATS, STATUS_REQUEST, RENEGOTIATION_INFO, PADDING, SNI, KEY_SHARE, SUPPORTED_GROUPS
  <1>3. ASSUME id = SIGNATURE_ALGORITHMS
        PROVE  x = AddExtension(id, SignaturesData(p.signatures))
    <2>1. id \notin GREASE_VALUES \ {GREASE_SLOT_FIRST, GREASE_SLOT_LAST}
      BY <1>3, GreaseIds, OtherIds DEF Sought
    <2> QED
      BY <1>3, <2>1 DEF Extension, GREASE_SLOT_FIRST, GREASE_SLOT_LAST, SIGNATURE_ALGORITHMS, DELEGATED_CREDENTIAL,
        ALPN, ALPS, SCT, EMS, SESSION_TICKET, ECH, COMPRESS_CERT, SUPPORTED_VERSIONS, PSK_MODES,
        EC_POINT_FORMATS, STATUS_REQUEST, RENEGOTIATION_INFO, PADDING, SNI, KEY_SHARE, SUPPORTED_GROUPS
  <1>4. ASSUME id = DELEGATED_CREDENTIAL
        PROVE  x = AddExtension(id, SignaturesData(p.delegated_signatures))
    <2>1. id \notin GREASE_VALUES \ {GREASE_SLOT_FIRST, GREASE_SLOT_LAST}
      BY <1>4, GreaseIds, OtherIds DEF Sought
    <2> QED
      BY <1>4, <2>1 DEF Extension, GREASE_SLOT_FIRST, GREASE_SLOT_LAST, SIGNATURE_ALGORITHMS, DELEGATED_CREDENTIAL,
        ALPN, ALPS, SCT, EMS, SESSION_TICKET, ECH, COMPRESS_CERT, SUPPORTED_VERSIONS, PSK_MODES,
        EC_POINT_FORMATS, STATUS_REQUEST, RENEGOTIATION_INFO, PADDING, SNI, KEY_SHARE, SUPPORTED_GROUPS
  <1>5. ASSUME id = ALPN
        PROVE  x = AddExtension(id, ProtocolList(p.alpn))
    <2>1. id \notin GREASE_VALUES \ {GREASE_SLOT_FIRST, GREASE_SLOT_LAST}
      BY <1>5, GreaseIds, OtherIds DEF Sought
    <2> QED
      BY <1>5, <2>1 DEF Extension, GREASE_SLOT_FIRST, GREASE_SLOT_LAST, SIGNATURE_ALGORITHMS, DELEGATED_CREDENTIAL,
        ALPN, ALPS, SCT, EMS, SESSION_TICKET, ECH, COMPRESS_CERT, SUPPORTED_VERSIONS, PSK_MODES,
        EC_POINT_FORMATS, STATUS_REQUEST, RENEGOTIATION_INFO, PADDING, SNI, KEY_SHARE, SUPPORTED_GROUPS
  <1>6. ASSUME id = ALPS
        PROVE  x = IF p.alps_protocols # <<>>
              THEN AddExtension(id, ProtocolList(p.alps_protocols))
              ELSE Empty
    <2>1. id \notin GREASE_VALUES \ {GREASE_SLOT_FIRST, GREASE_SLOT_LAST}
      BY <1>6, GreaseIds, OtherIds DEF Sought
    <2> QED
      BY <1>6, <2>1 DEF Extension, GREASE_SLOT_FIRST, GREASE_SLOT_LAST, SIGNATURE_ALGORITHMS, DELEGATED_CREDENTIAL,
        ALPN, ALPS, SCT, EMS, SESSION_TICKET, ECH, COMPRESS_CERT, SUPPORTED_VERSIONS, PSK_MODES,
        EC_POINT_FORMATS, STATUS_REQUEST, RENEGOTIATION_INFO, PADDING, SNI, KEY_SHARE, SUPPORTED_GROUPS
  <1>7. ASSUME id \in {SCT, EMS, SESSION_TICKET}
        PROVE  x = AddExtension(id, Empty)
    <2>1. id \notin GREASE_VALUES \ {GREASE_SLOT_FIRST, GREASE_SLOT_LAST}
      BY <1>7, GreaseIds, OtherIds DEF Sought
    <2> QED
      BY <1>7, <2>1 DEF Extension, GREASE_SLOT_FIRST, GREASE_SLOT_LAST, SIGNATURE_ALGORITHMS, DELEGATED_CREDENTIAL,
        ALPN, ALPS, SCT, EMS, SESSION_TICKET, ECH, COMPRESS_CERT, SUPPORTED_VERSIONS, PSK_MODES,
        EC_POINT_FORMATS, STATUS_REQUEST, RENEGOTIATION_INFO, PADDING, SNI, KEY_SHARE, SUPPORTED_GROUPS
  <1>8. ASSUME id = ECH
        PROVE  x = AddExtension(id, EchData)
    <2>1. id \notin GREASE_VALUES \ {GREASE_SLOT_FIRST, GREASE_SLOT_LAST}
      BY <1>8, GreaseIds, OtherIds DEF Sought
    <2> QED
      BY <1>8, <2>1 DEF Extension, GREASE_SLOT_FIRST, GREASE_SLOT_LAST, SIGNATURE_ALGORITHMS, DELEGATED_CREDENTIAL,
        ALPN, ALPS, SCT, EMS, SESSION_TICKET, ECH, COMPRESS_CERT, SUPPORTED_VERSIONS, PSK_MODES,
        EC_POINT_FORMATS, STATUS_REQUEST, RENEGOTIATION_INFO, PADDING, SNI, KEY_SHARE, SUPPORTED_GROUPS
  <1>9. ASSUME id = COMPRESS_CERT
        PROVE  x = AddExtension(id, Joined(U8(2), U16(2)))
    <2>1. id \notin GREASE_VALUES \ {GREASE_SLOT_FIRST, GREASE_SLOT_LAST}
      BY <1>9, GreaseIds, OtherIds DEF Sought
    <2> QED
      BY <1>9, <2>1 DEF Extension, GREASE_SLOT_FIRST, GREASE_SLOT_LAST, SIGNATURE_ALGORITHMS, DELEGATED_CREDENTIAL,
        ALPN, ALPS, SCT, EMS, SESSION_TICKET, ECH, COMPRESS_CERT, SUPPORTED_VERSIONS, PSK_MODES,
        EC_POINT_FORMATS, STATUS_REQUEST, RENEGOTIATION_INFO, PADDING, SNI, KEY_SHARE, SUPPORTED_GROUPS
  <1>10. ASSUME id = SUPPORTED_VERSIONS
        PROVE  x = AddExtension(id, SupportedVersionsData(p, h.grease))
    <2>1. id \notin GREASE_VALUES \ {GREASE_SLOT_FIRST, GREASE_SLOT_LAST}
      BY <1>10, GreaseIds, OtherIds DEF Sought
    <2> QED
      BY <1>10, <2>1 DEF Extension, GREASE_SLOT_FIRST, GREASE_SLOT_LAST, SIGNATURE_ALGORITHMS, DELEGATED_CREDENTIAL,
        ALPN, ALPS, SCT, EMS, SESSION_TICKET, ECH, COMPRESS_CERT, SUPPORTED_VERSIONS, PSK_MODES,
        EC_POINT_FORMATS, STATUS_REQUEST, RENEGOTIATION_INFO, PADDING, SNI, KEY_SHARE, SUPPORTED_GROUPS
  <1>11. ASSUME id \in {PSK_MODES, EC_POINT_FORMATS}
        PROVE  x = AddExtension(id, Joined(U8(1), U8(IF id = PSK_MODES
              THEN 1 ELSE 0)))
    <2>1. id \notin GREASE_VALUES \ {GREASE_SLOT_FIRST, GREASE_SLOT_LAST}
      BY <1>11, GreaseIds, OtherIds DEF Sought
    <2> QED
      BY <1>11, <2>1 DEF Extension, GREASE_SLOT_FIRST, GREASE_SLOT_LAST, SIGNATURE_ALGORITHMS, DELEGATED_CREDENTIAL,
        ALPN, ALPS, SCT, EMS, SESSION_TICKET, ECH, COMPRESS_CERT, SUPPORTED_VERSIONS, PSK_MODES,
        EC_POINT_FORMATS, STATUS_REQUEST, RENEGOTIATION_INFO, PADDING, SNI, KEY_SHARE, SUPPORTED_GROUPS
  <1>12. ASSUME id = STATUS_REQUEST
        PROVE  x = AddExtension(id, Concat(<<U8(1), U16(0), U16(0)>>))
    <2>1. id \notin GREASE_VALUES \ {GREASE_SLOT_FIRST, GREASE_SLOT_LAST}
      BY <1>12, GreaseIds, OtherIds DEF Sought
    <2> QED
      BY <1>12, <2>1 DEF Extension, GREASE_SLOT_FIRST, GREASE_SLOT_LAST, SIGNATURE_ALGORITHMS, DELEGATED_CREDENTIAL,
        ALPN, ALPS, SCT, EMS, SESSION_TICKET, ECH, COMPRESS_CERT, SUPPORTED_VERSIONS, PSK_MODES,
        EC_POINT_FORMATS, STATUS_REQUEST, RENEGOTIATION_INFO, PADDING, SNI, KEY_SHARE, SUPPORTED_GROUPS
  <1>13. ASSUME id = RENEGOTIATION_INFO
        PROVE  x = AddExtension(id, U8(0))
    <2>1. id \notin GREASE_VALUES \ {GREASE_SLOT_FIRST, GREASE_SLOT_LAST}
      BY <1>13, GreaseIds, OtherIds DEF Sought
    <2> QED
      BY <1>13, <2>1 DEF Extension, GREASE_SLOT_FIRST, GREASE_SLOT_LAST, SIGNATURE_ALGORITHMS, DELEGATED_CREDENTIAL,
        ALPN, ALPS, SCT, EMS, SESSION_TICKET, ECH, COMPRESS_CERT, SUPPORTED_VERSIONS, PSK_MODES,
        EC_POINT_FORMATS, STATUS_REQUEST, RENEGOTIATION_INFO, PADDING, SNI, KEY_SHARE, SUPPORTED_GROUPS
  <1>14. ASSUME id = PADDING
        PROVE  x = IF p.target_padding_len > 0
              THEN PaddingExtension(payload, p.target_padding_len, overhead)
              ELSE Empty
    <2>1. id \notin GREASE_VALUES \ {GREASE_SLOT_FIRST, GREASE_SLOT_LAST}
      BY <1>14, GreaseIds, OtherIds DEF Sought
    <2> QED
      BY <1>14, <2>1 DEF Extension, GREASE_SLOT_FIRST, GREASE_SLOT_LAST, SIGNATURE_ALGORITHMS, DELEGATED_CREDENTIAL,
        ALPN, ALPS, SCT, EMS, SESSION_TICKET, ECH, COMPRESS_CERT, SUPPORTED_VERSIONS, PSK_MODES,
        EC_POINT_FORMATS, STATUS_REQUEST, RENEGOTIATION_INFO, PADDING, SNI, KEY_SHARE, SUPPORTED_GROUPS
  <1>15. ASSUME id = SNI
        PROVE  x = AddExtension(SNI, ServerNameData(h.host))
    <2>1. id \notin GREASE_VALUES \ {GREASE_SLOT_FIRST, GREASE_SLOT_LAST}
      BY <1>15, GreaseIds, OtherIds DEF Sought
    <2> QED
      BY <1>15, <2>1 DEF Extension, GREASE_SLOT_FIRST, GREASE_SLOT_LAST, SIGNATURE_ALGORITHMS, DELEGATED_CREDENTIAL,
        ALPN, ALPS, SCT, EMS, SESSION_TICKET, ECH, COMPRESS_CERT, SUPPORTED_VERSIONS, PSK_MODES,
        EC_POINT_FORMATS, STATUS_REQUEST, RENEGOTIATION_INFO, PADDING, SNI, KEY_SHARE, SUPPORTED_GROUPS
  <1>16. ASSUME id = SUPPORTED_GROUPS
        PROVE  x = AddExtension(id, SupportedGroupsData(p, h.grease))
    <2>1. id \notin GREASE_VALUES \ {GREASE_SLOT_FIRST, GREASE_SLOT_LAST}
      BY <1>16, GreaseIds, OtherIds DEF Sought
    <2> QED
      BY <1>16, <2>1 DEF Extension, GREASE_SLOT_FIRST, GREASE_SLOT_LAST, SIGNATURE_ALGORITHMS, DELEGATED_CREDENTIAL,
        ALPN, ALPS, SCT, EMS, SESSION_TICKET, ECH, COMPRESS_CERT, SUPPORTED_VERSIONS, PSK_MODES,
        EC_POINT_FORMATS, STATUS_REQUEST, RENEGOTIATION_INFO, PADDING, SNI, KEY_SHARE, SUPPORTED_GROUPS
  <1>17. ASSUME id = KEY_SHARE
        PROVE  x = AddExtension(id, KeyShareData(p, h.grease, h.key))
    <2>1. id \notin GREASE_VALUES \ {GREASE_SLOT_FIRST, GREASE_SLOT_LAST}
      BY <1>17, GreaseIds, OtherIds DEF Sought
    <2> QED
      BY <1>17, <2>1 DEF Extension, GREASE_SLOT_FIRST, GREASE_SLOT_LAST, SIGNATURE_ALGORITHMS, DELEGATED_CREDENTIAL,
        ALPN, ALPS, SCT, EMS, SESSION_TICKET, ECH, COMPRESS_CERT, SUPPORTED_VERSIONS, PSK_MODES,
        EC_POINT_FORMATS, STATUS_REQUEST, RENEGOTIATION_INFO, PADDING, SNI, KEY_SHARE, SUPPORTED_GROUPS
  <1>18. ASSUME id \in GREASE_VALUES \ {GREASE_SLOT_FIRST, GREASE_SLOT_LAST}
        PROVE  x = IF p.has_grease THEN AddExtension(id, Empty) ELSE Empty
    <2>1. /\ id \notin Sought /\ id # GREASE_SLOT_FIRST /\ id # GREASE_SLOT_LAST
          /\ id \notin {SIGNATURE_ALGORITHMS, DELEGATED_CREDENTIAL, ALPN, ALPS, SCT, EMS,
                        SESSION_TICKET, ECH, COMPRESS_CERT, SUPPORTED_VERSIONS, PSK_MODES,
                        EC_POINT_FORMATS, STATUS_REQUEST, RENEGOTIATION_INFO, PADDING}
      BY <1>18, GreaseIds, OtherIds
    <2> QED
      BY <1>18, <2>1 DEF Extension, Sought
  <1>19. ASSUME id \notin PlainIds \cup Sought \cup GREASE_VALUES
         PROVE  x = Empty
    BY <1>19 DEF Extension, Sought, PlainIds
  <1> HIDE DEF x
  <1> QED
    BY <1>1, <1>2, <1>3, <1>4, <1>5, <1>6, <1>7, <1>8, <1>9,
       <1>10, <1>11, <1>12, <1>13, <1>14, <1>15, <1>16, <1>17, <1>18, <1>19 DEF x

\* padding never makes a hello longer than its target.
LEMMA PaddingBlock ==
    ASSUME NEW payload, Block(payload), NEW target \in Nat, NEW overhead \in Nat, target < 1000
    PROVE  LET x == PaddingExtension(payload, target, overhead)
           IN  \/ x = Empty /\ target <= payload.len + overhead + 4
               \/ /\ payload.len + overhead + x.len = target
                  /\ \E d : Block(d) /\ d.len < 2000 /\ x = AddExtension(PADDING, d)
  <1> DEFINE n == target - (payload.len + overhead) - 4
             d == Slice(n, 0)
             x == PaddingExtension(payload, target, overhead)
  <1>1. payload.len \in Nat
    BY DEF Block
  <1>2. CASE target > payload.len + overhead + 4
    <2>1. n \in Nat /\ n < 1000 /\ payload.len + overhead + (4 + n) = target
      BY <1>1, <1>2
    <2>2. x = AddExtension(PADDING, d)
      BY <1>2 DEF PaddingExtension
    <2> HIDE DEF n, x
    <2>3. Block(d) /\ d.len = n
      BY <2>1, SliceBlock
    <2> HIDE DEF d
    <2>4. PADDING \in Nat /\ PADDING < 65536
      BY DEF PADDING
    <2>5. x.len = 4 + n
      BY <2>1, <2>2, <2>3, <2>4, ExtensionBlock
    <2>6. \E e : Block(e) /\ e.len < 2000 /\ x = AddExtension(PADDING, e)
      BY <2>1, <2>2, <2>3
    <2> QED
      BY <2>1, <2>5, <2>6 DEF x
  <1>3. CASE ~(target > payload.len + overhead + 4)
    <2>1. x = Empty
      BY <1>3 DEF PaddingExtension
    <2>2. target <= payload.len + overhead + 4
      BY <1>1, <1>3
    <2> QED
      BY <2>1, <2>2
  <1> QED
    BY <1>2, <1>3

\* What apply_profile appends for an id, whatever it is.
LEMMA ExtensionShape ==
    ASSUME NEW p, Listed(p), NEW h, Fine(h), NEW overhead \in Nat, NEW payload, Block(payload), NEW id
    PROVE  Shaped(p, h, id, Extension(p, h, overhead, payload, id))
  <1> DEFINE x == Extension(p, h, overhead, payload, id)
             Good(y) == Shaped(p, h, id, y)
             Rest == {SIGNATURE_ALGORITHMS, DELEGATED_CREDENTIAL, ALPN, ALPS,
                      SCT, EMS, SESSION_TICKET, ECH, COMPRESS_CERT, SUPPORTED_VERSIONS, PSK_MODES,
                      EC_POINT_FORMATS, STATUS_REQUEST, RENEGOTIATION_INFO, PADDING}
  <1>1. /\ PlainIds \cap Sought = {} /\ Rest \subseteq Word /\ Rest \cap Sought = {}
        /\ GREASE_VALUES \subseteq Word /\ GREASE_VALUES \cap Sought = {} /\ Sought \subseteq Word
        /\ PlainIds = Rest \cup {GREASE_SLOT_FIRST, GREASE_SLOT_LAST}
    BY OtherIds DEF PlainIds
  <1>2. CASE id \in Sought
    <2>1. x = AddExtension(id, DataOf(p, h, id))
      <3>1. SNI # KEY_SHARE /\ SNI # SUPPORTED_GROUPS /\ KEY_SHARE # SUPPORTED_GROUPS
        BY DEF SNI, KEY_SHARE, SUPPORTED_GROUPS
      <3>2. CASE id = SNI
        BY <3>2, Arms DEF DataOf
      <3>3. CASE id = KEY_SHARE
        BY <3>1, <3>3, Arms DEF DataOf
      <3>4. CASE id = SUPPORTED_GROUPS
        BY <3>1, <3>4, Arms DEF DataOf
      <3> QED
        BY <1>2, <3>2, <3>3, <3>4 DEF Sought
    <2>2. Block(DataOf(p, h, id)) /\ DataOf(p, h, id).len < 2000
      BY <1>2, SoughtData
    <2>3. id \in Word
      BY <1>1, <1>2
    <2> HIDE DEF x
    <2>4. Good(x)
      BY <2>1, <2>2, <2>3 DEF Shaped
    <2> QED
      BY <2>4 DEF x
  <1>3. CASE id \notin Sought
    <2>1. /\ Good(Empty)
          /\ \A t, d : t \in Word /\ t \notin Sought /\ Block(d) /\ d.len < 2000
                           => Good(AddExtension(t, d))
      BY <1>3, ShapedPlain
    <2> DEFINE Short(d) == Block(d) /\ d.len < 2000
    <2>2. /\ Short(Empty) /\ Short(U8(0)) /\ Short(Joined(U8(2), U16(2))) /\ Short(Joined(U8(1), U8(0)))
          /\ Short(Joined(U8(1), U8(1))) /\ Short(Concat(<<U8(1), U16(0), U16(0)>>))
      BY SmallData
    <2>3. \A d : Short(d) /\ id \in Rest => Good(AddExtension(id, d))
      BY <1>1, <2>1
    <2> HIDE DEF Good
    <2>4. CASE id = GREASE_SLOT_FIRST
      <3>1. h.grease.ext_first \in Word /\ h.grease.ext_first \notin Sought
        BY <1>1 DEF Fine
      <3>2. x \in {AddExtension(h.grease.ext_first, Empty), Empty}
        BY <2>4, Arms
      <3> QED
        BY <2>1, <2>2, <3>1, <3>2 DEF Good
    <2>5. CASE id = GREASE_SLOT_LAST
      <3>1. h.grease.ext_last \in Word /\ h.grease.ext_last \notin Sought
        BY <1>1 DEF Fine
      <3>2. x \in {AddExtension(h.grease.ext_last, U8(0)), Empty}
        BY <2>5, Arms
      <3> QED
        BY <2>1, <2>2, <3>1, <3>2 DEF Good
    <2>6. CASE id \in GREASE_VALUES \ {GREASE_SLOT_FIRST, GREASE_SLOT_LAST}
      <3>1. id \in Word /\ id \notin Sought
        BY <1>1, <1>3, <2>6
      <3>2. x \in {AddExtension(id, Empty), Empty}
        BY <2>6, Arms
      <3> QED
        BY <2>1, <2>2, <3>1, <3>2 DEF Good
    <2>7. CASE id \notin PlainIds \cup Sought \cup GREASE_VALUES
      BY <2>1, <2>7, Arms DEF Good
    <2>8. CASE id \in {SIGNATURE_ALGORITHMS, DELEGATED_CREDENTIAL}
      <3>1. /\ Short(SignaturesData(3)) /\ Short(SignaturesData(7))
        BY SignaturesBlock
      <3>2. p.signatures \in {3, 7} /\ p.delegated_signatures \in {3, 7}
        BY DEF Listed
      <3>3. x = AddExtension(id, SignaturesData(p.signatures))
            \/ x = AddExtension(id, SignaturesData(p.delegated_signatures))
        BY <2>8, Arms
      <3> HIDE DEF Short
      <3> QED
        BY <2>3, <2>8, <3>1, <3>2, <3>3 DEF Good
    <2>9. CASE id \in {ALPN, ALPS}
      <3>1. Short(ProtocolList(<<2, 8>>)) /\ Short(ProtocolList(<<2>>))
        BY ProtocolsBlock
      <3>2. p.alpn = <<2, 8>> /\ p.alps_protocols \in {<<2>>, <<>>}
        BY DEF Listed
      <3>3. CASE id = ALPN
        <4>1. x = AddExtension(id, ProtocolList(p.alpn))
          BY <3>3, Arms
        <4> HIDE DEF Short
        <4> QED
          BY <2>3, <2>9, <3>1, <3>2, <4>1 DEF Good
      <3>4. CASE id = ALPS
        <4>1. x = IF p.alps_protocols # <<>>
                  THEN AddExtension(id, ProtocolList(p.alps_protocols))
                  ELSE Empty
          BY <3>4, Arms
        <4> HIDE DEF Short
        <4> QED
          BY <2>1, <2>3, <2>9, <3>1, <3>2, <4>1 DEF Good
      <3> QED
        BY <2>9, <3>3, <3>4
    <2>10. CASE id \in {SCT, EMS, SESSION_TICKET, ECH, COMPRESS_CERT, PSK_MODES, EC_POINT_FORMATS,
                        STATUS_REQUEST, RENEGOTIATION_INFO}
      <3>1. Short(EchData)
        BY EchBlock
      <3>2. \/ x = AddExtension(id, Empty) \/ x = AddExtension(id, EchData)
            \/ x = AddExtension(id, Joined(U8(2), U16(2)))
            \/ x = AddExtension(id, Joined(U8(1), U8(IF id = PSK_MODES THEN 1 ELSE 0)))
            \/ x = AddExtension(id, Concat(<<U8(1), U16(0), U16(0)>>))
            \/ x = AddExtension(id, U8(0))
        BY <2>10, Arms
      <3>3. Short(Joined(U8(1), U8(IF id = PSK_MODES THEN 1 ELSE 0)))
        BY <2>2
      <3>4. id \in Rest
        BY <2>10
      <3> HIDE DEF Short, x, Rest
      <3> QED
        BY <2>2, <2>3, <3>1, <3>2, <3>3, <3>4 DEF Good, x
    <2>11. CASE id = SUPPORTED_VERSIONS
      <3>1. h.grease.version \in Word
        BY <1>1 DEF Fine
      <3>2. /\ Block(SupportedVersionsData(p, h.grease))
            /\ SupportedVersionsData(p, h.grease).len <= 7
        BY <3>1, VersionsBlock
      <3>3. SupportedVersionsData(p, h.grease).len \in Nat
        BY <3>2 DEF Block
      <3>4. x = AddExtension(id, SupportedVersionsData(p, h.grease))
        BY <2>11, Arms
      <3>5. Short(SupportedVersionsData(p, h.grease))
        BY <3>2, <3>3
      <3> HIDE DEF Short, x
      <3> QED
        BY <2>3, <2>11, <3>4, <3>5 DEF Good, x
    <2>12. CASE id = PADDING
      <3>1. p.target_padding_len \in Nat /\ p.target_padding_len < 1000
        BY DEF Listed
      <3> DEFINE y == PaddingExtension(payload, p.target_padding_len, overhead)
      <3>2. x = y \/ x = Empty
        BY <2>12, Arms
      <3>3. y = Empty \/ \E d : Block(d) /\ d.len < 2000 /\ y = AddExtension(PADDING, d)
        BY <3>1, PaddingBlock
      <3> HIDE DEF x, y
      <3> QED
        BY <2>1, <2>3, <2>12, <3>2, <3>3 DEF Good, x
    <2>13. \/ id = GREASE_SLOT_FIRST \/ id = GREASE_SLOT_LAST
           \/ id \in GREASE_VALUES \ {GREASE_SLOT_FIRST, GREASE_SLOT_LAST}
           \/ id \notin PlainIds \cup Sought \cup GREASE_VALUES
           \/ id \in {SIGNATURE_ALGORITHMS, DELEGATED_CREDENTIAL} \/ id \in {ALPN, ALPS}
           \/ id \in {SCT, EMS, SESSION_TICKET, ECH, COMPRESS_CERT, PSK_MODES, EC_POINT_FORMATS,
                      STATUS_REQUEST, RENEGOTIATION_INFO}
           \/ id = SUPPORTED_VERSIONS \/ id = PADDING
      BY <1>3 DEF PlainIds
    <2> QED
      BY <2>4, <2>5, <2>6, <2>7, <2>8, <2>9, <2>10, <2>11, <2>12, <2>13
  <1> QED
    BY <1>2, <1>3

-----------------------------------------------------------------------------
(* apply of a profile, turn by turn. *)

\* apply of a profile, with the order it shuffled given a name.
LEMMA ApplyIsApplied ==
    ASSUME NEW p, NEW hello, NEW o
    PROVE  ApplyProfile(p, hello, o) = Applied(p, hello, o, FinalOrder(p, hello))
  BY DEF ApplyProfile, Applied, FinalOrder

\* The intermediate lists of apply exist, as many as one asks for.
LEMMA AppliedIter ==
    ASSUME NEW p, NEW hello, NEW o, NEW order, NEW n \in Nat
    PROVE  \E h : AppliedBy(h, p, hello, o, order, n)
  <1> DEFINE D(k) == SUBSET (1 .. k)
             Good(h, k) == h = [s \in D(k) |->
                         IF s = {} THEN Empty ELSE Grown(p, hello, o, h[s \ {Max(s)}], order[Max(s)])]
             T == {k \in Nat : \E h : Good(h, k)}
  <1>1. 0 \in T
    <2>1. D(0) = {{}}
      OBVIOUS
    <2>2. Good([s \in D(0) |-> Empty], 0)
      BY <2>1
    <2> QED
      BY <2>2
  <1>2. ASSUME NEW k \in Nat, k \in T PROVE k + 1 \in T
    <2>1. PICK h : Good(h, k)
      BY <1>2
    <2> DEFINE g == [s \in D(k + 1) |-> IF s = {} THEN Empty
                        ELSE IF k + 1 \in s THEN Grown(p, hello, o, h[s \ {k + 1}], order[k + 1]) ELSE h[s]]
    <2>2. {} \in D(k) /\ h[{}] = Empty
      BY <2>1
    <2>3. ASSUME NEW s \in D(k + 1), s # {}
          PROVE  g[s] = Grown(p, hello, o, g[s \ {Max(s)}], order[Max(s)])
      <3>1. CASE k + 1 \in s
        <4>1. Max(s) = k + 1
          BY <3>1, MaxOfSet
        <4>2. s \ {k + 1} \in D(k) /\ s \ {k + 1} \in D(k + 1)
          OBVIOUS
        <4>3. g[s \ {k + 1}] = h[s \ {k + 1}]
          BY <2>2, <4>2
        <4> QED
          BY <3>1, <4>1, <4>3
      <3>2. CASE k + 1 \notin s
        <4>1. \A x \in s : x \in 1 .. k
          BY <3>2
        <4>2. s \in D(k) /\ s \ {Max(s)} \in D(k) /\ s \ {Max(s)} \in D(k + 1)
          BY <4>1
        <4>3. g[s] = h[s]
          BY <2>3, <3>2
        <4>4. g[s \ {Max(s)}] = h[s \ {Max(s)}]
          <5>1. CASE s \ {Max(s)} = {}
            BY <2>2, <4>2, <5>1
          <5>2. CASE s \ {Max(s)} # {}
            <6>1. k + 1 \notin s \ {Max(s)}
              BY <3>2
            <6> QED
              BY <4>2, <5>2, <6>1
          <5> QED
            BY <5>1, <5>2
        <4>5. h[s] = Grown(p, hello, o, h[s \ {Max(s)}], order[Max(s)])
          BY <2>1, <2>3, <4>2
        <4> QED
          BY <4>3, <4>4, <4>5
      <3> QED
        BY <3>1, <3>2
    <2>4. g[{}] = Empty
      OBVIOUS
    <2>5. Good(g, k + 1)
      <3> DEFINE rhs == [s \in D(k + 1) |-> IF s = {} THEN Empty ELSE Grown(p, hello, o, g[s \ {Max(s)}], order[Max(s)])]
      <3>1. \A s \in D(k + 1) : rhs[s] = g[s]
        BY <2>3, <2>4
      <3>2. g = [s \in D(k + 1) |-> g[s]] /\ rhs = [s \in D(k + 1) |-> rhs[s]]
        OBVIOUS
      <3> HIDE DEF g, rhs
      <3>3. g = rhs
        BY <3>1, <3>2
      <3> QED
        BY <3>3 DEF rhs
    <2> HIDE DEF g, Good
    <2> QED
      BY <2>5
  <1> HIDE DEF T
  <1>3. Nat \subseteq T
    BY <1>1, <1>2, SetInduction
  <1> QED
    BY <1>3 DEF T, AppliedBy

\* What is built after each turn of apply_profile, at last all of it.
LEMMA AppliedTrace ==
    ASSUME NEW p, NEW hello, NEW o, NEW order, NEW n \in Nat, DOMAIN order = 1 .. n
    PROVE  \E v : Turns(v, p, hello, o, order, n) /\ Applied(p, hello, o, order) = v[n]
  <1> DEFINE iter[s \in SUBSET (DOMAIN order)] == IF s = {} THEN Empty ELSE Grown(p, hello, o, iter[s \ {Max(s)}], order[Max(s)])
  <1>1. Applied(p, hello, o, order) = iter[DOMAIN order]
    BY DEF Applied, Grown, FoldLeft, MapThenFoldSet
  <1>2. iter = [s \in SUBSET (1 .. n) |->
                         IF s = {} THEN Empty ELSE Grown(p, hello, o, iter[s \ {Max(s)}], order[Max(s)])]
    <2> DEFINE Good(h) == h = [s \in SUBSET (DOMAIN order) |-> IF s = {} THEN Empty ELSE Grown(p, hello, o, h[s \ {Max(s)}], order[Max(s)])]
    <2>1. \E h : Good(h)
      <3>1. PICK h : AppliedBy(h, p, hello, o, order, n)
        BY AppliedIter
      <3>2. Good(h)
        BY <3>1 DEF AppliedBy
      <3> QED
        BY <3>2
    <2>2. iter = CHOOSE h : Good(h)
      OBVIOUS
    <2> HIDE DEF Good, iter
    <2>3. Good(iter)
      BY <2>1, <2>2
    <2> QED
      BY <2>3 DEF Good
  <1> HIDE DEF iter
  <1> DEFINE v == [k \in 0 .. n |-> iter[1 .. k]]
  <1>3. v[0] = Empty
    <2>1. 1 .. 0 = {} /\ {} \in SUBSET (1 .. n)
      OBVIOUS
    <2>2. iter[{}] = Empty
      BY <1>2, <2>1
    <2> QED
      BY <2>1, <2>2
  <1>4. ASSUME NEW k \in 1 .. n PROVE v[k] = Grown(p, hello, o, v[k - 1], order[k])
    <2>1. 1 .. k \in SUBSET (1 .. n) /\ 1 .. k # {} /\ Max(1 .. k) = k
      <3>1. (k - 1) \in Nat /\ (k - 1) + 1 = k /\ k \in 1 .. k
        OBVIOUS
      <3>2. 1 .. k \in SUBSET (1 .. ((k - 1) + 1))
        BY <3>1
      <3>3. Max(1 .. k) = (k - 1) + 1
        BY <3>1, <3>2, MaxOfSet
      <3> QED
        BY <3>1, <3>3
    <2>2. (1 .. k) \ {k} = 1 .. (k - 1)
      OBVIOUS
    <2>3. iter[1 .. k] = Grown(p, hello, o, iter[(1 .. k) \ {Max(1 .. k)}], order[Max(1 .. k)])
      BY <1>2, <2>1
    <2>4. iter[1 .. k] = Grown(p, hello, o, iter[1 .. (k - 1)], order[k])
      BY <2>1, <2>2, <2>3
    <2> QED
      BY <2>4
  <1>5. Applied(p, hello, o, order) = v[n]
    BY <1>1
  <1> HIDE DEF v
  <1>6. Turns(v, p, hello, o, order, n)
    BY <1>3, <1>4 DEF Turns
  <1> QED
    BY <1>5, <1>6

-----------------------------------------------------------------------------
(* The shuffle of the inner extensions. *)

\* The intermediate orders of the shuffle exist, as many as one asks for.
LEMMA ShuffleIter ==
    ASSUME NEW order, NEW rnd, NEW n \in Nat
    PROVE  \E f : ShuffledBy(f, order, rnd, n)
  <1> DEFINE Value(f, i) == IF i >= n THEN order ELSE Turn(f[i + 1], rnd, i)
             Part(f, k) == /\ f = [i \in Nat |-> f[i]]
                           /\ \A i \in Nat : i + k >= n => f[i] = Value(f, i)
             T == {k \in Nat : \E f : Part(f, k)}
  <1>1. 0 \in T
    <2> DEFINE f == [i \in Nat |-> order]
    <2>1. Part(f, 0)
      OBVIOUS
    <2> QED
      BY <2>1
  <1>2. ASSUME NEW k \in Nat, k \in T PROVE k + 1 \in T
    <2>1. PICK f : Part(f, k)
      BY <1>2
    <2> DEFINE g == [i \in Nat |-> IF i + (k + 1) = n THEN Value(f, i) ELSE f[i]]
    <2>2. g = [i \in Nat |-> g[i]]
      OBVIOUS
    <2>3. ASSUME NEW i \in Nat, i + (k + 1) >= n PROVE g[i] = Value(g, i)
      <3>1. i + 1 \in Nat /\ (i + 1) + (k + 1) # n
        BY <2>3
      <3>2. g[i + 1] = f[i + 1]
        BY <3>1
      <3>3. Value(g, i) = Value(f, i)
        BY <3>2
      <3>4. CASE i + (k + 1) = n
        BY <3>3, <3>4
      <3>5. CASE i + (k + 1) # n
        <4>1. i + k >= n
          BY <2>3, <3>5
        <4>2. f[i] = Value(f, i)
          BY <2>1, <4>1
        <4> QED
          BY <3>3, <3>5, <4>2
      <3> QED
        BY <3>4, <3>5
    <2> HIDE DEF g
    <2>4. Part(g, k + 1)
      BY <2>2, <2>3
    <2> HIDE DEF Part
    <2> QED
      BY <2>4
  <1> HIDE DEF T
  <1>3. Nat \subseteq T
    BY <1>1, <1>2, SetInduction
  <1>4. PICK f : Part(f, n)
    BY <1>3 DEF T
  <1>5. ASSUME NEW i \in Nat PROVE f[i] = Value(f, i)
    <2>1. i + n >= n
      OBVIOUS
    <2> QED
      BY <1>4, <2>1
  <1>6. f = [i \in Nat |-> f[i]]
    BY <1>4
  <1> QED
    BY <1>5, <1>6 DEF ShuffledBy

\* A swap of two inner ids keeps the ids and leaves both ends in place.
LEMMA SwapReorders ==
    ASSUME NEW m \in Nat, NEW s, NEW t, Reordered(s, t, m),
           NEW a \in 2 .. (m - 1), NEW b \in 2 .. (m - 1)
    PROVE  Reordered([s EXCEPT ![a] = s[b], ![b] = s[a]], t, m)
  <1> DEFINE u == [s EXCEPT ![a] = s[b], ![b] = s[a]]
             other(i) == IF i = a THEN b ELSE IF i = b THEN a ELSE i
  <1>1. s = [i \in 1 .. m |-> s[i]] /\ s[1] = t[1] /\ s[m] = t[m]
    BY DEF Reordered
  <1>2. DOMAIN s = 1 .. m
    BY <1>1
  <1>3. u = [i \in 1 .. m |-> s[other(i)]]
    BY <1>1, <1>2
  <1>4. \A i \in 1 .. m : other(i) \in 1 .. m /\ other(other(i)) = i
    OBVIOUS
  <1>5. 1 \in 1 .. m /\ m \in 1 .. m /\ other(1) = 1 /\ other(m) = m
    OBVIOUS
  <1> HIDE DEF u, other
  <1>6. u = [i \in 1 .. m |-> u[i]] /\ \A i \in 1 .. m : u[i] = s[other(i)]
    BY <1>3
  <1>7. u[1] = t[1] /\ u[m] = t[m]
    <2>1. u[1] = s[other(1)] /\ u[m] = s[other(m)]
      BY <1>5, <1>6
    <2> QED
      BY <1>1, <1>5, <2>1
  <1>8. ASSUME NEW i \in 1 .. m PROVE \E j \in 1 .. m : u[j] = t[i]
    <2>1. PICK j \in 1 .. m : s[j] = t[i]
      BY DEF Reordered
    <2>2. other(j) \in 1 .. m /\ u[other(j)] = s[j]
      BY <1>4, <1>6
    <2> QED
      BY <2>1, <2>2
  <1>11. ASSUME NEW i \in 1 .. m PROVE \E j \in 1 .. m : u[i] = t[j]
    <2>1. other(i) \in 1 .. m /\ u[i] = s[other(i)]
      BY <1>4, <1>6
    <2> QED
      BY <2>1 DEF Reordered
  <1>9. ASSUME \A i, j \in 1 .. m : t[i] = t[j] => i = j, NEW i \in 1 .. m, NEW j \in 1 .. m, u[i] = u[j]
        PROVE  i = j
    <2>1. s[other(i)] = s[other(j)] /\ other(i) \in 1 .. m /\ other(j) \in 1 .. m
      BY <1>4, <1>6, <1>9
    <2>2. other(i) = other(j)
      BY <1>9, <2>1 DEF Reordered
    <2> QED
      BY <1>4, <2>2
  <1>10. Reordered(u, t, m)
    BY <1>6, <1>7, <1>8, <1>9, <1>11 DEF Reordered
  <1> QED
    BY <1>10 DEF u

\* shuffle_middle moves what is between the ends, and loses nothing.
LEMMA ShuffleReorders ==
    ASSUME NEW m \in 4 .. 8, NEW order, ListOf(order, m),
           NEW rnd \in [1 .. 6 -> Nat]
    PROVE  Reordered(ShuffleMiddle(order, rnd), order, m)
  <1> DEFINE n == m - 2
             from[i \in Nat] == IF i >= Len(order) - 2 THEN order
                                ELSE [from[i + 1] EXCEPT ![i + 2] = from[i + 1][(rnd[i] % (i + 1)) + 2],
                                                         ![(rnd[i] % (i + 1)) + 2] = from[i + 1][i + 2]]
  <1>1. ShuffleMiddle(order, rnd) = from[1]
    <2>1. ~(Len(order) < 4)
      BY DEF ListOf
    <2> QED
      BY <2>1 DEF ShuffleMiddle
  <1>2. n \in Nat /\ Len(order) - 2 = n /\ m \in Nat /\ m <= 8 /\ n = m - 2
    BY SMTT(30) DEF ListOf
  <1>3. ShuffledBy(from, order, rnd, n)
    <2>1. \E f : ShuffledBy(f, order, rnd, n)
      BY <1>2, ShuffleIter, Zenon
    <2>2. from = CHOOSE f : ShuffledBy(f, order, rnd, n)
      BY <1>2, Zenon DEF ShuffledBy, Turn
    <2> HIDE DEF from, n
    <2> QED
      BY <2>1, <2>2
  <1> HIDE DEF from, n
  <1>4. \A i \in Nat : from[i] = IF i >= n THEN order ELSE Turn(from[i + 1], rnd, i)
    BY <1>3 DEF ShuffledBy
  <1>5. ASSUME NEW i \in 1 .. (n - 1) PROVE (rnd[i] % (i + 1)) + 2 \in 2 .. (m - 1) /\ i + 2 \in 2 .. (m - 1)
    <2>1. i \in 1 .. 5 /\ rnd[i] \in Nat /\ i <= m - 3
      BY <1>2
    <2>2. rnd[i] % (i + 1) \in 0 .. i
      <3>1. CASE i = 1
        BY <2>1, <3>1
      <3>2. CASE i = 2
        BY <2>1, <3>2
      <3>3. CASE i = 3
        BY <2>1, <3>3
      <3>4. CASE i = 4
        BY <2>1, <3>4
      <3>5. CASE i = 5
        BY <2>1, <3>5
      <3> QED
        BY <2>1, <3>1, <3>2, <3>3, <3>4, <3>5
    <2> DEFINE r == rnd[i] % (i + 1)
    <2>3. r \in 0 .. i
      BY <2>2
    <2> HIDE DEF r
    <2>4. r + 2 \in 2 .. (m - 1) /\ i + 2 \in 2 .. (m - 1)
      BY <2>1, <2>3
    <2> QED
      BY <2>4 DEF r
  <1>6. Reordered(order, order, m)
    BY DEF Reordered, ListOf
  <1> DEFINE T == {k \in Nat : k <= n - 1 => Reordered(from[n - k], order, m)}
  <1>7. 0 \in T
    <2>1. from[n] = order /\ n - 0 = n
      BY <1>2, <1>4
    <2> QED
      BY <1>6, <2>1
  <1>8. ASSUME NEW k \in Nat, k \in T PROVE k + 1 \in T
    <2> SUFFICES ASSUME k + 1 <= n - 1 PROVE Reordered(from[n - (k + 1)], order, m)
      OBVIOUS
    <2> DEFINE i == n - (k + 1)
    <2>1. i \in 1 .. (n - 1) /\ i \in Nat /\ ~(i >= n) /\ i + 1 = n - k
      BY <1>2
    <2> HIDE DEF i
    <2>2. Reordered(from[i + 1], order, m)
      <3>1. k <= n - 1
        BY <1>2
      <3>2. Reordered(from[n - k], order, m)
        BY <1>8, <3>1
      <3> QED
        BY <2>1, <3>2
    <2>3. from[i] = Turn(from[i + 1], rnd, i)
      BY <1>4, <2>1
    <2>4. (rnd[i] % (i + 1)) + 2 \in 2 .. (m - 1) /\ i + 2 \in 2 .. (m - 1)
      BY <1>5, <2>1
    <2>5. m \in Nat
      BY <1>2
    <2>6. Reordered(Turn(from[i + 1], rnd, i), order, m)
      BY <2>2, <2>4, <2>5, SwapReorders DEF Turn
    <2> QED
      BY <2>3, <2>6 DEF i
  <1> HIDE DEF T
  <1>9. Nat \subseteq T
    BY <1>7, <1>8, SetInduction
  <1>10. n - 1 \in Nat /\ n - 1 <= n - 1 /\ n - (n - 1) = 1
    BY <1>2 DEF n
  <1>11. Reordered(from[n - (n - 1)], order, m)
    BY <1>9, <1>10 DEF T
  <1> QED
    BY <1>1, <1>10, <1>11

-----------------------------------------------------------------------------
(* The order a profile ends up with. *)

\* An order of five to eight ids that names the three sought ones is Ordered.
LEMMA OrderFacts ==
    ASSUME NEW p, NEW m \in 5 .. 8, ListOf(p.extension_order, m),
           NEW a \in 1 .. m, NEW b \in 1 .. m, NEW c \in 1 .. m,
           p.extension_order[a] = SNI, p.extension_order[b] = KEY_SHARE,
           p.extension_order[c] = SUPPORTED_GROUPS
    PROVE  Ordered(p)
  <1>1. DOMAIN p.extension_order = 1 .. m
    BY DEF ListOf
  <1>2. m \in 5 .. 20 /\ m \in 4 .. 8
    OBVIOUS
  <1> QED
    BY <1>1, <1>2 DEF Ordered, Sought

\* The order of each browser profile names SNI, the key share and the groups.
LEMMA ProfilesOrdered ==
    ASSUME NEW p \in BrowserProfiles
    PROVE  Ordered(p)
  <1>1. Ordered(CHROME_131)
    <2>1. CHROME_131.extension_order = ExtensionOrder.CHROMIUM_131
      BY DEF CHROME_131
    <2>2. /\ ListOf(ExtensionOrder.CHROMIUM_131, 7) /\ ExtensionOrder.CHROMIUM_131[2] = SNI
          /\ ExtensionOrder.CHROMIUM_131[5] = KEY_SHARE
          /\ ExtensionOrder.CHROMIUM_131[3] = SUPPORTED_GROUPS
      BY DEF ExtensionOrder, ListOf
    <2>3. 7 \in 5 .. 8 /\ 2 \in 1 .. 7 /\ 5 \in 1 .. 7 /\ 3 \in 1 .. 7
      BY SMTT(30)
    <2> QED
      BY <2>1, <2>2, <2>3, OrderFacts
  <1>2. Ordered(CHROME_140)
    <2>1. CHROME_140.extension_order = ExtensionOrder.CHROME_140
      BY DEF CHROME_131, CHROME_140
    <2>2. /\ ListOf(ExtensionOrder.CHROME_140, 7) /\ ExtensionOrder.CHROME_140[2] = SNI
          /\ ExtensionOrder.CHROME_140[4] = KEY_SHARE
          /\ ExtensionOrder.CHROME_140[3] = SUPPORTED_GROUPS
      BY DEF ExtensionOrder, ListOf
    <2>3. 7 \in 5 .. 8 /\ 2 \in 1 .. 7 /\ 4 \in 1 .. 7 /\ 3 \in 1 .. 7
      BY SMTT(30)
    <2> QED
      BY <2>1, <2>2, <2>3, OrderFacts
  <1>3. Ordered(EDGE_130)
    <2>1. EDGE_130.extension_order = ExtensionOrder.EDGE_130
      BY DEF CHROME_131, EDGE_130
    <2>2. /\ ListOf(ExtensionOrder.EDGE_130, 8) /\ ExtensionOrder.EDGE_130[2] = SNI
          /\ ExtensionOrder.EDGE_130[5] = KEY_SHARE
          /\ ExtensionOrder.EDGE_130[3] = SUPPORTED_GROUPS
      BY DEF ExtensionOrder, ListOf
    <2>3. 8 \in 5 .. 8 /\ 2 \in 1 .. 8 /\ 5 \in 1 .. 8 /\ 3 \in 1 .. 8
      BY SMTT(30)
    <2> QED
      BY <2>1, <2>2, <2>3, OrderFacts
  <1>4. Ordered(SAFARI_17)
    <2>1. SAFARI_17.extension_order = ExtensionOrder.SAFARI_17
      BY DEF CHROME_131, SAFARI_17
    <2>2. /\ ListOf(ExtensionOrder.SAFARI_17, 5) /\ ExtensionOrder.SAFARI_17[1] = SNI
          /\ ExtensionOrder.SAFARI_17[4] = KEY_SHARE
          /\ ExtensionOrder.SAFARI_17[3] = SUPPORTED_GROUPS
      BY DEF ExtensionOrder, ListOf
    <2>3. 5 \in 5 .. 8 /\ 1 \in 1 .. 5 /\ 4 \in 1 .. 5 /\ 3 \in 1 .. 5
      BY SMTT(30)
    <2> QED
      BY <2>1, <2>2, <2>3, OrderFacts
  <1>5. Ordered(FIREFOX_130)
    <2>1. FIREFOX_130.extension_order = ExtensionOrder.FIREFOX_133
      BY DEF CHROME_131, SAFARI_17, FIREFOX_130
    <2>2. /\ ListOf(ExtensionOrder.FIREFOX_133, 6) /\ ExtensionOrder.FIREFOX_133[1] = SNI
          /\ ExtensionOrder.FIREFOX_133[4] = KEY_SHARE
          /\ ExtensionOrder.FIREFOX_133[3] = SUPPORTED_GROUPS
      BY DEF ExtensionOrder, ListOf
    <2>3. 6 \in 5 .. 8 /\ 1 \in 1 .. 6 /\ 4 \in 1 .. 6 /\ 3 \in 1 .. 6
      OBVIOUS
    <2> QED
      BY <2>1, <2>2, <2>3, OrderFacts
  <1>6. Ordered(CALIBRATED)
    <2> DEFINE order == <<GREASE_SLOT_FIRST, SNI, EMS, SUPPORTED_GROUPS, ALPN, STATUS_REQUEST,
                          DELEGATED_CREDENTIAL, SIGNATURE_ALGORITHMS, SCT, KEY_SHARE,
                          PSK_MODES, EC_POINT_FORMATS, SUPPORTED_VERSIONS, COMPRESS_CERT,
                          ALPS, ECH, SESSION_TICKET, RENEGOTIATION_INFO, \h4469,
                          GREASE_SLOT_LAST>>
    <2>1. CALIBRATED.extension_order = order
      BY DEF CHROME_131, CHROME_140, CALIBRATED
    <2>2. ~CALIBRATED.shuffle_extensions
      <3>1. "shuffle_extensions" \in DOMAIN CHROME_140
        BY DEF CHROME_131, CHROME_140
      <3>2. CALIBRATED.shuffle_extensions = FALSE
        BY <3>1 DEF CALIBRATED
      <3> QED
        BY <3>2, Zenon
    <2>3. /\ ListOf(order, 20) /\ order[2] = SNI /\ order[10] = KEY_SHARE
          /\ order[4] = SUPPORTED_GROUPS
      BY DEF ListOf
    <2> HIDE DEF order
    <2>4. DOMAIN order = 1 .. 20
      BY <2>3 DEF ListOf
    <2>5. 2 \in DOMAIN order /\ 10 \in DOMAIN order /\ 4 \in DOMAIN order /\ 20 \in 5 .. 20
      BY <2>4
    <2> QED
      BY <2>1, <2>2, <2>3, <2>5 DEF Ordered, Sought
  <1> QED
    BY <1>1, <1>2, <1>3, <1>4, <1>5, <1>6 DEF BrowserProfiles

\* The order in which apply_profile works.
LEMMA FinalOrders ==
    ASSUME NEW p, Ordered(p), NEW h, p.shuffle_extensions => h.rnd \in [1 .. 6 -> Nat]
    PROVE  \E m \in 5 .. 20 : /\ ListOf(p.extension_order, m)
                              /\ Reordered(FinalOrder(p, h), p.extension_order, m)
  <1>1. PICK m \in 5 .. 20 : ListOf(p.extension_order, m) /\ (p.shuffle_extensions => m \in 4 .. 8)
    BY DEF Ordered
  <1>2. CASE p.shuffle_extensions
    <2>1. m \in 4 .. 8 /\ h.rnd \in [1 .. 6 -> Nat]
      BY <1>1, <1>2
    <2>2. Reordered(ShuffleMiddle(p.extension_order, h.rnd), p.extension_order, m)
      BY <1>1, <2>1, ShuffleReorders
    <2> QED
      BY <1>1, <1>2, <2>2 DEF FinalOrder
  <1>3. CASE ~p.shuffle_extensions
    <2>1. Reordered(p.extension_order, p.extension_order, m)
      BY <1>1 DEF ListOf, Reordered
    <2> QED
      BY <1>1, <1>3, <2>1 DEF FinalOrder
  <1> QED
    BY <1>2, <1>3

-----------------------------------------------------------------------------
(* The extension list of a hello. *)

\* What a turn appends is a short block.
LEMMA ShapedBlock ==
    ASSUME NEW p, NEW h, NEW id, NEW x, Shaped(p, h, id, x)
    PROVE  Block(x) /\ x.len < 2004
  <1>1. CASE x = Empty
    BY <1>1, EmptyBlock
  <1>2. CASE x # Empty
    <2>1. PICK t, d : t \in Word /\ Block(d) /\ d.len < 2000 /\ x = AddExtension(t, d)
      BY <1>2 DEF Shaped
    <2>2. t \in Nat /\ t < 65536 /\ d.len < 65536 /\ d.len \in Nat
      BY <2>1, BlockReads DEF Word
    <2>3. Block(AddExtension(t, d)) /\ AddExtension(t, d).len = 4 + d.len
      BY <2>1, <2>2, ExtensionBlock
    <2> QED
      BY <2>1, <2>2, <2>3
  <1> QED
    BY <1>1, <1>2

\* The extensions of a hello stay a block, and short enough for a record.
LEMMA TurnsBlock ==
    ASSUME NEW p, Listed(p), NEW h, Fine(h), NEW o \in Nat, NEW m \in Nat, NEW order, NEW v,
           Turns(v, p, h, o, order, m)
    PROVE  \A k \in Nat : k <= m => Block(v[k]) /\ v[k].len <= 2004 * k
  <1> DEFINE T == {k \in Nat : k <= m => Block(v[k]) /\ v[k].len <= 2004 * k}
  <1>1. 0 \in T
    BY EmptyBlock DEF Turns
  <1>2. ASSUME NEW k \in Nat, k \in T PROVE k + 1 \in T
    <2> SUFFICES ASSUME k + 1 <= m PROVE Block(v[k + 1]) /\ v[k + 1].len <= 2004 * (k + 1)
      OBVIOUS
    <2> DEFINE x == Extension(p, h, o, v[k], order[k + 1])
    <2>1. k + 1 \in 1 .. m /\ (k + 1) - 1 = k /\ Block(v[k]) /\ v[k].len <= 2004 * k
      BY <1>2
    <2>2. Shaped(p, h, order[k + 1], x)
      BY <2>1, ExtensionShape
    <2>3. v[k + 1] = Joined(v[k], x)
      BY <2>1 DEF Turns, Grown
    <2> HIDE DEF x, T
    <2>4. Block(x) /\ x.len < 2004
      BY <2>2, ShapedBlock
    <2>5. Block(v[k + 1]) /\ v[k + 1].len = v[k].len + x.len
      BY <2>1, <2>3, <2>4, Joined2
    <2>6. v[k].len \in Nat /\ x.len \in Nat
      BY <2>1, <2>4, BlockReads
    <2> QED
      BY <2>1, <2>4, <2>5, <2>6
  <1> HIDE DEF T
  <1>3. Nat \subseteq T
    BY <1>1, <1>2, SetInduction
  <1> QED
    BY <1>3 DEF T

\* apply_profile for the profiles there are.
LEMMA ProfileTurns ==
    ASSUME NEW p \in BrowserProfiles, NEW h, Fine(h),
           p.shuffle_extensions => h.rnd \in [1 .. 6 -> Nat], NEW o \in Nat
    PROVE  \E m \in 5 .. 20 : \E v :
              /\ ListOf(p.extension_order, m)
              /\ Reordered(FinalOrder(p, h), p.extension_order, m)
              /\ Turns(v, p, h, o, FinalOrder(p, h), m)
              /\ ApplyProfile(p, h, o) = v[m]
  <1> DEFINE order == FinalOrder(p, h)
  <1>1. PICK m \in 5 .. 20 : ListOf(p.extension_order, m) /\ Reordered(order, p.extension_order, m)
    BY FinalOrders, ProfilesOrdered
  <1>2. DOMAIN order = 1 .. m /\ m \in Nat
    BY <1>1 DEF Reordered
  <1>3. ApplyProfile(p, h, o) = Applied(p, h, o, order)
    BY ApplyIsApplied
  <1> HIDE DEF order
  <1>4. PICK v : Turns(v, p, h, o, order, m) /\ Applied(p, h, o, order) = v[m]
    <2>1. m \in Nat
      BY <1>2
    <2>2. DOMAIN order = 1 .. m
      BY <1>2
    <2> QED
      BY <2>1, <2>2, AppliedTrace
  <1> QED
    BY <1>1, <1>3, <1>4 DEF order

\* The extensions of a hello.
LEMMA ProfileBlock ==
    ASSUME NEW p \in BrowserProfiles, NEW h, Fine(h),
           p.shuffle_extensions => h.rnd \in [1 .. 6 -> Nat], NEW o \in Nat
    PROVE  Block(ApplyProfile(p, h, o)) /\ ApplyProfile(p, h, o).len <= 40080
  <1>1. PICK m \in 5 .. 20 : \E v : /\ Turns(v, p, h, o, FinalOrder(p, h), m)
                                    /\ ApplyProfile(p, h, o) = v[m]
    BY ProfileTurns
  <1>2. PICK v : Turns(v, p, h, o, FinalOrder(p, h), m) /\ ApplyProfile(p, h, o) = v[m]
    BY <1>1
  <1>3. m \in Nat /\ m <= m /\ m <= 20
    OBVIOUS
  <1>4. Block(v[m]) /\ v[m].len <= 2004 * m
    BY <1>2, <1>3, TurnsBlock, ProfilesListed
  <1>5. v[m].len \in Nat
    BY <1>4, BlockReads
  <1> QED
    BY <1>2, <1>3, <1>4, <1>5

-----------------------------------------------------------------------------
(* make_client_hello. *)

\* ClientHello::serialize lays out these fields.
LEMMA ClientBodyBlock ==
    ASSUME NEW random, Block(random), random.len = 32, NEW sid, Block(sid), sid.len = 32,
           NEW n \in Nat, n < 100, NEW suites, WordSeq(suites, n),
           NEW x, Block(x), x.len < 65000
    PROVE  ClientFields(ClientBody(random, sid, suites, x), random, sid, suites, n, x)
  <1> DEFINE a1 == U16(Tls12)
             a3 == U8(sid.len)
             a5 == U16(2 * Len(suites))
             a6 == U16s(suites)
             a7 == U8(1)
             a8 == U8(0)
             a9 == U16(x.len)
             b == Concat(<<a1, random, a3, sid, a5, a6, a7, a8, a9, x>>)
  <1>1. ClientBody(random, sid, suites, x) = b
    BY DEF ClientBody
  <1>2. Len(suites) = n /\ x.len \in Nat
    BY BlockReads DEF WordSeq
  <1>3. 2 * n \in Nat /\ 2 * n < 65536 /\ x.len < 65536 /\ Tls12 \in Nat /\ Tls12 < 65536
    BY <1>2 DEF Tls12
  <1>4. /\ Block(a1) /\ a1.len = 2 /\ Get(a1, 0) = Tls12
        /\ Block(a5) /\ a5.len = 2 /\ Get(a5, 0) = 2 * n
        /\ Block(a9) /\ a9.len = 2 /\ Get(a9, 0) = x.len
    BY <1>2, <1>3, WordBlock
  <1>5. /\ Block(a3) /\ a3.len = 1 /\ Get(a3, 0) = 32
        /\ Block(a7) /\ a7.len = 1 /\ Get(a7, 0) = 1
        /\ Block(a8) /\ a8.len = 1
    <2>1. 32 \in Nat /\ 32 < 256 /\ 1 \in Nat /\ 1 < 256 /\ 0 \in Nat
      OBVIOUS
    <2> QED
      BY <2>1, IntegerBlocks
  <1>6. Block(a6) /\ a6.len = 2 * n
    BY ValuesBlock, SeqWords
  <1>7. b = Concat(<<a1, random, a3, sid, a5, a6, a7, a8, a9, x>>)
    OBVIOUS
  <1> HIDE DEF a1, a3, a5, a6, a7, a8, a9, b
  <1>8. /\ Block(b)
        /\ b.len = a1.len + random.len + a3.len + sid.len + a5.len + a6.len + a7.len + a8.len + a9.len
                   + x.len
        /\ Lies(b, 0, a1)
        /\ Lies(b, a1.len, random)
        /\ Lies(b, a1.len + random.len, a3)
        /\ Lies(b, a1.len + random.len + a3.len, sid)
        /\ Lies(b, a1.len + random.len + a3.len + sid.len, a5)
        /\ Lies(b, a1.len + random.len + a3.len + sid.len + a5.len, a6)
        /\ Lies(b, a1.len + random.len + a3.len + sid.len + a5.len + a6.len, a7)
        /\ Lies(b, a1.len + random.len + a3.len + sid.len + a5.len + a6.len + a7.len, a8)
        /\ Lies(b, a1.len + random.len + a3.len + sid.len + a5.len + a6.len + a7.len + a8.len, a9)
        /\ Lies(b, a1.len + random.len + a3.len + sid.len + a5.len + a6.len + a7.len + a8.len + a9.len, x)
    BY <1>4, <1>5, <1>6, <1>7, Concat10
  <1>9. /\ Lies(b, 2, random) /\ Lies(b, 34, a3) /\ Lies(b, 35, sid) /\ Lies(b, 67, a5)
        /\ Lies(b, 69, a6)
    BY <1>4, <1>5, <1>6, <1>8
  <1>10. Lies(b, 69 + 2 * n, a7) /\ Lies(b, 71 + 2 * n, a9) /\ Lies(b, 73 + 2 * n, x)
    <2>1. /\ a1.len + random.len + a3.len + sid.len + a5.len + a6.len = 69 + 2 * n
          /\ a1.len + random.len + a3.len + sid.len + a5.len + a6.len + a7.len + a8.len = 71 + 2 * n
          /\ a1.len + random.len + a3.len + sid.len + a5.len + a6.len + a7.len + a8.len + a9.len
                = 73 + 2 * n
      BY <1>4, <1>5, <1>6
    <2> QED
      BY <1>8, <2>1
  <1>11. b.len = 73 + 2 * n + x.len
    BY <1>2, <1>4, <1>5, <1>6, <1>8
  <1>12. Get(b, 0) = Tls12 /\ Get(b, 34) = 32 /\ Get(b, 67) = 2 * n
    BY <1>4, <1>5, <1>8, <1>9, LiesHead
  <1>13. Get(b, 69 + 2 * n) = 1 /\ Get(b, 71 + 2 * n) = x.len
    BY <1>4, <1>5, <1>10, LiesHead
  <1> QED
    BY <1>1, <1>8, <1>9, <1>10, <1>11, <1>12, <1>13 DEF ClientFields, a6

\* Version and tag are where the server looks for them.
LEMMA SessionIdBlock ==
    ASSUME NEW h, Fine(h)
    PROVE  /\ Block(SessionId(h)) /\ SessionId(h).len = 32
           /\ Get(SessionId(h), 0) = h.version /\ Get(SessionId(h), 16) = Get(h.tag, 0)
  <1> DEFINE a == U8(h.version)
             n == Slice(15, Noise)
             s == Concat(<<a, n, h.tag>>)
  <1>1. SessionId(h) = s
    BY DEF SessionId
  <1>2. Block(h.tag) /\ h.tag.len = 16 /\ h.version \in Nat /\ h.version < 256
    BY DEF Fine
  <1>3. Block(a) /\ a.len = 1 /\ Get(a, 0) = h.version
    BY <1>2, IntegerBlocks
  <1>4. Block(n) /\ n.len = 15
    BY SliceBlock, NoiseAssumption
  <1>5. s = Concat(<<a, n, h.tag>>)
    OBVIOUS
  <1> HIDE DEF a, n, s
  <1>6. /\ Block(s) /\ s.len = a.len + n.len + h.tag.len
        /\ Lies(s, 0, a) /\ Lies(s, a.len + n.len, h.tag)
    BY <1>2, <1>3, <1>4, <1>5, Concat3
  <1>7. s.len = 32 /\ Lies(s, 16, h.tag)
    BY <1>2, <1>3, <1>4, <1>6
  <1>8. Get(s, 0) = Get(a, 0) /\ Get(s, 16) = Get(h.tag, 0)
    BY <1>2, <1>3, <1>6, <1>7, LiesHead
  <1> QED
    BY <1>1, <1>3, <1>6, <1>7, <1>8

\* make_client_hello is one handshake record around the hello.
LEMMA HelloIsRecord ==
    ASSUME NEW p, NEW h
    PROVE  MakeClientHello(p, h) = Record(Handshake, p.record_layer_version, HelloPayload(p, h))
  BY DEF MakeClientHello, ClientHello, ClientBody, HelloBody, HelloPayload, Extensions, SessionId

\* The suites of a hello, and the bytes total_overhead counts for everything but
\* the extensions.
LEMMA OfferedWords ==
    ASSUME NEW p, NEW h, Hello(p, h)
    PROVE  \E n \in 3 .. 4 : /\ WordSeq(OfferedSuites(p, h.grease), n)
                             /\ Overhead(p, h.grease) = 77 + 2 * n
  <1>1. Listed(p) /\ h.grease.cipher \in Word
    <2>1. h.grease.cipher \in GREASE_VALUES
      BY DEF Hello, Fine
    <2> QED
      BY <2>1, ProfilesListed, GreaseValues DEF Hello, Word
  <1>2. PICK n \in 3 .. 4 : WordSeq(Greased(p, h.grease.cipher, p.cipher_suites), n)
    BY <1>1, GreasedWords
  <1>3. WordSeq(OfferedSuites(p, h.grease), n)
    BY <1>2 DEF OfferedSuites
  <1>4. Len(OfferedSuites(p, h.grease)) = n
    BY <1>3 DEF WordSeq
  <1>5. Overhead(p, h.grease) = 77 + 2 * n
    BY <1>4 DEF Overhead
  <1> QED
    BY <1>3, <1>5

\* A ClientHello of ours: its extensions are a block, and its fields are in place.
LEMMA HelloFields ==
    ASSUME NEW p, NEW h, Hello(p, h)
    PROVE  /\ Block(Extensions(p, h)) /\ Extensions(p, h).len <= 40080
           /\ \E n \in 3 .. 4 :
                 /\ WordSeq(OfferedSuites(p, h.grease), n)
                 /\ Overhead(p, h.grease) = 77 + 2 * n
                 /\ ClientFields(HelloBody(p, h), h.salt, SessionId(h), OfferedSuites(p, h.grease), n,
                                 Extensions(p, h))
  <1>1. PICK n \in 3 .. 4 : /\ WordSeq(OfferedSuites(p, h.grease), n)
                            /\ Overhead(p, h.grease) = 77 + 2 * n
    BY OfferedWords
  <1>2. Overhead(p, h.grease) \in Nat /\ n \in Nat /\ n < 100
    BY <1>1
  <1>3. Block(Extensions(p, h)) /\ Extensions(p, h).len <= 40080
    BY <1>2, ProfileBlock DEF Extensions, Hello
  <1>4. Extensions(p, h).len \in Nat /\ Extensions(p, h).len < 65000
    BY <1>3, BlockReads
  <1>5. Block(h.salt) /\ h.salt.len = 32 /\ Block(SessionId(h)) /\ SessionId(h).len = 32
    BY SessionIdBlock DEF Hello, Fine
  <1>6. ClientFields(HelloBody(p, h), h.salt, SessionId(h), OfferedSuites(p, h.grease), n,
                     Extensions(p, h))
    BY <1>1, <1>2, <1>3, <1>4, <1>5, ClientBodyBlock DEF HelloBody
  <1> QED
    BY <1>1, <1>3, <1>6

\* The record of make_client_hello: it holds its payload, which holds its body.
LEMMA HelloRecordBlock ==
    ASSUME NEW p, NEW h, Hello(p, h)
    PROVE  LET r == MakeClientHello(p, h)
               m == HelloPayload(p, h)
               b == HelloBody(p, h)
           IN  /\ Block(b) /\ Block(m) /\ m.len = 4 + b.len /\ Get(m, 0) = ClientType /\ Lies(m, 4, b)
               /\ IsRecord(r) /\ r.len = 5 + m.len
               /\ Get(r, 0) = Handshake /\ Get(r, 1) \in ProtocolVersions /\ Get(r, 3) = m.len
               /\ Lies(r, 5, m)
  <1> DEFINE r == MakeClientHello(p, h)
             m == HelloPayload(p, h)
             b == HelloBody(p, h)
             v == p.record_layer_version
  <1>1. Block(b) /\ b.len \in Nat /\ b.len < 65000
    <2> DEFINE x == Extensions(p, h)
    <2>1. x.len <= 40080 /\ x.len \in Nat
      BY HelloFields, BlockReads
    <2>2. PICK n \in 3 .. 4 :
             ClientFields(b, h.salt, SessionId(h), OfferedSuites(p, h.grease), n, x)
      BY HelloFields
    <2>3. Block(b) /\ b.len = 73 + 2 * n + x.len
      BY <2>2 DEF ClientFields
    <2> QED
      BY <2>1, <2>3
  <1>2. v \in ProtocolVersions
    BY ProfilesListed DEF Hello, Listed, ProtocolVersions
  <1>3. v \in Nat /\ v < 65536
    BY <1>2 DEF ProtocolVersions, Tls10, Tls12, Tls13
  <1>4. /\ ClientType \in Nat /\ ClientType < 256 /\ Handshake \in Nat /\ Handshake < 256
    BY DEF ClientType, Handshake
  <1>5. r = Record(Handshake, v, m) /\ m = HandshakeMessage(ClientType, b)
    BY HelloIsRecord DEF HelloPayload
  <1> HIDE DEF r, m, b, v
  <1>6. Block(m) /\ m.len = 4 + b.len /\ Get(m, 0) = ClientType /\ Lies(m, 4, b)
    BY <1>1, <1>4, <1>5, MessageBlock
  <1>7. m.len < 65536
    BY <1>1, <1>6
  <1>8. /\ IsRecord(r) /\ r.len = 5 + m.len
        /\ Get(r, 0) = Handshake /\ Get(r, 1) = v /\ Get(r, 3) = m.len
        /\ Lies(r, 5, m)
    BY <1>3, <1>4, <1>5, <1>6, <1>7, RecordBlock
  <1> QED
    BY <1>1, <1>2, <1>6, <1>8 DEF r, m, b

-----------------------------------------------------------------------------
(* make_server_hello. *)

\* The least number of a set is one of its.
LEMMA MinOfSet ==
    ASSUME NEW T \in SUBSET Nat, T # {}
    PROVE  Min(T) \in T /\ \A y \in T : Min(T) <= y
  <1>1. \E x \in T : \A y \in T : x <= y
    BY LeastElement
  <1> QED
    BY <1>1, Zenon DEF Min

\* The first suite of one list that the other holds too is found in both, or nowhere.
LEMMA FirstCommonPlace ==
    ASSUME NEW list, NEW n \in Nat, DOMAIN list = 1 .. n, Len(list) = n, NEW other
    PROVE  \/ FirstCommon(list, other) = 0
           \/ /\ FirstCommon(list, other) \in 1 .. n
              /\ list[FirstCommon(list, other)] \in ToSet(other)
              /\ list[FirstCommon(list, other)] \in ToSet(list)
  <1> DEFINE I == {i \in 1 .. n : list[i] \in ToSet(other)}
  <1>1. FirstCommon(list, other) = IF I # {} THEN Min(I) ELSE 0
    BY DEF FirstCommon, SelectInSeq
  <1>2. I \in SUBSET Nat
    OBVIOUS
  <1>3. CASE I # {}
    <2>1. Min(I) \in I
      BY <1>2, <1>3, MinOfSet
    <2>2. \A i \in 1 .. n : list[i] \in ToSet(list)
      BY DEF ToSet
    <2> QED
      BY <1>1, <1>3, <2>1, <2>2
  <1>4. CASE I = {}
    BY <1>1, <1>4
  <1> QED
    BY <1>3, <1>4

\* from_client_hello answers with a suite of both lists, or with the first of its own.
LEMMA SuiteOfBoth ==
    ASSUME NEW offered, NEW k \in Nat, DOMAIN offered = 1 .. k, Len(offered) = k,
           NEW profile, NEW n \in Nat, DOMAIN profile.cipher_suites = 1 .. n,
           Len(profile.cipher_suites) = n
    PROVE  LET s == SelectedSuite(offered, profile)
           IN  s = \h1301 \/ (s \in ToSet(offered) /\ s \in ToSet(profile.cipher_suites))
  <1> DEFINE own == profile.cipher_suites
             s == SelectedSuite(offered, profile)
  <1>1. CASE profile.honor_cipher_order
    <2>1. s = IF FirstCommon(own, offered) = 0 THEN \h1301 ELSE own[FirstCommon(own, offered)]
      BY <1>1 DEF SelectedSuite, FirstCommon
    <2>2. \/ FirstCommon(own, offered) = 0
          \/ /\ FirstCommon(own, offered) \in 1 .. n
             /\ own[FirstCommon(own, offered)] \in ToSet(offered)
             /\ own[FirstCommon(own, offered)] \in ToSet(own)
      BY FirstCommonPlace
    <2> HIDE DEF s, own
    <2>3. s = \h1301 \/ (s \in ToSet(offered) /\ s \in ToSet(own))
      BY <2>1, <2>2
    <2> QED
      BY <2>3, Zenon DEF s, own
  <1>2. CASE ~profile.honor_cipher_order
    <2>1. s = IF FirstCommon(offered, own) = 0 THEN \h1301 ELSE offered[FirstCommon(offered, own)]
      BY <1>2 DEF SelectedSuite, FirstCommon
    <2>2. \/ FirstCommon(offered, own) = 0
          \/ /\ FirstCommon(offered, own) \in 1 .. k
             /\ offered[FirstCommon(offered, own)] \in ToSet(own)
             /\ offered[FirstCommon(offered, own)] \in ToSet(offered)
      BY FirstCommonPlace
    <2> HIDE DEF s, own
    <2>3. s = \h1301 \/ (s \in ToSet(offered) /\ s \in ToSet(own))
      BY <2>1, <2>2
    <2> QED
      BY <2>3, Zenon DEF s, own
  <1> QED
    BY <1>1, <1>2

\* ServerHello::serialize lays out these fields.
LEMMA ServerBodyBlock ==
    ASSUME NEW random, Block(random), random.len = 32, NEW sid, Block(sid), sid.len = 32,
           NEW suite \in Nat, NEW x, Block(x), x.len < 65000
    PROVE  ServerFields(ServerBody(random, sid, suite, x), random, sid, suite, x)
  <1> DEFINE a1 == U16(Tls12)
             a3 == U8(sid.len)
             a5 == U16(suite)
             a6 == U8(0)
             a7 == U16(x.len)
             b == Concat(<<a1, random, a3, sid, a5, a6, a7, x>>)
  <1>1. ServerBody(random, sid, suite, x) = b
    BY DEF ServerBody
  <1>2. x.len \in Nat /\ x.len < 65536 /\ Tls12 \in Nat /\ Tls12 < 65536
    BY BlockReads DEF Tls12
  <1>3. /\ Block(a1) /\ a1.len = 2 /\ Get(a1, 0) = Tls12
        /\ Block(a7) /\ a7.len = 2 /\ Get(a7, 0) = x.len
    BY <1>2, WordBlock
  <1>4. /\ Block(a3) /\ a3.len = 1 /\ Get(a3, 0) = 32
        /\ Block(a6) /\ a6.len = 1
        /\ Block(a5) /\ a5.len = 2 /\ Get(a5, 0) = suite % 65536
    <2>1. 32 \in Nat /\ 32 < 256 /\ 0 \in Nat
      OBVIOUS
    <2> QED
      BY <2>1, IntegerBlocks
  <1>5. b = Concat(<<a1, random, a3, sid, a5, a6, a7, x>>)
    OBVIOUS
  <1> HIDE DEF a1, a3, a5, a6, a7, b
  <1>6. /\ Block(b)
        /\ b.len = a1.len + random.len + a3.len + sid.len + a5.len + a6.len + a7.len + x.len
        /\ Lies(b, 0, a1)
        /\ Lies(b, a1.len, random)
        /\ Lies(b, a1.len + random.len, a3)
        /\ Lies(b, a1.len + random.len + a3.len, sid)
        /\ Lies(b, a1.len + random.len + a3.len + sid.len, a5)
        /\ Lies(b, a1.len + random.len + a3.len + sid.len + a5.len, a6)
        /\ Lies(b, a1.len + random.len + a3.len + sid.len + a5.len + a6.len, a7)
        /\ Lies(b, a1.len + random.len + a3.len + sid.len + a5.len + a6.len + a7.len, x)
    BY <1>3, <1>4, <1>5, Concat8
  <1>7. /\ Lies(b, 2, random) /\ Lies(b, 34, a3) /\ Lies(b, 35, sid) /\ Lies(b, 67, a5)
        /\ Lies(b, 70, a7) /\ Lies(b, 72, x)
    BY <1>3, <1>4, <1>6
  <1>8. b.len = 72 + x.len
    BY <1>2, <1>3, <1>4, <1>6
  <1>9. Get(b, 0) = Tls12 /\ Get(b, 34) = 32 /\ Get(b, 67) = suite % 65536 /\ Get(b, 70) = x.len
    BY <1>3, <1>4, <1>6, <1>7, LiesHead
  <1> QED
    BY <1>1, <1>6, <1>7, <1>8, <1>9 DEF ServerFields

\* The two extensions of the answer: the version, and the key share.
LEMMA ServerExtensionsBlock ==
    ASSUME NEW key, Block(key), key.len = 32, NEW profile
    PROVE  LET x == ServerExtensions(key, profile)
           IN  /\ Block(x) /\ x.len = 46
               /\ Get(x, 0) = SUPPORTED_VERSIONS /\ Get(x, 2) = 2
               /\ Get(x, 6) = KEY_SHARE /\ Get(x, 8) = 36
               /\ Get(x, 12) = 32 /\ Lies(x, 14, key)
  <1> DEFINE v == MaxVersion(profile.versions)
             a1 == U16(SUPPORTED_VERSIONS)
             a2 == U16(2)
             a3 == U16(v)
             a4 == U16(KEY_SHARE)
             a5 == U16(key.len + 4)
             a6 == U16(X25519)
             a7 == U16(key.len)
             x == Concat(<<a1, a2, a3, a4, a5, a6, a7, key>>)
  <1>1. ServerExtensions(key, profile) = x
    BY DEF ServerExtensions
  <1>2. v \in {Tls10, Tls12, Tls13}
    BY DEF MaxVersion
  <1>3. /\ v \in Nat /\ v < 65536 /\ SUPPORTED_VERSIONS \in Nat /\ SUPPORTED_VERSIONS < 65536
        /\ KEY_SHARE \in Nat /\ KEY_SHARE < 65536 /\ X25519 \in Nat /\ X25519 < 65536
        /\ key.len + 4 = 36 /\ 36 \in Nat /\ 36 < 65536 /\ 32 \in Nat /\ 32 < 65536
        /\ 2 \in Nat /\ 2 < 65536
    BY <1>2 DEF Tls10, Tls12, Tls13, SUPPORTED_VERSIONS, KEY_SHARE, X25519
  <1> HIDE DEF v
  <1>4. /\ Block(a1) /\ a1.len = 2 /\ Get(a1, 0) = SUPPORTED_VERSIONS
        /\ Block(a2) /\ a2.len = 2 /\ Get(a2, 0) = 2
        /\ Block(a3) /\ a3.len = 2
        /\ Block(a4) /\ a4.len = 2 /\ Get(a4, 0) = KEY_SHARE
    BY <1>3, WordBlock
  <1>5. /\ Block(a5) /\ a5.len = 2 /\ Get(a5, 0) = 36
        /\ Block(a6) /\ a6.len = 2
        /\ Block(a7) /\ a7.len = 2 /\ Get(a7, 0) = 32
    BY <1>3, WordBlock
  <1>6. x = Concat(<<a1, a2, a3, a4, a5, a6, a7, key>>)
    OBVIOUS
  <1> HIDE DEF a1, a2, a3, a4, a5, a6, a7, x
  <1>7. /\ Block(x)
        /\ x.len = a1.len + a2.len + a3.len + a4.len + a5.len + a6.len + a7.len + key.len
        /\ Lies(x, 0, a1)
        /\ Lies(x, a1.len, a2)
        /\ Lies(x, a1.len + a2.len, a3)
        /\ Lies(x, a1.len + a2.len + a3.len, a4)
        /\ Lies(x, a1.len + a2.len + a3.len + a4.len, a5)
        /\ Lies(x, a1.len + a2.len + a3.len + a4.len + a5.len, a6)
        /\ Lies(x, a1.len + a2.len + a3.len + a4.len + a5.len + a6.len, a7)
        /\ Lies(x, a1.len + a2.len + a3.len + a4.len + a5.len + a6.len + a7.len, key)
    BY <1>4, <1>5, <1>6, Concat8
  <1>8. /\ x.len = 46 /\ Lies(x, 2, a2) /\ Lies(x, 6, a4) /\ Lies(x, 8, a5) /\ Lies(x, 12, a7)
        /\ Lies(x, 14, key)
    BY <1>4, <1>5, <1>7
  <1>9. /\ Get(x, 0) = SUPPORTED_VERSIONS /\ Get(x, 2) = 2 /\ Get(x, 6) = KEY_SHARE
        /\ Get(x, 8) = 36 /\ Get(x, 12) = 32
    BY <1>4, <1>5, <1>7, <1>8, LiesHead
  <1> QED
    BY <1>1, <1>7, <1>8, <1>9

-----------------------------------------------------------------------------
(* The answer and the cover flight. *)

\* make_server_hello is one handshake record around the answer.
LEMMA AnswerIsRecord ==
    ASSUME NEW m, NEW key, NEW salt, NEW profile
    PROVE  MakeServerHello(m, key, salt, profile)
              = Record(Handshake, profile.record_layer_version, AnswerPayload(m, key, salt, profile))
  BY DEF MakeServerHello, ServerHello, ServerBody, AnswerBody, AnswerPayload

\* The node's own profile.
LEMMA OwnSuites ==
    ASSUME NEW profile \in ServerProfiles
    PROVE  /\ profile.record_layer_version \in ProtocolVersions
           /\ profile.record_layer_version \in Nat /\ profile.record_layer_version < 65536
           /\ \E n \in Nat : /\ DOMAIN profile.cipher_suites = 1 .. n /\ Len(profile.cipher_suites) = n
                             /\ \A i \in 1 .. n : /\ profile.cipher_suites[i] \in Nat
                                                  /\ profile.cipher_suites[i] < 65536
  <1> DEFINE S == 0 .. (2^16 - 1)
             own == profile.cipher_suites
  <1>1. profile.record_layer_version \in ProtocolVersions /\ own \in Seq(S)
    BY ServerProfilesAssumption
  <1>2. \A s \in S : s \in Nat /\ s < 65536
    BY 2^16 = 65536
  <1> HIDE DEF S, own
  <1>3. Len(own) \in Nat /\ DOMAIN own = 1 .. Len(own) /\ \A i \in 1 .. Len(own) : own[i] \in S
    BY <1>1
  <1>4. profile.record_layer_version \in Nat /\ profile.record_layer_version < 65536
    BY <1>1 DEF ProtocolVersions, Tls10, Tls12, Tls13
  <1>5. \A i \in 1 .. Len(own) : own[i] \in Nat /\ own[i] < 65536
    BY <1>2, <1>3
  <1> QED
    BY <1>1, <1>3, <1>4, <1>5, SMTT(30) DEF own

\* The suite of an answer: one of both lists, if the first is in both.
LEMMA AnswerSuite ==
    ASSUME NEW m, SuiteList(m.cipher_suites), NEW profile \in ServerProfiles
    PROVE  LET s == SelectedSuite(m.cipher_suites, profile)
           IN  /\ s \in Nat /\ s < 65536
               /\ s = \h1301 \/ s \in ToSet(m.cipher_suites)
  <1> DEFINE s == SelectedSuite(m.cipher_suites, profile)
             offered == m.cipher_suites
             own == profile.cipher_suites
  <1>1. PICK k \in Nat : DOMAIN offered = 1 .. k /\ Len(offered) = k
    BY DEF SuiteList
  <1>2. PICK n \in Nat : /\ DOMAIN own = 1 .. n /\ Len(own) = n
                         /\ \A i \in 1 .. n : own[i] \in Nat /\ own[i] < 65536
    BY OwnSuites
  <1>3. s = \h1301 \/ (s \in ToSet(offered) /\ s \in ToSet(own))
    BY <1>1, <1>2, SuiteOfBoth
  <1> HIDE DEF s
  <1>4. \h1301 \in Nat /\ \h1301 < 65536
    OBVIOUS
  <1>5. s \in ToSet(own) => s \in Nat /\ s < 65536
    BY <1>2 DEF ToSet
  <1>6. s \in Nat /\ s < 65536 /\ (s = \h1301 \/ s \in ToSet(offered))
    BY <1>3, <1>4, <1>5
  <1> QED
    BY <1>6 DEF s

\* The record of make_server_hello: it holds its payload, which holds its body.
LEMMA AnswerBlock ==
    ASSUME NEW m, Answerable(m), NEW key, Block(key), key.len = 32, NEW salt, Block(salt),
           salt.len = 32, NEW profile \in ServerProfiles
    PROVE  LET r == MakeServerHello(m, key, salt, profile)
               q == AnswerPayload(m, key, salt, profile)
               b == AnswerBody(m, key, salt, profile)
           IN  /\ ServerFields(b, salt, m.session_id, SelectedSuite(m.cipher_suites, profile),
                               ServerExtensions(key, profile))
               /\ Block(b) /\ Block(q) /\ q.len = 4 + b.len /\ Get(q, 0) = ServerType /\ Lies(q, 4, b)
               /\ IsRecord(r) /\ r.len = 5 + q.len
               /\ Get(r, 0) = Handshake /\ Get(r, 1) \in ProtocolVersions /\ Get(r, 3) = q.len
               /\ Lies(r, 5, q)
  <1> DEFINE r == MakeServerHello(m, key, salt, profile)
             q == AnswerPayload(m, key, salt, profile)
             b == AnswerBody(m, key, salt, profile)
             s == SelectedSuite(m.cipher_suites, profile)
             x == ServerExtensions(key, profile)
             v == profile.record_layer_version
             sid == m.session_id
  <1>1. Block(x) /\ x.len = 46
    BY ServerExtensionsBlock
  <1>2. s \in Nat
    BY AnswerSuite DEF Answerable
  <1>3. b = ServerBody(salt, sid, s, x) /\ Block(sid) /\ sid.len = 32
    BY DEF AnswerBody, Answerable
  <1>4. r = Record(Handshake, v, q) /\ q = HandshakeMessage(ServerType, b)
    BY AnswerIsRecord DEF AnswerPayload
  <1>5. v \in ProtocolVersions /\ v \in Nat /\ v < 65536
    BY OwnSuites
  <1>6. /\ ServerType \in Nat /\ ServerType < 256 /\ Handshake \in Nat /\ Handshake < 256
    BY DEF ServerType, Handshake
  <1> HIDE DEF r, q, b, s, x, v, sid
  <1>7. ServerFields(b, salt, sid, s, x)
    BY <1>1, <1>2, <1>3, ServerBodyBlock
  <1>8. Block(b) /\ b.len = 118
    BY <1>1, <1>7 DEF ServerFields
  <1>9. Block(q) /\ q.len = 4 + b.len /\ Get(q, 0) = ServerType /\ Lies(q, 4, b)
    BY <1>4, <1>6, <1>8, MessageBlock
  <1>10. q.len < 65536
    BY <1>8, <1>9
  <1>11. /\ IsRecord(r) /\ r.len = 5 + q.len
         /\ Get(r, 0) = Handshake /\ Get(r, 1) = v /\ Get(r, 3) = q.len
         /\ Lies(r, 5, q)
    BY <1>4, <1>5, <1>6, <1>9, <1>10, RecordBlock
  <1>12. Get(r, 1) \in ProtocolVersions
    BY <1>5, <1>11
  <1> QED
    BY <1>7, <1>8, <1>9, <1>11, <1>12 DEF r, q, b, s, x, sid

\* The certificate chain of the cover flight, with what its entries are wrapped in.
LEMMA ChainSum == ChainTotal(<<1250, 1100>>) = 2360
  <1> DEFINE lens == <<1250, 1100>>
             Good(h) == h = [s \in SUBSET (DOMAIN lens) |->
                               IF s = {} THEN 0 ELSE h[s \ {Max(s)}] + 3 + lens[Max(s)] + 2]
             iter[s \in SUBSET (DOMAIN lens)] ==
                               IF s = {} THEN 0 ELSE iter[s \ {Max(s)}] + 3 + lens[Max(s)] + 2
  <1>1. ChainTotal(lens) = iter[DOMAIN lens]
    BY DEF ChainTotal, FoldLeft, MapThenFoldSet
  <1>2. DOMAIN lens = {1, 2} /\ lens[1] = 1250 /\ lens[2] = 1100
    OBVIOUS
  <1>3. Max({1}) = 1 /\ Max({2}) = 2 /\ Max({1, 2}) = 2
    <2>1. 0 \in Nat /\ 1 \in Nat /\ 0 + 1 = 1 /\ 1 + 1 = 2
      OBVIOUS
    <2>2. {1} \in SUBSET (1 .. (0 + 1)) /\ {2} \in SUBSET (1 .. (1 + 1))
          /\ {1, 2} \in SUBSET (1 .. (1 + 1))
      OBVIOUS
    <2> QED
      BY <2>1, <2>2, MaxOfSet
  <1>4. SUBSET (DOMAIN lens) = {{}, {1}, {2}, {1, 2}}
    BY <1>2
  <1>5. \E h : Good(h)
    <2> DEFINE h == [s \in SUBSET (DOMAIN lens) |->
                       (IF 1 \in s THEN 1255 ELSE 0) + (IF 2 \in s THEN 1105 ELSE 0)]
               rhs == [s \in SUBSET (DOMAIN lens) |->
                       IF s = {} THEN 0 ELSE h[s \ {Max(s)}] + 3 + lens[Max(s)] + 2]
    <2>1. {1} \ {1} = {} /\ {2} \ {2} = {} /\ {1, 2} \ {2} = {1}
      OBVIOUS
    <2>2. h[{}] = 0 /\ h[{1}] = 1255 /\ h[{2}] = 1105 /\ h[{1, 2}] = 2360
      BY <1>4
    <2>3. rhs[{}] = 0 /\ rhs[{1}] = 1255 /\ rhs[{2}] = 1105 /\ rhs[{1, 2}] = 2360
      <3> HIDE DEF h
      <3>1. {} \in SUBSET (DOMAIN lens) /\ {1} \in SUBSET (DOMAIN lens) /\ {2} \in SUBSET (DOMAIN lens)
            /\ {1, 2} \in SUBSET (DOMAIN lens)
        BY <1>4
      <3> HIDE DEF lens
      <3> QED
        BY <1>2, <1>3, <2>1, <2>2, <3>1
    <2>4. h = [s \in SUBSET (DOMAIN lens) |-> h[s]] /\ rhs = [s \in SUBSET (DOMAIN lens) |-> rhs[s]]
      OBVIOUS
    <2> HIDE DEF h, rhs, lens
    <2>5. \A s \in SUBSET (DOMAIN lens) : h[s] = rhs[s]
      <3> SUFFICES ASSUME NEW s \in SUBSET (DOMAIN lens) PROVE h[s] = rhs[s]
        OBVIOUS
      <3>1. s = {} \/ s = {1} \/ s = {2} \/ s = {1, 2}
        BY <1>4
      <3> QED
        BY <2>2, <2>3, <3>1
    <2>6. h = rhs
      BY <2>4, <2>5
    <2> QED
      BY <2>6 DEF rhs
  <1>6. iter = CHOOSE h : Good(h)
    OBVIOUS
  <1> HIDE DEF iter, Good
  <1>7. Good(iter)
    BY <1>5, <1>6
  <1> HIDE DEF lens
  <1>8. iter[{}] = 0 /\ iter[{1}] = 1255 /\ iter[{1, 2}] = 2360
    <2>1. {1} \ {1} = {} /\ {1, 2} \ {2} = {1}
      OBVIOUS
    <2>2. \A s \in SUBSET (DOMAIN lens) :
             iter[s] = IF s = {} THEN 0 ELSE iter[s \ {Max(s)}] + 3 + lens[Max(s)] + 2
      BY <1>7 DEF Good
    <2>3. {} \in SUBSET (DOMAIN lens) /\ {1} \in SUBSET (DOMAIN lens) /\ {1, 2} \in SUBSET (DOMAIN lens)
      BY <1>4
    <2>4. iter[{}] = 0
      BY <2>2, <2>3
    <2>5. iter[{1}] = iter[{1} \ {Max({1})}] + 3 + lens[Max({1})] + 2
      BY <2>2, <2>3
    <2>6. iter[{1, 2}] = iter[{1, 2} \ {Max({1, 2})}] + 3 + lens[Max({1, 2})] + 2
      BY <2>2, <2>3
    <2>7. iter[{1}] = 1255
      BY <1>2, <1>3, <2>1, <2>4, <2>5
    <2> QED
      BY <1>2, <1>3, <2>1, <2>4, <2>6, <2>7
  <1> QED
    BY <1>1, <1>2, <1>8 DEF lens

\* The cover flight: four records of application data.
LEMMA CoverLengths ==
    /\ DOMAIN NodeDefault = 1 .. 4
    /\ \A i \in 1 .. 4 : CoverRecordLen(NodeDefault[i]) \in Nat /\ CoverRecordLen(NodeDefault[i]) < 65536
                         /\ CoverRecordLen(NodeDefault[i]) >= 41
  <1> DEFINE sum == ChainTotal(<<1250, 1100>>)
  <1>1. sum = 2360
    BY ChainSum
  <1>2. NodeDefault = <<4 + 2 + 7 + SEALED, 4 + 1 + 3 + sum + SEALED, 4 + 2 + 2 + 72 + SEALED,
                        4 + 32 + SEALED>>
    BY DEF NodeDefault, FromChain, ChainTotal
  <1> HIDE DEF sum
  <1>3. /\ DOMAIN NodeDefault = 1 .. 4
        /\ NodeDefault[1] \in Nat /\ NodeDefault[2] \in Nat /\ NodeDefault[3] \in Nat
        /\ NodeDefault[4] \in Nat
    BY <1>1, <1>2 DEF SEALED
  <1>4. ASSUME NEW t \in Nat
        PROVE  CoverRecordLen(t) \in Nat /\ CoverRecordLen(t) < 65536 /\ CoverRecordLen(t) >= 41
    <2> DEFINE n == Min({t, MaxRecordLen})
    <2>1. n \in Nat /\ n <= 16401
      BY DEF Min, MaxRecordLen
    <2> HIDE DEF n
    <2>2. Max({41, n}) \in Nat /\ Max({41, n}) <= 16401 /\ Max({41, n}) >= 41
      BY <2>1 DEF Max
    <2> QED
      BY <2>2 DEF CoverRecordLen, EmptyCoverRecord, n
  <1> QED
    BY <1>3, <1>4

-----------------------------------------------------------------------------
(***************************************************************************)
(* Strangers.                                                              *)
(***************************************************************************)

\* The first blocks of several: no shorter than the first, no longer than all.
LEMMA FirstBlocks ==
    ASSUME NEW n \in Nat, NEW blocks, Blocks(blocks, n), blocks[1].len >= 1, NEW i \in 1 .. n
    PROVE  LET some == Concat(SubSeq(blocks, 1, i))
           IN  some.len \in Nat /\ 1 <= some.len /\ some.len <= Concat(blocks).len
  <1>1. PICK v : /\ v[0] = Empty /\ \A k \in 1 .. n : v[k] = Joined(v[k - 1], blocks[k])
                 /\ Concat(blocks) = v[n]
    BY ConcatTrace DEF Blocks
  <1>2. Concat(SubSeq(blocks, 1, i)) = v[i]
    BY <1>1, ConcatFirst DEF Blocks
  <1> DEFINE T == {k \in Nat : k <= n => Block(v[k])}
             U == {k \in Nat : 1 + k <= n => v[1 + k].len >= 1}
             W == {k \in Nat : i + k <= n => v[i].len <= v[i + k].len}
  <1>3. ASSUME NEW k \in Nat, k + 1 <= n, Block(v[k])
        PROVE  Block(v[k + 1]) /\ v[k + 1].len = v[k].len + blocks[k + 1].len
               /\ blocks[k + 1].len \in Nat
    <2>1. k + 1 \in 1 .. n /\ (k + 1) - 1 = k
      BY <1>3
    <2>2. v[k + 1] = Joined(v[k], blocks[k + 1]) /\ Block(blocks[k + 1])
      BY <1>1, <2>1 DEF Blocks
    <2> QED
      BY <1>3, <2>2, Joined2, BlockReads
  <1>4. Nat \subseteq T
    <2>1. 0 \in T
      BY <1>1, EmptyBlock
    <2>2. ASSUME NEW k \in Nat, k \in T PROVE k + 1 \in T
      <3> SUFFICES ASSUME k + 1 <= n PROVE Block(v[k + 1])
        OBVIOUS
      <3>1. k <= n
        OBVIOUS
      <3> QED
        BY <1>3, <2>2, <3>1
    <2> HIDE DEF T
    <2> QED
      BY <2>1, <2>2, SetInduction
  <1>5. \A k \in Nat : k <= n => Block(v[k]) /\ v[k].len \in Nat
    BY <1>4, BlockReads DEF T
  <1>6. Nat \subseteq U
    <2>1. 0 \in U
      <3> SUFFICES ASSUME 1 <= n PROVE v[1].len >= 1
        OBVIOUS
      <3>1. 0 + 1 = 1 /\ 0 <= n /\ v[0].len = 0
        BY <1>1, EmptyBlock
      <3>2. v[1].len = 0 + blocks[1].len /\ blocks[1].len \in Nat
        BY <1>3, <1>5, <3>1
      <3> QED
        BY <3>2
    <2>2. ASSUME NEW k \in Nat, k \in U PROVE k + 1 \in U
      <3> SUFFICES ASSUME 1 + (k + 1) <= n PROVE v[1 + (k + 1)].len >= 1
        OBVIOUS
      <3>1. k + 1 \in Nat /\ (k + 1) + 1 = 1 + (k + 1) /\ 1 + k = k + 1 /\ k + 1 <= n
        OBVIOUS
      <3>2. v[1 + (k + 1)].len = v[k + 1].len + blocks[1 + (k + 1)].len
            /\ blocks[1 + (k + 1)].len \in Nat
        BY <1>3, <1>5, <3>1
      <3>3. v[k + 1].len >= 1 /\ v[k + 1].len \in Nat
        BY <1>5, <2>2, <3>1
      <3> QED
        BY <3>2, <3>3
    <2> HIDE DEF U
    <2> QED
      BY <2>1, <2>2, SetInduction
  <1>7. Nat \subseteq W
    <2>0. i \in Nat /\ i <= n /\ i + 0 = i
      OBVIOUS
    <2>1. 0 \in W
      BY <1>5, <2>0
    <2>2. ASSUME NEW k \in Nat, k \in W PROVE k + 1 \in W
      <3> SUFFICES ASSUME i + (k + 1) <= n PROVE v[i].len <= v[i + (k + 1)].len
        OBVIOUS
      <3>1. i + k \in Nat /\ (i + k) + 1 = i + (k + 1) /\ i + k <= n
        BY <2>0
      <3>2. v[i + (k + 1)].len = v[i + k].len + blocks[i + (k + 1)].len
            /\ blocks[i + (k + 1)].len \in Nat
        BY <1>3, <1>5, <3>1
      <3>3. v[i].len <= v[i + k].len /\ v[i].len \in Nat /\ v[i + k].len \in Nat
        BY <1>5, <2>0, <2>2, <3>1
      <3> QED
        BY <3>2, <3>3
    <2> HIDE DEF W
    <2> QED
      BY <2>1, <2>2, SetInduction
  <1>8. i - 1 \in Nat /\ 1 + (i - 1) = i /\ n - i \in Nat /\ i + (n - i) = n /\ i <= n /\ i \in Nat
    OBVIOUS
  <1>9. v[i].len >= 1 /\ v[i].len <= v[n].len /\ v[i].len \in Nat
    <2>1. i - 1 \in U /\ n - i \in W
      BY <1>6, <1>7, <1>8
    <2> QED
      BY <1>5, <1>8, <2>1
  <1> QED
    BY <1>1, <1>2, <1>9

\* What a stranger cuts short is shorter than the whole, and a prefix of it.
LEMMA TruncationsCut ==
    ASSUME NEW n \in Nat, NEW fields, Blocks(fields, n), fields[1].len >= 1,
           NEW t \in Truncations(fields)
    PROVE  Cut(Concat(fields), t)
  <1> DEFINE whole == Concat(fields)
             lens == {Concat(SubSeq(fields, 1, i)).len : i \in DOMAIN fields}
             marks == UNION {{k - 1, k, k + 1} : k \in lens}
  <1>1. PICK k \in marks : t = Prefix(whole, k)
    BY DEF Truncations
  <1>2. PICK c \in lens : k \in {c - 1, c, c + 1}
    OBVIOUS
  <1>3. PICK i \in 1 .. n : c = Concat(SubSeq(fields, 1, i)).len
    BY DEF Blocks
  <1>4. c \in Nat /\ 1 <= c /\ c <= whole.len
    BY <1>3, FirstBlocks
  <1>5. Block(whole)
    BY ConcatLaysOut
  <1> HIDE DEF whole, lens, marks
  <1>6. whole.len \in Nat
    BY <1>5, BlockReads
  <1>7. k \in Nat /\ k <= whole.len + 1
    BY <1>2, <1>4, <1>6
  <1> QED
    BY <1>1, <1>7 DEF Cut, whole

-----------------------------------------------------------------------------
(* HandshakeMessage, for every record. *)

\* handle_record of HandshakeMessage: it panics where the parser of the hello does,
\* and what it hands on is what that parser makes of the body, with its extensions
\* parsed.
LEMMA HandshakeReads ==
    ASSUME NEW r, Block(r), StartProcess(r, Handshake).result \in {"some", "panic"}
    PROVE  LET answer == StartProcess(r, Handshake)
               stack  == ExtensionStackParse(ParsedBody(r).value.extensions)
           IN  /\ Block(Payload(r)) /\ Payload(r).len >= 4 /\ Block(Body(r))
               /\ Body(r).len = Payload(r).len - 4
               /\ Get(Payload(r), 0) \in {ClientType, ServerType}
               /\ answer.result = "panic" => ParsedBody(r).result = "panic"
               /\ answer.result = "some" =>
                     /\ ParsedBody(r).result = "some" /\ stack.result = "some"
                     /\ answer.value = [ParsedBody(r).value EXCEPT !.extensions = stack.value]
  <1> DEFINE answer == StartProcess(r, Handshake)
             record == RecordParse(r)
             m == Payload(r)
             hello == ParsedBody(r)
             stack == ExtensionStackParse(hello.value.extensions)
             value == [type |-> Get(r, 0), payload |-> m]
  <1>1. RecordHeaderSize = 5 /\ r.len \in Nat /\ Get(r, 3) \in Nat /\ 5 \in Nat
    BY BlockReads DEF RecordHeaderSize
  <1>2. record = IF ~RecordCanParse(r) THEN Answer("none", 0)
                 ELSE IF Get(r, 1) \notin ProtocolVersions THEN Answer("redirect", RecordHeaderSize)
                 ELSE Found(value, RecordHeaderSize + Get(r, 3))
    BY <1>1 DEF RecordParse, Payload
  <1>3. answer = IF record.result # "some" THEN record
                 ELSE HandleHandshake(record.value, record.used)
    BY DEF StartProcess
  <1> HIDE DEF answer, record
  <1>4. record = Found(value, RecordHeaderSize + Get(r, 3))
    <2>1. CASE ~RecordCanParse(r)
      <3>1. record = Answer("none", 0)
        BY <1>2, <2>1
      <3>2. answer.result = "none"
        BY <1>3, <3>1 DEF Answer
      <3> QED
        BY <3>2 DEF answer
    <2>2. CASE RecordCanParse(r) /\ Get(r, 1) \notin ProtocolVersions
      <3>1. record = Answer("redirect", RecordHeaderSize)
        BY <1>2, <2>2
      <3>2. answer.result = "redirect"
        BY <1>3, <3>1 DEF Answer
      <3> QED
        BY <3>2 DEF answer
    <2> QED
      BY <1>2, <2>1, <2>2
  <1>5. answer = HandleHandshake(value, RecordHeaderSize + Get(r, 3))
    BY <1>3, <1>4 DEF Found
  <1>6. Block(m) /\ m.len \in Nat
    BY <1>1, PartBlock, BlockReads DEF Payload
  <1>7. value.payload = m /\ value.type = Get(r, 0)
    OBVIOUS
  <1> DEFINE used == RecordHeaderSize + Get(r, 3)
             bad == \/ Get(r, 0) # Handshake \/ ~HelloHeaderCanParse(m)
                    \/ hello.result \in {"none", "drop"}
             given == [hello.value EXCEPT !.extensions = stack.value]
  <1>8. answer = IF bad THEN Answer("drop", used)
                 ELSE IF hello.result = "panic" THEN Answer("panic", used)
                 ELSE IF stack.result # "some" THEN Answer("drop", used)
                 ELSE Found(given, used)
    <2>1. hello = IF Get(m, 0) = ClientType THEN ClientHelloParse(Suffix(m, 4))
                                            ELSE ServerHelloParse(Suffix(m, 4))
      BY DEF ParsedBody, Body
    <2> HIDE DEF hello, m
    <2> QED
      BY <1>5, <1>7, <2>1 DEF HandleHandshake
  <1> HIDE DEF value, hello, stack, given, used, bad
  <1>9. answer.result \in {"some", "panic"}
    BY DEF answer
  <1>10. ~bad
    BY <1>8, <1>9 DEF Answer
  <1>11. /\ answer.result = "panic" => hello.result = "panic"
         /\ answer.result = "some" => stack.result = "some" /\ answer.value = given
                                      /\ hello.result # "panic"
    BY <1>8, <1>10 DEF Answer, Found
  <1>12. HelloHeaderCanParse(m) /\ hello.result \notin {"none", "drop"}
    BY <1>10 DEF bad
  <1>13. Get(m, 0) \in {ClientType, ServerType} /\ m.len >= 4
    BY <1>12 DEF HelloHeaderCanParse
  <1>14. hello.result \in {"none", "drop", "panic", "some"}
    <2>1. /\ \A x, n : Answer(x, n).result = x
          /\ \A v, n : Found(v, n).result = "some"
      BY SMTT(30) DEF Answer, Found
    <2>2. \A b : ClientHelloParse(b).result \in {"none", "drop", "panic", "some"}
      BY <2>1 DEF ClientHelloParse
    <2>3. \A b : ServerHelloParse(b).result \in {"none", "drop", "panic", "some"}
      BY <2>1 DEF ServerHelloParse
    <2> QED
      BY <2>2, <2>3 DEF hello, ParsedBody
  <1>15. Block(Suffix(m, 4)) /\ Suffix(m, 4).len = m.len - 4
    <2>1. 4 \in Nat /\ m.len - 4 \in Nat
      BY <1>6, <1>13
    <2> QED
      BY <1>6, <2>1, PartBlock DEF Suffix
  <1>16. answer.result = "some" => hello.result = "some" /\ stack.result = "some" /\ answer.value = given
    BY <1>11, <1>12, <1>14
  <1>17. Body(r) = Suffix(m, 4)
    BY DEF Body
  <1> QED
    BY <1>6, <1>11, <1>13, <1>15, <1>16, <1>17 DEF answer, hello, stack, given, m

\* What a server is handed of a ClientHello.
LEMMA ClientHelloReads ==
    ASSUME NEW r, Block(r), StartProcess(r, Handshake).result = "some",
           Get(Payload(r), 0) = ClientType
    PROVE  LET value == StartProcess(r, Handshake).value
               b     == Body(r)
               stack == ExtensionStackParse(ClientValue(b).extensions)
           IN  /\ Block(b) /\ ClientHelloCanParse(b) /\ stack.result = "some"
               /\ value = [ClientValue(b) EXCEPT !.extensions = stack.value]
  <1> DEFINE b == Body(r)
  <1>1. /\ ParsedBody(r).result = "some"
        /\ ExtensionStackParse(ParsedBody(r).value.extensions).result = "some"
        /\ StartProcess(r, Handshake).value
              = [ParsedBody(r).value EXCEPT
                    !.extensions = ExtensionStackParse(ParsedBody(r).value.extensions).value]
        /\ Block(b)
    BY HandshakeReads
  <1>2. ParsedBody(r) = ClientHelloParse(b)
    BY DEF ParsedBody
  <1>3. Numeric(b)
    BY <1>1, BlockReads
  <1>4. ClientHelloParse(b).value = ClientValue(b) /\ ClientHelloCanParse(b)
    BY <1>1, <1>2, <1>3, ClientHelloStaysInside
  <1> QED
    BY <1>1, <1>2, <1>4

\* What a client is handed of a ServerHello.
LEMMA ServerHelloReads ==
    ASSUME NEW r, Block(r), StartProcess(r, Handshake).result = "some",
           Get(Payload(r), 0) # ClientType
    PROVE  LET value == StartProcess(r, Handshake).value
               b     == Body(r)
               stack == ExtensionStackParse(ServerValue(b).extensions)
           IN  /\ Block(b) /\ stack.result = "some"
               /\ value = [ServerValue(b) EXCEPT !.extensions = stack.value]
  <1> DEFINE b == Body(r)
  <1>1. /\ ParsedBody(r).result = "some"
        /\ ExtensionStackParse(ParsedBody(r).value.extensions).result = "some"
        /\ StartProcess(r, Handshake).value
              = [ParsedBody(r).value EXCEPT
                    !.extensions = ExtensionStackParse(ParsedBody(r).value.extensions).value]
        /\ Block(b)
    BY HandshakeReads
  <1>2. ParsedBody(r) = ServerHelloParse(b)
    BY DEF ParsedBody
  <1>3. Numeric(b)
    BY <1>1, BlockReads
  <1>4. ServerHelloParse(b).value = ServerValue(b)
    BY <1>1, <1>2, <1>3, ServerHelloStaysInside
  <1> QED
    BY <1>1, <1>2, <1>4

-----------------------------------------------------------------------------
(* A record and the hello in it. *)

\* A part is a block, and reads as what it is a part of.
LEMMA PartIsBlock ==
    ASSUME NEW b, Block(b), NEW from \in Nat, NEW n \in Nat
    PROVE  Block(SubBlock(b, from, n)) /\ SubBlock(b, from, n).len = n
  BY PartBlock

\* A part of a byte string reads what the whole reads there, and zero behind its end.
LEMMA PartReads ==
    ASSUME NEW b, Block(b), NEW from \in Nat, NEW n \in Nat, NEW p \in Nat
    PROVE  Get(SubBlock(b, from, n), p) = IF p < n THEN Get(b, from + p) ELSE 0
  <1> DEFINE s == SubBlock(b, from, n)
  <1>1. /\ Block(s) /\ s.len = n
        /\ \A q \in Nat : q < n => Get(s, q) = Get(b, from + q)
        /\ \A q \in Nat : q >= n => Get(s, q) = 0
        /\ \A q \in Nat : q \in DOMAIN s.at <=> q < n /\ from + q \in DOMAIN b.at
    BY PartBlock
  <1> HIDE DEF s
  <1>2. CASE p < n
    BY <1>1, <1>2 DEF s
  <1>3. CASE ~(p < n)
    <2>1. p >= n
      BY <1>3
    <2> QED
      BY <1>1, <1>3, <2>1 DEF s
  <1> QED
    BY <1>2, <1>3

\* The payload of a record is what it was built around.
LEMMA PayloadOfRecord ==
    ASSUME NEW r, NEW m, Block(r), Block(m), Lies(r, 5, m), Get(r, 3) = m.len
    PROVE  Payload(r) = m
  BY CutOut DEF Payload

\* A stranger's hello that is cut anywhere: it makes no reader panic unless its list
\* of suites has an odd length, and where the tag should be there is none.
LEMMA StrangerHelloRead ==
    ASSUME NEW w, Block(w), NEW sid \in {0, 32}, NEW c, StrangerFields(w, sid, c),
           NEW k \in Nat, NEW r, Block(r), Payload(r) = Prefix(w, k), Get(Prefix(w, k), 0) = ClientType
    PROVE  LET answer == StartProcess(r, Handshake)
           IN  /\ c % 2 = 0 => answer.result # "panic"
               /\ answer.result = "some" =>
                     \/ answer.value.session_id.len # 32
                     \/ Get(answer.value.session_id, 16) = 0
  <1> DEFINE answer == StartProcess(r, Handshake)
             t == Prefix(w, k)
             b == Body(r)
  <1>1. /\ Block(t) /\ t.len = k
        /\ \A p \in Nat : Get(t, p) = IF p < k THEN Get(w, 0 + p) ELSE 0
    <2>1. t = SubBlock(w, 0, k) /\ 0 \in Nat
      BY DEF Prefix
    <2> HIDE DEF t
    <2>2. Block(t) /\ t.len = k
      BY <2>1, PartIsBlock, Zenon
    <2>3. \A p \in Nat : Get(t, p) = IF p < k THEN Get(w, 0 + p) ELSE 0
      BY <2>1, PartReads
    <2> QED
      BY <2>2, <2>3
  <1> SUFFICES ASSUME answer.result \in {"some", "panic"}
               PROVE  /\ c % 2 = 0 => answer.result # "panic"
                      /\ answer.result = "some" =>
                            \/ answer.value.session_id.len # 32
                            \/ Get(answer.value.session_id, 16) = 0
    OBVIOUS
  <1>2. k >= 4 /\ Block(b) /\ b.len = k - 4 /\ Get(t, 0) = ClientType
    BY <1>1, HandshakeReads
  <1>3. b = SubBlock(t, 4, k - 4) /\ k - 4 \in Nat
    BY <1>1, <1>2 DEF Body, Suffix
  <1> HIDE DEF t
  <1>4. \A p \in Nat : Get(b, p) = IF p < k - 4 THEN Get(t, 4 + p) ELSE 0
    BY <1>1, <1>3, PartReads
  <1> HIDE DEF b
  <1>5. ASSUME NEW p \in Nat PROVE Get(b, p) = Get(w, 4 + p) \/ Get(b, p) = 0
    <2>1. CASE p < k - 4
      <3>1. 4 + p \in Nat /\ 4 + p < k /\ 0 + (4 + p) = 4 + p
        BY <1>3, <2>1
      <3> QED
        BY <1>1, <1>4, <2>1, <3>1
    <2>2. CASE ~(p < k - 4)
      BY <1>3, <1>4, <2>2
    <2> QED
      BY <2>1, <2>2
  <1>6. ASSUME b.len >= 35 PROVE Get(b, 34) = sid
    <2>1. 34 < k - 4 /\ 34 \in Nat /\ 38 < k /\ 38 \in Nat /\ 4 + 34 = 38 /\ 0 + 38 = 38
      BY <1>2, <1>6
    <2>2. Get(b, 34) = Get(t, 38)
      BY <1>4, <2>1
    <2> QED
      BY <1>1, <2>1, <2>2 DEF StrangerFields
  <1>7. ASSUME c % 2 = 0, answer.result = "panic" PROVE FALSE
    <2>1. ParsedBody(r).result = "panic"
      BY <1>7, HandshakeReads
    <2>2. ParsedBody(r) = ClientHelloParse(b)
      BY <1>2 DEF ParsedBody, b, t
    <2>3. ClientHelloCanParse(b) /\ Get(b, 35 + Get(b, 34)) % 2 = 1
      BY <1>2, <2>1, <2>2, ClientHelloStaysInside, BlockReads
    <2>4. b.len >= 35
      BY <2>3 DEF ClientHelloCanParse
    <2>5. 35 + sid \in Nat /\ 4 + (35 + sid) = 39 + sid
      OBVIOUS
    <2>6. Get(b, 35 + sid) = c \/ Get(b, 35 + sid) = 0
      BY <1>5, <2>5 DEF StrangerFields
    <2>7. Get(b, 35 + sid) % 2 = 1
      BY <1>6, <2>3, <2>4
    <2> QED
      BY <1>7, <2>6, <2>7 DEF StrangerFields
  <1>8. ASSUME answer.result = "some"
        PROVE  answer.value.session_id.len # 32 \/ Get(answer.value.session_id, 16) = 0
    <2>1. /\ ClientHelloCanParse(b)
          /\ answer.value = [ClientValue(b) EXCEPT
                                !.extensions = ExtensionStackParse(ClientValue(b).extensions).value]
      BY <1>2, <1>8, ClientHelloReads DEF b, t
    <2>2. answer.value.session_id = SubBlock(b, 35, Get(b, 34))
      BY <2>1 DEF ClientValue
    <2>3. b.len >= 35
      BY <2>1 DEF ClientHelloCanParse
    <2>4. Get(b, 34) = sid
      BY <1>6, <2>3
    <2>5. sid \in Nat /\ 35 \in Nat
      OBVIOUS
    <2>6. /\ SubBlock(b, 35, sid).len = sid
          /\ \A p \in Nat : Get(SubBlock(b, 35, sid), p) = IF p < sid THEN Get(b, 35 + p) ELSE 0
      <3>1. SubBlock(b, 35, sid).len = sid
        BY <1>2, <2>5, PartIsBlock
      <3>2. \A p \in Nat : Get(SubBlock(b, 35, sid), p) = IF p < sid THEN Get(b, 35 + p) ELSE 0
        BY <1>2, <2>5, PartReads, SMTT(30)
      <3> QED
        BY <3>1, <3>2
    <2>7. CASE sid = 32
      <3>1. 16 \in Nat /\ 16 < sid /\ 35 + 16 = 51 /\ 51 \in Nat /\ 4 + 51 = 55
        BY <2>7
      <3>2. Get(SubBlock(b, 35, sid), 16) = Get(b, 51)
        BY <2>6, <3>1
      <3>3. Get(b, 51) = 0
        BY <1>5, <2>7, <3>1 DEF StrangerFields
      <3> QED
        BY <2>2, <2>4, <3>2, <3>3
    <2>8. CASE sid = 0
      BY <2>2, <2>4, <2>6, <2>8
    <2> QED
      BY <2>7, <2>8
  <1> QED
    BY <1>7, <1>8 DEF answer

-----------------------------------------------------------------------------
(* The hellos of a stranger. *)

\* A key share entry of a stranger is small.
LEMMA StrangerEntry ==
    ASSUME NEW t \in Nat, NEW n \in Nat, NEW key, Block(key), key.len <= 90
    PROVE  /\ Small(Concat(<<U16(t), U16(n), key>>))
           /\ Concat(<<U16(t), U16(n), key>>).len = 4 + key.len
  <1> DEFINE a == U16(t)
             l == U16(n)
             c == Concat(<<a, l, key>>)
  <1>1. Block(a) /\ a.len = 2 /\ Block(l) /\ l.len = 2
    BY IntegerBlocks
  <1>2. key.len \in Nat
    BY BlockReads
  <1>3. c = Concat(<<a, l, key>>)
    OBVIOUS
  <1> HIDE DEF a, l, c
  <1>4. Block(c) /\ c.len = a.len + l.len + key.len
    BY <1>1, <1>3, Concat3
  <1>5. Small(c) /\ c.len = 4 + key.len
    BY <1>1, <1>2, <1>4 DEF Small
  <1> QED
    BY <1>5 DEF a, l, c

\* What strangers send for extensions.
LEMMA StrangerExtensionSmall ==
    ASSUME NEW x \in StrangerExtensions
    PROVE  Small(x)
  <1> DEFINE share(group, len, key) == Concat(<<U16(group), U16(len), key>>)
             list(n, entries) == AddExtension(KEY_SHARE, Joined(U16(n), entries))
             good == share(X25519, 32, Slice(32, Noise))
             zero == share(X25519, 32, Slice(32, 0))
             long == share(X25519, 33, Slice(32, Noise))
             lie == Concat(<<U16(KEY_SHARE), U16(9), Slice(4, Noise)>>)
             trail == Joined(AddExtension(EMS, Empty), Slice(2, Noise))
  <1>1. x \in {Empty, AddExtension(KEY_SHARE, Empty), good, list(36, good), list(36, zero),
               list(37, good), list(36, long), lie, AddExtension(KEY_SHARE, good), trail}
    BY DEF StrangerExtensions
  <1>2. /\ Block(Slice(32, Noise)) /\ Slice(32, Noise).len = 32
        /\ Block(Slice(32, 0)) /\ Slice(32, 0).len = 32
        /\ Block(Slice(4, Noise)) /\ Slice(4, Noise).len = 4
        /\ Block(Slice(2, Noise)) /\ Slice(2, Noise).len = 2
        /\ Block(Empty) /\ Empty.len = 0
    <2>1. Noise \in Nat /\ 0 \in Nat /\ 2 \in Nat /\ 4 \in Nat /\ 32 \in Nat
      BY NoiseAssumption
    <2> QED
      BY <2>1, SliceBlock, EmptyBlock
  <1>3. /\ X25519 \in Nat /\ KEY_SHARE \in Nat /\ KEY_SHARE < 65536 /\ EMS \in Nat /\ EMS < 65536
        /\ 32 \in Nat /\ 33 \in Nat /\ 9 \in Nat /\ 36 \in Nat /\ 37 \in Nat
    BY DEF X25519, KEY_SHARE, EMS
  <1>4. /\ Small(good) /\ good.len = 36 /\ Small(zero) /\ zero.len = 36 /\ Small(long) /\ long.len = 36
        /\ Small(lie)
    BY <1>2, <1>3, StrangerEntry
  <1> HIDE DEF good, zero, long, lie
  <1>5. ASSUME NEW n \in Nat, NEW e, Small(e), e.len = 36
        PROVE  Small(list(n, e))
    <2>1. Block(U16(n)) /\ U16(n).len = 2 /\ Block(e)
      BY <1>5, IntegerBlocks DEF Small
    <2>2. Block(Joined(U16(n), e)) /\ Joined(U16(n), e).len = 38
      BY <1>5, <2>1, Joined2
    <2> DEFINE d == Joined(U16(n), e)
    <2> HIDE DEF d
    <2>3. Block(AddExtension(KEY_SHARE, d)) /\ AddExtension(KEY_SHARE, d).len = 4 + d.len
      BY <1>3, <2>2, ExtensionBlock DEF d
    <2> QED
      BY <2>2, <2>3 DEF d, Small
  <1>6. Small(list(36, good)) /\ Small(list(36, zero)) /\ Small(list(37, good)) /\ Small(list(36, long))
    BY <1>3, <1>4, <1>5
  <1> HIDE DEF list
  <1>7. Small(AddExtension(KEY_SHARE, Empty)) /\ Small(AddExtension(KEY_SHARE, good))
    <2>1. /\ Block(AddExtension(KEY_SHARE, Empty)) /\ AddExtension(KEY_SHARE, Empty).len = 4 + Empty.len
      BY <1>2, <1>3, ExtensionBlock
    <2>2. Block(good) /\ good.len < 65536
      BY <1>4 DEF Small
    <2>3. /\ Block(AddExtension(KEY_SHARE, good)) /\ AddExtension(KEY_SHARE, good).len = 4 + good.len
      BY <1>3, <2>2, ExtensionBlock
    <2> QED
      BY <1>2, <1>4, <2>1, <2>3 DEF Small
  <1>8. Small(trail)
    <2>1. /\ Block(AddExtension(EMS, Empty)) /\ AddExtension(EMS, Empty).len = 4 + Empty.len
      BY <1>2, <1>3, ExtensionBlock
    <2>2. Block(trail) /\ trail.len = AddExtension(EMS, Empty).len + Slice(2, Noise).len
      BY <1>2, <2>1, Joined2
    <2> QED
      BY <1>2, <2>1, <2>2 DEF Small
  <1>9. Small(Empty)
    BY <1>2 DEF Small
  <1> HIDE DEF trail
  <1> QED
    BY <1>1, <1>4, <1>6, <1>7, <1>8, <1>9

\* A stranger's ClientHello, and the lengths it announces.
LEMMA StrangerClientBlock ==
    ASSUME NEW v \in Nat, NEW sid \in {0, 32}, NEW ciphers \in Nat, ciphers <= 32768,
           NEW comp \in {0, 1}, NEW x, Small(x)
    PROVE  LET f == StrangerClientHello(v, sid, ciphers, comp, x)
               w == Concat(f)
           IN  /\ Blocks(f, 12) /\ f[1].len = 1 /\ Block(w) /\ w.len < 60000
               /\ StrangerFields(w, sid, ciphers)
  <1> DEFINE a1 == U8(ClientType)
             a2 == U24(0)
             a3 == U16(v)
             a4 == Slice(32, Noise)
             a5 == U8(sid)
             a6 == Slice(sid, Noise)
             a7 == U16(ciphers)
             a8 == Slice(ciphers, Noise)
             a9 == U8(comp)
             a10 == Slice(comp, Noise)
             a11 == U16(x.len)
             f == <<a1, a2, a3, a4, a5, a6, a7, a8, a9, a10, a11, x>>
             w == Concat(f)
  <1>1. StrangerClientHello(v, sid, ciphers, comp, x) = f
    BY DEF StrangerClientHello
  <1>2. Block(x) /\ x.len \in Nat /\ x.len < 100
    BY BlockReads DEF Small
  <1>3. /\ Block(a1) /\ a1.len = 1 /\ Block(a2) /\ a2.len = 3
        /\ Block(a3) /\ a3.len = 2 /\ Block(a5) /\ a5.len = 1 /\ Get(a5, 0) = sid
    <2>1. ClientType \in Nat /\ 0 \in Nat /\ sid \in Nat /\ sid < 256
      BY DEF ClientType
    <2> QED
      BY <2>1, IntegerBlocks
  <1>4. /\ Block(a7) /\ a7.len = 2 /\ Get(a7, 0) = ciphers
        /\ Block(a9) /\ a9.len = 1 /\ Block(a11) /\ a11.len = 2
    <2>1. comp \in Nat /\ ciphers < 65536
      OBVIOUS
    <2> QED
      BY <1>2, <2>1, IntegerBlocks
  <1>5. /\ Block(a4) /\ a4.len = 32 /\ Block(a6) /\ a6.len = sid
        /\ Block(a8) /\ a8.len = ciphers /\ Block(a10) /\ a10.len = comp
    <2>1. Noise \in Nat /\ 32 \in Nat /\ sid \in Nat /\ comp \in Nat
      BY NoiseAssumption
    <2> QED
      BY <2>1, SliceBlock
  <1>6. sid = 32 => Get(a6, 16) = 0
    <2>1. Noise \in Nat /\ sid \in Nat /\ 16 \in Nat /\ 16 > 0
      BY NoiseAssumption
    <2>2. /\ Block(Slice(sid, Noise)) /\ Slice(sid, Noise).len = sid
          /\ Get(Slice(sid, Noise), 0) = IF sid = 0 THEN 0 ELSE Noise
          /\ \A p \in Nat : p > 0 => Get(Slice(sid, Noise), p) = 0
      BY <2>1, SliceBlock
    <2> QED
      BY <2>1, <2>2
  <1> HIDE DEF a1, a2, a3, a4, a5, a6, a7, a8, a9, a10, a11
  <1>7. Blocks(f, 12) /\ f[1] = a1
    BY <1>2, <1>3, <1>4, <1>5 DEF Blocks
  <1>8. w = Concat(<<a1, a2, a3, a4, a5, a6, a7, a8, a9, a10, a11, x>>)
    OBVIOUS
  <1> HIDE DEF f, w
  <1>9. /\ Block(w)
        /\ w.len = a1.len + a2.len + a3.len + a4.len + a5.len + a6.len + a7.len + a8.len + a9.len
                   + a10.len + a11.len + x.len
        /\ Lies(w, a1.len + a2.len + a3.len + a4.len, a5)
        /\ Lies(w, a1.len + a2.len + a3.len + a4.len + a5.len, a6)
        /\ Lies(w, a1.len + a2.len + a3.len + a4.len + a5.len + a6.len, a7)
    BY <1>2, <1>3, <1>4, <1>5, <1>8, Concat12
  <1>10. w.len < 60000
    BY <1>2, <1>3, <1>4, <1>5, <1>9
  <1>11. Lies(w, 38, a5) /\ Lies(w, 39, a6) /\ Lies(w, 39 + sid, a7)
    BY <1>3, <1>5, <1>9
  <1>12. Get(w, 38) = sid /\ Get(w, 39 + sid) = ciphers
    BY <1>3, <1>4, <1>11, LiesHead
  <1>13. sid = 32 => Get(w, 55) = 0
    <2> SUFFICES ASSUME sid = 32 PROVE Get(w, 55) = 0
      OBVIOUS
    <2>1. 16 \in Nat /\ 16 < a6.len /\ 39 + 16 = 55
      BY <1>5
    <2> QED
      BY <1>6, <1>11, <2>1, LiesReads
  <1> QED
    BY <1>1, <1>3, <1>7, <1>9, <1>10, <1>12, <1>13 DEF StrangerFields, w

\* A stranger's ServerHello.
LEMMA StrangerServerBlock ==
    ASSUME NEW v \in Nat, NEW sid \in {0, 255}, NEW x, Small(x)
    PROVE  LET f == StrangerServerHello(v, sid, x)
               w == Concat(f)
           IN  Blocks(f, 10) /\ f[1].len = 1 /\ Block(w) /\ w.len < 60000 /\ Get(w, 0) = ServerType
  <1> DEFINE a1 == U8(ServerType)
             a2 == U24(0)
             a3 == U16(v)
             a4 == Slice(32, Noise)
             a5 == U8(sid)
             a6 == Slice(sid, Noise)
             a7 == U16(\h1301)
             a8 == U8(0)
             a9 == U16(x.len)
             f == <<a1, a2, a3, a4, a5, a6, a7, a8, a9, x>>
             w == Concat(f)
  <1>1. StrangerServerHello(v, sid, x) = f
    BY DEF StrangerServerHello
  <1>2. Block(x) /\ x.len \in Nat /\ x.len < 100
    BY BlockReads DEF Small
  <1>3. /\ Block(a1) /\ a1.len = 1 /\ Get(a1, 0) = ServerType /\ Block(a2) /\ a2.len = 3
        /\ Block(a3) /\ a3.len = 2 /\ Block(a5) /\ a5.len = 1
    <2>1. ServerType \in Nat /\ ServerType < 256 /\ 0 \in Nat /\ sid \in Nat
      BY DEF ServerType
    <2> QED
      BY <2>1, IntegerBlocks
  <1>4. /\ Block(a7) /\ a7.len = 2 /\ Block(a8) /\ a8.len = 1 /\ Block(a9) /\ a9.len = 2
    <2>1. \h1301 \in Nat /\ 0 \in Nat
      OBVIOUS
    <2> QED
      BY <1>2, <2>1, IntegerBlocks
  <1>5. Block(a4) /\ a4.len = 32 /\ Block(a6) /\ a6.len = sid
    <2>1. Noise \in Nat /\ 32 \in Nat /\ sid \in Nat
      BY NoiseAssumption
    <2> QED
      BY <2>1, SliceBlock
  <1> HIDE DEF a1, a2, a3, a4, a5, a6, a7, a8, a9
  <1>6. Blocks(f, 10) /\ f[1] = a1
    BY <1>2, <1>3, <1>4, <1>5 DEF Blocks
  <1>7. w = Concat(<<a1, a2, a3, a4, a5, a6, a7, a8, a9, x>>)
    OBVIOUS
  <1> HIDE DEF f, w
  <1>8. /\ Block(w)
        /\ w.len = a1.len + a2.len + a3.len + a4.len + a5.len + a6.len + a7.len + a8.len + a9.len
                   + x.len
        /\ Lies(w, 0, a1)
    BY <1>2, <1>3, <1>4, <1>5, <1>7, Concat10
  <1>9. w.len < 60000
    BY <1>2, <1>3, <1>4, <1>5, <1>8
  <1>10. Get(w, 0) = ServerType
    BY <1>3, <1>8, LiesHead
  <1> QED
    BY <1>1, <1>3, <1>6, <1>8, <1>9, <1>10 DEF w

-----------------------------------------------------------------------------
(* What a node makes of a stranger. *)

\* What is no ClientHello is not taken for one, and its parser does not panic.
LEMMA NotClient ==
    ASSUME NEW r, Block(r), Get(Payload(r), 0) # ClientType
    PROVE  Untagged(r) /\ Calm(r)
  <1> DEFINE answer == StartProcess(r, Handshake)
  <1>1. ASSUME answer.result = "panic" PROVE FALSE
    <2>1. ParsedBody(r).result = "panic" /\ Block(Body(r))
      BY <1>1, HandshakeReads
    <2>2. ParsedBody(r) = ServerHelloParse(Body(r))
      BY DEF ParsedBody
    <2> QED
      BY <2>1, <2>2, ServerHelloStaysInside, BlockReads
  <1>2. ASSUME answer.result = "some" PROVE answer.value.type # ClientType
    <2> DEFINE b == Body(r)
               stack == ExtensionStackParse(ServerValue(b).extensions)
    <2>1. answer.value = [ServerValue(b) EXCEPT !.extensions = stack.value]
      BY <1>2, ServerHelloReads
    <2> HIDE DEF stack, b
    <2>2. answer.value.type = ServerType
      BY <2>1 DEF ServerValue
    <2> QED
      BY <2>2 DEF ServerType, ClientType
  <1> HIDE DEF answer
  <1> QED
    BY <1>1, <1>2 DEF Untagged, Calm, answer

\* A payload too short for a hello.
LEMMA TooShort ==
    ASSUME NEW r, Block(r), Payload(r).len < 39
    PROVE  Untagged(r) /\ Calm(r)
  <1> DEFINE answer == StartProcess(r, Handshake)
             b == Body(r)
  <1>1. CASE Get(Payload(r), 0) # ClientType
    BY <1>1, NotClient
  <1>2. CASE Get(Payload(r), 0) = ClientType
    <2>1. ASSUME answer.result \in {"some", "panic"} PROVE FALSE
      <3>1. /\ Block(b) /\ b.len = Payload(r).len - 4 /\ Block(Payload(r))
            /\ answer.result = "panic" => ParsedBody(r).result = "panic"
            /\ answer.result = "some" => ParsedBody(r).result = "some"
        BY <2>1, HandshakeReads
      <3>2. ParsedBody(r) = ClientHelloParse(b)
        BY <1>2 DEF ParsedBody
      <3>3. ParsedBody(r).result # "none"
        BY <2>1, <3>1
      <3>4. ClientHelloCanParse(b)
        BY <3>1, <3>2, <3>3, ClientHelloStaysInside, BlockReads
      <3>5. b.len >= 35
        BY <3>4 DEF ClientHelloCanParse
      <3>6. Payload(r).len \in Nat
        BY <3>1, BlockReads
      <3> QED
        BY <3>1, <3>5, <3>6
    <2> HIDE DEF answer
    <2> QED
      BY <2>1 DEF Untagged, Calm, answer
  <1> QED
    BY <1>1, <1>2

\* The record around a payload.
LEMMA StrangerWraps ==
    ASSUME NEW type \in Nat, type < 256, NEW version \in Nat, version < 65536,
           NEW m, Block(m), m.len < 65536
    PROVE  LET r == Record(type, version, m)
           IN  IsRecord(r) /\ Block(r) /\ Payload(r) = m
  <1> DEFINE r == Record(type, version, m)
  <1>1. IsRecord(r) /\ Get(r, 3) = m.len /\ Lies(r, 5, m)
    BY RecordBlock
  <1> HIDE DEF r
  <1>2. Block(r)
    BY <1>1 DEF IsRecord
  <1>3. Payload(r) = m
    BY <1>1, <1>2, PayloadOfRecord
  <1> QED
    BY <1>1, <1>2, <1>3 DEF r

\* A list of suites that a stranger sends fits its record.
LEMMA StrangerListFits ==
    ASSUME NEW c \in StrangerCipherLens
    PROVE  c \in Nat /\ c <= 32768
  <1>1. c \in 0 .. 2^15
    BY StrangersAssumption
  <1>2. 2^15 = 32768
    OBVIOUS
  <1> QED
    BY <1>1, <1>2

\* A stranger's record with a hello, whole or cut.
LEMMA StrangerHello ==
    ASSUME NEW w, Block(w), w.len < 60000, NEW t, Cut(w, t),
           NEW sid \in {0, 32}, NEW c, StrangerKind(w, sid, c)
    PROVE  LET r == Record(Handshake, Tls10, t)
           IN  IsRecord(r) /\ Untagged(r) /\ (c % 2 = 0 => Calm(r))
  <1> DEFINE r == Record(Handshake, Tls10, t)
  <1>1. PICK k \in Nat : k <= w.len + 1 /\ t = Prefix(w, k)
    BY DEF Cut
  <1>2. t = SubBlock(w, 0, k) /\ 0 \in Nat /\ w.len \in Nat
    BY <1>1, BlockReads DEF Prefix
  <1>3. Block(t) /\ t.len = k
    <2> DEFINE from == 0
    <2>1. from \in Nat
      OBVIOUS
    <2> HIDE DEF from
    <2>2. Block(SubBlock(w, from, k)) /\ SubBlock(w, from, k).len = k
      BY <2>1, PartIsBlock
    <2> QED
      BY <1>2, <2>2 DEF from
  <1>4. t.len < 65536 /\ Handshake \in Nat /\ Handshake < 256 /\ Tls10 \in Nat /\ Tls10 < 65536
    BY <1>1, <1>2, <1>3 DEF Handshake, Tls10
  <1>5. IsRecord(r) /\ Block(r) /\ Payload(r) = t
    BY <1>3, <1>4, StrangerWraps
  <1> HIDE DEF r
  <1>6. CASE Get(t, 0) # ClientType
    BY <1>5, <1>6, NotClient DEF r
  <1>7. CASE Get(t, 0) = ClientType
    <2>1. Get(t, 0) = IF 0 < k THEN Get(w, 0 + 0) ELSE 0
      BY <1>2, PartReads
    <2>2. StrangerFields(w, sid, c)
      BY <1>7, <2>1 DEF ClientType, ServerType, StrangerKind
    <2>3. /\ c % 2 = 0 => StartProcess(r, Handshake).result # "panic"
          /\ StartProcess(r, Handshake).result = "some" =>
                \/ StartProcess(r, Handshake).value.session_id.len # 32
                \/ Get(StartProcess(r, Handshake).value.session_id, 16) = 0
      BY <1>1, <1>5, <1>7, <2>2, StrangerHelloRead
    <2>4. Untagged(r) /\ (c % 2 = 0 => Calm(r))
      BY <2>3 DEF Untagged, Calm
    <2> QED
      BY <1>5, <2>4 DEF r
  <1> QED
    BY <1>6, <1>7

\* What a stranger may send: a record, which the node does not take for a hello of
\* our client, and on which a reader panics only if a list of suites has an odd
\* length.
LEMMA StrangerRecord ==
    ASSUME NEW r \in StrangerRecords
    PROVE  IsRecord(r) /\ Untagged(r) /\ (EvenLists => Calm(r))
  <1>1. ASSUME NEW t \in StrangerPayloads, r = Record(Handshake, Tls10, t)
        PROVE  IsRecord(r) /\ Untagged(r) /\ (EvenLists => Calm(r))
    <2> DEFINE Listed1 == {StrangerClientHello(v, sid, ciphers, comp, x) :
                              v \in {Tls12}, sid \in {0, 32}, ciphers \in StrangerCipherLens,
                              comp \in {0, 1}, x \in StrangerExtensions}
               Listed2 == {StrangerClientHello(\h0300, 32, 2, 1, Empty)}
               Listed3 == {StrangerServerHello(v, sid, x) :
                              v \in {Tls12, \h0300}, sid \in {0, 255}, x \in StrangerExtensions}
    <2>0. Tls12 \in Nat /\ \h0300 \in Nat /\ 1 <= 1
      BY DEF Tls12
    <2>1. PICK f \in Listed1 \cup Listed2 \cup Listed3 : t \in Truncations(f)
      BY DEF StrangerPayloads
    <2>2. CASE f \in Listed1
      <3>1. PICK sid \in {0, 32}, ciphers \in StrangerCipherLens, comp \in {0, 1}, x \in StrangerExtensions :
               f = StrangerClientHello(Tls12, sid, ciphers, comp, x)
        BY <2>2
      <3>2. ciphers \in Nat /\ ciphers <= 32768
        BY <3>1, StrangerListFits
      <3>3. Small(x)
        BY StrangerExtensionSmall
      <3> DEFINE w == Concat(f)
      <3>4. /\ Blocks(f, 12) /\ f[1].len = 1 /\ Block(w) /\ w.len < 60000
            /\ StrangerFields(w, sid, ciphers)
        BY <2>0, <3>1, <3>2, <3>3, StrangerClientBlock
      <3>5. Cut(w, t)
        <4>1. 12 \in Nat /\ f[1].len >= 1
          BY <3>4
        <4> QED
          BY <2>1, <3>4, <4>1, TruncationsCut
      <3> HIDE DEF w
      <3>6. IsRecord(r) /\ Untagged(r) /\ (ciphers % 2 = 0 => Calm(r))
        BY <1>1, <3>4, <3>5, StrangerHello DEF StrangerKind
      <3>7. EvenLists => ciphers % 2 = 0
        BY DEF EvenLists
      <3> QED
        BY <3>6, <3>7
    <2>3. CASE f \in Listed2
      <3> DEFINE sid == 32
                 ciphers == 2
                 comp == 1
                 old == \h0300
      <3>1. f = StrangerClientHello(old, sid, ciphers, comp, Empty)
        BY <2>3
      <3>2. Small(Empty)
        BY EmptyBlock DEF Small
      <3> DEFINE w == Concat(f)
      <3>3. sid \in {0, 32} /\ comp \in {0, 1} /\ ciphers \in Nat /\ ciphers <= 32768 /\ ciphers % 2 = 0 /\ old \in Nat
        OBVIOUS
      <3> HIDE DEF sid, ciphers, comp, old
      <3>4. /\ Blocks(f, 12) /\ f[1].len = 1 /\ Block(w) /\ w.len < 60000
            /\ StrangerFields(w, sid, ciphers)
        BY <2>0, <3>1, <3>2, <3>3, StrangerClientBlock
      <3>5. Cut(w, t)
        <4>1. 12 \in Nat /\ f[1].len >= 1
          BY <3>4
        <4> QED
          BY <2>1, <3>4, <4>1, TruncationsCut
      <3> HIDE DEF w
      <3>6. IsRecord(r) /\ Untagged(r) /\ (ciphers % 2 = 0 => Calm(r))
        BY <1>1, <3>3, <3>4, <3>5, StrangerHello DEF StrangerKind
      <3> QED
        BY <3>3, <3>6
    <2>4. CASE f \in Listed3
      <3>1. PICK v \in {Tls12, \h0300}, sid \in {0, 255}, x \in StrangerExtensions :
               f = StrangerServerHello(v, sid, x)
        BY <2>4
      <3>2. Small(x) /\ v \in Nat
        BY <2>0, StrangerExtensionSmall
      <3> DEFINE w == Concat(f)
      <3>3. Blocks(f, 10) /\ f[1].len = 1 /\ Block(w) /\ w.len < 60000 /\ Get(w, 0) = ServerType
        BY <3>1, <3>2, StrangerServerBlock
      <3>4. Cut(w, t)
        <4>1. 10 \in Nat /\ f[1].len >= 1
          BY <3>3
        <4> QED
          BY <2>1, <3>3, <4>1, TruncationsCut
      <3> HIDE DEF w
      <3>5. 0 \in {0, 32} /\ 2 % 2 = 0
        OBVIOUS
      <3>6. IsRecord(r) /\ Untagged(r) /\ (2 % 2 = 0 => Calm(r))
        BY <1>1, <3>3, <3>4, <3>5, StrangerHello DEF StrangerKind
      <3> QED
        BY <3>5, <3>6
    <2> QED
      BY <2>1, <2>2, <2>3, <2>4
  <1>2. ASSUME NEW type \in ContentTypes \cup {\h80}, NEW version \in {Tls12, \h0300},
               NEW len \in {0, 16, 17}, r = Record(type, version, Slice(len, Noise))
        PROVE  IsRecord(r) /\ Untagged(r) /\ (EvenLists => Calm(r))
    <2>1. type \in Nat /\ type < 256 /\ version \in Nat /\ version < 65536
      BY DEF ContentTypes, ChangeCipherSpec, Alert, Handshake, ApplicationData, Tls12
    <2>2. Block(Slice(len, Noise)) /\ Slice(len, Noise).len = len
      <3>1. len \in Nat /\ Noise \in Nat
        BY NoiseAssumption
      <3> QED
        BY <3>1, SliceBlock
    <2> DEFINE m == Slice(len, Noise)
    <2> HIDE DEF m
    <2>3. m.len < 65536 /\ m.len < 39
      BY <2>2 DEF m
    <2>4. IsRecord(r) /\ Block(r) /\ Payload(r) = m
      BY <1>2, <2>1, <2>2, <2>3, StrangerWraps DEF m
    <2> QED
      BY <2>3, <2>4, TooShort
  <1> QED
    BY <1>1, <1>2 DEF StrangerRecords

-----------------------------------------------------------------------------
(***************************************************************************)
(* Streams of records, and a reader on one.                                *)
(***************************************************************************)

\* ChangeCipherSpec and data are records.
LEMMA PlainRecords ==
    /\ IsRecord(ChangeCipherSpecRecord)
    /\ \A n \in Nat : n < 65536 => IsRecord(AppDataRecord(n))
  <1>1. /\ Tls12 \in Nat /\ Tls12 < 65536 /\ ChangeCipherSpec \in Nat /\ ChangeCipherSpec < 256
        /\ ApplicationData \in Nat /\ ApplicationData < 256
    BY DEF Tls12, ChangeCipherSpec, ApplicationData
  <1>2. IsRecord(ChangeCipherSpecRecord)
    <2>1. 1 \in Nat
      OBVIOUS
    <2>2. Block(U8(1)) /\ U8(1).len = 1
      BY <2>1, IntegerBlocks
    <2>3. U8(1).len < 65536
      BY <2>2
    <2> QED
      BY <1>1, <2>2, <2>3, RecordBlock DEF ChangeCipherSpecRecord
  <1>3. ASSUME NEW n \in Nat, n < 65536 PROVE IsRecord(AppDataRecord(n))
    <2>1. Block(Slice(n, Noise)) /\ Slice(n, Noise).len = n
      BY SliceBlock, NoiseAssumption
    <2>2. Slice(n, Noise).len < 65536
      BY <1>3, <2>1
    <2> QED
      BY <1>1, <2>1, <2>2, RecordBlock DEF AppDataRecord
  <1> QED
    BY <1>2, <1>3

\* What the client writes.
LEMMA ClientRecords ==
    ASSUME NEW r, IsRecord(r)
    PROVE  Records(<<r, ChangeCipherSpecRecord>>, 2) /\ Records(<<AppDataRecord(100)>>, 1)
  <1>1. IsRecord(ChangeCipherSpecRecord)
    BY PlainRecords
  <1>2. IsRecord(AppDataRecord(100))
    <2>1. 100 \in Nat /\ 100 < 65536
      OBVIOUS
    <2> QED
      BY <2>1, PlainRecords
  <1> DEFINE c == ChangeCipherSpecRecord
             d == AppDataRecord(100)
  <1> HIDE DEF c, d
  <1>3. Records(<<r, c>>, 2)
    BY <1>1 DEF Records, c
  <1>4. Records(<<d>>, 1)
    BY <1>2 DEF Records, d
  <1> QED
    BY <1>3, <1>4 DEF c, d

\* The flight behind a hello is made of records, the hello first.
LEMMA FlightRecords ==
    ASSUME NEW r, IsRecord(r)
    PROVE  Records(Flight(r), 6) /\ Flight(r)[1] = r
  <1> DEFINE head == <<r, ChangeCipherSpecRecord>>
             cover == [i \in DOMAIN NodeDefault |-> AppDataRecord(CoverRecordLen(NodeDefault[i]))]
             all == head \o cover
  <1>1. IsRecord(ChangeCipherSpecRecord)
    BY PlainRecords
  <1>2. DOMAIN cover = 1 .. 4 /\ cover = [i \in 1 .. 4 |-> cover[i]]
    BY CoverLengths
  <1>3. ASSUME NEW i \in 1 .. 4 PROVE IsRecord(cover[i])
    <2>1. CoverRecordLen(NodeDefault[i]) \in Nat /\ CoverRecordLen(NodeDefault[i]) < 65536
      BY CoverLengths
    <2>2. cover[i] = AppDataRecord(CoverRecordLen(NodeDefault[i]))
      BY CoverLengths
    <2> QED
      BY <2>1, <2>2, PlainRecords
  <1> DEFINE S == {r, ChangeCipherSpecRecord} \cup {cover[i] : i \in 1 .. 4}
             T == S
             c == ChangeCipherSpecRecord
  <1>4. head \in Seq(S) /\ Len(head) = 2 /\ head[1] = r /\ head[2] = ChangeCipherSpecRecord
    <2> HIDE DEF cover
    <2>1. r \in S /\ ChangeCipherSpecRecord \in S
      OBVIOUS
    <2> HIDE DEF S
    <2> QED
      BY <2>1
  <1>5. cover \in Seq(S) /\ Len(cover) = 4
    <2>1. cover \in [1 .. 4 -> S]
      <3> HIDE DEF cover
      <3> QED
        BY <1>2
    <2>2. 4 \in Nat
      OBVIOUS
    <2> HIDE DEF S, cover
    <2>3. cover \in Seq(S)
      BY <2>1, <2>2, SeqDef
    <2>4. DOMAIN cover = 1 .. Len(cover) /\ Len(cover) \in Nat
      BY <2>3, LenProperties
    <2> QED
      BY <1>2, <2>3, <2>4
  <1> HIDE DEF S, cover, head
  <1>6. /\ all \in Seq(S) /\ Len(all) = 6
        /\ \A i \in 1 .. 6 : all[i] = IF i <= 2 THEN head[i] ELSE cover[i - 2]
    <2> DEFINE l == Len(head) + Len(cover)
    <2>1. /\ head \o cover \in Seq(S) /\ Len(head \o cover) = Len(head) + Len(cover)
          /\ \A i \in 1 .. Len(head) + Len(cover) : (head \o cover)[i] =
                IF i <= Len(head) THEN head[i] ELSE cover[i - Len(head)]
      BY <1>4, <1>5, ConcatProperties
    <2>2. Len(head) = 2 /\ Len(cover) = 4 /\ 2 + 4 = 6
      BY <1>4, <1>5
    <2>3. /\ all \in Seq(S) /\ Len(all) = 2 + 4
          /\ \A i \in 1 .. 2 + 4 : all[i] = IF i <= 2 THEN head[i] ELSE cover[i - 2]
      BY ONLY <2>1, <2>2, Zenon
    <2> QED
      BY <2>2, <2>3
  <1>7. DOMAIN all = 1 .. 6
    BY <1>6, LenProperties
  <1>8. ASSUME NEW i \in 1 .. 6 PROVE IsRecord(all[i])
    <2>1. CASE i = 1
      BY <1>4, <1>6, <2>1
    <2>2. CASE i = 2
      BY <1>1, <1>4, <1>6, <2>2
    <2>3. CASE i \notin {1, 2}
      <3>1. i - 2 \in 1 .. 4 /\ ~(i <= 2)
        BY <2>3
      <3> QED
        BY <1>3, <1>6, <3>1
    <2> QED
      BY <2>1, <2>2, <2>3
  <1>9. all[1] = r
    BY <1>4, <1>6
  <1> HIDE DEF all
  <1>10. Flight(r) = all
    BY DEF Flight, all, head, cover
  <1> QED
    BY <1>7, <1>8, <1>9, <1>10 DEF Records

\* A stream continues itself.
LEMMA ContinuesItself ==
    ASSUME NEW s, NEW E, Framed(s, E)
    PROVE  Continues(s, E, s, E)
  <1>1. Block(s) /\ s.len \in Nat /\ 0 + s.len = s.len /\ 0 \in Nat
    BY BlockReads DEF Framed
  <1>2. Lies(s, 0, s)
    BY <1>1 DEF Lies
  <1> QED
    BY <1>2 DEF Continues

\* Written records continue a stream, and into an empty one the first comes first.
LEMMA WrittenBehind ==
    ASSUME NEW s, NEW E, Framed(s, E), NEW n \in Nat, n >= 1, NEW records, Records(records, n)
    PROVE  /\ Continues(Longer(s, records), Marked(s, E, records), s, E)
           /\ Marked(s, E, records) # {}
           /\ E = {} => Lies(Longer(s, records), 0, records[1])
  <1> DEFINE r == Concat(records)
             F == {Concat(SubSeq(records, 1, i)).len : i \in 1 .. n}
             t == Longer(s, records)
             H == Marked(s, E, records)
  <1>1. Framed(r, F) /\ Block(r)
    BY FramedConcat DEF Records, Framed
  <1>2. H = E \cup {s.len + f : f \in F}
    BY DEF Marked, Records
  <1>3. Framed(t, H)
    <2> HIDE DEF F, r
    <2> QED
      BY <1>1, <1>2, FramedJoin DEF Longer, r
  <1>4. Block(s) /\ s.len \in Nat
    BY BlockReads DEF Framed
  <1>5. Lies(t, 0, s) /\ Lies(t, s.len, r) /\ Block(t)
    BY <1>1, <1>3, <1>4, LiesJoined DEF Longer, Framed
  <1>6. ASSUME NEW k \in H, k \notin E PROVE s.len < k
    <2>1. PICK f \in F : k = s.len + f
      BY <1>2, <1>6
    <2>2. f \in Nat /\ 0 < f
      <3> HIDE DEF F
      <3> QED
        BY <1>1 DEF Framed
    <2> HIDE DEF F
    <2> QED
      BY <1>4, <2>1, <2>2
  <1>7. H # {}
    <2>1. 1 \in 1 .. n
      OBVIOUS
    <2>2. s.len + Concat(SubSeq(records, 1, 1)).len \in H
      BY <2>1 DEF Marked, Records
    <2> QED
      BY <2>2
  <1>8. ASSUME E = {} PROVE Lies(t, 0, records[1])
    <2>1. s.len = 0
      BY <1>8 DEF Framed
    <2>2. Blocks(records, n)
      BY DEF Blocks, Records, IsRecord
    <2>3. PICK off : /\ Offsets(off, records, n) /\ r.len = off[n]
                     /\ LiesAll(r, off, records, n)
      BY <2>2, ConcatLaysOut
    <2>4. 1 \in 1 .. n /\ 1 - 1 = 0
      OBVIOUS
    <2>5. Lies(r, off[1 - 1], records[1])
      BY <2>3, <2>4 DEF LiesAll
    <2>6. off[0] = 0 /\ Block(records[1])
      BY <2>2, <2>3, <2>4 DEF Offsets, Blocks
    <2>7. Lies(r, 0, records[1])
      BY <2>4, <2>5, <2>6
    <2> HIDE DEF t, r
    <2>8. Lies(t, s.len + 0, records[1])
      BY <1>1, <1>5, <2>6, <2>7, LiesWithin
    <2> QED
      BY <2>1, <2>8
  <1>9. E \subseteq H
    BY <1>2
  <1> HIDE DEF t, H
  <1> QED
    BY <1>3, <1>5, <1>6, <1>7, <1>8, <1>9 DEF Continues, t, H

-----------------------------------------------------------------------------
(* A reader on a framed stream. *)

\* What start_process may answer, and that only a handshake reader can panic.
LEMMA AnswerResults ==
    ASSUME NEW b, Block(b), NEW expected
    PROVE  LET answer == StartProcess(b, expected)
           IN  /\ answer.result \in {"none", "some", "drop", "redirect", "panic"}
               /\ answer.result = "panic" => expected = Handshake
  <1> DEFINE record == RecordParse(b)
             answer == StartProcess(b, expected)
  <1>1. record.result \in {"none", "redirect", "some"}
    BY RecordInside, BlockReads
  <1>2. answer = IF record.result # "some" THEN record
                 ELSE IF expected = Handshake THEN HandleHandshake(record.value, record.used)
                 ELSE HandleTyped(record.value, expected, record.used)
    BY DEF StartProcess
  <1>3. ASSUME NEW value, NEW used
        PROVE  HandleTyped(value, expected, used).result \in {"drop", "some"}
    BY DEF HandleTyped, Answer, Found
  <1>4. ASSUME NEW value, NEW used
        PROVE  HandleHandshake(value, used).result \in {"drop", "panic", "some"}
    BY DEF HandleHandshake, Answer, Found
  <1> HIDE DEF record, answer
  <1>5. CASE record.result # "some"
    BY <1>1, <1>2, <1>5 DEF answer
  <1>6. CASE record.result = "some" /\ expected = Handshake
    BY <1>2, <1>4, <1>6 DEF answer
  <1>7. CASE record.result = "some" /\ expected # Handshake
    BY <1>2, <1>3, <1>7 DEF answer
  <1> QED
    BY <1>5, <1>6, <1>7

\* A reader at the start of a stream reads its first record and nothing else,
\* whatever follows it and wherever the buffer ends.
LEMMA FirstRecordRead ==
    ASSUME NEW s, Block(s), NEW r, IsRecord(r), Lies(s, 0, r), NEW n \in Nat, n <= s.len,
           NEW expected, StartProcess(Prefix(s, n), expected).result # "none"
    PROVE  StartProcess(Prefix(s, n), expected) = StartProcess(r, expected)
  <1> DEFINE a == Prefix(s, n)
  <1>1. /\ RecordLike(s) /\ Block(r) /\ RecordLike(r) /\ r.len \in Nat /\ r.len = 5 + Get(r, 3)
        /\ Get(r, 3) \in Nat /\ s.len \in Nat
    BY BlockReads DEF IsRecord
  <1>2. StartProcess(a, expected) = StartProcess(s, expected)
    BY <1>1, CutsDoNotMatter
  <1>3. RecordCanParse(s)
    BY <1>1, <1>2, ReadersWaitForRecords
  <1>4. r = Prefix(s, r.len)
    BY <1>1, CutOut DEF Prefix
  <1>5. r.len <= s.len /\ \A p \in Nat : p < r.len => Get(s, 0 + p) = Get(r, p)
    BY <1>1 DEF Lies
  <1>6. Get(s, 0) = Get(r, 0) /\ Get(s, 3) = Get(r, 3)
    <2>1. 0 < r.len /\ 3 < r.len
      BY <1>1
    <2>2. 0 \in Nat /\ 3 \in Nat /\ 0 + 0 = 0 /\ 0 + 3 = 3
      OBVIOUS
    <2> QED
      BY <1>5, <2>1, <2>2
  <1>7. RecordCanParse(r)
    BY <1>1, <1>3, <1>6 DEF RecordCanParse, RecordHeaderSize
  <1>8. StartProcess(r, expected).result # "none"
    BY <1>1, <1>7, ReadersWaitForRecords
  <1>9. StartProcess(Prefix(s, r.len), expected).result # "none"
    BY <1>4, <1>8
  <1>10. StartProcess(Prefix(s, r.len), expected) = StartProcess(s, expected)
    BY <1>1, <1>5, <1>9, CutsDoNotMatter
  <1> QED
    BY <1>2, <1>4, <1>10

\* The node can answer a ClientHello with a session id of 32 bytes.
LEMMA ReadAnswerable ==
    ASSUME NEW b, Block(b), StartProcess(b, Handshake).result = "some"
    PROVE  LET m == StartProcess(b, Handshake).value
           IN  m.type = ClientType /\ m.session_id.len = 32 => Answerable(m)
  <1> DEFINE m == StartProcess(b, Handshake).value
             w == Body(b)
  <1>1. CASE Get(Payload(b), 0) # ClientType
    <2>1. Untagged(b)
      BY <1>1, NotClient
    <2> DEFINE stack == ExtensionStackParse(ServerValue(w).extensions)
    <2>2. m = [ServerValue(w) EXCEPT !.extensions = stack.value]
      BY <1>1, ServerHelloReads
    <2> HIDE DEF stack, w, m
    <2>3. m.type = ServerType
      BY <2>2 DEF ServerValue
    <2> QED
      BY <2>3 DEF ServerType, ClientType, m
  <1>2. CASE Get(Payload(b), 0) = ClientType
    <2> DEFINE stack == ExtensionStackParse(ClientValue(w).extensions)
    <2>1. Block(w) /\ m = [ClientValue(w) EXCEPT !.extensions = stack.value]
      BY <1>2, ClientHelloReads
    <2> HIDE DEF stack, w, m
    <2> DEFINE sid == 35 + Get(w, 34)
               k == Get(w, sid) \div 2
               list == SubBlock(w, sid + 2, Get(w, sid))
    <2>2. /\ m.session_id = SubBlock(w, 35, Get(w, 34))
          /\ m.cipher_suites = [i \in 1 .. k |-> Get(list, 2 * i - 2)]
      BY <2>1 DEF ClientValue
    <2>3. Get(w, 34) \in Nat /\ Get(w, sid) \in Nat /\ 35 \in Nat /\ sid + 2 \in Nat
      BY <2>1, BlockReads
    <2>4. Block(m.session_id) /\ Block(list)
      <3> DEFINE start == 35
                 after == sid + 2
                 n == Get(w, 34)
                 l == Get(w, sid)
      <3>1. start \in Nat /\ after \in Nat /\ n \in Nat /\ l \in Nat
        BY <2>3
      <3> HIDE DEF start, after, n, l
      <3>2. Block(SubBlock(w, start, n)) /\ Block(SubBlock(w, after, l))
        BY <2>1, <3>1, PartIsBlock
      <3> QED
        BY <2>2, <3>2 DEF start, after, n, l
    <2>5. k \in Nat
      BY <2>3
    <2>6. SuiteList(m.cipher_suites)
      <3>1. \A i \in 1 .. k : Get(list, 2 * i - 2) \in Nat
        BY <2>4, BlockReads
      <3> DEFINE c == m.cipher_suites
      <3> HIDE DEF k, list
      <3>2. DOMAIN c = 1 .. k /\ \A i \in 1 .. k : c[i] \in Nat
        BY <2>2, <3>1
      <3>3. Len(c) = k
        <4>1. c \in [1 .. k -> Nat]
          BY <2>2, <3>1
        <4>2. c \in Seq(Nat)
          BY <2>5, <4>1, SeqDef
        <4>3. DOMAIN c = 1 .. Len(c) /\ Len(c) \in Nat
          BY <4>2, LenProperties
        <4> HIDE DEF c
        <4> QED
          BY <2>5, <3>2, <4>3
      <3> QED
        BY <2>5, <3>2, <3>3 DEF SuiteList
    <2> QED
      BY <2>4, <2>6 DEF Answerable, m
  <1> QED
    BY <1>1, <1>2

\* Marks that a stream of finite length has.
LEMMA PassedFinite ==
    ASSUME NEW s, NEW E, Framed(s, E), NEW t
    PROVE  IsFiniteSet(Passed(E, t)) /\ Cardinality(Passed(E, t)) \in Nat
  <1>1. s.len \in Nat /\ \A k \in E : k \in Nat /\ 0 < k /\ k <= s.len
    BY BlockReads DEF Framed
  <1>2. Passed(E, t) \subseteq 1 .. s.len
    BY <1>1 DEF Passed
  <1>3. IsFiniteSet(1 .. s.len)
    BY <1>1, FS_Interval
  <1> QED
    BY <1>2, <1>3, FS_Subset, FS_CardinalityType

\* What the peer writes later is not behind a reader.
LEMMA PassedStays ==
    ASSUME NEW s, NEW E, NEW t, NEW F, Continues(t, F, s, E), NEW k \in Nat, k <= s.len
    PROVE  Passed(F, k) = Passed(E, k)
  <1>1. s.len \in Nat /\ (\A m \in F : m \in Nat) /\ E \subseteq F /\ (\A m \in F : m \notin E => s.len < m)
    BY BlockReads DEF Continues, Framed
  <1> QED
    BY <1>1 DEF Passed

\* A reader that takes a record passes one mark.
LEMMA PassedRecord ==
    ASSUME NEW s, NEW E, Framed(s, E), NEW t \in {0} \cup E, t < s.len
    PROVE  LET next == t + 5 + Get(s, t + 3)
           IN  /\ next \in E
               /\ Cardinality(Passed(E, next)) = Cardinality(Passed(E, t)) + 1
  <1> DEFINE next == t + 5 + Get(s, t + 3)
  <1>1. /\ s.len \in Nat /\ Get(s, t + 3) \in Nat /\ t \in Nat
        /\ \A m \in E : m \in Nat
    BY BlockReads DEF Framed
  <1>2. next \in E /\ (\A k \in E : t < k => next <= k)
    BY DEF Framed
  <1>3. t < next /\ next \in Nat
    BY <1>1
  <1> HIDE DEF next
  <1>4. Passed(E, next) = Passed(E, t) \cup {next} /\ next \notin Passed(E, t)
    <2>1. ASSUME NEW m \in E PROVE m <= next <=> (m <= t \/ m = next)
      BY <1>1, <1>2, <1>3
    <2>2. ~(next <= t) /\ next <= next
      BY <1>1, <1>3
    <2> QED
      BY <1>2, <2>1, <2>2 DEF Passed
  <1>5. IsFiniteSet(Passed(E, t))
    BY PassedFinite
  <1>6. Cardinality(Passed(E, t) \cup {next}) = Cardinality(Passed(E, t)) + 1
    BY <1>4, <1>5, FS_AddElement
  <1> QED
    BY <1>2, <1>4, <1>6 DEF next

\* No mark is passed at the start, and one is where any is.
LEMMA PassedNone ==
    ASSUME NEW s, NEW E, Framed(s, E), NEW t \in {0} \cup E
    PROVE  Cardinality(Passed(E, t)) = 0 <=> t = 0
  <1>1. \A m \in E : m \in Nat /\ 0 < m
    BY DEF Framed
  <1>2. Passed(E, t) = {} <=> t = 0
    <2>1. CASE t = 0
      BY <1>1, <2>1 DEF Passed
    <2>2. CASE t # 0
      <3>1. t \in E /\ t \in Nat /\ t <= t
        BY <1>1, <2>2
      <3> QED
        BY <2>2, <3>1 DEF Passed
    <2> QED
      BY <2>1, <2>2
  <1>3. IsFiniteSet(Passed(E, t))
    BY PassedFinite
  <1>4. Cardinality(Passed(E, t)) = 0 <=> Passed(E, t) = {}
    BY <1>3, FS_EmptySet
  <1> QED
    BY <1>2, <1>4

-----------------------------------------------------------------------------
(***************************************************************************)
(* The inductive invariant.                                                *)
(***************************************************************************)

\* Who opens a connection.
LEMMA Openers ==
    ASSUME MapsOK
    PROVE  /\ opener.kind \in {"ours", "stranger"}
           /\ opener.kind = "ours" =>
                 /\ opener.profile \in BrowserProfiles /\ opener.server \in ServerProfiles
                 /\ opener.sni \in SniChoices /\ opener.grease \in GreaseSets
                 /\ opener.profile.shuffle_extensions => opener.rnd \in ShuffleDraws
           /\ opener.kind = "stranger" => opener.end \in Ends /\ opener.record \in StrangerRecords
  <1>1. CASE opener \in Strangers
    <2>1. opener.kind = "stranger" /\ opener.end \in Ends /\ opener.record \in StrangerRecords
      BY <1>1 DEF Strangers
    <2> QED
      BY <2>1
  <1>2. CASE opener \in OurConnections
    <2>1. PICK p \in BrowserProfiles :
             opener \in [kind : {"ours"}, profile : {p}, server : ServerProfiles, sni : SniChoices,
                         grease : GreaseSets, rnd : IF p.shuffle_extensions THEN ShuffleDraws ELSE {<<>>}]
      BY <1>2 DEF OurConnections
    <2>2. /\ opener.kind = "ours" /\ opener.profile = p /\ opener.server \in ServerProfiles
          /\ opener.sni \in SniChoices /\ opener.grease \in GreaseSets
          /\ opener.rnd \in IF p.shuffle_extensions THEN ShuffleDraws ELSE {<<>>}
      BY <2>1
    <2>3. opener.profile.shuffle_extensions => opener.rnd \in ShuffleDraws
      BY <2>2, Zenon
    <2> QED
      BY <2>2, <2>3
  <1> QED
    BY <1>1, <1>2 DEF MapsOK

\* The peers of each other.
LEMMA Peers ==
    /\ "client" \in Ends /\ "server" \in Ends /\ Peer("client") = "server" /\ Peer("server") = "client"
    /\ \A e \in Ends : Peer(e) \in Ends /\ Peer(e) # e /\ Peer(Peer(e)) = e
    /\ \A e \in Ends, d \in Ends : d # e => d = Peer(e)
  BY DEF Ends, Peer

\* What Write does to both streams.
LEMMA WriteContinues ==
    ASSUME MapsOK, StreamsFramed, NEW e \in Ends, NEW records, NEW n \in Nat, n >= 1,
           Records(records, n), Write(e, records)
    PROVE  /\ DOMAIN stream' = Ends /\ DOMAIN ends' = Ends
           /\ \A d \in Ends : Continues(stream'[d], ends'[d], stream[d], ends[d])
           /\ \A d \in Ends : d # e => stream'[d] = stream[d] /\ ends'[d] = ends[d]
           /\ ends'[e] # {}
           /\ ends[e] = {} => FirstLies(stream'[e], records[1])
  <1>1. DOMAIN stream = Ends /\ DOMAIN ends = Ends
    BY DEF MapsOK
  <1>2. /\ stream'[e] = Longer(stream[e], records) /\ ends'[e] = Marked(stream[e], ends[e], records)
        /\ DOMAIN stream' = Ends /\ DOMAIN ends' = Ends
        /\ \A d \in Ends : d # e => stream'[d] = stream[d] /\ ends'[d] = ends[d]
    BY <1>1 DEF Write, Longer, Marked
  <1>3. \A d \in Ends : Framed(stream[d], ends[d])
    BY DEF StreamsFramed
  <1>4. /\ Continues(stream'[e], ends'[e], stream[e], ends[e]) /\ ends'[e] # {}
        /\ ends[e] = {} => Lies(stream'[e], 0, records[1])
    BY <1>2, <1>3, WrittenBehind
  <1>5. IsRecord(records[1])
    BY DEF Records
  <1>6. ASSUME NEW d \in Ends PROVE Continues(stream'[d], ends'[d], stream[d], ends[d])
    BY <1>2, <1>3, <1>4, ContinuesItself
  <1> QED
    BY <1>2, <1>4, <1>5, <1>6 DEF FirstLies

\* Facts about a stream that is continued.
LEMMA ContinuedStream ==
    ASSUME NEW s, NEW E, NEW t, NEW F, Continues(t, F, s, E)
    PROVE  /\ Framed(t, F) /\ Framed(s, E) /\ s.len \in Nat /\ t.len \in Nat /\ s.len <= t.len
           /\ E \subseteq F
           /\ \A r : FirstLies(s, r) => FirstLies(t, r)
  <1>1. /\ Framed(t, F) /\ Framed(s, E) /\ Block(s) /\ Block(t) /\ Lies(t, 0, s) /\ E \subseteq F
        /\ s.len \in Nat /\ t.len \in Nat
    BY BlockReads DEF Continues, Framed
  <1>2. s.len <= t.len
    BY <1>1 DEF Lies
  <1>3. ASSUME NEW r, FirstLies(s, r) PROVE FirstLies(t, r)
    <2>1. Block(r) /\ IsRecord(r) /\ Lies(s, 0, r)
      BY <1>3 DEF FirstLies, IsRecord
    <2>2. Lies(t, 0 + 0, r)
      BY <1>1, <2>1, LiesWithin
    <2> QED
      BY <2>1, <2>2 DEF FirstLies
  <1> QED
    BY <1>1, <1>2, <1>3

\* ReadersInStep is InStep of both ends.
LEMMA InStepIs == ReadersInStep <=> \A e \in Ends : InStep(e)
  BY DEF ReadersInStep, InStep, Passed

\* A reader that does not move stays in step.
LEMMA StillInStep ==
    ASSUME PlacesOK, ReadersInStep, NEW e \in Ends, taken'[e] = taken[e], phase'[e] = phase[e],
           Continues(stream'[Peer(e)], ends'[Peer(e)], stream[Peer(e)], ends[Peer(e)])
    PROVE  InStep(e)'
  <1>1. InStep(e)
    BY InStepIs
  <1>2. taken[e] \in Nat /\ taken[e] <= stream[Peer(e)].len
    <2>1. stream[Peer(e)].len \in Nat
      BY ContinuedStream
    <2> QED
      BY <2>1 DEF PlacesOK
  <1>3. Passed(ends'[Peer(e)], taken[e]) = Passed(ends[Peer(e)], taken[e])
    BY <1>2, PassedStays
  <1>4. ends[Peer(e)] \subseteq ends'[Peer(e)]
    BY ContinuedStream
  <1> QED
    BY <1>1, <1>3, <1>4 DEF InStep, Reading

-----------------------------------------------------------------------------
(* The actions that write. *)

\* A step that writes and reads nothing keeps the invariant, if the end that writes
\* may and its first record is the one that is foreseen.
LEMMA WritingKeeps ==
    ASSUME IInv, NEW e \in Ends, NEW records, NEW n \in Nat, n >= 1, Records(records, n),
           Write(e, records), UNCHANGED <<opener, arrived, taken, phase, heard>>,
           ends[e] = {} => records[1] = First(opener, e, heard["server"]),
           opener.kind = "stranger" => e = opener.end,
           opener.kind = "ours" => e = "client" /\ Hello(opener.profile, OurHello(opener))
    PROVE  IInv'
  <1>1. /\ MapsOK /\ StreamsFramed /\ FirstWritten /\ PlacesOK /\ ReadersInStep
        /\ NodeAnswers /\ StrangerAlone /\ HeardFirst /\ ClientGreets
    BY DEF IInv
  <1>2. /\ DOMAIN stream' = Ends /\ DOMAIN ends' = Ends
        /\ \A d \in Ends : Continues(stream'[d], ends'[d], stream[d], ends[d])
        /\ \A d \in Ends : d # e => stream'[d] = stream[d] /\ ends'[d] = ends[d]
        /\ ends'[e] # {}
        /\ ends[e] = {} => FirstLies(stream'[e], records[1])
    BY <1>1, WriteContinues
  <1>3. /\ opener' = opener /\ arrived' = arrived /\ taken' = taken /\ phase' = phase /\ heard' = heard
    OBVIOUS
  <1>4. MapsOK'
    BY <1>1, <1>2, <1>3 DEF MapsOK
  <1>5. StreamsFramed'
    BY <1>2, ContinuedStream DEF StreamsFramed
  <1>6. FirstWritten'
    <2> SUFFICES ASSUME NEW d \in Ends, ends'[d] # {}
                 PROVE  FirstLies(stream'[d], First(opener, d, heard["server"]))
      BY <1>3 DEF FirstWritten
    <2>1. CASE ends[d] # {}
      <3>1. FirstLies(stream[d], First(opener, d, heard["server"]))
        BY <1>1, <2>1 DEF FirstWritten
      <3> QED
        BY <1>2, <3>1, ContinuedStream
    <2>2. CASE ends[d] = {}
      <3>1. d = e
        BY <1>2, <2>2
      <3> QED
        BY <1>2, <2>2, <3>1
    <2> QED
      BY <2>1, <2>2
  <1>7. PlacesOK'
    <2> SUFFICES ASSUME NEW d \in Ends
                 PROVE  /\ taken[d] \in Nat /\ arrived[d] \in Nat /\ taken[d] <= arrived[d]
                        /\ arrived[d] <= stream'[Peer(d)].len /\ phase[d] \in PhaseNames
      BY <1>3 DEF PlacesOK
    <2>1. /\ taken[d] \in Nat /\ arrived[d] \in Nat /\ taken[d] <= arrived[d]
          /\ arrived[d] <= stream[Peer(d)].len /\ phase[d] \in PhaseNames
      BY <1>1 DEF PlacesOK
    <2>2. /\ stream[Peer(d)].len \in Nat /\ stream'[Peer(d)].len \in Nat
          /\ stream[Peer(d)].len <= stream'[Peer(d)].len
      BY <1>2, Peers, ContinuedStream
    <2> QED
      BY <2>1, <2>2
  <1>8. ReadersInStep'
    <2>1. ASSUME NEW d \in Ends PROVE InStep(d)'
      <3>1. Continues(stream'[Peer(d)], ends'[Peer(d)], stream[Peer(d)], ends[Peer(d)])
        BY <1>2, Peers
      <3> QED
        BY <1>1, <1>3, <3>1, StillInStep
    <2>2. (\A d \in Ends : InStep(d))'
      BY <2>1
    <2> QED
      BY <2>2 DEF ReadersInStep, InStep, Passed
  <1>9. NodeAnswers'
    BY <1>1, <1>2, <1>3, Peers DEF NodeAnswers
  <1>10. StrangerAlone'
    BY <1>1, <1>2, <1>3, Openers, Peers DEF StrangerAlone
  <1>11. HeardFirst'
    <2> SUFFICES ASSUME NEW d \in Ends, heard[d] # Unheard
                 PROVE  ends'[Peer(d)] # {} /\ Says(First(opener, Peer(d), heard["server"]), heard[d])
      BY <1>3 DEF HeardFirst
    <2>1. ends[Peer(d)] # {} /\ Says(First(opener, Peer(d), heard["server"]), heard[d])
      BY <1>1 DEF HeardFirst
    <2>2. ends[Peer(d)] \subseteq ends'[Peer(d)]
      BY <1>2, Peers, ContinuedStream
    <2> QED
      BY <2>1, <2>2
  <1>12. ClientGreets'
    BY <1>3 DEF ClientGreets
  <1> QED
    BY <1>4, <1>5, <1>6, <1>7, <1>8, <1>9, <1>10, <1>11, <1>12 DEF IInv

\* The hello of our client is a hello.
LEMMA OurHelloFine ==
    ASSUME MapsOK, opener.kind = "ours", Validate(FromList(DecoyDomains), opener.sni) = "Ok"
    PROVE  Hello(opener.profile, OurHello(opener))
  <1> DEFINE h == OurHello(opener)
             host == Normalised(opener.sni)
             spare == Slice(X25519_LEN, ClientKey)
  <1>1. /\ opener.profile \in BrowserProfiles /\ opener.sni \in SniChoices /\ opener.grease \in GreaseSets
        /\ opener.profile.shuffle_extensions => opener.rnd \in ShuffleDraws
    BY Openers
  <1>2. /\ opener.sni \in [name : Nat, len : Nat, kind : {"name", "ip", "other"},
                           spelling : {"plain", "typed"}]
    BY <1>1, HostsAssumption
  <1>3. host.len \in Nat /\ host.name \in Nat
    BY <1>2 DEF Normalised
  <1>4. host.len # 0 /\ ~(host.len > MaxHostLen)
    <2> HIDE DEF host
    <2>1. CASE host.len = 0
      BY <2>1 DEF Validate, host
    <2>2. CASE host.len # 0 /\ host.len > MaxHostLen
      BY <2>2 DEF Validate, host
    <2> QED
      BY <2>1, <2>2
  <1>5. MaxHostLen \in Nat
    BY DEF MaxHostLen
  <1>6. Block(Slice(host.len, host.name)) /\ Slice(host.len, host.name).len = host.len
    BY <1>3, SliceBlock
  <1>7. /\ h.host = Slice(host.len, host.name) /\ h.grease = opener.grease /\ h.rnd = opener.rnd
        /\ h.salt = Slice(32, ClientSalt) /\ h.key = Slice(X25519_LEN, ClientKey)
        /\ h.version = ClaimedVersion /\ h.tag = Slice(16, Tag)
    BY DEF OurHello, HostOf
  <1>8. ClientSalt \in Nat /\ ClientKey \in Nat /\ Tag \in Nat /\ 32 \in Nat /\ 16 \in Nat /\ X25519_LEN = 32
    BY ValuesAssumption DEF X25519_LEN
  <1>9. /\ Block(Slice(32, ClientSalt)) /\ Slice(32, ClientSalt).len = 32
        /\ Block(Slice(32, ClientKey)) /\ Slice(32, ClientKey).len = 32
        /\ Block(Slice(16, Tag)) /\ Slice(16, Tag).len = 16
    BY <1>8, SliceBlock
  <1>10. opener.grease \in [cipher : GREASE_VALUES, group : GREASE_VALUES, version : GREASE_VALUES,
                            ext_first : GREASE_VALUES, ext_last : GREASE_VALUES]
    BY <1>1, DrawsAssumption
  <1>11. /\ opener.grease.cipher \in GREASE_VALUES /\ opener.grease.group \in GREASE_VALUES
         /\ opener.grease.version \in GREASE_VALUES /\ opener.grease.ext_first \in GREASE_VALUES
         /\ opener.grease.ext_last \in GREASE_VALUES
    BY <1>10
  <1>12. opener.profile.shuffle_extensions => opener.rnd \in [1 .. 6 -> Nat]
    BY <1>1, DrawsAssumption
  <1> HIDE DEF h, host
  <1>13. Block(h.host) /\ h.host.len > 0 /\ h.host.len <= MaxHostLen
    BY <1>3, <1>4, <1>5, <1>6, <1>7
  <1>14. /\ Block(h.key) /\ h.key.len = 32 /\ Block(h.salt) /\ h.salt.len = 32
         /\ Block(h.tag) /\ h.tag.len = 16 /\ h.version \in Nat /\ h.version < 256
    BY <1>7, <1>8, <1>9 DEF ClaimedVersion
  <1>15. Fine(h)
    BY <1>7, <1>11, <1>13, <1>14 DEF Fine
  <1>16. h.rnd = opener.rnd
    BY <1>7
  <1>17. opener.profile.shuffle_extensions => h.rnd \in [1 .. 6 -> Nat]
    BY <1>12, <1>16, Zenon
  <1> QED
    BY <1>1, <1>15, <1>17 DEF Hello, h

\* The first step of an end.
LEMMA ConnectKeeps ==
    ASSUME IInv, Connect
    PROVE  IInv'
  <1> DEFINE r == MakeClientHello(opener.profile, OurHello(opener))
             records == <<r, ChangeCipherSpecRecord>>
  <1>1. /\ opener.kind = "ours" /\ Validate(FromList(DecoyDomains), opener.sni) = "Ok"
        /\ Write("client", records) /\ UNCHANGED <<opener, arrived, taken, phase, heard>>
    BY DEF Connect, OurHello
  <1>2. MapsOK
    BY DEF IInv
  <1>3. Hello(opener.profile, OurHello(opener))
    BY <1>1, <1>2, OurHelloFine
  <1>4. IsRecord(r)
    BY <1>3, HelloRecordBlock
  <1> HIDE DEF r
  <1>5. Records(records, 2) /\ records[1] = r
    BY <1>4, ClientRecords
  <1> HIDE DEF records
  <1>6. r = First(opener, "client", heard["server"])
    BY <1>1 DEF First, r
  <1>7. 2 \in Nat /\ 2 >= 1 /\ "client" \in Ends /\ opener.kind # "stranger"
    BY <1>1, Peers
  <1> QED
    BY <1>1, <1>3, <1>5, <1>6, <1>7, WritingKeeps

\* A stranger who opens the connection keeps the invariant.
LEMMA MeetStrangerKeeps ==
    ASSUME IInv, MeetStranger
    PROVE  IInv'
  <1> DEFINE r == opener.record
             records == <<r>>
  <1>1. /\ opener.kind = "stranger" /\ Write(opener.end, records)
        /\ UNCHANGED <<opener, arrived, taken, phase, heard>>
    BY DEF MeetStranger
  <1>2. opener.end \in Ends /\ r \in StrangerRecords
    BY <1>1, Openers DEF IInv
  <1>3. IsRecord(r)
    BY <1>2, StrangerRecord
  <1>4. r = First(opener, opener.end, heard["server"])
    BY <1>1 DEF First
  <1> HIDE DEF r
  <1>5. Records(records, 1) /\ records[1] = r
    BY <1>3 DEF Records
  <1> HIDE DEF records
  <1>6. 1 \in Nat /\ 1 >= 1 /\ opener.kind # "ours"
    BY <1>1
  <1> QED
    BY <1>1, <1>2, <1>4, <1>5, <1>6, WritingKeeps

\* Our client that sends its first data record keeps the invariant.
LEMMA SendDataKeeps ==
    ASSUME IInv, SendData
    PROVE  IInv'
  <1> DEFINE r == AppDataRecord(100)
             records == <<r>>
  <1>1. /\ Cardinality(ends["client"]) = 2 /\ Write("client", records)
        /\ UNCHANGED <<opener, arrived, taken, phase, heard>>
    BY DEF SendData
  <1>2. ends["client"] # {}
    BY <1>1, FS_EmptySet
  <1>3. Records(records, 1)
    <2> DEFINE c == ChangeCipherSpecRecord
    <2>1. IsRecord(c)
      BY PlainRecords
    <2> HIDE DEF c
    <2> QED
      BY <2>1, ClientRecords
  <1>4. opener.kind = "stranger" => opener.end = "client"
    <2>1. opener.kind = "stranger" => opener.end \in Ends /\ ends[Peer(opener.end)] = {}
      BY Openers DEF IInv, StrangerAlone
    <2> QED
      BY <1>2, <2>1, Peers
  <1> HIDE DEF records
  <1>5. 1 \in Nat /\ 1 >= 1 /\ "client" \in Ends
    BY Peers
  <1> QED
    BY <1>1, <1>2, <1>3, <1>4, <1>5, WritingKeeps DEF IInv, ClientGreets

\* TCP that hands over more bytes keeps the invariant.
LEMMA ReceiveKeeps ==
    ASSUME IInv, NEW e \in Ends, Receive(e)
    PROVE  IInv'
  <1>1. /\ MapsOK /\ StreamsFramed /\ FirstWritten /\ PlacesOK /\ ReadersInStep
        /\ NodeAnswers /\ StrangerAlone /\ HeardFirst /\ ClientGreets
    BY DEF IInv
  <1>2. PICK n \in (arrived[e] + 1) .. stream[Peer(e)].len : arrived' = [arrived EXCEPT ![e] = n]
    BY DEF Receive
  <1>3. UNCHANGED <<opener, stream, ends, taken, phase, heard>>
    BY DEF Receive
  <1>4. MapsOK'
    BY <1>1, <1>2, <1>3 DEF MapsOK
  <1>5. PlacesOK'
    <2> SUFFICES ASSUME NEW d \in Ends
                 PROVE  /\ taken[d] \in Nat /\ arrived'[d] \in Nat /\ taken[d] <= arrived'[d]
                        /\ arrived'[d] <= stream[Peer(d)].len /\ phase[d] \in PhaseNames
      BY <1>3 DEF PlacesOK
    <2>1. /\ taken[d] \in Nat /\ arrived[d] \in Nat /\ taken[d] <= arrived[d]
          /\ arrived[d] <= stream[Peer(d)].len /\ phase[d] \in PhaseNames
      BY <1>1 DEF PlacesOK
    <2>2. arrived'[d] = IF d = e THEN n ELSE arrived[d]
      BY <1>1, <1>2 DEF MapsOK
    <2> QED
      BY <1>2, <2>1, <2>2
  <1>6. /\ StreamsFramed' /\ FirstWritten' /\ NodeAnswers' /\ StrangerAlone' /\ HeardFirst'
        /\ ClientGreets'
    BY <1>1, <1>3 DEF StreamsFramed, FirstWritten, NodeAnswers, StrangerAlone, HeardFirst, ClientGreets
  <1>7. ReadersInStep'
    BY <1>1, <1>3 DEF ReadersInStep, Reading
  <1> QED
    BY <1>4, <1>5, <1>6, <1>7 DEF IInv

-----------------------------------------------------------------------------
(* A reader that takes its next record. *)

\* A reader expects a handshake record first, and no other one.
LEMMA Expectations ==
    /\ DOMAIN Expected = {"hello", "ccs", "data"}
    /\ Expected["hello"] = Handshake
    /\ Expected["ccs"] # Handshake /\ Expected["data"] # Handshake
  BY DEF Expected, Handshake, ChangeCipherSpec, ApplicationData

\* A reader's buffer.
LEMMA BufferBlock ==
    ASSUME IInv, NEW e \in Ends
    PROVE  /\ Block(stream[Peer(e)]) /\ stream[Peer(e)].len \in Nat
           /\ Framed(stream[Peer(e)], ends[Peer(e)])
           /\ taken[e] \in Nat /\ arrived[e] \in Nat /\ taken[e] <= arrived[e]
           /\ arrived[e] <= stream[Peer(e)].len
           /\ Block(Buffer(e)) /\ Buffer(e).len = arrived[e] - taken[e]
           /\ \A p \in Nat : p < arrived[e] - taken[e] =>
                  Get(Buffer(e), p) = Get(stream[Peer(e)], taken[e] + p)
  <1> DEFINE s == stream[Peer(e)]
             n == arrived[e] - taken[e]
             t == taken[e]
  <1>1. Framed(s, ends[Peer(e)])
    BY Peers DEF IInv, StreamsFramed
  <1>2. Block(s) /\ s.len \in Nat
    BY <1>1, BlockReads DEF Framed
  <1>3. t \in Nat /\ arrived[e] \in Nat /\ t <= arrived[e] /\ arrived[e] <= s.len
    BY DEF IInv, PlacesOK
  <1>4. n \in Nat
    BY <1>3
  <1>5. Buffer(e) = SubBlock(s, t, n)
    BY DEF Buffer
  <1> HIDE DEF s, n, t
  <1>6. Block(SubBlock(s, t, n)) /\ SubBlock(s, t, n).len = n
    BY <1>2, <1>3, <1>4, PartIsBlock
  <1>7. ASSUME NEW p \in Nat, p < n PROVE Get(SubBlock(s, t, n), p) = Get(s, t + p)
    BY <1>2, <1>3, <1>4, <1>7, PartReads
  <1> QED
    BY <1>1, <1>2, <1>3, <1>5, <1>6, <1>7 DEF s, n, t

\* What a reader that has an answer takes, and where it is then.
LEMMA ReaderMoves ==
    ASSUME IInv, NEW e \in Ends, Reading(e), AnswerTo(e).result # "none"
    PROVE  /\ AnswerTo(e).used \in Nat /\ taken[e] + AnswerTo(e).used <= arrived[e]
           /\ ends[Peer(e)] # {}
           /\ AnswerTo(e).result \in {"some", "drop", "redirect", "panic"}
           /\ AnswerTo(e).result = "panic" => phase[e] = "hello"
           /\ AnswerTo(e).result = "some" =>
                 /\ taken[e] + AnswerTo(e).used \in ends[Peer(e)]
                 /\ Cardinality(Passed(ends[Peer(e)], taken[e] + AnswerTo(e).used))
                       = Cardinality(Passed(ends[Peer(e)], taken[e])) + 1
  <1> DEFINE s == stream[Peer(e)]
             E == ends[Peer(e)]
             t == taken[e]
             b == Buffer(e)
             answer == AnswerTo(e)
             n == arrived[e] - taken[e]
  <1>1. /\ Block(s) /\ s.len \in Nat /\ Framed(s, E) /\ t \in Nat /\ arrived[e] \in Nat
        /\ t <= arrived[e] /\ arrived[e] <= s.len /\ Block(b) /\ b.len = n
        /\ \A p \in Nat : p < n => Get(b, p) = Get(s, t + p)
    BY BufferBlock
  <1>2. RecordLike(b) /\ Get(b, 3) \in Nat
    BY <1>1, BlockReads
  <1>3. /\ answer.result = "none" <=> ~RecordCanParse(b)
        /\ answer.used \in Nat /\ answer.used <= b.len
        /\ answer.result = "some" => answer.used = RecordHeaderSize + Get(b, 3)
    BY <1>2, ReadersWaitForRecords DEF AnswerTo
  <1>4. /\ answer.result \in {"none", "some", "drop", "redirect", "panic"}
        /\ answer.result = "panic" => Expected[phase[e]] = Handshake
    BY <1>1, AnswerResults DEF AnswerTo
  <1>5. phase[e] \in {"hello", "ccs", "data"}
    BY Expectations DEF Reading
  <1>6. answer.result = "panic" => phase[e] = "hello"
    BY <1>4, <1>5, Expectations
  <1> HIDE DEF s, E, t, b, answer
  <1>7. b.len >= 5
    BY <1>3 DEF RecordCanParse, RecordHeaderSize, answer
  <1>8. t < s.len /\ n \in Nat /\ 3 < n /\ 3 \in Nat /\ t + answer.used <= arrived[e]
    BY <1>1, <1>3, <1>7 DEF t
  <1>9. E # {}
    BY <1>1, <1>8 DEF Framed
  <1>10. t \in {0} \cup E
    BY InStepIs DEF IInv, InStep, t, E
  <1>11. ASSUME answer.result = "some"
         PROVE  t + answer.used \in E /\ Cardinality(Passed(E, t + answer.used)) = Cardinality(Passed(E, t)) + 1
    <2>1. answer.used = 5 + Get(s, t + 3)
      BY <1>1, <1>3, <1>8, <1>11 DEF RecordHeaderSize
    <2>2. Get(s, t + 3) \in Nat
      BY <1>1, <1>2, <1>8
    <2> DEFINE next == t + 5 + Get(s, t + 3)
    <2>3. t + answer.used = next
      BY <1>1, <2>1, <2>2
    <2>4. next \in E /\ Cardinality(Passed(E, next)) = Cardinality(Passed(E, t)) + 1
      BY <1>1, <1>8, <1>10, PassedRecord
    <2> HIDE DEF next
    <2> QED
      BY <2>3, <2>4
  <1> QED
    BY <1>3, <1>4, <1>6, <1>8, <1>9, <1>11 DEF s, E, t, b, answer

\* A reader that expects a hello reads the first record of its peer.
LEMMA HelloIsFirst ==
    ASSUME IInv, NEW e \in Ends, phase[e] = "hello", AnswerTo(e).result # "none"
    PROVE  AnswerTo(e) = StartProcess(First(opener, Peer(e), heard["server"]), Handshake)
  <1> DEFINE s == stream[Peer(e)]
             E == ends[Peer(e)]
             r == First(opener, Peer(e), heard["server"])
             n == arrived[e]
  <1>1. Reading(e) /\ Expected[phase[e]] = Handshake
    BY Expectations DEF Reading
  <1>2. /\ Block(s) /\ Framed(s, E) /\ taken[e] \in Nat /\ n \in Nat /\ n <= s.len
    BY BufferBlock
  <1>3. E # {}
    BY <1>1, ReaderMoves
  <1>4. taken[e] = 0
    <2>1. InStep(e)
      BY InStepIs DEF IInv
    <2> DEFINE c == Cardinality(Passed(E, taken[e]))
    <2>2. taken[e] \in {0} \cup E /\ phase[e] = CASE c = 0 -> "hello" [] c = 1 -> "ccs" [] OTHER -> "data"
      BY <1>1, <2>1 DEF InStep
    <2>3. c = 0
      <3> HIDE DEF c
      <3> QED
        BY <2>2
    <2> QED
      BY <1>2, <2>2, <2>3, PassedNone
  <1>5. IsRecord(r) /\ Lies(s, 0, r)
    BY <1>3, Peers DEF IInv, FirstWritten, FirstLies
  <1>6. Buffer(e) = Prefix(s, n)
    <2>1. arrived[e] - taken[e] = n
      BY <1>2, <1>4
    <2> QED
      BY <1>4, <2>1 DEF Buffer, Prefix
  <1> HIDE DEF s, r, n
  <1>7. AnswerTo(e) = StartProcess(Prefix(s, n), Handshake)
    BY <1>1, <1>6 DEF AnswerTo
  <1>8. StartProcess(Prefix(s, n), Handshake) = StartProcess(r, Handshake)
    BY <1>2, <1>5, <1>7, FirstRecordRead
  <1> QED
    BY <1>7, <1>8 DEF r

\* Nobody but our client is answered.
LEMMA StrangersRefused ==
    ASSUME IInv, NEW e \in Ends, phase[e] = "hello", AnswerTo(e).result = "some",
           opener.kind = "stranger"
    PROVE  ~Accepts(AnswerTo(e).value)
  <1> DEFINE m == AnswerTo(e).value
  <1>1. opener.record \in StrangerRecords
    BY Openers DEF IInv
  <1>2. Untagged(opener.record)
    BY <1>1, StrangerRecord
  <1>3. AnswerTo(e) = StartProcess(opener.record, Handshake)
    BY HelloIsFirst DEF First
  <1>4. m.type = ClientType => m.session_id.len # 32 \/ Get(m.session_id, 16) = 0
    BY <1>2, <1>3 DEF Untagged
  <1>5. Tag # 0
    BY ValuesAssumption
  <1> HIDE DEF m
  <1> QED
    BY <1>4, <1>5 DEF Accepts, m

\* The first record depends on what the node heard only for the node of our client.
LEMMA FirstIndependent ==
    ASSUME NEW o, NEW d, NEW m, NEW k, o.kind = "stranger" \/ d = "client"
    PROVE  First(o, d, m) = First(o, d, k)
  BY DEF First

-----------------------------------------------------------------------------
(* Reading a record other than the hello, and reading the hello. *)

\* A reader that moves is where its phase says.
LEMMA MovesInStep ==
    ASSUME IInv, NEW e \in Ends, Reading(e), AnswerTo(e).result # "none",
           taken' = [taken EXCEPT ![e] = taken[e] + AnswerTo(e).used],
           NEW p \in PhaseNames, phase' = [phase EXCEPT ![e] = p],
           p \in {"drop", "redirect", "panic"} \/ (AnswerTo(e).result = "some" /\ p = Following(phase[e])),
           arrived' = arrived, StreamsGrow(e)
    PROVE  PlacesOK' /\ ReadersInStep'
  <1> DEFINE used == AnswerTo(e).used
             E == ends[Peer(e)]
             t == taken[e]
  <1>1. /\ used \in Nat /\ taken[e] + used <= arrived[e]
        /\ AnswerTo(e).result = "some" =>
              /\ taken[e] + used \in E
              /\ Cardinality(Passed(E, taken[e] + used)) = Cardinality(Passed(E, taken[e])) + 1
    BY ReaderMoves
  <1> HIDE DEF used
  <1>2. /\ MapsOK /\ PlacesOK /\ ReadersInStep /\ StreamsFramed
    BY DEF IInv
  <1>3. ASSUME NEW d \in Ends
        PROVE  /\ taken'[d] = IF d = e THEN taken[e] + used ELSE taken[d]
               /\ phase'[d] = IF d = e THEN p ELSE phase[d]
    BY <1>2 DEF MapsOK, used
  <1>4. PlacesOK'
    <2> SUFFICES ASSUME NEW d \in Ends
                 PROVE  /\ taken'[d] \in Nat /\ arrived[d] \in Nat /\ taken'[d] <= arrived[d]
                        /\ arrived[d] <= stream'[Peer(d)].len /\ phase'[d] \in PhaseNames
      BY DEF PlacesOK
    <2>1. /\ taken[d] \in Nat /\ arrived[d] \in Nat /\ taken[d] <= arrived[d]
          /\ arrived[d] <= stream[Peer(d)].len /\ phase[d] \in PhaseNames
      BY <1>2 DEF PlacesOK
    <2>2. /\ stream[Peer(d)].len \in Nat /\ stream'[Peer(d)].len \in Nat
          /\ stream[Peer(d)].len <= stream'[Peer(d)].len
      BY Peers, ContinuedStream DEF StreamsGrow
    <2> QED
      BY <1>1, <1>3, <2>1, <2>2
  <1>5. ASSUME NEW d \in Ends PROVE InStep(d)'
    <2>1. CASE d # e
      <3>1. Continues(stream'[Peer(d)], ends'[Peer(d)], stream[Peer(d)], ends[Peer(d)])
        BY Peers DEF StreamsGrow
      <3> QED
        BY <1>2, <1>3, <2>1, <3>1, StillInStep
    <2>2. CASE d = e /\ p \in {"drop", "redirect", "panic"}
      BY <1>3, <2>2, Expectations DEF InStep, Reading
    <2>3. CASE d = e /\ AnswerTo(e).result = "some" /\ p = Following(phase[e])
      <3>1. ends'[Peer(e)] = E
        BY Peers DEF StreamsGrow
      <3>2. taken'[e] = taken[e] + used /\ phase'[e] = p
        BY <1>3
      <3> DEFINE c == Cardinality(Passed(E, taken[e]))
                 k == Cardinality(Passed(E, taken[e] + used))
      <3>3. c \in Nat
        <4>1. Framed(stream[Peer(e)], E)
          BY <1>2, Peers DEF StreamsFramed
        <4> QED
          BY <4>1, PassedFinite
      <3>4. k = c + 1 /\ taken[e] + used \in E
        BY <1>1, <2>3
      <3>5. phase[e] = CASE c = 0 -> "hello" [] c = 1 -> "ccs" [] OTHER -> "data"
        BY <1>2, InStepIs DEF InStep
      <3> HIDE DEF c, k
      <3>6. p = CASE k = 0 -> "hello" [] k = 1 -> "ccs" [] OTHER -> "data"
        <4>1. CASE c = 0
          BY <2>3, <3>3, <3>4, <3>5, <4>1 DEF Following
        <4>2. CASE c # 0
          <5>1. phase[e] # "hello"
            BY <3>5, <4>2
          <5>2. p = "data" /\ k # 0 /\ k # 1
            BY <2>3, <3>3, <3>4, <4>2, <5>1 DEF Following
          <5> QED
            BY <5>2
        <4> QED
          BY <4>1, <4>2
      <3>7. InStep(e)'
        BY <3>1, <3>2, <3>4, <3>6 DEF InStep, k
      <3> QED
        BY <2>3, <3>7
    <2> QED
      BY <2>1, <2>2, <2>3
  <1>6. ReadersInStep'
    <2>1. (\A d \in Ends : InStep(d))'
      BY <1>5
    <2> QED
      BY <2>1 DEF ReadersInStep, InStep, Passed
  <1> QED
    BY <1>4, <1>6

\* Nothing but the reader moves.
LEMMA QuietStreams ==
    ASSUME IInv, NEW e \in Ends, UNCHANGED <<stream, ends>>
    PROVE  StreamsGrow(e)
  <1>1. DOMAIN stream = Ends /\ DOMAIN ends = Ends /\ \A d \in Ends : Framed(stream[d], ends[d])
    BY DEF IInv, MapsOK, StreamsFramed
  <1>2. ASSUME NEW d \in Ends PROVE Continues(stream'[d], ends'[d], stream[d], ends[d])
    BY <1>1, ContinuesItself
  <1> QED
    BY <1>1, <1>2 DEF StreamsGrow

\* Reading anything but a good hello.
LEMMA ReadOnKeeps ==
    ASSUME IInv, NEW e \in Ends, Reading(e), AnswerTo(e).result # "none",
           taken' = [taken EXCEPT ![e] = taken[e] + AnswerTo(e).used],
           NEW p \in PhaseNames, phase' = [phase EXCEPT ![e] = p],
           p \in {"drop", "redirect", "panic"} \/ (AnswerTo(e).result = "some" /\ p = Following(phase[e])),
           UNCHANGED <<opener, arrived, stream, ends, heard>>
    PROVE  IInv'
  <1>1. PlacesOK' /\ ReadersInStep'
    BY QuietStreams, MovesInStep
  <1>2. /\ MapsOK /\ StreamsFramed /\ FirstWritten /\ NodeAnswers /\ StrangerAlone /\ HeardFirst
        /\ ClientGreets
    BY DEF IInv
  <1>3. MapsOK'
    BY <1>2 DEF MapsOK
  <1>4. StreamsFramed' /\ FirstWritten' /\ StrangerAlone' /\ HeardFirst' /\ ClientGreets'
    BY <1>2 DEF StreamsFramed, FirstWritten, StrangerAlone, HeardFirst, ClientGreets
  <1>5. phase'["server"] = "hello" => phase["server"] = "hello"
    <2>1. p # "hello"
      BY DEF Following
    <2> QED
      BY <1>2, <2>1, Peers DEF MapsOK
  <1>6. NodeAnswers'
    BY <1>2, <1>5 DEF NodeAnswers
  <1> QED
    BY <1>1, <1>3, <1>4, <1>6 DEF IInv

\* Reading a hello; the node writes only in answer to our client.
LEMMA ReadHelloKeeps ==
    ASSUME IInv, NEW e \in Ends, phase[e] = "hello", AnswerTo(e).result = "some",
           taken' = [taken EXCEPT ![e] = taken[e] + AnswerTo(e).used],
           NEW p \in {"ccs", "drop"}, phase' = [phase EXCEPT ![e] = p],
           heard' = [heard EXCEPT ![e] = AnswerTo(e).value],
           UNCHANGED <<opener, arrived>>, StreamsGrow(e),
           \/ UNCHANGED <<stream, ends>>
           \/ /\ opener.kind = "ours" /\ e = "server" /\ AnswerOnlyTo(AnswerTo(e).value)
              /\ FirstLies(stream'["server"], First(opener, "server", AnswerTo(e).value))
    PROVE  IInv'
  <1> DEFINE m == AnswerTo(e).value
  <1>1. Reading(e) /\ p \in PhaseNames /\ AnswerTo(e).result # "none"
        /\ (p \in {"drop", "redirect", "panic"} \/ p = Following(phase[e]))
    BY Expectations DEF Reading, PhaseNames, Following
  <1>2. PlacesOK' /\ ReadersInStep'
    BY <1>1, MovesInStep
  <1>3. /\ MapsOK /\ StreamsFramed /\ FirstWritten /\ NodeAnswers /\ StrangerAlone /\ HeardFirst
        /\ ClientGreets
    BY DEF IInv
  <1>4. MapsOK'
    BY <1>3 DEF MapsOK, StreamsGrow
  <1>5. StreamsFramed'
    BY ContinuedStream DEF StreamsFramed, StreamsGrow
  <1>6. ends[Peer(e)] # {} /\ Says(First(opener, Peer(e), heard["server"]), m)
    BY <1>1, ReaderMoves, HelloIsFirst DEF Says
  <1>7. /\ heard'[e] = m /\ \A d \in Ends : d # e => heard'[d] = heard[d]
        /\ phase'[e] = p /\ \A d \in Ends : d # e => phase'[d] = phase[d]
    BY <1>3 DEF MapsOK
  <1> HIDE DEF m
  \* Records that lie already are still the first.
  <1>8. ASSUME NEW d \in Ends, ends[d] # {}
        PROVE  First(opener, d, heard'["server"]) = First(opener, d, heard["server"])
    <2>1. CASE opener.kind = "stranger" \/ d = "client"
      BY <2>1, FirstIndependent
    <2>2. CASE opener.kind = "ours" /\ d = "server"
      <3>1. phase["server"] # "hello"
        BY <1>3, <1>8, <2>2 DEF NodeAnswers
      <3>2. e # "server" /\ "server" \in Ends
        BY <3>1, Peers
      <3> QED
        BY <1>7, <3>2
    <2> QED
      BY <1>3, <2>1, <2>2, Openers, Peers
  <1>9. FirstWritten'
    <2> SUFFICES ASSUME NEW d \in Ends, ends'[d] # {}
                 PROVE  FirstLies(stream'[d], First(opener, d, heard'["server"]))
      BY DEF FirstWritten
    <2>1. CASE ends[d] # {}
      <3>1. FirstLies(stream[d], First(opener, d, heard["server"]))
        BY <1>3, <2>1 DEF FirstWritten
      <3> QED
        BY <1>8, <2>1, <3>1, ContinuedStream DEF StreamsGrow
    <2>2. CASE ends[d] = {}
      <3>1. /\ opener.kind = "ours" /\ e = "server"
            /\ FirstLies(stream'["server"], First(opener, "server", m))
        BY <2>2 DEF m
      <3>2. d = "server"
        BY <2>2, <3>1 DEF StreamsGrow
      <3> QED
        BY <1>7, <3>1, <3>2
    <2> QED
      BY <2>1, <2>2
  <1>10. NodeAnswers'
    <2> SUFFICES ASSUME opener.kind = "ours"
                 PROVE  /\ phase'["server"] = "hello" => ends'["server"] = {}
                        /\ ends'["server"] # {} => AnswerOnlyTo(heard'["server"])
      BY DEF NodeAnswers
    <2>1. CASE e = "client"
      <3>1. /\ phase'["server"] = phase["server"] /\ heard'["server"] = heard["server"]
            /\ ends'["server"] = ends["server"]
        BY <1>7, <2>1, Peers DEF StreamsGrow
      <3> QED
        BY <1>3, <3>1 DEF NodeAnswers
    <2>2. CASE e = "server"
      <3>1. phase'["server"] # "hello" /\ heard'["server"] = m
        BY <1>7, <2>2
      <3>2. ends["server"] = {}
        BY <1>3, <2>2 DEF NodeAnswers
      <3>3. ends'["server"] # {} => AnswerOnlyTo(m)
        BY <3>2 DEF m
      <3> QED
        BY <3>1, <3>3
    <2> QED
      BY <2>1, <2>2 DEF Ends
  <1>11. StrangerAlone'
    <2> SUFFICES ASSUME opener.kind = "stranger" PROVE ends'[Peer(opener.end)] = {}
      BY DEF StrangerAlone
    <2>1. UNCHANGED <<stream, ends>>
      OBVIOUS
    <2> QED
      BY <1>3, <2>1 DEF StrangerAlone
  <1>12. HeardFirst'
    <2> SUFFICES ASSUME NEW d \in Ends, heard'[d] # Unheard
                 PROVE  ends'[Peer(d)] # {} /\ Says(First(opener, Peer(d), heard'["server"]), heard'[d])
      BY DEF HeardFirst
    <2>1. ends[Peer(d)] # {} /\ Says(First(opener, Peer(d), heard["server"]), heard'[d])
      <3>1. CASE d = e
        BY <1>6, <1>7, <3>1
      <3>2. CASE d # e
        BY <1>3, <1>7, <3>2 DEF HeardFirst
      <3> QED
        BY <3>1, <3>2
    <2>2. ends[Peer(d)] \subseteq ends'[Peer(d)] /\ Peer(d) \in Ends
      BY Peers, ContinuedStream DEF StreamsGrow
    <2> QED
      BY <1>8, <2>1, <2>2
  <1>13. ClientGreets'
    <2>1. ends'["client"] = ends["client"]
      BY Peers DEF StreamsGrow
    <2> QED
      BY <1>3, <2>1 DEF ClientGreets
  <1> QED
    BY <1>2, <1>4, <1>5, <1>9, <1>10, <1>11, <1>12, <1>13 DEF IInv

-----------------------------------------------------------------------------
(* The invariant is inductive. *)

\* The node's step when it reads a hello.
LEMMA AnswerHelloKeeps ==
    ASSUME IInv, phase["server"] = "hello", AnswerTo("server").result = "some",
           taken' = [taken EXCEPT !["server"] = taken["server"] + AnswerTo("server").used],
           heard' = [heard EXCEPT !["server"] = AnswerTo("server").value],
           UNCHANGED <<opener, arrived>>, AnswerHello(AnswerTo("server").value)
    PROVE  IInv'
  <1> DEFINE m == AnswerTo("server").value
             key == Slice(X25519_LEN, ServerKey)
             salt == Slice(32, ServerSalt)
             r == MakeServerHello(m, key, salt, opener.server)
  <1>1. CASE ~Accepts(m)
    <2>1. phase' = [phase EXCEPT !["server"] = "drop"] /\ UNCHANGED <<stream, ends>>
      BY <1>1 DEF AnswerHello
    <2> QED
      BY <2>1, Peers, QuietStreams, ReadHelloKeeps
  <1>2. CASE Accepts(m)
    <2>1. phase' = [phase EXCEPT !["server"] = "ccs"] /\ Write("server", Flight(r))
      BY <1>2 DEF AnswerHello, Flight
    <2>2. opener.kind = "ours"
      BY <1>2, Peers, StrangersRefused, Openers DEF IInv
    <2>3. m.type = ClientType /\ m.session_id.len = 32
      BY <1>2 DEF Accepts
    <2>4. Block(Buffer("server")) /\ AnswerTo("server") = StartProcess(Buffer("server"), Handshake)
      BY Peers, BufferBlock, Expectations DEF AnswerTo
    <2>5. Answerable(m)
      BY <2>3, <2>4, ReadAnswerable
    <2>6. m # Unheard
      BY <2>3 DEF Unheard, ClientType
    <2>7. opener.server \in ServerProfiles
      BY <2>2, Openers DEF IInv
    <2>8. Block(key) /\ key.len = 32 /\ Block(salt) /\ salt.len = 32
      <3>1. X25519_LEN = 32 /\ 32 \in Nat /\ ServerKey \in Nat /\ ServerSalt \in Nat
        BY ValuesAssumption DEF X25519_LEN
      <3> QED
        BY <3>1, SliceBlock
    <2> HIDE DEF key, salt, m
    <2>9. IsRecord(r)
      BY <2>5, <2>7, <2>8, AnswerBlock
    <2>10. First(opener, "server", m) = r
      BY <2>2 DEF First, key, salt
    <2> HIDE DEF r
    <2>11. Records(Flight(r), 6) /\ Flight(r)[1] = r
      BY <2>9, FlightRecords
    <2>12. ends["server"] = {}
      BY <2>2 DEF IInv, NodeAnswers
    <2>13. 6 \in Nat /\ 6 >= 1 /\ "server" \in Ends /\ MapsOK /\ StreamsFramed
      BY Peers DEF IInv
    <2>14. StreamsGrow("server") /\ FirstLies(stream'["server"], r)
      BY <2>1, <2>11, <2>12, <2>13, WriteContinues DEF StreamsGrow
    <2>15. /\ opener.kind = "ours" /\ AnswerOnlyTo(AnswerTo("server").value)
           /\ FirstLies(stream'["server"], First(opener, "server", AnswerTo("server").value))
      BY <2>2, <2>5, <2>6, <2>10, <2>14 DEF AnswerOnlyTo, m
    <2> QED
      BY <2>1, <2>13, <2>14, <2>15, ReadHelloKeeps
  <1> QED
    BY <1>1, <1>2

\* The client that has read the answer of its peer keeps the invariant.
LEMMA FinishHelloKeeps ==
    ASSUME IInv, phase["client"] = "hello", AnswerTo("client").result = "some",
           taken' = [taken EXCEPT !["client"] = taken["client"] + AnswerTo("client").used],
           heard' = [heard EXCEPT !["client"] = AnswerTo("client").value],
           UNCHANGED <<opener, arrived>>, FinishHello(AnswerTo("client").value)
    PROVE  IInv'
  <1>1. PICK p \in {"ccs", "drop"} : phase' = [phase EXCEPT !["client"] = p]
    BY DEF FinishHello
  <1>2. UNCHANGED <<stream, ends>>
    BY DEF FinishHello
  <1>3. StreamsGrow("client") /\ "client" \in Ends
    BY <1>2, Peers, QuietStreams
  <1> QED
    BY <1>1, <1>2, <1>3, ReadHelloKeeps

\* A reader that runs on what has arrived keeps the invariant.
LEMMA ReadKeeps ==
    ASSUME IInv, NEW e \in Ends, Read(e)
    PROVE  IInv'
  <1> DEFINE answer == AnswerTo(e)
  <1>1. /\ Reading(e) /\ answer.result # "none"
        /\ taken' = [taken EXCEPT ![e] = taken[e] + answer.used]
        /\ UNCHANGED <<opener, arrived>>
        /\ \/ /\ answer.result # "some"
              /\ phase' = [phase EXCEPT ![e] = answer.result]
              /\ UNCHANGED <<stream, ends, heard>>
           \/ /\ answer.result = "some" /\ phase[e] = "hello"
              /\ heard' = [heard EXCEPT ![e] = answer.value]
              /\ IF e = "server" THEN AnswerHello(answer.value) ELSE FinishHello(answer.value)
           \/ /\ answer.result = "some" /\ phase[e] # "hello"
              /\ phase' = [phase EXCEPT ![e] = "data"]
              /\ UNCHANGED <<stream, ends, heard>>
    BY DEF Read, AnswerTo
  <1>2. answer.result \in {"some", "drop", "redirect", "panic"}
    BY <1>1, ReaderMoves
  <1> HIDE DEF answer
  <1>3. CASE answer.result # "some"
    <2> DEFINE p == answer.result
    <2>1. p \in PhaseNames /\ p \in {"drop", "redirect", "panic"}
      BY <1>2, <1>3 DEF PhaseNames
    <2>2. phase' = [phase EXCEPT ![e] = p] /\ UNCHANGED <<opener, arrived, stream, ends, heard>>
      BY <1>1, <1>3
    <2> HIDE DEF p
    <2> QED
      BY <1>1, <2>1, <2>2, ReadOnKeeps DEF answer
  <1>4. CASE answer.result = "some" /\ phase[e] # "hello"
    <2> DEFINE p == "data"
    <2>1. p \in PhaseNames /\ p = Following(phase[e])
      BY <1>4 DEF PhaseNames, Following
    <2>2. phase' = [phase EXCEPT ![e] = p] /\ UNCHANGED <<opener, arrived, stream, ends, heard>>
      BY <1>1, <1>4
    <2> HIDE DEF p
    <2> QED
      BY <1>1, <1>4, <2>1, <2>2, ReadOnKeeps DEF answer
  <1>5. CASE answer.result = "some" /\ phase[e] = "hello" /\ e = "server"
    BY <1>1, <1>5, AnswerHelloKeeps DEF answer
  <1>6. CASE answer.result = "some" /\ phase[e] = "hello" /\ e = "client"
    BY <1>1, <1>6, FinishHelloKeeps DEF answer
  <1> QED
    BY <1>3, <1>4, <1>5, <1>6 DEF Ends

\* The invariant holds of a connection nobody has written to.
LEMMA InitKeeps == Init => IInv
  <1> SUFFICES ASSUME Init PROVE IInv
    OBVIOUS
  <1>1. /\ opener \in OurConnections \cup Strangers
        /\ DOMAIN stream = Ends /\ DOMAIN ends = Ends /\ DOMAIN arrived = Ends /\ DOMAIN taken = Ends
        /\ DOMAIN phase = Ends /\ DOMAIN heard = Ends
        /\ \A e \in Ends : /\ stream[e] = Empty /\ ends[e] = {} /\ arrived[e] = 0 /\ taken[e] = 0
                           /\ phase[e] = "hello" /\ heard[e] = Unheard
    BY DEF Init
  <1>2. MapsOK
    BY <1>1 DEF MapsOK
  <1>3. StreamsFramed /\ FirstWritten /\ HeardFirst /\ ClientGreets
    BY <1>1, FramedEmpty, Peers DEF StreamsFramed, FirstWritten, HeardFirst, ClientGreets
  <1>4. PlacesOK
    BY <1>1, Peers, EmptyBlock DEF PlacesOK, PhaseNames
  <1>5. NodeAnswers /\ StrangerAlone
    BY <1>1, <1>2, Openers, Peers DEF NodeAnswers, StrangerAlone
  <1>6. ReadersInStep
    <2>1. ASSUME NEW e \in Ends PROVE InStep(e)
      <3>1. Passed(ends[Peer(e)], taken[e]) = {}
        BY <1>1, Peers DEF Passed
      <3>2. Cardinality({}) = 0
        BY FS_EmptySet
      <3> QED
        BY <1>1, <3>1, <3>2 DEF InStep
    <2> QED
      BY <2>1, InStepIs
  <1> QED
    BY <1>2, <1>3, <1>4, <1>5, <1>6 DEF IInv

\* Every reachable state of an opening satisfies the invariant: whatever Connect,
\* MeetStranger, SendData, Receive and Read do, in any order, keeps all its parts.
THEOREM OpeningInvariant == Spec => []IInv
  <1>1. ASSUME IInv, [Next]_vars PROVE IInv'
    <2>1. CASE Connect
      BY <1>1, <2>1, ConnectKeeps
    <2>2. CASE MeetStranger
      BY <1>1, <2>2, MeetStrangerKeeps
    <2>3. CASE SendData
      BY <1>1, <2>3, SendDataKeeps
    <2>4. ASSUME NEW e \in Ends, Receive(e) PROVE IInv'
      BY <1>1, <2>4, ReceiveKeeps
    <2>5. ASSUME NEW e \in Ends, Read(e) PROVE IInv'
      BY <1>1, <2>5, ReadKeeps
    <2>6. CASE UNCHANGED vars
      BY <1>1, <2>6 DEF vars, IInv, MapsOK, StreamsFramed, FirstWritten, PlacesOK, ReadersInStep,
                        Reading, NodeAnswers, StrangerAlone, HeardFirst, ClientGreets
    <2> QED
      BY <1>1, <2>1, <2>2, <2>3, <2>4, <2>5, <2>6 DEF Next
  <1> QED
    BY <1>1, InitKeeps, PTL DEF Spec

\* Every reachable state of an opening is well typed: a reader takes no more than
\* arrived and no more arrives than was written, whoever opens the connection.
THEOREM OpeningTypeOK == Spec => []TypeOK
  <1>1. ASSUME IInv PROVE TypeOK
    <2> SUFFICES ASSUME NEW e \in Ends
                 PROVE  /\ phase[e] \in DOMAIN Expected \cup {"drop", "redirect", "panic"}
                        /\ 0 <= taken[e] /\ taken[e] <= arrived[e] /\ arrived[e] <= stream[Peer(e)].len
                        /\ \A n \in ends[e] : n \in 1 .. stream[e].len
      BY DEF TypeOK
    <2>1. /\ taken[e] \in Nat /\ taken[e] <= arrived[e] /\ arrived[e] <= stream[Peer(e)].len
          /\ phase[e] \in PhaseNames
      BY <1>1 DEF IInv, PlacesOK
    <2>2. stream[e].len \in Nat /\ \A n \in ends[e] : n \in Nat /\ 0 < n /\ n <= stream[e].len
      BY <1>1, BlockReads DEF IInv, StreamsFramed, Framed
    <2>3. \A n \in ends[e] : n \in 1 .. stream[e].len
      BY <2>2
    <2>4. phase[e] \in DOMAIN Expected \cup {"drop", "redirect", "panic"}
      BY <2>1, Expectations DEF PhaseNames
    <2> QED
      BY <2>1, <2>3, <2>4
  <1> QED
    BY <1>1, OpeningInvariant, PTL

\* A reader always stands where a record of its peer begins, and expects the kind
\* of record its peer wrote there, wherever TCP cut the stream.
THEOREM OpeningReadersInStep == Spec => []ReadersInStep
  <1>1. IInv => ReadersInStep
    BY DEF IInv
  <1> QED
    BY <1>1, OpeningInvariant, PTL

\* A reader that waits waits for bytes: unless the record is of a type that is not
\* TLS or too short for application data, none lies complete in its buffer.
THEOREM OpeningWaitsOnlyForBytes == Spec => []WaitsOnlyForBytes
  <1>1. ASSUME IInv PROVE WaitsOnlyForBytes
    <2> SUFFICES ASSUME NEW e \in Ends, Reading(e), AnswerTo(e).result = "none",
                        NEW n \in ends[Peer(e)], n > taken[e], n <= arrived[e],
                        Get(Buffer(e), 0) \in ContentTypes,
                        ~(Get(Buffer(e), 0) = ApplicationData /\ Get(Buffer(e), 3) < MinAppData)
                 PROVE  FALSE
      BY DEF WaitsOnlyForBytes, AnswerTo
    <2> DEFINE s == stream[Peer(e)]
               E == ends[Peer(e)]
               t == taken[e]
               b == Buffer(e)
               room == arrived[e] - taken[e]
    <2>1. /\ Block(s) /\ s.len \in Nat /\ Framed(s, E) /\ t \in Nat /\ arrived[e] \in Nat
          /\ t <= arrived[e] /\ arrived[e] <= s.len /\ Block(b) /\ b.len = room
          /\ \A p \in Nat : p < room => Get(b, p) = Get(s, t + p)
      BY <1>1, BufferBlock
    <2>2. t \in {0} \cup E
      BY <1>1, InStepIs DEF IInv, InStep
    <2> HIDE DEF s, E, b, room
    <2>3. n \in E /\ n \in Nat
      BY <2>1 DEF E, Framed
    <2>4. t < s.len
      BY <2>1, <2>3
    <2>5. t + 5 + Get(s, t + 3) <= n /\ Get(s, t + 3) \in Nat
      BY <2>1, <2>2, <2>3, <2>4, BlockReads DEF Framed
    <2>6. room \in Nat /\ 3 < room /\ room >= 5 + Get(s, t + 3)
      BY <2>1, <2>3, <2>5 DEF room
    <2>7. Get(b, 3) = Get(s, t + 3)
      BY <2>1, <2>6
    <2>8. RecordCanParse(b)
      BY <2>1, <2>5, <2>6, <2>7 DEF RecordCanParse, RecordHeaderSize, b
    <2>9. RecordLike(b)
      BY <2>1, BlockReads
    <2>10. StartProcess(b, Expected[phase[e]]).result # "none"
      BY <2>8, <2>9, ReadersWaitForRecords
    <2> QED
      BY <2>10 DEF AnswerTo, b
  <1> QED
    BY <1>1, OpeningInvariant, PTL

-----------------------------------------------------------------------------
(* The parsers stay inside the record. *)

\* The message in a record and what is behind its header.
LEMMA BodyOfRecord ==
    ASSUME NEW r, NEW m, NEW b, Block(r), Block(m), Block(b), Lies(r, 5, m), Get(r, 3) = m.len,
           m.len = 4 + b.len, Lies(m, 4, b)
    PROVE  Payload(r) = m /\ Body(r) = b
  <1>1. Payload(r) = m
    BY PayloadOfRecord
  <1>2. b.len \in Nat /\ m.len - 4 = b.len
    BY BlockReads
  <1>3. SubBlock(m, 4, b.len) = b
    BY CutOut
  <1> QED
    BY <1>1, <1>2, <1>3 DEF Body, Suffix

\* The hello of our client, as a reader finds it.
LEMMA OurHelloBody ==
    ASSUME NEW p, NEW h, Hello(p, h)
    PROVE  LET r == MakeClientHello(p, h)
           IN  /\ IsRecord(r) /\ Block(r) /\ Get(Payload(r), 0) = ClientType /\ Body(r) = HelloBody(p, h)
  <1> DEFINE r == MakeClientHello(p, h)
             m == HelloPayload(p, h)
             b == HelloBody(p, h)
  <1>1. /\ Block(b) /\ Block(m) /\ m.len = 4 + b.len /\ Get(m, 0) = ClientType /\ Lies(m, 4, b)
        /\ IsRecord(r) /\ Get(r, 3) = m.len /\ Lies(r, 5, m)
    BY HelloRecordBlock
  <1> HIDE DEF r, m, b
  <1>2. Block(r)
    BY <1>1 DEF IsRecord
  <1>3. Payload(r) = m /\ Body(r) = b
    BY <1>1, <1>2, BodyOfRecord
  <1> QED
    BY <1>1, <1>2, <1>3 DEF r, b

\* No reader panics on the hello of our client.
LEMMA OurHelloCalm ==
    ASSUME NEW p, NEW h, Hello(p, h)
    PROVE  Calm(MakeClientHello(p, h))
  <1> DEFINE r == MakeClientHello(p, h)
             b == HelloBody(p, h)
  <1>1. Block(r) /\ Get(Payload(r), 0) = ClientType /\ Body(r) = b
    BY OurHelloBody
  <1>2. PICK n \in 3 .. 4 :
           ClientFields(b, h.salt, SessionId(h), OfferedSuites(p, h.grease), n, Extensions(p, h))
    BY HelloFields
  <1> HIDE DEF r, b
  <1>3. Block(b) /\ Get(b, 34) = 32 /\ Get(b, 67) = 2 * n
    BY <1>2 DEF ClientFields
  <1>4. Get(b, 35 + Get(b, 34)) % 2 # 1
    <2>1. 35 + 32 = 67
      OBVIOUS
    <2>2. Get(b, 35 + Get(b, 34)) = 2 * n
      BY <1>3, <2>1
    <2>3. n = 3 \/ n = 4
      OBVIOUS
    <2> QED
      BY <2>2, <2>3
  <1>5. Numeric(b)
    BY <1>3, BlockReads
  <1>6. ClientHelloParse(b).result # "panic"
    BY <1>4, <1>5, ClientHelloStaysInside
  <1>7. ASSUME StartProcess(r, Handshake).result = "panic" PROVE FALSE
    <2>1. ParsedBody(r).result = "panic"
      BY <1>1, <1>7, HandshakeReads
    <2>2. ParsedBody(r) = ClientHelloParse(b)
      BY <1>1 DEF ParsedBody
    <2> QED
      BY <1>6, <2>1, <2>2
  <1> QED
    BY <1>7 DEF Calm, r

\* The node's hello, as a reader finds it.
LEMMA NodeHelloBody ==
    ASSUME IInv, opener.kind = "ours", ends["server"] # {}
    PROVE  LET r == First(opener, "server", heard["server"])
               m == heard["server"]
               key == Slice(X25519_LEN, ServerKey)
               salt == Slice(32, ServerSalt)
               b == AnswerBody(m, key, salt, opener.server)
           IN  /\ IsRecord(r) /\ Block(r) /\ Get(Payload(r), 0) = ServerType /\ Body(r) = b
               /\ Answerable(m) /\ m # Unheard /\ opener.server \in ServerProfiles
               /\ Block(key) /\ key.len = 32 /\ Block(salt) /\ salt.len = 32
               /\ ServerFields(b, salt, m.session_id, SelectedSuite(m.cipher_suites, opener.server),
                               ServerExtensions(key, opener.server))
  <1> DEFINE m == heard["server"]
             key == Slice(X25519_LEN, ServerKey)
             salt == Slice(32, ServerSalt)
             r == MakeServerHello(m, key, salt, opener.server)
             q == AnswerPayload(m, key, salt, opener.server)
             b == AnswerBody(m, key, salt, opener.server)
  <1>1. Answerable(m) /\ m # Unheard
    BY DEF IInv, NodeAnswers, AnswerOnlyTo
  <1>2. opener.server \in ServerProfiles
    BY Openers DEF IInv
  <1>3. Block(key) /\ key.len = 32 /\ Block(salt) /\ salt.len = 32
    <2>1. X25519_LEN = 32 /\ 32 \in Nat /\ ServerKey \in Nat /\ ServerSalt \in Nat
      BY ValuesAssumption DEF X25519_LEN
    <2> QED
      BY <2>1, SliceBlock
  <1>4. First(opener, "server", m) = r
    BY DEF First
  <1> DEFINE profile == opener.server
             fields == ServerFields(b, salt, m.session_id, SelectedSuite(m.cipher_suites, profile),
                                    ServerExtensions(key, profile))
  <1> HIDE DEF key, salt
  <1>5. /\ fields
        /\ Block(b) /\ Block(q) /\ q.len = 4 + b.len /\ Get(q, 0) = ServerType /\ Lies(q, 4, b)
        /\ IsRecord(r) /\ Get(r, 3) = q.len /\ Lies(r, 5, q)
    <2> HIDE DEF m
    <2> QED
      BY <1>1, <1>2, <1>3, AnswerBlock
  <1> HIDE DEF r, q, b, m, fields
  <1>6. Block(r)
    BY <1>5 DEF IsRecord
  <1>7. Payload(r) = q /\ Body(r) = b
    BY <1>5, <1>6, BodyOfRecord
  <1> QED
    BY <1>1, <1>2, <1>3, <1>4, <1>5, <1>6, <1>7 DEF m, b, key, salt, fields

\* No reader panics on what its peer sends first, if strangers send lists of even length.
LEMMA FirstCalm ==
    ASSUME IInv, EvenLists, NEW d \in Ends, ends[d] # {}
    PROVE  Calm(First(opener, d, heard["server"]))
  <1>1. CASE opener.kind = "stranger"
    <2>1. opener.record \in StrangerRecords
      BY <1>1, Openers DEF IInv
    <2>2. Calm(opener.record)
      BY <2>1, StrangerRecord
    <2> QED
      BY <1>1, <2>2 DEF First
  <1>2. CASE opener.kind = "ours" /\ d = "client"
    <2>1. Hello(opener.profile, OurHello(opener))
      BY <1>2 DEF IInv, ClientGreets
    <2>2. Calm(MakeClientHello(opener.profile, OurHello(opener)))
      BY <2>1, OurHelloCalm
    <2> QED
      BY <1>2, <2>2 DEF First
  <1>3. CASE opener.kind = "ours" /\ d = "server"
    <2> DEFINE r == First(opener, "server", heard["server"])
    <2>1. Block(r) /\ Get(Payload(r), 0) = ServerType
      BY <1>3, NodeHelloBody
    <2> HIDE DEF r
    <2>2. Calm(r)
      BY <2>1, NotClient DEF ServerType, ClientType
    <2> QED
      BY <1>3, <2>2 DEF r
  <1> QED
    BY <1>1, <1>2, <1>3, Openers DEF IInv, Ends

\* No parser reads past its buffer, whatever arrives in which pieces, as long as no
\* stranger sends a list of suites of odd length.
THEOREM OpeningParseStaysInside ==
    ASSUME EvenLists
    PROVE  Spec => []ParseStaysInside
  <1>1. Init => ParseStaysInside
    BY DEF Init, ParseStaysInside
  <1>2. ASSUME IInv, ParseStaysInside, [Next]_vars PROVE ParseStaysInside'
    <2>1. CASE phase' = phase
      BY <1>2, <2>1 DEF ParseStaysInside
    <2>2. ASSUME NEW e \in Ends, Read(e) PROVE ParseStaysInside'
      <3> DEFINE answer == AnswerTo(e)
      <3>1. /\ Reading(e) /\ answer.result # "none"
            /\ \/ phase' = [phase EXCEPT ![e] = answer.result]
               \/ phase[e] = "hello" /\ e = "server" /\ AnswerHello(answer.value)
               \/ phase[e] = "hello" /\ e = "client" /\ FinishHello(answer.value)
               \/ phase' = [phase EXCEPT ![e] = "data"]
        BY <2>2 DEF Read, AnswerTo, Ends
      <3>2. ends[Peer(e)] # {} /\ (answer.result = "panic" => phase[e] = "hello")
        BY <1>2, <3>1, ReaderMoves
      <3>3. answer.result # "panic"
        <4> SUFFICES ASSUME answer.result = "panic" PROVE FALSE
          OBVIOUS
        <4>1. answer = StartProcess(First(opener, Peer(e), heard["server"]), Handshake)
          BY <1>2, <3>1, <3>2, HelloIsFirst
        <4>2. Calm(First(opener, Peer(e), heard["server"]))
          BY <1>2, <3>2, Peers, FirstCalm
        <4> QED
          BY <4>1, <4>2 DEF Calm
      <3> HIDE DEF answer
      <3>4. PICK p : p # "panic" /\ phase' = [phase EXCEPT ![e] = p]
        <4>1. CASE phase[e] = "hello" /\ e = "server" /\ AnswerHello(answer.value)
          BY <4>1 DEF AnswerHello
        <4>2. CASE phase[e] = "hello" /\ e = "client" /\ FinishHello(answer.value)
          <5>1. PICK q \in {"ccs", "drop"} : phase' = [phase EXCEPT !["client"] = q]
            BY <4>2 DEF FinishHello
          <5> QED
            BY <4>2, <5>1
        <4> QED
          BY <3>1, <3>3, <4>1, <4>2
      <3>5. DOMAIN phase = Ends
        BY <1>2 DEF IInv, MapsOK
      <3> QED
        BY <1>2, <3>4, <3>5 DEF ParseStaysInside
    <2>3. CASE Connect \/ MeetStranger \/ SendData \/ UNCHANGED vars
      <3>1. phase' = phase
        BY <2>3 DEF Connect, MeetStranger, SendData, vars
      <3> QED
        BY <2>1, <3>1
    <2>4. ASSUME NEW e \in Ends, Receive(e) PROVE ParseStaysInside'
      <3>1. phase' = phase
        BY <2>4 DEF Receive
      <3> QED
        BY <2>1, <3>1
    <2> QED
      BY <1>2, <2>2, <2>3, <2>4 DEF Next
  <1> QED
    BY <1>1, <1>2, OpeningInvariant, PTL DEF Spec

-----------------------------------------------------------------------------
(***************************************************************************)
(* What is read back from a hello.                                         *)
(***************************************************************************)

\* The function such a list is computed with exists.
LEMMA ReadOffIter ==
    ASSUME NEW l \in Nat, NEW S, NEW Jump, NEW H, Forward(S, Jump, l)
    PROVE  \E f : ReadOff(f, S, Jump, H)
  <1> DEFINE D(k) == {o \in Nat : o + k >= l}
             Value(f, o) == IF o \in S THEN Ahead(H[o], f[Jump[o]]) ELSE <<>>
             Good(f, k) == f = [o \in D(k) |-> Value(f, o)]
             T == {k \in Nat : \E f : Good(f, k)}
  <1>0. \A o \in S : o \in Nat /\ o < l /\ Jump[o] \in Nat /\ o < Jump[o]
    BY DEF Forward
  <1>1. 0 \in T
    <2> DEFINE g == [o \in D(0) |-> <<>>]
    <2>1. \A o \in D(0) : o \notin S
      BY <1>0
    <2>2. Good(g, 0)
      <3> DEFINE rhs == [o \in D(0) |-> Value(g, o)]
      <3>1. \A o \in D(0) : rhs[o] = g[o]
        BY <2>1
      <3>2. g = [o \in D(0) |-> g[o]] /\ rhs = [o \in D(0) |-> rhs[o]]
        OBVIOUS
      <3> HIDE DEF g, rhs
      <3>3. g = rhs
        BY <3>1, <3>2
      <3> QED
        BY <3>3 DEF rhs
    <2> HIDE DEF g, Good
    <2> QED
      BY <2>2
  <1>2. ASSUME NEW k \in Nat, k \in T PROVE k + 1 \in T
    <2>1. PICK f : Good(f, k)
      BY <1>2
    <2> DEFINE g == [o \in D(k + 1) |-> Value(f, o)]
    <2>2. ASSUME NEW o \in D(k) PROVE o \in D(k + 1) /\ g[o] = f[o]
      <3>1. o \in D(k + 1)
        OBVIOUS
      <3>2. f[o] = Value(f, o)
        BY <2>1
      <3>3. g[o] = Value(f, o)
        BY <3>1
      <3> QED
        BY <3>1, <3>2, <3>3
    <2>3. ASSUME NEW o \in D(k + 1) PROVE g[o] = Value(g, o)
      <3>1. g[o] = Value(f, o)
        OBVIOUS
      <3>2. CASE o \in S
        <4>1. Jump[o] \in D(k)
          BY <1>0, <3>2
        <4>2. g[Jump[o]] = f[Jump[o]]
          BY <2>2, <4>1
        <4> HIDE DEF g
        <4> QED
          BY <3>1, <3>2, <4>2
      <3>3. CASE o \notin S
        BY <3>1, <3>3
      <3> QED
        BY <3>2, <3>3
    <2>4. Good(g, k + 1)
      <3> DEFINE rhs == [o \in D(k + 1) |-> Value(g, o)]
      <3>1. \A o \in D(k + 1) : rhs[o] = g[o]
        BY <2>3
      <3>2. g = [o \in D(k + 1) |-> g[o]] /\ rhs = [o \in D(k + 1) |-> rhs[o]]
        OBVIOUS
      <3> HIDE DEF g, rhs
      <3>3. g = rhs
        BY <3>1, <3>2
      <3> QED
        BY <3>3 DEF rhs
    <2> HIDE DEF g, Good
    <2> QED
      BY <2>4
  <1> HIDE DEF T
  <1>3. Nat \subseteq T
    BY <1>1, <1>2, SetInduction
  <1>4. PICK f : Good(f, l)
    BY <1>3 DEF T
  <1>5. D(l) = Nat
    OBVIOUS
  <1>6. ReadOff(f, S, Jump, H)
    BY <1>4, <1>5 DEF ReadOff
  <1> QED
    BY <1>6

\* ExtensionStack::parse reads the extensions off.
LEMMA StackReads ==
    ASSUME NEW x, Block(x), ExtensionStackParse(x).result = "some"
    PROVE  \E f : StackOf(f, x) /\ ExtensionStackParse(x).value = f[0]
  <1> DEFINE next(o) == o + 4 + Get(x, o + 2)
             walk[o \in Nat] == IF o + 4 <= x.len THEN walk[next(o)] ELSE o
             take[o \in Nat] ==
                IF x.len - o >= 4
                THEN <<[etype |-> Get(x, o), data |-> SubBlock(x, o + 4, Get(x, o + 2))]>>
                     \o take[next(o)]
                ELSE <<>>
             Good(f) == f = [o \in Nat |->
                IF x.len - o >= 4
                THEN <<[etype |-> Get(x, o), data |-> SubBlock(x, o + 4, Get(x, o + 2))]>>
                     \o f[next(o)]
                ELSE <<>>]
  <1>1. x.len \in Nat /\ \A o : Get(x, o) \in Nat
    BY BlockReads
  <1>2. ExtensionStackParse(x) = IF walk[0] > x.len THEN Answer("none", 0)
                                 ELSE IF walk[0] # x.len THEN Answer("drop", 0)
                                 ELSE Found(take[0], x.len)
    BY DEF ExtensionStackParse
  <1>3. take = CHOOSE f : Good(f)
    OBVIOUS
  <1> HIDE DEF walk, take
  <1>4. ExtensionStackParse(x).value = take[0]
    <2>1. CASE walk[0] > x.len
      <3>1. ExtensionStackParse(x) = Answer("none", 0)
        BY <1>2, <2>1
      <3> QED
        BY <3>1 DEF Answer
    <2>2. CASE ~(walk[0] > x.len) /\ walk[0] # x.len
      <3>1. ExtensionStackParse(x) = Answer("drop", 0)
        BY <1>2, <2>2
      <3> QED
        BY <3>1 DEF Answer
    <2>3. CASE ~(walk[0] > x.len) /\ walk[0] = x.len
      <3>1. ExtensionStackParse(x) = Found(take[0], x.len)
        BY <1>2, <2>3
      <3> QED
        BY <3>1 DEF Found
    <2> QED
      BY <2>1, <2>2, <2>3
  <1>5. \E f : Good(f)
    <2> DEFINE S == {o \in Nat : x.len - o >= 4}
               Jump == [o \in Nat |-> next(o)]
               H == [o \in Nat |-> ExtensionAt(x, o)]
    <2>1. Forward(S, Jump, x.len)
      BY <1>1 DEF Forward
    <2>2. PICK f : ReadOff(f, S, Jump, H)
      <3> HIDE DEF S, Jump, H
      <3> QED
        BY <1>1, <2>1, ReadOffIter
    <2>3. f = [o \in Nat |-> IF o \in S THEN Ahead(H[o], f[Jump[o]]) ELSE <<>>]
      BY <2>2 DEF ReadOff
    <2>4. ASSUME NEW o \in Nat
          PROVE  (IF o \in S THEN Ahead(H[o], f[Jump[o]]) ELSE <<>>)
                 = IF x.len - o >= 4
                   THEN <<[etype |-> Get(x, o), data |-> SubBlock(x, o + 4, Get(x, o + 2))]>>
                        \o f[next(o)]
                   ELSE <<>>
      BY DEF Ahead, ExtensionAt
    <2>5. Good(f)
      <3> HIDE DEF S, Jump, H
      <3> QED
        BY <2>3, <2>4, Zenon
    <2> QED
      BY <2>5
  <1>6. Good(take)
    <2> HIDE DEF Good
    <2> QED
      BY <1>3, <1>5
  <1>7. StackOf(take, x)
    BY <1>6 DEF StackOf, Ahead, ExtensionAt
  <1> QED
    BY <1>4, <1>7

\* extract_peer_public reads the shares off.
LEMMA SharesRead ==
    ASSUME NEW x, Block(x)
    PROVE  \E f : SharesOf(f, x) /\ KeyShareEntries(x) = f[0]
  <1> DEFINE next(o) == o + 4 + Get(x, o + 2)
             entries[o \in Nat] ==
                IF o + 4 <= x.len /\ o + 4 + Get(x, o + 2) <= x.len
                THEN <<[group |-> Get(x, o), key |-> SubBlock(x, o + 4, Get(x, o + 2))]>>
                     \o entries[o + 4 + Get(x, o + 2)]
                ELSE <<>>
             Good(f) == f = [o \in Nat |->
                IF o + 4 <= x.len /\ o + 4 + Get(x, o + 2) <= x.len
                THEN <<[group |-> Get(x, o), key |-> SubBlock(x, o + 4, Get(x, o + 2))]>>
                     \o f[o + 4 + Get(x, o + 2)]
                ELSE <<>>]
  <1>1. x.len \in Nat /\ \A o : Get(x, o) \in Nat
    BY BlockReads
  <1>2. KeyShareEntries(x) = entries[0]
    BY DEF KeyShareEntries
  <1>3. entries = CHOOSE f : Good(f)
    OBVIOUS
  <1> HIDE DEF entries
  <1>4. \E f : Good(f)
    <2> DEFINE S == {o \in Nat : o + 4 <= x.len /\ o + 4 + Get(x, o + 2) <= x.len}
               Jump == [o \in Nat |-> next(o)]
               H == [o \in Nat |-> ShareAt(x, o)]
    <2>1. Forward(S, Jump, x.len)
      BY <1>1 DEF Forward
    <2>2. PICK f : ReadOff(f, S, Jump, H)
      <3> HIDE DEF S, Jump, H
      <3> QED
        BY <1>1, <2>1, ReadOffIter
    <2>3. f = [o \in Nat |-> IF o \in S THEN Ahead(H[o], f[Jump[o]]) ELSE <<>>]
      BY <2>2 DEF ReadOff
    <2>4. ASSUME NEW o \in Nat
          PROVE  (IF o \in S THEN Ahead(H[o], f[Jump[o]]) ELSE <<>>)
                 = IF o + 4 <= x.len /\ o + 4 + Get(x, o + 2) <= x.len
                   THEN <<[group |-> Get(x, o), key |-> SubBlock(x, o + 4, Get(x, o + 2))]>>
                        \o f[o + 4 + Get(x, o + 2)]
                   ELSE <<>>
      BY DEF Ahead, ShareAt
    <2>5. Good(f)
      <3> HIDE DEF S, Jump, H
      <3> QED
        BY <2>3, <2>4, Zenon
    <2> QED
      BY <2>5
  <1>5. Good(entries)
    <2> HIDE DEF Good
    <2> QED
      BY <1>3, <1>4
  <1>6. SharesOf(entries, x)
    BY <1>5 DEF SharesOf, Ahead, ShareAt
  <1> QED
    BY <1>2, <1>6

-----------------------------------------------------------------------------
(* Where the extensions lie in the list. *)

\* What one turn appended, in all that was built.
LEMMA TurnLaid ==
    ASSUME NEW p, NEW h, NEW id, NEW s, Block(s), NEW y, Shaped(p, h, id, y),
           NEW x, Block(x), Lies(x, 0, Joined(s, y))
    PROVE  Laid(x, s.len, Joined(s, y).len, p, h, id)
  <1>1. Block(y)
    BY ShapedBlock
  <1>2. /\ Block(Joined(s, y)) /\ Joined(s, y).len = s.len + y.len /\ Lies(Joined(s, y), s.len, y)
    BY <1>1, Joined2
  <1> DEFINE j == Joined(s, y)
  <1> HIDE DEF j
  <1>3. s.len \in Nat /\ j.len \in Nat /\ y.len \in Nat /\ j.len <= x.len /\ x.len \in Nat
    BY <1>1, <1>2, BlockReads DEF Lies, j
  <1>4. Lies(x, 0 + s.len, y)
    BY <1>1, <1>2, LiesWithin DEF j
  <1>5. Lies(x, s.len, y)
    BY <1>3, <1>4
  <1>6. CASE y = Empty /\ id \notin Sought
    <2>1. j.len = s.len
      BY <1>2, <1>3, <1>6, EmptyBlock DEF j
    <2> QED
      BY <1>6, <2>1 DEF Laid, j
  <1>7. ASSUME NEW t, NEW d, t \in Word, Block(d), d.len < 2000, y = AddExtension(t, d),
               t \in Sought \/ id \in Sought => t = id /\ d = DataOf(p, h, id)
        PROVE  Laid(x, s.len, j.len, p, h, id)
    <2>1. t \in Nat /\ t < 65536 /\ d.len \in Nat /\ d.len < 65536
      BY <1>7, BlockReads DEF Word
    <2>2. y.len = 4 + d.len /\ Get(y, 0) = t /\ Get(y, 2) = d.len /\ Lies(y, 4, d)
      BY <1>7, <2>1, ExtensionBlock
    <2>3. Get(x, s.len) = t
      BY <1>5, <2>1, <2>2, LiesHead
    <2>4. Get(x, s.len + 2) = d.len
      <3>1. 2 \in Nat /\ 2 < y.len
        BY <2>1, <2>2
      <3> QED
        BY <1>5, <2>2, <3>1, LiesReads
    <2>5. Lies(x, s.len + 4, d)
      BY <1>1, <1>5, <1>7, <2>2, LiesWithin
    <2>6. SubBlock(x, s.len + 4, d.len) = d
      BY <1>7, <2>5, CutOut
    <2>7. j.len = s.len + 4 + d.len
      BY <1>2, <1>3, <2>1, <2>2 DEF j
    <2> QED
      BY <1>3, <1>7, <2>1, <2>3, <2>4, <2>6, <2>7 DEF Laid
  <1> QED
    BY <1>6, <1>7 DEF Shaped, j

\* What is built after a turn is in front of all that is built.
LEMMA TurnsInFront ==
    ASSUME NEW p, Listed(p), NEW h, Fine(h), NEW o \in Nat, NEW m \in Nat, NEW order, NEW v,
           Turns(v, p, h, o, order, m)
    PROVE  \A k \in Nat : k <= m => Lies(v[m], 0, v[m - k])
  <1> DEFINE T == {k \in Nat : k <= m => Lies(v[m], 0, v[m - k])}
  <1>0. \A k \in Nat : k <= m => Block(v[k])
    BY TurnsBlock
  <1>1. 0 \in T
    <2>1. m <= m /\ m - 0 = m
      OBVIOUS
    <2>2. Block(v[m])
      BY <1>0, <2>1
    <2>3. v[m].len \in Nat /\ 0 + v[m].len = v[m].len
      BY <2>2, BlockReads
    <2>4. Lies(v[m], 0, v[m])
      BY <2>3 DEF Lies
    <2> QED
      BY <2>1, <2>4
  <1>2. ASSUME NEW k \in Nat, k \in T PROVE k + 1 \in T
    <2> SUFFICES ASSUME k + 1 <= m PROVE Lies(v[m], 0, v[m - (k + 1)])
      OBVIOUS
    <2> DEFINE a == m - (k + 1)
               b == m - k
    <2>1. k <= m /\ a \in Nat /\ b \in Nat /\ a <= m /\ b <= m /\ b \in 1 .. m /\ b - 1 = a /\ m <= m
      OBVIOUS
    <2>2. Lies(v[m], 0, v[b])
      BY <1>2, <2>1
    <2> HIDE DEF a, b, T
    <2>3. Block(v[a]) /\ Block(v[b]) /\ Block(v[m])
      BY <1>0, <2>1
    <2> DEFINE x == Extension(p, h, o, v[a], order[b])
    <2>4. v[b] = Joined(v[a], x)
      BY <2>1 DEF Turns, Grown
    <2>5. Block(x)
      BY <2>3, ExtensionShape, ShapedBlock
    <2> HIDE DEF x
    <2>6. Lies(v[b], 0, v[a])
      BY <2>3, <2>4, <2>5, Joined2
    <2>7. Lies(v[m], 0 + 0, v[a])
      BY <2>2, <2>3, <2>6, LiesWithin
    <2> QED
      BY <2>7 DEF a
  <1> HIDE DEF T
  <1>3. Nat \subseteq T
    BY <1>1, <1>2, SetInduction
  <1> QED
    BY <1>3 DEF T

\* Every turn of apply_profile is laid out in what it has built at last.
LEMMA TurnsLaid ==
    ASSUME NEW p, Listed(p), NEW h, Fine(h), NEW o \in Nat, NEW m \in Nat, NEW order, NEW v,
           Turns(v, p, h, o, order, m), NEW k \in 1 .. m
    PROVE  /\ v[k - 1].len \in Nat /\ v[k].len \in Nat
           /\ Laid(v[m], v[k - 1].len, v[k].len, p, h, order[k])
  <1> DEFINE a == k - 1
             x == Extension(p, h, o, v[a], order[k])
  <1>1. a \in Nat /\ a <= m /\ k \in Nat /\ k <= m /\ m <= m /\ m - k \in Nat /\ m - k <= m /\ m - (m - k) = k
    OBVIOUS
  <1>2. v[k] = Joined(v[a], x)
    BY DEF Turns, Grown
  <1> HIDE DEF a
  <1>3. Block(v[a]) /\ Block(v[k]) /\ Block(v[m])
    BY <1>1, TurnsBlock
  <1>4. Shaped(p, h, order[k], x)
    BY <1>3, ExtensionShape
  <1> HIDE DEF x
  <1>5. Lies(v[m], 0, v[k])
    <2> DEFINE j == m - k
    <2>1. j \in Nat /\ j <= m /\ m - j = k
      BY <1>1
    <2> HIDE DEF j
    <2>2. Lies(v[m], 0, v[m - j])
      BY <2>1, TurnsInFront
    <2> QED
      BY <2>1, <2>2
  <1>6. Laid(v[m], v[a].len, Joined(v[a], x).len, p, h, order[k])
    BY <1>2, <1>3, <1>4, <1>5, TurnLaid
  <1>7. v[a].len \in Nat /\ v[k].len \in Nat
    BY <1>3, BlockReads
  <1> QED
    BY <1>2, <1>6, <1>7 DEF a

-----------------------------------------------------------------------------
(* The stack of extensions that is read back. *)

\* An extension in front of a stack.
LEMMA StackAhead ==
    ASSUME NEW S, NEW s, ListIn(s, S), NEW p, NEW h, Sound(s, p, h), NEW order,
           NEW m \in Nat, NEW k \in 1 .. m, HasFrom(s, order, k + 1, m), NEW e \in S,
           (e.etype \in Sought \/ order[k] \in Sought) =>
                e.etype = order[k] /\ e.data = DataOf(p, h, order[k])
    PROVE  LET t == Ahead(e, s)
           IN  ListIn(t, S) /\ Sound(t, p, h) /\ HasFrom(t, order, k, m)
  <1> DEFINE t == Ahead(e, s)
  <1>1. /\ ListIn(t, S) /\ Len(t) = Len(s) + 1 /\ t[1] = e
        /\ \A i \in 1 .. Len(s) : t[i + 1] = s[i]
    BY InFront
  <1>2. Len(s) \in Nat
    BY DEF ListIn
  <1> HIDE DEF t
  <1>3. Sound(t, p, h)
    <2> SUFFICES ASSUME NEW i \in 1 .. Len(t), t[i].etype \in Sought
                 PROVE  t[i].data = DataOf(p, h, t[i].etype)
      BY DEF Sound
    <2>1. CASE i = 1
      BY <1>1, <2>1
    <2>2. CASE i # 1
      <3>1. i - 1 \in 1 .. Len(s) /\ (i - 1) + 1 = i
        BY <1>1, <1>2, <2>2
      <3>2. t[i] = s[i - 1]
        BY <1>1, <3>1
      <3> QED
        BY <3>1, <3>2 DEF Sound
    <2> QED
      BY <2>1, <2>2
  <1>4. HasFrom(t, order, k, m)
    <2> SUFFICES ASSUME NEW j \in k .. m, order[j] \in Sought
                 PROVE  \E i \in 1 .. Len(t) : t[i].etype = order[j]
      BY DEF HasFrom
    <2>1. CASE j = k
      <3>1. 1 \in 1 .. Len(t) /\ t[1].etype = order[j]
        BY <1>1, <1>2, <2>1
      <3> QED
        BY <3>1
    <2>2. CASE j # k
      <3>1. j \in (k + 1) .. m
        BY <2>2
      <3>2. PICK i \in 1 .. Len(s) : s[i].etype = order[j]
        BY <3>1 DEF HasFrom
      <3>3. i + 1 \in 1 .. Len(t) /\ t[i + 1].etype = order[j]
        BY <1>1, <1>2, <3>2
      <3> QED
        BY <3>3
    <2> QED
      BY <2>1, <2>2
  <1> QED
    BY <1>1, <1>3, <1>4 DEF t

\* What is read off from the place of a turn.
LEMMA TurnRead ==
    ASSUME NEW x, Block(x), NEW f, StackOf(f, x), NEW p, NEW h, NEW order, NEW m \in Nat,
           NEW k \in 1 .. m, NEW a \in Nat, NEW b, Laid(x, a, b, p, h, order[k]),
           TurnsFrom(f[b], x, p, h, order, k + 1, m)
    PROVE  TurnsFrom(f[a], x, p, h, order, k, m)
  <1>0. ListIn(f[b], ExtensionsIn(x)) /\ Sound(f[b], p, h) /\ HasFrom(f[b], order, k + 1, m)
    BY DEF TurnsFrom
  <1>1. CASE a = b /\ order[k] \notin Sought
    <2>1. ASSUME NEW j \in k .. m, order[j] \in Sought PROVE j \in (k + 1) .. m
      <3>1. j # k
        BY <1>1, <2>1
      <3> QED
        BY <3>1
    <2>2. HasFrom(f[b], order, k, m)
      BY <1>0, <2>1 DEF HasFrom
    <2> QED
      BY <1>0, <1>1, <2>2 DEF TurnsFrom
  <1>2. ASSUME NEW d, Block(d), b = a + 4 + d.len, b <= x.len, Get(x, a + 2) = d.len,
               SubBlock(x, a + 4, d.len) = d,
               (Get(x, a) \in Sought \/ order[k] \in Sought) =>
                    Get(x, a) = order[k] /\ d = DataOf(p, h, order[k])
        PROVE  TurnsFrom(f[a], x, p, h, order, k, m)
    <2> DEFINE e == ExtensionAt(x, a)
    <2>1. x.len \in Nat /\ d.len \in Nat
      BY <1>2, BlockReads
    <2>2. x.len - a >= 4 /\ a + 4 + Get(x, a + 2) = b
      BY <1>2, <2>1
    <2>3. f[a] = Ahead(e, f[b])
      BY <2>2 DEF StackOf
    <2>4. e.etype = Get(x, a) /\ e.data = d
      BY <1>2 DEF ExtensionAt
    <2>5. e \in ExtensionsIn(x)
      BY DEF ExtensionsIn
    <2> HIDE DEF e
    <2>6. (e.etype \in Sought \/ order[k] \in Sought) =>
                e.etype = order[k] /\ e.data = DataOf(p, h, order[k])
      BY <1>2, <2>4
    <2> DEFINE s == f[b]
               S == ExtensionsIn(x)
               t == Ahead(e, s)
    <2>7. ListIn(s, S) /\ Sound(s, p, h) /\ HasFrom(s, order, k + 1, m)
      BY <1>0
    <2> HIDE DEF s, S
    <2>8. ListIn(t, S) /\ Sound(t, p, h) /\ HasFrom(t, order, k, m)
      BY <2>5, <2>6, <2>7, StackAhead DEF S
    <2> QED
      BY <2>3, <2>8 DEF s, S, TurnsFrom
  <1> QED
    BY <1>1, <1>2 DEF Laid

\* What is read off the extensions of a hello.
LEMMA StackHolds ==
    ASSUME NEW x, Block(x), NEW f, StackOf(f, x), NEW p, NEW h, NEW order, NEW m \in Nat,
           NEW off, LaidOut(off, x, p, h, order, m)
    PROVE  ListIn(f[0], ExtensionsIn(x)) /\ Sound(f[0], p, h) /\ HasFrom(f[0], order, 1, m)
  <1> DEFINE S == ExtensionsIn(x)
             P(k) == TurnsFrom(f[off[m - k]], x, p, h, order, (m - k) + 1, m)
             T == {k \in Nat : k <= m => P(k)}
  <1>1. 0 \in T
    <2>1. x.len \in Nat /\ x.len - x.len = 0
      BY BlockReads
    <2>2. f[x.len] = <<>>
      BY <2>1 DEF StackOf
    <2>3. m - 0 = m /\ off[m] = x.len
      BY DEF LaidOut
    <2>4. Sound(<<>>, p, h) /\ HasFrom(<<>>, order, m + 1, m)
      BY DEF Sound, HasFrom
    <2>5. ListIn(<<>>, S)
      BY DEF ListIn
    <2>6. P(0)
      BY <2>2, <2>3, <2>4, <2>5 DEF TurnsFrom
    <2> QED
      BY <2>6
  <1>2. ASSUME NEW k \in Nat, k \in T PROVE k + 1 \in T
    <2> SUFFICES ASSUME k + 1 <= m PROVE P(k + 1)
      OBVIOUS
    <2> DEFINE j == m - k
               a == off[j - 1]
               b == off[j]
    <2>1. k <= m /\ j \in 1 .. m /\ m - (k + 1) = j - 1 /\ (m - (k + 1)) + 1 = j
      OBVIOUS
    <2>2. TurnsFrom(f[b], x, p, h, order, j + 1, m)
      BY <1>2, <2>1
    <2>3. a \in Nat /\ Laid(x, a, b, p, h, order[j])
      BY <2>1 DEF LaidOut
    <2>4. TurnsFrom(f[a], x, p, h, order, j, m)
      <3> HIDE DEF a, b, j, T
      <3> QED
        BY <2>1, <2>2, <2>3, TurnRead
    <2>5. off[m - (k + 1)] = a
      BY <2>1
    <2> HIDE DEF a, b, j, T
    <2> QED
      BY <2>1, <2>4, <2>5
  <1> HIDE DEF T
  <1>3. Nat \subseteq T
    BY <1>1, <1>2, SetInduction
  <1>4. P(m)
    <2>1. m \in T /\ m <= m
      BY <1>3
    <2> HIDE DEF P
    <2> QED
      BY <2>1 DEF T
  <1>5. m - m = 0 /\ off[0] = 0 /\ 0 + 1 = 1
    BY DEF LaidOut
  <1> QED
    BY <1>4, <1>5 DEF TurnsFrom

\* What is looked for in such a stack is found, and holds what it should.
LEMMA StackFinds ==
    ASSUME NEW S, NEW s, ListIn(s, S), NEW p, NEW h, Sound(s, p, h), NEW order, NEW m \in Nat,
           HasFrom(s, order, 1, m), NEW t \in Sought, NEW j \in 1 .. m, order[j] = t
    PROVE  Has(s, t) /\ FindByType(s, t) = DataOf(p, h, t)
  <1>1. DOMAIN s = 1 .. Len(s) /\ Len(s) \in Nat
    BY DEF ListIn
  <1>2. PICK i \in 1 .. Len(s) : s[i].etype = t
    BY DEF HasFrom
  <1> DEFINE places == {n \in DOMAIN s : s[n].etype = t}
  <1>3. places \in SUBSET Nat /\ places # {}
    BY <1>1, <1>2
  <1>4. Min(places) \in places
    BY <1>3, MinOfSet
  <1>5. s[Min(places)].data = DataOf(p, h, t)
    BY <1>1, <1>4 DEF Sound
  <1>6. Has(s, t)
    BY <1>1, <1>2 DEF Has
  <1> QED
    BY <1>5, <1>6 DEF FindByType

\* What a reader finds among the extensions of our client's hello.
LEMMA HelloFinds ==
    ASSUME NEW p, NEW h, Hello(p, h), ExtensionStackParse(Extensions(p, h)).result = "some",
           NEW t \in Sought
    PROVE  LET stack == ExtensionStackParse(Extensions(p, h)).value
           IN  Has(stack, t) /\ FindByType(stack, t) = DataOf(p, h, t)
  <1> DEFINE x == Extensions(p, h)
             order == FinalOrder(p, h)
             o == Overhead(p, h.grease)
  <1>1. p \in BrowserProfiles /\ Fine(h) /\ (p.shuffle_extensions => h.rnd \in [1 .. 6 -> Nat]) /\ Listed(p)
    BY ProfilesListed DEF Hello
  <1>2. o \in Nat
    <2>1. PICK n \in 3 .. 4 : o = 77 + 2 * n
      BY OfferedWords
    <2> QED
      BY <2>1
  <1>3. x = ApplyProfile(p, h, o)
    BY DEF Extensions
  <1> HIDE DEF x, o
  <1>4. PICK m \in 5 .. 20 : \E v :
              /\ ListOf(p.extension_order, m)
              /\ Reordered(order, p.extension_order, m)
              /\ Turns(v, p, h, o, order, m)
              /\ ApplyProfile(p, h, o) = v[m]
    BY <1>1, <1>2, ProfileTurns
  <1>5. PICK v : /\ ListOf(p.extension_order, m) /\ Reordered(order, p.extension_order, m)
                 /\ Turns(v, p, h, o, order, m) /\ x = v[m]
    BY <1>3, <1>4
  <1>6. m \in Nat /\ m <= m
    OBVIOUS
  <1>7. Block(x)
    BY <1>1, <1>2, <1>5, <1>6, TurnsBlock
  <1>8. PICK f : StackOf(f, x) /\ ExtensionStackParse(x).value = f[0]
    BY <1>7, StackReads DEF x
  <1> DEFINE off == [k \in 0 .. m |-> v[k].len]
  <1>9. LaidOut(off, x, p, h, order, m)
    <2>1. off[0] = 0
      BY <1>5, EmptyBlock DEF Turns
    <2>2. off[m] = x.len
      BY <1>5
    <2>3. ASSUME NEW k \in 1 .. m
          PROVE  off[k - 1] \in Nat /\ Laid(x, off[k - 1], off[k], p, h, order[k])
      <3>1. v[k - 1].len \in Nat /\ Laid(v[m], v[k - 1].len, v[k].len, p, h, order[k])
        BY <1>1, <1>2, <1>5, <1>6, TurnsLaid
      <3>2. off[k - 1] = v[k - 1].len /\ off[k] = v[k].len
        OBVIOUS
      <3> HIDE DEF off
      <3> QED
        BY <1>5, <3>1, <3>2
    <2> HIDE DEF off
    <2> QED
      BY <2>1, <2>2, <2>3 DEF LaidOut
  <1> HIDE DEF off, order
  <1>10. ListIn(f[0], ExtensionsIn(x)) /\ Sound(f[0], p, h) /\ HasFrom(f[0], order, 1, m)
    BY <1>6, <1>7, <1>8, <1>9, StackHolds
  <1>11. PICK j \in 1 .. m : order[j] = t
    <2>1. PICK i \in DOMAIN p.extension_order : p.extension_order[i] = t
      BY <1>1, ProfilesOrdered DEF Ordered
    <2>2. i \in 1 .. m
      BY <1>5, <2>1 DEF ListOf
    <2> QED
      BY <1>5, <2>1, <2>2 DEF Reordered
  <1> DEFINE s == f[0]
             S == ExtensionsIn(x)
  <1> HIDE DEF s, S
  <1>12. ListIn(s, S) /\ Sound(s, p, h) /\ HasFrom(s, order, 1, m)
    BY <1>10 DEF s, S
  <1>13. Has(s, t) /\ FindByType(s, t) = DataOf(p, h, t)
    BY <1>6, <1>11, <1>12, StackFinds
  <1> QED
    BY <1>8, <1>13 DEF s, x

-----------------------------------------------------------------------------
(* The fields of a hello that is read back. *)

\* A list of u16 values is read back as it was written.
LEMMA SuitesRead ==
    ASSUME NEW n \in Nat, NEW suites, WordSeq(suites, n), NEW list, list = U16s(suites)
    PROVE  [i \in 1 .. ((2 * n) \div 2) |-> Get(list, 2 * i - 2)] = suites
  <1>1. Words(suites, n)
    BY SeqWords
  <1>2. \A i \in 1 .. n : Get(list, 2 * i - 2) = suites[i]
    BY <1>1, ValuesBlock
  <1>3. (2 * n) \div 2 = n
    OBVIOUS
  <1>4. [i \in 1 .. n |-> Get(list, 2 * i - 2)] = [i \in 1 .. n |-> suites[i]]
    BY <1>2
  <1>5. suites \in Seq(Word) /\ Len(suites) = n
    BY DEF WordSeq, ListIn
  <1>6. suites = [i \in 1 .. n |-> suites[i]]
    BY <1>5
  <1> QED
    BY <1>3, <1>4, <1>6

\* ClientHello::parse reads the fields that ClientHello::serialize laid out.
LEMMA ClientFieldsRead ==
    ASSUME NEW b, NEW random, Block(random), random.len = 32, NEW sid, Block(sid), sid.len = 32,
           NEW n \in Nat, n < 100, NEW suites, WordSeq(suites, n), NEW x, Block(x),
           ClientFields(b, random, sid, suites, n, x)
    PROVE  LET value == ClientValue(b)
           IN  /\ value.type = ClientType /\ value.random = Get(random, 0) /\ value.session_id = sid
               /\ value.cipher_suites = suites /\ value.extensions = x
  <1>1. /\ Block(b) /\ b.len = 73 + 2 * n + x.len
        /\ Get(b, 34) = 32 /\ Get(b, 67) = 2 * n
        /\ Get(b, 69 + 2 * n) = 1 /\ Get(b, 71 + 2 * n) = x.len
        /\ Lies(b, 2, random) /\ Lies(b, 35, sid) /\ Lies(b, 69, U16s(suites))
        /\ Lies(b, 73 + 2 * n, x)
    BY DEF ClientFields
  <1>2. Get(b, 2) = Get(random, 0)
    BY <1>1, LiesHead
  <1>3. SubBlock(b, 35, 32) = sid
    BY <1>1, CutOut
  <1>4. Words(suites, n)
    BY SeqWords
  <1>5. Block(U16s(suites)) /\ U16s(suites).len = 2 * n
    BY <1>4, ValuesBlock
  <1> DEFINE q == 69
             e == 73 + 2 * n
             list == SubBlock(b, q, 2 * n)
  <1>6. SubBlock(b, q, U16s(suites).len) = U16s(suites)
    <2>1. Lies(b, q, U16s(suites))
      BY <1>1
    <2> HIDE DEF q
    <2> QED
      BY <1>1, <1>5, <2>1, CutOut
  <1>7. list = U16s(suites)
    BY <1>5, <1>6
  <1>8. SubBlock(b, e, x.len) = x
    <2> HIDE DEF e
    <2>1. Lies(b, e, x)
      BY <1>1 DEF e
    <2> QED
      BY <1>1, <2>1, CutOut
  <1>9. [i \in 1 .. ((2 * n) \div 2) |-> Get(list, 2 * i - 2)] = suites
    <2> HIDE DEF list
    <2> QED
      BY <1>7, SuitesRead
  <1>10. /\ 35 + Get(b, 34) = 67 /\ 67 + 2 + Get(b, 67) = 69 + 2 * n
         /\ (69 + 2 * n) + 1 + Get(b, 69 + 2 * n) = 71 + 2 * n
         /\ (71 + 2 * n) + 2 = e
         /\ b.len - (71 + 2 * n) = 2 + x.len /\ x.len \in Nat
    BY <1>1, BlockReads
  <1> DEFINE v == ClientValue(b)
  <1>11. v.type = ClientType /\ v.random = Get(b, 2) /\ v.session_id = SubBlock(b, 35, Get(b, 34))
    BY DEF ClientValue
  <1>12. v.cipher_suites = suites
    <2>1. v.cipher_suites = LET s == 35 + Get(b, 34)
                                l == SubBlock(b, s + 2, Get(b, s))
                            IN  [i \in 1 .. (Get(b, s) \div 2) |-> Get(l, 2 * i - 2)]
      BY DEF ClientValue
    <2>2. 67 + 2 = q
      OBVIOUS
    <2> HIDE DEF v, q
    <2> QED
      BY <1>1, <1>9, <1>10, <2>1, <2>2
  <1>13. v.extensions = x
    <2>1. v.extensions = LET s == 35 + Get(b, 34)
                             c == s + 2 + Get(b, s)
                             comp == c + 1 + Get(b, c)
                         IN  IF b.len - comp >= 2 THEN SubBlock(b, comp + 2, Get(b, comp)) ELSE Empty
      BY DEF ClientValue
    <2> HIDE DEF v, e
    <2>2. v.extensions = IF b.len - (71 + 2 * n) >= 2
                         THEN SubBlock(b, (71 + 2 * n) + 2, Get(b, 71 + 2 * n)) ELSE Empty
      BY <1>10, <2>1
    <2>3. b.len - (71 + 2 * n) >= 2
      BY <1>10
    <2> QED
      BY <1>1, <1>8, <1>10, <2>2, <2>3
  <1> QED
    BY <1>1, <1>2, <1>3, <1>11, <1>12, <1>13

\* What the node is handed of our client's hello.
LEMMA OurHelloRead ==
    ASSUME NEW p, NEW h, Hello(p, h), NEW m, Says(MakeClientHello(p, h), m)
    PROVE  /\ m.type = ClientType /\ m.random = Get(h.salt, 0) /\ m.session_id = SessionId(h)
           /\ m.cipher_suites = OfferedSuites(p, h.grease)
           /\ ExtensionStackParse(Extensions(p, h)).result = "some"
           /\ m.extensions = ExtensionStackParse(Extensions(p, h)).value
  <1> DEFINE r == MakeClientHello(p, h)
             b == HelloBody(p, h)
             x == Extensions(p, h)
             suites == OfferedSuites(p, h.grease)
  <1>1. Block(r) /\ Get(Payload(r), 0) = ClientType /\ Body(r) = b
    BY OurHelloBody
  <1>2. Block(x)
    BY HelloFields
  <1>3. PICK n \in 3 .. 4 : WordSeq(suites, n) /\ ClientFields(b, h.salt, SessionId(h), suites, n, x)
    BY HelloFields
  <1>4. n \in Nat /\ n < 100
    OBVIOUS
  <1>5. Fine(h)
    BY DEF Hello
  <1>6. Block(SessionId(h)) /\ SessionId(h).len = 32
    BY <1>5, SessionIdBlock
  <1>7. Block(h.salt) /\ h.salt.len = 32
    BY <1>5 DEF Fine
  <1>8. StartProcess(r, Handshake).result = "some" /\ StartProcess(r, Handshake).value = m
    BY DEF Says
  <1> HIDE DEF r, b, x, suites
  <1>9. LET value == ClientValue(b)
        IN  /\ value.type = ClientType /\ value.random = Get(h.salt, 0)
            /\ value.session_id = SessionId(h)
            /\ value.cipher_suites = suites /\ value.extensions = x
    BY <1>2, <1>3, <1>4, <1>6, <1>7, ClientFieldsRead
  <1>10. LET value == StartProcess(r, Handshake).value
             stack == ExtensionStackParse(ClientValue(b).extensions)
         IN  /\ stack.result = "some"
             /\ value = [ClientValue(b) EXCEPT !.extensions = stack.value]
    BY <1>1, <1>8, ClientHelloReads
  <1> DEFINE c == ClientValue(b)
  <1>11. DOMAIN c = {"type", "random", "session_id", "cipher_suites", "extensions"}
    BY DEF ClientValue
  <1>12. c.extensions = x
    BY <1>9
  <1>13. m = [c EXCEPT !.extensions = ExtensionStackParse(x).value] /\ ExtensionStackParse(x).result = "some"
    BY <1>8, <1>10, <1>12
  <1>14. /\ c.type = ClientType /\ c.random = Get(h.salt, 0) /\ c.session_id = SessionId(h)
         /\ c.cipher_suites = suites
    BY <1>9
  <1> HIDE DEF c
  <1>15. /\ m.type = c.type /\ m.random = c.random /\ m.session_id = c.session_id
         /\ m.cipher_suites = c.cipher_suites /\ m.extensions = ExtensionStackParse(x).value
    BY <1>11, <1>13
  <1> QED
    BY <1>13, <1>14, <1>15 DEF suites, x

-----------------------------------------------------------------------------
(* The host name and the key shares of a hello. *)

\* ExtensionStack::server_name gives back the host that went into the hello.
LEMMA HostRead ==
    ASSUME NEW stack, NEW host, Block(host), host.len <= MaxHostLen, Has(stack, SNI),
           FindByType(stack, SNI) = ServerNameData(host)
    PROVE  ServerName(stack) = host
  <1> DEFINE data == ServerNameData(host)
             n == host.len
             two == 2
             five == 5
  <1>0. n \in Nat /\ n < 1000 /\ two \in Nat /\ five \in Nat
    BY BlockReads DEF MaxHostLen
  <1>1. /\ Block(data) /\ data.len = 5 + n
        /\ Get(data, 0) = 3 + n /\ Get(data, 2) = 0 /\ Get(data, 3) = n /\ Lies(data, 5, host)
    BY <1>0, NameBlock
  <1> DEFINE list == SubBlock(data, two, 3 + n)
  <1>2. list.len = 3 + n
    <2> DEFINE l == 3 + n
    <2>1. l \in Nat
      BY <1>0
    <2> HIDE DEF data, l, two
    <2>2. SubBlock(data, two, l).len = l
      BY <1>0, <1>1, <2>1, PartIsBlock
    <2> QED
      BY <2>2 DEF l
  <1>3. Get(list, 0) = 0 /\ Get(list, 1) = n
    <2> DEFINE l == 3 + n
    <2>1. l \in Nat /\ 0 < l /\ 1 < l
      BY <1>0
    <2> HIDE DEF data, l, n
    <2>2. \A q \in Nat : q < l => Get(SubBlock(data, two, l), q) = Get(data, two + q)
      BY <1>0, <1>1, <2>1, PartBlock
    <2>3. Get(SubBlock(data, two, l), 0) = Get(data, two + 0) /\ Get(SubBlock(data, two, l), 1) = Get(data, two + 1)
      BY <2>1, <2>2
    <2> QED
      BY <1>1, <2>3 DEF l
  <1>4. SubBlock(list, 3, n) = host
    <2> DEFINE l == 3 + n
               three == 3
    <2>1. l \in Nat /\ three \in Nat /\ three + n <= l
      BY <1>0
    <2> HIDE DEF data, l, n, two, three
    <2>2. SubBlock(SubBlock(data, two, l), three, n) = SubBlock(data, two + three, n)
      BY <1>0, <1>1, <2>1, PartOfPart
    <2>3. SubBlock(data, five, n) = host
      <3>1. Lies(data, five, host)
        BY <1>1
      <3> HIDE DEF five
      <3> QED
        BY <1>1, <3>1, CutOut DEF n
    <2>4. two + three = five
      BY DEF two, three
    <2> QED
      BY <2>2, <2>3, <2>4 DEF l, three
  <1>5. /\ data.len >= 2 /\ data.len >= 2 + list.len /\ list.len >= 3 /\ list.len >= 3 + Get(list, 1)
        /\ Get(list, 0) = TYPE_HOST_NAME
    BY <1>0, <1>1, <1>2, <1>3 DEF TYPE_HOST_NAME
  <1>6. list = SubBlock(data, 2, Get(data, 0))
    BY <1>1
  <1> HIDE DEF list, n, data
  <1> QED
    BY <1>3, <1>4, <1>5, <1>6 DEF ServerName, data

\* A share at o, and what follows it.
LEMMA ShareStep ==
    ASSUME NEW list, Block(list), NEW f, SharesOf(f, list), NEW o \in Nat, NEW t \in Word,
           NEW d, Block(d), d.len < 65536, Lies(list, o, AddExtension(t, d))
    PROVE  f[o] = Ahead([group |-> t, key |-> d], f[o + 4 + d.len])
  <1> DEFINE y == AddExtension(t, d)
  <1>0. t \in Nat /\ t < 65536 /\ d.len \in Nat
    BY BlockReads DEF Word
  <1>1. Block(y) /\ y.len = 4 + d.len /\ Get(y, 0) = t /\ Get(y, 2) = d.len /\ Lies(y, 4, d)
    BY <1>0, ExtensionBlock
  <1> HIDE DEF y
  <1>2. Lies(list, o, y)
    BY DEF y
  <1>3. o + y.len <= list.len
    BY <1>2 DEF Lies
  <1>4. Get(list, o) = t
    BY <1>0, <1>1, <1>2, LiesHead
  <1>5. Get(list, o + 2) = d.len
    <2> DEFINE two == 2
    <2>1. two \in Nat /\ two < y.len
      BY <1>0, <1>1
    <2> HIDE DEF two
    <2>2. Get(list, o + two) = Get(y, two)
      BY <1>2, <2>1, LiesReads
    <2> QED
      BY <1>1, <2>2 DEF two
  <1>6. Lies(list, o + 4, d)
    <2> DEFINE four == 4
    <2>1. Lies(y, four, d)
      BY <1>1
    <2> HIDE DEF four
    <2>2. Lies(list, o + four, d)
      BY <1>1, <1>2, <2>1, LiesWithin
    <2> QED
      BY <2>2 DEF four
  <1>7. SubBlock(list, o + 4, d.len) = d
    <2> DEFINE a == o + 4
    <2>1. Lies(list, a, d)
      BY <1>6
    <2> HIDE DEF a
    <2>2. SubBlock(list, a, d.len) = d
      BY <2>1, CutOut
    <2> QED
      BY <2>2 DEF a
  <1>8. o + 4 <= list.len /\ o + 4 + Get(list, o + 2) <= list.len
    <2>1. list.len \in Nat
      BY BlockReads
    <2> QED
      BY <1>0, <1>1, <1>3, <1>5, <2>1
  <1>9. f[o] = Ahead(ShareAt(list, o), f[o + 4 + Get(list, o + 2)])
    BY <1>8 DEF SharesOf
  <1>10. ShareAt(list, o) = [group |-> t, key |-> d]
    BY <1>4, <1>5, <1>7 DEF ShareAt
  <1> QED
    BY <1>5, <1>9, <1>10

\* Behind the last share there is none.
LEMMA ShareEnd ==
    ASSUME NEW list, Block(list), NEW f, SharesOf(f, list)
    PROVE  f[list.len] = <<>>
  <1>1. list.len \in Nat
    BY BlockReads
  <1> QED
    BY <1>1 DEF SharesOf

\* extract_peer_public goes through these entries.
LEMMA EntriesRead ==
    ASSUME NEW p, NEW group \in Word, NEW key, Block(key), key.len = 32
    PROVE  KeyShareEntries(Shares(p, group, key)) = Entries(p, group, key)
  <1> DEFINE list == Shares(p, group, key)
             data == KeyShareList(p, group, key)
             G == GreaseShare(p, group)
             M == MlKemShare(p)
             X == AddExtension(X25519, key)
  <1>1. /\ Block(list) /\ list.len \in Nat
        /\ list.len = G.len + M.len + 36
        /\ list.len <= 1261
        /\ Lies(list, 0, G)
        /\ Lies(list, G.len, M)
        /\ Lies(list, G.len + M.len, X)
        /\ Block(data) /\ data.len = 2 + list.len
        /\ Get(data, 0) = list.len /\ Lies(data, 2, list)
    BY SharesBlock
  <1>2. Block(G) /\ Block(M) /\ Block(X)
    BY ShareBlocks
  <1>3. G.len \in Nat /\ M.len \in Nat
    BY <1>2, BlockReads
  <1> DEFINE noise == Slice(X25519_MLKEM768_SHARE_LEN, Noise)
  <1>4. Block(noise) /\ noise.len = 1216
    <2>1. X25519_MLKEM768_SHARE_LEN \in Nat /\ X25519_MLKEM768_SHARE_LEN = 1216
      BY DEF X25519_MLKEM768_SHARE_LEN, T_HAT_LEN, RHO_LEN, X25519_PK_LEN, K, N
    <2> QED
      BY <2>1, SliceBlock, NoiseAssumption
  <1> HIDE DEF list, data
  <1>5. PICK f : SharesOf(f, list) /\ KeyShareEntries(list) = f[0]
    BY <1>1, SharesRead
  <1>6. f[G.len + M.len] = LastEntries(key)
    <2> DEFINE o == G.len + M.len
    <2>1. o \in Nat /\ X25519 \in Word /\ Lies(list, o, X)
      BY <1>1, <1>3 DEF X25519, Word
    <2>2. f[list.len] = <<>>
      BY <1>1, <1>5, ShareEnd
    <2>3. list.len = o + 4 + key.len
      BY <1>1, <1>3
    <2> HIDE DEF o
    <2>4. f[o] = Ahead([group |-> X25519, key |-> key], f[o + 4 + key.len])
      <3>1. key.len < 65536
        OBVIOUS
      <3> QED
        BY <1>1, <1>5, <2>1, <3>1, ShareStep
    <2> QED
      BY <2>2, <2>3, <2>4 DEF o, LastEntries, Entry
  <1>7. f[G.len] = MlKemEntries(p, key)
    <2>1. CASE X25519_MLKEM768 \in ToSet(p.groups)
      <3> DEFINE o == G.len
                 t == X25519_MLKEM768
      <3>1. M = AddExtension(t, noise)
        BY <2>1 DEF MlKemShare
      <3>2. t \in Word /\ noise.len < 65536 /\ o \in Nat
        BY <1>3, <1>4 DEF X25519_MLKEM768, Word
      <3>3. M.len = 1220
        BY <2>1, ShareBlocks
      <3>4. Lies(list, o, AddExtension(t, noise))
        BY <1>1, <3>1
      <3> HIDE DEF o, t, noise
      <3>5. f[o] = Ahead([group |-> t, key |-> noise], f[o + 4 + noise.len])
        BY <1>1, <1>4, <1>5, <3>2, <3>4, ShareStep
      <3>6. o + 4 + noise.len = G.len + M.len
        BY <1>4, <3>2, <3>3 DEF o
      <3> QED
        BY <1>6, <2>1, <3>5, <3>6 DEF MlKemEntries, Entry, o, t, noise
    <2>2. CASE X25519_MLKEM768 \notin ToSet(p.groups)
      <3>1. M.len = 0
        BY <2>2, ShareBlocks, SMTT(30)
      <3>2. G.len + M.len = G.len
        BY <1>3, <3>1
      <3> QED
        BY <1>6, <2>2, <3>2 DEF MlKemEntries
    <2> QED
      BY <2>1, <2>2
  <1>8. f[0] = Entries(p, group, key)
    <2>1. CASE p.has_grease
      <3> DEFINE o == 0
                 d == U8(0)
      <3>1. G = AddExtension(group, d)
        BY <2>1 DEF GreaseShare
      <3>2. Block(d) /\ d.len = 1
        BY SmallData
      <3>3. o \in Nat /\ d.len < 65536 /\ Lies(list, o, AddExtension(group, d))
        BY <1>1, <3>1, <3>2
      <3>4. group \in Nat /\ group < 65536
        BY DEF Word
      <3> HIDE DEF o, d
      <3>5. AddExtension(group, d).len = 4 + d.len
        BY <3>2, <3>3, <3>4, ExtensionBlock
      <3>6. f[o] = Ahead([group |-> group, key |-> d], f[o + 4 + d.len])
        BY <1>1, <1>5, <3>2, <3>3, ShareStep
      <3>7. o + 4 + d.len = G.len
        BY <3>1, <3>2, <3>5 DEF o
      <3> HIDE DEF G
      <3>8. Entries(p, group, key) = Ahead(Entry(group, d), MlKemEntries(p, key))
        BY <2>1 DEF Entries, d
      <3> QED
        BY <1>7, <3>6, <3>7, <3>8 DEF Entry, o
    <2>2. CASE ~p.has_grease
      <3>1. G = Empty
        BY <2>2 DEF GreaseShare
      <3>2. G.len = 0
        BY <3>1, EmptyBlock
      <3> QED
        BY <1>7, <2>2, <3>2 DEF Entries
    <2> QED
      BY <2>1, <2>2
  <1> QED
    BY <1>5, <1>8 DEF list

-----------------------------------------------------------------------------
(* The key of a client. *)

\* The share of another group in front does not change it.
LEMMA KeyedAhead ==
    ASSUME NEW S, NEW s, ListIn(s, S), NEW key, Keyed(s, key), NEW e \in S, e.group # X25519
    PROVE  ListIn(Ahead(e, s), S) /\ Keyed(Ahead(e, s), key)
  <1> DEFINE t == Ahead(e, s)
  <1>1. /\ ListIn(t, S) /\ Len(t) = Len(s) + 1 /\ t[1] = e
        /\ \A i \in 1 .. Len(s) : t[i + 1] = s[i]
    BY InFront
  <1>2. Len(s) \in Nat
    BY DEF ListIn
  <1> HIDE DEF t
  <1>3. PICK j \in 1 .. Len(s) : s[j].group = X25519 /\ s[j].key = key
    BY DEF Keyed
  <1>4. j + 1 \in 1 .. Len(t) /\ t[j + 1].group = X25519 /\ t[j + 1].key = key
    BY <1>1, <1>2, <1>3
  <1>5. ASSUME NEW i \in 1 .. Len(t), t[i].group = X25519 PROVE t[i].key = key
    <2>1. i # 1
      BY <1>1, <1>5
    <2>2. i - 1 \in 1 .. Len(s) /\ (i - 1) + 1 = i
      BY <1>1, <1>2, <2>1
    <2>3. t[i] = s[i - 1]
      BY <1>1, <2>2
    <2> QED
      BY <1>5, <2>2, <2>3 DEF Keyed
  <1> QED
    BY <1>1, <1>4, <1>5 DEF Keyed, t

\* The shares of a client have the client's key for X25519.
LEMMA EntriesKeyed ==
    ASSUME NEW p, NEW group \in GREASE_VALUES, NEW key
    PROVE  \E S : ListIn(Entries(p, group, key), S) /\ Keyed(Entries(p, group, key), key)
  <1> DEFINE e1 == Entry(group, U8(0))
             e2 == Entry(X25519_MLKEM768, Slice(X25519_MLKEM768_SHARE_LEN, Noise))
             e3 == Entry(X25519, key)
             S == {e1, e2, e3}
  <1>1. e1.group # X25519 /\ e2.group # X25519
    <2>1. group # X25519
      BY GreaseValues
    <2>2. X25519_MLKEM768 # X25519
      BY DEF X25519_MLKEM768, X25519
    <2> QED
      BY <2>1, <2>2 DEF Entry
  <1>2. e3.group = X25519 /\ e3.key = key
    BY DEF Entry
  <1>3. e1 \in S /\ e2 \in S /\ e3 \in S
    OBVIOUS
  <1> HIDE DEF e1, e2, e3, S
  <1>4. ListIn(LastEntries(key), S) /\ Keyed(LastEntries(key), key)
    <2> DEFINE none == <<>>
               t == Ahead(e3, none)
    <2>1. Len(none) = 0
      OBVIOUS
    <2>0. ListIn(none, S)
      BY DEF ListIn
    <2> HIDE DEF none
    <2>2. /\ ListIn(t, S) /\ Len(t) = Len(none) + 1 /\ t[1] = e3
          /\ \A i \in 1 .. Len(none) : t[i + 1] = none[i]
      BY <1>3, <2>0, InFront
    <2>3. LastEntries(key) = t
      BY DEF LastEntries, e3, none
    <2> HIDE DEF t
    <2>4. Len(t) = 1
      BY <2>1, <2>2
    <2>5. 1 \in 1 .. Len(t) /\ \A i \in 1 .. Len(t) : i = 1
      BY <2>4
    <2>6. Keyed(t, key)
      BY <1>2, <2>2, <2>5 DEF Keyed
    <2> QED
      BY <2>2, <2>3, <2>6
  <1>5. ListIn(MlKemEntries(p, key), S) /\ Keyed(MlKemEntries(p, key), key)
    <2>1. ListIn(Ahead(e2, LastEntries(key)), S) /\ Keyed(Ahead(e2, LastEntries(key)), key)
      BY <1>1, <1>3, <1>4, KeyedAhead
    <2> QED
      BY <1>4, <2>1 DEF MlKemEntries, e2
  <1>6. ListIn(Ahead(e1, MlKemEntries(p, key)), S) /\ Keyed(Ahead(e1, MlKemEntries(p, key)), key)
    BY <1>1, <1>3, <1>5, KeyedAhead
  <1>7. ListIn(Entries(p, group, key), S) /\ Keyed(Entries(p, group, key), key)
    <2>1. CASE p.has_grease
      BY <1>6, <2>1 DEF Entries, e1
    <2>2. CASE ~p.has_grease
      BY <1>5, <2>2 DEF Entries
    <2> QED
      BY <2>1, <2>2
  <1> QED
    BY <1>7

\* The loop of extract_peer_public finds it.
LEMMA FirstShareRead ==
    ASSUME NEW p, NEW group \in GREASE_VALUES, NEW key, Block(key), key.len = 32
    PROVE  FirstShare(Shares(p, group, key)) = Get(key, 0)
  <1> DEFINE list == Shares(p, group, key)
             s == KeyShareEntries(list)
             good == {i \in DOMAIN s : s[i].group = X25519 /\ s[i].key.len = X25519_LEN}
  <1>1. group \in Word
    BY GreaseValues DEF Word
  <1>2. s = Entries(p, group, key)
    BY <1>1, EntriesRead
  <1>3. PICK S : ListIn(s, S) /\ Keyed(s, key)
    BY <1>2, EntriesKeyed
  <1> HIDE DEF s
  <1>4. DOMAIN s = 1 .. Len(s) /\ Len(s) \in Nat
    BY <1>3 DEF ListIn
  <1>5. good \in SUBSET Nat
    BY <1>4
  <1>6. good # {}
    BY <1>3, <1>4 DEF Keyed, X25519_LEN
  <1>7. Min(good) \in good
    <2> HIDE DEF good
    <2> QED
      BY <1>5, <1>6, MinOfSet
  <1>8. s[Min(good)].group = X25519 /\ Min(good) \in 1 .. Len(s)
    BY <1>4, <1>7
  <1>9. s[Min(good)].key = key
    BY <1>3, <1>8 DEF Keyed
  <1>10. FirstShare(list) = IF good = {} THEN 0 ELSE Get(s[Min(good)].key, 0)
    BY DEF FirstShare, s
  <1> HIDE DEF good, list
  <1> QED
    BY <1>6, <1>9, <1>10 DEF list

\* extract_peer_public of the node finds the key that went into the hello.
LEMMA ClientKeyRead ==
    ASSUME NEW stack, NEW p, NEW group \in GREASE_VALUES, NEW key, Block(key), key.len = 32,
           Has(stack, KEY_SHARE), FindByType(stack, KEY_SHARE) = KeyShareList(p, group, key)
    PROVE  ExtractPeerPublic(stack, TRUE) = Get(key, 0)
  <1> DEFINE data == KeyShareList(p, group, key)
             list == Shares(p, group, key)
             two == 2
  <1>1. group \in Word
    BY GreaseValues DEF Word
  <1>2. /\ Block(list) /\ list.len \in Nat
        /\ list.len = GreaseShare(p, group).len + MlKemShare(p).len + 36
        /\ list.len <= 1261
        /\ Lies(list, 0, GreaseShare(p, group))
        /\ Lies(list, GreaseShare(p, group).len, MlKemShare(p))
        /\ Lies(list, GreaseShare(p, group).len + MlKemShare(p).len, AddExtension(X25519, key))
        /\ Block(data) /\ data.len = 2 + list.len
        /\ Get(data, 0) = list.len /\ Lies(data, 2, list)
    BY <1>1, SharesBlock
  <1>3. FirstShare(list) = Get(key, 0)
    BY FirstShareRead
  <1> HIDE DEF data, list
  <1>4. SubBlock(data, 2, list.len) = list
    <2>1. Lies(data, two, list)
      BY <1>2
    <2> HIDE DEF two
    <2>2. SubBlock(data, two, list.len) = list
      BY <1>2, <2>1, CutOut
    <2> QED
      BY <2>2 DEF two
  <1>5. data.len >= 2 /\ data.len >= 2 + Get(data, 0)
    BY <1>2
  <1>6. FindByType(stack, KEY_SHARE) = data
    BY DEF data
  <1> QED
    BY <1>2, <1>3, <1>4, <1>5, <1>6 DEF ExtractPeerPublic

-----------------------------------------------------------------------------
(* The key of a node. *)

\* The two extensions of the node's hello, as the client's parser reads them off.
LEMMA ServerStack ==
    ASSUME NEW key, Block(key), key.len = 32, NEW profile, NEW x, x = ServerExtensions(key, profile),
           ExtensionStackParse(x).result = "some"
    PROVE  ExtensionStackParse(x).value
               = Ahead(ExtensionAt(x, 0), Ahead(ExtensionAt(x, 6), <<>>))
  <1>1. Block(x) /\ x.len = 46 /\ Get(x, 2) = 2 /\ Get(x, 8) = 36
    BY ServerExtensionsBlock
  <1>2. PICK f : StackOf(f, x) /\ ExtensionStackParse(x).value = f[0]
    BY <1>1, StackReads
  <1>3. \A o \in Nat : f[o] = IF x.len - o >= 4 THEN Ahead(ExtensionAt(x, o), f[o + 4 + Get(x, o + 2)])
                                                ELSE <<>>
    BY <1>2 DEF StackOf
  <1> DEFINE c == 46
  <1>4. f[c] = <<>>
    <2>1. c \in Nat /\ ~(x.len - c >= 4)
      BY <1>1
    <2> HIDE DEF c
    <2> QED
      BY <1>3, <2>1
  <1> DEFINE a == 6
  <1>5. f[a] = Ahead(ExtensionAt(x, a), f[c])
    <2>1. a \in Nat /\ x.len - a >= 4 /\ a + 2 = 8 /\ a + 4 + 36 = c
      BY <1>1
    <2> HIDE DEF a, c
    <2>2. f[a] = Ahead(ExtensionAt(x, a), f[a + 4 + Get(x, a + 2)])
      BY <1>3, <2>1
    <2> QED
      BY <1>1, <2>1, <2>2
  <1> DEFINE z == 0
  <1>6. f[z] = Ahead(ExtensionAt(x, z), f[a])
    <2>1. z \in Nat /\ x.len - z >= 4 /\ z + 2 = 2 /\ z + 4 + 2 = a
      BY <1>1
    <2> HIDE DEF a, z
    <2>2. f[z] = Ahead(ExtensionAt(x, z), f[z + 4 + Get(x, z + 2)])
      BY <1>3, <2>1
    <2> QED
      BY <1>1, <2>1, <2>2
  <1> HIDE DEF a, c, z
  <1>7. f[z] = Ahead(ExtensionAt(x, z), Ahead(ExtensionAt(x, a), <<>>))
    BY <1>4, <1>5, <1>6
  <1> QED
    BY <1>2, <1>7 DEF a, z

\* extract_peer_public of the client finds the node's key among them.
LEMMA ServerKeyRead ==
    ASSUME NEW key, Block(key), key.len = 32, NEW profile, NEW x, x = ServerExtensions(key, profile),
           ExtensionStackParse(x).result = "some"
    PROVE  ExtractPeerPublic(ExtensionStackParse(x).value, FALSE) = Get(key, 0)
  <1>1. /\ Block(x) /\ x.len = 46
        /\ Get(x, 0) = SUPPORTED_VERSIONS /\ Get(x, 2) = 2
        /\ Get(x, 6) = KEY_SHARE /\ Get(x, 8) = 36
        /\ Get(x, 12) = 32 /\ Lies(x, 14, key)
    BY ServerExtensionsBlock
  <1> DEFINE e1 == ExtensionAt(x, 0)
             e2 == ExtensionAt(x, 6)
             none == <<>>
             t == Ahead(e2, none)
             s == Ahead(e1, t)
             S == {e1, e2}
  <1>2. ExtensionStackParse(x).value = s
    BY ServerStack
  <1>3. e1.etype # KEY_SHARE /\ e2.etype = KEY_SHARE
    BY <1>1 DEF ExtensionAt, SUPPORTED_VERSIONS, KEY_SHARE
  <1>4. e2.data = SubBlock(x, 10, 36)
    BY <1>1 DEF ExtensionAt
  <1>5. e1 \in S /\ e2 \in S
    OBVIOUS
  <1>6. Len(none) = 0
    OBVIOUS
  <1>7. ListIn(none, S)
    BY DEF ListIn
  <1> HIDE DEF e1, e2, S, none
  <1>8. /\ ListIn(t, S) /\ Len(t) = Len(none) + 1 /\ t[1] = e2
        /\ \A i \in 1 .. Len(none) : t[i + 1] = none[i]
    BY <1>5, <1>7, InFront
  <1> HIDE DEF t
  <1>9. /\ ListIn(s, S) /\ Len(s) = Len(t) + 1 /\ s[1] = e1
        /\ \A i \in 1 .. Len(t) : s[i + 1] = t[i]
    BY <1>5, <1>8, InFront
  <1> HIDE DEF s
  <1>10. Len(s) = 2 /\ s[2] = e2
    <2>1. Len(t) = 1 /\ 1 \in 1 .. Len(t)
      BY <1>6, <1>8
    <2>2. s[1 + 1] = t[1]
      BY <1>9, <2>1
    <2>3. Len(s) = 2
      BY <1>9, <2>1
    <2>4. 1 + 1 = 2
      OBVIOUS
    <2>5. s[2] = e2
      BY <1>8, <2>2, <2>4
    <2> QED
      BY <2>3, <2>5
  <1>11. DOMAIN s = 1 .. 2
    <2>1. s \in Seq(S)
      BY <1>9 DEF ListIn
    <2>2. DOMAIN s = 1 .. Len(s)
      BY <2>1
    <2> QED
      BY <1>10, <2>2
  <1> DEFINE found == {i \in DOMAIN s : s[i].etype = KEY_SHARE}
  <1>12. found = {2}
    BY <1>3, <1>9, <1>10, <1>11
  <1>13. Min(found) = 2
    <2>1. found \in SUBSET Nat /\ found # {}
      BY <1>12
    <2>2. Min(found) \in found
      <3> HIDE DEF found
      <3> QED
        BY <2>1, MinOfSet
    <2> QED
      BY <1>12, <2>2
  <1>14. Has(s, KEY_SHARE)
    BY <1>3, <1>10, <1>11 DEF Has
  <1>15. FindByType(s, KEY_SHARE) = e2.data
    BY <1>10, <1>13 DEF FindByType
  <1> DEFINE ten == 10
             long == 36
             d == SubBlock(x, ten, long)
  <1>16. ten \in Nat /\ long \in Nat
    OBVIOUS
  <1>17. d.len = 36 /\ Get(d, 2) = 32 /\ Get(d, 4) = Get(key, 0)
    <2>1. Get(x, 14) = Get(key, 0)
      BY <1>1, LiesHead
    <2>2. 2 < long /\ 4 < long /\ ten + 2 = 12 /\ ten + 4 = 14 /\ long = 36
      OBVIOUS
    <2> HIDE DEF ten, long
    <2>3. Block(x)
      BY <1>1
    <2>4. \A q \in Nat : Get(SubBlock(x, ten, long), q) = IF q < long THEN Get(x, ten + q) ELSE 0
      BY <1>16, <2>3, PartReads
    <2>5. \A q \in Nat : q < long => Get(d, q) = Get(x, ten + q)
      BY <2>4
    <2>6. Block(d) /\ d.len = long
      BY <1>16, <2>3, PartIsBlock
    <2>7. Get(d, 2) = Get(x, ten + 2) /\ Get(d, 4) = Get(x, ten + 4)
      BY <2>2, <2>5
    <2> QED
      BY <1>1, <2>1, <2>2, <2>6, <2>7

  <1>18. FindByType(s, KEY_SHARE) = d
    BY <1>4, <1>15
  <1> HIDE DEF d
  <1> QED
    BY <1>2, <1>14, <1>17, <1>18 DEF ExtractPeerPublic, X25519_LEN

\* ServerHello::parse reads the fields that ServerHello::serialize laid out.
LEMMA ServerFieldsRead ==
    ASSUME NEW b, NEW random, Block(random), random.len = 32, NEW sid, Block(sid), sid.len = 32,
           NEW suite \in Nat, suite < 65536, NEW x, Block(x), ServerFields(b, random, sid, suite, x)
    PROVE  LET value == ServerValue(b)
           IN  /\ value.random = Get(random, 0) /\ value.session_id = sid
               /\ value.cipher_suite = suite /\ value.extensions = x
  <1>1. /\ Block(b) /\ b.len = 72 + x.len
        /\ Get(b, 34) = 32 /\ Get(b, 67) = suite % 65536 /\ Get(b, 70) = x.len
        /\ Lies(b, 2, random) /\ Lies(b, 35, sid) /\ Lies(b, 72, x)
    BY DEF ServerFields
  <1>2. Get(b, 2) = Get(random, 0)
    BY <1>1, LiesHead
  <1>3. SubBlock(b, 35, 32) = sid
    BY <1>1, CutOut
  <1>4. SubBlock(b, 72, x.len) = x
    <2> DEFINE e == 72
    <2>1. Lies(b, e, x)
      BY <1>1
    <2> HIDE DEF e
    <2>2. SubBlock(b, e, x.len) = x
      BY <1>1, <2>1, CutOut
    <2> QED
      BY <2>2 DEF e
  <1>5. suite % 65536 = suite
    OBVIOUS
  <1>6. x.len \in Nat
    BY BlockReads
  <1>7. 35 + Get(b, 34) = 67 /\ ServerFixed(b) = 70 /\ b.len >= 72
    BY <1>1, <1>6 DEF ServerFixed
  <1> DEFINE v == ServerValue(b)
  <1>8. v.random = Get(b, 2) /\ v.session_id = SubBlock(b, 35, Get(b, 34))
    BY DEF ServerValue
  <1>9. v.cipher_suite = Get(b, 35 + Get(b, 34))
    BY DEF ServerValue
  <1>10. v.extensions = IF b.len >= ServerFixed(b) + 2
                        THEN SubBlock(b, ServerFixed(b) + 2, Get(b, ServerFixed(b)))
                        ELSE Empty
    BY DEF ServerValue
  <1> HIDE DEF v
  <1>11. v.cipher_suite = suite
    BY <1>1, <1>5, <1>7, <1>9
  <1>12. 70 + 2 = 72
    OBVIOUS
  <1>13. v.extensions = x
    BY <1>1, <1>4, <1>7, <1>10, <1>12
  <1> QED
    BY <1>1, <1>2, <1>3, <1>8, <1>11, <1>13 DEF v

\* What our client is handed of the node's hello.
LEMMA NodeHelloRead ==
    ASSUME IInv, opener.kind = "ours", ends["server"] # {}, NEW m,
           Says(First(opener, "server", heard["server"]), m)
    PROVE  /\ m.random = ServerSalt /\ m.session_id = heard["server"].session_id
           /\ m.cipher_suite = SelectedSuite(heard["server"].cipher_suites, opener.server)
           /\ ExtractPeerPublic(m.extensions, FALSE) = ServerKey
  <1> DEFINE r == First(opener, "server", heard["server"])
             q == heard["server"]
             key == Slice(X25519_LEN, ServerKey)
             salt == Slice(32, ServerSalt)
             b == AnswerBody(q, key, salt, opener.server)
             x == ServerExtensions(key, opener.server)
             suite == SelectedSuite(q.cipher_suites, opener.server)
  <1>1. /\ Block(r) /\ Get(Payload(r), 0) = ServerType /\ Body(r) = b
        /\ Answerable(q) /\ opener.server \in ServerProfiles
        /\ Block(key) /\ key.len = 32 /\ Block(salt) /\ salt.len = 32
        /\ ServerFields(b, salt, q.session_id, suite, x)
    BY NodeHelloBody
  <1>2. Get(key, 0) = ServerKey /\ Get(salt, 0) = ServerSalt
    BY SliceBlock, ValuesAssumption DEF X25519_LEN
  <1>3. suite \in Nat /\ suite < 65536
    BY <1>1, AnswerSuite DEF Answerable
  <1>4. Block(x)
    BY <1>1, ServerExtensionsBlock
  <1>5. Block(q.session_id) /\ q.session_id.len = 32
    BY <1>1 DEF Answerable
  <1>6. StartProcess(r, Handshake).result = "some" /\ StartProcess(r, Handshake).value = m
    BY DEF Says
  <1>7. Get(Payload(r), 0) # ClientType
    BY <1>1 DEF ServerType, ClientType
  <1> HIDE DEF r, q, key, salt, b, suite
  <1>8. x = ServerExtensions(key, opener.server)
    OBVIOUS
  <1> HIDE DEF x
  <1> DEFINE c == ServerValue(b)
  <1>9. /\ c.random = Get(salt, 0) /\ c.session_id = q.session_id
        /\ c.cipher_suite = suite /\ c.extensions = x
    BY <1>1, <1>3, <1>4, <1>5, ServerFieldsRead
  <1>10. LET value == StartProcess(r, Handshake).value
             stack == ExtensionStackParse(ServerValue(b).extensions)
         IN  /\ stack.result = "some"
             /\ value = [ServerValue(b) EXCEPT !.extensions = stack.value]
    BY <1>1, <1>6, <1>7, ServerHelloReads
  <1>11. DOMAIN c = {"type", "random", "session_id", "cipher_suite", "extensions"}
    BY DEF ServerValue
  <1>12. m = [c EXCEPT !.extensions = ExtensionStackParse(x).value] /\ ExtensionStackParse(x).result = "some"
    BY <1>6, <1>9, <1>10
  <1> HIDE DEF c
  <1>13. /\ m.random = c.random /\ m.session_id = c.session_id
         /\ m.cipher_suite = c.cipher_suite /\ m.extensions = ExtensionStackParse(x).value
    BY <1>11, <1>12
  <1>14. ExtractPeerPublic(ExtensionStackParse(x).value, FALSE) = Get(key, 0)
    BY <1>1, <1>8, <1>12, ServerKeyRead
  <1> QED
    BY <1>2, <1>9, <1>13, <1>14 DEF q, suite

-----------------------------------------------------------------------------
(* Each side learns what the other wrote. *)

\* Every profile offers the suite the node falls back to.
LEMMA FallbackOffered ==
    ASSUME NEW p, NEW h, Hello(p, h)
    PROVE  \h1301 \in ToSet(OfferedSuites(p, h.grease))
  <1> DEFINE list == p.cipher_suites
             v == h.grease.cipher
             s == Greased(p, v, list)
  <1>1. Listed(p)
    BY ProfilesListed DEF Hello
  <1>2. WordSeq(list, 3) /\ list[1] = \h1301
    <2>1. WordSeq(list, 3)
      BY <1>1, ProfileLists
    <2>2. list = Suites
      BY <1>1 DEF Listed
    <2> QED
      BY <2>1, <2>2 DEF Suites
  <1>3. v \in Word
    BY GreaseValues DEF Hello, Fine, Word
  <1> HIDE DEF list, v
  <1>4. CASE p.has_grease
    <2>1. s = Ahead(v, list)
      BY <1>2, <1>3, <1>4, GreasedSeq
    <2>2. ListIn(list, Word) /\ Len(list) = 3
      BY <1>2 DEF WordSeq
    <2>3. /\ ListIn(s, Word) /\ Len(s) = Len(list) + 1 /\ s[1] = v
          /\ \A i \in 1 .. Len(list) : s[i + 1] = list[i]
      <3> DEFINE t == Ahead(v, list)
      <3>0. ListIn(list, Word)
        BY <2>2
      <3>1. /\ ListIn(t, Word) /\ Len(t) = Len(list) + 1 /\ t[1] = v
            /\ \A i \in 1 .. Len(list) : t[i + 1] = list[i]
        BY <1>3, <3>0, InFront
      <3> HIDE DEF t, s
      <3>2. s = t
        BY <2>1 DEF t
      <3> QED
        BY <3>1, <3>2
    <2> HIDE DEF s
    <2>4. s[1 + 1] = list[1]
      BY <2>2, <2>3
    <2>5. DOMAIN s = 1 .. Len(s) /\ Len(s) = 4
      BY <2>2, <2>3 DEF ListIn
    <2>6. 2 \in DOMAIN s /\ s[2] = \h1301
      BY <1>2, <2>4, <2>5
    <2> QED
      BY <2>6 DEF ToSet, OfferedSuites, s, list, v
  <1>5. CASE ~p.has_grease
    <2>1. s = list
      BY <1>2, <1>3, <1>5, GreasedSeq
    <2>2. DOMAIN list = 1 .. 3
      BY <1>2 DEF WordSeq, ListIn
    <2>3. 1 \in DOMAIN s /\ s[1] = \h1301
      BY <1>2, <2>1, <2>2
    <2> HIDE DEF s
    <2> QED
      BY <2>3 DEF ToSet, OfferedSuites, s, list, v
  <1> QED
    BY <1>4, <1>5

\* What the node learns from our client's hello.
LEMMA NodeLearns ==
    ASSUME IInv, Ours, heard["server"] # Unheard
    PROVE  LET m == heard["server"]
           IN  /\ m.random = ClientSalt
               /\ m.session_id.len = 32
               /\ Get(m.session_id, 0) = ClaimedVersion /\ Get(m.session_id, 16) = Tag
               /\ m.cipher_suites = OfferedSuites(opener.profile, opener.grease)
               /\ ExtractPeerPublic(m.extensions, TRUE) = ClientKey
               /\ ServerName(m.extensions) = HostOf(opener.sni)
  <1> DEFINE m == heard["server"]
             p == opener.profile
             h == OurHello(opener)
             x == Extensions(p, h)
  <1>1. opener.kind = "ours" /\ ends["client"] # {}
    BY DEF Ours
  <1>2. Hello(p, h)
    BY <1>1 DEF IInv, ClientGreets
  <1>3. Says(MakeClientHello(p, h), m)
    <2>1. Says(First(opener, "client", heard["server"]), m)
      BY Peers DEF IInv, HeardFirst
    <2>2. First(opener, "client", heard["server"]) = MakeClientHello(p, h)
      BY <1>1 DEF First
    <2> QED
      BY <2>1, <2>2
  <1>4. /\ h.host = HostOf(opener.sni) /\ h.grease = opener.grease /\ h.salt = Slice(32, ClientSalt)
        /\ h.key = Slice(X25519_LEN, ClientKey) /\ h.version = ClaimedVersion /\ h.tag = Slice(16, Tag)
    BY DEF OurHello
  <1> HIDE DEF m, p, h
  <1>5. /\ m.type = ClientType /\ m.random = Get(h.salt, 0) /\ m.session_id = SessionId(h)
        /\ m.cipher_suites = OfferedSuites(p, h.grease)
        /\ ExtensionStackParse(Extensions(p, h)).result = "some"
        /\ m.extensions = ExtensionStackParse(Extensions(p, h)).value
    BY <1>2, <1>3, OurHelloRead
  <1>6. Fine(h)
    BY <1>2 DEF Hello
  <1>7. /\ Get(h.salt, 0) = ClientSalt /\ Get(h.key, 0) = ClientKey /\ Get(h.tag, 0) = Tag
    <2>1. ClientSalt \in Nat /\ ClientKey \in Nat /\ Tag \in Nat
      BY ValuesAssumption
    <2>2. Get(Slice(32, ClientSalt), 0) = ClientSalt
      BY <2>1, SliceBlock
    <2>3. Get(Slice(32, ClientKey), 0) = ClientKey
      BY <2>1, SliceBlock
    <2>4. Get(Slice(16, Tag), 0) = Tag
      BY <2>1, SliceBlock
    <2> QED
      BY <1>4, <2>2, <2>3, <2>4 DEF X25519_LEN
  <1>8. /\ SessionId(h).len = 32 /\ Get(SessionId(h), 0) = ClaimedVersion
        /\ Get(SessionId(h), 16) = Tag
    BY <1>4, <1>6, <1>7, SessionIdBlock
  <1>9. Has(m.extensions, SNI) /\ FindByType(m.extensions, SNI) = ServerNameData(h.host)
    <2>1. SNI \in Sought
      BY DEF Sought
    <2>2. DataOf(p, h, SNI) = ServerNameData(h.host)
      BY DEF DataOf
    <2> QED
      BY <1>2, <1>5, <2>1, <2>2, HelloFinds
  <1>10. /\ Has(m.extensions, KEY_SHARE)
         /\ FindByType(m.extensions, KEY_SHARE) = KeyShareList(p, h.grease.group, h.key)
    <2>1. KEY_SHARE \in Sought
      BY DEF Sought
    <2>2. DataOf(p, h, KEY_SHARE) = KeyShareList(p, h.grease.group, h.key)
      BY DEF DataOf, KeyShareData, KEY_SHARE, SNI
    <2> QED
      BY <1>2, <1>5, <2>1, <2>2, HelloFinds
  <1>11. /\ Block(h.host) /\ h.host.len <= MaxHostLen /\ Block(h.key) /\ h.key.len = 32
         /\ h.grease.group \in GREASE_VALUES
    BY <1>6 DEF Fine
  <1>12. ServerName(m.extensions) = h.host
    BY <1>9, <1>11, HostRead
  <1>13. ExtractPeerPublic(m.extensions, TRUE) = Get(h.key, 0)
    BY <1>10, <1>11, ClientKeyRead
  <1> QED
    BY <1>4, <1>5, <1>7, <1>8, <1>12, <1>13 DEF m, p

\* What our client learns from the node's hello.
LEMMA ClientLearns ==
    ASSUME IInv, Ours, heard["client"] # Unheard
    PROVE  LET m == heard["client"]
           IN  /\ m.random = ServerSalt
               /\ m.session_id = heard["server"].session_id
               /\ m.cipher_suite \in ToSet(heard["server"].cipher_suites)
               /\ ExtractPeerPublic(m.extensions, FALSE) = ServerKey
  <1> DEFINE m == heard["client"]
             q == heard["server"]
             p == opener.profile
             h == OurHello(opener)
  <1>1. opener.kind = "ours" /\ ends["client"] # {}
    BY DEF Ours
  <1>2. ends["server"] # {} /\ Says(First(opener, "server", heard["server"]), m)
    BY Peers DEF IInv, HeardFirst
  <1>3. q # Unheard /\ Answerable(q) /\ opener.server \in ServerProfiles
    BY <1>1, <1>2, NodeHelloBody
  <1>4. /\ m.random = ServerSalt /\ m.session_id = q.session_id
        /\ m.cipher_suite = SelectedSuite(q.cipher_suites, opener.server)
        /\ ExtractPeerPublic(m.extensions, FALSE) = ServerKey
    BY <1>1, <1>2, NodeHelloRead
  <1>5. q.cipher_suites = OfferedSuites(p, opener.grease)
    BY <1>3, NodeLearns
  <1>6. \h1301 \in ToSet(q.cipher_suites)
    <2>1. Hello(p, h)
      BY <1>1 DEF IInv, ClientGreets
    <2>2. h.grease = opener.grease
      BY DEF OurHello
    <2> HIDE DEF h, p, q
    <2> QED
      BY <1>5, <2>1, <2>2, FallbackOffered
  <1>7. \/ SelectedSuite(q.cipher_suites, opener.server) = \h1301
        \/ SelectedSuite(q.cipher_suites, opener.server) \in ToSet(q.cipher_suites)
    <2> HIDE DEF q
    <2>1. SuiteList(q.cipher_suites)
      BY <1>3 DEF Answerable
    <2> DEFINE s == SelectedSuite(q.cipher_suites, opener.server)
    <2>2. s \in Nat /\ s < 65536 /\ (s = \h1301 \/ s \in ToSet(q.cipher_suites))
      BY <1>3, <2>1, AnswerSuite
    <2> QED
      BY <2>2
  <1> HIDE DEF q, m
  <1>8. m.cipher_suite \in ToSet(q.cipher_suites)
    BY <1>4, <1>6, <1>7
  <1> QED
    BY <1>4, <1>8 DEF q, m

\* What the ends know each other by survives the wire, for every profile, shuffle,
\* GREASE draw, host, salt, key and tag, and however TCP cuts the streams.
THEOREM OpeningHelloCarriesKeys == Spec => []HelloCarriesKeys
  <1>1. IInv => HelloCarriesKeys
    <2> SUFFICES ASSUME IInv, Ours PROVE
            /\ heard["server"] # Unheard =>
                  LET m == heard["server"]
                  IN  /\ m.random = ClientSalt
                      /\ m.session_id.len = 32
                      /\ Get(m.session_id, 0) = ClaimedVersion /\ Get(m.session_id, 16) = Tag
                      /\ m.cipher_suites = OfferedSuites(opener.profile, opener.grease)
                      /\ ExtractPeerPublic(m.extensions, TRUE) = ClientKey
                      /\ ServerName(m.extensions) = HostOf(opener.sni)
            /\ heard["client"] # Unheard =>
                  LET m == heard["client"]
                  IN  /\ m.random = ServerSalt
                      /\ m.session_id = heard["server"].session_id
                      /\ m.cipher_suite \in ToSet(heard["server"].cipher_suites)
                      /\ ExtractPeerPublic(m.extensions, FALSE) = ServerKey
      BY Zenon DEF HelloCarriesKeys
    <2> QED
      BY NodeLearns, ClientLearns
  <1> QED
    BY <1>1, OpeningInvariant, PTL

-----------------------------------------------------------------------------
(* The key shares are in the order of the groups. *)

\* A share put in front of the shares, and its group in front of the groups, still
\* stand at the same place.
LEMMA BeginsAhead ==
    ASSUME NEW S, NEW s, ListIn(s, S), NEW T, NEW groups, ListIn(groups, T), Begins(s, groups),
           NEW e \in S, e.group \in T
    PROVE  ListIn(Ahead(e, s), S) /\ Begins(Ahead(e, s), Ahead(e.group, groups))
  <1> DEFINE t == Ahead(e, s)
             g == Ahead(e.group, groups)
  <1>1. /\ ListIn(t, S) /\ Len(t) = Len(s) + 1 /\ t[1] = e
        /\ \A i \in 1 .. Len(s) : t[i + 1] = s[i]
    BY InFront
  <1>2. /\ ListIn(g, T) /\ Len(g) = Len(groups) + 1 /\ g[1] = e.group
        /\ \A i \in 1 .. Len(groups) : g[i + 1] = groups[i]
    BY InFront
  <1>3. Len(s) \in Nat /\ Len(groups) \in Nat
    BY DEF ListIn
  <1>4. Len(s) <= Len(groups) /\ \A i \in 1 .. Len(s) : s[i].group = groups[i]
    BY DEF Begins
  <1> HIDE DEF t, g
  <1>5. ASSUME NEW i \in 1 .. Len(t) PROVE t[i].group = g[i]
    <2>1. CASE i = 1
      BY <1>1, <1>2, <2>1
    <2>2. CASE i # 1
      <3>1. /\ i - 1 \in 1 .. Len(s) /\ i - 1 \in 1 .. Len(groups) /\ (i - 1) + 1 = i
        BY <1>1, <1>3, <1>4, <2>2
      <3>2. t[i] = s[i - 1] /\ g[i] = groups[i - 1]
        BY <1>1, <1>2, <3>1
      <3> QED
        BY <1>4, <3>1, <3>2
    <2> QED
      BY <2>1, <2>2
  <1>6. Len(t) <= Len(g)
    BY <1>1, <1>2, <1>3, <1>4
  <1> QED
    BY <1>1, <1>5, <1>6 DEF Begins, t, g

\* The groups of a profile: the post-quantum one in front of X25519, or X25519 first.
LEMMA GroupsBegin ==
    ASSUME NEW p, Listed(p)
    PROVE  /\ ListIn(p.groups, Word) /\ Len(p.groups) \in Nat /\ Len(p.groups) >= 1
           /\ X25519_MLKEM768 \in ToSet(p.groups) => p.groups = Ahead(X25519_MLKEM768, <<X25519>>)
           /\ X25519_MLKEM768 \notin ToSet(p.groups) => p.groups[1] = X25519
  <1>1. \E n \in {2, 3} : WordSeq(p.groups, n)
    BY ProfileLists
  <1>2. ListIn(p.groups, Word) /\ Len(p.groups) \in Nat /\ Len(p.groups) >= 1
    BY <1>1 DEF WordSeq
  <1>3. p.groups \in {<<X25519, SECP256R1>>, <<X25519_MLKEM768, X25519>>,
                     <<X25519, SECP256R1, SECP521R1>>}
    BY DEF Listed
  <1>4. CASE p.groups = <<X25519_MLKEM768, X25519>>
    <2>1. 1 \in DOMAIN p.groups /\ p.groups[1] = X25519_MLKEM768
      BY <1>4
    <2>2. X25519_MLKEM768 \in ToSet(p.groups)
      BY <2>1 DEF ToSet
    <2>3. Ahead(X25519_MLKEM768, <<X25519>>) = p.groups
      <3> DEFINE one == <<X25519>>
                 v == X25519_MLKEM768
                 s == Ahead(v, one)
                 t == p.groups
      <3>1. v \in Word /\ X25519 \in Word
        BY DEF X25519, X25519_MLKEM768, Word
      <3>2. Len(one) = 1 /\ one[1] = X25519
        OBVIOUS
      <3>3. ListIn(one, Word)
        BY <3>1 DEF ListIn
      <3>4. ListIn(t, Word) /\ Len(t) = 2 /\ t[1] = v /\ t[2] = X25519
        BY <1>2, <1>4
      <3> HIDE DEF one, v, t
      <3>5. /\ ListIn(s, Word) /\ Len(s) = Len(one) + 1 /\ s[1] = v
            /\ \A i \in 1 .. Len(one) : s[i + 1] = one[i]
        BY <3>1, <3>3, InFront
      <3> HIDE DEF s
      <3>6. s[1 + 1] = one[1]
        BY <3>2, <3>5
      <3>7. 1 + 1 = 2
        OBVIOUS
      <3>8. Len(s) = 2 /\ s[2] = X25519
        BY <3>2, <3>5, <3>6, <3>7
      <3>9. \A i \in 1 .. Len(s) : s[i] = t[i]
        <4>1. s[1] = t[1] /\ s[2] = t[2]
          BY <3>4, <3>5, <3>8
        <4>2. \A i \in 1 .. Len(s) : i = 1 \/ i = 2
          BY <3>8
        <4> QED
          BY <4>1, <4>2
      <3>10. ListIn(s, Word) /\ ListIn(t, Word) /\ Len(s) = Len(t)
        BY <3>4, <3>5, <3>8
      <3>11. s = t
        BY <3>9, <3>10, SameList
      <3> QED
        BY <3>11 DEF s, t, v, one
    <2> QED
      BY <1>2, <2>2, <2>3
  <1>5. CASE p.groups # <<X25519_MLKEM768, X25519>>
    <2>1. p.groups[1] = X25519
      BY <1>3, <1>5
    <2>2. \A i \in DOMAIN p.groups : p.groups[i] # X25519_MLKEM768
      <3>1. CASE p.groups = <<X25519, SECP256R1>>
        BY <3>1 DEF X25519, SECP256R1, X25519_MLKEM768
      <3>2. CASE p.groups = <<X25519, SECP256R1, SECP521R1>>
        BY <3>2 DEF X25519, SECP256R1, SECP521R1, X25519_MLKEM768
      <3> QED
        BY <1>3, <1>5, <3>1, <3>2
    <2>3. X25519_MLKEM768 \notin ToSet(p.groups)
      BY <2>2 DEF ToSet
    <2> QED
      BY <1>2, <2>1, <2>3
  <1> QED
    BY <1>4, <1>5

\* The shares of a client are for the first of the groups it supports.
LEMMA EntriesBegin ==
    ASSUME NEW p, Listed(p), NEW group \in Word, NEW key
    PROVE  \E S : /\ ListIn(Entries(p, group, key), S)
                  /\ Begins(Entries(p, group, key), Greased(p, group, p.groups))
  <1> DEFINE e1 == Entry(group, U8(0))
             e2 == Entry(X25519_MLKEM768, Slice(X25519_MLKEM768_SHARE_LEN, Noise))
             e3 == Entry(X25519, key)
             S == {e1, e2, e3}
             gs == p.groups
             last == LastEntries(key)
             middle == MlKemEntries(p, key)
  <1>1. e1.group = group /\ e2.group = X25519_MLKEM768 /\ e3.group = X25519
    BY DEF Entry
  <1>2. e1 \in S /\ e2 \in S /\ e3 \in S
    OBVIOUS
  <1>3. X25519 \in Word /\ X25519_MLKEM768 \in Word
    BY DEF X25519, X25519_MLKEM768, Word
  <1>4. /\ ListIn(gs, Word) /\ Len(gs) \in Nat /\ Len(gs) >= 1
        /\ X25519_MLKEM768 \in ToSet(gs) => gs = Ahead(X25519_MLKEM768, <<X25519>>)
        /\ X25519_MLKEM768 \notin ToSet(gs) => gs[1] = X25519
    BY GroupsBegin
  <1> HIDE DEF e1, e2, e3, S
  <1>5. ListIn(last, S) /\ Len(last) = 1 /\ last[1] = e3
    <2> DEFINE none == <<>>
               t == Ahead(e3, none)
    <2>1. Len(none) = 0
      OBVIOUS
    <2>2. ListIn(none, S)
      BY DEF ListIn
    <2> HIDE DEF none
    <2>3. /\ ListIn(t, S) /\ Len(t) = Len(none) + 1 /\ t[1] = e3
          /\ \A i \in 1 .. Len(none) : t[i + 1] = none[i]
      BY <1>2, <2>2, InFront
    <2>4. last = t
      BY DEF LastEntries, e3, none
    <2> HIDE DEF t, last
    <2> QED
      BY <2>1, <2>3, <2>4
  <1> HIDE DEF last, gs, middle
  <1>6. ASSUME NEW list, Len(list) \in Nat, Len(list) >= 1, list[1] = X25519
        PROVE  Begins(last, list)
    BY <1>1, <1>5, <1>6 DEF Begins
  <1>7. ListIn(middle, S) /\ Begins(middle, gs)
    <2>1. CASE X25519_MLKEM768 \in ToSet(gs)
      <3> DEFINE one == <<X25519>>
      <3>1. ListIn(one, Word) /\ Len(one) = 1 /\ one[1] = X25519
        BY <1>3 DEF ListIn
      <3> HIDE DEF one
      <3>2. Begins(last, one)
        BY <1>6, <3>1
      <3>3. ListIn(one, Word)
        BY <3>1
      <3>4. ListIn(last, S)
        BY <1>5
      <3>5. e2.group \in Word
        BY <1>1, <1>3
      <3>6. ListIn(Ahead(e2, last), S) /\ Begins(Ahead(e2, last), Ahead(e2.group, one))
        BY <1>2, <3>2, <3>3, <3>4, <3>5, BeginsAhead
      <3>7. middle = Ahead(e2, last)
        BY <2>1 DEF middle, MlKemEntries, e2, last, gs
      <3> QED
        BY <1>1, <1>4, <2>1, <3>6, <3>7 DEF one
    <2>2. CASE X25519_MLKEM768 \notin ToSet(gs)
      <3>1. middle = last
        BY <2>2 DEF middle, MlKemEntries, last, gs
      <3> QED
        BY <1>4, <1>5, <1>6, <2>2, <3>1
    <2> QED
      BY <2>1, <2>2
  <1>8. ListIn(Ahead(e1, middle), S) /\ Begins(Ahead(e1, middle), Ahead(e1.group, gs))
    <2>1. e1.group \in Word
      BY <1>1
    <2>2. ListIn(gs, Word)
      BY <1>4
    <2> QED
      BY <1>2, <1>7, <2>1, <2>2, BeginsAhead
  <1>9. CASE p.has_grease
    <2>1. Entries(p, group, key) = Ahead(e1, middle)
      BY <1>9 DEF Entries, e1, middle
    <2>2. Greased(p, group, p.groups) = Ahead(group, gs)
      BY <1>9 DEF Greased, Ahead, gs
    <2> QED
      BY <1>1, <1>8, <2>1, <2>2
  <1>10. CASE ~p.has_grease
    <2>1. Entries(p, group, key) = middle
      BY <1>10 DEF Entries, middle
    <2>2. Greased(p, group, p.groups) = gs
      <3>1. \E n \in {2, 3} : WordSeq(p.groups, n)
        BY ProfileLists
      <3> QED
        BY <1>10, <3>1, GreasedSeq DEF gs
    <2> QED
      BY <1>7, <2>1, <2>2
  <1> QED
    BY <1>9, <1>10

\* Where a list begins another, each element is at its own position.
LEMMA BeginsInOrder ==
    ASSUME NEW S, NEW s, ListIn(s, S), NEW T, NEW groups, ListIn(groups, T), Begins(s, groups)
    PROVE  \E at : InOrder(at, s, groups)
  <1>1. /\ Len(s) \in Nat /\ Len(groups) \in Nat /\ DOMAIN s = 1 .. Len(s)
        /\ DOMAIN groups = 1 .. Len(groups)
    BY DEF ListIn
  <1>2. Len(s) <= Len(groups) /\ \A i \in 1 .. Len(s) : s[i].group = groups[i]
    BY DEF Begins
  <1> DEFINE at == [i \in DOMAIN s |-> i]
  <1>3. at \in [DOMAIN s -> DOMAIN groups]
    BY <1>1, <1>2
  <1>4. \A i \in DOMAIN s : groups[at[i]] = s[i].group
    BY <1>1, <1>2
  <1>5. \A i, j \in DOMAIN s : i < j => at[i] < at[j]
    BY <1>1
  <1> HIDE DEF at
  <1> QED
    BY <1>3, <1>4, <1>5 DEF InOrder

\* Behind the length in key_share are the shares.
LEMMA SharesBehind ==
    ASSUME NEW p, NEW group \in Word, NEW key, Block(key), key.len = 32
    PROVE  Suffix(KeyShareList(p, group, key), 2) = Shares(p, group, key)
  <1> DEFINE data == KeyShareList(p, group, key)
             list == Shares(p, group, key)
             two == 2
  <1>1. /\ Block(list) /\ list.len \in Nat
        /\ list.len = GreaseShare(p, group).len + MlKemShare(p).len + 36
        /\ list.len <= 1261
        /\ Lies(list, 0, GreaseShare(p, group))
        /\ Lies(list, GreaseShare(p, group).len, MlKemShare(p))
        /\ Lies(list, GreaseShare(p, group).len + MlKemShare(p).len, AddExtension(X25519, key))
        /\ Block(data) /\ data.len = 2 + list.len
        /\ Get(data, 0) = list.len /\ Lies(data, 2, list)
    BY SharesBlock
  <1> HIDE DEF data, list
  <1>2. Lies(data, two, list)
    BY <1>1
  <1>3. data.len - 2 = list.len
    BY <1>1
  <1> HIDE DEF two
  <1>4. SubBlock(data, two, list.len) = list
    BY <1>1, <1>2, CutOut
  <1> QED
    BY <1>3, <1>4 DEF two, Suffix, data, list

\* The node finds a share in our client's hello only for a group the hello supports,
\* in the same order, whatever the profile and the GREASE draw.
THEOREM OpeningSharesOffered == Spec => []SharesOffered
  <1>1. ASSUME IInv, Ours, heard["server"] # Unheard
        PROVE  LET stack   == heard["server"].extensions
                   listed  == FindByType(stack, SUPPORTED_GROUPS)
                   groups  == [i \in 1 .. (Get(listed, 0) \div 2) |-> Get(listed, 2 * i)]
                   entries == KeyShareEntries(Suffix(FindByType(stack, KEY_SHARE), 2))
               IN  \E at : InOrder(at, entries, groups)
    <2> DEFINE p == opener.profile
               h == OurHello(opener)
               stack == heard["server"].extensions
    <2>1. opener.kind = "ours" /\ ends["client"] # {}
      BY <1>1 DEF Ours
    <2>2. Hello(p, h)
      BY <1>1, <2>1 DEF IInv, ClientGreets
    <2>3. Says(MakeClientHello(p, h), heard["server"])
      <3>1. Says(First(opener, "client", heard["server"]), heard["server"])
        BY <1>1, Peers DEF IInv, HeardFirst
      <3>2. First(opener, "client", heard["server"]) = MakeClientHello(p, h)
        BY <2>1 DEF First
      <3> QED
        BY <3>1, <3>2
    <2> HIDE DEF p, h
    <2>4. /\ ExtensionStackParse(Extensions(p, h)).result = "some"
          /\ stack = ExtensionStackParse(Extensions(p, h)).value
      BY <2>2, <2>3, OurHelloRead
    <2> HIDE DEF stack
    <2> DEFINE g == h.grease.group
               key == h.key
               data == KeyShareList(p, g, key)
               listed == SupportedGroupsData(p, h.grease)
               groups == Greased(p, g, p.groups)
               list == Shares(p, g, key)
    <2>5. FindByType(stack, KEY_SHARE) = data
      <3>1. KEY_SHARE \in Sought
        BY DEF Sought
      <3>2. DataOf(p, h, KEY_SHARE) = data
        BY DEF DataOf, KeyShareData, KEY_SHARE, SNI
      <3> HIDE DEF data
      <3> QED
        BY <2>2, <2>4, <3>1, <3>2, HelloFinds
    <2>6. FindByType(stack, SUPPORTED_GROUPS) = listed
      <3>1. SUPPORTED_GROUPS \in Sought
        BY DEF Sought
      <3>2. DataOf(p, h, SUPPORTED_GROUPS) = listed
        BY DEF DataOf, SUPPORTED_GROUPS, KEY_SHARE, SNI
      <3> HIDE DEF listed
      <3> QED
        BY <2>2, <2>4, <3>1, <3>2, HelloFinds
    <2>7. g \in Word /\ Block(key) /\ key.len = 32 /\ Listed(p)
      BY <2>2, GreaseValues, ProfilesListed DEF Hello, Fine, Word
    <2>8. PICK n \in 2 .. 4 :
             /\ WordSeq(groups, n) /\ Get(listed, 0) = 2 * n
             /\ \A i \in 1 .. n : Get(listed, 2 * i) = groups[i]
      BY <2>7, GroupsBlock
    <2>9. [i \in 1 .. (Get(listed, 0) \div 2) |-> Get(listed, 2 * i)] = groups
      <3>1. Get(listed, 0) \div 2 = n
        BY <2>8
      <3>2. groups \in Seq(Word) /\ Len(groups) = n
        BY <2>8 DEF WordSeq, ListIn
      <3> HIDE DEF groups, listed
      <3>3. groups = [i \in 1 .. n |-> groups[i]]
        BY <3>2
      <3>4. [i \in 1 .. n |-> Get(listed, 2 * i)] = [i \in 1 .. n |-> groups[i]]
        BY <2>8
      <3> QED
        BY <3>1, <3>3, <3>4
    <2>10. Suffix(data, 2) = list
      BY <2>7, SharesBehind
    <2> HIDE DEF data, listed, groups
    <2>11. KeyShareEntries(list) = Entries(p, g, key)
      BY <2>7, EntriesRead
    <2>12. \E at : InOrder(at, Entries(p, g, key), groups)
      <3>1. PICK S : ListIn(Entries(p, g, key), S) /\ Begins(Entries(p, g, key), groups)
        BY <2>7, EntriesBegin DEF groups
      <3>2. ListIn(groups, Word)
        BY <2>8 DEF WordSeq
      <3> HIDE DEF g, key
      <3> QED
        BY <3>1, <3>2, BeginsInOrder
    <2> QED
      BY <2>5, <2>6, <2>9, <2>10, <2>11, <2>12 DEF stack
  <1>2. IInv => SharesOffered
    BY <1>1 DEF SharesOffered, InOrder
  <1> QED
    BY <1>2, OpeningInvariant, PTL

-----------------------------------------------------------------------------
(***************************************************************************)
(* Padding.                                                                *)
(***************************************************************************)

\* The order of Chrome 131, and that of Edge 130.
LEMMA PaddedOrders ==
    /\ PaddedOrder(ExtensionOrder.CHROMIUM_131, 7) /\ Len(ExtensionOrder.CHROMIUM_131) = 7
    /\ PaddedOrder(ExtensionOrder.EDGE_130, 8) /\ Len(ExtensionOrder.EDGE_130) = 8
  <1>1. {\haaaa, \h1a1a, \h3a3a} \subseteq BusyIds
    <2>1. /\ \haaaa = \h0a0a + 10 * \h1010 /\ \h1a1a = \h0a0a + 1 * \h1010
          /\ \h3a3a = \h0a0a + 3 * \h1010
      OBVIOUS
    <2>2. {\haaaa, \h1a1a, \h3a3a} \subseteq GREASE_VALUES
      BY <2>1 DEF GREASE_VALUES
    <2> QED
      BY <2>2 DEF BusyIds, GREASE_SLOT_FIRST, GREASE_SLOT_LAST
  <1>2. /\ SNI \in BusyIds /\ SUPPORTED_GROUPS \in BusyIds /\ SIGNATURE_ALGORITHMS \in BusyIds
        /\ KEY_SHARE \in BusyIds /\ SUPPORTED_VERSIONS \in BusyIds
    BY DEF BusyIds
  <1>3. PaddedOrder(ExtensionOrder.CHROMIUM_131, 7) /\ Len(ExtensionOrder.CHROMIUM_131) = 7
    <2> DEFINE s == ExtensionOrder.CHROMIUM_131
    <2>1. /\ Len(s) = 7 /\ s[1] = \haaaa /\ s[2] = SNI /\ s[3] = SUPPORTED_GROUPS
          /\ s[4] = SIGNATURE_ALGORITHMS /\ s[5] = KEY_SHARE /\ s[6] = SUPPORTED_VERSIONS
          /\ s[7] = PADDING
      BY DEF ExtensionOrder
    <2> HIDE DEF s
    <2>2. \A i \in 1 .. 7 : i < 7 => s[i] \in BusyIds
      BY <1>1, <1>2, <2>1
    <2>3. \A i, j \in 1 .. 7 : s[i] = s[j] => i = j
      BY <2>1 DEF SNI, SUPPORTED_GROUPS, SIGNATURE_ALGORITHMS, KEY_SHARE, SUPPORTED_VERSIONS, PADDING
    <2>4. PaddedOrder(s, 7)
      BY <2>1, <2>2, <2>3 DEF PaddedOrder
    <2> QED
      BY <2>1, <2>4 DEF s
  <1>4. PaddedOrder(ExtensionOrder.EDGE_130, 8) /\ Len(ExtensionOrder.EDGE_130) = 8
    <2> DEFINE s == ExtensionOrder.EDGE_130
    <2>1. /\ Len(s) = 8 /\ s[1] = \h1a1a /\ s[2] = SNI /\ s[3] = SUPPORTED_GROUPS
          /\ s[4] = SIGNATURE_ALGORITHMS /\ s[5] = KEY_SHARE /\ s[6] = SUPPORTED_VERSIONS
          /\ s[7] = \h3a3a /\ s[8] = PADDING
      BY DEF ExtensionOrder
    <2> HIDE DEF s
    <2>2. \A i \in 1 .. 8 : i < 8 => s[i] \in BusyIds
      BY <1>1, <1>2, <2>1
    <2>3. \A i, j \in 1 .. 8 : s[i] = s[j] => i = j
      BY <2>1 DEF SNI, SUPPORTED_GROUPS, SIGNATURE_ALGORITHMS, KEY_SHARE, SUPPORTED_VERSIONS, PADDING
    <2>4. PaddedOrder(s, 8)
      BY <2>1, <2>2, <2>3 DEF PaddedOrder
    <2> QED
      BY <2>1, <2>4 DEF s
  <1> QED
    BY <1>3, <1>4

\* The profiles that pad are these two.
LEMMA PaddedProfiles ==
    ASSUME NEW p \in BrowserProfiles, p.target_padding_len > 0
    PROVE  Padded(p)
  <1>1. Padded(CHROME_131)
    <2>1. /\ CHROME_131.target_padding_len = 512 /\ CHROME_131.groups = <<X25519, SECP256R1>>
          /\ CHROME_131.signatures = 7 /\ CHROME_131.shuffle_extensions
          /\ CHROME_131.extension_order = ExtensionOrder.CHROMIUM_131
      BY DEF CHROME_131
    <2> QED
      BY <2>1, PaddedOrders DEF Padded
  <1>2. Padded(EDGE_130)
    <2>1. /\ EDGE_130.target_padding_len = 512 /\ EDGE_130.groups = <<X25519, SECP256R1>>
          /\ EDGE_130.signatures = 7
          /\ EDGE_130.extension_order = ExtensionOrder.EDGE_130
      BY DEF CHROME_131, EDGE_130
    <2>2. EDGE_130.shuffle_extensions
      <3>1. EDGE_130.shuffle_extensions = CHROME_131.shuffle_extensions
        BY DEF CHROME_131, EDGE_130
      <3>2. CHROME_131.shuffle_extensions
        BY DEF CHROME_131
      <3> QED
        BY <3>1, <3>2
    <2> QED
      BY <2>1, <2>2, PaddedOrders DEF Padded
  <1>3. CHROME_140.target_padding_len = 0
    BY DEF CHROME_131, CHROME_140
  <1>4. SAFARI_17.target_padding_len = 0
    BY DEF CHROME_131, SAFARI_17
  <1>5. FIREFOX_130.target_padding_len = 0
    BY DEF CHROME_131, SAFARI_17, FIREFOX_130
  <1>6. CALIBRATED.target_padding_len = 0
    BY DEF CHROME_131, CHROME_140, CALIBRATED
  <1> QED
    BY <1>1, <1>2, <1>3, <1>4, <1>5, <1>6 DEF BrowserProfiles

-----------------------------------------------------------------------------
(* How long an extension can be. *)

\* The shares of a profile without the post-quantum group are short.
LEMMA ShortShares ==
    ASSUME NEW p, X25519_MLKEM768 \notin ToSet(p.groups), NEW group \in Word, NEW key, Block(key), key.len = 32
    PROVE  Block(KeyShareList(p, group, key)) /\ KeyShareList(p, group, key).len <= 43
  <1> DEFINE list == Shares(p, group, key)
             data == KeyShareList(p, group, key)
             G == GreaseShare(p, group)
             M == MlKemShare(p)
             X == AddExtension(X25519, key)
  <1>2. G.len \in {0, 5} /\ M.len = 0
    <2>1. /\ Block(G) /\ Block(M) /\ Block(X)
          /\ G.len \in {0, 5}
          /\ M.len = IF X25519_MLKEM768 \in ToSet(p.groups) THEN 1220 ELSE 0
          /\ X.len = 36
      BY ShareBlocks
    <2> QED
      BY <2>1
  <1>3. /\ Block(list) /\ list.len \in Nat
        /\ list.len = G.len + M.len + 36
        /\ list.len <= 1261
        /\ Lies(list, 0, G)
        /\ Lies(list, G.len, M)
        /\ Lies(list, G.len + M.len, X)
        /\ Block(data) /\ data.len = 2 + list.len
        /\ Get(data, 0) = list.len /\ Lies(data, 2, list)
    BY SharesBlock
  <1> HIDE DEF list, data, G, M
  <1> QED
    BY <1>2, <1>3 DEF data

\* An extension that carries at most n bytes.
LEMMA LengthAtMost ==
    ASSUME NEW t \in Word, NEW d, Block(d), NEW n \in Nat, d.len <= n, n < 1000
    PROVE  AddExtension(t, d).len <= 4 + n
  <1>1. t \in Nat /\ t < 65536 /\ d.len \in Nat
    BY BlockReads DEF Word
  <1>2. /\ Block(AddExtension(t, d)) /\ AddExtension(t, d).len = 4 + d.len
        /\ Get(AddExtension(t, d), 0) = t
        /\ Get(AddExtension(t, d), 2) = d.len
        /\ Lies(AddExtension(t, d), 4, d)
    BY <1>1, ExtensionBlock
  <1> QED
    BY <1>1, <1>2

\* What a padded profile has in front of its padding is short.
LEMMA BusyLength ==
    ASSUME NEW p, Listed(p), Padded(p), NEW h, Fine(h), NEW o \in Nat, NEW payload, Block(payload),
           NEW id \in BusyIds
    PROVE  Extension(p, h, o, payload, id).len <= Weight(id)
  <1> DEFINE x == Extension(p, h, o, payload, id)
  <1>0. /\ SNI \in Word /\ KEY_SHARE \in Word /\ SUPPORTED_GROUPS \in Word
        /\ SIGNATURE_ALGORITHMS \in Word /\ SUPPORTED_VERSIONS \in Word
    BY OtherIds DEF Sought
  <1>7. Block(x) /\ x.len \in Nat
    <2>1. Shaped(p, h, id, x)
      BY ExtensionShape
    <2> HIDE DEF x
    <2>2. Block(x)
      BY <2>1, ShapedBlock
    <2> QED
      BY <2>2, BlockReads
  <1>1. CASE id = SNI
    <2> DEFINE host == h.host
               d == ServerNameData(host)
               n == 258
    <2>1. x = AddExtension(id, d)
      BY <1>1, Arms
    <2>2. Block(host) /\ host.len <= 253
      BY DEF Fine, MaxHostLen
    <2>6. host.len \in Nat
      BY <2>2, BlockReads
    <2>7. host.len < 1000
      BY <2>2, <2>6
    <2> HIDE DEF host
    <2>3. /\ Block(d) /\ d.len = 5 + host.len
          /\ Get(d, 0) = 3 + host.len /\ Get(d, 2) = 0 /\ Get(d, 3) = host.len
          /\ Lies(d, 5, host)
      BY <2>2, <2>7, NameBlock
    <2>4. n \in Nat /\ n < 1000 /\ d.len <= n
      BY <2>2, <2>3, <2>6
    <2> HIDE DEF x, d, n
    <2>5. x.len <= 4 + n
      BY <1>0, <1>1, <2>1, <2>3, <2>4, LengthAtMost
    <2> QED
      BY <1>1, <2>5 DEF Weight, n, x
  <1>2. CASE id = SUPPORTED_GROUPS
    <2> DEFINE d == SupportedGroupsData(p, h.grease)
               n == 10
    <2>1. x = AddExtension(id, d)
      BY <1>2, Arms
    <2>2. h.grease.group \in Word
      BY GreaseValues DEF Fine, Word
    <2>3. Block(d) /\ \E k \in 2 .. 4 : d.len = 2 + 2 * k
      BY <2>2, GroupsBlock
    <2>4. n \in Nat /\ n < 1000 /\ d.len <= n
      BY <2>3
    <2> HIDE DEF x, d, n
    <2>5. x.len <= 4 + n
      BY <1>0, <1>2, <2>1, <2>3, <2>4, LengthAtMost
    <2> QED
      BY <1>2, <1>7, <2>5 DEF Weight, n, x, SUPPORTED_GROUPS, SNI, KEY_SHARE
  <1>3. CASE id = SIGNATURE_ALGORITHMS
    <2> DEFINE d == SignaturesData(p.signatures)
               n == 16
    <2>1. x = AddExtension(id, d)
      BY <1>3, Arms
    <2>2. p.signatures = 7
      BY DEF Padded
    <2>3. Block(d) /\ d.len = 16
      BY <2>2, SignaturesBlock
    <2>4. n \in Nat /\ n < 1000 /\ d.len <= n
      BY <2>3
    <2> HIDE DEF x, d, n
    <2>5. x.len <= 4 + n
      BY <1>0, <1>3, <2>1, <2>3, <2>4, LengthAtMost
    <2> QED
      BY <1>3, <2>5 DEF Weight, n, x, SIGNATURE_ALGORITHMS, SNI, KEY_SHARE
  <1>4. CASE id = KEY_SHARE
    <2> DEFINE d == KeyShareData(p, h.grease, h.key)
               n == 43
    <2>1. x = AddExtension(id, d)
      BY <1>4, Arms
    <2>2. h.grease.group \in Word /\ Block(h.key) /\ h.key.len = 32
      BY GreaseValues DEF Fine, Word
    <2>3. d = KeyShareList(p, h.grease.group, h.key)
      BY DEF KeyShareData
    <2>4. X25519_MLKEM768 \notin ToSet(p.groups)
      <3>1. p.groups = <<X25519, SECP256R1>>
        BY DEF Padded
      <3>2. \A i \in DOMAIN p.groups : p.groups[i] # X25519_MLKEM768
        BY <3>1 DEF X25519, SECP256R1, X25519_MLKEM768
      <3> QED
        BY <3>2 DEF ToSet
    <2>5. Block(d) /\ d.len <= 43
      BY <2>2, <2>3, <2>4, ShortShares
    <2>6. n \in Nat /\ n < 1000 /\ d.len <= n
      BY <2>5
    <2> HIDE DEF x, d, n
    <2>7. x.len <= 4 + n
      BY <1>0, <1>4, <2>1, <2>5, <2>6, LengthAtMost
    <2> QED
      BY <1>4, <2>7 DEF Weight, n, x, SNI, KEY_SHARE
  <1>5. CASE id = SUPPORTED_VERSIONS
    <2> DEFINE d == SupportedVersionsData(p, h.grease)
               n == 7
    <2>1. x = AddExtension(id, d)
      BY <1>5, Arms
    <2>2. h.grease.version \in Word
      BY GreaseValues DEF Fine, Word
    <2>3. Block(d) /\ d.len <= 7
      BY <2>2, VersionsBlock
    <2>4. n \in Nat /\ n < 1000 /\ d.len <= n
      BY <2>3
    <2> HIDE DEF x, d, n
    <2>5. x.len <= 4 + n
      BY <1>0, <1>5, <2>1, <2>3, <2>4, LengthAtMost
    <2> QED
      BY <1>5, <1>7, <2>5 DEF Weight, n, x, SUPPORTED_VERSIONS, SNI, KEY_SHARE
  <1>6. CASE id \in GREASE_VALUES \ {GREASE_SLOT_FIRST, GREASE_SLOT_LAST}
    <2>1. x = IF p.has_grease THEN AddExtension(id, Empty) ELSE Empty
      BY <1>6, Arms
    <2>2. id \in Word /\ id # SNI /\ id # KEY_SHARE
      BY <1>6, GreaseValues DEF Word
    <2> DEFINE n == 0
               d == Empty
    <2>3. Block(d) /\ d.len = 0 /\ n \in Nat /\ n < 1000 /\ d.len <= n
      BY EmptyBlock
    <2> HIDE DEF n, d
    <2>4. AddExtension(id, d).len <= 4 + n
      BY <2>2, <2>3, LengthAtMost
    <2>5. x.len = AddExtension(id, d).len \/ x.len = 0
      BY <2>1, <2>3 DEF d
    <2> HIDE DEF x
    <2>6. x.len <= 20
      <3>1. n = 0
        BY DEF n
      <3>2. CASE x.len = 0
        BY <3>2
      <3>3. CASE x.len = AddExtension(id, d).len
        <4>1. Block(AddExtension(id, d)) /\ AddExtension(id, d).len \in Nat
          <5>1. id \in Nat /\ id < 65536 /\ d.len < 65536
            BY <2>2, <2>3 DEF Word
          <5>2. /\ Block(AddExtension(id, d)) /\ AddExtension(id, d).len = 4 + d.len
                /\ Get(AddExtension(id, d), 0) = id
                /\ Get(AddExtension(id, d), 2) = d.len
                /\ Lies(AddExtension(id, d), 4, d)
            BY <2>3, <5>1, ExtensionBlock
          <5> QED
            BY <2>3, <5>2
        <4> QED
          BY <2>4, <3>1, <3>3, <4>1
      <3> QED
        BY <2>5, <3>2, <3>3
    <2> QED
      BY <2>2, <2>6 DEF Weight, x
  <1> QED
    BY <1>1, <1>2, <1>3, <1>4, <1>5, <1>6 DEF BusyIds

-----------------------------------------------------------------------------
(* How long the list is before padding. *)

\* Where one more id is seen.
LEMMA SeenNext ==
    ASSUME NEW order, NEW m \in Nat, Distinct(order, m), NEW k \in Nat, k + 1 <= m, NEW id
    PROVE  /\ order[k + 1] = id => ~Seen(order, k, id) /\ Seen(order, k + 1, id)
           /\ Seen(order, k, id) => Seen(order, k + 1, id)
  <1>1. k + 1 \in 1 .. m /\ k + 1 \in 1 .. (k + 1)
    OBVIOUS
  <1>2. ASSUME order[k + 1] = id, NEW j \in 1 .. k, order[j] = id PROVE FALSE
    <2>1. j \in 1 .. m /\ j # k + 1
      OBVIOUS
    <2> QED
      BY <1>1, <1>2, <2>1 DEF Distinct
  <1>3. 1 .. k \subseteq 1 .. (k + 1)
    OBVIOUS
  <1> QED
    BY <1>1, <1>2, <1>3 DEF Seen

\* There is room for the extension of one more.
LEMMA RoomNext ==
    ASSUME NEW order, NEW m \in Nat, Distinct(order, m), NEW k \in Nat, k + 1 <= m
    PROVE  /\ Room(order, k) \in Nat /\ Room(order, k + 1) \in Nat
           /\ Room(order, k) + Weight(order[k + 1]) <= Room(order, k + 1)
           /\ Room(order, k) <= 20 * k + 269
  <1> DEFINE id == order[k + 1]
             s == Seen(order, k, SNI)
             sn == Seen(order, k + 1, SNI)
             q == Seen(order, k, KEY_SHARE)
             qn == Seen(order, k + 1, KEY_SHARE)
  <1>1. /\ id = SNI => ~s /\ sn
        /\ s => sn
    BY SeenNext
  <1>2. /\ id = KEY_SHARE => ~q /\ qn
        /\ q => qn
    BY SeenNext
  <1>3. SNI # KEY_SHARE
    BY DEF SNI, KEY_SHARE
  <1> DEFINE a == Extra(order, k, SNI, 242)
             an == Extra(order, k + 1, SNI, 242)
             c == Extra(order, k, KEY_SHARE, 27)
             cn == Extra(order, k + 1, KEY_SHARE, 27)
  <1>4. /\ a \in {0, 242} /\ an \in {0, 242} /\ c \in {0, 27} /\ cn \in {0, 27}
        /\ a <= an /\ c <= cn
        /\ id = SNI => a = 0 /\ an = 242
        /\ id = KEY_SHARE => c = 0 /\ cn = 27
    BY <1>1, <1>2 DEF Extra
  <1>5. /\ Weight(id) = IF id = SNI THEN 262 ELSE IF id = KEY_SHARE THEN 47 ELSE 20
        /\ Room(order, k) = 20 * k + a + c /\ Room(order, k + 1) = 20 * (k + 1) + an + cn
    BY DEF Weight, Room
  <1> HIDE DEF id, a, an, c, cn
  <1>6. Room(order, k) \in Nat /\ Room(order, k + 1) \in Nat /\ Room(order, k) <= 20 * k + 269
    BY <1>4, <1>5
  <1>7. Room(order, k) + Weight(id) <= Room(order, k + 1)
    <2>1. CASE id = SNI
      BY <1>3, <1>4, <1>5, <2>1
    <2>2. CASE id = KEY_SHARE
      BY <1>3, <1>4, <1>5, <2>2
    <2>3. CASE id # SNI /\ id # KEY_SHARE
      BY <1>4, <1>5, <2>3
    <2> QED
      BY <2>1, <2>2, <2>3
  <1> QED
    BY <1>6, <1>7 DEF id

\* While the known ids are laid out, the list stays within the room of those it has seen.
LEMMA TurnsShort ==
    ASSUME NEW p, Listed(p), Padded(p), NEW h, Fine(h), NEW o \in Nat, NEW m \in Nat, NEW order, NEW v,
           Turns(v, p, h, o, order, m), Distinct(order, m), Busy(order, m)
    PROVE  \A k \in Nat : k < m => v[k].len <= Room(order, k)
  <1> DEFINE T == {k \in Nat : k < m => v[k].len <= Room(order, k)}
  <1>1. 0 \in T
    <2>1. v[0].len = 0
      BY EmptyBlock DEF Turns
    <2>2. ASSUME 0 < m PROVE v[0].len <= Room(order, 0)
      <3> DEFINE z == 0
      <3>1. z \in Nat /\ z + 1 <= m
        BY <2>2
      <3> HIDE DEF z
      <3>2. Room(order, z) \in Nat
        BY <3>1, RoomNext
      <3> QED
        BY <2>1, <3>2 DEF z
    <2> QED
      BY <2>2
  <1>2. ASSUME NEW k \in Nat, k \in T PROVE k + 1 \in T
    <2> SUFFICES ASSUME k + 1 < m PROVE v[k + 1].len <= Room(order, k + 1)
      OBVIOUS
    <2>1. k < m /\ k + 1 \in 1 .. m /\ (k + 1) - 1 = k /\ k + 1 <= m /\ k <= m
      OBVIOUS
    <2>2. v[k].len <= Room(order, k)
      BY <1>2, <2>1
    <2> HIDE DEF T
    <2> DEFINE id == order[k + 1]
               x == Extension(p, h, o, v[k], id)
    <2>3. v[k + 1] = Joined(v[k], x)
      BY <2>1 DEF Turns, Grown
    <2>4. Block(v[k])
      BY <2>1, TurnsBlock
    <2>5. id \in BusyIds
      BY <2>1 DEF Busy
    <2>6. x.len <= Weight(id)
      BY <2>4, <2>5, BusyLength
    <2>7. Block(x)
      <3>1. Shaped(p, h, id, x)
        BY <2>4, ExtensionShape
      <3> HIDE DEF x
      <3> QED
        BY <3>1, ShapedBlock
    <2> HIDE DEF x
    <2>8. v[k + 1].len = v[k].len + x.len
      <3>1. /\ Block(Joined(v[k], x)) /\ Joined(v[k], x).len = v[k].len + x.len
            /\ Lies(Joined(v[k], x), 0, v[k]) /\ Lies(Joined(v[k], x), v[k].len, x)
        BY <2>4, <2>7, Joined2
      <3> QED
        BY <2>3, <3>1
    <2>9. v[k].len \in Nat /\ x.len \in Nat
      BY <2>4, <2>7, BlockReads
    <2>10. /\ Room(order, k) \in Nat /\ Room(order, k + 1) \in Nat
           /\ Room(order, k) + Weight(order[k + 1]) <= Room(order, k + 1)
           /\ Room(order, k) <= 20 * k + 269
      BY <2>1, RoomNext
    <2>11. Weight(id) \in Nat
      BY DEF Weight
    <2> QED
      BY <2>2, <2>6, <2>8, <2>9, <2>10, <2>11
  <1> HIDE DEF T
  <1>3. Nat \subseteq T
    BY <1>1, <1>2, SetInduction
  <1> QED
    BY <1>3 DEF T

-----------------------------------------------------------------------------
(* Padding. *)

\* The shuffle leaves padding at the end, and the known ids in front of it.
LEMMA PaddedOrderKept ==
    ASSUME NEW m \in Nat, m >= 1, NEW s, NEW t, Reordered(s, t, m), PaddedOrder(t, m)
    PROVE  s[m] = PADDING /\ Distinct(s, m) /\ Busy(s, m)
  <1>1. /\ t[m] = PADDING
        /\ \A i \in 1 .. m : i < m => t[i] \in BusyIds
        /\ \A i, j \in 1 .. m : t[i] = t[j] => i = j
    BY DEF PaddedOrder
  <1>2. s[m] = t[m] /\ \A i \in 1 .. m : \E j \in 1 .. m : s[i] = t[j]
    BY DEF Reordered
  <1>3. Distinct(s, m)
    <2>1. \A i, j \in 1 .. m : s[i] = s[j] => i = j
      BY <1>1 DEF Reordered
    <2> QED
      BY <2>1 DEF Distinct
  <1>4. ASSUME NEW i \in 1 .. m, i < m PROVE s[i] \in BusyIds
    <2>1. PICK j \in 1 .. m : s[i] = t[j]
      BY <1>2
    <2>2. j # m
      <3>1. SUFFICES ASSUME j = m PROVE FALSE
        OBVIOUS
      <3>2. s[i] = s[m] /\ m \in 1 .. m
        BY <1>2, <2>1, <3>1
      <3>3. i = m
        BY <1>3, <3>2 DEF Distinct
      <3> QED
        BY <1>4, <3>3
    <2>3. j < m
      BY <2>2
    <2> QED
      BY <1>1, <2>1, <2>3
  <1> QED
    BY <1>1, <1>2, <1>3, <1>4 DEF Busy

\* Padding fills a hello up to its target: what is in front of it is short enough.
LEMMA PaddedHello ==
    ASSUME NEW p, NEW h, Hello(p, h), p.target_padding_len > 0
    PROVE  Extensions(p, h).len + Overhead(p, h.grease) = 512
  <1> DEFINE o == Overhead(p, h.grease)
             order == FinalOrder(p, h)
  <1>1. p \in BrowserProfiles /\ Fine(h) /\ (p.shuffle_extensions => h.rnd \in [1 .. 6 -> Nat])
    BY DEF Hello
  <1>2. Listed(p) /\ Padded(p)
    BY <1>1, ProfilesListed, PaddedProfiles
  <1>3. PICK n \in 3 .. 4 : WordSeq(OfferedSuites(p, h.grease), n) /\ o = 77 + 2 * n
    BY OfferedWords
  <1>4. o \in Nat /\ o <= 85
    BY <1>3
  <1> HIDE DEF o
  <1>5. PICK m \in 5 .. 20 : \E v :
              /\ ListOf(p.extension_order, m)
              /\ Reordered(order, p.extension_order, m)
              /\ Turns(v, p, h, o, order, m)
              /\ ApplyProfile(p, h, o) = v[m]
    BY <1>1, <1>4, ProfileTurns
  <1>6. PICK v :
              /\ ListOf(p.extension_order, m)
              /\ Reordered(order, p.extension_order, m)
              /\ Turns(v, p, h, o, order, m)
              /\ ApplyProfile(p, h, o) = v[m]
    BY <1>5
  <1> HIDE DEF order
  <1>7. m \in {7, 8} /\ PaddedOrder(p.extension_order, m)
    <2>1. PICK l \in {7, 8} : Len(p.extension_order) = l /\ PaddedOrder(p.extension_order, l)
      BY <1>2 DEF Padded
    <2>2. Len(p.extension_order) = m
      BY <1>6 DEF ListOf
    <2> QED
      BY <2>1, <2>2
  <1>8. m \in Nat /\ m >= 1
    OBVIOUS
  <1>9. order[m] = PADDING /\ Distinct(order, m) /\ Busy(order, m)
    BY <1>6, <1>7, <1>8, PaddedOrderKept
  <1> DEFINE k == m - 1
             s == v[k]
             x == Extension(p, h, o, s, PADDING)
  <1>10. k \in Nat /\ k < m /\ k <= 7 /\ k + 1 = m /\ m \in 1 .. m
    BY <1>7
  <1>11. s.len <= Room(order, k)
    <2> HIDE DEF k
    <2>1. \A j \in Nat : j < m => v[j].len <= Room(order, j)
      BY <1>1, <1>2, <1>4, <1>6, <1>8, <1>9, TurnsShort
    <2> QED
      BY <1>10, <2>1
  <1>12. Room(order, k) \in Nat /\ Room(order, k) <= 20 * k + 269
    <2> HIDE DEF k
    <2>1. k + 1 <= m
      BY <1>10
    <2>2. /\ Room(order, k) \in Nat /\ Room(order, k + 1) \in Nat
          /\ Room(order, k) + Weight(order[k + 1]) <= Room(order, k + 1)
          /\ Room(order, k) <= 20 * k + 269
      BY <1>8, <1>9, <1>10, <2>1, RoomNext
    <2> QED
      BY <2>2
  <1>13. Block(s)
    <2> HIDE DEF k
    <2>1. \A j \in Nat : j <= m => Block(v[j]) /\ v[j].len <= 2004 * j
      BY <1>1, <1>2, <1>4, <1>6, <1>8, TurnsBlock
    <2> QED
      BY <1>10, <2>1
  <1>14. s.len \in Nat
    BY <1>13, BlockReads
  <1>15. s.len + o + 4 < 512
    BY <1>4, <1>10, <1>11, <1>12, <1>14
  <1>16. v[m] = Joined(s, x)
    BY <1>6, <1>9, <1>10 DEF Turns, Grown
  <1>17. p.target_padding_len = 512
    BY <1>2 DEF Padded
  <1>18. x = PaddingExtension(s, 512, o)
    <2> HIDE DEF s
    <2>1. x = IF p.target_padding_len > 0 THEN PaddingExtension(s, p.target_padding_len, o) ELSE Empty
      BY Arms
    <2> HIDE DEF x
    <2> QED
      BY <1>17, <2>1
  <1> HIDE DEF s, x, k
  <1> DEFINE target == 512
  <1>19. target \in Nat /\ target < 1000
    OBVIOUS
  <1>20. target = 512
    OBVIOUS
  <1> HIDE DEF target
  <1>21. \/ x = Empty /\ target <= s.len + o + 4
         \/ /\ s.len + o + x.len = target
            /\ \E d : Block(d) /\ d.len < 2000 /\ x = AddExtension(PADDING, d)
    BY <1>4, <1>13, <1>18, <1>19, <1>20, PaddingBlock
  <1>22. s.len + o + x.len = target
    <2>1. ~(target <= s.len + o + 4)
      BY <1>4, <1>14, <1>15, <1>20
    <2> QED
      BY <1>21, <2>1
  <1>23. Joined(s, x).len = s.len + x.len
    BY DEF Joined
  <1>24. Block(x)
    <2>1. Shaped(p, h, PADDING, x)
      BY <1>1, <1>2, <1>4, <1>13, ExtensionShape DEF x
    <2> QED
      BY <2>1, ShapedBlock
  <1>25. x.len \in Nat
    BY <1>24, BlockReads
  <1>26. Extensions(p, h) = v[m]
    BY <1>6 DEF Extensions, o
  <1> QED
    BY <1>4, <1>14, <1>16, <1>20, <1>22, <1>23, <1>25, <1>26 DEF o

\* The first place where a record ends is the end of the first record.
LEMMA FirstMark ==
    ASSUME NEW s, NEW E, Framed(s, E), NEW r, FirstLies(s, r), E # {}
    PROVE  Min(E) = r.len /\ r.len = 5 + Get(r, 3) /\ r.len \in Nat
  <1>1. Block(r) /\ r.len = 5 + Get(r, 3) /\ Lies(s, 0, r)
    BY DEF FirstLies, IsRecord
  <1>2. Get(r, 3) \in Nat /\ r.len \in Nat
    BY <1>1, BlockReads
  <1>3. Get(s, 3) = Get(r, 3)
    <2> DEFINE z == 0
               three == 3
    <2>1. three \in Nat /\ three < r.len /\ Lies(s, z, r) /\ z + three = 3
      BY <1>1, <1>2
    <2> HIDE DEF z, three
    <2>2. Get(s, z + three) = Get(r, three)
      BY <2>1, LiesReads
    <2> QED
      BY <2>1, <2>2 DEF three
  <1>4. /\ \A n \in E : n \in Nat /\ 0 < n /\ n <= s.len
        /\ \A n \in {0} \cup E : n < s.len =>
               /\ n + 5 + Get(s, n + 3) \in E
               /\ \A k \in E : n < k => n + 5 + Get(s, n + 3) <= k
    BY DEF Framed
  <1>5. 0 < s.len
    <2>1. s.len \in Nat
      BY BlockReads DEF Framed
    <2> QED
      BY <1>4, <2>1
  <1>6. /\ 0 + 5 + Get(s, 0 + 3) \in E
        /\ \A k \in E : 0 < k => 0 + 5 + Get(s, 0 + 3) <= k
    BY <1>4, <1>5
  <1>7. 0 + 5 + Get(s, 0 + 3) = r.len
    BY <1>1, <1>2, <1>3
  <1>8. r.len \in E /\ \A k \in E : r.len <= k
    BY <1>4, <1>6, <1>7
  <1>9. E \in SUBSET Nat
    BY <1>4
  <1>10. Min(E) \in E /\ \A y \in E : Min(E) <= y
    BY <1>9, MinOfSet
  <1>11. Min(E) <= r.len /\ r.len <= Min(E) /\ Min(E) \in Nat
    BY <1>8, <1>9, <1>10
  <1> QED
    BY <1>1, <1>2, <1>11

\* A profile that pads makes a record whose payload has the target length, in every
\* order the shuffle can put the extensions, for every host and every GREASE draw.
THEOREM OpeningPaddedToTarget == Spec => []PaddedToTarget
  <1>1. ASSUME IInv, Ours, opener.profile.target_padding_len > 0
        PROVE  Min(ends["client"]) - RecordHeaderSize = opener.profile.target_padding_len
    <2> DEFINE p == opener.profile
               h == OurHello(opener)
               r == MakeClientHello(p, h)
               m == HelloPayload(p, h)
               b == HelloBody(p, h)
               E == ends["client"]
    <2>1. opener.kind = "ours" /\ E # {}
      BY <1>1 DEF Ours
    <2>2. Hello(p, h)
      BY <1>1, <2>1 DEF IInv, ClientGreets
    <2>3. FirstLies(stream["client"], r) /\ Framed(stream["client"], E)
      <3>1. FirstLies(stream["client"], First(opener, "client", heard["server"]))
        BY <1>1, <2>1, Peers DEF IInv, FirstWritten
      <3>2. First(opener, "client", heard["server"]) = r
        BY <2>1 DEF First
      <3>3. Framed(stream["client"], E)
        BY <1>1, Peers DEF IInv, StreamsFramed
      <3> QED
        BY <3>1, <3>2, <3>3
    <2>4. p.target_padding_len = 512
      <3>1. Padded(p)
        BY <1>1, <2>2, PaddedProfiles DEF Hello
      <3> QED
        BY <3>1 DEF Padded
    <2>5. p.target_padding_len > 0
      BY <1>1
    <2> HIDE DEF p, h, E
    <2>6. /\ Block(b) /\ Block(m) /\ m.len = 4 + b.len /\ Get(m, 0) = ClientType /\ Lies(m, 4, b)
          /\ IsRecord(r) /\ r.len = 5 + m.len
          /\ Get(r, 0) = Handshake /\ Get(r, 1) \in ProtocolVersions /\ Get(r, 3) = m.len
          /\ Lies(r, 5, m)
      BY <2>2, HelloRecordBlock
    <2>7. PICK n \in 3 .. 4 :
                 /\ WordSeq(OfferedSuites(p, h.grease), n)
                 /\ Overhead(p, h.grease) = 77 + 2 * n
                 /\ ClientFields(b, h.salt, SessionId(h), OfferedSuites(p, h.grease), n,
                                 Extensions(p, h))
      BY <2>2, HelloFields
    <2> HIDE DEF r, m, b
    <2>8. b.len = 73 + 2 * n + Extensions(p, h).len
      BY <2>7 DEF ClientFields
    <2>9. Extensions(p, h).len + Overhead(p, h.grease) = 512
      BY <2>2, <2>5, PaddedHello
    <2>10. Min(E) = r.len /\ r.len \in Nat
      BY <2>1, <2>3, FirstMark
    <2>11. Extensions(p, h).len \in Nat
      <3>1. Block(Extensions(p, h))
        BY <2>2, HelloFields
      <3> QED
        BY <3>1, BlockReads
    <2> DEFINE e == Extensions(p, h).len
               w == Overhead(p, h.grease)
    <2>12. e \in Nat /\ w = 77 + 2 * n /\ e + w = 512 /\ b.len = 73 + 2 * n + e
      BY <2>7, <2>8, <2>9, <2>11
    <2> HIDE DEF e, w
    <2>13. r.len = 517
      BY <2>6, <2>12
    <2> QED
      BY <2>4, <2>10, <2>13 DEF RecordHeaderSize, E, p
  <1>2. IInv => PaddedToTarget
    BY <1>1 DEF PaddedToTarget
  <1> QED
    BY <1>2, OpeningInvariant, PTL

=============================================================================
