-------------------------------- MODULE Decoy -------------------------------
(***************************************************************************)
(* What a node passes for (tlseng/decoy.rs): the catalogue of its domains, *)
(* through which every SNI goes, and the lengths of the records that       *)
(* imitate the certificate flight of a TLS server.                         *)
(*                                                                         *)
(* A host is [name, len, kind, spelling]: the name it comes to, its length *)
(* after trimming, whether it is a hostname, an IP address or neither, and *)
(* how it was typed ("plain" when lower case without blanks or end dots).  *)
(***************************************************************************)
EXTENDS Integers, Sequences, SequencesExt

MaxHostLen == 253

\* trim, trim_end_matches('.') and to_ascii_lowercase.
Normalised(host) == [host EXCEPT !.spelling = "plain"]

\* DecoyCatalog::from_list; sorting and removal of duplicates make it a set.
FromList(list) == {host \in {Normalised(d) : d \in list} : host.len > 0}

\* DecoyCatalog::validate: "Ok", or the DecoyError.
Validate(catalog, sni) ==
    LET host == Normalised(sni)
    IN  IF host.len = 0 THEN "Empty"
        ELSE IF host.len > MaxHostLen THEN "TooLong"
        ELSE IF host.kind = "ip" THEN "IpLiteral"
        ELSE IF host.kind # "name" THEN "BadSyntax"
        ELSE IF host \notin catalog THEN "NotOwned"
        ELSE "Ok"

-----------------------------------------------------------------------------
SEALED == 17

\* CoverFlight::from_chain: EncryptedExtensions, Certificate, CertificateVerify
\* and Finished.
FromChain(cert_der_lens, signature_len, hash_len) ==
    <<4 + 2 + 7 + SEALED,
      4 + 1 + 3 + FoldLeft(LAMBDA sum, l : sum + 3 + l + 2, 0, cert_der_lens) + SEALED,
      4 + 2 + 2 + signature_len + SEALED,
      4 + hash_len + SEALED>>

NodeDefault == FromChain(<<1250, 1100>>, 72, 32)

\* The record length encode_cover makes of one it is asked for: a frame header and
\* an AEAD tag at least, MAX_RECORD_LEN at most.
EmptyCoverRecord == 25 + 16
MaxRecordLen == 16385 + 16

CoverRecordLen(target) == Max({EmptyCoverRecord, Min({target, MaxRecordLen})})

=============================================================================
