----------------------------- MODULE Extensions -----------------------------
(***************************************************************************)
(* The extensions of src/extensions/: how the client encodes the ones it   *)
(* offers, and how the ones of every message are parsed.  An extension is  *)
(* a record [type, data].                                                  *)
(***************************************************************************)
EXTENDS CryptoBuffer, ParseBuffer, SequencesExt

ExtensionType ==
  [ServerName |-> 0, MaxFragmentLength |-> 1, StatusRequest |-> 5, SupportedGroups |-> 10,
   SignatureAlgorithms |-> 13, UseSrtp |-> 14, Heartbeat |-> 15,
   ApplicationLayerProtocolNegotiation |-> 16, SignedCertificateTimestamp |-> 18,
   ClientCertificateType |-> 19, ServerCertificateType |-> 20, Padding |-> 21,
   CompressCertificate |-> 27, PreSharedKey |-> 41, EarlyData |-> 42, SupportedVersions |-> 43,
   Cookie |-> 44, PskKeyExchangeModes |-> 45, CertificateAuthorities |-> 47, OidFilters |-> 48,
   PostHandshakeAuth |-> 49, SignatureAlgorithmsCert |-> 50, KeyShare |-> 51]

SignatureScheme ==
  [RsaPkcs1Sha256 |-> 1025, RsaPkcs1Sha384 |-> 1281, RsaPkcs1Sha512 |-> 1537,
   EcdsaSecp256r1Sha256 |-> 1027, EcdsaSecp384r1Sha384 |-> 1283, EcdsaSecp521r1Sha512 |-> 1539,
   RsaPssRsaeSha256 |-> 2052, RsaPssRsaeSha384 |-> 2053, RsaPssRsaeSha512 |-> 2054,
   Ed25519 |-> 2055, Ed448 |-> 2056,
   RsaPssPssSha256 |-> 2057, RsaPssPssSha384 |-> 2058, RsaPssPssSha512 |-> 2059,
   Sha224Ecdsa |-> 771, Sha224Rsa |-> 769, Sha224Dsa |-> 770,
   RsaPkcs1Sha1 |-> 513, EcdsaSha1 |-> 515,
   Sha256BrainpoolP256r1 |-> 2074, Sha384BrainpoolP384r1 |-> 2075, Sha512BrainpoolP512r1 |-> 2076,
   MlDsa44 |-> 2308, MlDsa65 |-> 2309, MlDsa87 |-> 2310]

NamedGroup ==
  [Secp256r1 |-> 23, Secp384r1 |-> 24, Secp521r1 |-> 25, X25519 |-> 29, X448 |-> 30,
   Ffdhe2048 |-> 256, Ffdhe3072 |-> 257, Ffdhe4096 |-> 258, Ffdhe6144 |-> 259, Ffdhe8192 |-> 260,
   SecP256r1MLKEM768 |-> 4587, X25519MLKEM768 |-> 4588, SecP384r1MLKEM1024 |-> 4589]

(* The match arms of a parse function: the name with code n, if there is one. *)
ByCode(codes, r) ==
  Then(r, LAMBDA n, q :
    IF \E name \in DOMAIN codes : codes[name] = n
    THEN Ok(CHOOSE name \in DOMAIN codes : codes[name] = n, q)
    ELSE Err("InvalidData", q))

SignatureScheme_parse(b, p) == ByCode(SignatureScheme, read_u16(b, p))
NamedGroup_parse(b, p) == ByCode(NamedGroup, read_u16(b, p))
-----------------------------------------------------------------------------
(* Extension data, encoded. *)

EncodeEach(seq, Encode(_)) == FlattenSeq([i \in DOMAIN seq |-> Encode(seq[i])])

ServerNameList_encode(names) ==
  with_u16_length(EncodeEach(names, LAMBDA name : push(0) \o with_u16_length(name)))

SupportedVersionsClientHello_encode(versions) == with_u8_length(EncodeEach(versions, push_u16))

SignatureAlgorithms_encode(schemes) ==
  with_u16_length(EncodeEach(schemes, LAMBDA s : push_u16(SignatureScheme[s])))

SupportedGroups_encode(groups) ==
  with_u16_length(EncodeEach(groups, LAMBDA g : push_u16(NamedGroup[g])))

MaxFragmentLength == [Bits9 |-> 1, Bits10 |-> 2, Bits11 |-> 3, Bits12 |-> 4]

PskKeyExchangeMode == [PskKe |-> 0, PskDheKe |-> 1]

PskKeyExchangeModes_encode(modes) ==
  with_u8_length(EncodeEach(modes, LAMBDA m : push(PskKeyExchangeMode[m])))

KeyShareEntry_encode(entry) == push_u16(NamedGroup[entry.group]) \o with_u16_length(entry.opaque)

KeyShareClientHello_encode(shares) == with_u16_length(EncodeEach(shares, KeyShareEntry_encode))

(* The length of a protocol name is cast to one byte. *)
AlpnProtocolNameList_encode(protocols) ==
  with_u16_length(EncodeEach(protocols, LAMBDA name : push(Len(name)) \o name))

Zeros(n) == [i \in 1 .. n |-> 0]

(* Every identity with a ticket age of 0, and room for the binders. *)
PreSharedKeyClientHello_encode(identities, hash_size) ==
  LET binders_len == (1 + hash_size) * Len(identities)
  IN  with_u16_length(EncodeEach(identities, LAMBDA id : with_u16_length(id) \o push_u32(0)))
        \o push_u16(binders_len) \o Zeros(binders_len)

encode_data(e, hash_size) ==
  CASE e.type = "ServerName"          -> ServerNameList_encode(e.data)
    [] e.type = "SupportedVersions"   -> SupportedVersionsClientHello_encode(e.data)
    [] e.type = "SignatureAlgorithms" -> SignatureAlgorithms_encode(e.data)
    [] e.type = "SupportedGroups"     -> SupportedGroups_encode(e.data)
    [] e.type = "MaxFragmentLength"   -> push(MaxFragmentLength[e.data])
    [] e.type = "PskKeyExchangeModes" -> PskKeyExchangeModes_encode(e.data)
    [] e.type = "KeyShare"            -> KeyShareClientHello_encode(e.data)
    [] e.type = "PreSharedKey"        -> PreSharedKeyClientHello_encode(e.data, hash_size)
    [] e.type = "ApplicationLayerProtocolNegotiation" -> AlpnProtocolNameList_encode(e.data)

Extension_encode(e, hash_size) ==
  push_u16(ExtensionType[e.type]) \o with_u16_length(encode_data(e, hash_size))
-----------------------------------------------------------------------------
(* Extension data, parsed.  d is the extension's own slice, and bytes that a
   parse function leaves unread are ignored. *)

(* A list with its own 8- or 16-bit length, of at most N elements. *)
list8(d, N, Read(_, _)) == Then(read_u8(d, 0), LAMBDA n, p : read_list(d, p, n, N, Read))
list16(d, N, Read(_, _)) == Then(read_u16(d, 0), LAMBDA n, p : read_list(d, p, n, N, Read))

opaque8(b, p) == Then(read_u8(b, p), LAMBDA n, q : slice(b, q, n))
opaque16(b, p) == Then(read_u16(b, p), LAMBDA n, q : slice(b, q, n))

is_ascii(name) == \A i \in DOMAIN name : name[i] < 128

ServerName_parse(b, p) ==
  Then(read_u8(b, p), LAMBDA name_type, q :
    IF name_type # 0 THEN Err("InvalidData", q)
    ELSE Then(opaque16(b, q), LAMBDA name, r :
           IF is_ascii(name) THEN Ok(name, r) ELSE Err("InvalidData", r)))

ServerNameResponse_parse(d) == IF d = <<>> THEN Ok(<<>>, 0) ELSE Err("InvalidData", 0)

KeyShareEntry_parse(b, p) ==
  Then(NamedGroup_parse(b, p), LAMBDA group, q :
    Then(opaque16(b, q), LAMBDA opaque, r : Ok([group |-> group, opaque |-> opaque], r)))

(* Only checks the format: the names are not kept. *)
AlpnProtocolNameList_parse(d) ==
  LET name(b, p) == Then(read_u8(b, p), LAMBDA n, q :
                      IF n = 0 THEN Err("InvalidData", q) ELSE slice(b, q, n))
  IN  Then(list16(d, Len(d), name), LAMBDA names, p : Ok(<<>>, p))

(* The extension types of a message and how many extensions it may have. *)
Groups ==
  [ClientHello |-> DOMAIN ExtensionType \ {"CompressCertificate"},
   ServerHello |-> {"KeyShare", "PreSharedKey", "Cookie", "SupportedVersions"},
   EncryptedExtensions |-> {"ServerName", "MaxFragmentLength", "SupportedGroups", "UseSrtp", "Heartbeat",
                            "ApplicationLayerProtocolNegotiation", "ClientCertificateType",
                            "ServerCertificateType", "EarlyData"},
   CertificateRequest |-> {"StatusRequest", "SignatureAlgorithms", "SignedCertificateTimestamp",
                           "CertificateAuthorities", "OidFilters", "SignatureAlgorithmsCert",
                           "CompressCertificate"},
   Certificate |-> {"StatusRequest", "SignedCertificateTimestamp"},
   NewSessionTicket |-> {"EarlyData"}]

(* parse of the data type that the group gives an extension; the others are
   Unimplemented, which keeps the bytes. *)
parse_data(group, t, d) ==
  CASE t = "ServerName" /\ group = "ClientHello" -> list16(d, 1, ServerName_parse)
    [] t = "ServerName"                          -> ServerNameResponse_parse(d)
    [] t = "SupportedVersions" /\ group = "ClientHello" -> list8(d, 1, read_u16)
    [] t = "SupportedVersions"                   -> read_u16(d, 0)
    [] t = "SignatureAlgorithms"                 -> list16(d, 25, SignatureScheme_parse)
    [] t = "SignatureAlgorithmsCert" /\ group = "ClientHello" -> list16(d, 25, SignatureScheme_parse)
    [] t = "SupportedGroups"                     -> list16(d, 13, NamedGroup_parse)
    [] t = "MaxFragmentLength"                   -> ByCode(MaxFragmentLength, read_u8(d, 0))
    [] t = "PskKeyExchangeModes" ->
         list8(d, 4, LAMBDA b, p : ByCode(PskKeyExchangeMode, read_u8(b, p)))
    [] t = "KeyShare" /\ group = "ClientHello"   -> list16(d, 1, KeyShareEntry_parse)
    [] t = "KeyShare"                            -> KeyShareEntry_parse(d, 0)
    [] t = "PreSharedKey" /\ group = "ClientHello" -> Err("Panic", 0)
    [] t = "PreSharedKey"                        -> read_u16(d, 0)
    [] t = "ApplicationLayerProtocolNegotiation" -> AlpnProtocolNameList_parse(d)
    [] OTHER                                     -> Ok(d, 0)

(* One extension.  Its data is skipped before its type is looked at. *)
Extension_parse(group, b, p) ==
  Then(map_err(read_u16(b, p), "DecodeError"), LAMBDA code, q :
    Then(map_err(opaque16(b, q), "DecodeError"), LAMBDA d, r :
      Match(ByCode(ExtensionType, Ok(code, q)), LAMBDA t :
        IF ~is_ok(t) THEN Err("UnknownExtensionType", r)
        ELSE IF t.val \notin Groups[group] THEN Err("AbortHandshake", r)
        ELSE Match(parse_data(group, t.val, d), LAMBDA data :
               IF is_ok(data) THEN Ok([type |-> t.val, data |-> data.val], r)
               ELSE IF data.err = "Panic" THEN data ELSE Err("DecodeError", r)))))

(* Mutant: an unknown extension ends the handshake. *)
parse_vector_Strict(group, N, b, p) ==
  Then(map_err(read_u16(b, p), "InvalidExtensionsLength"), LAMBDA n, q :
    Then(slice(b, q, n), LAMBDA d, end :
      Then(read_all(d, N, LAMBDA x, y : Extension_parse(group, x, y), "DecodeError"), LAMBDA found, r :
        Ok(found, end))))

(* All extensions of a message, at most N of the known ones. *)
parse_vector(group, N, b, p) ==
  LET RECURSIVE Loop(_, _, _)
      Loop(d, q, found) ==
        IF q = Len(d) THEN Ok(found, q)
        ELSE Match(Extension_parse(group, d, q), LAMBDA e :
               CASE e.err = "UnknownExtensionType" -> Loop(d, e.pos, found)
                 [] is_ok(e) /\ Len(found) = N     -> Err("DecodeError", e.pos)
                 [] is_ok(e) /\ Len(found) < N     -> Loop(d, e.pos, Append(found, e.val))
                 [] OTHER                          -> e)
  IN  Then(map_err(read_u16(b, p), "InvalidExtensionsLength"), LAMBDA n, q :
        Then(slice(b, q, n), LAMBDA d, end :
          Then(Loop(d, 0, <<>>), LAMBDA found, r : Ok(found, end))))
=============================================================================
