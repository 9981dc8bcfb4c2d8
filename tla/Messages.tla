------------------------------ MODULE Messages ------------------------------
(***************************************************************************)
(* The handshake messages of src/handshake/ and the alerts of src/alert.rs *)
(* as bytes: how the client parses the server's and encodes its own.  A    *)
(* parsed message is a record of its type and what the client keeps of it. *)
(***************************************************************************)
EXTENDS Extensions

HandshakeType ==
  [ClientHello |-> 1, ServerHello |-> 2, NewSessionTicket |-> 4, EndOfEarlyData |-> 5,
   EncryptedExtensions |-> 8, Certificate |-> 11, CertificateRequest |-> 13,
   CertificateVerify |-> 15, Finished |-> 20, KeyUpdate |-> 24, MessageHash |-> 254]

CipherSuite ==
  [TlsAes128GcmSha256 |-> 4865, TlsAes256GcmSha384 |-> 4866, TlsChacha20Poly1305Sha256 |-> 4867,
   TlsAes128CcmSha256 |-> 4868, TlsAes128Ccm8Sha256 |-> 4869, TlsPskAes128GcmSha256 |-> 168]

ContentType ==
  [Invalid |-> 0, ChangeCipherSpec |-> 20, Alert |-> 21, Handshake |-> 22, ApplicationData |-> 23]

AlertDescription ==
  [CloseNotify |-> 0, UnexpectedMessage |-> 10, BadRecordMac |-> 20, RecordOverflow |-> 22,
   HandshakeFailure |-> 40, BadCertificate |-> 42, UnsupportedCertificate |-> 43,
   CertificateRevoked |-> 44, CertificateExpired |-> 45, CertificateUnknown |-> 46,
   IllegalParameter |-> 47, UnknownCa |-> 48, AccessDenied |-> 49, DecodeError |-> 50,
   DecryptError |-> 51, ProtocolVersion |-> 70, InsufficientSecurity |-> 71, InternalError |-> 80,
   InappropriateFallback |-> 86, UserCanceled |-> 90, MissingExtension |-> 109,
   UnsupportedExtension |-> 110, UnrecognizedName |-> 112, BadCertificateStatusResponse |-> 113,
   UnknownPskIdentity |-> 115, CertificateRequired |-> 116, NoApplicationProtocol |-> 120]
-----------------------------------------------------------------------------
(* The bodies.  None looks at the length in the handshake header: a message
   ends where its last field does. *)

ServerHello_parse(b, p) ==
  Then(map_err(read_u16(b, p), "InvalidHandshake"), LAMBDA version, p1 :
    Then(slice(b, p1, 32), LAMBDA random, p2 :
      Then(map_err(opaque8(b, p2), "InvalidSessionIdLength"), LAMBDA session_id, p3 :
        Then(map_err(ByCode(CipherSuite, read_u16(b, p3)), "InvalidCipherSuite"), LAMBDA suite, p4 :
          Then(read_u8(b, p4), LAMBDA compression, p5 :
            Then(parse_vector("ServerHello", 4, b, p5), LAMBDA exts, end :
              LET shares == SelectSeq(exts, LAMBDA e : e.type = "KeyShare")
              IN  Ok([type |-> "ServerHello",
                      key_share |-> IF shares = <<>> THEN <<>> ELSE <<shares[1].data>>], end)))))))

EncryptedExtensions_parse(b, p) ==
  Then(parse_vector("EncryptedExtensions", 16, b, p), LAMBDA exts, end :
    Ok([type |-> "EncryptedExtensions"], end))

CertificateRequestRef_parse(b, p) ==
  Then(map_err(opaque8(b, p), "InvalidCertificateRequest"), LAMBDA context, q :
    Then(parse_vector("CertificateRequest", 6, b, q), LAMBDA exts, end :
      Ok([type |-> "CertificateRequest", request_context |-> context], end)))

opaque24(b, p) == Then(read_u24(b, p), LAMBDA n, q : slice(b, q, n))

CertificateEntryRef_parse(b, p) ==
  Then(map_err(opaque24(b, p), "InvalidCertificateEntry"), LAMBDA cert, q :
    Then(parse_vector("Certificate", 2, b, q), LAMBDA exts, end : Ok(cert, end)))

CertificateRef_parse(b, p) ==
  Then(map_err(opaque8(b, p), "InvalidCertificate"), LAMBDA context, q :
    Then(map_err(opaque24(b, q), "InvalidCertificate"), LAMBDA raw_entries, end :
      Then(read_all(raw_entries, 16, CertificateEntryRef_parse, "DecodeError"), LAMBDA entries, r :
        Ok([type |-> "Certificate", request_context |-> context, entries |-> entries], end))))

CertificateVerifyRef_parse(b, p) ==
  Then(map_err(SignatureScheme_parse(b, p), "InvalidSignatureScheme"), LAMBDA scheme, q :
    Then(map_err(opaque16(b, q), "InvalidSignature"), LAMBDA signature, end :
      Ok([type |-> "CertificateVerify", scheme |-> scheme, signature |-> signature], end)))

Finished_parse(b, p, hash_size) ==
  Then(slice(b, p, hash_size), LAMBDA verify, end : Ok([type |-> "Finished", verify |-> verify], end))

NewSessionTicket_parse(b, p) ==
  Then(read_u32(b, p), LAMBDA lifetime, p1 :
    Then(read_u32(b, p1), LAMBDA age_add, p2 :
      Then(read_u8(b, p2), LAMBDA nonce_length, p3 :
        Then(map_err(slice(b, p3, nonce_length), "InvalidNonceLength"), LAMBDA nonce, p4 :
          Then(read_u16(b, p4), LAMBDA ticket_length, p5 :
            Then(map_err(slice(b, p5, ticket_length), "InvalidTicketLength"), LAMBDA ticket, p6 :
              Then(parse_vector("NewSessionTicket", 1, b, p6), LAMBDA exts, end :
                Ok([type |-> "NewSessionTicket"], end))))))))

(* ServerHandshake::parse. *)
ServerHandshake_parse(b, p, hash_size) ==
  Then(map_err(ByCode(HandshakeType, read_u8(b, p)), "InvalidHandshake"), LAMBDA t, p1 :
    Then(map_err(read_u24(b, p1), "InvalidHandshake"), LAMBDA content_len, q :
      CASE t = "ServerHello"         -> ServerHello_parse(b, q)
        [] t = "NewSessionTicket"    -> NewSessionTicket_parse(b, q)
        [] t = "EncryptedExtensions" -> EncryptedExtensions_parse(b, q)
        [] t = "Certificate"         -> CertificateRef_parse(b, q)
        [] t = "CertificateRequest"  -> CertificateRequestRef_parse(b, q)
        [] t = "CertificateVerify"   -> CertificateVerifyRef_parse(b, q)
        [] t = "Finished"            -> Finished_parse(b, q, hash_size)
        [] OTHER                     -> Err("Unimplemented", q)))

(* Alert::parse: both bytes are read before either is looked up. *)
Alert_parse(b) ==
  Then(read_u8(b, 0), LAMBDA level, p :
    Then(read_u8(b, p), LAMBDA desc, q :
      IF level \in {1, 2} THEN map_err(ByCode(AlertDescription, Ok(desc, q)), "DecodeError")
      ELSE Err("DecodeError", q)))
-----------------------------------------------------------------------------
(* The client's own messages after its hello. *)

CertificateEntryRef_encode(cert) == with_u24_length(cert) \o push_u16(0)

CertificateRef_encode(context, entries) ==
  with_u8_length(context) \o with_u24_length(EncodeEach(entries, CertificateEntryRef_encode))

CertificateVerify_encode(scheme, signature) ==
  push_u16(SignatureScheme[scheme]) \o with_u16_length(signature)

Finished_encode(verify) == verify

(* ClientHandshake::encode around one of them. *)
ClientHandshake_encode(t, body) == push(HandshakeType[t]) \o with_u24_length(body)
=============================================================================
