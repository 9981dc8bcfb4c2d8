---------------------------- MODULE ClientHello ----------------------------
(***************************************************************************)
(* The client's first message, byte by byte: TlsConfig and its builder     *)
(* methods (src/config.rs), ClientHello::encode and finalize               *)
(* (src/handshake/client_hello.rs), and the record that write_record puts  *)
(* around it (src/write_buffer.rs, src/record.rs).                         *)
(*                                                                         *)
(* An Option is a sequence of at most one element.  Random, key share and  *)
(* the verify bytes of a binder are opaque; what a binder was computed     *)
(* over is kept in binders.                                                *)
(***************************************************************************)
EXTENDS Extensions, WriteBuffer

CONSTANTS
  ServerNames,    \* the host names that with_server_name may be given
  AlpnLists,      \* the protocol lists that with_alpn may be given
  IdentityLists,  \* the identities that with_psk may be given
  MaxCalls        \* bound: builder calls before open()

VARIABLES
  build,       \* [alloc, hash_size]: the features and the cipher suite
  config,      \* the TlsConfig
  calls,       \* builder calls so far
  pc,          \* "building", "opened", or "panic"
  res,         \* what write_record returned
  wire,        \* the bytes of the record
  transcript,  \* the bytes that the transcript hash took
  binders      \* for every binder, what the transcript held when it was made

vars == <<build, config, calls, pc, res, wire, transcript, binders>>

(* The capacities of TlsConfig's vectors. *)
MAX_SCHEMES == 25
MAX_IDENTITIES == 4

RsaSchemes ==
  <<"RsaPkcs1Sha256", "RsaPkcs1Sha384", "RsaPkcs1Sha512",
    "RsaPssRsaeSha256", "RsaPssRsaeSha384", "RsaPssRsaeSha512">>

new(alloc) ==
  [signature_schemes   |-> (IF alloc THEN RsaSchemes ELSE <<>>)
                             \o <<"EcdsaSecp256r1Sha256", "EcdsaSecp384r1Sha384", "Ed25519">>,
   named_groups        |-> <<"Secp256r1">>,
   max_fragment_length |-> <<>>,
   psk                 |-> <<>>,
   server_name         |-> <<>>,
   alpn_protocols      |-> <<>>]

Init ==
  /\ build \in [alloc : BOOLEAN, hash_size : {32, 48}]
  /\ config = new(build.alloc)
  /\ calls = 0
  /\ pc = "building" /\ res = "Ok"
  /\ wire = <<>> /\ transcript = <<>> /\ binders = <<>>
-----------------------------------------------------------------------------
(* The builder methods.  A push into a full vector is unwrapped. *)

Building == pc = "building" /\ calls < MaxCalls

Configure(c) ==
  /\ Building
  /\ config' = c
  /\ calls' = calls + 1
  /\ UNCHANGED <<build, pc, res, wire, transcript, binders>>

BuilderPanics ==
  /\ Building
  /\ pc' = "panic" /\ res' = "Panic"
  /\ UNCHANGED <<build, config, calls, wire, transcript, binders>>

enable_rsa_signatures ==
  LET schemes == config.signature_schemes \o RsaSchemes
  IN  IF Len(schemes) <= MAX_SCHEMES
      THEN Configure([config EXCEPT !.signature_schemes = schemes])
      ELSE BuilderPanics

with_server_name == \E name \in ServerNames : Configure([config EXCEPT !.server_name = <<name>>])

with_alpn == \E protocols \in AlpnLists : Configure([config EXCEPT !.alpn_protocols = <<protocols>>])

with_max_fragment_length ==
  \E bits \in DOMAIN MaxFragmentLength : Configure([config EXCEPT !.max_fragment_length = <<bits>>])

reset_max_fragment_length == Configure([config EXCEPT !.max_fragment_length = <<>>])

with_psk ==
  \E identities \in IdentityLists :
    IF Len(identities) <= MAX_IDENTITIES
    THEN Configure([config EXCEPT !.psk = <<identities>>])
    ELSE BuilderPanics
-----------------------------------------------------------------------------
(* ClientHello::encode. *)

Random == [i \in 1 .. 32 |-> 170]
PublicKey == [i \in 1 .. 65 |-> 4]

CODE_POINT == IF build.hash_size = 32 THEN 4865 ELSE 4866

Ext(t, data) == [type |-> t, data |-> data]

(* An extension that goes out only if its part of the configuration is set. *)
IfSome(t, option, Data(_)) == [i \in DOMAIN option |-> Ext(t, Data(option[i]))]

Same(x) == x

(* Mutant: pre_shared_key goes out before the protocol names. *)
Offered_PskEarly(c) ==
  <<Ext("SupportedVersions", <<772>>), Ext("SignatureAlgorithms", c.signature_schemes)>>
    \o IfSome("MaxFragmentLength", c.max_fragment_length, Same)
    \o <<Ext("SupportedGroups", c.named_groups), Ext("PskKeyExchangeModes", <<"PskDheKe">>),
         Ext("KeyShare", <<[group |-> "Secp256r1", opaque |-> PublicKey]>>)>>
    \o IfSome("ServerName", c.server_name, LAMBDA name : <<name>>)
    \o IfSome("PreSharedKey", c.psk, Same)
    \o IfSome("ApplicationLayerProtocolNegotiation", c.alpn_protocols, Same)

(* The extensions, in the order they are written. *)
Offered(c) ==
  <<Ext("SupportedVersions", <<772>>), Ext("SignatureAlgorithms", c.signature_schemes)>>
    \o IfSome("MaxFragmentLength", c.max_fragment_length, Same)
    \o <<Ext("SupportedGroups", c.named_groups), Ext("PskKeyExchangeModes", <<"PskDheKe">>),
         Ext("KeyShare", <<[group |-> "Secp256r1", opaque |-> PublicKey]>>)>>
    \o IfSome("ServerName", c.server_name, LAMBDA name : <<name>>)
    \o IfSome("ApplicationLayerProtocolNegotiation", c.alpn_protocols, Same)
    \o IfSome("PreSharedKey", c.psk, Same)

encode(c) ==
  push_u16(771) \o Random \o push(0) \o push_u16(2) \o push_u16(CODE_POINT) \o push(1) \o push(0)
    \o with_u16_length(EncodeEach(Offered(c), LAMBDA e : Extension_encode(e, build.hash_size)))

(* ClientHandshake::encode: the handshake header in front. *)
Handshake_encode(c) == push(1) \o with_u24_length(encode(c))

(* PskBinder::encode; the verify bytes are not modelled further. *)
Binder == with_u8_length([i \in 1 .. build.hash_size |-> 187])

(* Mutant: the length of the binders list is hashed with the identities. *)
finalize_HashesLength(buf, identities) ==
  LET binders_len == Len(identities) * (1 + build.hash_size)
      binders_pos == Len(buf) - binders_len
      hashed      == SubSeq(buf, 1, binders_pos)
      filled      == SubSeq(buf, 1, binders_pos) \o EncodeEach(identities, LAMBDA id : Binder)
  IN  [buf |-> filled, binders |-> [i \in DOMAIN identities |-> hashed],
       transcript |-> hashed \o SubSeq(filled, binders_pos + 1, Len(buf))]

(* Mutant: the transcript takes the message as it was before the binders. *)
finalize_HashesZeros(buf, identities) ==
  LET binders_len == Len(identities) * (1 + build.hash_size)
      binders_pos == Len(buf) - binders_len
      hashed      == SubSeq(buf, 1, binders_pos - 2)
      filled      == SubSeq(buf, 1, binders_pos) \o EncodeEach(identities, LAMBDA id : Binder)
  IN  [buf |-> filled, binders |-> [i \in DOMAIN identities |-> hashed], transcript |-> buf]

(* finalize with a pre-shared key: the binders are written behind the rest of
   the message, computed over all of it but their own list. *)
finalize(buf, identities) ==
  LET binders_len == Len(identities) * (1 + build.hash_size)
      binders_pos == Len(buf) - binders_len
      hashed      == SubSeq(buf, 1, binders_pos - 2)
      filled      == SubSeq(buf, 1, binders_pos) \o EncodeEach(identities, LAMBDA id : Binder)
  IN  [buf |-> filled, binders |-> [i \in DOMAIN identities |-> hashed],
       transcript |-> hashed \o SubSeq(filled, binders_pos - 1, Len(buf))]

Finalized(c) ==
  LET buf == Handshake_encode(c)
  IN  IF c.psk # <<>> THEN finalize(buf, c.psk[1])
      ELSE [buf |-> buf, binders |-> <<>>, transcript |-> buf]

(* client_hello and write_record: the record header has version 3.1, and its
   length is filled in by close_record. *)
Open ==
  /\ pc = "building"
  /\ LET buf  == Handshake_encode(config)
         done == Finalized(config)
         r    == write_record(EmptyBuffer, "HandshakePlain", Len(buf))
     IN  /\ res' = r.res
         /\ IF r.res = "Ok"
            THEN /\ wire' = push(22) \o <<3, 1>> \o push_u16(RecordLength(r.len)) \o done.buf
                 /\ transcript' = done.transcript
                 /\ binders' = done.binders
            ELSE UNCHANGED <<wire, transcript, binders>>
  /\ pc' = "opened"
  /\ UNCHANGED <<build, config, calls>>

Next ==
  \/ enable_rsa_signatures \/ with_server_name \/ with_alpn
  \/ with_max_fragment_length \/ reset_max_fragment_length \/ with_psk
  \/ Open

Spec == Init /\ [][Next]_vars
-----------------------------------------------------------------------------
(* A peer that reads the message: it knows the format, not the code above. *)

Message == SubSeq(wire, HEADER_SIZE + 1, Len(wire))

(* The extensions field; the cursor is behind it. *)
ExtensionsField(msg) ==
  Then(slice(msg, 4, 34), LAMBDA fixed, p :
    Then(opaque8(msg, p), LAMBDA session_id, q :
      Then(opaque16(msg, q), LAMBDA suites, r :
        Then(opaque8(msg, r), LAMBDA compression, s : opaque16(msg, s)))))

RawExtension(b, p) ==
  Then(read_u16(b, p), LAMBDA code, q :
    Then(opaque16(b, q), LAMBDA d, end : Ok([code |-> code, data |-> d], end)))

RawExtensions(msg) ==
  LET field == ExtensionsField(msg).val
  IN  read_all(field, Len(field), RawExtension, "full")

Identity(b, p) == Then(opaque16(b, p), LAMBDA id, q : Then(read_u32(b, q), LAMBDA age, r : Ok(id, r)))

(* What the peer makes of the data of an extension: the crate's own parse
   function for the ones it can read back. *)
Understood(t, d) ==
  CASE t = "PreSharedKey" -> list16(d, Len(d), Identity)
    [] t = "ApplicationLayerProtocolNegotiation" -> list16(d, Len(d), opaque8)
    [] OTHER -> parse_data("ClientHello", t, d)

(* Every value that the message has for an extension type. *)
Read(t) ==
  LET found == SelectSeq(RawExtensions(Message).val, LAMBDA e : e.code = ExtensionType[t])
  IN  [i \in DOMAIN found |-> Understood(t, found[i].data).val]

(* A protocol name has a one-byte length, and an empty name is not allowed. *)
NamesFit ==
  \A i \in DOMAIN config.alpn_protocols :
    \A j \in DOMAIN config.alpn_protocols[i] : Len(config.alpn_protocols[i][j]) \in 1 .. 255

Sent == pc = "opened" /\ res = "Ok"

(* The hello that open() sends is well framed at every level, and a peer that
   reads it finds exactly what the TlsConfig was built with: each extension
   whose option is set once, with its value, and none whose option is not; a
   key share for a group that is offered; and the pre-shared keys last. *)
PeerReadsOffer ==
  Sent /\ NamesFit =>
    LET exts == RawExtensions(Message)
    IN  /\ read_u16(wire, 3).val = Len(Message)
        /\ read_u24(Message, 1).val + 4 = Len(Message)
        /\ ExtensionsField(Message).pos = Len(Message)
        /\ is_ok(exts)
        /\ Read("SupportedVersions") = << <<772>> >>
        /\ Read("SignatureAlgorithms") = <<config.signature_schemes>>
        /\ Read("SupportedGroups") = <<config.named_groups>>
        /\ Read("KeyShare")[1][1].group \in ToSet(config.named_groups)
        /\ Read("MaxFragmentLength") = config.max_fragment_length
        /\ Read("ServerName") = [i \in DOMAIN config.server_name |-> <<config.server_name[i]>>]
        /\ Read("ApplicationLayerProtocolNegotiation") = config.alpn_protocols
        /\ Read("PreSharedKey") = config.psk
        /\ config.psk # <<>> => Last(exts.val).code = ExtensionType.PreSharedKey

(* The transcript hash takes the hello as it is on the wire, binders filled in,
   although finalize hashes it in two parts and writes in between: the server
   hashes the same bytes, or every key derived later differs. *)
TranscriptIsMessage == Sent => transcript = Message

(* Every binder of a hello with pre-shared keys is computed over the message up
   to and not including the list of binders, which is where a peer cuts it; the
   list behind it has one binder of the hash's length for every identity. *)
BindersCoverTruncatedHello ==
  Sent /\ config.psk # <<>> =>
    LET psk  == Last(RawExtensions(Message).val).data
        ids  == opaque16(psk, 0)
        list == Then(opaque16(psk, ids.pos), LAMBDA d, p : read_all(d, Len(d), opaque8, "full"))
    IN  /\ is_ok(list)
        /\ Len(list.val) = Len(binders) /\ Len(binders) = Len(config.psk[1])
        /\ \A i \in DOMAIN list.val : Len(list.val[i]) = build.hash_size
        /\ \A i \in DOMAIN binders :
             binders[i] = SubSeq(Message, 1, Len(Message) - (Len(psk) - ids.pos))
=============================================================================
