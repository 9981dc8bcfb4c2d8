--------------------------- MODULE ServerMessages ---------------------------
(***************************************************************************)
(* The server's records on their way through the client: ServerRecord::    *)
(* decode (src/record.rs), decrypt_record with its padding and coalesced   *)
(* messages, the two handshake handlers (src/connection.rs),               *)
(* ServerHandshake::read with the transcript (src/handshake/mod.rs), and   *)
(* DecryptedReadHandler (src/common/) once the connection is open.         *)
(*                                                                         *)
(* The server is external and follows RFC 8446: it packs the messages of a *)
(* handshake phase into records as it likes, with padding, may split one   *)
(* over two records, adds extensions the client does not know, and may     *)
(* stop with an alert.  A sealed record is the inner plaintext it carries. *)
(***************************************************************************)
EXTENDS Messages, FiniteSets, FiniteSetsExt

CONSTANTS
  Flights,      \* the sequences of messages a server may send
  ClientCerts,  \* what client_cert() may return: <<>> or <<certificate>>
  Paddings,     \* how many zeros a sealed record may end with
  AppData,      \* the application data of one record
  MaxData       \* bound: records of application data

VARIABLES
  hash_size,  \* of the cipher suite
  cert,       \* client_cert()
  flight,     \* the server's messages
  server,     \* [sent, data, split, alerted]: what it has sent so far
  queue,      \* records on their way
  client      \* the client, see Init

vars == <<hash_size, cert, flight, server, queue, client>>

none == "none"

Init ==
  /\ hash_size \in {32, 48}
  /\ cert \in ClientCerts
  /\ flight \in Flights
  /\ server = [sent |-> 0, data |-> <<>>, split |-> FALSE, alerted |-> FALSE]
  /\ queue = <<>>
  /\ client = [state       |-> "ServerHello",
               err         |-> none,
               transcript  |-> <<>>,  \* the bytes taken behind the client's hello
               handled     |-> <<>>,  \* the messages a handler took
               hash        |-> <<>>,  \* Finished.hash: the transcript it was taken from
               request     |-> <<>>,  \* certificate_request
               sent        |-> <<>>,  \* the client's own messages
               data        |-> <<>>]  \* application data, by record
-----------------------------------------------------------------------------
(* The server's encoder.  An extension is [code, list, data]: a list of 16-bit
   codes for the two that the client looks into, and else opaque data. *)

Listed(e) == e.code \in {ExtensionType.SupportedGroups, ExtensionType.SignatureAlgorithms}

Exts(exts) ==
  with_u16_length(EncodeEach(exts, LAMBDA e :
    push_u16(e.code)
      \o with_u16_length(IF Listed(e) THEN with_u16_length(EncodeEach(e.list, push_u16)) ELSE e.data)))

KeyShareExt(share) ==
  push_u16(51) \o with_u16_length(push_u16(NamedGroup[share.group]) \o with_u16_length(share.opaque))

Verify == [i \in 1 .. hash_size |-> 222]

Body(m) ==
  CASE m.type = "ServerHello" ->
         push_u16(771) \o Zeros(32) \o with_u8_length(<<>>) \o push_u16(IF hash_size = 32 THEN 4865 ELSE 4866) \o push(0)
           \o with_u16_length(EncodeEach(m.key_share, KeyShareExt) \o push_u16(43) \o push_u16(2) \o push_u16(772)
                                \o EncodeEach(m.exts, LAMBDA e : push_u16(e.code) \o with_u16_length(e.data)))
    [] m.type = "EncryptedExtensions" -> Exts(m.exts)
    [] m.type = "CertificateRequest"  -> with_u8_length(m.request_context) \o Exts(m.exts)
    [] m.type = "Certificate"         ->
         with_u8_length(<<>>)
           \o with_u24_length(EncodeEach(m.entries, LAMBDA c : with_u24_length(c) \o Exts(m.exts)))
    [] m.type = "CertificateVerify"   ->
         push_u16(SignatureScheme[m.scheme]) \o with_u16_length(m.signature)
    [] m.type = "Finished"            -> Verify
    [] m.type = "NewSessionTicket"    ->
         push_u32(7200) \o push_u32(9) \o with_u8_length(<<0>>) \o with_u16_length(<<1, 0>>) \o Exts(m.exts)
    [] m.type = "KeyUpdate"           -> <<0>>

Bytes(m) == push(HandshakeType[m.type]) \o with_u24_length(Body(m))

FinishedAt == CHOOSE i \in DOMAIN flight : flight[i].type = "Finished"

Sealed(t, content, pad) ==
  [type |-> ContentType.ApplicationData, data |-> content \o <<ContentType[t]>> \o Zeros(pad)]

Plain(t, content) == [type |-> ContentType[t], data |-> content]

(* The transport keeps the order and neither side looks at the other's state, so
   the server waits for the client to have read what is on its way. *)
ServerSends(records) ==
  /\ ~server.alerted
  /\ queue = <<>>
  /\ queue' = queue \o records
  /\ UNCHANGED <<hash_size, cert, flight, client>>

SendHello ==
  /\ server.sent = 0
  /\ \E ccs \in BOOLEAN :
       ServerSends(<<Plain("Handshake", Bytes(flight[1]))>>
                     \o IF ccs THEN <<Plain("ChangeCipherSpec", <<1>>)>> ELSE <<>>)
  /\ server' = [server EXCEPT !.sent = 1]

(* Messages up to n in one record; the keys change behind the Finished. *)
SendMessages ==
  /\ server.sent > 0
  /\ \E n \in server.sent + 1 .. Len(flight), pad \in Paddings :
       /\ server.sent < FinishedAt => n <= FinishedAt
       /\ ServerSends(<<Sealed("Handshake", EncodeEach(SubSeq(flight, server.sent + 1, n), Bytes), pad)>>)
       /\ server' = [server EXCEPT !.sent = n]

(* One message in two records, cut behind its type or in its middle. *)
SendSplit ==
  /\ server.sent \in 1 .. Len(flight) - 1
  /\ LET b == Bytes(flight[server.sent + 1])
     IN  \E k \in {1, Len(b) \div 2} :
           ServerSends(<<Sealed("Handshake", SubSeq(b, 1, k), 0),
                         Sealed("Handshake", SubSeq(b, k + 1, Len(b)), 0)>>)
  /\ server' = [server EXCEPT !.sent = @ + 1, !.split = TRUE]

SendData ==
  /\ server.sent >= FinishedAt
  /\ Len(server.data) < MaxData
  /\ \E d \in AppData, pad \in Paddings :
       /\ ServerSends(<<Sealed("ApplicationData", d, pad)>>)
       /\ server' = [server EXCEPT !.data = Append(@, d)]

SendAlert ==
  /\ \E desc \in {"CloseNotify", "HandshakeFailure"} :
       LET alert == <<IF desc = "CloseNotify" THEN 1 ELSE 2, AlertDescription[desc]>>
       IN  ServerSends(<<IF server.sent = 0 THEN Plain("Alert", alert) ELSE Sealed("Alert", alert, 0)>>)
  /\ server' = [server EXCEPT !.alerted = TRUE]
-----------------------------------------------------------------------------
(* The client. *)

Fail(s, e) == [s EXCEPT !.err = e]

(* Mutant: the Finished is hashed with the messages it closes. *)
ServerHandshake_read_HashAfter(s, b, r, start) ==
  LET taken == s.transcript \o SubSeq(b, start + 1, r.pos)
  IN  [s EXCEPT !.transcript = taken, !.hash = IF r.val.type = "Finished" THEN taken ELSE @]

(* What read does behind a successful parse: the transcript is taken for a
   Finished before it is brought up to date. *)
ServerHandshake_read(s, b, r, start) ==
  [s EXCEPT !.transcript = @ \o SubSeq(b, start + 1, r.pos),
            !.hash       = IF r.val.type = "Finished" THEN s.transcript ELSE @]

Handled(s, m) == [s EXCEPT !.handled = Append(@, m)]

(* PublicKey::from_sec1_bytes takes an uncompressed point. *)
IsPoint(opaque) == Len(opaque) = 65 /\ opaque[1] = 4

(* ServerRecord::decode.  A plaintext handshake record is read up to the end of
   its first message; sealed data is kept for decrypt_record. *)
Decoded(s, kind, val) == [client |-> s, kind |-> kind, val |-> val]

decode(s, record) ==
  CASE record.type = ContentType.Handshake ->
         Match(ServerHandshake_parse(record.data, 0, hash_size), LAMBDA r :
           IF is_ok(r) THEN Decoded(ServerHandshake_read(s, record.data, r, 0), "Handshake", r.val)
           ELSE Decoded(Fail(s, r.err), none, <<>>))
    [] record.type = ContentType.Alert ->
         Match(Alert_parse(record.data), LAMBDA alert :
           IF is_ok(alert) THEN Decoded(s, "Alert", alert.val) ELSE Decoded(Fail(s, alert.err), none, <<>>))
    [] record.type = ContentType.ChangeCipherSpec -> Decoded(s, "ChangeCipherSpec", <<>>)
    [] record.type = ContentType.ApplicationData  -> Decoded(s, "ApplicationData", record.data)
    [] OTHER -> Decoded(Fail(s, "Unimplemented"), none, <<>>)

process_server_hello(s, kind, val) ==
  CASE kind = "Handshake" /\ val.type # "ServerHello" -> Fail(s, "InvalidHandshake")
    [] kind = "Handshake" ->
         IF val.key_share # <<>> /\ IsPoint(val.key_share[1].opaque)
         THEN [Handled(s, val) EXCEPT !.state = "ServerVerify"]
         ELSE Fail(s, "InvalidKeyShare")
    [] kind = "Alert" -> Fail(s, "HandshakeAborted")
    [] OTHER          -> Fail(s, "InvalidRecord")

(* The closure of process_server_verify.  The verifiers and the comparison of
   the Finished are in CertVerifier and Handshake. *)
process_server_verify(s, kind, val) ==
  CASE kind = "Handshake" ->
         CASE val.type \in {"EncryptedExtensions", "Certificate", "CertificateVerify"} -> Handled(s, val)
           [] val.type = "CertificateRequest" ->
                [Handled(s, val) EXCEPT !.request = <<val.request_context>>]
           [] val.type = "Finished" ->
                [Handled(s, val) EXCEPT !.state = IF s.request # <<>> THEN "ClientCert" ELSE "ClientFinished"]
           [] OTHER -> Fail(s, "InvalidHandshake")
    [] kind = "ChangeCipherSpec" -> s
    [] OTHER -> Fail(s, "InvalidRecord")

(* DecryptedReadHandler::handle. *)
handle(s, kind, val) ==
  CASE kind = "ApplicationData" -> [s EXCEPT !.data = Append(@, val)]
    [] kind = "Alert" -> Fail(s, IF val = "CloseNotify" THEN "ConnectionClosed" ELSE "InternalError")
    [] kind = "ChangeCipherSpec" -> Fail(s, "InternalError")
    [] kind = "Handshake" /\ val.type = "NewSessionTicket" -> Handled(s, val)
    [] OTHER -> Fail(s, "Panic")

(* The closure that decrypt_record was called with, in the state that read the
   record; a Finished inside the record does not change it. *)
cb(state, s, kind, val) ==
  IF state = "ServerVerify" THEN process_server_verify(s, kind, val) ELSE handle(s, kind, val)

(* Mutant: the first message of a record is taken for all of it. *)
ReadMessages_FirstOnly(s, b) ==
  LET r == ServerHandshake_parse(b, 0, hash_size)
  IN  IF is_ok(r) THEN cb(s.state, ServerHandshake_read(s, b, r, 0), "Handshake", r.val) ELSE Fail(s, r.err)

(* The messages of one record, each handed on before the next is read. *)
ReadMessages(s, b) ==
  LET RECURSIVE Loop(_, _)
      Loop(t, p) ==
        IF t.err # none \/ p = Len(b) THEN t
        ELSE Match(ServerHandshake_parse(b, p, hash_size), LAMBDA r :
               IF is_ok(r)
               THEN Loop(cb(s.state, ServerHandshake_read(t, b, r, p), "Handshake", r.val), r.pos)
               ELSE Fail(t, r.err))
  IN  Loop(s, 0)

(* decrypt_record; a sealed record is its inner plaintext here.  The padding is
   cut behind the last byte that is not 0, if there is one, and that byte is the
   content type. *)
decrypt_record(s, kind, val) ==
  LET nonzero == {i \in DOMAIN val : val[i] # 0}
      end     == IF nonzero = {} THEN Len(val) ELSE Max(nonzero)
      inner   == SubSeq(val, 1, end - 1)
      alert   == Alert_parse(inner)
  IN  CASE kind # "ApplicationData" -> cb(s.state, s, kind, val)
        [] end = 0                                 -> Fail(s, "Panic")
        [] val[end] = ContentType.Handshake        -> ReadMessages(s, inner)
        [] val[end] = ContentType.ApplicationData  -> cb(s.state, s, "ApplicationData", inner)
        [] val[end] = ContentType.Alert            ->
             IF is_ok(alert) THEN cb(s.state, s, "Alert", alert.val) ELSE Fail(s, alert.err)
        [] val[end] \in {ContentType.Invalid, ContentType.ChangeCipherSpec} -> Fail(s, "Unimplemented")
        [] OTHER                                   -> Fail(s, "InvalidRecord")

(* One record, in a state that waits for one. *)
ClientReads ==
  /\ client.err = none
  /\ client.state \in {"ServerHello", "ServerVerify", "ApplicationData"}
  /\ queue # <<>>
  /\ queue' = Tail(queue)
  /\ client' = Match(decode(client, Head(queue)), LAMBDA d :
                  IF d.client.err # none THEN d.client
                  ELSE IF client.state = "ServerHello" THEN process_server_hello(d.client, d.kind, d.val)
                  ELSE decrypt_record(d.client, d.kind, d.val))
  /\ UNCHANGED <<hash_size, cert, flight, server>>

(* write_record: the encoded message goes out and into the transcript. *)
ClientWrites(t, body, next) ==
  LET msg == ClientHandshake_encode(t, body)
  IN  /\ client.err = none
      /\ client' = [client EXCEPT !.state = next, !.sent = Append(@, msg), !.transcript = @ \o msg]
      /\ UNCHANGED <<hash_size, cert, flight, server, queue>>

(* Mutant: the context of the request is left out of the answer. *)
client_cert_NoContext ==
  /\ client.state = "ClientCert"
  /\ ClientWrites("Certificate", CertificateRef_encode(<<>>, cert),
                  IF cert # <<>> THEN "ClientCertVerify" ELSE "ClientFinished")

client_cert ==
  /\ client.state = "ClientCert"
  /\ ClientWrites("Certificate", CertificateRef_encode(client.request[1], cert),
                  IF cert # <<>> THEN "ClientCertVerify" ELSE "ClientFinished")

(* With a signature of the length of an ECDSA one. *)
client_cert_verify ==
  /\ client.state = "ClientCertVerify"
  /\ ClientWrites("CertificateVerify",
                  CertificateVerify_encode("EcdsaSecp256r1Sha256", [i \in 1 .. 70 |-> 48]), "ClientFinished")

client_finished ==
  /\ client.state = "ClientFinished"
  /\ ClientWrites("Finished", Finished_encode([i \in 1 .. hash_size |-> 111]), "ApplicationData")

Next ==
  \/ SendHello \/ SendMessages \/ SendSplit \/ SendData \/ SendAlert
  \/ ClientReads \/ client_cert \/ client_cert_verify \/ client_finished

Spec == Init /\ [][Next]_vars
-----------------------------------------------------------------------------
(* What the client has to have understood of a message. *)
Meaning(m) ==
  CASE m.type = "ServerHello"        -> [type |-> m.type, key_share |-> m.key_share]
    [] m.type = "CertificateRequest" -> [type |-> m.type, request_context |-> m.request_context]
    [] m.type = "Certificate"        -> [type |-> m.type, request_context |-> <<>>, entries |-> m.entries]
    [] m.type = "CertificateVerify"  -> [type |-> m.type, scheme |-> m.scheme, signature |-> m.signature]
    [] m.type = "Finished"           -> [type |-> m.type, verify |-> Verify]
    [] OTHER                         -> [type |-> m.type]

(* The messages reach the handlers in the order they were sent, each once and
   with its own contents, however decrypt_record finds them packed and padded;
   application data arrives record by record with its own trailing zeros; and
   when no record is left, nothing that was sent is missing. *)
HandledAsSent ==
  LET n == Len(client.handled)
  IN  /\ n <= server.sent
      /\ \A i \in 1 .. n : client.handled[i] = Meaning(flight[i])
      /\ IsPrefix(client.data, server.data)
      /\ queue = <<>> /\ client.err = none => n = server.sent /\ client.data = server.data

(* The transcript is the exact bytes of both sides' messages, although the
   parsers, not the lengths in the headers, decide where a message ends: the
   server's up to its Finished, the client's answer, then what comes later.
   The hash kept for the Finished stops right before it. *)
TranscriptExact ==
  LET n      == Len(client.handled)
      Of(a, b) == EncodeEach(SubSeq(flight, a, b), Bytes)
      cut    == IF n < FinishedAt THEN n ELSE FinishedAt
  IN  client.err = none =>
        /\ client.transcript = Of(1, cut) \o FlattenSeq(client.sent) \o Of(cut + 1, n)
        /\ n >= FinishedAt => client.hash = Of(1, FinishedAt - 1)

Known(codes, list) == \A i \in DOMAIN list : \E name \in DOMAIN codes : codes[name] = list[i]

Capacity ==
  [ServerHello |-> 4, EncryptedExtensions |-> 16, CertificateRequest |-> 6, Certificate |-> 2,
   CertificateVerify |-> 0, Finished |-> 0, NewSessionTicket |-> 1]

(* What the client's tables and vectors have room for. *)
Supported(m) ==
  /\ m.type # "KeyUpdate"
  /\ Cardinality({i \in DOMAIN m.exts : Known(ExtensionType, <<m.exts[i].code>>)}) <= Capacity[m.type]
  /\ \A i \in DOMAIN m.exts :
       LET e == m.exts[i]
       IN  /\ e.code = ExtensionType.SupportedGroups => Known(NamedGroup, e.list)
           /\ e.code = ExtensionType.SignatureAlgorithms => Known(SignatureScheme, e.list)
  /\ m.type = "Certificate" => Len(m.entries) <= 16
  /\ m.type = "ServerHello" => m.key_share # <<>>

(* A server that follows the protocol is turned away only where the client has
   a limit: a message split over records, a group or scheme code it has no name
   for, more certificates or extensions than its vectors hold, no key share, a
   key update, or an alert.  Unknown extensions are no reason, and no message
   reaches a panic. *)
RejectionsExplained ==
  client.err # none =>
    /\ client.err # "Panic"
    /\ \/ server.alerted \/ server.split
       \/ ~Supported(flight[Len(client.handled) + 1])

(* A server that asked for a certificate can read the client's answer: it has
   the context of the request, the configured certificate or none, a signature
   exactly if there is one, and the Finished last. *)
AnswersRequest ==
  client.state = "ApplicationData" =>
    LET sent == [i \in DOMAIN client.sent |-> ServerHandshake_parse(client.sent[i], 0, hash_size)]
        asked == {i \in 1 .. FinishedAt : flight[i].type = "CertificateRequest"}
    IN  /\ \A i \in DOMAIN sent : is_ok(sent[i]) /\ sent[i].pos = Len(client.sent[i])
        /\ [i \in DOMAIN sent |-> sent[i].val.type] =
             (IF asked = {} THEN <<>>
              ELSE <<"Certificate">> \o IF cert # <<>> THEN <<"CertificateVerify">> ELSE <<>>) \o <<"Finished">>
        /\ \A i \in asked : /\ sent[1].val.request_context = flight[i].request_context
                            /\ sent[1].val.entries = cert
=============================================================================
