------------------------------ MODULE Handshake ------------------------------
(***************************************************************************)
(* TlsConnection::open and the state machine behind it (src/connection.rs, *)
(* src/asynch.rs, src/blocking.rs), with the certificate verifier's state  *)
(* (src/pki.rs), against a server that follows RFC 8446.                   *)
(*                                                                         *)
(* The server is external.  It may pack the messages of its flight into    *)
(* records as it likes, insert a ChangeCipherSpec, ask for a certificate,  *)
(* take or decline an offered PSK, give up with an alert, and send         *)
(* application data right behind its Finished.  The transport is ordered   *)
(* and may fail at any await.                                              *)
(***************************************************************************)
EXTENDS KeySchedule

CONSTANTS
  Configs,   \* what client and server are set up with, see Config
  MaxData    \* bound: application records each side sends

Config ==
  [psk     : {"none", "accepted", "declined"}, \* a PSK is offered, and the server's choice
   request : BOOLEAN,                          \* the server asks for a certificate
   cert    : BOOLEAN,                          \* client_cert() returns one
   signer  : BOOLEAN,                          \* signer() returns a key
   verifier : {"none", "accepts", "rejects"}]  \* verifier(), and its verdict on the chain

ASSUME HandshakeAssumption ==
  /\ \A c \in Configs : c \in Config /\ (c.psk = "accepted" => ~c.request)
  /\ MaxData \in Nat

VARIABLES
  config,
  state,      \* State, or "Failed"
  error,      \* the error open() or a later read returned, or "none"
  handshake,  \* traffic_hash and certificate_request; <<>> and FALSE stand for None
  ks,         \* key_schedule
  verifier,   \* CertVerifier: certificate_transcript, and what it accepted
  up, down,   \* records on the way to the server and to the client
  server,     \* the server's state
  data        \* application records sent so far by each side

vars == <<config, state, error, handshake, ks, verifier, up, down, server, data>>

Plain(message) == [secret |-> NoSecret, counter |-> 0, messages |-> <<message>>]
Sealed(s, messages) == [secret |-> s.traffic_secret, counter |-> s.counter, messages |-> messages]
Counted(s) == [s EXCEPT !.counter = s.counter + 1]

(* Decryption succeeds under the secret and counter the record was sealed with. *)
Opens(s, record) == record.secret = s.traffic_secret /\ record.counter = s.counter

Name(message) == message[1]
Message(name, body) == <<name, body>>

ServerStart ==
  [phase |-> "start", transcript |-> <<>>, flight |-> <<>>, mid |-> <<>>, master |-> NoSecret,
   read |-> FreshState(NoSecret), write |-> FreshState(NoSecret), ccs |-> FALSE]

Init ==
  /\ config \in Configs
  /\ state = "ClientHello" /\ error = "none"
  /\ handshake = [traffic_hash |-> <<>>, certificate_request |-> FALSE]
  /\ ks = NewSchedule
  /\ verifier = [certificate_transcript |-> <<>>, signature |-> FALSE]
  /\ up = <<>> /\ down = <<>>
  /\ server = ServerStart
  /\ data = [client |-> 0, server |-> 0]
-----------------------------------------------------------------------------
(* The client. *)

Fail(e) == state' = "Failed" /\ error' = e

(* write_record and respond: the message is hashed, sealed with the write keys
   if it is encrypted, sent, and counted. *)
Respond(k, message, encrypted) ==
  /\ up' = Append(up, IF encrypted THEN Sealed(k.client_state, <<message>>) ELSE Plain(message))
  /\ ks' = [k EXCEPT !.client_state = Counted(@)]

ClientHello ==
  /\ state = "ClientHello"
  /\ LET early   == initialize_early_secret(ks, IF config.psk = "none" THEN Zero ELSE Psk)
         partial == <<Message("ClientHello", <<>>)>>
         hello   == Message("ClientHello",
                      IF config.psk = "none" THEN <<>> ELSE create_psk_binder(early, partial))
     IN  Respond(update(early, hello), hello, FALSE)
  /\ state' = "ServerHello"
  /\ UNCHANGED <<config, error, handshake, verifier, down, server, data>>

(* process_server_hello: the only answers an RFC 8446 server gives here. *)
ServerHello ==
  /\ state = "ServerHello" /\ down # <<>>
  /\ LET message == Head(down).messages[1]
     IN  IF Name(message) = "ServerHello"
         THEN /\ ks' = initialize_handshake_secret(update(ks, message), Shared)
              /\ state' = "ServerVerify" /\ UNCHANGED error
         ELSE /\ Fail(IF Name(message) = "Alert" THEN "HandshakeAborted" ELSE "InvalidRecord")
              /\ UNCHANGED ks
  /\ down' = Tail(down)
  /\ UNCHANGED <<config, handshake, verifier, up, server, data>>

(* What the callback of process_server_verify works on, message by message. *)
Progress == [state |-> "ServerVerify", error |-> "none", ks |-> ks, handshake |-> handshake,
             verifier |-> verifier]

Rejected(p, e) == [p EXCEPT !.state = "Failed", !.error = e]

(* CertVerifier::verify_certificate keeps the transcript up to the Certificate. *)
verify_certificate(p) ==
  CASE config.verifier = "none"    -> p
    [] config.verifier = "rejects" -> Rejected(p, "InvalidCertificate")
    [] OTHER -> [p EXCEPT !.verifier.certificate_transcript = p.ks.transcript_hash]

(* CertVerifier::verify_signature unwraps the kept transcript. *)
verify_signature(p, signature) ==
  LET kept == p.verifier.certificate_transcript
  IN  CASE config.verifier = "none"    -> p
        [] config.verifier # "none" /\ kept = <<>> -> Rejected(p, "Panic")
        [] config.verifier # "none" /\ kept # <<>> /\ signature # <<"sig", kept>> ->
             Rejected(p, "InvalidSignature")
        [] OTHER -> [p EXCEPT !.verifier = [certificate_transcript |-> <<>>, signature |-> TRUE]]

(* Mutant: the traffic hash is left to client_cert in every case. *)
finished_NoTrafficHash(p, verify, hash) ==
  CASE ~verify_server_finished(p.ks, verify, hash) -> Rejected(p, "InvalidSignature")
    [] p.handshake.certificate_request             -> [p EXCEPT !.state = "ClientCert"]
    [] OTHER -> [p EXCEPT !.state = "ClientFinished"]

(* The traffic hash is kept here only if no client certificate is asked for. *)
finished(p, verify, hash) ==
  CASE ~verify_server_finished(p.ks, verify, hash) -> Rejected(p, "InvalidSignature")
    [] p.handshake.certificate_request             -> [p EXCEPT !.state = "ClientCert"]
    [] OTHER -> [p EXCEPT !.state = "ClientFinished", !.handshake.traffic_hash = p.ks.transcript_hash]

(* ServerHandshake::read feeds the message to the transcript, then the callback
   looks at it. *)
HandleMessage(p, message) ==
  LET q == [p EXCEPT !.ks = update(p.ks, message)]
  IN  CASE p.error # "none"                       -> p
        [] p.error = "none" /\ Name(message) = "EncryptedExtensions" -> q
        [] p.error = "none" /\ Name(message) = "CertificateRequest"  ->
             [q EXCEPT !.handshake.certificate_request = TRUE]
        [] p.error = "none" /\ Name(message) = "Certificate"         -> verify_certificate(q)
        [] p.error = "none" /\ Name(message) = "CertificateVerify"   -> verify_signature(q, message[2])
        [] p.error = "none" /\ Name(message) = "Finished"            ->
             finished(q, message[2], p.ks.transcript_hash)
        [] OTHER -> Rejected(p, IF Name(message) = "Alert" THEN "InvalidRecord" ELSE "InvalidHandshake")

(* The messages of one record, in order. *)
HandleMessages(messages) ==
  LET step[i \in 0 .. Len(messages)] ==
        IF i = 0 THEN Progress ELSE HandleMessage(step[i - 1], messages[i])
  IN  step[Len(messages)]

(* decrypt_record and the callback; a ChangeCipherSpec is not encrypted, not
   counted, and ignored. *)
ServerVerify ==
  /\ state = "ServerVerify" /\ down # <<>>
  /\ LET record == Head(down)
         p == HandleMessages(record.messages)
     IN  CASE record.messages[1] = Message("ChangeCipherSpec", <<>>) ->
                UNCHANGED <<state, error, ks, handshake, verifier>>
           [] record.messages[1] # Message("ChangeCipherSpec", <<>>) /\ ~Opens(ks.server_state, record) ->
                Fail("CryptoError") /\ UNCHANGED <<ks, handshake, verifier>>
           [] OTHER ->
                /\ state' = p.state /\ error' = p.error
                /\ ks' = IF p.error = "none" THEN [p.ks EXCEPT !.server_state = Counted(@)] ELSE p.ks
                /\ handshake' = p.handshake /\ verifier' = p.verifier
  /\ down' = Tail(down)
  /\ UNCHANGED <<config, up, server, data>>

(* Mutant: the traffic hash is kept behind the client's Certificate. *)
ClientCert_HashedFirst ==
  /\ state = "ClientCert"
  /\ LET certificate == Message("Certificate", <<config.cert>>)
     IN  /\ Respond(update(ks, certificate), certificate, TRUE)
         /\ handshake' = [handshake EXCEPT !.traffic_hash = update(ks, certificate).transcript_hash]
  /\ state' = IF config.cert THEN "ClientCertVerify" ELSE "ClientFinished"
  /\ UNCHANGED <<config, error, verifier, down, server, data>>

(* Mutant: a client without a certificate does not answer the request. *)
ClientCert_OnlyWithOne ==
  /\ state = "ClientCert" /\ config.cert
  /\ LET certificate == Message("Certificate", <<config.cert>>)
     IN  Respond(update(ks, certificate), certificate, TRUE)
  /\ handshake' = [handshake EXCEPT !.traffic_hash = ks.transcript_hash]
  /\ state' = "ClientCertVerify"
  /\ UNCHANGED <<config, error, verifier, down, server, data>>

(* client_cert: the traffic hash is kept before the Certificate is hashed. *)
ClientCert ==
  /\ state = "ClientCert"
  /\ LET certificate == Message("Certificate", <<config.cert>>)
     IN  Respond(update(ks, certificate), certificate, TRUE)
  /\ handshake' = [handshake EXCEPT !.traffic_hash = ks.transcript_hash]
  /\ state' = IF config.cert THEN "ClientCertVerify" ELSE "ClientFinished"
  /\ UNCHANGED <<config, error, verifier, down, server, data>>

(* Mutant: CertificateVerify is not hashed. *)
ClientCertVerify_Unhashed ==
  /\ state = "ClientCertVerify"
  /\ LET verify == Message("CertificateVerify", <<"sig", ks.transcript_hash>>)
     IN  IF config.signer
         THEN Respond(ks, verify, TRUE) /\ state' = "ClientFinished" /\ UNCHANGED error
         ELSE Respond(ks, Message("Alert", <<"close_notify">>), TRUE) /\ Fail("InvalidPrivateKey")
  /\ UNCHANGED <<config, handshake, verifier, down, server, data>>

(* Without a signing key an encrypted close_notify is sent and open() fails. *)
ClientCertVerify ==
  /\ state = "ClientCertVerify"
  /\ LET verify == Message("CertificateVerify", <<"sig", ks.transcript_hash>>)
     IN  IF config.signer
         THEN Respond(update(ks, verify), verify, TRUE) /\ state' = "ClientFinished" /\ UNCHANGED error
         ELSE Respond(ks, Message("Alert", <<"close_notify">>), TRUE) /\ Fail("InvalidPrivateKey")
  /\ UNCHANGED <<config, handshake, verifier, down, server, data>>

(* client_finished and its respond; the last flush may fail behind it. *)
FinishedSent ==
  LET fin == Message("Finished", create_client_finished(ks))
  IN  up' = Append(up, Sealed(ks.client_state, <<fin>>))

(* client_finished_finalize goes back to the kept transcript for the application
   secrets; then open() returns. *)
ClientFinished ==
  /\ state = "ClientFinished"
  /\ FinishedSent
  /\ IF handshake.traffic_hash = <<>>
     THEN Fail("InvalidHandshake") /\ UNCHANGED ks
     ELSE /\ ks' = initialize_master_secret([ks EXCEPT !.transcript_hash = handshake.traffic_hash])
          /\ state' = "ApplicationData" /\ UNCHANGED error
  /\ handshake' = [handshake EXCEPT !.traffic_hash = <<>>]
  /\ UNCHANGED <<config, verifier, down, server, data>>

(* The connection in use. *)
SendData ==
  /\ state = "ApplicationData" /\ data.client < MaxData
  /\ Respond(ks, Message("Data", <<data.client>>), TRUE)
  /\ data' = [data EXCEPT !.client = @ + 1]
  /\ UNCHANGED <<config, state, error, handshake, verifier, down, server>>

ReadData ==
  /\ state = "ApplicationData" /\ down # <<>>
  /\ IF Opens(ks.server_state, Head(down))
     THEN ks' = [ks EXCEPT !.server_state = Counted(@)] /\ UNCHANGED <<state, error>>
     ELSE Fail("CryptoError") /\ UNCHANGED ks
  /\ down' = Tail(down)
  /\ UNCHANGED <<config, handshake, verifier, up, server, data>>

(* A read or a write on the transport fails, or open() is dropped. *)
TransportFails ==
  /\ state \notin {"ApplicationData", "Failed"}
  /\ Fail("Io")
  /\ UNCHANGED up \/ (state = "ClientFinished" /\ FinishedSent)
  /\ UNCHANGED <<config, handshake, ks, verifier, down, server, data>>

Client ==
  \/ ClientHello \/ ServerHello \/ ServerVerify \/ ClientCert \/ ClientCertVerify
  \/ ClientFinished \/ SendData \/ ReadData
-----------------------------------------------------------------------------
(* The server, from RFC 8446 sections 4 and 7.1 (external). *)

(* The flight behind a ServerHello, with T the transcript in front of it. *)
Flight(T, write) ==
  LET ee   == <<Message("EncryptedExtensions", <<>>)>>
      cr   == IF config.request THEN <<Message("CertificateRequest", <<>>)>> ELSE <<>>
      cert == IF config.psk = "accepted" THEN <<>> ELSE <<Message("Certificate", <<TRUE>>)>>
      head == ee \o cr \o cert
      cv   == IF config.psk = "accepted" THEN <<>>
              ELSE <<Message("CertificateVerify", <<"sig", T \o head>>)>>
      fin  == <<Message("Finished", Mac(write, T \o head \o cv))>>
  IN  head \o cv \o fin

BinderOk(hello) ==
  config.psk # "accepted" \/
    hello[2] = Mac(Expand(Extract(Zero, Psk), "ext binder", <<>>), <<Message("ClientHello", <<>>)>>)

ServerAnswers ==
  /\ server.phase = "start" /\ up # <<>>
  /\ LET hello  == Head(up).messages[1]
         answer == Message("ServerHello", <<config.psk = "accepted">>)
         early  == Extract(Zero, IF config.psk = "accepted" THEN Psk ELSE Zero)
         hs     == Extract(Expand(early, "derived", <<>>), Shared)
         T      == <<hello, answer>>
         write  == Expand(hs, "s hs traffic", T)
         flight == Flight(T, write)
     IN  IF BinderOk(hello)
         THEN /\ down' = Append(down, Plain(answer))
              /\ server' = [server EXCEPT
                   !.phase = "flight", !.flight = flight, !.transcript = T \o flight, !.mid = T \o flight,
                   !.master = Extract(Expand(hs, "derived", <<>>), Zero),
                   !.read = FreshState(Expand(hs, "c hs traffic", T)), !.write = FreshState(write)]
         ELSE server' = [server EXCEPT !.phase = "rejected"] /\ UNCHANGED down
  /\ up' = Tail(up)
  /\ UNCHANGED <<config, state, error, handshake, ks, verifier, data>>

(* The next k messages of the flight in one record; the application secrets
   protect everything behind it. *)
ServerSends ==
  /\ server.phase = "flight"
  /\ \E k \in 1 .. Len(server.flight) :
       /\ down' = Append(down, Sealed(server.write, SubSeq(server.flight, 1, k)))
       /\ server' = IF k < Len(server.flight)
                    THEN [server EXCEPT !.flight = SubSeq(@, k + 1, Len(@)), !.write = Counted(@)]
                    ELSE [server EXCEPT !.phase = "finish", !.flight = <<>>,
                            !.write = FreshState(Expand(server.master, "s ap traffic", server.mid))]
  /\ UNCHANGED <<config, state, error, handshake, ks, verifier, up, data>>

ServerChangesCipher ==
  /\ server.phase = "flight" /\ ~server.ccs
  /\ down' = Append(down, Plain(Message("ChangeCipherSpec", <<>>)))
  /\ server' = [server EXCEPT !.ccs = TRUE]
  /\ UNCHANGED <<config, state, error, handshake, ks, verifier, up, data>>

ServerAborts ==
  /\ \/ server.phase = "start" /\ up # <<>> /\ down' = Append(down, Plain(Message("Alert", <<>>)))
     \/ server.phase = "flight" /\ down' = Append(down, Sealed(server.write, <<Message("Alert", <<>>)>>))
  /\ server' = [server EXCEPT !.phase = "aborted"]
  /\ UNCHANGED <<config, state, error, handshake, ks, verifier, up, data>>

(* What the client may send next, given what it sent since the server's flight. *)
Expected(message) ==
  LET sent == Len(server.transcript) - Len(server.mid)
      last == server.transcript[Len(server.transcript)]
  IN  CASE Name(message) = "Certificate"       -> config.request /\ sent = 0
        [] Name(message) = "CertificateVerify" ->
             last = Message("Certificate", <<TRUE>>) /\ sent = 1
             /\ message[2] = <<"sig", server.transcript>>
        [] Name(message) = "Finished" ->
             /\ message[2] = Mac(server.read.traffic_secret, server.transcript)
             /\ config.request => sent > 0 /\ last # Message("Certificate", <<TRUE>>)
        [] OTHER -> FALSE

ServerReads ==
  /\ server.phase \in {"finish", "done"} /\ up # <<>>
  /\ LET record  == Head(up)
         message == record.messages[1]
         counted == [server EXCEPT !.read = Counted(@)]
     IN  server' =
           CASE ~Opens(server.read, record) -> [server EXCEPT !.phase = "rejected"]
             [] Opens(server.read, record) /\ Name(message) = "Alert" -> [server EXCEPT !.phase = "aborted"]
             [] Opens(server.read, record) /\ Name(message) = "Data" ->
                  IF server.phase = "done" THEN counted ELSE [server EXCEPT !.phase = "rejected"]
             [] Opens(server.read, record) /\ Name(message) \notin {"Alert", "Data"} /\ ~Expected(message) ->
                  [server EXCEPT !.phase = "rejected"]
             [] OTHER ->
                  IF Name(message) = "Finished"
                  THEN [server EXCEPT !.phase = "done", !.transcript = Append(@, message),
                          !.read = FreshState(Expand(server.master, "c ap traffic", server.mid))]
                  ELSE [counted EXCEPT !.transcript = Append(@, message)]
  /\ up' = Tail(up)
  /\ UNCHANGED <<config, state, error, handshake, ks, verifier, down, data>>

(* Application data may follow the server's Finished at once. *)
ServerSendsData ==
  /\ server.phase \in {"finish", "done"} /\ data.server < MaxData
  /\ down' = Append(down, Sealed(server.write, <<Message("Data", <<>>)>>))
  /\ server' = [server EXCEPT !.write = Counted(@)]
  /\ data' = [data EXCEPT !.server = @ + 1]
  /\ UNCHANGED <<config, state, error, handshake, ks, verifier, up>>

Server == ServerAnswers \/ ServerSends \/ ServerChangesCipher \/ ServerReads \/ ServerSendsData

(* Nobody has anything left to say. *)
Finished ==
  /\ state = "Failed" \/ (state = "ApplicationData" /\ data = [client |-> MaxData, server |-> MaxData])
  /\ UNCHANGED vars

Next == Client \/ TransportFails \/ Server \/ ServerAborts \/ Finished

(* The caller polls open() until it returns, and a server that has not given up
   goes on; a transport that fails, and a server that gives up, owe nothing. *)
Spec == Init /\ [][Next]_vars /\ WF_vars(Client) /\ WF_vars(Server)
-----------------------------------------------------------------------------
(* Properties. *)

(* The server accepts everything the client sends: the binder, the records' keys
   and counters, the signature and the Finished are what it computes itself,
   even when the client offered a PSK that was declined. *)
ServerNeverRejects == server.phase # "rejected"

(* open() fails for a reason that lies with the transport, the server's choice,
   the verifier or the signer, and no message is misread whatever records it
   came in. *)
FailuresExplained ==
  /\ error \in {"none", "Io", "HandshakeAborted", "InvalidRecord", "CryptoError", "InvalidCertificate",
                "InvalidPrivateKey"}
  /\ error \in {"HandshakeAborted", "InvalidRecord"} => server.phase = "aborted"
  /\ error = "CryptoError" => config.psk = "declined"
  /\ error = "InvalidCertificate" => config.verifier = "rejects"
  /\ error = "InvalidPrivateKey" => config.request /\ config.cert /\ ~config.signer
  /\ state = "Failed" <=> error # "none"

(* An opened connection has the transcript of the server's own flight behind its
   secrets, and a configured verifier has accepted the certificate and the
   signature of a server that authenticates with one. *)
OpenMeansVerified ==
  state = "ApplicationData" =>
    /\ ks.transcript_hash = server.mid
    /\ config.verifier # "none" /\ config.psk # "accepted" => verifier.signature

(* Once both sides are through, each reads with the secret the other writes with,
   and their counters differ by the records on the way. *)
KeysAgree ==
  state = "ApplicationData" /\ server.phase = "done" =>
    /\ ks.client_state.traffic_secret = server.read.traffic_secret
    /\ ks.server_state.traffic_secret = server.write.traffic_secret
    /\ ks.client_state.traffic_secret # ks.server_state.traffic_secret
    /\ ks.client_state.counter = server.read.counter + Len(up)
    /\ ks.server_state.counter = server.write.counter - Len(down)

(* The two sides are set up so that they can agree. *)
Agreeable ==
  config.psk # "declined" /\ config.verifier # "rejects" /\ (config.request /\ config.cert => config.signer)

(* Then open() returns and the server is through as well, unless the transport
   failed or the server gave up: client and server never wait for each other. *)
Completes ==
  Agreeable => <>(\/ state = "ApplicationData" /\ server.phase = "done"
                  \/ error = "Io" \/ server.phase = "aborted")
=============================================================================
