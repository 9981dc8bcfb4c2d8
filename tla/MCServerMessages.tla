-------------------------- MODULE MCServerMessages --------------------------
EXTENDS ServerMessages

Ext(code, data) == [code |-> code, list |-> <<>>, data |-> data]
List(code, list) == [code |-> code, list |-> list, data |-> <<>>]

Share == <<[group |-> "Secp256r1", opaque |-> [i \in 1 .. 65 |-> 4]]>>

(* A plain hello, one that takes a pre-shared key, and a HelloRetryRequest for
   a cookie. *)
Hellos ==
  {[type |-> "ServerHello", key_share |-> Share, exts |-> <<>>],
   [type |-> "ServerHello", key_share |-> Share, exts |-> <<Ext(41, <<0, 0>>)>>],
   [type |-> "ServerHello", key_share |-> <<>>, exts |-> <<Ext(44, <<0, 1, 7>>)>>]}

EE(exts) == [type |-> "EncryptedExtensions", exts |-> exts]

(* None; a server name, a protocol and two extensions the client does not know;
   groups it knows; a group it does not. *)
EncryptedExts ==
  {EE(<<>>), EE(<<Ext(2570, <<>>), Ext(0, <<>>), Ext(16, <<0, 3, 2, 104, 50>>), Ext(28, <<64, 1>>)>>),
   EE(<<List(10, <<29, 23>>)>>), EE(<<List(10, <<25497, 23>>)>>)}

Request(context, exts) == [type |-> "CertificateRequest", request_context |-> context, exts |-> exts]
Sigs == List(13, <<1027, 2052>>)

(* No request; one; one with an unknown scheme; one with all seven extensions. *)
Requests ==
  {<<>>, <<Request(<<>>, <<Sigs>>)>>, <<Request(<<5, 0>>, <<Sigs, Ext(2570, <<0>>)>>)>>,
   <<Request(<<>>, <<List(13, <<1027, 65281>>)>>)>>,
   <<Request(<<>>, <<Sigs, Ext(5, <<>>), Ext(18, <<>>), Ext(27, <<2, 0, 1>>), Ext(47, <<0, 0>>),
                     Ext(48, <<0, 0>>), Ext(50, <<0, 2, 4, 3>>)>>)>>}

Chain(n, exts) == [type |-> "Certificate", entries |-> [i \in 1 .. n |-> <<48, i>>], exts |-> exts]
Signed == [type |-> "CertificateVerify", scheme |-> "EcdsaSecp256r1Sha256", signature |-> <<1, 2, 0>>, exts |-> <<>>]

(* Authenticated by the pre-shared key alone, or by a chain. *)
Auths ==
  {<<>>} \cup {<<chain, Signed>> : chain \in {Chain(1, <<Ext(5, <<1, 0>>), Ext(2570, <<>>)>>), Chain(16, <<>>), Chain(17, <<>>)}}

Fin == <<[type |-> "Finished", exts |-> <<>>]>>

Ticket(exts) == [type |-> "NewSessionTicket", exts |-> exts]

Laters == {<<>>, <<Ticket(<<Ext(42, <<0, 0, 1, 0>>), Ext(2570, <<>>)>>), Ticket(<<>>)>>,
           <<[type |-> "KeyUpdate", exts |-> <<>>]>>}

(* A request comes with a chain, and only one message is unusual at a time. *)
Usual(hello, ee, request, auth) ==
  Cardinality({i \in 1 .. 4 : CASE i = 1 -> hello.key_share # <<>>
                                [] i = 2 -> Supported(ee)
                                [] i = 3 -> request = <<>> \/ Supported(request[1])
                                [] OTHER -> auth = <<>> \/ Len(auth[1].entries) = 1}) >= 3

MCFlights ==
  {<<c[1], c[2]>> \o c[3] \o c[4] \o Fin \o c[5] :
     c \in {d \in Hellos \X EncryptedExts \X Requests \X Auths \X Laters :
              (d[4] = <<>> => d[3] = <<>>) /\ Usual(d[1], d[2], d[3], d[4])}}

MCAppData == {<<>>, <<9, 0, 0>>}
MCClientCerts == {<<>>, << <<48, 130, 1>> >>}
=============================================================================
