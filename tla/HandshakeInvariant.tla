------------------------- MODULE HandshakeInvariant -------------------------
(***************************************************************************)
(* The inductive invariant of Handshake: what the client and an RFC 8446   *)
(* server compute, from the configuration alone, how far each of them has  *)
(* come, and what the records between them hold.                           *)
(***************************************************************************)
EXTENDS Handshake, WellFoundedInduction, TLAPS

-----------------------------------------------------------------------------
(* What the two sides compute, from the configuration alone. *)

ClientPsk == IF config.psk = "none" THEN Zero ELSE Psk
ServerPsk == IF config.psk = "accepted" THEN Psk ELSE Zero
Binder == Expand(Extract(Zero, ClientPsk), "ext binder", <<>>)

Hello ==
  Message("ClientHello", IF config.psk = "none" THEN <<>> ELSE Mac(Binder, <<Message("ClientHello", <<>>)>>))
Answer == Message("ServerHello", <<config.psk = "accepted">>)
Opening == <<Hello, Answer>>

HandshakeSecret(psk) == Extract(Expand(Extract(Zero, psk), "derived", <<>>), Shared)
ClientHs == HandshakeSecret(ClientPsk)
ServerHs == HandshakeSecret(ServerPsk)
Master == Extract(Expand(ServerHs, "derived", <<>>), Zero)

(* The traffic secrets of the handshake: what the server reads and writes with. *)
ReadHs == Expand(ServerHs, "c hs traffic", Opening)
WriteHs == Expand(ServerHs, "s hs traffic", Opening)

(* The server's flight; the application secrets are bound to it. *)
ServerFlight == Flight(Opening, WriteHs)
FlightLen == Len(ServerFlight)
Mid == Opening \o ServerFlight
ReadAp == Expand(Master, "c ap traffic", Mid)
WriteAp == Expand(Master, "s ap traffic", Mid)

(* Where the Certificate is in it, if there is one. *)
CertAt == IF config.request THEN 3 ELSE 2

(* What the client answers. *)
ReplyCert == IF config.request THEN <<Message("Certificate", <<config.cert>>)>> ELSE <<>>
ReplyVerify ==
  IF config.request /\ config.cert
  THEN <<Message("CertificateVerify", <<"sig", Mid \o ReplyCert>>)>> ELSE <<>>
ReplyFinished == <<Message("Finished", Mac(ReadHs, Mid \o (ReplyCert \o ReplyVerify)))>>
Reply == (ReplyCert \o ReplyVerify) \o ReplyFinished
ReplyLen == Len(Reply)

(* All messages of the handshake. *)
Said ==
  {Opening[i] : i \in 1 .. 2} \cup {ServerFlight[i] : i \in 1 .. FlightLen} \cup {Reply[i] : i \in 1 .. ReplyLen}

(* No step changes the configuration, nor what follows from it. *)
LEMMA Fixed ==
  ASSUME config' = config
  PROVE  /\ ClientPsk' = ClientPsk /\ ServerPsk' = ServerPsk /\ Binder' = Binder
         /\ Hello' = Hello /\ Answer' = Answer /\ Opening' = Opening
         /\ ClientHs' = ClientHs /\ ServerHs' = ServerHs /\ Master' = Master
         /\ ReadHs' = ReadHs /\ WriteHs' = WriteHs /\ ReadAp' = ReadAp /\ WriteAp' = WriteAp
         /\ ServerFlight' = ServerFlight /\ FlightLen' = FlightLen /\ Mid' = Mid /\ CertAt' = CertAt
         /\ Reply' = Reply /\ ReplyLen' = ReplyLen
<1>1. ClientPsk' = ClientPsk /\ ServerPsk' = ServerPsk /\ CertAt' = CertAt
  BY DEF ClientPsk, ServerPsk, CertAt
<1>2. Binder' = Binder /\ ClientHs' = ClientHs /\ ServerHs' = ServerHs /\ Master' = Master
  BY <1>1, Zenon DEF Binder, ClientHs, ServerHs, Master
<1>3. Hello' = Hello /\ Answer' = Answer /\ Opening' = Opening
  BY <1>2, Zenon DEF Hello, Answer, Opening
<1>4. ReadHs' = ReadHs /\ WriteHs' = WriteHs
  BY <1>2, <1>3, Zenon DEF ReadHs, WriteHs
<1>5. ServerFlight' = ServerFlight
  BY <1>3, <1>4, Zenon DEF ServerFlight, Flight
<1>6. FlightLen' = FlightLen /\ Mid' = Mid
  BY <1>3, <1>5, Zenon DEF FlightLen, Mid
<1>7. ReadAp' = ReadAp /\ WriteAp' = WriteAp
  BY <1>2, <1>6, Zenon DEF ReadAp, WriteAp
<1>8. ReplyCert' = ReplyCert
  BY Zenon DEF ReplyCert
<1>9. ReplyVerify' = ReplyVerify
  BY <1>6, <1>8, Zenon DEF ReplyVerify
<1>10. Reply' = Reply /\ ReplyLen' = ReplyLen
  BY <1>4, <1>6, <1>8, <1>9, Zenon DEF Reply, ReplyFinished, ReplyLen
<1> QED
  BY <1>1, <1>2, <1>3, <1>4, <1>5, <1>6, <1>7, <1>10

-----------------------------------------------------------------------------
(* Numbers and sequences, for the provers. *)

(* Induction up to n, for a set of numbers: with 0 and closed under the successor,
   it has all the numbers up to n. *)
LEMMA IntervalInduction ==
  ASSUME NEW n \in Nat, NEW S, 0 \in S, \A i \in 0 .. n - 1 : i \in S => i + 1 \in S
  PROVE  \A i \in 0 .. n : i \in S
<1> DEFINE T == {i \in 0 .. n : i \notin S}
<1> SUFFICES ASSUME T # {} PROVE FALSE
  OBVIOUS
<1>1. T \subseteq Nat
  OBVIOUS
<1>2. PICK m \in T : \A k \in T : ~(<<k, m>> \in OpToRel(<, Nat))
  BY <1>1, NatLessThanWellFounded, WFMin, Zenon
<1>3. \A k \in T : <<k, m>> \in OpToRel(<, Nat) <=> k < m
  BY <1>1 DEF OpToRel
<1>4. m \in T /\ \A k \in T : ~(k < m)
  BY <1>2, <1>3, Zenon
<1>5. m # 0 /\ m - 1 \in 0 .. n - 1 /\ m - 1 \notin T
  BY <1>4
<1> QED
  BY <1>4, <1>5

(* Two sequences in one. *)
LEMMA Joined ==
  ASSUME NEW M, NEW s \in Seq(M), NEW t \in Seq(M)
  PROVE  /\ s \o t \in Seq(M) /\ Len(s \o t) = Len(s) + Len(t)
         /\ Len(s) \in Nat /\ Len(t) \in Nat
         /\ \A i \in 1 .. Len(s) : (s \o t)[i] = s[i]
         /\ \A i \in 1 .. Len(t) : (s \o t)[Len(s) + i] = t[i]
         /\ SubSeq(s \o t, 1, Len(s)) = s
<1>1. /\ s \o t \in Seq(M) /\ Len(s \o t) = Len(s) + Len(t)
      /\ Len(s) \in Nat /\ Len(t) \in Nat
      /\ \A i \in 1 .. Len(s) : (s \o t)[i] = s[i]
      /\ \A i \in 1 .. Len(t) : (s \o t)[Len(s) + i] = t[i]
  OBVIOUS
<1>2. SubSeq(s \o t, 1, Len(s)) = s
  OBVIOUS
<1> QED
  BY <1>1, <1>2

(* Concatenation is associative. *)
LEMMA Associative ==
  ASSUME NEW M, NEW s \in Seq(M), NEW t \in Seq(M), NEW u \in Seq(M)
  PROVE  (s \o t) \o u = s \o (t \o u)
OBVIOUS

(* A sequence is one over every set that has its elements. *)
LEMMA Retyped ==
  ASSUME NEW M, NEW T, NEW s \in Seq(M), \A i \in 1 .. Len(s) : s[i] \in T
  PROVE  s \in Seq(T)
OBVIOUS

(* A prefix grows by one element. *)
LEMMA OneMore ==
  ASSUME NEW M, NEW s \in Seq(M), NEW t \in Seq(M), NEW j \in 0 .. Len(t) - 1
  PROVE  Append(s \o SubSeq(t, 1, j), t[j + 1]) = s \o SubSeq(t, 1, j + 1)
<1> DEFINE u == SubSeq(t, 1, j)
           v == SubSeq(t, 1, j + 1)
           x == t[j + 1]
<1>1. u \in Seq(M) /\ v \in Seq(M) /\ x \in M /\ v = Append(u, x)
  BY SMTT(30)
<1> HIDE DEF u, v, x
<1>2. Append(s \o u, x) = s \o Append(u, x)
  BY <1>1, SMTT(30)
<1> QED BY <1>1, <1>2, Zenon DEF u, v, x

-----------------------------------------------------------------------------
(* The shape of the flight: EncryptedExtensions, a CertificateRequest if the
   server asks, Certificate and CertificateVerify if it authenticates with them,
   and Finished.  Signature and MAC cover all that is in front of them. *)
LEMMA FlightShape ==
  ASSUME config \in Config, config.psk = "accepted" => ~config.request
  PROVE  /\ ServerFlight \in Seq(Said) /\ Opening \in Seq(Said) /\ Len(Opening) = 2
         /\ FlightLen = IF config.psk = "accepted" THEN 2 ELSE CertAt + 2
         /\ ServerFlight[1] = Message("EncryptedExtensions", <<>>)
         /\ config.request => ServerFlight[2] = Message("CertificateRequest", <<>>)
         /\ config.psk # "accepted" =>
              /\ ServerFlight[CertAt] = Message("Certificate", <<TRUE>>)
              /\ ServerFlight[CertAt + 1] =
                   Message("CertificateVerify", <<"sig", Opening \o SubSeq(ServerFlight, 1, CertAt)>>)
         /\ ServerFlight[FlightLen] =
              Message("Finished", Mac(WriteHs, Opening \o SubSeq(ServerFlight, 1, FlightLen - 1)))
<1> DEFINE a    == Message("EncryptedExtensions", <<>>)
           b    == Message("CertificateRequest", <<>>)
           c    == Message("Certificate", <<TRUE>>)
           ee   == <<a>>
           cr   == IF config.request THEN <<b>> ELSE <<>>
           cert == IF config.psk = "accepted" THEN <<>> ELSE <<c>>
           head == (ee \o cr) \o cert
           d    == Message("CertificateVerify", <<"sig", Opening \o head>>)
           cv   == IF config.psk = "accepted" THEN <<>> ELSE <<d>>
           e    == Message("Finished", Mac(WriteHs, (Opening \o head) \o cv))
           fin  == <<e>>
           M    == {Hello, Answer, a, b, c, d, e}
<1>1. ServerFlight = (head \o cv) \o fin
  BY Zenon DEF ServerFlight, Flight
<1>2. a \in M /\ b \in M /\ c \in M /\ d \in M /\ e \in M /\ Hello \in M /\ Answer \in M
  OBVIOUS
<1> HIDE DEF a, b, c, d, e, M
<1>3. /\ ee \in Seq(M) /\ Len(ee) = 1 /\ ee[1] = a
      /\ cr \in Seq(M) /\ Len(cr) = (IF config.request THEN 1 ELSE 0) /\ (config.request => cr[1] = b)
      /\ cert \in Seq(M) /\ Len(cert) = (IF config.psk = "accepted" THEN 0 ELSE 1)
      /\ config.psk # "accepted" => cert[1] = c
  BY <1>2
<1>4. /\ cv \in Seq(M) /\ Len(cv) = (IF config.psk = "accepted" THEN 0 ELSE 1)
      /\ config.psk # "accepted" => cv[1] = d
      /\ fin \in Seq(M) /\ Len(fin) = 1 /\ fin[1] = e
      /\ Opening \in Seq(M) /\ Len(Opening) = 2
  BY <1>2 DEF Opening
<1> HIDE DEF ee, cr, cert, cv, fin
<1>5. /\ ee \o cr \in Seq(M) /\ Len(ee \o cr) = IF config.request THEN 2 ELSE 1
      /\ (ee \o cr)[1] = a /\ (config.request => (ee \o cr)[2] = b)
  BY <1>3, Joined
<1> DEFINE start == ee \o cr
<1> HIDE DEF start
<1>6. /\ head \in Seq(M)
      /\ Len(head) = IF config.psk = "accepted" THEN 1 ELSE CertAt
      /\ head[1] = a /\ (config.request => head[2] = b)
      /\ config.psk # "accepted" => head[CertAt] = c
  <2>1. start \in Seq(M) /\ Len(start) = (IF config.request THEN 2 ELSE 1)
        /\ start[1] = a /\ (config.request => start[2] = b)
    BY <1>5 DEF start
  <2>2. head = start \o cert
    BY DEF start
  <2>3. CASE config.psk = "accepted"
    BY <1>3, <2>1, <2>2, <2>3, Joined, SMTT(30) DEF CertAt
  <2>4. CASE config.psk # "accepted"
    BY <1>3, <2>1, <2>2, <2>4, Joined, SMTT(30) DEF CertAt
  <2> QED BY <2>3, <2>4, Zenon
<1> HIDE DEF head
<1> DEFINE most == head \o cv
<1>7. /\ most \in Seq(M) /\ Len(most) = IF config.psk = "accepted" THEN 1 ELSE CertAt + 1
      /\ \A i \in 1 .. Len(head) : most[i] = head[i]
      /\ config.psk # "accepted" => most[CertAt + 1] = d
      /\ SubSeq(most, 1, Len(head)) = head
  <2>1. head \in Seq(M) /\ cv \in Seq(M)
    BY <1>4, <1>6
  <2>2. /\ most \in Seq(M) /\ Len(most) = Len(head) + Len(cv)
        /\ \A i \in 1 .. Len(head) : most[i] = head[i]
        /\ \A i \in 1 .. Len(cv) : most[Len(head) + i] = cv[i]
        /\ SubSeq(most, 1, Len(head)) = head
    BY <2>1, Joined, SMT
  <2> HIDE DEF most
  <2>3. CertAt \in Nat
    BY DEF CertAt
  <2> QED BY <1>4, <1>6, <2>2, <2>3
<1>8. Opening \o most = (Opening \o head) \o cv
  <2>1. Opening \in Seq(M) /\ head \in Seq(M) /\ cv \in Seq(M)
    BY <1>4, <1>6
  <2>2. (Opening \o head) \o cv = Opening \o (head \o cv)
    BY <2>1, Associative
  <2> QED BY <2>2
<1> HIDE DEF most
<1>9. ServerFlight = most \o fin
  BY <1>1 DEF most
<1>10. /\ ServerFlight \in Seq(M) /\ FlightLen = Len(most) + 1
       /\ \A i \in 1 .. Len(most) : ServerFlight[i] = most[i]
       /\ ServerFlight[FlightLen] = e
       /\ SubSeq(ServerFlight, 1, Len(most)) = most
  <2>1. most \in Seq(M) /\ fin \in Seq(M)
    BY <1>4, <1>7
  <2>2. /\ ServerFlight \in Seq(M) /\ FlightLen = Len(most) + Len(fin)
        /\ \A i \in 1 .. Len(most) : ServerFlight[i] = most[i]
        /\ \A i \in 1 .. Len(fin) : ServerFlight[Len(most) + i] = fin[i]
        /\ SubSeq(ServerFlight, 1, Len(most)) = most
    BY <1>9, <2>1, Joined, SMT DEF FlightLen
  <2> QED BY <1>4, <2>2
<1>11. Len(most) \in Nat /\ Len(head) \in 1 .. Len(most)
  BY <1>6, <1>7 DEF CertAt
<1>12. SubSeq(ServerFlight, 1, Len(head)) = head
  <2>1. SubSeq(SubSeq(ServerFlight, 1, Len(most)), 1, Len(head)) = SubSeq(ServerFlight, 1, Len(head))
    BY <1>10, <1>11
  <2> QED BY <1>7, <1>10, <2>1, Zenon
<1>13. ServerFlight \in Seq(Said) /\ Opening \in Seq(Said)
  <2>1. \A i \in 1 .. Len(ServerFlight) : ServerFlight[i] \in Said
    BY DEF Said, FlightLen
  <2>2. \A i \in 1 .. Len(Opening) : Opening[i] \in Said
    BY <1>4 DEF Said
  <2> QED BY <1>4, <1>10, <2>1, <2>2, Retyped, Zenon
<1>14. FlightLen = IF config.psk = "accepted" THEN 2 ELSE CertAt + 2
  BY <1>7, <1>10 DEF CertAt
<1>15. ServerFlight[1] = a /\ (config.request => ServerFlight[2] = b)
  BY <1>6, <1>7, <1>10, <1>11 DEF CertAt
<1>16. config.psk # "accepted" => ServerFlight[CertAt] = c /\ ServerFlight[CertAt + 1] = d
  BY <1>6, <1>7, <1>10, <1>11 DEF CertAt
<1>17. config.psk # "accepted" => d = Message("CertificateVerify", <<"sig", Opening \o SubSeq(ServerFlight, 1, CertAt)>>)
  BY <1>6, <1>12, Zenon DEF d
<1>18. e = Message("Finished", Mac(WriteHs, Opening \o SubSeq(ServerFlight, 1, FlightLen - 1)))
  <2>1. FlightLen - 1 = Len(most)
    BY <1>10, <1>11
  <2> QED BY <1>8, <1>10, <2>1, Zenon DEF e
<1> QED BY <1>4, <1>10, <1>13, <1>14, <1>15, <1>16, <1>17, <1>18 DEF a, b, c

(* The shape of the client's answer. *)
LEMMA ReplyShape ==
  ASSUME config \in Config, config.psk = "accepted" => ~config.request
  PROVE  /\ Reply \in Seq(Said) /\ Mid \in Seq(Said) /\ Len(Mid) = FlightLen + 2
         /\ ReplyLen = IF config.request THEN IF config.cert THEN 3 ELSE 2 ELSE 1
         /\ config.request => Reply[1] = Message("Certificate", <<config.cert>>)
         /\ config.request /\ config.cert =>
              Reply[2] = Message("CertificateVerify", <<"sig", Mid \o SubSeq(Reply, 1, 1)>>)
         /\ Reply[ReplyLen] = Message("Finished", Mac(ReadHs, Mid \o SubSeq(Reply, 1, ReplyLen - 1)))
<1> DEFINE a == Message("Certificate", <<config.cert>>)
           b == Message("CertificateVerify", <<"sig", Mid \o ReplyCert>>)
           c == Message("Finished", Mac(ReadHs, Mid \o (ReplyCert \o ReplyVerify)))
           M == {a, b, c}
           most == ReplyCert \o ReplyVerify
<1>1. a \in M /\ b \in M /\ c \in M
  OBVIOUS
<1>2. /\ ReplyCert = IF config.request THEN <<a>> ELSE <<>>
      /\ ReplyVerify = IF config.request /\ config.cert THEN <<b>> ELSE <<>>
      /\ ReplyFinished = <<c>>
  BY Zenon DEF ReplyCert, ReplyVerify, ReplyFinished
<1> HIDE DEF a, b, c, M
<1>3. /\ ReplyCert \in Seq(M) /\ Len(ReplyCert) = (IF config.request THEN 1 ELSE 0)
      /\ config.request => ReplyCert[1] = a
      /\ ReplyVerify \in Seq(M) /\ Len(ReplyVerify) = (IF config.request /\ config.cert THEN 1 ELSE 0)
      /\ config.request /\ config.cert => ReplyVerify[1] = b
      /\ ReplyFinished \in Seq(M) /\ Len(ReplyFinished) = 1 /\ ReplyFinished[1] = c
  BY <1>1, <1>2
<1>4. /\ most \in Seq(M) /\ Len(most) = Len(ReplyCert) + Len(ReplyVerify)
      /\ \A i \in 1 .. Len(ReplyCert) : most[i] = ReplyCert[i]
      /\ \A i \in 1 .. Len(ReplyVerify) : most[Len(ReplyCert) + i] = ReplyVerify[i]
      /\ SubSeq(most, 1, Len(ReplyCert)) = ReplyCert
  <2>1. ReplyCert \in Seq(M) /\ ReplyVerify \in Seq(M)
    BY <1>3
  <2> QED BY <2>1, Joined
<1>5. Reply = most \o ReplyFinished
  BY DEF Reply
<1>6. c = Message("Finished", Mac(ReadHs, Mid \o most))
  BY Zenon DEF c
<1> HIDE DEF most
<1>7. /\ Reply \in Seq(M) /\ ReplyLen = Len(most) + Len(ReplyFinished)
      /\ \A i \in 1 .. Len(most) : Reply[i] = most[i]
      /\ \A i \in 1 .. Len(ReplyFinished) : Reply[Len(most) + i] = ReplyFinished[i]
      /\ SubSeq(Reply, 1, Len(most)) = most
  <2>1. most \in Seq(M) /\ ReplyFinished \in Seq(M)
    BY <1>3, <1>4
  <2> QED BY <1>5, <2>1, Joined DEF ReplyLen
<1>8. Reply \in Seq(Said)
  <2>1. \A i \in 1 .. Len(Reply) : Reply[i] \in Said
    BY DEF Said, ReplyLen
  <2>2. Reply \in Seq(M)
    BY <1>7
  <2> QED BY <2>1, <2>2, Retyped
<1>9. Mid \in Seq(Said) /\ Len(Mid) = FlightLen + 2
  <2>1. ServerFlight \in Seq(Said) /\ Opening \in Seq(Said) /\ Len(Opening) = 2
    BY FlightShape
  <2>2. /\ Opening \o ServerFlight \in Seq(Said)
        /\ Len(Opening \o ServerFlight) = Len(Opening) + Len(ServerFlight) /\ Len(ServerFlight) \in Nat
    BY <2>1, Joined, Zenon
  <2> QED BY <2>1, <2>2 DEF Mid, FlightLen
<1>10. config.request \in BOOLEAN /\ config.cert \in BOOLEAN
  BY DEF Config
<1>11. ReplyLen = IF config.request THEN IF config.cert THEN 3 ELSE 2 ELSE 1
  BY <1>3, <1>4, <1>7, <1>10
<1>12. config.request => Reply[1] = a
  BY <1>3, <1>4, <1>7, <1>10
<1>13. ASSUME config.request, config.cert
       PROVE  Reply[2] = b /\ SubSeq(Reply, 1, 1) = ReplyCert
  <2>1. Len(ReplyCert) = 1 /\ Len(ReplyVerify) = 1 /\ Len(most) = 2 /\ ReplyVerify[1] = b
    BY <1>3, <1>4, <1>13
  <2>2. Reply[2] = b
    BY <1>4, <1>7, <2>1
  <2>3. SubSeq(SubSeq(Reply, 1, Len(most)), 1, 1) = SubSeq(Reply, 1, 1)
    BY <1>7, <2>1
  <2> QED BY <1>4, <1>7, <2>1, <2>2, <2>3
<1>14. Reply[ReplyLen] = c /\ SubSeq(Reply, 1, ReplyLen - 1) = most
  BY <1>3, <1>4, <1>7
<1>15. config.request /\ config.cert => Reply[2] = Message("CertificateVerify", <<"sig", Mid \o SubSeq(Reply, 1, 1)>>)
  BY <1>13, Zenon DEF b
<1>16. Reply[ReplyLen] = Message("Finished", Mac(ReadHs, Mid \o SubSeq(Reply, 1, ReplyLen - 1)))
  BY <1>6, <1>14, Zenon
<1> QED BY <1>8, <1>9, <1>11, <1>12, <1>15, <1>16, Zenon DEF a

(* Client and server come to the same secrets unless the server declines a PSK,
   and then to different ones. *)
LEMMA Secrets ==
  ASSUME config \in Config
  PROVE  /\ config.psk # "declined" => ClientHs = ServerHs
         /\ config.psk = "declined" => Expand(ClientHs, "s hs traffic", Opening) # WriteHs
         /\ ReadAp # WriteAp
<1>1. config.psk # "declined" => ClientPsk = ServerPsk
  BY DEF Config, ClientPsk, ServerPsk
<1>2. config.psk = "declined" => ClientPsk # ServerPsk
  BY DEF ClientPsk, ServerPsk, Zero, Psk
<1>3. \A a, b, l, t : Expand(a, l, t) = Expand(b, l, t) => a = b
  BY DEF Expand
<1>4. \A a, b, x : Extract(a, x) = Extract(b, x) => a = b
  BY DEF Extract
<1>5. \A a, b, x : Extract(x, a) = Extract(x, b) => a = b
  BY DEF Extract
<1>6. ReadAp # WriteAp
  BY DEF ReadAp, WriteAp, Expand
<1>7. config.psk # "declined" => ClientHs = ServerHs
  BY <1>1, Zenon DEF ClientHs, ServerHs
<1>8. ASSUME Expand(ClientHs, "s hs traffic", Opening) = WriteHs PROVE ClientPsk = ServerPsk
  <2>1. ClientHs = ServerHs
    BY <1>3, <1>8, Zenon DEF WriteHs
  <2>2. Expand(Extract(Zero, ClientPsk), "derived", <<>>) = Expand(Extract(Zero, ServerPsk), "derived", <<>>)
    BY <1>4, <2>1, Zenon DEF ClientHs, ServerHs, HandshakeSecret
  <2>3. Extract(Zero, ClientPsk) = Extract(Zero, ServerPsk)
    BY <1>3, <2>2, Zenon
  <2> QED BY <1>5, <2>3, Zenon
<1> QED BY <1>2, <1>6, <1>7, <1>8, Zenon

-----------------------------------------------------------------------------
(* The inductive invariant. *)

Keys(secret, counter) == [traffic_secret |-> secret, counter |-> counter]
Record(secret, counter, messages) == [secret |-> secret, counter |-> counter, messages |-> messages]

(* A key schedule, and one behind the derivation of h. *)
Secret(a, h, b, c, s, t) ==
  [secret |-> a, hkdf |-> h, binder_key |-> b, client_state |-> c, server_state |-> s, transcript_hash |-> t]
Schedule(h, c, s, t) == Secret(Expand(h, "derived", <<>>), h, Binder, c, s, t)

(* What the client's callback works on, its `handshake' and its verifier. *)
Stage(s, e, k, h, v) == [state |-> s, error |-> e, ks |-> k, handshake |-> h, verifier |-> v]
Kept(t, r) == [traffic_hash |-> t, certificate_request |-> r]
Verifying(t, s) == [certificate_transcript |-> t, signature |-> s]

(* They and the transcript when the first j messages of the flight are processed. *)
Transcript(j) == Opening \o SubSeq(ServerFlight, 1, j)
Asked == Kept(<<>>, TRUE)
Answered == Kept(Mid, TRUE)
NotAsked(t) == Kept(t, FALSE)
KeptAt(j) ==
  IF config.request
  THEN IF j >= 2 THEN Asked ELSE NotAsked(<<>>)
  ELSE IF j = FlightLen THEN NotAsked(Mid) ELSE NotAsked(<<>>)
Awaiting(t) == Verifying(t, FALSE)
Signed == Verifying(<<>>, TRUE)
VerifierAt(j) ==
  IF config.verifier = "none" \/ config.psk = "accepted" \/ j < CertAt THEN Awaiting(<<>>)
  ELSE IF j = CertAt THEN Awaiting(Transcript(j)) ELSE Signed
StateAt(j) ==
  IF j < FlightLen THEN "ServerVerify" ELSE IF config.request THEN "ClientCert" ELSE "ClientFinished"
ScheduleAt(j, n) ==
  Schedule(ClientHs, Keys(Expand(ClientHs, "c hs traffic", Opening), 0),
           Keys(Expand(ClientHs, "s hs traffic", Opening), n), Transcript(j))

(* The client has processed j messages of the flight and counted n records. *)
Processed(j, n) == Stage(StateAt(j), "none", ScheduleAt(j, n), KeptAt(j), VerifierAt(j))

(* A verifier that rejects is not past the Certificate, and a client whose PSK was
   declined is nowhere. *)
Possible(j) ==
  /\ config.verifier = "rejects" /\ config.psk # "accepted" => j < CertAt
  /\ config.psk = "declined" => j = 0

(* The encrypted records that the client has sent, and the server has read. *)
Sent ==
  CASE state = "ClientCertVerify" -> 1
    [] state = "ClientFinished"   -> ReplyLen - 1
    [] state = "ApplicationData"  -> ReplyLen + data.client
    [] OTHER -> 0
Received == IF server.phase = "done" THEN ReplyLen + server.read.counter ELSE server.read.counter

(* The client behind the server's flight. *)
Answering ==
  /\ config.psk # "declined"
  /\ ks = Schedule(ServerHs, Keys(ReadHs, Sent), Keys(WriteHs, ks.server_state.counter),
                   Mid \o SubSeq(Reply, 1, Sent))
  /\ handshake = IF state = "ClientCert" THEN Asked ELSE IF config.request THEN Answered ELSE NotAsked(Mid)
  /\ verifier = VerifierAt(FlightLen)

Open ==
  /\ config.psk # "declined"
  /\ ks = Schedule(Master, Keys(ReadAp, data.client), Keys(WriteAp, ks.server_state.counter), Mid)
  /\ verifier = VerifierAt(FlightLen)

ClientInv ==
  /\ state \in {"ClientHello", "ServerHello", "ServerVerify", "ClientCert", "ClientCertVerify",
                "ClientFinished", "ApplicationData", "Failed"}
  /\ state = "ClientHello" => ks = NewSchedule /\ handshake = NotAsked(<<>>) /\ verifier = VerifierAt(0)
  /\ state = "ServerHello" =>
       /\ ks = Schedule(Extract(Zero, ClientPsk), Keys(NoSecret, 1), FreshState(NoSecret), <<Hello>>)
       /\ handshake = NotAsked(<<>>) /\ verifier = VerifierAt(0)
  /\ state = "ServerVerify" =>
       \E j \in 0 .. FlightLen - 1, n \in Nat : Progress = Processed(j, n) /\ Possible(j)
  /\ state \in {"ClientCert", "ClientCertVerify", "ClientFinished"} => Answering
  /\ state = "ClientCert" => config.request
  /\ state = "ClientCertVerify" => config.request /\ config.cert
  /\ state = "ApplicationData" => Open
  /\ state \in {"ApplicationData", "Failed"} \/ data.client = 0

Peer(p, t, f, m, x, r, w, c) ==
  [phase |-> p, transcript |-> t, flight |-> f, mid |-> m, master |-> x, read |-> r, write |-> w, ccs |-> c]

ServerInv ==
  /\ server = Peer(server.phase, server.transcript, server.flight, server.mid, server.master, server.read,
                   server.write, server.ccs)
  /\ server.phase \in {"start", "flight", "finish", "done", "aborted"}
  /\ server.phase = "start" => server = ServerStart /\ down = <<>>
  /\ server.phase \in {"start", "flight"} => data.server = 0
  /\ server.phase \in {"flight", "finish", "done"} => server.mid = Mid /\ server.master = Master
  /\ server.phase = "flight" =>
       /\ server.transcript = Mid /\ server.read = Keys(ReadHs, 0)
       /\ \E n \in Nat : server.write = Keys(WriteHs, n)
       /\ \E j \in 0 .. FlightLen - 1 : server.flight = SubSeq(ServerFlight, j + 1, FlightLen)
  /\ server.phase = "finish" =>
       /\ \E q \in 0 .. ReplyLen - 1 :
            server.read = Keys(ReadHs, q) /\ server.transcript = Mid \o SubSeq(Reply, 1, q)
       /\ server.write = Keys(WriteAp, data.server)
  /\ server.phase = "done" =>
       /\ \E n \in Nat : server.read = Keys(ReadAp, n)
       /\ server.write = Keys(WriteAp, data.server)

(* The i-th encrypted record of the client, and the one it gives up with. *)
UpRecord(i) ==
  IF i <= ReplyLen THEN Record(ReadHs, i - 1, <<Reply[i]>>)
  ELSE Record(ReadAp, i - ReplyLen - 1, <<Message("Data", <<i - ReplyLen - 1>>)>>)
UpAlert(i) == Record(ReadHs, i - 1, <<Message("Alert", <<"close_notify">>)>>)

IsSequence(s) == \E S : s \in Seq(S)

UpInv ==
  /\ IsSequence(up)
  /\ server.phase # "start" => state # "ClientHello"
  /\ server.phase = "start" =>
       /\ state \in {"ClientHello", "ServerHello", "Failed"}
       /\ up \in {<<>>, <<Plain(Hello)>>}
       /\ state = "ClientHello" => up = <<>>
       /\ state = "ServerHello" => up = <<Plain(Hello)>>
  /\ server.phase \in {"flight", "finish", "done"} =>
       /\ state # "Failed" => Len(up) = Sent - Received
       /\ \A r \in 1 .. Len(up) :
            \/ up[r] = UpRecord(Received + r)
            \/ state = "Failed" /\ Received + r <= ReplyLen /\ up[r] = UpAlert(Received + r)

(* A place in what the server sends: the messages of its flight in front of it,
   -1 in front of the ServerHello, and the records under the same key. *)
Place(pos, counter) == [pos |-> pos, counter |-> counter]
Places == [pos : -1 .. FlightLen, counter : Nat]

ClientAt ==
  IF state = "ServerVerify" THEN Place(Len(ks.transcript_hash) - 2, ks.server_state.counter)
  ELSE IF state \in {"ClientCert", "ClientCertVerify", "ClientFinished"} THEN Place(FlightLen, 0)
  ELSE IF state = "ApplicationData" THEN Place(FlightLen, ks.server_state.counter)
  ELSE Place(-1, 0)
ServerAt ==
  CASE server.phase = "start"  -> Place(-1, 0)
    [] server.phase = "flight" -> Place(FlightLen - Len(server.flight), server.write.counter)
    [] OTHER -> Place(FlightLen, server.write.counter)

(* Record r leads from place a to place b. *)
Leads(a, r, b) ==
  \/ a = Place(-1, 0) /\ r = Plain(Answer) /\ b = Place(0, 0)
  \/ a.pos \in 0 .. FlightLen - 1 /\ r = Plain(Message("ChangeCipherSpec", <<>>)) /\ b = a
  \/ /\ a.pos \in 0 .. FlightLen - 1 /\ b.pos \in a.pos + 1 .. FlightLen
     /\ r = Record(WriteHs, a.counter, SubSeq(ServerFlight, a.pos + 1, b.pos))
     /\ b.counter = IF b.pos < FlightLen THEN a.counter + 1 ELSE 0
  \/ a.pos = FlightLen /\ r = Record(WriteAp, a.counter, <<Message("Data", <<>>)>>) /\ b = Place(FlightLen, a.counter + 1)

(* The server gives up at place a. *)
Aborts(a, r) ==
  \/ a = Place(-1, 0) /\ r = Plain(Message("Alert", <<>>))
  \/ a.pos \in 0 .. FlightLen - 1 /\ r = Record(WriteHs, a.counter, <<Message("Alert", <<>>)>>)

(* The records d lead from place a to place b. *)
Way(a, d, b) ==
  \E g \in [0 .. Len(d) -> Places] :
    g[0] = a /\ g[Len(d)] = b /\ \A r \in 1 .. Len(d) : Leads(g[r - 1], d[r], g[r])

(* The records d on the way to a client at place a; an alert comes last. *)
Behind(a, d) ==
  /\ server.phase # "aborted" => Way(a, d, ServerAt)
  /\ server.phase = "aborted" => \E e, r, b : IsSequence(e) /\ d = Append(e, r) /\ Way(a, e, b) /\ Aborts(b, r)

DownInv == IsSequence(down) /\ (state # "Failed" => Behind(ClientAt, down))

IInv ==
  /\ config \in Configs /\ data \in [client : Nat, server : Nat]
  /\ FailuresExplained /\ ClientInv /\ ServerInv /\ UpInv /\ DownInv

-----------------------------------------------------------------------------
(* Ways. *)

(* An element more at the end. *)
LEMMA Appended ==
  ASSUME NEW s, NEW x, IsSequence(s)
  PROVE  /\ IsSequence(Append(s, x)) /\ Len(s) \in Nat /\ Len(Append(s, x)) = Len(s) + 1
         /\ \A i \in 1 .. Len(s) : Append(s, x)[i] = s[i]
         /\ Append(s, x)[Len(s) + 1] = x
         /\ Append(s, x) # <<>> /\ Head(Append(s, x)) = IF s = <<>> THEN x ELSE Head(s)
         /\ Tail(Append(s, x)) = IF s = <<>> THEN <<>> ELSE Append(Tail(s), x)
<1>1. PICK S : s \in Seq(S)
  BY DEF IsSequence
<1> DEFINE T == S \cup {x}
<1>2. s \in Seq(T) /\ x \in T
  <2>1. \A i \in 1 .. Len(s) : s[i] \in T
    BY <1>1
  <2> HIDE DEF T
  <2>2. s \in Seq(T)
    BY <1>1, <2>1, Retyped
  <2> QED BY <2>2 DEF T
<1> HIDE DEF T
<1>3. Append(s, x) \in Seq(T)
  BY <1>2
<1>4. /\ Len(s) \in Nat /\ Len(Append(s, x)) = Len(s) + 1
      /\ \A i \in 1 .. Len(s) : Append(s, x)[i] = s[i]
      /\ Append(s, x)[Len(s) + 1] = x
      /\ Append(s, x) # <<>>
  BY <1>2
<1>5. Head(Append(s, x)) = IF s = <<>> THEN x ELSE Head(s)
  BY <1>2
<1>6. Tail(Append(s, x)) = IF s = <<>> THEN <<>> ELSE Append(Tail(s), x)
  BY <1>2
<1> QED BY <1>3, <1>4, <1>5, <1>6 DEF IsSequence

(* The first element, and the others. *)
LEMMA Rest ==
  ASSUME NEW s, IsSequence(s), s # <<>>
  PROVE  /\ IsSequence(Tail(s)) /\ Len(s) \in Nat \ {0} /\ Len(Tail(s)) = Len(s) - 1
         /\ Head(s) = s[1] /\ \A i \in 1 .. Len(s) - 1 : Tail(s)[i] = s[i + 1]
<1>1. PICK S : s \in Seq(S)
  BY DEF IsSequence
<1>2. Tail(s) \in Seq(S)
  BY <1>1
<1> QED BY <1>1, <1>2 DEF IsSequence

(* No records lead from a place to itself. *)
LEMMA EmptyWay ==
  ASSUME NEW a \in Places PROVE Way(a, <<>>, a)
<1> DEFINE g == [i \in 0 .. 0 |-> a]
<1>1. g \in [0 .. Len(<<>>) -> Places] /\ g[0] = a /\ g[Len(<<>>)] = a
  OBVIOUS
<1>2. \A r \in 1 .. Len(<<>>) : Leads(g[r - 1], <<>>[r], g[r])
  OBVIOUS
<1> HIDE DEF g
<1> QED BY <1>1, <1>2 DEF Way

(* They lead nowhere else. *)
LEMMA NoWay ==
  ASSUME NEW a, NEW b, Way(a, <<>>, b) PROVE a = b
BY DEF Way

(* One more record at the end of the way. *)
LEMMA WayOn ==
  ASSUME NEW a, NEW b, NEW d, IsSequence(d), Way(a, d, b), NEW r, NEW c \in Places, Leads(b, r, c)
  PROVE  Way(a, Append(d, r), c)
<1>1. PICK g \in [0 .. Len(d) -> Places] :
        g[0] = a /\ g[Len(d)] = b /\ \A i \in 1 .. Len(d) : Leads(g[i - 1], d[i], g[i])
  BY DEF Way
<1>2. /\ Len(d) \in Nat /\ Len(Append(d, r)) = Len(d) + 1 /\ Append(d, r)[Len(d) + 1] = r
      /\ \A i \in 1 .. Len(d) : Append(d, r)[i] = d[i]
  BY Appended
<1> DEFINE n == Len(d)
           e == Append(d, r)
           h == [i \in 0 .. n + 1 |-> IF i = n + 1 THEN c ELSE g[i]]
<1> HIDE DEF e
<1>3. h \in [0 .. Len(e) -> Places] /\ h[0] = a /\ h[Len(e)] = c
  BY <1>1, <1>2 DEF e
<1>4. ASSUME NEW i \in 1 .. Len(e) PROVE Leads(h[i - 1], e[i], h[i])
  <2>1. CASE i = n + 1
    <3>1. h[i - 1] = b /\ e[i] = r /\ h[i] = c
      BY <1>1, <1>2, <2>1 DEF e
    <3> QED BY <3>1
  <2>2. CASE i \in 1 .. n
    <3>1. h[i - 1] = g[i - 1] /\ e[i] = d[i] /\ h[i] = g[i]
      BY <1>1, <1>2, <2>2 DEF e
    <3> QED BY <1>1, <2>2, <3>1
  <2> QED BY <1>2, <2>1, <2>2 DEF e
<1> HIDE DEF h
<1>5. Way(a, e, c)
  BY <1>3, <1>4, Zenon DEF Way
<1> QED BY <1>5 DEF e

(* The way without its first record. *)
LEMMA WayFrom ==
  ASSUME NEW a, NEW b, NEW d, IsSequence(d), d # <<>>, Way(a, d, b)
  PROVE  \E c \in Places : a \in Places /\ Leads(a, Head(d), c) /\ Way(c, Tail(d), b)
<1>1. PICK g \in [0 .. Len(d) -> Places] :
        g[0] = a /\ g[Len(d)] = b /\ \A i \in 1 .. Len(d) : Leads(g[i - 1], d[i], g[i])
  BY SMTT(30) DEF Way
<1>2. /\ Len(d) \in Nat \ {0} /\ Len(Tail(d)) = Len(d) - 1 /\ Head(d) = d[1]
      /\ \A i \in 1 .. Len(d) - 1 : Tail(d)[i] = d[i + 1]
  BY Rest
<1> DEFINE n == Len(d)
           e == Tail(d)
           h == [i \in 0 .. n - 1 |-> g[i + 1]]
<1> HIDE DEF e
<1>3. h \in [0 .. Len(e) -> Places] /\ h[0] = g[1] /\ h[Len(e)] = b
  BY <1>1, <1>2 DEF e
<1>4. ASSUME NEW i \in 1 .. Len(e) PROVE Leads(h[i - 1], e[i], h[i])
  <2>1. h[i - 1] = g[i] /\ e[i] = d[i + 1] /\ h[i] = g[i + 1] /\ i + 1 \in 1 .. Len(d)
    BY <1>2 DEF e
  <2>2. Leads(g[(i + 1) - 1], d[i + 1], g[i + 1])
    BY <1>1, <2>1
  <2> QED BY <2>1, <2>2
<1> HIDE DEF h
<1>5. Way(g[1], e, b)
  BY <1>3, <1>4 DEF Way
<1>6. g[1] \in Places /\ a \in Places /\ Leads(a, Head(d), g[1])
  BY <1>1, <1>2
<1> QED BY <1>5, <1>6 DEF e

(* Behind the flight there is only application data. *)
LEMMA WayBehind ==
  ASSUME NEW n, NEW b, NEW d, IsSequence(d), Way(Place(FlightLen, n), d, b), FlightLen \in Nat
  PROVE  n \in Nat /\ Len(d) \in Nat /\ b = Place(FlightLen, n + Len(d))
<1>1. PICK g \in [0 .. Len(d) -> Places] :
        /\ g[0] = Place(FlightLen, n) /\ g[Len(d)] = b
        /\ \A i \in 1 .. Len(d) : Leads(g[i - 1], d[i], g[i])
  BY SMTT(30) DEF Way
<1>2. Len(d) \in Nat
  BY Appended
<1>3. n \in Nat
  BY <1>1, <1>2 DEF Places, Place
<1> DEFINE S == {i \in Nat : g[i] = Place(FlightLen, n + i)}
<1>4. 0 \in S
  BY <1>1, <1>3
<1>5. ASSUME NEW i \in 0 .. Len(d) - 1, i \in S PROVE i + 1 \in S
  <2>1. Leads(g[i], d[i + 1], g[i + 1])
    <3>1. i + 1 \in 1 .. Len(d) /\ (i + 1) - 1 = i
      BY <1>2
    <3> QED BY <1>1, <3>1
  <2>2. g[i] = Place(FlightLen, n + i)
    BY <1>5
  <2>3. g[i + 1] = Place(FlightLen, (n + i) + 1)
    BY <2>1, <2>2 DEF Leads, Place
  <2> QED BY <1>3, <2>3
<1> HIDE DEF S
<1>6. \A i \in 0 .. Len(d) : i \in S
  BY <1>2, <1>4, <1>5, IntervalInduction, Zenon
<1> QED BY <1>1, <1>2, <1>3, <1>6 DEF S

-----------------------------------------------------------------------------
(* The messages of the flight, one at a time. *)

(* The callback fails. *)
LEMMA StageRejected ==
  \A s, e, k, h, v, x : Rejected(Stage(s, e, k, h, v), x) = Stage("Failed", x, k, h, v)
<1> TAKE s, e, k, h, v, x
<1>1. [Stage(s, e, k, h, v) EXCEPT !.state = "Failed"] = Stage("Failed", e, k, h, v)
  BY DEF Stage
<1>2. [Stage("Failed", e, k, h, v) EXCEPT !.error = x] = Stage("Failed", x, k, h, v)
  BY DEF Stage
<1> QED BY <1>1, <1>2, Zenon DEF Rejected

(* The fields of `handshake'. *)
LEMMA KeptFields ==
  \A t, r, x : /\ Kept(t, r).traffic_hash = t /\ Kept(t, r).certificate_request = r
               /\ [Kept(t, r) EXCEPT !.certificate_request = x] = Kept(t, x)
               /\ [Kept(t, r) EXCEPT !.traffic_hash = x] = Kept(x, r)
BY DEF Kept

(* The callback notes a CertificateRequest. *)
LEMMA StageRequested ==
  ASSUME NEW s, NEW e, NEW k, NEW v
  PROVE  [Stage(s, e, k, NotAsked(<<>>), v) EXCEPT !.handshake.certificate_request = TRUE] = Stage(s, e, k, Asked, v)
<1> DEFINE z == TRUE
           y == FALSE
           t == <<>>
<1> HIDE DEF z, y, t
<1>1. [Kept(t, y) EXCEPT !.certificate_request = z] = Kept(t, z)
  BY DEF Kept
<1>2. [Stage(s, e, k, Kept(t, y), v) EXCEPT !.handshake.certificate_request = z] =
        Stage(s, e, k, [Kept(t, y) EXCEPT !.certificate_request = z], v)
  BY DEF Stage
<1>3. [Stage(s, e, k, Kept(t, y), v) EXCEPT !.handshake.certificate_request = z] = Stage(s, e, k, Kept(t, z), v)
  BY <1>1, <1>2, Zenon
<1> QED BY <1>3, Zenon DEF z, y, t, Asked, NotAsked

(* The name of a message. *)
LEMMA Named == \A n, b : Name(Message(n, b)) = n /\ Message(n, b)[2] = b
BY DEF Name, Message

(* The callback, by the message. *)
LEMMA HandleByName ==
  ASSUME NEW s, NEW k, NEW h, NEW v, NEW m
  PROVE  LET p == Stage(s, "none", k, h, v)
             q == Stage(s, "none", update(k, m), h, v)
         IN  /\ Name(m) = "EncryptedExtensions" => HandleMessage(p, m) = q
             /\ Name(m) = "CertificateRequest" =>
                  HandleMessage(p, m) = [q EXCEPT !.handshake.certificate_request = TRUE]
             /\ Name(m) = "Certificate" => HandleMessage(p, m) = verify_certificate(q)
             /\ Name(m) = "CertificateVerify" => HandleMessage(p, m) = verify_signature(q, m[2])
             /\ Name(m) = "Finished" => HandleMessage(p, m) = finished(q, m[2], k.transcript_hash)
             /\ Name(m) = "Alert" => HandleMessage(p, m) = Stage("Failed", "InvalidRecord", k, h, v)
<1> DEFINE p == Stage(s, "none", k, h, v)
           q == Stage(s, "none", update(k, m), h, v)
<1>1. /\ p.error = "none" /\ p.ks = k
      /\ [p EXCEPT !.ks = update(p.ks, m)] = q
      /\ Rejected(p, "InvalidRecord") = Stage("Failed", "InvalidRecord", k, h, v)
  <2>1. p.error = "none" /\ p.ks = k
    BY DEF Stage
  <2>2. [p EXCEPT !.ks = update(k, m)] = q
    BY DEF Stage
  <2>3. Rejected(p, "InvalidRecord") = Stage("Failed", "InvalidRecord", k, h, v)
    BY StageRejected
  <2> QED BY <2>1, <2>2, <2>3, Zenon
<1> HIDE DEF p, q
<1>2. /\ Name(m) = "EncryptedExtensions" => HandleMessage(p, m) = q
      /\ Name(m) = "CertificateRequest" => HandleMessage(p, m) = [q EXCEPT !.handshake.certificate_request = TRUE]
      /\ Name(m) = "Certificate" => HandleMessage(p, m) = verify_certificate(q)
      /\ Name(m) = "CertificateVerify" => HandleMessage(p, m) = verify_signature(q, m[2])
      /\ Name(m) = "Finished" => HandleMessage(p, m) = finished(q, m[2], k.transcript_hash)
      /\ Name(m) = "Alert" => HandleMessage(p, m) = Rejected(p, "InvalidRecord")
  BY <1>1, Zenon DEF HandleMessage
<1> QED BY <1>1, <1>2, Zenon DEF p, q

(* The certificate was refused, and the messages behind it are not looked at. *)
Refused(p) == p.state = "Failed" /\ p.error = "InvalidCertificate" /\ config.verifier = "rejects"

(* After an error nothing is looked at. *)
LEMMA RefusedStays ==
  ASSUME NEW p, NEW m, Refused(p) PROVE HandleMessage(p, m) = p
BY DEF Refused, HandleMessage

(* What is kept from message to message. *)
LEMMA StageSteps ==
  ASSUME config \in Config, config.psk = "accepted" => ~config.request,
         NEW j \in 0 .. FlightLen - 1, NEW n
  PROVE  /\ FlightLen \in Nat /\ CertAt = (IF config.request THEN 3 ELSE 2)
         /\ FlightLen = IF config.psk = "accepted" THEN 2 ELSE CertAt + 2
         /\ update(ScheduleAt(j, n), ServerFlight[j + 1]) = ScheduleAt(j + 1, n)
         /\ ScheduleAt(j, n).transcript_hash = Transcript(j)
         /\ StateAt(j) = "ServerVerify" /\ (j + 1 < FlightLen => StateAt(j + 1) = "ServerVerify")
<1>1. ServerFlight \in Seq(Said) /\ Opening \in Seq(Said)
  BY FlightShape
<1>2. FlightLen \in Nat /\ FlightLen = Len(ServerFlight)
  BY <1>1 DEF FlightLen
<1>3. CertAt = (IF config.request THEN 3 ELSE 2) /\ FlightLen = (IF config.psk = "accepted" THEN 2 ELSE CertAt + 2)
  BY FlightShape DEF CertAt
<1>4. Append(Transcript(j), ServerFlight[j + 1]) = Transcript(j + 1)
  BY <1>1, <1>2, OneMore, Zenon DEF Transcript
<1>5. update(ScheduleAt(j, n), ServerFlight[j + 1]) = ScheduleAt(j + 1, n)
  <2>1. \A h, c, s, t, m : update(Schedule(h, c, s, t), m) = Schedule(h, c, s, Append(t, m))
    BY SMTT(30) DEF update, Schedule, Secret
  <2> DEFINE c == Keys(Expand(ClientHs, "c hs traffic", Opening), 0)
             s == Keys(Expand(ClientHs, "s hs traffic", Opening), n)
  <2>2. \A i : ScheduleAt(i, n) = Schedule(ClientHs, c, s, Transcript(i))
    BY Zenon DEF ScheduleAt
  <2> HIDE DEF c, s
  <2>3. update(Schedule(ClientHs, c, s, Transcript(j)), ServerFlight[j + 1]) =
          Schedule(ClientHs, c, s, Append(Transcript(j), ServerFlight[j + 1]))
    BY <2>1
  <2> QED BY <1>4, <2>2, <2>3, Zenon
<1>6. ScheduleAt(j, n).transcript_hash = Transcript(j)
  BY DEF ScheduleAt, Schedule, Secret
<1> QED BY <1>2, <1>3, <1>5, <1>6 DEF StateAt

(* How `handshake' goes on from message to message. *)
LEMMA KeptSteps ==
  ASSUME NEW j \in Nat, FlightLen \in Nat
  PROVE  /\ j < FlightLen /\ (~config.request \/ j < 2) => KeptAt(j) = NotAsked(<<>>)
         /\ config.request /\ j >= 2 => KeptAt(j) = Asked
         /\ j = FlightLen /\ ~config.request => KeptAt(j) = NotAsked(Mid)
BY DEF KeptAt

(* How the verifier goes on. *)
LEMMA VerifierSteps ==
  ASSUME NEW j \in Nat, CertAt \in Nat
  PROVE  /\ config.verifier = "none" \/ config.psk = "accepted" \/ j < CertAt => VerifierAt(j) = Awaiting(<<>>)
         /\ config.verifier # "none" /\ config.psk # "accepted" /\ j = CertAt => VerifierAt(j) = Awaiting(Transcript(j))
         /\ config.verifier # "none" /\ config.psk # "accepted" /\ j > CertAt => VerifierAt(j) = Signed
BY DEF VerifierAt

(* A verifier that was given the transcript up to the Certificate accepts the
   signature over it, and a client with the server's secrets its Finished. *)
LEMMA CallbackSteps ==
  ASSUME NEW s, NEW k, NEW h, NEW t
  PROVE  /\ config.verifier = "none" =>
              verify_certificate(Stage(s, "none", k, h, Awaiting(t))) = Stage(s, "none", k, h, Awaiting(t))
         /\ config.verifier = "rejects" =>
              verify_certificate(Stage(s, "none", k, h, Awaiting(t))) =
                Stage("Failed", "InvalidCertificate", k, h, Awaiting(t))
         /\ config.verifier \notin {"none", "rejects"} =>
              verify_certificate(Stage(s, "none", k, h, Awaiting(t))) =
                Stage(s, "none", k, h, Awaiting(k.transcript_hash))
         /\ config.verifier = "none" =>
              \A x : verify_signature(Stage(s, "none", k, h, Awaiting(t)), x) = Stage(s, "none", k, h, Awaiting(t))
         /\ config.verifier # "none" /\ t # <<>> =>
              verify_signature(Stage(s, "none", k, h, Awaiting(t)), <<"sig", t>>) = Stage(s, "none", k, h, Signed)
<1> DEFINE p == Stage(s, "none", k, h, Awaiting(t))
<1>1. p.ks = k /\ p.verifier.certificate_transcript = t
  BY DEF Stage, Awaiting, Verifying
<1>2. Rejected(p, "InvalidCertificate") = Stage("Failed", "InvalidCertificate", k, h, Awaiting(t))
  BY StageRejected
<1>3. [p EXCEPT !.verifier.certificate_transcript = k.transcript_hash] =
        Stage(s, "none", k, h, Awaiting(k.transcript_hash))
  <2> DEFINE x == k.transcript_hash
             f == FALSE
             r == Stage(s, "none", k, h, Verifying(t, f))
  <2> HIDE DEF x, f
  <2>1. [Verifying(t, f) EXCEPT !.certificate_transcript = x] = Verifying(x, f)
    BY DEF Verifying
  <2>2. [r EXCEPT !.verifier.certificate_transcript = x] =
          Stage(s, "none", k, h, [Verifying(t, f) EXCEPT !.certificate_transcript = x])
    BY DEF Stage
  <2>3. [r EXCEPT !.verifier.certificate_transcript = x] = Stage(s, "none", k, h, Verifying(x, f))
    BY <2>1, <2>2, Zenon
  <2> QED BY <2>3, Zenon DEF x, f, Awaiting
<1>4. [p EXCEPT !.verifier = Signed] = Stage(s, "none", k, h, Signed)
  BY DEF Stage
<1> HIDE DEF p
<1>5. /\ config.verifier = "none" => verify_certificate(p) = p
      /\ config.verifier = "rejects" => verify_certificate(p) = Rejected(p, "InvalidCertificate")
  BY DEF verify_certificate
<1>6. config.verifier \notin {"none", "rejects"} =>
        verify_certificate(p) = [p EXCEPT !.verifier.certificate_transcript = k.transcript_hash]
  BY <1>1, Zenon DEF verify_certificate
<1>7. config.verifier = "none" => \A x : verify_signature(p, x) = p
  BY DEF verify_signature
<1>8. config.verifier # "none" /\ t # <<>> =>
        verify_signature(p, <<"sig", t>>) = [p EXCEPT !.verifier = Signed]
  BY <1>1, Zenon DEF verify_signature, Verifying, Signed
<1> QED BY <1>2, <1>3, <1>4, <1>5, <1>6, <1>7, <1>8, Zenon DEF p

(* The server's Finished, the last message of the flight, verifies under the same transcript. *)
LEMMA FinishedStep ==
  ASSUME NEW s, NEW k, NEW t, NEW v, NEW x, NEW y, verify_server_finished(k, x, y)
  PROVE  /\ finished(Stage(s, "none", k, Asked, v), x, y) = Stage("ClientCert", "none", k, Asked, v)
         /\ finished(Stage(s, "none", k, NotAsked(t), v), x, y) =
              Stage("ClientFinished", "none", k, NotAsked(k.transcript_hash), v)
<1> DEFINE p == Stage(s, "none", k, Asked, v)
           q == Stage(s, "none", k, NotAsked(t), v)
<1>1. p.ks = k /\ p.handshake = Asked /\ q.ks = k /\ q.handshake = NotAsked(t)
  BY DEF Stage
<1>2. Asked.certificate_request = TRUE /\ NotAsked(t).certificate_request = FALSE
  BY DEF Kept, Asked, NotAsked
<1>3. [p EXCEPT !.state = "ClientCert"] = Stage("ClientCert", "none", k, Asked, v)
  BY DEF Stage
<1>4. [q EXCEPT !.state = "ClientFinished", !.handshake.traffic_hash = k.transcript_hash] =
        Stage("ClientFinished", "none", k, NotAsked(k.transcript_hash), v)
  <2> DEFINE f == FALSE
             g == k.transcript_hash
             r == Stage(s, "none", k, Kept(t, f), v)
  <2> HIDE DEF f, g
  <2>1. [r EXCEPT !.state = "ClientFinished"] = Stage("ClientFinished", "none", k, Kept(t, f), v)
    BY DEF Stage
  <2>2. [Kept(t, f) EXCEPT !.traffic_hash = g] = Kept(g, f)
    BY DEF Kept
  <2>3. [Stage("ClientFinished", "none", k, Kept(t, f), v) EXCEPT !.handshake.traffic_hash = g] =
          Stage("ClientFinished", "none", k, [Kept(t, f) EXCEPT !.traffic_hash = g], v)
    BY DEF Stage
  <2>4. [Stage("ClientFinished", "none", k, Kept(t, f), v) EXCEPT !.handshake.traffic_hash = g] =
          Stage("ClientFinished", "none", k, Kept(g, f), v)
    BY <2>2, <2>3, Zenon
  <2>5. [r EXCEPT !.state = "ClientFinished", !.handshake.traffic_hash = g] =
          [[r EXCEPT !.state = "ClientFinished"] EXCEPT !.handshake.traffic_hash = g]
    OBVIOUS
  <2>6. [r EXCEPT !.state = "ClientFinished", !.handshake.traffic_hash = g] =
          Stage("ClientFinished", "none", k, Kept(g, f), v)
    BY <2>1, <2>4, <2>5, Zenon
  <2> QED BY <2>6, Zenon DEF f, g, NotAsked
<1>5. p.handshake.certificate_request = TRUE /\ q.handshake.certificate_request = FALSE
  BY <1>1, <1>2, Zenon
<1>6. p.ks = k /\ q.ks = k
  BY <1>1
<1> HIDE DEF p, q
<1>7. finished(p, x, y) = [p EXCEPT !.state = "ClientCert"]
  BY <1>5, <1>6, Zenon DEF finished
<1>8. finished(q, x, y) = [q EXCEPT !.state = "ClientFinished", !.handshake.traffic_hash = k.transcript_hash]
  BY <1>5, <1>6, Zenon DEF finished
<1> QED BY <1>3, <1>4, <1>7, <1>8, Zenon DEF p, q

(* One message of the flight takes the client one place further, unless it is a
   Certificate that the verifier rejects. *)
LEMMA MessageStep ==
  ASSUME config \in Config, config.psk = "accepted" => ~config.request, config.psk # "declined",
         NEW j \in 0 .. FlightLen - 1, NEW n, Possible(j)
  PROVE  LET q == HandleMessage(Processed(j, n), ServerFlight[j + 1])
         IN  Refused(q) \/ (q = Processed(j + 1, n) /\ Possible(j + 1))
<1> DEFINE m == ServerFlight[j + 1]
           k == ScheduleAt(j, n)
           l == ScheduleAt(j + 1, n)
           q == HandleMessage(Processed(j, n), m)
           u == Stage("ServerVerify", "none", l, KeptAt(j), VerifierAt(j))
<1>1. /\ FlightLen \in Nat /\ CertAt = (IF config.request THEN 3 ELSE 2)
      /\ FlightLen = IF config.psk = "accepted" THEN 2 ELSE CertAt + 2
      /\ update(k, m) = l /\ k.transcript_hash = Transcript(j)
      /\ StateAt(j) = "ServerVerify" /\ (j + 1 < FlightLen => StateAt(j + 1) = "ServerVerify")
  BY StageSteps
<1>2. l.transcript_hash = Transcript(j + 1)
  BY DEF ScheduleAt, Schedule, Secret
<1>3. /\ config.request \in BOOLEAN /\ config.psk \in {"none", "accepted"}
      /\ config.verifier \in {"none", "accepts", "rejects"}
  BY DEF Config
<1>4. Processed(j, n) = Stage("ServerVerify", "none", k, KeptAt(j), VerifierAt(j))
  BY <1>1, Zenon DEF Processed
<1>5. j + 1 < FlightLen =>
        Processed(j + 1, n) = Stage("ServerVerify", "none", l, KeptAt(j + 1), VerifierAt(j + 1))
  BY <1>1, Zenon DEF Processed
<1> HIDE DEF m, k, l
<1>6. /\ Name(m) = "EncryptedExtensions" => q = u
      /\ Name(m) = "CertificateRequest" => q = [u EXCEPT !.handshake.certificate_request = TRUE]
      /\ Name(m) = "Certificate" => q = verify_certificate(u)
      /\ Name(m) = "CertificateVerify" => q = verify_signature(u, m[2])
      /\ Name(m) = "Finished" => q = finished(u, m[2], Transcript(j))
  <2> DEFINE p == Stage("ServerVerify", "none", k, KeptAt(j), VerifierAt(j))
             w == Stage("ServerVerify", "none", update(k, m), KeptAt(j), VerifierAt(j))
  <2>1. /\ Name(m) = "EncryptedExtensions" => HandleMessage(p, m) = w
        /\ Name(m) = "CertificateRequest" => HandleMessage(p, m) = [w EXCEPT !.handshake.certificate_request = TRUE]
        /\ Name(m) = "Certificate" => HandleMessage(p, m) = verify_certificate(w)
        /\ Name(m) = "CertificateVerify" => HandleMessage(p, m) = verify_signature(w, m[2])
        /\ Name(m) = "Finished" => HandleMessage(p, m) = finished(w, m[2], k.transcript_hash)
    BY HandleByName
  <2>2. p = Processed(j, n) /\ w = u
    BY <1>1, <1>4, Zenon
  <2> HIDE DEF p, w, u
  <2> QED BY <1>1, <2>1, <2>2, Zenon
<1> HIDE DEF q
<1>7. CASE j = 0
  <2>1. m = Message("EncryptedExtensions", <<>>)
    BY <1>7, FlightShape DEF m
  <2>2. Name(m) = "EncryptedExtensions"
    BY <2>1, Named
  <2>3. KeptAt(j) = KeptAt(j + 1) /\ VerifierAt(j) = VerifierAt(j + 1) /\ j + 1 < FlightLen
    <3>1. KeptAt(j) = NotAsked(<<>>) /\ KeptAt(j + 1) = NotAsked(<<>>) /\ j + 1 < FlightLen
      BY <1>1, <1>3, <1>7, KeptSteps
    <3>2. VerifierAt(j) = Awaiting(<<>>) /\ VerifierAt(j + 1) = Awaiting(<<>>)
      BY <1>1, <1>3, <1>7, VerifierSteps
    <3> QED BY <3>1, <3>2
  <2>4. q = Processed(j + 1, n)
    BY <1>5, <1>6, <2>2, <2>3, Zenon
  <2>5. Possible(j + 1)
    BY <1>1, <1>7 DEF Possible
  <2> QED BY <2>4, <2>5 DEF q, m
<1>8. CASE config.request /\ j = 1
  <2>1. m = Message("CertificateRequest", <<>>)
    BY <1>8, FlightShape DEF m
  <2>2. Name(m) = "CertificateRequest"
    BY <2>1, Named
  <2>3. VerifierAt(j) = VerifierAt(j + 1) /\ j + 1 < FlightLen
    <3>1. VerifierAt(j) = Awaiting(<<>>) /\ VerifierAt(j + 1) = Awaiting(<<>>) /\ j + 1 < FlightLen
      BY <1>1, <1>3, <1>8, VerifierSteps
    <3> QED BY <3>1
  <2>4. KeptAt(j) = NotAsked(<<>>) /\ KeptAt(j + 1) = Asked
    <3>1. KeptAt(j) = NotAsked(<<>>)
      BY <1>1, <1>8, KeptSteps
    <3>2. KeptAt(j + 1) = Asked
      BY <1>1, <1>8, KeptSteps
    <3> QED BY <3>1, <3>2
  <2>5. q = Processed(j + 1, n)
    <3>1. [Stage("ServerVerify", "none", l, NotAsked(<<>>), VerifierAt(j)) EXCEPT !.handshake.certificate_request = TRUE]
            = Stage("ServerVerify", "none", l, Asked, VerifierAt(j))
      BY StageRequested
    <3> QED BY <1>5, <1>6, <2>2, <2>3, <2>4, <3>1, Zenon
  <2>6. Possible(j + 1)
    BY <1>1, <1>8 DEF Possible
  <2> QED BY <2>5, <2>6 DEF q, m
<1>9. CASE config.psk # "accepted" /\ j + 1 = CertAt
  <2>1. m = Message("Certificate", <<TRUE>>)
    BY <1>1, <1>9, FlightShape DEF m
  <2>2. Name(m) = "Certificate"
    BY <2>1, Named
  <2>3. KeptAt(j) = KeptAt(j + 1) /\ j + 1 < FlightLen
    <3>1. CASE config.request
      <4>1. KeptAt(j) = Asked /\ KeptAt(j + 1) = Asked /\ j + 1 < FlightLen
        BY <1>1, <1>9, <3>1, KeptSteps
      <4> QED BY <4>1
    <3>2. CASE ~config.request
      <4>1. KeptAt(j) = NotAsked(<<>>) /\ KeptAt(j + 1) = NotAsked(<<>>) /\ j + 1 < FlightLen
        BY <1>1, <1>9, <3>2, KeptSteps
      <4> QED BY <4>1
    <3> QED BY <3>1, <3>2
  <2>4. VerifierAt(j) = Awaiting(<<>>)
    BY <1>1, <1>9, VerifierSteps
  <2>5. /\ config.verifier = "none" => q = u
        /\ config.verifier = "rejects" => q = Stage("Failed", "InvalidCertificate", l, KeptAt(j), VerifierAt(j))
        /\ config.verifier = "accepts" =>
             q = Stage("ServerVerify", "none", l, KeptAt(j), Awaiting(Transcript(j + 1)))
    <3> DEFINE h == KeptAt(j)
               w == Stage("ServerVerify", "none", l, h, Awaiting(<<>>))
    <3> HIDE DEF h
    <3>1. config.verifier = "none" => verify_certificate(w) = w
      BY CallbackSteps
    <3>2. ASSUME config.verifier = "rejects"
          PROVE  verify_certificate(w) = Stage("Failed", "InvalidCertificate", l, h, Awaiting(<<>>))
      <4>1. verify_certificate(w) = Rejected(w, "InvalidCertificate")
        BY <3>2, Zenon DEF verify_certificate
      <4> QED BY <4>1, StageRejected
    <3>3. ASSUME config.verifier = "accepts"
          PROVE  verify_certificate(w) = Stage("ServerVerify", "none", l, h, Awaiting(l.transcript_hash))
      <4>1. config.verifier \notin {"none", "rejects"}
        BY <3>3
      <4> QED BY <4>1, CallbackSteps, Zenon
    <3> QED BY <1>2, <1>6, <2>2, <2>4, <3>1, <3>2, <3>3, Zenon DEF h
  <2>6. CASE config.verifier = "rejects"
    <3>1. q.state = "Failed" /\ q.error = "InvalidCertificate"
      BY <2>5, <2>6 DEF Stage
    <3> QED BY <2>6, <3>1, Zenon DEF Refused, q, m
  <2>7. CASE config.verifier \in {"none", "accepts"}
    <3>1. VerifierAt(j + 1) = IF config.verifier = "none" THEN Awaiting(<<>>) ELSE Awaiting(Transcript(j + 1))
      BY <1>1, <1>9, <2>7, VerifierSteps
    <3>2. q = Processed(j + 1, n)
      BY <1>5, <2>3, <2>4, <2>5, <2>7, <3>1, Zenon
    <3>3. Possible(j + 1)
      BY <1>3, <2>7 DEF Possible
    <3> QED BY <3>2, <3>3, Zenon DEF q, m
  <2> QED BY <1>3, <2>6, <2>7
<1>10. CASE config.psk # "accepted" /\ j = CertAt
  <2>1. m = Message("CertificateVerify", <<"sig", Transcript(j)>>)
    BY <1>1, <1>10, FlightShape DEF m, Transcript
  <2>2. Name(m) = "CertificateVerify" /\ m[2] = <<"sig", Transcript(j)>>
    BY <2>1, Named, Zenon
  <2>3. KeptAt(j) = KeptAt(j + 1) /\ j + 1 < FlightLen
    <3>1. CASE config.request
      <4>1. KeptAt(j) = Asked /\ KeptAt(j + 1) = Asked /\ j + 1 < FlightLen
        BY <1>1, <1>10, <3>1, KeptSteps
      <4> QED BY <4>1
    <3>2. CASE ~config.request
      <4>1. KeptAt(j) = NotAsked(<<>>) /\ KeptAt(j + 1) = NotAsked(<<>>) /\ j + 1 < FlightLen
        BY <1>1, <1>10, <3>2, KeptSteps
      <4> QED BY <4>1
    <3> QED BY <3>1, <3>2
  <2>4. config.verifier # "rejects"
    BY <1>1, <1>10 DEF Possible
  <2>5. ASSUME config.verifier = "none" PROVE q = Processed(j + 1, n)
    <3>1. VerifierAt(j) = Awaiting(<<>>) /\ VerifierAt(j + 1) = Awaiting(<<>>)
      BY <1>1, <2>5, VerifierSteps
    <3>2. verify_signature(Stage("ServerVerify", "none", l, KeptAt(j), Awaiting(<<>>)), m[2]) =
            Stage("ServerVerify", "none", l, KeptAt(j), Awaiting(<<>>))
      BY <2>5, CallbackSteps
    <3> QED BY <1>5, <1>6, <2>2, <2>3, <3>1, <3>2, Zenon
  <2>6. ASSUME config.verifier # "none" PROVE q = Processed(j + 1, n)
    <3>1. VerifierAt(j) = Awaiting(Transcript(j)) /\ VerifierAt(j + 1) = Signed
      BY <1>1, <1>10, <2>6, VerifierSteps
    <3>2. Transcript(j) # <<>>
      <4>1. Opening \in Seq(Said) /\ Len(Opening) = 2 /\ SubSeq(ServerFlight, 1, j) \in Seq(Said)
        BY <1>1, FlightShape, SMTT(30) DEF FlightLen
      <4> DEFINE x == SubSeq(ServerFlight, 1, j)
      <4> HIDE DEF x
      <4>2. x \in Seq(Said)
        BY <4>1 DEF x
      <4>3. Len(Opening \o x) = Len(Opening) + Len(x) /\ Len(x) \in Nat
        BY <4>1, <4>2, Joined, Zenon
      <4>4. Opening \o x # <<>>
        BY <4>1, <4>3
      <4> QED BY <4>4 DEF Transcript, x
    <3>3. verify_signature(Stage("ServerVerify", "none", l, KeptAt(j), Awaiting(Transcript(j))),
                           <<"sig", Transcript(j)>>) =
            Stage("ServerVerify", "none", l, KeptAt(j), Signed)
      BY <2>6, <3>2, CallbackSteps
    <3> QED BY <1>5, <1>6, <2>2, <2>3, <3>1, <3>3, Zenon
  <2>7. q = Processed(j + 1, n)
    BY <2>5, <2>6
  <2>8. Possible(j + 1)
    BY <1>1, <1>3, <2>4 DEF Possible
  <2> QED BY <2>7, <2>8, Zenon DEF q, m
<1>11. CASE j + 1 = FlightLen
  <2>1. m = Message("Finished", Mac(WriteHs, Transcript(j)))
    <3>1. FlightLen - 1 = j
      BY <1>1, <1>11
    <3> QED BY <1>11, <3>1, FlightShape DEF m, Transcript
  <2>2. Name(m) = "Finished" /\ m[2] = Mac(WriteHs, Transcript(j))
    BY <2>1, Named, Zenon
  <2>3. l.server_state.traffic_secret = WriteHs
    <3>1. ClientHs = ServerHs
      BY Secrets
    <3> QED BY <3>1 DEF l, ScheduleAt, Schedule, Secret, Keys, WriteHs
  <2>4. verify_server_finished(l, m[2], Transcript(j))
    BY <2>2, <2>3, Zenon DEF verify_server_finished
  <2>5. VerifierAt(j) = VerifierAt(j + 1)
    <3>1. CASE config.verifier = "none" \/ config.psk = "accepted"
      <4>1. VerifierAt(j) = Awaiting(<<>>) /\ VerifierAt(j + 1) = Awaiting(<<>>)
        BY <1>1, <3>1, VerifierSteps
      <4> QED BY <4>1
    <3>2. CASE config.verifier # "none" /\ config.psk # "accepted"
      <4>1. VerifierAt(j) = Signed /\ VerifierAt(j + 1) = Signed
        BY <1>1, <1>11, <3>2, VerifierSteps
      <4> QED BY <4>1
    <3> QED BY <3>1, <3>2
  <2>6. Transcript(j + 1) = Mid
    <3>1. ServerFlight \in Seq(Said)
      BY FlightShape
    <3>2. SubSeq(ServerFlight, 1, FlightLen) = ServerFlight
      BY <3>1 DEF FlightLen
    <3> QED BY <1>11, <3>2 DEF Transcript, Mid
  <2>7. ASSUME config.request PROVE q = Processed(j + 1, n)
    <3>1. KeptAt(j) = Asked /\ KeptAt(j + 1) = Asked
      BY <1>1, <1>11, <2>7, KeptSteps
    <3>2. finished(Stage("ServerVerify", "none", l, Asked, VerifierAt(j)), m[2], Transcript(j)) =
            Stage("ClientCert", "none", l, Asked, VerifierAt(j))
      BY <2>4, FinishedStep
    <3>3. StateAt(j + 1) = "ClientCert"
      BY <1>1, <1>11, <2>7 DEF StateAt
    <3> QED BY <1>6, <2>2, <2>5, <3>1, <3>2, <3>3, Zenon DEF Processed, l
  <2>8. ASSUME ~config.request PROVE q = Processed(j + 1, n)
    <3>1. KeptAt(j) = NotAsked(<<>>) /\ KeptAt(j + 1) = NotAsked(Mid)
      BY <1>1, <1>11, <2>8, KeptSteps
    <3>2. finished(Stage("ServerVerify", "none", l, NotAsked(<<>>), VerifierAt(j)), m[2], Transcript(j)) =
            Stage("ClientFinished", "none", l, NotAsked(l.transcript_hash), VerifierAt(j))
      BY <2>4, FinishedStep
    <3>3. StateAt(j + 1) = "ClientFinished"
      BY <1>1, <1>11, <2>8 DEF StateAt
    <3>4. l.transcript_hash = Mid
      BY <1>2, <2>6
    <3> QED BY <1>6, <2>2, <2>5, <3>1, <3>2, <3>3, <3>4, Zenon DEF Processed, l
  <2>9. q = Processed(j + 1, n)
    BY <2>7, <2>8
  <2>10. Possible(j + 1)
    BY <1>1, <1>3, <1>11 DEF Possible
  <2> QED BY <2>9, <2>10, Zenon DEF q, m
<1>12. \/ j = 0
       \/ config.request /\ j = 1
       \/ config.psk # "accepted" /\ (j + 1 = CertAt \/ j = CertAt)
       \/ j + 1 = FlightLen
  <2>1. CASE config.psk = "accepted"
    <3>1. FlightLen = 2
      BY <1>1, <2>1
    <3> QED BY <3>1
  <2>2. CASE config.psk # "accepted" /\ config.request
    <3>1. FlightLen = 5 /\ CertAt = 3
      BY <1>1, <2>2
    <3> QED BY <2>2, <3>1
  <2>3. CASE config.psk # "accepted" /\ ~config.request
    <3>1. FlightLen = 4 /\ CertAt = 2
      BY <1>1, <2>3
    <3> QED BY <2>3, <3>1
  <2> QED BY <2>1, <2>2, <2>3
<1> QED BY <1>7, <1>8, <1>9, <1>10, <1>11, <1>12, Zenon

-----------------------------------------------------------------------------
(* The messages of one record. *)

IsHandled(f, ms, n) ==
  f = [i \in 0 .. n |-> IF i = 0 THEN Progress ELSE HandleMessage(f[i - 1], ms[i])]

(* The recursive function of HandleMessages exists. *)
LEMMA HandledExists ==
  ASSUME NEW ms, NEW N \in Nat PROVE \E f : IsHandled(f, ms, N)
<1> DEFINE S == {n \in Nat : \E f : IsHandled(f, ms, n)}
<1>1. 0 \in S
  <2>1. IsHandled([i \in 0 .. 0 |-> Progress], ms, 0)
    BY DEF IsHandled
  <2> QED BY <2>1
<1>2. ASSUME NEW n \in 0 .. N - 1, n \in S
      PROVE  n + 1 \in S
  <2>1. PICK f : IsHandled(f, ms, n)
    BY <1>2
  <2> DEFINE g == [i \in 0 .. n + 1 |-> IF i = n + 1 THEN HandleMessage(f[n], ms[n + 1]) ELSE f[i]]
  <2>2. \A i \in 0 .. n : f[i] = IF i = 0 THEN Progress ELSE HandleMessage(f[i - 1], ms[i])
    BY <2>1 DEF IsHandled
  <2>3. IsHandled(g, ms, n + 1)
    BY <2>2 DEF IsHandled
  <2> QED BY <2>3
<1> HIDE DEF S
<1>3. \A i \in 0 .. N : i \in S
  BY <1>1, <1>2, IntervalInduction
<1> QED BY <1>3 DEF S

(* What it computes, message by message. *)
LEMMA Handled ==
  ASSUME NEW ms, Len(ms) \in Nat
  PROVE  \E f : /\ f[0] = Progress /\ HandleMessages(ms) = f[Len(ms)]
                /\ \A i \in 1 .. Len(ms) : f[i] = HandleMessage(f[i - 1], ms[i])
<1> DEFINE f == CHOOSE f : IsHandled(f, ms, Len(ms))
<1>1. HandleMessages(ms) = f[Len(ms)]
  BY Zenon DEF HandleMessages, IsHandled
<1>2. IsHandled(f, ms, Len(ms))
  BY HandledExists
<1> HIDE DEF f
<1>3. \A i \in 0 .. Len(ms) : f[i] = IF i = 0 THEN Progress ELSE HandleMessage(f[i - 1], ms[i])
  BY <1>2 DEF IsHandled
<1> QED BY <1>1, <1>3

(* A piece of the flight. *)
LEMMA PieceStep ==
  ASSUME config \in Config, config.psk = "accepted" => ~config.request, config.psk # "declined",
         NEW a \in 0 .. FlightLen - 1, NEW b \in a + 1 .. FlightLen, NEW n,
         Progress = Processed(a, n), Possible(a)
  PROVE  LET q == HandleMessages(SubSeq(ServerFlight, a + 1, b))
         IN  Refused(q) \/ (q = Processed(b, n) /\ Possible(b))
<1> DEFINE ms == SubSeq(ServerFlight, a + 1, b)
<1>1. ServerFlight \in Seq(Said) /\ FlightLen \in Nat /\ FlightLen = Len(ServerFlight)
  BY FlightShape DEF FlightLen
<1>2. Len(ms) = b - a /\ \A i \in 1 .. b - a : ms[i] = ServerFlight[a + i]
  BY <1>1
<1> HIDE DEF ms
<1>3. PICK f : /\ f[0] = Progress /\ HandleMessages(ms) = f[Len(ms)]
               /\ \A i \in 1 .. Len(ms) : f[i] = HandleMessage(f[i - 1], ms[i])
  <2>1. Len(ms) \in Nat
    BY <1>1, <1>2
  <2> QED BY <2>1, Handled
<1> DEFINE N == b - a
           Good(i) == Refused(f[i]) \/ (f[i] = Processed(a + i, n) /\ Possible(a + i))
           S == {i \in Nat : Good(i)}
<1>9. ASSUME NEW i \in 0 .. (b - a) - 1
      PROVE  /\ i + 1 \in 1 .. Len(ms) /\ (i + 1) - 1 = i /\ a + (i + 1) = (a + i) + 1
             /\ i + 1 \in 1 .. b - a /\ a + i \in 0 .. FlightLen - 1 /\ i \in Nat
  <2>1. a \in Nat /\ b \in Nat /\ b <= FlightLen /\ i \in Nat
    BY <1>1
  <2> QED BY <1>1, <1>2, <2>1
<1>4. 0 \in S
  <2>1. a + 0 = a
    BY <1>1
  <2> QED BY <1>3, <2>1
<1>5. ASSUME NEW i \in 0 .. N - 1, i \in S PROVE i + 1 \in S
  <2>1. /\ i + 1 \in 1 .. Len(ms) /\ (i + 1) - 1 = i /\ a + (i + 1) = (a + i) + 1
        /\ i + 1 \in 1 .. b - a /\ a + i \in 0 .. FlightLen - 1 /\ i \in Nat
    BY <1>9
  <2>2. f[i + 1] = HandleMessage(f[i], ServerFlight[(a + i) + 1])
    <3>1. f[i + 1] = HandleMessage(f[(i + 1) - 1], ms[i + 1])
      BY <1>3, <2>1, Zenon
    <3>2. ms[i + 1] = ServerFlight[a + (i + 1)]
      BY <1>2, <2>1, Zenon
    <3> QED BY <2>1, <3>1, <3>2, Zenon
  <2>3. CASE Refused(f[i])
    <3>1. HandleMessage(f[i], ServerFlight[(a + i) + 1]) = f[i]
      BY <2>3, RefusedStays
    <3> QED BY <2>1, <2>2, <2>3, <3>1
  <2>4. CASE f[i] = Processed(a + i, n) /\ Possible(a + i)
    <3> DEFINE j == a + i
               q == HandleMessage(Processed(j, n), ServerFlight[j + 1])
    <3>1. j \in 0 .. FlightLen - 1 /\ Possible(j)
      BY <2>1, <2>4
    <3> HIDE DEF j
    <3>2. Refused(q) \/ (q = Processed(j + 1, n) /\ Possible(j + 1))
      BY <3>1, MessageStep
    <3>3. f[i + 1] = q /\ a + (i + 1) = j + 1
      BY <2>1, <2>2, <2>4, Zenon DEF j
    <3>4. Good(i + 1)
      BY <3>2, <3>3, Zenon
    <3> QED BY <2>1, <3>4
  <2>5. Good(i)
    BY <1>5
  <2> QED BY <2>3, <2>4, <2>5
<1>6. N \in Nat
  BY <1>1
<1> HIDE DEF S, N
<1>7. \A i \in 0 .. N : i \in S
  BY <1>4, <1>5, <1>6, IntervalInduction
<1>8. Good(N) /\ a + N = b /\ Len(ms) = N
  BY <1>1, <1>2, <1>6, <1>7 DEF S, N
<1> QED BY <1>3, <1>8, Zenon DEF ms

(* An alert, and a record of a single message. *)
LEMMA AlertStep ==
  ASSUME NEW m, Name(m) = "Alert", NEW j, NEW n, Progress = Processed(j, n), StateAt(j) = "ServerVerify"
  PROVE  HandleMessages(<<m>>).state = "Failed" /\ HandleMessages(<<m>>).error = "InvalidRecord"
<1>1. Len(<<m>>) = 1 /\ <<m>>[1] = m
  OBVIOUS
<1>2. PICK f : /\ f[0] = Progress /\ HandleMessages(<<m>>) = f[1]
               /\ \A i \in 1 .. 1 : f[i] = HandleMessage(f[i - 1], <<m>>[i])
  <2>1. Len(<<m>>) \in Nat
    OBVIOUS
  <2>2. \E f : /\ f[0] = Progress /\ HandleMessages(<<m>>) = f[Len(<<m>>)]
               /\ \A i \in 1 .. Len(<<m>>) : f[i] = HandleMessage(f[i - 1], <<m>>[i])
    BY <2>1, Handled
  <2> QED BY <1>1, <2>2, Zenon
<1>3. f[1] = HandleMessage(f[1 - 1], <<m>>[1]) /\ 1 - 1 = 0
  BY <1>2
<1>4. HandleMessages(<<m>>) = HandleMessage(Processed(j, n), m)
  BY <1>1, <1>2, <1>3
<1>5. Processed(j, n) = Stage("ServerVerify", "none", ScheduleAt(j, n), KeptAt(j), VerifierAt(j))
  BY Zenon DEF Processed
<1>6. HandleMessage(Stage("ServerVerify", "none", ScheduleAt(j, n), KeptAt(j), VerifierAt(j)), m) =
        Stage("Failed", "InvalidRecord", ScheduleAt(j, n), KeptAt(j), VerifierAt(j))
  BY HandleByName
<1> QED BY <1>4, <1>5, <1>6 DEF Stage

-----------------------------------------------------------------------------
(* What does not change. *)

(* The configuration is one of those assumed. *)
LEMMA Configured ==
  ASSUME IInv PROVE config \in Config /\ (config.psk = "accepted" => ~config.request)
BY HandshakeAssumption DEF IInv

(* The lengths of the flight and of the answer. *)
LEMMA Sizes ==
  ASSUME config \in Config, config.psk = "accepted" => ~config.request
  PROVE  /\ FlightLen \in Nat /\ FlightLen >= 2 /\ ReplyLen \in Nat /\ ReplyLen >= 1
         /\ CertAt \in 2 .. 3
         /\ Mid \o SubSeq(Reply, 1, 0) = Mid /\ Transcript(0) = Opening /\ Transcript(FlightLen) = Mid
         /\ Mid # <<>>
<1>1. ServerFlight \in Seq(Said) /\ Opening \in Seq(Said)
  BY FlightShape
<1>2. Reply \in Seq(Said) /\ Mid \in Seq(Said) /\ Len(Mid) = FlightLen + 2
  BY ReplyShape
<1>3. CertAt \in 2 .. 3
  BY DEF CertAt
<1>4. FlightLen = IF config.psk = "accepted" THEN 2 ELSE CertAt + 2
  BY FlightShape
<1>5. FlightLen \in Nat /\ FlightLen >= 2
  BY <1>3, <1>4
<1>6. ReplyLen \in Nat /\ ReplyLen >= 1
  <2>1. ReplyLen = IF config.request THEN IF config.cert THEN 3 ELSE 2 ELSE 1
    BY ReplyShape
  <2> QED BY <2>1
<1>7. Mid \o SubSeq(Reply, 1, 0) = Mid
  BY <1>2
<1>8. Transcript(0) = Opening
  BY <1>1 DEF Transcript
<1>9. Transcript(FlightLen) = Mid
  <2>1. SubSeq(ServerFlight, 1, FlightLen) = ServerFlight
    BY <1>1 DEF FlightLen
  <2> QED BY <2>1, Zenon DEF Transcript, Mid
<1>10. Mid # <<>>
  BY <1>2, <1>5
<1> QED BY <1>3, <1>5, <1>6, <1>7, <1>8, <1>9, <1>10

(* What the client has to be at each message depends on the configuration alone. *)
LEMMA FixedStages ==
  ASSUME config' = config
  PROVE  /\ \A j : VerifierAt(j)' = VerifierAt(j)
         /\ \A j, n : Processed(j, n)' = Processed(j, n)
         /\ \A j : Possible(j)' <=> Possible(j)
         /\ \A h, c, s, t : Schedule(h, c, s, t)' = Schedule(h, c, s, t)
         /\ Answered' = Answered
<1>1. /\ Binder' = Binder /\ Opening' = Opening /\ ClientHs' = ClientHs /\ ServerFlight' = ServerFlight
      /\ FlightLen' = FlightLen /\ Mid' = Mid /\ CertAt' = CertAt
  BY Fixed
<1>2. \A j : Transcript(j)' = Transcript(j)
  BY <1>1, Zenon DEF Transcript
<1>3. \A j : VerifierAt(j)' = VerifierAt(j)
  BY <1>1, <1>2, Zenon DEF VerifierAt
<1>4. \A j : KeptAt(j)' = KeptAt(j)
  BY <1>1, Zenon DEF KeptAt
<1>5. \A h, c, s, t : Schedule(h, c, s, t)' = Schedule(h, c, s, t)
  BY <1>1, Zenon DEF Schedule
<1>6. \A j, n : ScheduleAt(j, n)' = ScheduleAt(j, n)
  BY <1>1, <1>2, <1>5, Zenon DEF ScheduleAt, Schedule
<1>7. \A j : StateAt(j)' = StateAt(j)
  BY <1>1, Zenon DEF StateAt
<1>8. ASSUME NEW j, NEW n PROVE Processed(j, n)' = Processed(j, n)
  <2>1. /\ VerifierAt(j)' = VerifierAt(j) /\ KeptAt(j)' = KeptAt(j) /\ StateAt(j)' = StateAt(j)
        /\ ScheduleAt(j, n)' = ScheduleAt(j, n)
    BY <1>3, <1>4, <1>6, <1>7, Zenon
  <2> QED BY <2>1, Zenon DEF Processed
<1>9. \A j : Possible(j)' <=> Possible(j)
  BY <1>1, Zenon DEF Possible
<1>10. Answered' = Answered
  BY <1>1, Zenon DEF Answered
<1> QED BY <1>3, <1>5, <1>8, <1>9, <1>10, Zenon

(* So do the ways of the server's records, and the client's records. *)
LEMMA FixedWays ==
  ASSUME config' = config
  PROVE  /\ Places' = Places
         /\ \A a, r, b : Leads(a, r, b)' <=> Leads(a, r, b)
         /\ \A a, d, b : Way(a, d, b)' <=> Way(a, d, b)
         /\ \A a, r : Aborts(a, r)' <=> Aborts(a, r)
         /\ \A i : UpRecord(i)' = UpRecord(i)
         /\ \A i : UpAlert(i)' = UpAlert(i)
<1>1. /\ ServerFlight' = ServerFlight /\ FlightLen' = FlightLen /\ Answer' = Answer
      /\ WriteHs' = WriteHs /\ WriteAp' = WriteAp /\ ReadHs' = ReadHs /\ ReadAp' = ReadAp
      /\ Reply' = Reply /\ ReplyLen' = ReplyLen
  BY Fixed
<1>2. Places' = Places
  BY <1>1, Zenon DEF Places
<1>3. ASSUME NEW a, NEW r, NEW b PROVE Leads(a, r, b)' <=> Leads(a, r, b)
  BY <1>1 DEF Leads
<1>4. \A a, d, b : Way(a, d, b)' <=> Way(a, d, b)
  BY <1>2, <1>3, Zenon DEF Way
<1>5. \A a, r : Aborts(a, r)' <=> Aborts(a, r)
  BY <1>1, Zenon DEF Aborts
<1>6. \A i : UpRecord(i)' = UpRecord(i)
  BY <1>1, Zenon DEF UpRecord
<1>7. \A i : UpAlert(i)' = UpAlert(i)
  BY <1>1, Zenon DEF UpAlert
<1> QED BY <1>2, <1>3, <1>4, <1>5, <1>6, <1>7, Zenon

(* The client's part of the invariant when the client does nothing. *)
LEMMA ClientSame ==
  ASSUME config' = config, state' = state, handshake' = handshake, ks' = ks, verifier' = verifier,
         data'.client = data.client, ClientInv
  PROVE  ClientInv' /\ Sent' = Sent /\ ClientAt' = ClientAt
<1>1. /\ Hello' = Hello /\ ClientPsk' = ClientPsk /\ ServerHs' = ServerHs /\ Master' = Master
      /\ ReadHs' = ReadHs /\ WriteHs' = WriteHs /\ ReadAp' = ReadAp /\ WriteAp' = WriteAp
      /\ FlightLen' = FlightLen /\ Mid' = Mid /\ Reply' = Reply /\ ReplyLen' = ReplyLen
  BY Fixed, SMTT(30)
<1>2. /\ \A j : VerifierAt(j)' = VerifierAt(j)
      /\ \A j, n : Processed(j, n)' = Processed(j, n)
      /\ \A j : Possible(j)' <=> Possible(j)
      /\ \A h, c, s, t : Schedule(h, c, s, t)' = Schedule(h, c, s, t)
      /\ Answered' = Answered
  BY FixedStages, SMTT(30)
<1>3. Sent' = Sent
  BY <1>1 DEF Sent
<1>4. ClientAt' = ClientAt
  BY <1>1 DEF ClientAt
<1>5. Answering' <=> Answering
  BY <1>1, <1>2, <1>3, Zenon DEF Answering
<1>6. Open' <=> Open
  BY <1>1, <1>2, Zenon DEF Open
<1>7. Progress' = Progress
  BY Zenon DEF Progress
<1>8. (\E j \in 0 .. FlightLen - 1, n \in Nat : Progress = Processed(j, n) /\ Possible(j)) =>
        (\E j \in 0 .. FlightLen - 1, n \in Nat : Progress = Processed(j, n) /\ Possible(j))'
  BY <1>1, <1>2, <1>7, Zenon
<1>9. (state = "ServerHello" =>
        /\ ks = Schedule(Extract(Zero, ClientPsk), Keys(NoSecret, 1), FreshState(NoSecret), <<Hello>>)
        /\ handshake = NotAsked(<<>>) /\ verifier = VerifierAt(0))' 
  BY <1>1, <1>2, Zenon DEF ClientInv
<1>10. (state = "ClientHello" => ks = NewSchedule /\ handshake = NotAsked(<<>>) /\ verifier = VerifierAt(0))'
  BY <1>2, Zenon DEF ClientInv
<1>11. ClientInv'
  BY <1>5, <1>6, <1>8, <1>9, <1>10, Zenon DEF ClientInv
<1> QED BY <1>3, <1>4, <1>11

(* The server's part when the server does nothing. *)
LEMMA ServerSame ==
  ASSUME config' = config, server' = server, data'.server = data.server, server.phase = "start" => down' = <<>>,
         ServerInv
  PROVE  ServerInv' /\ Received' = Received /\ ServerAt' = ServerAt
<1>1. /\ Master' = Master /\ ServerFlight' = ServerFlight
      /\ ReadHs' = ReadHs /\ WriteHs' = WriteHs /\ ReadAp' = ReadAp /\ WriteAp' = WriteAp
      /\ FlightLen' = FlightLen /\ Mid' = Mid /\ Reply' = Reply /\ ReplyLen' = ReplyLen
  BY Fixed
<1>2. Received' = Received
  BY <1>1 DEF Received
<1>3. ServerAt' = ServerAt
  BY <1>1 DEF ServerAt
<1>4. ServerInv'
  BY <1>1, Zenon DEF ServerInv
<1> QED BY <1>2, <1>3, <1>4

(* The records sent and read are numbers. *)
LEMMA Counts ==
  ASSUME config \in Config, config.psk = "accepted" => ~config.request, ServerInv,
         data \in [client : Nat, server : Nat]
  PROVE  /\ Sent \in Nat
         /\ server.phase \in {"flight", "finish", "done"} => Received \in Nat
<1>1. ReplyLen \in Nat /\ ReplyLen >= 1
  BY Sizes
<1>2. Sent \in Nat
  BY <1>1 DEF Sent
<1>3. \A x, n : Keys(x, n).counter = n
  BY DEF Keys
<1>4. server.phase \in {"flight", "finish", "done"} => server.read.counter \in Nat
  BY <1>1, <1>3 DEF ServerInv
<1> QED BY <1>1, <1>2, <1>4 DEF Received

-----------------------------------------------------------------------------
(* Keys and records. *)

(* A record counted. *)
LEMMA Counting ==
  ASSUME NEW x, NEW n \in Nat
  PROVE  /\ Counted(Keys(x, n)) = Keys(x, n + 1)
         /\ Keys(x, n).traffic_secret = x /\ Keys(x, n).counter = n
BY DEF Counted, Keys

(* Fresh keys count from 0. *)
LEMMA Fresh == \A x : FreshState(x) = Keys(x, 0)
BY DEF FreshState, Keys

(* A record sealed with keys. *)
LEMMA SealedKeys == \A x, n, m : Sealed(Keys(x, n), m) = Record(x, n, m)
BY DEF Sealed, Keys, Record

(* A record in the clear. *)
LEMMA PlainMessage == \A m : Plain(m).messages[1] = m
BY DEF Plain
=============================================================================
