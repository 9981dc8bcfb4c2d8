-------------------------- MODULE HandshakeProofs --------------------------
(***************************************************************************)
(* The client and an RFC 8446 server come to the same secrets, whatever    *)
(* the records of the server's flight are, and stay in step for every      *)
(* number of records of application data.                                  *)
(***************************************************************************)
EXTENDS HandshakeClientProofs

(* Every step of the server keeps the inductive invariant. *)

(* The server's state, field by field. *)
WithPhase(s, x) == [s EXCEPT !.phase = x]
WithTranscript(s, x) == [s EXCEPT !.transcript = x]
WithFlight(s, x) == [s EXCEPT !.flight = x]
WithMid(s, x) == [s EXCEPT !.mid = x]
WithMaster(s, x) == [s EXCEPT !.master = x]
WithRead(s, x) == [s EXCEPT !.read = x]
WithWrite(s, x) == [s EXCEPT !.write = x]
WithCcs(s, x) == [s EXCEPT !.ccs = x]

(* The fields of the server's state change one at a time. *)
LEMMA PhaseStep ==
  ASSUME NEW p, NEW t, NEW f, NEW m, NEW x, NEW r, NEW w, NEW c, NEW y
  PROVE  WithPhase(Peer(p, t, f, m, x, r, w, c), y) = Peer(y, t, f, m, x, r, w, c)
BY DEF WithPhase, Peer

(* The transcript. *)
LEMMA TranscriptStep ==
  ASSUME NEW p, NEW t, NEW f, NEW m, NEW x, NEW r, NEW w, NEW c, NEW y
  PROVE  WithTranscript(Peer(p, t, f, m, x, r, w, c), y) = Peer(p, y, f, m, x, r, w, c)
BY DEF WithTranscript, Peer

(* The flight. *)
LEMMA FlightStep ==
  ASSUME NEW p, NEW t, NEW f, NEW m, NEW x, NEW r, NEW w, NEW c, NEW y
  PROVE  WithFlight(Peer(p, t, f, m, x, r, w, c), y) = Peer(p, t, y, m, x, r, w, c)
BY DEF WithFlight, Peer

(* The mid. *)
LEMMA MidStep ==
  ASSUME NEW p, NEW t, NEW f, NEW m, NEW x, NEW r, NEW w, NEW c, NEW y
  PROVE  WithMid(Peer(p, t, f, m, x, r, w, c), y) = Peer(p, t, f, y, x, r, w, c)
BY DEF WithMid, Peer

(* The master. *)
LEMMA MasterStep ==
  ASSUME NEW p, NEW t, NEW f, NEW m, NEW x, NEW r, NEW w, NEW c, NEW y
  PROVE  WithMaster(Peer(p, t, f, m, x, r, w, c), y) = Peer(p, t, f, m, y, r, w, c)
BY DEF WithMaster, Peer

(* The read keys. *)
LEMMA ReadStep ==
  ASSUME NEW p, NEW t, NEW f, NEW m, NEW x, NEW r, NEW w, NEW c, NEW y
  PROVE  WithRead(Peer(p, t, f, m, x, r, w, c), y) = Peer(p, t, f, m, x, y, w, c)
BY DEF WithRead, Peer

(* The write keys. *)
LEMMA WriteStep ==
  ASSUME NEW p, NEW t, NEW f, NEW m, NEW x, NEW r, NEW w, NEW c, NEW y
  PROVE  WithWrite(Peer(p, t, f, m, x, r, w, c), y) = Peer(p, t, f, m, x, r, y, c)
BY DEF WithWrite, Peer

(* The ccs. *)
LEMMA CcsStep ==
  ASSUME NEW p, NEW t, NEW f, NEW m, NEW x, NEW r, NEW w, NEW c, NEW y
  PROVE  WithCcs(Peer(p, t, f, m, x, r, w, c), y) = Peer(p, t, f, m, x, r, w, y)
BY DEF WithCcs, Peer

(* The fields themselves. *)
LEMMA PeerFields ==
  ASSUME NEW s, NEW p, NEW t, NEW f, NEW m, NEW x, NEW r, NEW w, NEW c, s = Peer(p, t, f, m, x, r, w, c)
  PROVE  /\ s.phase = p /\ s.transcript = t /\ s.flight = f /\ s.mid = m /\ s.master = x
         /\ s.read = r /\ s.write = w
         /\ s = Peer(s.phase, s.transcript, s.flight, s.mid, s.master, s.read, s.write, s.ccs)
<1>1. s.phase = p /\ s.transcript = t /\ s.flight = f /\ s.mid = m /\ s.master = x
      /\ s.read = r /\ s.write = w /\ s.ccs = c
  BY DEF Peer
<1> QED BY <1>1, Zenon

(* The fields behind a step. *)
LEMMA PeerNext ==
  ASSUME NEW p, NEW t, NEW f, NEW m, NEW x, NEW r, NEW w, NEW c, server' = Peer(p, t, f, m, x, r, w, c)
  PROVE  /\ server'.phase = p /\ server'.transcript = t /\ server'.flight = f /\ server'.mid = m
         /\ server'.master = x /\ server'.read = r /\ server'.write = w
         /\ server' = Peer(server.phase, server.transcript, server.flight, server.mid, server.master, server.read,
                           server.write, server.ccs)'
<1>1. PICK s : s = server'
  OBVIOUS
<1>2. /\ s.phase = p /\ s.transcript = t /\ s.flight = f /\ s.mid = m /\ s.master = x /\ s.read = r /\ s.write = w
      /\ s = Peer(s.phase, s.transcript, s.flight, s.mid, s.master, s.read, s.write, s.ccs)
  BY <1>1, PeerFields
<1>3. Peer(s.phase, s.transcript, s.flight, s.mid, s.master, s.read, s.write, s.ccs) =
        Peer(server.phase, server.transcript, server.flight, server.mid, server.master, server.read,
             server.write, server.ccs)'
  BY <1>1, Zenon DEF Peer
<1> QED BY <1>1, <1>2, <1>3, Zenon

-----------------------------------------------------------------------------
(* Every step of the server keeps the invariant. *)

(* The server sends another one. *)
LEMMA Sends ==
  ASSUME config' = config, state' = state, ClientAt' = ClientAt, DownInv,
         server.phase # "aborted", server'.phase # "aborted",
         NEW r, down' = Append(down, r), ServerAt' \in Places, Leads(ServerAt, r, ServerAt')
  PROVE  DownInv'
<1>1. \A a, d, b : Way(a, d, b)' <=> Way(a, d, b)
  BY FixedWays
<1>2. IsSequence(down')
  BY Appended DEF DownInv
<1>3. ASSUME state # "Failed" PROVE Behind(ClientAt, down)'
  <2>1. PICK a, b, c, d : a = ClientAt /\ b = ServerAt /\ c = ServerAt' /\ d = down
    OBVIOUS
  <2>2. Way(a, d, b) /\ IsSequence(d)
    BY <1>3, <2>1, Zenon DEF DownInv, Behind
  <2>3. c \in Places /\ Leads(b, r, c)
    BY <2>1, Zenon
  <2>4. Way(a, Append(d, r), c)
    BY <2>2, <2>3, WayOn
  <2>5. Way(a, Append(d, r), c)' /\ ClientAt' = a /\ down' = Append(d, r) /\ ServerAt' = c
    BY <1>1, <2>1, <2>4, Zenon
  <2> QED BY <2>5, Zenon DEF Behind
<1> QED BY <1>2, <1>3, Zenon DEF DownInv

(* The server gives up. *)
LEMMA GivesUp ==
  ASSUME config' = config, state' = state, ClientAt' = ClientAt, DownInv,
         server.phase # "aborted", server'.phase = "aborted",
         NEW r, down' = Append(down, r), Aborts(ServerAt, r)
  PROVE  DownInv'
<1>1. /\ \A a, d, b : Way(a, d, b)' <=> Way(a, d, b)
      /\ \A a, x : Aborts(a, x)' <=> Aborts(a, x)
  BY FixedWays
<1>2. IsSequence(down')
  BY Appended DEF DownInv
<1>3. ASSUME state # "Failed" PROVE Behind(ClientAt, down)'
  <2>1. PICK a, b, d : a = ClientAt /\ b = ServerAt /\ d = down
    OBVIOUS
  <2>2. Way(a, d, b) /\ IsSequence(d) /\ Aborts(b, r)
    BY <1>3, <2>1, Zenon DEF DownInv, Behind
  <2>3. Way(a, d, b)' /\ Aborts(b, r)' /\ ClientAt' = a /\ down' = Append(d, r)
    BY <1>1, <2>1, <2>2, Zenon
  <2> QED BY <2>2, <2>3, Zenon DEF Behind
<1> QED BY <1>2, <1>3, Zenon DEF DownInv

(* What is left to show when the server moves. *)
LEMMA ServerMoves ==
  ASSUME IInv, config' = config, state' = state, error' = error, handshake' = handshake, ks' = ks,
         verifier' = verifier, data' \in [client : Nat, server : Nat], data'.client = data.client,
         server.phase # "aborted"
  PROVE  /\ ClientAt' = ClientAt /\ Sent' = Sent
         /\ ServerInv' /\ UpInv' /\ DownInv' => IInv'
<1>1. ClientInv' /\ Sent' = Sent /\ ClientAt' = ClientAt
  BY ClientSame DEF IInv
<1>2. FailuresExplained'
  BY DEF IInv, FailuresExplained
<1>3. config' \in Configs
  BY DEF IInv
<1> QED BY <1>1, <1>2, <1>3, Zenon DEF IInv

(* The records of the client when the server reads none of them, and one. *)
LEMMA UpKept ==
  ASSUME UpInv, config' = config, state' = state, up' = up, Sent' = Sent, Received' = Received,
         server.phase \in {"flight", "finish", "done"}, server'.phase \in {"flight", "finish", "done"}
  PROVE  UpInv'
<1>1. /\ \A i : UpRecord(i)' = UpRecord(i)
      /\ \A i : UpAlert(i)' = UpAlert(i)
  BY FixedWays
<1>2. ReplyLen' = ReplyLen
  BY Fixed
<1>3. /\ IsSequence(up) /\ state # "ClientHello" /\ (state # "Failed" => Len(up) = Sent - Received)
      /\ \A r \in 1 .. Len(up) :
            \/ up[r] = UpRecord(Received + r)
            \/ state = "Failed" /\ Received + r <= ReplyLen /\ up[r] = UpAlert(Received + r)
  BY DEF UpInv
<1>4. \A r \in 1 .. Len(up') :
            \/ up'[r] = UpRecord(Received + r)'
            \/ state' = "Failed" /\ Received' + r <= ReplyLen' /\ up'[r] = UpAlert(Received + r)'
  <2>1. PICK c : c = Received
    OBVIOUS
  <2>2. ASSUME NEW r \in 1 .. Len(up)
        PROVE  \/ up'[r] = UpRecord(c + r)'
               \/ state' = "Failed" /\ c + r <= ReplyLen' /\ up'[r] = UpAlert(c + r)'
    BY <1>1, <1>2, <1>3, <2>1, <2>2, Zenon
  <2> QED BY <2>1, <2>2, Zenon
<1> QED BY <1>3, <1>4 DEF UpInv

(* The server reads one of them. *)
LEMMA UpConsumed ==
  ASSUME UpInv, config' = config, state' = state, up # <<>>, up' = Tail(up), Sent' = Sent, Sent \in Nat,
         Received \in Nat, Received' = Received + 1,
         server.phase \in {"flight", "finish", "done"}, server'.phase \in {"flight", "finish", "done"}
  PROVE  UpInv'
<1>1. /\ \A i : UpRecord(i)' = UpRecord(i)
      /\ \A i : UpAlert(i)' = UpAlert(i)
  BY FixedWays
<1>2. ReplyLen' = ReplyLen
  BY Fixed
<1>3. /\ IsSequence(up) /\ state # "ClientHello" /\ (state # "Failed" => Len(up) = Sent - Received)
      /\ \A r \in 1 .. Len(up) :
            \/ up[r] = UpRecord(Received + r)
            \/ state = "Failed" /\ Received + r <= ReplyLen /\ up[r] = UpAlert(Received + r)
  BY DEF UpInv
<1>4. /\ IsSequence(up') /\ Len(up) \in Nat \ {0} /\ Len(up') = Len(up) - 1
      /\ \A i \in 1 .. Len(up) - 1 : up'[i] = up[i + 1]
  BY <1>3, Rest
<1>5. \A r \in 1 .. Len(up') :
            \/ up'[r] = UpRecord(Received + r)'
            \/ state' = "Failed" /\ Received' + r <= ReplyLen' /\ up'[r] = UpAlert(Received + r)'
  <2>1. PICK c \in Nat : c = Received
    OBVIOUS
  <2>2. ASSUME NEW r \in 1 .. Len(up')
        PROVE  \/ up'[r] = UpRecord((c + 1) + r)'
               \/ state' = "Failed" /\ (c + 1) + r <= ReplyLen' /\ up'[r] = UpAlert((c + 1) + r)'
    <3>1. PICK i : i = (c + 1) + r
      OBVIOUS
    <3>2. i = c + (r + 1) /\ r + 1 \in 1 .. Len(up) /\ up'[r] = up[r + 1]
      BY <1>4, <2>2, <3>1
    <3>3. \/ up[r + 1] = UpRecord(i)
          \/ state = "Failed" /\ i <= ReplyLen /\ up[r + 1] = UpAlert(i)
      BY <1>3, <2>1, <3>2, Zenon
    <3>4. UpRecord(i)' = UpRecord(i) /\ UpAlert(i)' = UpAlert(i)
      BY <1>1, Zenon
    <3> QED BY <1>2, <3>1, <3>2, <3>3, <3>4, Zenon
  <2> QED BY <2>1, <2>2, Zenon
<1>6. state' # "Failed" => Len(up') = Sent' - Received'
  BY <1>3, <1>4
<1> QED BY <1>3, <1>4, <1>5, <1>6 DEF UpInv

(* The records of the server when it sends none. *)
LEMMA DownKept ==
  ASSUME DownInv, config' = config, state' = state, down' = down, ClientAt' = ClientAt, ServerAt' = ServerAt,
         server.phase # "aborted", server'.phase # "aborted"
  PROVE  DownInv'
<1>1. \A a, d, b : Way(a, d, b)' <=> Way(a, d, b)
  BY FixedWays
<1>2. ASSUME state # "Failed" PROVE Behind(ClientAt, down)'
  <2>1. PICK a, d, b : a = ClientAt /\ d = down /\ b = ServerAt
    OBVIOUS
  <2>2. Way(a, d, b)
    BY <1>2, <2>1, Zenon DEF DownInv, Behind
  <2>3. Way(a, d, b)'
    BY <1>1, <2>2, Zenon
  <2> QED BY <2>1, <2>3, Zenon DEF Behind
<1> QED BY <1>2, Zenon DEF DownInv

(* The server behind its ServerHello. *)
LEMMA FlightStart ==
  [ServerStart EXCEPT
     !.phase = "flight", !.flight = ServerFlight, !.transcript = Mid, !.mid = Mid, !.master = Master,
     !.read = FreshState(ReadHs), !.write = FreshState(WriteHs)] =
    Peer("flight", Mid, ServerFlight, Mid, Master, Keys(ReadHs, 0), Keys(WriteHs, 0), FALSE)
<1> DEFINE e == <<>>
           n == NoSecret
           k == FreshState(NoSecret)
           b == FALSE
           f == ServerFlight
           m == Mid
           x == Master
           r == FreshState(ReadHs)
           w == FreshState(WriteHs)
<1>1. r = Keys(ReadHs, 0) /\ w = Keys(WriteHs, 0)
  BY Fresh, Zenon
<1>2. ServerStart = Peer("start", e, e, e, n, k, k, b)
  BY Zenon DEF ServerStart, Peer
<1> HIDE DEF e, n, k, b, f, m, x, r, w
<1>3. WithPhase(Peer("start", e, e, e, n, k, k, b), "flight") = Peer("flight", e, e, e, n, k, k, b)
  BY PhaseStep
<1>4. WithFlight(Peer("flight", e, e, e, n, k, k, b), f) = Peer("flight", e, f, e, n, k, k, b)
  BY FlightStep
<1>5. WithTranscript(Peer("flight", e, f, e, n, k, k, b), m) = Peer("flight", m, f, e, n, k, k, b)
  BY TranscriptStep
<1>6. WithMid(Peer("flight", m, f, e, n, k, k, b), m) = Peer("flight", m, f, m, n, k, k, b)
  BY MidStep
<1>7. WithMaster(Peer("flight", m, f, m, n, k, k, b), x) = Peer("flight", m, f, m, x, k, k, b)
  BY MasterStep
<1>8. WithRead(Peer("flight", m, f, m, x, k, k, b), r) = Peer("flight", m, f, m, x, r, k, b)
  BY ReadStep
<1>9. WithWrite(Peer("flight", m, f, m, x, r, k, b), w) = Peer("flight", m, f, m, x, r, w, b)
  BY WriteStep
<1>10. WithWrite(WithRead(WithMaster(WithMid(WithTranscript(WithFlight(WithPhase(ServerStart,
         "flight"), f), m), m), x), r), w) = Peer("flight", m, f, m, x, r, w, b)
  BY <1>2, <1>3, <1>4, <1>5, <1>6, <1>7, <1>8, <1>9, Zenon
<1> QED BY <1>1, <1>10, Zenon
        DEF WithPhase, WithFlight, WithTranscript, WithMid, WithMaster, WithRead, WithWrite, b, f, m, x, r, w

(* The binder is the one the server computes. *)
LEMMA Accepted == BinderOk(Hello)
<1>1. ASSUME config.psk = "accepted"
      PROVE  Hello[2] = Mac(Expand(Extract(Zero, Psk), "ext binder", <<>>), <<Message("ClientHello", <<>>)>>)
  <2>1. ClientPsk = Psk /\ config.psk # "none"
    BY <1>1 DEF ClientPsk
  <2> DEFINE y == Mac(Binder, <<Message("ClientHello", <<>>)>>)
  <2>2. Hello = Message("ClientHello", y)
    BY <2>1, Zenon DEF Hello
  <2>3. Hello[2] = y
    <3> HIDE DEF y
    <3> QED BY <2>2, Named
  <2> QED BY <2>1, <2>3, Zenon DEF Binder
<1> QED BY <1>1, Zenon DEF BinderOk

(* ServerAnswers. *)
LEMMA ServerAnswersStep ==
  ASSUME IInv, ServerAnswers PROVE IInv'
<1>1. /\ server.phase = "start" /\ up # <<>> /\ up' = Tail(up) /\ config' = config /\ state' = state
      /\ error' = error /\ handshake' = handshake /\ ks' = ks /\ verifier' = verifier /\ data' = data
  BY DEF ServerAnswers
<1>2. config \in Config /\ (config.psk = "accepted" => ~config.request)
  BY Configured
<1>3. /\ server = ServerStart /\ down = <<>> /\ data.server = 0 /\ UpInv /\ DownInv
      /\ data \in [client : Nat, server : Nat]
  BY <1>1 DEF IInv, ServerInv
<1>4. up = <<Plain(Hello)>> /\ state \in {"ServerHello", "Failed"}
  BY <1>1, <1>3 DEF UpInv
<1>5. Head(up).messages[1] = Hello /\ up' = <<>>
  <2>1. Head(up) = Plain(Hello) /\ up' = <<>>
    BY <1>1, <1>4
  <2> QED BY <2>1, PlainMessage, Zenon
<1>6. down' = Append(down, Plain(Answer)) /\
      server' = [server EXCEPT
        !.phase = "flight", !.flight = ServerFlight, !.transcript = Mid, !.mid = Mid, !.master = Master,
        !.read = FreshState(ReadHs), !.write = FreshState(WriteHs)]
  BY <1>5, Accepted, Zenon
     DEF ServerAnswers, Answer, Opening, ServerPsk, ServerHs, HandshakeSecret, Master, ReadHs, WriteHs, ServerFlight, Mid
<1>7. server' = Peer("flight", Mid, ServerFlight, Mid, Master, Keys(ReadHs, 0), Keys(WriteHs, 0), FALSE)
  BY <1>3, <1>6, FlightStart, Zenon
<1>8. /\ server'.phase = "flight" /\ server'.transcript = Mid /\ server'.flight = ServerFlight /\ server'.mid = Mid
      /\ server'.master = Master /\ server'.read = Keys(ReadHs, 0) /\ server'.write = Keys(WriteHs, 0)
      /\ server' = Peer(server.phase, server.transcript, server.flight, server.mid, server.master, server.read,
                        server.write, server.ccs)'
  <2> DEFINE b == FALSE
             r == Keys(ReadHs, 0)
             w == Keys(WriteHs, 0)
  <2>1. server' = Peer("flight", Mid, ServerFlight, Mid, Master, r, w, b)
    BY <1>7
  <2> HIDE DEF b, r, w
  <2>2. PICK s : s = server'
    OBVIOUS
  <2>3. /\ s.phase = "flight" /\ s.transcript = Mid /\ s.flight = ServerFlight /\ s.mid = Mid
        /\ s.master = Master /\ s.read = r /\ s.write = w
        /\ s = Peer(s.phase, s.transcript, s.flight, s.mid, s.master, s.read, s.write, s.ccs)
    BY <2>1, <2>2, PeerFields
  <2>4. Peer(s.phase, s.transcript, s.flight, s.mid, s.master, s.read, s.write, s.ccs) =
          Peer(server.phase, server.transcript, server.flight, server.mid, server.master, server.read,
               server.write, server.ccs)'
    BY <2>2, Zenon DEF Peer
  <2> QED BY <2>2, <2>3, <2>4, Zenon DEF r, w
<1>9. /\ FlightLen' = FlightLen /\ Mid' = Mid /\ Master' = Master /\ ServerFlight' = ServerFlight
      /\ ReadHs' = ReadHs /\ WriteHs' = WriteHs
  BY <1>1, Fixed
<1>10. FlightLen \in Nat /\ FlightLen >= 2 /\ SubSeq(ServerFlight, 0 + 1, FlightLen) = ServerFlight
  BY <1>2, Sizes, FlightShape DEF FlightLen
<1>11. Keys(ReadHs, 0)' = Keys(ReadHs, 0) /\ Keys(WriteHs, 0)' = Keys(WriteHs, 0)
  BY <1>9, Zenon
<1>12. ServerInv'
  <2>1. (\E n \in Nat : server.write = Keys(WriteHs, n))'
    BY <1>8, <1>11
  <2>2. (\E j \in 0 .. FlightLen - 1 : server.flight = SubSeq(ServerFlight, j + 1, FlightLen))'
    BY <1>8, <1>9, <1>10
  <2> QED BY <1>1, <1>3, <1>8, <1>9, <1>11, <2>1, <2>2, Zenon DEF ServerInv
<1>13. Keys(ReadHs, 0).counter = 0 /\ Keys(WriteHs, 0).counter = 0
  BY DEF Keys
<1>14. UpInv'
  <2>1. Sent' = 0 /\ Received' = 0
    BY <1>1, <1>4, <1>8, <1>13 DEF Sent, Received
  <2>2. IsSequence(up') /\ Len(up') = 0
    BY <1>5 DEF IsSequence
  <2> QED BY <1>1, <1>4, <1>5, <1>8, <2>1, <2>2 DEF UpInv
<1>15. ServerAt = Place(-1, 0) /\ ServerAt' = Place(0, 0)
  <2>1. FlightLen' - Len(server'.flight) = 0
    BY <1>8, <1>9, <1>10 DEF FlightLen
  <2>2. ServerAt' = Place(FlightLen' - Len(server'.flight), server'.write.counter)
    BY <1>8 DEF ServerAt
  <2>3. ServerAt = Place(-1, 0)
    BY <1>1 DEF ServerAt
  <2> QED BY <1>8, <1>13, <2>1, <2>2, <2>3, Zenon
<1>16. ClientAt' = ClientAt
  BY <1>1, <1>3, ServerMoves
<1>17. DownInv'
  <2>1. Place(0, 0) \in Places'
    BY <1>9, <1>10 DEF Place, Places
  <2>2. Leads(Place(-1, 0), Plain(Answer), Place(0, 0))
    BY Zenon DEF Leads
  <2>3. Places' = Places
    BY <1>1, FixedWays
  <2> QED BY <1>1, <1>3, <1>6, <1>8, <1>15, <1>16, <2>1, <2>2, <2>3, Sends
<1> QED BY <1>1, <1>3, <1>12, <1>14, <1>17, ServerMoves

(* A piece from the front of what is left of a sequence. *)
LEMMA Pieces ==
  ASSUME NEW M, NEW s \in Seq(M), NEW j \in 0 .. Len(s) - 1, NEW f, f = SubSeq(s, j + 1, Len(s))
  PROVE  /\ Len(f) = Len(s) - j
         /\ \A k \in 1 .. Len(s) - j : SubSeq(f, 1, k) = SubSeq(s, j + 1, j + k)
         /\ \A k \in 1 .. Len(s) - j - 1 : SubSeq(f, k + 1, Len(f)) = SubSeq(s, (j + k) + 1, Len(s))
<1>1. f \in Seq(M) /\ Len(f) = Len(s) - j /\ \A i \in 1 .. Len(s) - j : f[i] = s[j + i]
  OBVIOUS
<1>2. ASSUME NEW k \in 1 .. Len(s) - j PROVE SubSeq(f, 1, k) = SubSeq(s, j + 1, j + k)
  <2> DEFINE u == SubSeq(f, 1, k)
             v == SubSeq(s, j + 1, j + k)
  <2>1. u \in Seq(M) /\ Len(u) = k /\ \A i \in 1 .. k : u[i] = f[i]
    BY <1>1, <1>2, SMTT(30)
  <2>2. v \in Seq(M) /\ Len(v) = k /\ \A i \in 1 .. k : v[i] = s[j + i]
    BY <1>2, SMTT(30)
  <2>3. \A i \in 1 .. k : u[i] = v[i]
    BY <1>1, <1>2, <2>1, <2>2
  <2> HIDE DEF u, v
  <2>4. u = v
    BY <2>1, <2>2, <2>3
  <2> QED BY <2>4 DEF u, v
<1>3. ASSUME NEW k \in 1 .. Len(s) - j - 1 PROVE SubSeq(f, k + 1, Len(f)) = SubSeq(s, (j + k) + 1, Len(s))
  <2> DEFINE u == SubSeq(f, k + 1, Len(f))
             v == SubSeq(s, (j + k) + 1, Len(s))
             n == Len(s) - j - k
  <2>1. u \in Seq(M) /\ Len(u) = n /\ \A i \in 1 .. n : u[i] = f[k + i]
    BY <1>1, <1>3
  <2>2. v \in Seq(M) /\ Len(v) = n /\ \A i \in 1 .. n : v[i] = s[(j + k) + i]
    BY <1>3
  <2>3. \A i \in 1 .. n : u[i] = v[i]
    <3> TAKE i \in 1 .. n
    <3>1. k + i \in 1 .. Len(s) - j /\ j + (k + i) = (j + k) + i
      BY <1>3
    <3> QED BY <1>1, <2>1, <2>2, <3>1, Zenon
  <2> HIDE DEF u, v, n
  <2>4. u = v
    BY <2>1, <2>2, <2>3
  <2> QED BY <2>4 DEF u, v
<1> QED BY <1>1, <1>2, <1>3

(* The server in the middle of its flight. *)
LEMMA InFlight ==
  ASSUME IInv, server.phase = "flight"
  PROVE  /\ config \in Config /\ (config.psk = "accepted" => ~config.request) /\ FlightLen \in Nat
         /\ data \in [client : Nat, server : Nat] /\ data.server = 0 /\ ServerInv /\ UpInv /\ DownInv
         /\ Received = 0 /\ ServerFlight \in Seq(Said)
         /\ server = Peer("flight", Mid, server.flight, Mid, Master, Keys(ReadHs, 0), server.write, server.ccs)
         /\ \E j \in 0 .. FlightLen - 1, n \in Nat :
              /\ server.flight = SubSeq(ServerFlight, j + 1, FlightLen) /\ server.write = Keys(WriteHs, n)
              /\ ServerAt = Place(j, n)
<1>1. config \in Config /\ (config.psk = "accepted" => ~config.request)
  BY Configured
<1>2. FlightLen \in Nat /\ ServerFlight \in Seq(Said)
  BY <1>1, Sizes, FlightShape
<1>3. data \in [client : Nat, server : Nat] /\ data.server = 0 /\ ServerInv /\ UpInv /\ DownInv
  BY DEF IInv, ServerInv
<1>4. /\ server.mid = Mid /\ server.master = Master /\ server.transcript = Mid /\ server.read = Keys(ReadHs, 0)
      /\ server = Peer(server.phase, server.transcript, server.flight, server.mid, server.master, server.read,
                       server.write, server.ccs)
  BY <1>3 DEF ServerInv
<1>5. Received = 0
  <2>1. Keys(ReadHs, 0).counter = 0
    BY DEF Keys
  <2> QED BY <1>4, <2>1 DEF Received
<1>6. PICK n \in Nat : server.write = Keys(WriteHs, n)
  BY <1>3 DEF ServerInv
<1>7. PICK j \in 0 .. FlightLen - 1 : server.flight = SubSeq(ServerFlight, j + 1, FlightLen)
  BY <1>3 DEF ServerInv
<1>8. ServerAt = Place(j, n)
  <2>1. Len(server.flight) = FlightLen - j
    BY <1>2, <1>7, Pieces DEF FlightLen
  <2>2. FlightLen - Len(server.flight) = j
    BY <1>2, <2>1
  <2>3. Keys(WriteHs, n).counter = n
    BY DEF Keys
  <2>4. ServerAt = Place(FlightLen - Len(server.flight), server.write.counter)
    BY DEF ServerAt
  <2> QED BY <1>6, <2>2, <2>3, <2>4, Zenon
<1>9. server = Peer("flight", Mid, server.flight, Mid, Master, Keys(ReadHs, 0), server.write, server.ccs)
  BY <1>4, Zenon
<1> QED BY <1>1, <1>2, <1>3, <1>5, <1>6, <1>7, <1>8, <1>9, Zenon

(* ServerSends. *)
LEMMA ServerSendsStep ==
  ASSUME IInv, ServerSends PROVE IInv'
<1>1. /\ server.phase = "flight" /\ up' = up /\ config' = config /\ state' = state
      /\ error' = error /\ handshake' = handshake /\ ks' = ks /\ verifier' = verifier /\ data' = data
  BY DEF ServerSends
<1>2. /\ config \in Config /\ (config.psk = "accepted" => ~config.request) /\ FlightLen \in Nat
      /\ data \in [client : Nat, server : Nat] /\ data.server = 0 /\ ServerInv /\ UpInv /\ DownInv
      /\ Received = 0 /\ ServerFlight \in Seq(Said)
  BY <1>1, InFlight
<1>3. server = Peer("flight", Mid, server.flight, Mid, Master, Keys(ReadHs, 0), server.write, server.ccs)
  BY <1>1, InFlight
<1>4. PICK j \in 0 .. FlightLen - 1, n \in Nat :
        /\ server.flight = SubSeq(ServerFlight, j + 1, FlightLen) /\ server.write = Keys(WriteHs, n)
        /\ ServerAt = Place(j, n)
  BY <1>1, InFlight
<1>5. PICK k \in 1 .. Len(server.flight) :
       /\ down' = Append(down, Sealed(server.write, SubSeq(server.flight, 1, k)))
       /\ server' = IF k < Len(server.flight)
                    THEN [server EXCEPT !.flight = SubSeq(@, k + 1, Len(@)), !.write = Counted(@)]
                    ELSE [server EXCEPT !.phase = "finish", !.flight = <<>>,
                            !.write = FreshState(Expand(server.master, "s ap traffic", server.mid))]
  BY Zenon DEF ServerSends
<1>6. /\ Len(server.flight) = FlightLen - j
      /\ \A i \in 1 .. FlightLen - j : SubSeq(server.flight, 1, i) = SubSeq(ServerFlight, j + 1, j + i)
      /\ \A i \in 1 .. FlightLen - j - 1 :
           SubSeq(server.flight, i + 1, Len(server.flight)) = SubSeq(ServerFlight, (j + i) + 1, FlightLen)
  BY <1>2, <1>4, Pieces DEF FlightLen
<1>7. j + k \in j + 1 .. FlightLen /\ k \in 1 .. FlightLen - j
  BY <1>2, <1>5, <1>6, SMTT(30)
<1> DEFINE r == Record(WriteHs, n, SubSeq(ServerFlight, j + 1, j + k))
<1>8. down' = Append(down, r)
  BY <1>4, <1>5, <1>6, <1>7, SealedKeys, Zenon
<1>9. /\ FlightLen' = FlightLen /\ ReplyLen' = ReplyLen /\ Mid' = Mid /\ Master' = Master
      /\ ServerFlight' = ServerFlight /\ Reply' = Reply
      /\ ReadHs' = ReadHs /\ WriteHs' = WriteHs /\ WriteAp' = WriteAp /\ Places' = Places
  BY <1>1, Fixed, FixedWays
<1>10. ClientAt' = ClientAt /\ Sent' = Sent /\ (ServerInv' /\ UpInv' /\ DownInv' => IInv')
  BY <1>1, <1>2, ServerMoves
<1>11. Keys(ReadHs, 0).counter = 0
  BY DEF Keys
<1>12. Leads(Place(j, n), r, Place(j + k, IF j + k < FlightLen THEN n + 1 ELSE 0))
  <2> DEFINE c == IF j + k < FlightLen THEN n + 1 ELSE 0
  <2>1. /\ Place(j, n).pos = j /\ Place(j, n).counter = n
        /\ Place(j + k, c).pos = j + k /\ Place(j + k, c).counter = c
    BY DEF Place
  <2> QED BY <1>7, <2>1, Zenon DEF Leads
<1> HIDE DEF r
<1> DEFINE f == SubSeq(ServerFlight, (j + k) + 1, FlightLen)
           m == Mid
           x == Master
           a == Keys(ReadHs, 0)
           c == server.ccs
           g == server.flight
           v == server.write
<1>13. CASE k < Len(server.flight)
  <2> DEFINE w == Keys(WriteHs, n + 1)
  <2>1. j + k \in 0 .. FlightLen - 1 /\ n + 1 \in Nat /\ j + k < FlightLen /\ k \in 1 .. FlightLen - j - 1
    BY <1>2, <1>6, <1>7, <1>13
  <2>2. server' = WithWrite(WithFlight(server, f), w)
    <3>1. server' = [server EXCEPT !.flight = SubSeq(@, k + 1, Len(@)), !.write = Counted(@)]
      BY <1>5, <1>13, Zenon
    <3>2. SubSeq(server.flight, k + 1, Len(server.flight)) = f
      BY <1>6, <2>1, Zenon
    <3>3. Counted(server.write) = w
      BY <1>4, Counting
    <3> QED BY <3>1, <3>2, <3>3, Zenon DEF WithWrite, WithFlight
  <2>3. server' = Peer("flight", m, f, m, x, a, w, c)
    <3> HIDE DEF f, m, x, a, w, c, g, v
    <3>1. WithFlight(Peer("flight", m, g, m, x, a, v, c), f) = Peer("flight", m, f, m, x, a, v, c)
      BY FlightStep
    <3>2. WithWrite(Peer("flight", m, f, m, x, a, v, c), w) = Peer("flight", m, f, m, x, a, w, c)
      BY WriteStep
    <3>3. server = Peer("flight", m, g, m, x, a, v, c)
      BY <1>3, Zenon DEF m, g, x, a, v, c
    <3> QED BY <2>2, <3>1, <3>2, <3>3, Zenon
  <2>4. /\ server'.phase = "flight" /\ server'.transcript = m /\ server'.flight = f /\ server'.mid = m
        /\ server'.master = x /\ server'.read = a /\ server'.write = w
        /\ server' = Peer(server.phase, server.transcript, server.flight, server.mid, server.master, server.read,
                          server.write, server.ccs)'
    <3> HIDE DEF f, m, x, a, w, c
    <3> QED BY <2>3, PeerNext
  <2>5. ServerInv'
    <3>1. (\E i \in Nat : server.write = Keys(WriteHs, i))'
      <4>1. server'.write = Keys(WriteHs', n + 1)
        BY <1>9, <2>4, Zenon
      <4> QED BY <2>1, <4>1
    <3>2. (\E i \in 0 .. FlightLen - 1 : server.flight = SubSeq(ServerFlight, i + 1, FlightLen))'
      <4>1. server'.flight = SubSeq(ServerFlight', (j + k) + 1, FlightLen')
        BY <1>9, <2>4, Zenon
      <4> QED BY <1>9, <2>1, <4>1, Zenon
    <3>3. server'.read = Keys(ReadHs, 0)'
      BY <1>9, <2>4, Zenon
    <3> QED BY <1>1, <1>2, <1>9, <2>4, <3>1, <3>2, <3>3, Zenon DEF ServerInv
  <2>6. ServerAt' = Place(j + k, n + 1)
    <3>1. ServerAt' = Place(FlightLen' - Len(server'.flight), server'.write.counter)
      BY <2>4, Zenon DEF ServerAt
    <3>2. Len(f) = FlightLen - (j + k)
      BY <1>2, <2>1, Pieces DEF FlightLen
    <3>3. FlightLen' - Len(server'.flight) = j + k
      <4> HIDE DEF f
      <4> QED BY <1>2, <1>9, <2>1, <2>4, <3>2
    <3>4. w.counter = n + 1
      BY DEF Keys
    <3> QED BY <2>4, <3>1, <3>3, <3>4, Zenon
  <2>7. UpInv'
    <3>1. Received' = Received
      BY <1>2, <1>11, <2>4 DEF Received
    <3> QED BY <1>1, <1>2, <1>10, <2>4, <3>1, UpKept
  <2>8. DownInv'
    <3>1. Place(j + k, n + 1) \in Places
      BY <1>7, <2>1 DEF Place, Places
    <3>2. Leads(ServerAt, r, ServerAt') /\ ServerAt' \in Places
      BY <1>4, <1>12, <2>1, <2>6, <3>1, Zenon
    <3> QED BY <1>1, <1>2, <1>8, <1>10, <2>4, <3>2, Sends
  <2> QED BY <1>10, <2>5, <2>7, <2>8
<1>14. CASE ~(k < Len(server.flight))
  <2> DEFINE w == Keys(WriteAp, 0)
             e == <<>>
  <2>1. j + k = FlightLen /\ ~(j + k < FlightLen)
    BY <1>2, <1>6, <1>7, <1>14
  <2>2. server' = WithWrite(WithFlight(WithPhase(server, "finish"), e), w)
    <3>1. server' = [server EXCEPT !.phase = "finish", !.flight = <<>>,
                       !.write = FreshState(Expand(server.master, "s ap traffic", server.mid))]
      BY <1>5, <1>14, Zenon
    <3>2. server.mid = Mid /\ server.master = Master
      BY <1>1, <1>2 DEF ServerInv
    <3>3. FreshState(WriteAp) = w
      BY Fresh, Zenon
    <3> QED BY <3>1, <3>2, <3>3, Zenon DEF WithWrite, WithFlight, WithPhase, WriteAp
  <2>3. server' = Peer("finish", m, e, m, x, a, w, c)
    <3> HIDE DEF m, x, a, w, c, g, v, e
    <3>1. WithPhase(Peer("flight", m, g, m, x, a, v, c), "finish") = Peer("finish", m, g, m, x, a, v, c)
      BY PhaseStep
    <3>2. WithFlight(Peer("finish", m, g, m, x, a, v, c), e) = Peer("finish", m, e, m, x, a, v, c)
      BY FlightStep
    <3>3. WithWrite(Peer("finish", m, e, m, x, a, v, c), w) = Peer("finish", m, e, m, x, a, w, c)
      BY WriteStep
    <3>4. server = Peer("flight", m, g, m, x, a, v, c)
      BY <1>3, Zenon DEF m, g, x, a, v, c
    <3> QED BY <2>2, <3>1, <3>2, <3>3, <3>4, Zenon
  <2>4. /\ server'.phase = "finish" /\ server'.transcript = m /\ server'.mid = m
        /\ server'.master = x /\ server'.read = a /\ server'.write = w
        /\ server' = Peer(server.phase, server.transcript, server.flight, server.mid, server.master, server.read,
                          server.write, server.ccs)'
    <3> HIDE DEF m, x, a, w, c, e
    <3> QED BY <2>3, PeerNext
  <2>5. ServerInv'
    <3>1. ReplyLen \in Nat /\ ReplyLen >= 1 /\ Mid \o SubSeq(Reply, 1, 0) = Mid
      BY <1>2, Sizes
    <3>2. (\E q \in 0 .. ReplyLen - 1 :
             server.read = Keys(ReadHs, q) /\ server.transcript = Mid \o SubSeq(Reply, 1, q))'
      <4>1. server'.read = Keys(ReadHs', 0) /\ server'.transcript = Mid' \o SubSeq(Reply', 1, 0) /\ 0 \in 0 .. ReplyLen' - 1
        <5>1. 0 \in 0 .. ReplyLen' - 1
          BY <1>9, <3>1
        <5> QED BY <1>9, <2>4, <3>1, <5>1, Zenon
      <4> QED BY <4>1, Zenon
    <3>3. server'.write = Keys(WriteAp, data.server)'
      BY <1>1, <1>2, <1>9, <2>4, Zenon
    <3> QED BY <1>1, <1>2, <1>9, <2>4, <3>2, <3>3, Zenon DEF ServerInv
  <2>6. ServerAt' = Place(j + k, 0)
    <3>1. ServerAt' = Place(FlightLen', server'.write.counter)
      BY <2>4 DEF ServerAt
    <3>2. w.counter = 0
      BY DEF Keys
    <3> QED BY <1>9, <2>1, <2>4, <3>1, <3>2, Zenon
  <2>7. UpInv'
    <3>1. Received' = Received
      BY <1>2, <1>11, <2>4 DEF Received
    <3> QED BY <1>1, <1>2, <1>10, <2>4, <3>1, UpKept, SMTT(30)
  <2>8. DownInv'
    <3>1. Place(j + k, 0) \in Places
      BY <1>2, <2>1 DEF Place, Places
    <3>2. Leads(ServerAt, r, ServerAt') /\ ServerAt' \in Places
      BY <1>4, <1>12, <2>1, <2>6, <3>1, Zenon
    <3> QED BY <1>1, <1>2, <1>8, <1>10, <2>4, <3>2, Sends
  <2> QED BY <1>10, <2>5, <2>7, <2>8
<1> QED BY <1>13, <1>14

(* ServerChangesCipher. *)
LEMMA ServerChangesCipherStep ==
  ASSUME IInv, ServerChangesCipher PROVE IInv'
<1>1. /\ server.phase = "flight" /\ up' = up /\ config' = config /\ state' = state
      /\ error' = error /\ handshake' = handshake /\ ks' = ks /\ verifier' = verifier /\ data' = data
  BY DEF ServerChangesCipher
<1> DEFINE r == Plain(Message("ChangeCipherSpec", <<>>))
           f == server.flight
           m == Mid
           x == Master
           a == Keys(ReadHs, 0)
           c == server.ccs
           v == server.write
           d == TRUE
<1>2. down' = Append(down, r) /\ server' = WithCcs(server, d)
  BY Zenon DEF ServerChangesCipher, WithCcs
<1>3. /\ config \in Config /\ (config.psk = "accepted" => ~config.request) /\ FlightLen \in Nat
      /\ data \in [client : Nat, server : Nat] /\ data.server = 0 /\ ServerInv /\ UpInv /\ DownInv
      /\ Received = 0 /\ ServerFlight \in Seq(Said)
      /\ server = Peer("flight", m, f, m, x, a, v, c)
  BY <1>1, InFlight
<1>4. PICK j \in 0 .. FlightLen - 1, n \in Nat :
        /\ server.flight = SubSeq(ServerFlight, j + 1, FlightLen) /\ server.write = Keys(WriteHs, n)
        /\ ServerAt = Place(j, n)
  BY <1>1, InFlight
<1>5. /\ FlightLen' = FlightLen /\ Mid' = Mid /\ Master' = Master /\ ServerFlight' = ServerFlight
      /\ ReadHs' = ReadHs /\ WriteHs' = WriteHs
  BY <1>1, Fixed, FixedWays
<1>6. ClientAt' = ClientAt /\ Sent' = Sent /\ (ServerInv' /\ UpInv' /\ DownInv' => IInv')
  BY <1>1, <1>3, ServerMoves
<1>7. /\ server'.phase = "flight" /\ server'.transcript = m /\ server'.flight = f /\ server'.mid = m
      /\ server'.master = x /\ server'.read = a /\ server'.write = v
      /\ server' = Peer(server.phase, server.transcript, server.flight, server.mid, server.master, server.read,
                        server.write, server.ccs)'
  <2> HIDE DEF f, m, x, a, v, c, d
  <2>1. WithCcs(Peer("flight", m, f, m, x, a, v, c), d) = Peer("flight", m, f, m, x, a, v, d)
    BY CcsStep
  <2>2. server' = Peer("flight", m, f, m, x, a, v, d)
    BY <1>2, <1>3, <2>1, Zenon
  <2> QED BY <2>2, PeerNext
<1>8. ServerInv'
  <2>1. (\E i \in Nat : server.write = Keys(WriteHs, i))'
    <3>1. server'.write = Keys(WriteHs', n)
      BY <1>4, <1>5, <1>7, Zenon
    <3> QED BY <3>1
  <2>2. (\E i \in 0 .. FlightLen - 1 : server.flight = SubSeq(ServerFlight, i + 1, FlightLen))'
    <3>1. server'.flight = SubSeq(ServerFlight', j + 1, FlightLen')
      BY <1>4, <1>5, <1>7, Zenon
    <3> QED BY <1>5, <3>1, Zenon
  <2>3. server'.read = Keys(ReadHs, 0)'
    BY <1>5, <1>7, Zenon
  <2> QED BY <1>1, <1>3, <1>5, <1>7, <2>1, <2>2, <2>3, Zenon DEF ServerInv
<1>9. ServerAt' = ServerAt
  <2>1. ServerAt' = Place(FlightLen' - Len(server'.flight), server'.write.counter)
    BY <1>7 DEF ServerAt
  <2>2. ServerAt = Place(FlightLen - Len(server.flight), server.write.counter)
    BY <1>1 DEF ServerAt
  <2> QED BY <1>5, <1>7, <2>1, <2>2, Zenon
<1>10. UpInv'
  <2>1. Received' = Received
    BY <1>1, <1>3, <1>7 DEF Received, Keys
  <2> QED BY <1>1, <1>3, <1>6, <1>7, <2>1, UpKept, SMTT(30)
<1>11. DownInv'
  <2>1. Place(j, n) \in Places /\ Place(j, n).pos = j
    BY <1>3 DEF Place, Places
  <2>2. Leads(ServerAt, r, ServerAt') /\ ServerAt' \in Places
    <3>1. Leads(Place(j, n), r, Place(j, n))
      BY <2>1, Zenon DEF Leads
    <3>2. ServerAt' = Place(j, n)
      BY <1>4, <1>9
    <3> QED BY <1>4, <2>1, <3>1, <3>2, Zenon
  <2> HIDE DEF r
  <2> QED BY <1>1, <1>2, <1>3, <1>6, <1>7, <2>2, Sends, Zenon
<1> QED BY <1>6, <1>8, <1>10, <1>11

(* Nothing more is known of a server that gave up. *)
LEMMA Aborted ==
  ASSUME ServerInv, server' = WithPhase(server, "aborted")
  PROVE  server'.phase = "aborted" /\ ServerInv'
<1> DEFINE p == server.phase
           t == server.transcript
           f == server.flight
           m == server.mid
           x == server.master
           a == server.read
           v == server.write
           c == server.ccs
<1>1. server = Peer(p, t, f, m, x, a, v, c)
  BY SMTT(30) DEF ServerInv
<1> HIDE DEF p, t, f, m, x, a, v, c
<1>2. WithPhase(Peer(p, t, f, m, x, a, v, c), "aborted") = Peer("aborted", t, f, m, x, a, v, c)
  BY PhaseStep
<1>3. server' = Peer("aborted", t, f, m, x, a, v, c)
  BY <1>1, <1>2, Zenon
<1>4. /\ server'.phase = "aborted"
      /\ server' = Peer(server.phase, server.transcript, server.flight, server.mid, server.master, server.read,
                        server.write, server.ccs)'
  BY <1>3, PeerNext
<1> QED BY <1>4, SMTT(30) DEF ServerInv

(* ServerAborts. *)
LEMMA ServerAbortsStep ==
  ASSUME IInv, ServerAborts PROVE IInv'
<1>1. /\ server.phase \in {"start", "flight"} /\ up' = up /\ config' = config /\ state' = state
      /\ error' = error /\ handshake' = handshake /\ ks' = ks /\ verifier' = verifier /\ data' = data
  BY DEF ServerAborts
<1>2. server' = WithPhase(server, "aborted")
  BY Zenon DEF ServerAborts, WithPhase
<1>3. data \in [client : Nat, server : Nat] /\ ServerInv /\ UpInv /\ DownInv
  BY DEF IInv
<1>4. ClientAt' = ClientAt /\ Sent' = Sent /\ (ServerInv' /\ UpInv' /\ DownInv' => IInv')
  BY <1>1, <1>3, ServerMoves
<1>5. server'.phase = "aborted" /\ ServerInv'
  BY <1>2, <1>3, Aborted
<1>6. UpInv'
  <2>1. state # "ClientHello"
    BY <1>1, <1>3 DEF UpInv, ServerAborts
  <2> QED BY <1>1, <1>3, <1>5, <2>1 DEF UpInv
<1>7. PICK r : down' = Append(down, r) /\ Aborts(ServerAt, r)
  <2>1. CASE server.phase = "start"
    <3>1. ServerAt = Place(-1, 0)
      BY <2>1 DEF ServerAt
    <3>2. down' = Append(down, Plain(Message("Alert", <<>>)))
      BY <2>1 DEF ServerAborts
    <3> QED BY <3>1, <3>2, Zenon DEF Aborts
  <2>2. CASE server.phase = "flight"
    <3>1. PICK j \in 0 .. FlightLen - 1, n \in Nat : server.write = Keys(WriteHs, n) /\ ServerAt = Place(j, n)
      BY <2>2, InFlight
    <3>2. down' = Append(down, Sealed(server.write, <<Message("Alert", <<>>)>>))
      BY <2>2, Zenon DEF ServerAborts
    <3>3. down' = Append(down, Record(WriteHs, n, <<Message("Alert", <<>>)>>))
      BY <3>1, <3>2, SealedKeys, Zenon
    <3>4. Place(j, n).pos = j /\ Place(j, n).counter = n
      BY DEF Place
    <3>5. Aborts(Place(j, n), Record(WriteHs, n, <<Message("Alert", <<>>)>>))
      BY <3>4, Zenon DEF Aborts
    <3> QED BY <3>1, <3>3, <3>5, Zenon
  <2> QED BY <1>1, <2>1, <2>2
<1>8. DownInv'
  BY <1>1, <1>3, <1>4, <1>5, <1>7, GivesUp
<1> QED BY <1>4, <1>5, <1>6, <1>8

(* ServerSendsData. *)
LEMMA ServerSendsDataStep ==
  ASSUME IInv, ServerSendsData PROVE IInv'
<1>1. /\ server.phase \in {"finish", "done"} /\ up' = up /\ config' = config /\ state' = state
      /\ error' = error /\ handshake' = handshake /\ ks' = ks /\ verifier' = verifier
  BY DEF ServerSendsData
<1>2. config \in Config /\ (config.psk = "accepted" => ~config.request)
  BY Configured
<1>3. data \in [client : Nat, server : Nat] /\ ServerInv /\ UpInv /\ DownInv /\ FlightLen \in Nat
  BY <1>2, Sizes DEF IInv
<1>4. data' \in [client : Nat, server : Nat] /\ data'.client = data.client /\ data'.server = data.server + 1
  BY <1>3, SMTT(30) DEF ServerSendsData
<1> DEFINE n == data.server
           w == Keys(WriteAp, n + 1)
           p == server.phase
           t == server.transcript
           f == server.flight
           m == server.mid
           x == server.master
           a == server.read
           v == server.write
           c == server.ccs
           r == Record(WriteAp, n, <<Message("Data", <<>>)>>)
<1>5. n \in Nat /\ server.write = Keys(WriteAp, n) /\ server = Peer(p, t, f, m, x, a, v, c)
  BY <1>1, <1>3, SMTT(30) DEF ServerInv
<1>6. down' = Append(down, r) /\ server' = WithWrite(server, w)
  <2>1. Counted(server.write) = w
    BY <1>5, Counting
  <2>2. /\ down' = Append(down, Sealed(server.write, <<Message("Data", <<>>)>>))
        /\ server' = [server EXCEPT !.write = Counted(@)]
    BY Zenon DEF ServerSendsData
  <2> QED BY <1>5, <2>1, <2>2, SealedKeys, Zenon DEF WithWrite
<1>7. /\ FlightLen' = FlightLen /\ ReplyLen' = ReplyLen /\ Mid' = Mid /\ Master' = Master
      /\ Reply' = Reply /\ ReadHs' = ReadHs /\ ReadAp' = ReadAp /\ WriteAp' = WriteAp
  BY <1>1, Fixed, FixedWays
<1>8. ClientAt' = ClientAt /\ Sent' = Sent /\ (ServerInv' /\ UpInv' /\ DownInv' => IInv')
  BY <1>1, <1>4, ServerMoves
<1>9. /\ server'.phase = p /\ server'.transcript = t /\ server'.flight = f /\ server'.mid = m
      /\ server'.master = x /\ server'.read = a /\ server'.write = w
      /\ server' = Peer(server.phase, server.transcript, server.flight, server.mid, server.master, server.read,
                        server.write, server.ccs)'
  <2> HIDE DEF p, t, f, m, x, a, v, c, w
  <2>1. WithWrite(Peer(p, t, f, m, x, a, v, c), w) = Peer(p, t, f, m, x, a, w, c)
    BY WriteStep
  <2>2. server' = Peer(p, t, f, m, x, a, w, c)
    BY <1>5, <1>6, <2>1, Zenon
  <2> QED BY <2>2, PeerNext
<1>10. ServerInv'
  <2>1. server'.write = Keys(WriteAp, data.server)'
    BY <1>4, <1>7, <1>9, Zenon
  <2>2. server'.mid = Mid' /\ server'.master = Master'
    BY <1>1, <1>3, <1>7, <1>9, SMTT(30) DEF ServerInv
  <2>3. ASSUME server.phase = "finish"
        PROVE  (\E q \in 0 .. ReplyLen - 1 :
                 server.read = Keys(ReadHs, q) /\ server.transcript = Mid \o SubSeq(Reply, 1, q))'
    <3>1. PICK q \in 0 .. ReplyLen - 1 :
            server.read = Keys(ReadHs, q) /\ server.transcript = Mid \o SubSeq(Reply, 1, q)
      BY <1>3, <2>3, Zenon DEF ServerInv
    <3>2. server'.read = Keys(ReadHs', q) /\ server'.transcript = Mid' \o SubSeq(Reply', 1, q) /\ q \in 0 .. ReplyLen' - 1
      BY <1>7, <1>9, <3>1, Zenon
    <3> QED BY <3>2, Zenon
  <2>4. ASSUME server.phase = "done" PROVE (\E i \in Nat : server.read = Keys(ReadAp, i))'
    <3>1. PICK i \in Nat : server.read = Keys(ReadAp, i)
      BY <1>3, <2>4 DEF ServerInv
    <3> QED BY <1>7, <1>9, <3>1, Zenon
  <2> QED BY <1>1, <1>9, <2>1, <2>2, <2>3, <2>4, SMTT(30) DEF ServerInv
<1>11. ServerAt = Place(FlightLen, n) /\ ServerAt' = Place(FlightLen, n + 1)
  <2>1. ServerAt = Place(FlightLen, server.write.counter)
    BY <1>1 DEF ServerAt
  <2>2. ServerAt' = Place(FlightLen', server'.write.counter)
    BY <1>1, <1>9 DEF ServerAt
  <2>3. Keys(WriteAp, n).counter = n /\ w.counter = n + 1
    BY DEF Keys
  <2> QED BY <1>5, <1>7, <1>9, <2>1, <2>2, <2>3, Zenon
<1>12. UpInv'
  <2>1. Received' = Received
    BY <1>7, <1>9, Zenon DEF Received
  <2> QED BY <1>1, <1>3, <1>8, <1>9, <2>1, UpKept
<1>13. DownInv'
  <2>1. /\ Place(FlightLen, n + 1) \in Places /\ Place(FlightLen, n).pos = FlightLen
        /\ Place(FlightLen, n).counter = n
    BY <1>3, <1>5 DEF Place, Places
  <2>2. Leads(Place(FlightLen, n), r, Place(FlightLen, n + 1))
    BY <2>1, Zenon DEF Leads
  <2>3. Leads(ServerAt, r, ServerAt') /\ ServerAt' \in Places
    BY <1>11, <2>1, <2>2, Zenon
  <2> HIDE DEF r
  <2> QED BY <1>1, <1>3, <1>6, <1>8, <1>9, <2>3, Sends, SMTT(30)
<1> QED BY <1>8, <1>10, <1>12, <1>13

(* A tuple of one. *)
LEMMA Only ==
  ASSUME NEW a, NEW b PROVE <<a>>[1] = a /\ (<<a>> = <<b>> => a = b)
OBVIOUS

(* The parts of a message. *)
LEMMA Parts ==
  ASSUME NEW n, NEW b PROVE Message(n, b)[2] = b /\ Name(Message(n, b)) = n
BY DEF Message, Name

(* What the server accepts, name by name. *)
LEMMA ExpectedWhen ==
  ASSUME NEW m
  PROVE  /\ Name(m) = "Certificate" /\ config.request /\ Len(server.transcript) - Len(server.mid) = 0 => Expected(m)
         /\ /\ Name(m) = "CertificateVerify"
            /\ server.transcript[Len(server.transcript)] = Message("Certificate", <<TRUE>>)
            /\ Len(server.transcript) - Len(server.mid) = 1 /\ m[2] = <<"sig", server.transcript>>
            => Expected(m)
         /\ /\ Name(m) = "Finished"
            /\ m[2] = Mac(server.read.traffic_secret, server.transcript)
            /\ config.request => /\ Len(server.transcript) - Len(server.mid) > 0
                                 /\ server.transcript[Len(server.transcript)] # Message("Certificate", <<TRUE>>)
            => Expected(m)
<1> DEFINE sent == Len(server.transcript) - Len(server.mid)
           last == server.transcript[Len(server.transcript)]
           A == config.request /\ sent = 0
           B == last = Message("Certificate", <<TRUE>>) /\ sent = 1 /\ m[2] = <<"sig", server.transcript>>
           C == /\ m[2] = Mac(server.read.traffic_secret, server.transcript)
                /\ config.request => sent > 0 /\ last # Message("Certificate", <<TRUE>>)
           n == Name(m)
<1>1. Expected(m) = CASE n = "Certificate" -> A [] n = "CertificateVerify" -> B [] n = "Finished" -> C [] OTHER -> FALSE
  BY Zenon DEF Expected
<1> HIDE DEF A, B, C, n
<1>2. /\ n = "Certificate" => Expected(m) = A
      /\ n = "CertificateVerify" => Expected(m) = B
      /\ n = "Finished" => Expected(m) = C
  BY <1>1
<1> QED BY <1>2, Zenon DEF A, B, C, n

(* The next message of the client's answer is what the server waits for. *)
LEMMA NextExpected ==
  ASSUME config \in Config, config.psk = "accepted" => ~config.request, NEW q \in 0 .. ReplyLen - 1,
         server.mid = Mid, server.read = Keys(ReadHs, q), server.transcript = Mid \o SubSeq(Reply, 1, q)
  PROVE  /\ Expected(Reply[q + 1]) /\ Name(Reply[q + 1]) \notin {"Alert", "Data"}
         /\ Name(Reply[q + 1]) = "Finished" <=> q = ReplyLen - 1
<1> DEFINE m == Reply[q + 1]
           t == server.transcript
           c == Message("Certificate", <<TRUE>>)
           d == TRUE
<1>1. /\ Reply \in Seq(Said) /\ Mid \in Seq(Said)
      /\ ReplyLen = (IF config.request THEN IF config.cert THEN 3 ELSE 2 ELSE 1)
      /\ config.request => Reply[1] = Message("Certificate", <<config.cert>>)
      /\ config.request /\ config.cert =>
           Reply[2] = Message("CertificateVerify", <<"sig", Mid \o SubSeq(Reply, 1, 1)>>)
      /\ Reply[ReplyLen] = Message("Finished", Mac(ReadHs, Mid \o SubSeq(Reply, 1, ReplyLen - 1)))
  BY ReplyShape
<1>2. config.request \in BOOLEAN /\ config.cert \in BOOLEAN
  BY DEF Config
<1>3. /\ Len(t) - Len(server.mid) = q /\ (q > 0 => t[Len(t)] = Reply[q])
  <2> DEFINE u == SubSeq(Reply, 1, q)
  <2>1. u \in Seq(Said) /\ Len(u) = q /\ (q > 0 => u[q] = Reply[q]) /\ q \in Nat
    BY <1>1, <1>2, SMTT(30) DEF ReplyLen
  <2>2. t = Mid \o u
    OBVIOUS
  <2> HIDE DEF u
  <2>3. /\ Len(Mid \o u) = Len(Mid) + Len(u) /\ Len(Mid) \in Nat
        /\ \A i \in 1 .. Len(u) : (Mid \o u)[Len(Mid) + i] = u[i]
    <3>1. Mid \in Seq(Said) /\ u \in Seq(Said)
      BY <1>1, <2>1, Zenon
    <3> QED BY <3>1, Joined
  <2> HIDE DEF t
  <2> QED BY <2>1, <2>2, <2>3
<1>4. CASE q = ReplyLen - 1
  <2>1. m = Message("Finished", Mac(ReadHs, t))
    <3>1. q + 1 = ReplyLen
      BY <1>1, <1>2, <1>4
    <3> QED BY <1>1, <1>4, <3>1, Zenon
  <2>2. Name(m) = "Finished" /\ m[2] = Mac(ReadHs, t)
    <3> DEFINE b == Mac(ReadHs, t)
    <3> HIDE DEF b, m
    <3>1. m = Message("Finished", b)
      BY <2>1, Zenon DEF b
    <3>2. Name(m) = "Finished" /\ m[2] = b
      BY <3>1, Parts
    <3> QED BY <3>2, Zenon DEF b
  <2>3. server.read.traffic_secret = ReadHs
    BY DEF Keys
  <2>4. ASSUME config.request PROVE q > 0 /\ t[Len(t)] # c
    <3>1. q > 0
      BY <1>1, <1>2, <1>4, <2>4, SMTT(30)
    <3>2. CASE config.cert
      <4> DEFINE b == <<"sig", Mid \o SubSeq(Reply, 1, 1)>>
                 e == <<TRUE>>
      <4>1. q = 2 /\ Reply[2] = Message("CertificateVerify", b)
        BY <1>1, <1>4, <2>4, <3>2
      <4> HIDE DEF b, e
      <4>2. Name(Message("CertificateVerify", b)) # Name(Message("Certificate", e))
        BY Parts
      <4>3. Message("CertificateVerify", b) # Message("Certificate", e)
        BY <4>2, Zenon
      <4>4. t[Len(t)] = Message("CertificateVerify", b)
        <5> HIDE DEF t
        <5> QED BY <1>3, <3>1, <4>1
      <4> QED BY <3>1, <4>3, <4>4, Zenon DEF e
    <3>3. CASE ~config.cert
      <4> DEFINE b == config.cert
                 x == <<b>>
                 y == <<d>>
      <4>0. b # d
        BY <3>3, Zenon
      <4>1. q = 1 /\ Reply[1] = Message("Certificate", x)
        BY <1>1, <1>4, <2>4, <3>3
      <4>2. x # y
        <5> HIDE DEF b, d
        <5> QED BY <4>0, Only
      <4>3. Message("Certificate", x) # Message("Certificate", y)
        <5> HIDE DEF x, y
        <5>1. Message("Certificate", x)[2] = x /\ Message("Certificate", y)[2] = y
          BY Parts
        <5> QED BY <4>2, <5>1
      <4>4. t[Len(t)] = Message("Certificate", x)
        <5> HIDE DEF t, x
        <5> QED BY <1>3, <3>1, <4>1
      <4> QED BY <3>1, <4>3, <4>4, Zenon
    <3> QED BY <3>2, <3>3
  <2>5. config.request => Len(t) - Len(server.mid) > 0 /\ t[Len(t)] # c
    BY <1>3, <2>4, Zenon
  <2>6. Expected(m)
    BY <2>2, <2>3, <2>5, ExpectedWhen, Zenon
  <2> QED BY <1>4, <2>2, <2>6
<1>5. CASE q # ReplyLen - 1 /\ q = 0
  <2>1. config.request /\ Reply[1] = Message("Certificate", <<config.cert>>) /\ q + 1 = 1
    BY <1>1, <1>2, <1>5, SMTT(30)
  <2>2. Name(m) = "Certificate"
    <3> DEFINE b == <<config.cert>>
    <3> HIDE DEF b
    <3>1. Name(Message("Certificate", b)) = "Certificate"
      BY Parts
    <3>2. m = Message("Certificate", b)
      BY <2>1, Zenon DEF b
    <3> QED BY <3>1, <3>2, Zenon
  <2>3. Expected(m)
    BY <1>3, <1>5, <2>1, <2>2, ExpectedWhen, Zenon
  <2> HIDE DEF m
  <2> QED BY <1>5, <2>2, <2>3 DEF m
<1>6. CASE q # ReplyLen - 1 /\ q # 0
  <2>1. config.request /\ config.cert /\ q = 1
    BY <1>1, <1>2, <1>6, SMTT(30)
  <2>2. m = Message("CertificateVerify", <<"sig", t>>) /\ t[Len(t)] = c
    <3>1. q + 1 = 2 /\ q > 0
      BY <2>1
    <3>2. m = Message("CertificateVerify", <<"sig", t>>)
      BY <1>1, <2>1, <3>1, Zenon
    <3>3. config.cert = d
      BY <1>2, <2>1
    <3>4. Reply[1] = c
      BY <1>1, <2>1, <3>3, Zenon
    <3> QED BY <1>3, <2>1, <3>1, <3>2, <3>4, Zenon
  <2>3. Name(m) = "CertificateVerify" /\ m[2] = <<"sig", t>>
    <3> DEFINE b == <<"sig", t>>
    <3> HIDE DEF b
    <3>1. Name(Message("CertificateVerify", b)) = "CertificateVerify" /\ Message("CertificateVerify", b)[2] = b
      BY Parts
    <3>2. m = Message("CertificateVerify", b)
      BY <2>2, Zenon DEF b
    <3> QED BY <3>1, <3>2, Zenon DEF b
  <2>4. Expected(m)
    BY <1>3, <2>1, <2>2, <2>3, ExpectedWhen, Zenon
  <2> HIDE DEF m
  <2> QED BY <1>6, <2>3, <2>4 DEF m
<1> QED BY <1>4, <1>5, <1>6

(* What the server does with a record that opens. *)
LEMMA ReadOutcome ==
  ASSUME ServerReads, NEW m, Opens(server.read, Head(up)), m = Head(up).messages[1]
  PROVE  /\ Name(m) = "Alert" => server' = WithPhase(server, "aborted")
         /\ Name(m) = "Data" /\ server.phase = "done" => server' = WithRead(server, Counted(server.read))
         /\ Name(m) \notin {"Alert", "Data"} /\ Expected(m) =>
              IF Name(m) = "Finished"
              THEN server' = WithRead(WithTranscript(WithPhase(server, "done"), Append(server.transcript, m)),
                                      FreshState(Expand(server.master, "c ap traffic", server.mid)))
              ELSE server' = WithTranscript(WithRead(server, Counted(server.read)),
                                            Append(WithRead(server, Counted(server.read)).transcript, m))
<1> DEFINE o == Opens(server.read, Head(up))
           x == Expected(m)
           n == Name(m)
           counted == [server EXCEPT !.read = Counted(@)]
           a == [server EXCEPT !.phase = "rejected"]
           b == [server EXCEPT !.phase = "aborted"]
           d == [server EXCEPT !.phase = "done", !.transcript = Append(@, m),
                          !.read = FreshState(Expand(server.master, "c ap traffic", server.mid))]
           e == [counted EXCEPT !.transcript = Append(@, m)]
<1>1. server' = CASE ~o -> a
                  [] o /\ n = "Alert" -> b
                  [] o /\ n = "Data" -> IF server.phase = "done" THEN counted ELSE a
                  [] o /\ n \notin {"Alert", "Data"} /\ ~x -> a
                  [] OTHER -> IF n = "Finished" THEN d ELSE e
  BY Zenon DEF ServerReads
<1>2. o
  OBVIOUS
<1> HIDE DEF o, x, n, counted, a, b, d, e
<1>3. /\ n = "Alert" => server' = b
      /\ n = "Data" /\ server.phase = "done" => server' = counted
      /\ n \notin {"Alert", "Data"} /\ x => server' = IF n = "Finished" THEN d ELSE e
  BY <1>1, <1>2
<1>4. b = WithPhase(server, "aborted") /\ counted = WithRead(server, Counted(server.read))
  BY Zenon DEF b, counted, WithPhase, WithRead
<1>5. d = WithRead(WithTranscript(WithPhase(server, "done"), Append(server.transcript, m)),
                   FreshState(Expand(server.master, "c ap traffic", server.mid)))
  BY Zenon DEF d, WithPhase, WithTranscript, WithRead
<1>6. e = WithTranscript(counted, Append(counted.transcript, m))
  BY Zenon DEF e, WithTranscript
<1> QED BY <1>3, <1>4, <1>5, <1>6, Zenon DEF n, x

(* A record opens with the keys it was sealed with. *)
LEMMA OpensKeys ==
  \A x, n, m : Opens(Keys(x, n), Record(x, n, <<m>>)) /\ Record(x, n, <<m>>).messages[1] = m
<1> TAKE x, n, m
<1> DEFINE l == <<m>>
<1>1. l[1] = m
  BY Only
<1> HIDE DEF l
<1>2. Opens(Keys(x, n), Record(x, n, l)) /\ Record(x, n, l).messages = l
  BY DEF Opens, Keys, Record
<1> QED BY <1>1, <1>2, Zenon DEF l

(* What is left to show when the server reads a record. *)
LEMMA ReadsStep ==
  ASSUME IInv, ServerReads, Received' = Received + 1, ServerInv', server'.phase \in {"finish", "done"},
         server'.write = server.write
  PROVE  IInv'
<1>1. /\ server.phase \in {"finish", "done"} /\ up # <<>> /\ up' = Tail(up) /\ config' = config /\ state' = state
      /\ error' = error /\ handshake' = handshake /\ ks' = ks /\ verifier' = verifier /\ data' = data /\ down' = down
  BY SMTT(30) DEF ServerReads
<1>2. config \in Config /\ (config.psk = "accepted" => ~config.request)
  BY Configured
<1>3. data \in [client : Nat, server : Nat] /\ ServerInv /\ UpInv /\ DownInv
  BY DEF IInv
<1>4. ClientAt' = ClientAt /\ Sent' = Sent /\ (ServerInv' /\ UpInv' /\ DownInv' => IInv')
  BY <1>1, <1>3, ServerMoves
<1>5. Sent \in Nat /\ Received \in Nat
  BY <1>1, <1>2, <1>3, Counts, SMTT(30)
<1>6. UpInv'
  BY <1>1, <1>3, <1>4, <1>5, UpConsumed, SMTT(30)
<1>7. ServerAt' = ServerAt
  <2>1. ServerAt = Place(FlightLen, server.write.counter)
    BY <1>1 DEF ServerAt
  <2>2. ServerAt' = Place(FlightLen', server'.write.counter)
    BY DEF ServerAt
  <2>3. FlightLen' = FlightLen
    BY <1>1, Fixed, SMTT(30)
  <2> QED BY <2>1, <2>2, <2>3, Zenon
<1>8. DownInv'
  BY <1>1, <1>3, <1>4, <1>7, DownKept
<1> QED BY <1>4, <1>6, <1>8

(* What the server reads next. *)
LEMMA NextRecord ==
  ASSUME IInv, server.phase \in {"finish", "done"}, up # <<>>
  PROVE  \/ Head(up) = UpRecord(Received + 1)
         \/ state = "Failed" /\ Received + 1 <= ReplyLen /\ Head(up) = UpAlert(Received + 1)
<1>1. UpInv
  BY DEF IInv
<1>2. Head(up) = up[1] /\ 1 \in 1 .. Len(up)
  BY <1>1, Rest DEF UpInv
<1> QED BY <1>1, <1>2 DEF UpInv

(* The server hears that the client gave up. *)
LEMMA HearsAlert ==
  ASSUME IInv, ServerReads, state = "Failed", server' = WithPhase(server, "aborted")
  PROVE  IInv'
<1>1. /\ server.phase \in {"finish", "done"} /\ up # <<>> /\ up' = Tail(up) /\ config' = config /\ state' = state
      /\ error' = error /\ handshake' = handshake /\ ks' = ks /\ verifier' = verifier /\ data' = data /\ down' = down
  BY DEF ServerReads
<1>2. data \in [client : Nat, server : Nat] /\ ServerInv /\ UpInv /\ DownInv
  BY DEF IInv
<1>3. ServerInv' /\ UpInv' /\ DownInv' => IInv'
  BY <1>1, <1>2, ServerMoves
<1>4. server'.phase = "aborted" /\ ServerInv'
  BY <1>2, Aborted
<1>5. UpInv'
  <2>1. IsSequence(up')
    BY <1>1, <1>2, Rest DEF UpInv
  <2> QED BY <1>1, <1>4, <2>1 DEF UpInv
<1>6. DownInv'
  BY <1>1, <1>2 DEF DownInv
<1> QED BY <1>3, <1>4, <1>5, <1>6

(* The server reads the next message of the client's answer. *)
LEMMA ReadsReply ==
  ASSUME IInv, ServerReads, server.phase = "finish", Head(up) = UpRecord(Received + 1)
  PROVE  IInv'
<1>1. config' = config /\ data' = data
  BY DEF ServerReads
<1>2. config \in Config /\ (config.psk = "accepted" => ~config.request)
  BY Configured
<1>3. ServerInv /\ ReplyLen \in Nat /\ ReplyLen >= 1
  BY <1>2, Sizes DEF IInv
<1>4. PICK q \in 0 .. ReplyLen - 1 :
        server.read = Keys(ReadHs, q) /\ server.transcript = Mid \o SubSeq(Reply, 1, q)
  BY <1>3, Zenon DEF ServerInv
<1> DEFINE n == Reply[q + 1]
           m == Mid
           x == Master
           f == server.flight
           t == server.transcript
           u == Mid \o SubSeq(Reply, 1, q + 1)
           a == Keys(ReadHs, q)
           b == Keys(ReadHs, q + 1)
           v == server.write
           c == server.ccs
<1>5. /\ server.mid = Mid /\ server.master = Master /\ server.write = Keys(WriteAp, data.server)
      /\ server = Peer("finish", t, f, m, x, a, v, c)
  <2>1. /\ server.mid = Mid /\ server.master = Master /\ server.write = Keys(WriteAp, data.server)
        /\ server = Peer(server.phase, server.transcript, server.flight, server.mid, server.master, server.read,
                         server.write, server.ccs)
    BY <1>3, SMTT(30) DEF ServerInv
  <2> QED BY <1>4, <2>1, Zenon
<1>6. Received = q /\ q \in Nat /\ q + 1 \in 1 .. ReplyLen
  <2>1. Keys(ReadHs, q).counter = q
    BY DEF Keys
  <2> QED BY <1>3, <1>4, <2>1, SMTT(30) DEF Received
<1>7. Opens(server.read, Head(up)) /\ n = Head(up).messages[1]
  <2>1. UpRecord(q + 1) = Record(ReadHs, q, <<n>>)
    <3>1. q + 1 <= ReplyLen /\ (q + 1) - 1 = q
      BY <1>3, <1>6
    <3> QED BY <3>1, Zenon DEF UpRecord
  <2>2. Head(up) = Record(ReadHs, q, <<n>>)
    BY <1>6, <2>1, Zenon
  <2> HIDE DEF n
  <2>3. Opens(Keys(ReadHs, q), Record(ReadHs, q, <<n>>)) /\ Record(ReadHs, q, <<n>>).messages[1] = n
    BY OpensKeys, Zenon
  <2> QED BY <1>4, <2>2, <2>3, Zenon
<1>8. Expected(n) /\ Name(n) \notin {"Alert", "Data"} /\ (Name(n) = "Finished" <=> q = ReplyLen - 1)
  BY <1>2, <1>4, <1>5, NextExpected, SMTT(30)
<1>9. Append(t, n) = u
  BY <1>2, <1>4, ReplyShape, OneMore, Zenon DEF ReplyLen
<1>10. /\ Counted(a) = b
  BY <1>6, Counting
<1>11. /\ ReplyLen' = ReplyLen /\ Mid' = Mid /\ Master' = Master /\ Reply' = Reply /\ ReadHs' = ReadHs
       /\ ReadAp' = ReadAp /\ WriteAp' = WriteAp
  BY <1>1, Fixed
<1>12. CASE q # ReplyLen - 1
  <2>1. server' = WithTranscript(WithRead(server, Counted(server.read)),
                                 Append(WithRead(server, Counted(server.read)).transcript, n))
    BY <1>7, <1>8, <1>12, ReadOutcome, Zenon
  <2>2. server' = WithTranscript(WithRead(server, b), Append(WithRead(server, b).transcript, n))
    BY <1>4, <1>10, <2>1, Zenon
  <2>3. server' = Peer("finish", u, f, m, x, b, v, c)
    <3> HIDE DEF n, m, x, f, t, u, a, b, v, c
    <3>1. WithRead(Peer("finish", t, f, m, x, a, v, c), b) = Peer("finish", t, f, m, x, b, v, c)
      BY ReadStep
    <3>2. WithRead(server, b) = Peer("finish", t, f, m, x, b, v, c)
      BY <1>5, <3>1, Zenon
    <3>3. Peer("finish", t, f, m, x, b, v, c).transcript = t
      BY DEF Peer
    <3>4. WithTranscript(Peer("finish", t, f, m, x, b, v, c), u) = Peer("finish", u, f, m, x, b, v, c)
      BY TranscriptStep
    <3> QED BY <1>9, <2>2, <3>2, <3>3, <3>4, Zenon
  <2>4. /\ server'.phase = "finish" /\ server'.transcript = u /\ server'.mid = m
        /\ server'.master = x /\ server'.read = b /\ server'.write = v
        /\ server' = Peer(server.phase, server.transcript, server.flight, server.mid, server.master, server.read,
                          server.write, server.ccs)'
    <3> HIDE DEF m, x, f, u, b, v, c
    <3> QED BY <2>3, PeerNext, SMTT(30)
  <2>5. ServerInv'
    <3>1. q + 1 \in 0 .. ReplyLen - 1
      BY <1>3, <1>6, <1>12
    <3>2. (\E i \in 0 .. ReplyLen - 1 :
             server.read = Keys(ReadHs, i) /\ server.transcript = Mid \o SubSeq(Reply, 1, i))'
      <4>1. server'.read = Keys(ReadHs', q + 1) /\ server'.transcript = Mid' \o SubSeq(Reply', 1, q + 1)
            /\ q + 1 \in 0 .. ReplyLen' - 1
        BY <1>11, <2>4, <3>1, Zenon
      <4> QED BY <4>1, Zenon
    <3>3. server'.write = Keys(WriteAp, data.server)'
      BY <1>1, <1>5, <1>11, <2>4, Zenon
    <3> QED BY <1>11, <2>4, <3>2, <3>3, SMTT(30) DEF ServerInv
  <2>6. Received' = Received + 1
    <3>1. b.counter = q + 1
      BY DEF Keys
    <3> HIDE DEF b
    <3> QED BY <1>6, <2>4, <3>1 DEF Received
  <2> QED BY <2>4, <2>5, <2>6, ReadsStep
<1>13. CASE q = ReplyLen - 1
  <2> DEFINE w == Keys(ReadAp, 0)
  <2>1. server' = WithRead(WithTranscript(WithPhase(server, "done"), Append(server.transcript, n)),
                           FreshState(Expand(server.master, "c ap traffic", server.mid)))
    BY <1>7, <1>8, <1>13, ReadOutcome, Zenon
  <2>2. FreshState(Expand(server.master, "c ap traffic", server.mid)) = w
    BY <1>5, Fresh, Zenon DEF ReadAp
  <2>3. server' = WithRead(WithTranscript(WithPhase(server, "done"), u), w)
    BY <1>9, <2>1, <2>2, Zenon
  <2>4. server' = Peer("done", u, f, m, x, w, v, c)
    <3> HIDE DEF n, m, x, f, t, u, a, w, v, c
    <3>1. WithPhase(Peer("finish", t, f, m, x, a, v, c), "done") = Peer("done", t, f, m, x, a, v, c)
      BY PhaseStep
    <3>2. WithTranscript(Peer("done", t, f, m, x, a, v, c), u) = Peer("done", u, f, m, x, a, v, c)
      BY TranscriptStep
    <3>3. WithRead(Peer("done", u, f, m, x, a, v, c), w) = Peer("done", u, f, m, x, w, v, c)
      BY ReadStep
    <3> QED BY <1>5, <2>3, <3>1, <3>2, <3>3, Zenon
  <2>5. /\ server'.phase = "done" /\ server'.mid = m
        /\ server'.master = x /\ server'.read = w /\ server'.write = v
        /\ server' = Peer(server.phase, server.transcript, server.flight, server.mid, server.master, server.read,
                          server.write, server.ccs)'
    <3> HIDE DEF m, x, f, u, w, v, c
    <3> QED BY <2>4, PeerNext, SMTT(30)
  <2>6. ServerInv'
    <3>1. (\E i \in Nat : server.read = Keys(ReadAp, i))'
      <4>1. server'.read = Keys(ReadAp', 0) /\ 0 \in Nat
        BY <1>11, <2>5, SMTT(30)
      <4> QED BY <4>1, Zenon
    <3>2. server'.write = Keys(WriteAp, data.server)'
      BY <1>1, <1>5, <1>11, <2>5, Zenon
    <3> QED BY <1>11, <2>5, <3>1, <3>2, SMTT(30) DEF ServerInv
  <2>7. Received' = Received + 1
    <3>1. w.counter = 0
      BY DEF Keys
    <3> HIDE DEF w
    <3> QED BY <1>3, <1>6, <1>11, <1>13, <2>5, <3>1, SMTT(30) DEF Received
  <2> QED BY <2>5, <2>6, <2>7, ReadsStep
<1> QED BY <1>12, <1>13

(* The server reads a record of application data. *)
LEMMA ReadsClientData ==
  ASSUME IInv, ServerReads, server.phase = "done", Head(up) = UpRecord(Received + 1)
  PROVE  IInv'
<1>1. config' = config /\ data' = data
  BY DEF ServerReads
<1>2. config \in Config /\ (config.psk = "accepted" => ~config.request)
  BY Configured
<1>3. ServerInv /\ ReplyLen \in Nat
  BY <1>2, Sizes DEF IInv
<1>4. PICK n \in Nat : server.read = Keys(ReadAp, n)
  BY <1>3, SMTT(30) DEF ServerInv
<1> DEFINE e == Message("Data", <<n>>)
           p == "done"
           t == server.transcript
           f == server.flight
           m == Mid
           x == Master
           a == Keys(ReadAp, n)
           b == Keys(ReadAp, n + 1)
           v == server.write
           c == server.ccs
<1>5. server.write = Keys(WriteAp, data.server) /\ server = Peer(p, t, f, m, x, a, v, c)
  <2>1. /\ server.mid = Mid /\ server.master = Master /\ server.write = Keys(WriteAp, data.server)
        /\ server = Peer(server.phase, server.transcript, server.flight, server.mid, server.master, server.read,
                         server.write, server.ccs)
    BY <1>3, SMTT(30) DEF ServerInv
  <2> QED BY <1>4, <2>1, Zenon
<1>6. Received = ReplyLen + n
  <2>1. Keys(ReadAp, n).counter = n
    BY DEF Keys
  <2> QED BY <1>4, <2>1, SMTT(30) DEF Received
<1>7. Opens(server.read, Head(up)) /\ e = Head(up).messages[1] /\ Name(e) = "Data"
  <2>1. UpRecord(Received + 1) = Record(ReadAp, n, <<e>>)
    <3> DEFINE i == Received + 1
    <3>1. ~(i <= ReplyLen) /\ i - ReplyLen - 1 = n
      BY <1>3, <1>4, <1>6
    <3> HIDE DEF i
    <3>2. UpRecord(i) = Record(ReadAp, n, <<e>>)
      BY <3>1, Zenon DEF UpRecord
    <3> QED BY <3>2, Zenon DEF i
  <2>2. Head(up) = Record(ReadAp, n, <<e>>)
    BY <2>1, Zenon
  <2>3. Name(e) = "Data"
    <3> DEFINE l == <<n>>
    <3> HIDE DEF l
    <3>1. Name(Message("Data", l)) = "Data"
      BY Parts
    <3> QED BY <3>1, Zenon DEF l
  <2>4. Opens(Keys(ReadAp, n), Record(ReadAp, n, <<e>>)) /\ Record(ReadAp, n, <<e>>).messages[1] = e
    BY OpensKeys, Zenon
  <2> HIDE DEF e
  <2> QED BY <1>4, <2>2, <2>3, <2>4, Zenon
<1>8. server' = WithRead(server, Counted(server.read))
  <2> HIDE DEF e
  <2> QED BY <1>7, ReadOutcome, Zenon
<1>9. Counted(server.read) = b
  BY <1>4, Counting
<1>10. server' = Peer(p, t, f, m, x, b, v, c)
  <2> HIDE DEF p, t, f, m, x, a, b, v, c
  <2>1. WithRead(Peer(p, t, f, m, x, a, v, c), b) = Peer(p, t, f, m, x, b, v, c)
    BY ReadStep
  <2> QED BY <1>5, <1>8, <1>9, <2>1, Zenon
<1>11. /\ server'.phase = p /\ server'.mid = m /\ server'.master = x /\ server'.read = b /\ server'.write = v
       /\ server' = Peer(server.phase, server.transcript, server.flight, server.mid, server.master, server.read,
                         server.write, server.ccs)'
  <2> HIDE DEF p, t, f, m, x, b, v, c
  <2> QED BY <1>10, PeerNext, SMTT(30)
<1>12. /\ ReplyLen' = ReplyLen /\ Mid' = Mid /\ Master' = Master /\ ReadAp' = ReadAp /\ WriteAp' = WriteAp
  BY <1>1, Fixed
<1>13. ServerInv'
  <2>1. (\E i \in Nat : server.read = Keys(ReadAp, i))'
    <3>1. n + 1 \in Nat
      BY <1>4
    <3>2. server'.read = Keys(ReadAp', n + 1)
      BY <1>11, <1>12, Zenon
    <3> QED BY <3>1, <3>2, Zenon
  <2>2. server'.write = Keys(WriteAp, data.server)'
    BY <1>1, <1>5, <1>11, <1>12, Zenon
  <2> QED BY <1>11, <1>12, <2>1, <2>2, SMTT(30) DEF ServerInv
<1>14. Received' = Received + 1
  <2>1. b.counter = n + 1
    BY DEF Keys
  <2> HIDE DEF b
  <2> QED BY <1>3, <1>4, <1>6, <1>11, <1>12, <2>1, SMTT(30) DEF Received
<1> QED BY <1>11, <1>13, <1>14, ReadsStep

(* ServerReads. *)
LEMMA ServerReadsStep ==
  ASSUME IInv, ServerReads PROVE IInv'
<1>1. server.phase \in {"finish", "done"} /\ up # <<>>
  BY DEF ServerReads
<1>2. CASE Head(up) = UpRecord(Received + 1)
  BY <1>1, <1>2, ReadsReply, ReadsClientData
<1>3. CASE state = "Failed" /\ Received + 1 <= ReplyLen /\ Head(up) = UpAlert(Received + 1)
  <2>1. config \in Config /\ (config.psk = "accepted" => ~config.request)
    BY Configured
  <2>2. ServerInv /\ ReplyLen \in Nat
    BY <2>1, Sizes DEF IInv
  <2>3. PICK n \in Nat :
          /\ server.phase = "done" => server.read = Keys(ReadAp, n)
          /\ server.phase = "finish" => server.read = Keys(ReadHs, n)
    <3>1. CASE server.phase = "done"
      <4>1. PICK n \in Nat : server.read = Keys(ReadAp, n)
        BY <2>2, <3>1, SMTT(30) DEF ServerInv
      <4> QED BY <3>1, <4>1
    <3>2. CASE server.phase = "finish"
      <4>1. PICK n \in Nat : server.read = Keys(ReadHs, n)
        BY <2>2, <3>2, SMTT(30) DEF ServerInv
      <4> QED BY <3>2, <4>1
    <3> QED BY <1>1, <3>1, <3>2
  <2>4. server.read = Keys(ReadHs, n) /\ Received = n
    <3>1. \A x : Keys(x, n).counter = n
      BY DEF Keys
    <3>2. CASE server.phase = "done"
      <4>1. Received = ReplyLen + n
        BY <2>3, <3>1, <3>2 DEF Received
      <4> QED BY <1>3, <2>2, <2>3, <4>1
    <3>3. CASE server.phase = "finish"
      BY <2>3, <3>1, <3>3, SMTT(30) DEF Received
    <3> QED BY <1>1, <3>2, <3>3
  <2> DEFINE e == Message("Alert", <<"close_notify">>)
  <2>5. Head(up) = Record(ReadHs, n, <<e>>)
    <3>1. (n + 1) - 1 = n
      BY <2>3
    <3>2. UpAlert(n + 1) = Record(ReadHs, n, <<e>>)
      BY <3>1, Zenon DEF UpAlert
    <3> QED BY <1>3, <2>4, <3>2, Zenon
  <2>6. Opens(server.read, Head(up)) /\ e = Head(up).messages[1]
    <3>1. Opens(Keys(ReadHs, n), Record(ReadHs, n, <<e>>)) /\ Record(ReadHs, n, <<e>>).messages[1] = e
      BY OpensKeys, Zenon
    <3> HIDE DEF e
    <3> QED BY <2>4, <2>5, <3>1, Zenon
  <2>7. Name(e) = "Alert"
    <3> DEFINE l == <<"close_notify">>
    <3> HIDE DEF l
    <3>1. Name(Message("Alert", l)) = "Alert"
      BY Parts
    <3> QED BY <3>1, Zenon DEF l
  <2>8. server' = WithPhase(server, "aborted")
    <3> HIDE DEF e
    <3> QED BY <2>6, <2>7, ReadOutcome, Zenon
  <2> QED BY <1>3, <2>8, HearsAlert
<1> QED BY <1>1, <1>2, <1>3, NextRecord

-----------------------------------------------------------------------------

(* The invariant holds in every state. *)

(* Nothing happens. *)
LEMMA Stutter ==
  ASSUME IInv, UNCHANGED vars PROVE IInv'
<1>1. /\ config' = config /\ state' = state /\ error' = error /\ handshake' = handshake /\ ks' = ks
      /\ verifier' = verifier /\ up' = up /\ down' = down /\ server' = server /\ data' = data
  BY DEF vars
<1>2. /\ data \in [client : Nat, server : Nat] /\ FailuresExplained /\ ClientInv /\ ServerInv /\ UpInv
      /\ IsSequence(down) /\ (state # "Failed" => Behind(ClientAt, down))
  BY Zenon DEF IInv, DownInv
<1>3. FailuresExplained'
  BY <1>1, <1>2 DEF FailuresExplained
<1>4. ClientInv' /\ Sent' = Sent /\ ClientAt' = ClientAt
  BY <1>1, <1>2, ClientSame
<1>5. UpInv'
  <2>1. CASE state = "Failed"
    BY <1>1, <1>2, <2>1, UpStays
  <2>2. CASE state # "Failed" /\ server.phase # "start"
    <3>1. state # "ClientHello"
      BY <1>2, <2>2 DEF UpInv
    <3> QED BY <1>1, <1>2, <1>4, <2>2, <3>1, UpStays
  <2>3. CASE server.phase = "start"
    <3>1. Hello' = Hello
      BY <1>1, Fixed
    <3> QED BY <1>1, <1>2, <2>3, <3>1 DEF UpInv
  <2> QED BY <2>1, <2>2, <2>3
<1>6. state' # "Failed" => \E c, d : c = ClientAt' /\ d = down' /\ Behind(c, d)
  BY <1>1, <1>2, <1>4, Zenon
<1>7. server.phase = "start" => down' = <<>>
  BY <1>1, <1>2 DEF ServerInv
<1> QED BY <1>1, <1>2, <1>3, <1>4, <1>5, <1>6, <1>7, ClientMoves

(* Every step keeps the invariant. *)
LEMMA IndStep ==
  ASSUME IInv, [Next]_vars PROVE IInv'
<1>1. CASE Client
  BY <1>1, ClientHelloStep, ServerHelloStep, ServerVerifyStep, ClientCertStep, ClientCertVerifyStep,
     ClientFinishedStep, SendDataStep, ReadDataStep DEF Client
<1>2. CASE Server
  BY <1>2, ServerAnswersStep, ServerSendsStep, ServerChangesCipherStep, ServerReadsStep,
     ServerSendsDataStep DEF Server
<1>3. CASE Finished \/ UNCHANGED vars
  BY <1>3, Stutter DEF Finished
<1> QED BY <1>1, <1>2, <1>3, TransportFailsStep, ServerAbortsStep DEF Next

(* So it holds always. *)
LEMMA Inductive == Spec => []IInv
BY InitInv, IndStep, PTL DEF Spec

-----------------------------------------------------------------------------
(* The results. *)

(* Whatever the configuration and however the flight is cut into records, the
   server finds every record, binder, signature and Finished of the client as it
   computes them itself. *)
THEOREM NeverRejected == Spec => []ServerNeverRejects
<1>1. IInv => ServerNeverRejects
  BY SMTT(30) DEF IInv, ServerInv, ServerNeverRejects
<1> QED BY <1>1, Inductive, PTL

(* open() fails only for a reason outside the client: no message of the flight is
   refused, misread or unwrapped too early, whatever records it came in. *)
THEOREM HandshakeFailuresExplained == Spec => []FailuresExplained
<1>1. IInv => FailuresExplained
  BY DEF IInv
<1> QED BY <1>1, Inductive, PTL

(* The server does not give up in front of a client that has its Finished. *)
LEMMA OpenPeer ==
  ASSUME IInv, state = "ApplicationData"
  PROVE  server.phase \in {"flight", "finish", "done"}
<1>1. FlightLen \in Nat /\ server.phase # "start" /\ ServerInv /\ IsSequence(down)
  BY WhenOpen
<1>2. PICK n : Behind(Place(FlightLen, n), down)
  BY WhenOpen, Zenon
<1>3. server.phase # "aborted"
  <2> SUFFICES ASSUME server.phase = "aborted" PROVE FALSE
    OBVIOUS
  <2>1. PICK e, r, b : IsSequence(e) /\ Way(Place(FlightLen, n), e, b) /\ Aborts(b, r)
    BY <1>2 DEF Behind
  <2>2. b = Place(FlightLen, n + Len(e))
    BY <1>1, <2>1, WayBehind
  <2>3. ~Aborts(Place(FlightLen, n + Len(e)), r)
    BY <1>1, DataRecord
  <2> QED BY <2>1, <2>2, <2>3, Zenon
<1> QED BY <1>1, <1>3 DEF ServerInv

(* open() returns only with the transcript of the server's own flight behind the
   secrets and, if there is a verifier and the server authenticates with a
   certificate, with its signature verified. *)
THEOREM OpenIsVerified == Spec => []OpenMeansVerified
<1>1. IInv => OpenMeansVerified
  <2> SUFFICES ASSUME IInv, state = "ApplicationData"
               PROVE  /\ ks.transcript_hash = server.mid
                      /\ config.verifier # "none" /\ config.psk # "accepted" => verifier.signature
    BY DEF OpenMeansVerified
  <2>1. /\ config \in Config /\ (config.psk = "accepted" => ~config.request)
        /\ verifier = VerifierAt(FlightLen) /\ ServerInv
    BY WhenOpen
  <2>2. ks.transcript_hash = Mid
    BY WhenOpen, Zenon
  <2>3. server.mid = Mid
    BY <2>1, OpenPeer DEF ServerInv
  <2>4. ASSUME config.verifier # "none", config.psk # "accepted" PROVE verifier.signature
    <3>1. FlightLen = CertAt + 2 /\ CertAt \in 2 .. 3
      BY <2>1, <2>4, FlightShape, Sizes
    <3>2. ~(FlightLen < CertAt) /\ FlightLen # CertAt
      BY <3>1
    <3>3. verifier = Signed
      BY <2>1, <2>4, <3>2, Zenon DEF VerifierAt
    <3> DEFINE t == <<>>
               s == TRUE
    <3>4. verifier = Verifying(t, s)
      BY <3>3, Zenon DEF Signed
    <3> HIDE DEF t, s
    <3>5. Verifying(t, s).signature = s
      BY DEF Verifying
    <3> QED BY <3>4, <3>5, Zenon DEF s
  <2> QED BY <2>2, <2>3, <2>4, Zenon
<1> QED BY <1>1, Inductive, PTL

(* Client and server have come to the same application secrets, different ones for
   the two directions, and to record counters that differ by exactly what is on
   the way, for every number of records of application data. *)
THEOREM KeysAlwaysAgree == Spec => []KeysAgree
<1>1. IInv => KeysAgree
  <2> SUFFICES ASSUME IInv, state = "ApplicationData", server.phase = "done"
               PROVE  /\ ks.client_state.traffic_secret = server.read.traffic_secret
                      /\ ks.server_state.traffic_secret = server.write.traffic_secret
                      /\ ks.client_state.traffic_secret # ks.server_state.traffic_secret
                      /\ ks.client_state.counter = server.read.counter + Len(up)
                      /\ ks.server_state.counter = server.write.counter - Len(down)
    BY DEF KeysAgree
  <2>1. /\ config \in Config /\ FlightLen \in Nat /\ ReplyLen \in Nat /\ IsSequence(down)
        /\ data \in [client : Nat, server : Nat] /\ Sent = ReplyLen + data.client /\ UpInv /\ ServerInv
    BY WhenOpen
  <2>2. PICK n : /\ ks.client_state = Keys(ReadAp, data.client) /\ ks.server_state = Keys(WriteAp, n)
                 /\ Behind(Place(FlightLen, n), down)
    BY WhenOpen, Zenon
  <2>3. PICK k \in Nat : server.read = Keys(ReadAp, k)
    BY <2>1 DEF ServerInv
  <2>4. server.write = Keys(WriteAp, data.server)
    BY <2>1 DEF ServerInv
  <2>5. /\ Keys(ReadAp, data.client).counter = data.client /\ Keys(ReadAp, data.client).traffic_secret = ReadAp
        /\ Keys(WriteAp, n).counter = n /\ Keys(WriteAp, n).traffic_secret = WriteAp
        /\ Keys(ReadAp, k).counter = k /\ Keys(ReadAp, k).traffic_secret = ReadAp
        /\ Keys(WriteAp, data.server).counter = data.server /\ Keys(WriteAp, data.server).traffic_secret = WriteAp
    BY DEF Keys
  <2>6. ReadAp # WriteAp
    BY <2>1, Secrets
  <2>7. data.client = k + Len(up)
    <3>1. IsSequence(up) /\ Len(up) = Sent - Received
      BY <2>1, SMTT(30) DEF UpInv
    <3>2. Received = ReplyLen + k
      BY <2>3, <2>5 DEF Received
    <3>3. Len(up) \in Nat
      BY <3>1, Appended
    <3> QED BY <2>1, <2>3, <3>1, <3>2, <3>3, SMTT(30)
  <2>8. n = data.server - Len(down)
    <3>1. ServerAt = Place(FlightLen, data.server)
      <4>1. ServerAt = Place(FlightLen, server.write.counter)
        BY DEF ServerAt
      <4> QED BY <2>4, <2>5, <4>1, Zenon
    <3>2. Way(Place(FlightLen, n), down, ServerAt)
      BY <2>2, Zenon DEF Behind
    <3>3. n \in Nat /\ Len(down) \in Nat /\ ServerAt = Place(FlightLen, n + Len(down))
      BY <2>1, <3>2, WayBehind
    <3>4. data.server = n + Len(down)
      BY <3>1, <3>3 DEF Place
    <3> QED BY <2>1, <3>3, <3>4
  <2>9. ks.client_state.counter = data.client /\ server.read.counter = k /\ ks.server_state.counter = n
        /\ server.write.counter = data.server
    BY <2>2, <2>3, <2>4, <2>5, Zenon
  <2>10. /\ ks.client_state.traffic_secret = ReadAp /\ server.read.traffic_secret = ReadAp
         /\ ks.server_state.traffic_secret = WriteAp /\ server.write.traffic_secret = WriteAp
    BY <2>2, <2>3, <2>4, <2>5, Zenon
  <2> QED BY <2>6, <2>7, <2>8, <2>9, <2>10, Zenon
<1> QED BY <1>1, Inductive, PTL
=============================================================================
