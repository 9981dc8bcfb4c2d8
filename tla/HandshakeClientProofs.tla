----------------------- MODULE HandshakeClientProofs -----------------------
(***************************************************************************)
(* Init satisfies the inductive invariant of Handshake, and every step of  *)
(* the client keeps it.                                                    *)
(***************************************************************************)
EXTENDS HandshakeInvariant

(* The key schedule. *)

(* The fields of a key schedule. *)
LEMMA SecretFields ==
  ASSUME NEW a, NEW h, NEW b, NEW c, NEW s, NEW t
  PROVE  /\ Secret(a, h, b, c, s, t).secret = a /\ Secret(a, h, b, c, s, t).hkdf = h
         /\ Secret(a, h, b, c, s, t).binder_key = b /\ Secret(a, h, b, c, s, t).client_state = c
         /\ Secret(a, h, b, c, s, t).server_state = s /\ Secret(a, h, b, c, s, t).transcript_hash = t
BY DEF Secret

(* The fields of a key schedule behind a derivation. *)
LEMMA ScheduleFields ==
  ASSUME NEW h, NEW c, NEW s, NEW t
  PROVE  /\ Schedule(h, c, s, t).client_state = c /\ Schedule(h, c, s, t).server_state = s
         /\ Schedule(h, c, s, t).transcript_hash = t
<1> DEFINE a == Expand(h, "derived", <<>>)
           b == Binder
<1> HIDE DEF a, b
<1>1. Schedule(h, c, s, t) = Secret(a, h, b, c, s, t)
  BY Zenon DEF Schedule, a, b
<1> QED BY <1>1, SecretFields

(* A message is hashed. *)
LEMMA Updated ==
  ASSUME NEW h, NEW c, NEW s, NEW t, NEW m
  PROVE  update(Schedule(h, c, s, t), m) = Schedule(h, c, s, Append(t, m))
<1> DEFINE a == Expand(h, "derived", <<>>)
           b == Binder
           u == Append(t, m)
           k == Secret(a, h, b, c, s, t)
<1>1. Schedule(h, c, s, t) = k
  BY Zenon DEF Schedule
<1> HIDE DEF a, b, u
<1>2. k.transcript_hash = t
  BY SecretFields
<1>3. [k EXCEPT !.transcript_hash = u] = Secret(a, h, b, c, s, u)
  BY DEF Secret
<1> HIDE DEF k
<1>4. update(k, m) = Secret(a, h, b, c, s, u)
  BY <1>2, <1>3, Zenon DEF update, u
<1> QED BY <1>1, <1>2, <1>4, Zenon DEF Schedule, a, b, u

(* A record sent, a record read, and the transcript put back. *)
SentOne(k) == [k EXCEPT !.client_state = Counted(@)]
ReadOne(k) == [k EXCEPT !.server_state = Counted(@)]
Rewound(k, t) == [k EXCEPT !.transcript_hash = t]

(* A record sent is counted. *)
LEMMA SentCounted ==
  ASSUME NEW h, NEW c, NEW s, NEW t
  PROVE  SentOne(Schedule(h, c, s, t)) = Schedule(h, Counted(c), s, t)
<1> DEFINE a == Expand(h, "derived", <<>>)
           b == Binder
           d == Counted(c)
           k == Secret(a, h, b, c, s, t)
<1>1. Schedule(h, c, s, t) = k
  BY Zenon DEF Schedule
<1> HIDE DEF a, b, d
<1>2. k.client_state = c
  BY SecretFields
<1>3. [k EXCEPT !.client_state = d] = Secret(a, h, b, d, s, t)
  BY DEF Secret
<1> HIDE DEF k
<1>4. SentOne(k) = Secret(a, h, b, d, s, t)
  BY <1>2, <1>3, Zenon DEF d, SentOne
<1> QED BY <1>1, <1>4, Zenon DEF Schedule, a, b, d

(* A record read is counted. *)
LEMMA ReadCounted ==
  ASSUME NEW h, NEW c, NEW s, NEW t
  PROVE  ReadOne(Schedule(h, c, s, t)) = Schedule(h, c, Counted(s), t)
<1> DEFINE a == Expand(h, "derived", <<>>)
           b == Binder
           d == Counted(s)
           k == Secret(a, h, b, c, s, t)
<1>1. Schedule(h, c, s, t) = k
  BY Zenon DEF Schedule
<1> HIDE DEF a, b, d
<1>2. k.server_state = s
  BY SecretFields
<1>3. [k EXCEPT !.server_state = d] = Secret(a, h, b, c, d, t)
  BY DEF Secret
<1> HIDE DEF k
<1>4. ReadOne(k) = Secret(a, h, b, c, d, t)
  BY <1>2, <1>3, Zenon DEF d, ReadOne
<1> QED BY <1>1, <1>4, Zenon DEF Schedule, a, b, d

(* The transcript is put back. *)
LEMMA Restored ==
  ASSUME NEW h, NEW c, NEW s, NEW t, NEW m
  PROVE  Rewound(Schedule(h, c, s, t), m) = Schedule(h, c, s, m)
<1> DEFINE a == Expand(h, "derived", <<>>)
           b == Binder
           k == Secret(a, h, b, c, s, t)
<1>1. Schedule(h, c, s, t) = k
  BY Zenon DEF Schedule
<1> HIDE DEF a, b
<1>2. [k EXCEPT !.transcript_hash = m] = Secret(a, h, b, c, s, m)
  BY DEF Secret
<1> QED BY <1>1, <1>2, Zenon DEF Schedule, a, b, Rewound

(* A secret is extracted. *)
LEMMA Initialized ==
  ASSUME NEW a, NEW h, NEW b, NEW c, NEW s, NEW t, NEW i
  PROVE  initialize(Secret(a, h, b, c, s, t), i) = Secret(Extract(a, i), Extract(a, i), b, c, s, t)
<1> DEFINE k == Secret(a, h, b, c, s, t)
           x == Extract(a, i)
<1>1. k.secret = a
  BY SecretFields
<1> HIDE DEF x
<1>2. [k EXCEPT !.secret = x] = Secret(x, h, b, c, s, t)
  BY DEF Secret
<1>3. [Secret(x, h, b, c, s, t) EXCEPT !.hkdf = x] = Secret(x, x, b, c, s, t)
  BY DEF Secret
<1>4. [k EXCEPT !.secret = x, !.hkdf = x] = Secret(x, x, b, c, s, t)
  BY <1>2, <1>3, Zenon
<1> HIDE DEF k
<1>5. initialize(k, i) = Secret(x, x, b, c, s, t)
  BY <1>1, <1>4, Zenon DEF initialize, x
<1> QED BY <1>5, Zenon DEF k, x

(* The next one is derived. *)
LEMMA Derived ==
  ASSUME NEW a, NEW h, NEW b, NEW c, NEW s, NEW t
  PROVE  derived(Secret(a, h, b, c, s, t)) = Secret(Expand(h, "derived", <<>>), h, b, c, s, t)
<1> DEFINE k == Secret(a, h, b, c, s, t)
           x == Expand(h, "derived", <<>>)
<1>1. k.hkdf = h
  BY SecretFields
<1> HIDE DEF x
<1>2. [k EXCEPT !.secret = x] = Secret(x, h, b, c, s, t)
  BY DEF Secret
<1> HIDE DEF k
<1>3. derived(k) = Secret(x, h, b, c, s, t)
  BY <1>1, <1>2, Zenon DEF derived, x
<1> QED BY <1>3, Zenon DEF k, x

(* The traffic secrets are expanded, with counters at 0. *)
LEMMA TrafficSecrets ==
  ASSUME NEW a, NEW h, NEW b, NEW c, NEW s, NEW t, NEW l, NEW m
  PROVE  calculate_traffic_secrets(Secret(a, h, b, c, s, t), l, m) =
           Secret(a, h, b, Keys(Expand(h, l, t), 0), Keys(Expand(h, m, t), 0), t)
<1> DEFINE k == Secret(a, h, b, c, s, t)
           x == Keys(Expand(h, l, t), 0)
           y == Keys(Expand(h, m, t), 0)
<1>1. k.hkdf = h /\ k.transcript_hash = t
  BY SecretFields
<1>2. FreshState(Expand(h, l, t)) = x /\ FreshState(Expand(h, m, t)) = y
  BY Fresh, Zenon
<1> HIDE DEF x, y
<1>3. [k EXCEPT !.client_state = x] = Secret(a, h, b, x, s, t)
  BY DEF Secret
<1>4. [Secret(a, h, b, x, s, t) EXCEPT !.server_state = y] = Secret(a, h, b, x, y, t)
  BY DEF Secret
<1>5. [k EXCEPT !.client_state = x, !.server_state = y] = Secret(a, h, b, x, y, t)
  BY <1>3, <1>4, Zenon
<1> HIDE DEF k
<1>6. calculate_traffic_secrets(k, l, m) = Secret(a, h, b, x, y, t)
  BY <1>1, <1>2, <1>5, Zenon DEF calculate_traffic_secrets
<1> QED BY <1>6, Zenon DEF k, x, y

(* One stage of the schedule behind another. *)
LEMMA NextStage ==
  ASSUME NEW h, NEW c, NEW s, NEW t, NEW i, NEW l, NEW m, NEW x, x = Extract(Expand(h, "derived", <<>>), i)
  PROVE  derived(calculate_traffic_secrets(initialize(Schedule(h, c, s, t), i), l, m)) =
           Schedule(x, Keys(Expand(x, l, t), 0), Keys(Expand(x, m, t), 0), t)
<1> DEFINE a == Expand(h, "derived", <<>>)
           u == Keys(Expand(x, l, t), 0)
           v == Keys(Expand(x, m, t), 0)
<1>1. Schedule(h, c, s, t) = Secret(a, h, Binder, c, s, t)
  BY Zenon DEF Schedule
<1>2. x = Extract(a, i)
  OBVIOUS
<1> HIDE DEF a
<1>3. initialize(Secret(a, h, Binder, c, s, t), i) = Secret(Extract(a, i), Extract(a, i), Binder, c, s, t)
  BY Initialized
<1>4. initialize(Schedule(h, c, s, t), i) = Secret(x, x, Binder, c, s, t)
  BY <1>1, <1>2, <1>3, Zenon
<1>5. calculate_traffic_secrets(Secret(x, x, Binder, c, s, t), l, m) = Secret(x, x, Binder, u, v, t)
  BY TrafficSecrets
<1> HIDE DEF u, v
<1>6. derived(Secret(x, x, Binder, u, v, t)) = Secret(Expand(x, "derived", <<>>), x, Binder, u, v, t)
  BY Derived
<1>7. derived(calculate_traffic_secrets(initialize(Schedule(h, c, s, t), i), l, m)) = Schedule(x, u, v, t)
  BY <1>4, <1>5, <1>6, Zenon DEF Schedule
<1> QED BY <1>7, Zenon DEF u, v

(* The early secret, with the binder key of the offered PSK. *)
LEMMA EarlyStage ==
  initialize_early_secret(NewSchedule, ClientPsk) =
    Schedule(Extract(Zero, ClientPsk), Keys(NoSecret, 0), Keys(NoSecret, 0), <<>>)
<1> DEFINE x == Extract(Zero, ClientPsk)
           n == Keys(NoSecret, 0)
           e == initialize(NewSchedule, ClientPsk)
<1>1. NewSchedule = Secret(Zero, NoSecret, NoSecret, n, n, <<>>)
  BY Zenon DEF NewSchedule, Secret, Keys, FreshState
<1>2. Binder = Expand(x, "ext binder", <<>>)
  BY Zenon DEF Binder
<1> HIDE DEF n
<1>3. initialize(Secret(Zero, NoSecret, NoSecret, n, n, <<>>), ClientPsk) = Secret(x, x, NoSecret, n, n, <<>>)
  BY Initialized
<1>4. e = Secret(x, x, NoSecret, n, n, <<>>)
  BY <1>1, <1>3, Zenon
<1> HIDE DEF x
<1>5. Secret(x, x, NoSecret, n, n, <<>>).hkdf = x
  BY SecretFields
<1>6. [Secret(x, x, NoSecret, n, n, <<>>) EXCEPT !.binder_key = Binder] = Secret(x, x, Binder, n, n, <<>>)
  <2> DEFINE b == Binder
  <2> HIDE DEF b
  <2>1. [Secret(x, x, NoSecret, n, n, <<>>) EXCEPT !.binder_key = b] = Secret(x, x, b, n, n, <<>>)
    BY DEF Secret
  <2> QED BY <2>1, Zenon DEF b
<1>7. derived(Secret(x, x, Binder, n, n, <<>>)) = Secret(Expand(x, "derived", <<>>), x, Binder, n, n, <<>>)
  BY Derived
<1> HIDE DEF e
<1>8. [e EXCEPT !.binder_key = Expand(e.hkdf, "ext binder", <<>>)] = Secret(x, x, Binder, n, n, <<>>)
  BY <1>2, <1>4, <1>5, <1>6, Zenon
<1>9. initialize_early_secret(NewSchedule, ClientPsk) = derived([e EXCEPT !.binder_key = Expand(e.hkdf, "ext binder", <<>>)])
  BY Zenon DEF initialize_early_secret, e
<1> QED BY <1>7, <1>8, <1>9, Zenon DEF Schedule, x, n

-----------------------------------------------------------------------------
(* The records between client and server, when the client moves. *)

(* The client sends its next record. *)
LEMMA UpGrows ==
  ASSUME config \in Config, config.psk = "accepted" => ~config.request, ServerInv, UpInv,
         data \in [client : Nat, server : Nat],
         config' = config, server' = server, state \notin {"ClientHello", "ServerHello", "Failed"},
         NEW r, up' = Append(up, r), state' # "ClientHello",
         \/ r = UpRecord(Sent + 1) /\ (state' = "Failed" \/ Sent' = Sent + 1)
         \/ r = UpAlert(Sent + 1) /\ Sent + 1 <= ReplyLen /\ state' = "Failed"
  PROVE  UpInv'
<1>1. Received' = Received /\ ReplyLen' = ReplyLen
  BY Fixed DEF Received
<1>2. /\ \A i : UpRecord(i)' = UpRecord(i)
      /\ \A i : UpAlert(i)' = UpAlert(i)
  BY FixedWays
<1>3. /\ IsSequence(up') /\ Len(up) \in Nat /\ Len(up') = Len(up) + 1
      /\ \A i \in 1 .. Len(up) : up'[i] = up[i]
      /\ up'[Len(up) + 1] = r
  BY Appended DEF UpInv
<1>4. server.phase # "start"
  BY DEF UpInv
<1>5. ASSUME server.phase \in {"flight", "finish", "done"}
      PROVE  /\ state' # "Failed" => Len(up') = Sent' - Received
             /\ \A i \in 1 .. Len(up') :
                  \/ up'[i] = UpRecord(Received + i)
                  \/ state' = "Failed" /\ Received + i <= ReplyLen /\ up'[i] = UpAlert(Received + i)
  <2>1. Sent \in Nat /\ Received \in Nat /\ Len(up) = Sent - Received
    BY <1>5, Counts DEF UpInv
  <2>2. Received + (Len(up) + 1) = Sent + 1
    BY <1>3, <2>1
  <2>3. state' # "Failed" => Len(up') = Sent' - Received
    BY <1>3, <2>1
  <2>4. ASSUME NEW i \in 1 .. Len(up') 
        PROVE  \/ up'[i] = UpRecord(Received + i)
               \/ state' = "Failed" /\ Received + i <= ReplyLen /\ up'[i] = UpAlert(Received + i)
    <3>1. CASE i = Len(up) + 1
      <4>1. up'[i] = r /\ Received + i = Sent + 1
        BY <1>3, <2>2, <3>1
      <4>2. UpRecord(Received + i) = UpRecord(Sent + 1) /\ UpAlert(Received + i) = UpAlert(Sent + 1)
        BY <4>1, Zenon
      <4>3. CASE r = UpRecord(Sent + 1)
        BY <4>1, <4>2, <4>3, Zenon
      <4>4. CASE r = UpAlert(Sent + 1) /\ Sent + 1 <= ReplyLen /\ state' = "Failed"
        BY <4>1, <4>2, <4>4, Zenon
      <4> QED BY <4>3, <4>4, Zenon
    <3>2. CASE i \in 1 .. Len(up)
      <4>1. up'[i] = up[i]
        BY <1>3, <3>2
      <4>2. up[i] = UpRecord(Received + i)
        BY <1>5, <3>2 DEF UpInv
      <4> QED BY <4>1, <4>2, Zenon
    <3> QED BY <1>3, <3>1, <3>2
  <2> QED BY <2>3, <2>4
<1>6. ASSUME server.phase \in {"flight", "finish", "done"}
      PROVE  /\ state' # "Failed" => Len(up') = Sent' - Received'
             /\ \A i \in 1 .. Len(up') :
                  \/ up'[i] = UpRecord(Received + i)'
                  \/ state' = "Failed" /\ Received' + i <= ReplyLen' /\ up'[i] = UpAlert(Received + i)'
  BY <1>1, <1>2, <1>5, <1>6, Zenon
<1> QED BY <1>3, <1>4, <1>6 DEF UpInv

(* It gives up without another word. *)
LEMMA UpStays ==
  ASSUME UpInv, config' = config, server' = server, up' = up,
         \/ state' = "Failed"
         \/ /\ state \notin {"ClientHello", "Failed"} /\ state' # "ClientHello" /\ Sent' = Sent
            /\ server.phase # "start"
  PROVE  UpInv'
<1>1. Received' = Received /\ ReplyLen' = ReplyLen /\ Hello' = Hello
  BY Fixed DEF Received
<1>2. /\ \A i : UpRecord(i)' = UpRecord(i)
      /\ \A i : UpAlert(i)' = UpAlert(i)
  BY FixedWays
<1>3. IsSequence(up') /\ (server'.phase # "start" => state' # "ClientHello")
  BY DEF UpInv
<1>4. (server.phase = "start" =>
        /\ state \in {"ClientHello", "ServerHello", "Failed"}
        /\ up \in {<<>>, <<Plain(Hello)>>}
        /\ state = "ClientHello" => up = <<>>
        /\ state = "ServerHello" => up = <<Plain(Hello)>>)'
  BY <1>1 DEF UpInv
<1>5. ASSUME server.phase \in {"flight", "finish", "done"}
      PROVE  /\ state' # "Failed" => Len(up') = Sent' - Received'
             /\ \A i \in 1 .. Len(up') :
                  \/ up'[i] = UpRecord(Received + i)'
                  \/ state' = "Failed" /\ Received' + i <= ReplyLen' /\ up'[i] = UpAlert(Received + i)'
  BY <1>1, <1>2, <1>5, Zenon DEF UpInv
<1> QED BY <1>3, <1>4, <1>5 DEF UpInv

(* The records on the way are still behind their place when the server does nothing. *)
LEMMA FixedBehind ==
  ASSUME config' = config, server' = server, ServerAt' = ServerAt
  PROVE  \A a, d : Behind(a, d)' <=> Behind(a, d)
<1>1. /\ \A a, d, b : Way(a, d, b)' <=> Way(a, d, b)
      /\ \A a, r : Aborts(a, r)' <=> Aborts(a, r)
  BY FixedWays
<1> QED BY <1>1, Zenon DEF Behind

(* The client takes the next record. *)
LEMMA Consumed ==
  ASSUME IsSequence(down), down # <<>>, NEW a, Behind(a, down)
  PROVE  /\ IsSequence(Tail(down))
         /\ \/ \E c \in Places : a \in Places /\ Leads(a, Head(down), c) /\ Behind(c, Tail(down))
            \/ server.phase = "aborted" /\ Aborts(a, Head(down))
<1>1. IsSequence(Tail(down))
  BY Rest
<1>2. CASE server.phase # "aborted"
  <2>1. Way(a, down, ServerAt)
    BY <1>2 DEF Behind
  <2>2. PICK c \in Places : a \in Places /\ Leads(a, Head(down), c) /\ Way(c, Tail(down), ServerAt)
    BY <2>1, WayFrom
  <2>3. Behind(c, Tail(down))
    BY <1>2, <2>2, Zenon DEF Behind
  <2> QED BY <1>1, <2>2, <2>3
<1>3. CASE server.phase = "aborted"
  <2>1. PICK e, r, b : IsSequence(e) /\ down = Append(e, r) /\ Way(a, e, b) /\ Aborts(b, r)
    BY <1>3 DEF Behind
  <2>2. /\ Head(down) = IF e = <<>> THEN r ELSE Head(e)
        /\ Tail(down) = IF e = <<>> THEN <<>> ELSE Append(Tail(e), r)
    BY <2>1, Appended
  <2>3. CASE e = <<>>
    <3>1. a = b
      BY <2>1, <2>3, NoWay
    <3> QED BY <1>1, <1>3, <2>1, <2>2, <2>3, <3>1
  <2>4. CASE e # <<>>
    <3>1. PICK c \in Places : a \in Places /\ Leads(a, Head(e), c) /\ Way(c, Tail(e), b)
      BY <2>1, <2>4, WayFrom
    <3>2. IsSequence(Tail(e))
      BY <2>1, <2>4, Rest
    <3>3. Behind(c, Tail(down))
      BY <1>3, <2>1, <2>2, <2>4, <3>1, <3>2, Zenon DEF Behind
    <3> QED BY <1>1, <2>2, <2>4, <3>1, <3>3
  <2> QED BY <2>3, <2>4
<1> QED BY <1>2, <1>3

-----------------------------------------------------------------------------
(* The invariant holds at the start, and every step of the client keeps it. *)

(* Init. *)
LEMMA InitInv ==
  Init => IInv
<1> SUFFICES ASSUME Init PROVE IInv
  OBVIOUS
<1>1. config \in Configs /\ config \in Config /\ (config.psk = "accepted" => ~config.request)
  BY HandshakeAssumption DEF Init
<1>2. FlightLen \in Nat /\ CertAt \in 2 .. 3
  BY <1>1, Sizes
<1>3. data \in [client : Nat, server : Nat] /\ data.client = 0 /\ data.server = 0
  BY DEF Init
<1>4. FailuresExplained
  BY DEF Init, FailuresExplained, ServerStart
<1>5. handshake = NotAsked(<<>>)
  BY Zenon DEF Init, NotAsked, Kept
<1>6. verifier = VerifierAt(0)
  <2>1. 0 < CertAt
    BY <1>2
  <2> QED BY <2>1, Zenon DEF Init, VerifierAt, Awaiting, Verifying
<1>7. ClientInv
  <2>1. state = "ClientHello" /\ ks = NewSchedule
    BY DEF Init
  <2> QED BY <1>3, <1>5, <1>6, <2>1 DEF ClientInv
<1>8. server = ServerStart /\ server.phase = "start" /\ down = <<>> /\ up = <<>> /\ state = "ClientHello"
  BY DEF Init, ServerStart
<1>9. ServerInv
  <2>1. server = Peer(server.phase, server.transcript, server.flight, server.mid, server.master, server.read,
                      server.write, server.ccs)
    BY <1>8 DEF ServerStart, Peer
  <2> QED BY <1>3, <1>8, <2>1 DEF ServerInv
<1>10. IsSequence(<<>>)
  <2>1. <<>> \in Seq({})
    OBVIOUS
  <2> QED BY <2>1, Zenon DEF IsSequence
<1>11. UpInv
  BY <1>8, <1>10 DEF UpInv
<1>12. DownInv
  <2>1. ClientAt = Place(-1, 0) /\ ServerAt = Place(-1, 0)
    BY <1>8 DEF ClientAt, ServerAt
  <2>2. Place(-1, 0) \in Places
    BY <1>2 DEF Place, Places
  <2>3. Way(Place(-1, 0), <<>>, Place(-1, 0))
    BY <2>2, EmptyWay
  <2>4. Behind(ClientAt, down)
    BY <1>8, <2>1, <2>3 DEF Behind
  <2> QED BY <1>8, <1>10, <2>4 DEF DownInv
<1> QED BY <1>1, <1>3, <1>4, <1>7, <1>9, <1>11, <1>12 DEF IInv

(* ClientHello. *)
LEMMA ClientHelloStep ==
  ASSUME IInv, ClientHello PROVE IInv'
<1>1. config \in Config /\ (config.psk = "accepted" => ~config.request)
  BY Configured
<1>2. /\ state = "ClientHello" /\ state' = "ServerHello" /\ config' = config /\ error' = error
      /\ handshake' = handshake /\ verifier' = verifier /\ down' = down /\ server' = server /\ data' = data
  BY DEF ClientHello
<1>3. config \in Configs /\ data \in [client : Nat, server : Nat]
  BY DEF IInv
<1>4. /\ server.phase = "start" /\ up = <<>> /\ server = ServerStart /\ down = <<>>
      /\ ks = NewSchedule /\ handshake = NotAsked(<<>>) /\ verifier = VerifierAt(0) /\ data.client = 0
  BY <1>2, SMTT(30) DEF IInv, UpInv, ServerInv, ClientInv
<1>5. /\ ks' = Schedule(Extract(Zero, ClientPsk), Keys(NoSecret, 1), Keys(NoSecret, 0), <<Hello>>)
      /\ up' = <<Plain(Hello)>>
  <2> DEFINE early == initialize_early_secret(ks, IF config.psk = "none" THEN Zero ELSE Psk)
             partial == <<Message("ClientHello", <<>>)>>
             hello == Message("ClientHello", IF config.psk = "none" THEN <<>> ELSE create_psk_binder(early, partial))
             x == Extract(Zero, ClientPsk)
             n == Keys(NoSecret, 0)
             z == <<>>
             k == Schedule(x, n, n, z)
             o == Keys(NoSecret, 1)
             u == Append(z, Hello)
  <2>1. up' = Append(up, Plain(hello)) /\ ks' = SentOne(update(early, hello))
    BY Zenon DEF ClientHello, Respond, SentOne
  <2>2. early = k
    BY <1>4, EarlyStage, Zenon DEF ClientPsk
  <2>3. k.binder_key = Binder
    BY DEF Schedule, Secret
  <2>4. hello = Hello
    BY <2>2, <2>3, Zenon DEF Hello, create_psk_binder
  <2>5. Counted(n) = o
    BY Counting
  <2>6. \A y : Append(<<>>, y) = <<y>>
    OBVIOUS
  <2> HIDE DEF x, n, o, early, hello, z
  <2>7. update(k, Hello) = Schedule(x, n, n, u)
    BY Updated
  <2> HIDE DEF u, k
  <2>8. SentOne(Schedule(x, n, n, u)) = Schedule(x, Counted(n), n, u)
    BY SentCounted
  <2>9. ks' = Schedule(x, o, n, u) /\ u = <<Hello>>
    BY <2>1, <2>2, <2>4, <2>5, <2>6, <2>7, <2>8, Zenon DEF u, z
  <2>10. up' = <<Plain(Hello)>>
    BY <1>4, <2>1, <2>4, <2>6, Zenon
  <2> QED BY <2>9, <2>10, Zenon DEF x, n, o
<1>6. FailuresExplained'
  BY <1>2 DEF IInv, FailuresExplained
<1>7. ClientInv'
  <2>1. Hello' = Hello /\ ClientPsk' = ClientPsk
    BY <1>2, Fixed
  <2>2. /\ \A j : VerifierAt(j)' = VerifierAt(j)
        /\ \A h, c, s, t : Schedule(h, c, s, t)' = Schedule(h, c, s, t)
    BY <1>2, FixedStages
  <2>3. FreshState(NoSecret) = Keys(NoSecret, 0)
    BY Fresh
  <2>4. /\ ks' = Schedule(Extract(Zero, ClientPsk), Keys(NoSecret, 1), FreshState(NoSecret), <<Hello>>)'
        /\ handshake' = NotAsked(<<>>) /\ verifier' = VerifierAt(0)'
    BY <1>2, <1>4, <1>5, <2>1, <2>2, <2>3, Zenon
  <2> QED BY <1>2, <1>4, <2>4 DEF ClientInv
<1>8. ServerInv' /\ ServerAt' = ServerAt
  BY <1>2, <1>4, ServerSame DEF IInv
<1>9. UpInv'
  <2>1. Plain(Hello)' = Plain(Hello)
    BY <1>2, Fixed, Zenon DEF Plain
  <2>2. IsSequence(up')
    <3>1. <<Plain(Hello)>> \in Seq({Plain(Hello)})
      OBVIOUS
    <3> QED BY <1>5, <3>1, Zenon DEF IsSequence
  <2> QED BY <1>2, <1>4, <1>5, <2>1, <2>2 DEF UpInv
<1>10. DownInv'
  <2>1. ClientAt = ClientAt'
    BY <1>2 DEF ClientAt
  <2>2. \A a, d : Behind(a, d)' <=> Behind(a, d)
    BY <1>2, <1>8, FixedBehind
  <2>3. IsSequence(down) /\ Behind(ClientAt, down)
    BY <1>2, Zenon DEF IInv, DownInv
  <2>4. Behind(ClientAt, down)'
    BY <1>2, <2>1, <2>2, <2>3, Zenon
  <2> QED BY <1>2, <2>3, <2>4 DEF DownInv
<1> QED BY <1>2, <1>3, <1>6, <1>7, <1>8, <1>9, <1>10, Zenon DEF IInv

(* What is left to show when the client moves and when it fails. *)
LEMMA ClientMoves ==
  ASSUME IInv, config' = config, server' = server, data' \in [client : Nat, server : Nat],
         data'.server = data.server, FailuresExplained', ClientInv', UpInv',
         IsSequence(down'), server.phase = "start" => down' = <<>>,
         state' # "Failed" => \E c, d : c = ClientAt' /\ d = down' /\ Behind(c, d)
  PROVE  IInv'
<1>1. config \in Configs /\ ServerInv
  BY DEF IInv
<1>2. ServerInv' /\ ServerAt' = ServerAt
  BY <1>1, ServerSame
<1>3. \A a, d : Behind(a, d)' <=> Behind(a, d)
  BY <1>2, FixedBehind
<1>4. ASSUME state' # "Failed" PROVE Behind(ClientAt, down)'
  <2>1. PICK c, d : c = ClientAt' /\ d = down' /\ Behind(c, d)
    BY <1>4
  <2>2. Behind(c, d)'
    BY <1>3, <2>1, Zenon
  <2> QED BY <2>1, <2>2, Zenon
<1>5. DownInv'
  BY <1>4, Zenon DEF DownInv
<1> QED BY <1>1, <1>2, <1>5, Zenon DEF IInv

(* What is left to show when it fails. *)
LEMMA ClientFails ==
  ASSUME IInv, config' = config, server' = server, data' = data, state' = "Failed", FailuresExplained', UpInv',
         IsSequence(down'), server.phase = "start" => down' = <<>>
  PROVE  IInv'
<1>1. data' \in [client : Nat, server : Nat] /\ data'.server = data.server
  BY DEF IInv
<1>2. ClientInv'
  BY DEF ClientInv
<1> QED BY <1>1, <1>2, ClientMoves

(* The client with j messages of the flight processed. *)
LEMMA OnFlight ==
  ASSUME config \in Config, config.psk = "accepted" => ~config.request, NEW j \in 0 .. FlightLen, NEW n
  PROVE  /\ Len(ScheduleAt(j, n).transcript_hash) - 2 = j
         /\ ScheduleAt(j, n).server_state = Keys(Expand(ClientHs, "s hs traffic", Opening), n)
         /\ ScheduleAt(j, n).server_state.counter = n
<1> DEFINE x == Keys(Expand(ClientHs, "c hs traffic", Opening), 0)
           y == Keys(Expand(ClientHs, "s hs traffic", Opening), n)
           t == Transcript(j)
           h == ClientHs
<1>1. ServerFlight \in Seq(Said) /\ Opening \in Seq(Said) /\ Len(Opening) = 2
  BY FlightShape
<1>2. Len(t) = j + 2
  <2> DEFINE s == SubSeq(ServerFlight, 1, j)
  <2>1. s \in Seq(Said) /\ Len(s) = j
    BY <1>1 DEF FlightLen
  <2>2. t = Opening \o s
    BY Zenon DEF Transcript
  <2> HIDE DEF s, t
  <2>3. Len(Opening \o s) = Len(Opening) + Len(s)
    BY <1>1, <2>1, Joined, Zenon
  <2> QED BY <1>1, <2>1, <2>2, <2>3
<1>3. y.counter = n
  BY DEF Keys
<1>4. FlightLen \in Nat
  BY Sizes
<1> HIDE DEF x, y, t, h
<1>5. Schedule(h, x, y, t).transcript_hash = t /\ Schedule(h, x, y, t).server_state = y
  BY ScheduleFields
<1>6. ScheduleAt(j, n) = Schedule(h, x, y, t)
  BY Zenon DEF ScheduleAt, h, x, y, t
<1>7. ScheduleAt(j, n).transcript_hash = t /\ ScheduleAt(j, n).server_state = y
  BY <1>5, <1>6, Zenon
<1>8. Len(ScheduleAt(j, n).transcript_hash) - 2 = j
  BY <1>2, <1>4, <1>7
<1> QED BY <1>3, <1>7, <1>8, Zenon DEF y

(* The client between the ServerHello and the end of the flight. *)
LEMMA Verifies ==
  ASSUME config \in Config, config.psk = "accepted" => ~config.request, config' = config,
         NEW j \in 0 .. FlightLen - 1, NEW n \in Nat, Possible(j),
         state' = "ServerVerify", ks' = ScheduleAt(j, n), handshake' = KeptAt(j), verifier' = VerifierAt(j),
         data'.client = 0
  PROVE  ClientInv' /\ ClientAt' = Place(j, n)
<1>1. FlightLen \in Nat /\ FlightLen' = FlightLen
  BY Sizes, Fixed
<1>2. Processed(j, n) = Stage("ServerVerify", "none", ScheduleAt(j, n), KeptAt(j), VerifierAt(j))
  <2>1. StateAt(j) = "ServerVerify"
    BY StageSteps
  <2> QED BY <2>1, Zenon DEF Processed
<1>3. Progress' = Processed(j, n)
  BY <1>2, Zenon DEF Progress, Stage
<1>4. Processed(j, n)' = Processed(j, n) /\ Possible(j)'
  BY FixedStages
<1>5. (\E i \in 0 .. FlightLen - 1, k \in Nat : Progress = Processed(i, k) /\ Possible(i))'
  BY <1>1, <1>3, <1>4
<1>6. ClientInv'
  BY <1>5 DEF ClientInv
<1>7. Len(ScheduleAt(j, n).transcript_hash) - 2 = j /\ ScheduleAt(j, n).server_state.counter = n
  <2>1. j \in 0 .. FlightLen
    BY <1>1
  <2> QED BY <2>1, OnFlight
<1>8. ClientAt' = Place(Len(ks'.transcript_hash) - 2, ks'.server_state.counter)
  BY Zenon DEF ClientAt
<1>9. ClientAt' = Place(j, n)
  BY <1>7, <1>8, Zenon
<1> QED BY <1>6, <1>9

(* The places that records lead from and to. *)
LEMMA FirstRecord ==
  ASSUME config \in Config, config.psk = "accepted" => ~config.request, NEW r
  PROVE  /\ \A c : Leads(Place(-1, 0), r, c) => r = Plain(Answer) /\ c = Place(0, 0)
         /\ Aborts(Place(-1, 0), r) => r = Plain(Message("Alert", <<>>))
<1>1. Place(-1, 0).pos = -1 /\ FlightLen \in Nat /\ FlightLen >= 2
  BY Sizes DEF Place
<1>2. Place(-1, 0).pos \notin 0 .. FlightLen - 1 /\ Place(-1, 0).pos # FlightLen
  BY <1>1
<1> QED BY <1>2, Zenon DEF Leads, Aborts

(* The schedule behind the ServerHello. *)
LEMMA HandshakeStage ==
  ASSUME config \in Config, config.psk = "accepted" => ~config.request,
         ks = Schedule(Extract(Zero, ClientPsk), Keys(NoSecret, 1), FreshState(NoSecret), <<Hello>>)
  PROVE  initialize_handshake_secret(update(ks, Answer), Shared) = ScheduleAt(0, 0)
<1> DEFINE e == Extract(Zero, ClientPsk)
           o == Keys(NoSecret, 1)
           n == FreshState(NoSecret)
           t == <<Hello>>
           h == Hello
           a == Answer
           y == Opening
           x == ClientHs
           i == Shared
           l == "c hs traffic"
           m == "s hs traffic"
           u == Append(t, a)
<1>1. u = y
  <2>1. ASSUME NEW v, NEW w PROVE Append(<<v>>, w) = <<v, w>>
    <3> DEFINE p == <<v>>
               q == <<v, w>>
               M == {v, w}
    <3>1. p \in Seq(M) /\ Len(p) = 1 /\ p[1] = v /\ q \in Seq(M) /\ Len(q) = 2 /\ q[1] = v /\ q[2] = w /\ w \in M
      OBVIOUS
    <3> HIDE DEF p, q, M
    <3> DEFINE r == Append(p, w)
    <3>2. IsSequence(p)
      BY <3>1 DEF IsSequence
    <3>3. /\ IsSequence(r) /\ Len(r) = Len(p) + 1 /\ r[Len(p) + 1] = w
          /\ \A j \in 1 .. Len(p) : r[j] = p[j]
      BY <3>2, Appended
    <3>4. r = q
      <4> HIDE DEF r
      <4>1. PICK T : r \in Seq(T)
        BY <3>3 DEF IsSequence
      <4>2. \A j \in 1 .. 2 : r[j] = q[j]
        BY <3>1, <3>3
      <4> QED BY <3>1, <3>3, <4>1, <4>2
    <3> QED BY <3>4 DEF p, q, r
  <2> QED BY <2>1, Zenon DEF Opening
<1>2. x = Extract(Expand(e, "derived", <<>>), i)
  BY Zenon DEF ClientHs, HandshakeSecret
<1>3. Transcript(0) = y
  BY Sizes
<1> HIDE DEF e, o, n, t, a, y, x, i, l, m
<1>4. update(Schedule(e, o, n, t), a) = Schedule(e, o, n, u)
  BY Updated
<1> HIDE DEF u
<1>5. derived(calculate_traffic_secrets(initialize(Schedule(e, o, n, y), i), l, m)) =
        Schedule(x, Keys(Expand(x, l, y), 0), Keys(Expand(x, m, y), 0), y)
  BY <1>2, NextStage
<1>6. initialize_handshake_secret(Schedule(e, o, n, y), i) =
        Schedule(x, Keys(Expand(x, l, y), 0), Keys(Expand(x, m, y), 0), y)
  BY <1>5, Zenon DEF initialize_handshake_secret, l, m
<1>7. ScheduleAt(0, 0) =
        Schedule(x, Keys(Expand(x, l, y), 0), Keys(Expand(x, m, y), 0), y)
  BY <1>3, Zenon DEF ScheduleAt, x, y, l, m
<1>8. ks = Schedule(e, o, n, t)
  BY Zenon DEF e, o, n, t
<1> QED BY <1>1, <1>4, <1>6, <1>7, <1>8, Zenon DEF a, i

(* ServerHello. *)
LEMMA ServerHelloStep ==
  ASSUME IInv, ServerHello PROVE IInv'
<1>1. config \in Config /\ (config.psk = "accepted" => ~config.request)
  BY Configured
<1>2. /\ state = "ServerHello" /\ down # <<>> /\ config' = config /\ handshake' = handshake
      /\ verifier' = verifier /\ up' = up /\ server' = server /\ data' = data /\ down' = Tail(down)
  BY SMTT(30) DEF ServerHello
<1>3. /\ server.phase # "start" /\ error = "none" /\ IsSequence(down) /\ Behind(ClientAt, down)
      /\ data \in [client : Nat, server : Nat] /\ data.client = 0 /\ UpInv /\ FailuresExplained
      /\ ks = Schedule(Extract(Zero, ClientPsk), Keys(NoSecret, 1), FreshState(NoSecret), <<Hello>>)
      /\ handshake = NotAsked(<<>>) /\ verifier = VerifierAt(0)
  BY <1>2, SMTT(30) DEF IInv, ServerInv, DownInv, FailuresExplained, ClientInv
<1>4. ClientAt = Place(-1, 0)
  BY <1>2 DEF ClientAt
<1>5. /\ IsSequence(Tail(down))
      /\ \/ \E c \in Places : Leads(Place(-1, 0), Head(down), c) /\ Behind(c, Tail(down))
         \/ server.phase = "aborted" /\ Aborts(Place(-1, 0), Head(down))
  BY <1>2, <1>3, <1>4, Consumed, Zenon
<1>6. CASE server.phase = "aborted" /\ Aborts(Place(-1, 0), Head(down))
  <2>1. Head(down) = Plain(Message("Alert", <<>>))
    BY <1>1, <1>6, FirstRecord
  <2>2. Name(Head(down).messages[1]) = "Alert"
    <3> DEFINE m == Message("Alert", <<>>)
    <3>1. Name(m) = "Alert"
      BY Named, Zenon
    <3> HIDE DEF m
    <3> QED BY <2>1, <3>1, PlainMessage, Zenon DEF m
  <2>3. state' = "Failed" /\ error' = "HandshakeAborted"
    BY <2>2 DEF ServerHello, Fail
  <2>4. FailuresExplained'
    BY <1>2, <1>6, <2>3 DEF FailuresExplained
  <2>5. UpInv'
    BY <1>2, <1>3, <2>3, UpStays
  <2> QED BY <1>2, <1>3, <1>5, <2>3, <2>4, <2>5, ClientFails
<1>7. CASE \E c \in Places : Leads(Place(-1, 0), Head(down), c) /\ Behind(c, Tail(down))
  <2>1. Head(down) = Plain(Answer) /\ Behind(Place(0, 0), Tail(down))
    BY <1>1, <1>7, FirstRecord, Zenon
  <2>2. Head(down).messages[1] = Answer /\ Name(Answer) = "ServerHello"
    BY <2>1, PlainMessage, Named, Zenon DEF Answer
  <2>3. state' = "ServerVerify" /\ error' = error
    BY <2>2 DEF ServerHello
  <2>4. ks' = ScheduleAt(0, 0)
    <3>1. ks' = initialize_handshake_secret(update(ks, Answer), Shared)
      BY <2>2, Zenon DEF ServerHello
    <3> QED BY <1>1, <1>3, <3>1, HandshakeStage, Zenon
  <2>5. FailuresExplained'
    BY <1>2, <1>3, <2>3 DEF FailuresExplained
  <2>6. Sent' = Sent
    BY <1>2, <2>3 DEF Sent
  <2>7. UpInv'
    BY <1>2, <1>3, <2>3, <2>6, UpStays
  <2>8. KeptAt(0) = NotAsked(<<>>) /\ Possible(0) /\ 0 \in 0 .. FlightLen - 1
    <3>1. FlightLen \in Nat /\ FlightLen >= 2 /\ CertAt \in 2 .. 3
      BY <1>1, Sizes
    <3> QED BY <3>1, KeptSteps DEF Possible
  <2>9. ClientInv' /\ ClientAt' = Place(0, 0)
    BY <1>1, <1>2, <1>3, <2>3, <2>4, <2>8, Verifies
  <2>10. \E c, d : c = ClientAt' /\ d = down' /\ Behind(c, d)
    BY <1>2, <2>1, <2>9, Zenon
  <2> QED BY <1>2, <1>3, <1>5, <2>5, <2>7, <2>9, <2>10, ClientMoves, Zenon
<1> QED BY <1>5, <1>6, <1>7

(* What a client that has processed j messages may meet. *)
LEMMA FlightRecord ==
  ASSUME config \in Config, config.psk = "accepted" => ~config.request,
         NEW j \in 0 .. FlightLen - 1, NEW n \in Nat, NEW r, NEW c \in Places, Leads(Place(j, n), r, c)
  PROVE  \/ r = Plain(Message("ChangeCipherSpec", <<>>)) /\ c = Place(j, n)
         \/ \E b \in j + 1 .. FlightLen :
              /\ r = Record(WriteHs, n, SubSeq(ServerFlight, j + 1, b))
              /\ c = Place(b, IF b < FlightLen THEN n + 1 ELSE 0)
<1>1. Place(j, n).pos = j /\ Place(j, n).counter = n /\ FlightLen \in Nat
  BY Sizes DEF Place
<1>2. Place(j, n) # Place(-1, 0) /\ Place(j, n).pos # FlightLen
  BY <1>1 DEF Place
<1>3. \/ r = Plain(Message("ChangeCipherSpec", <<>>)) /\ c = Place(j, n)
      \/ /\ c.pos \in j + 1 .. FlightLen
         /\ r = Record(WriteHs, n, SubSeq(ServerFlight, j + 1, c.pos))
         /\ c.counter = IF c.pos < FlightLen THEN n + 1 ELSE 0
  BY <1>1, <1>2, Zenon DEF Leads
<1>4. c = Place(c.pos, c.counter)
  BY DEF Places, Place
<1> QED BY <1>3, <1>4, Zenon

(* An alert in place of a record of the flight. *)
LEMMA FlightAlert ==
  ASSUME NEW j \in Nat, NEW n, NEW r, Aborts(Place(j, n), r)
  PROVE  r = Record(WriteHs, n, <<Message("Alert", <<>>)>>)
<1>1. Place(j, n).pos = j /\ Place(j, n).counter = n /\ Place(j, n) # Place(-1, 0)
  BY DEF Place
<1> QED BY <1>1, Zenon DEF Aborts

(* No message of the flight is taken for a ChangeCipherSpec. *)
LEMMA FlightNames ==
  ASSUME config \in Config, config.psk = "accepted" => ~config.request, NEW i \in 1 .. FlightLen
  PROVE  ServerFlight[i] # Message("ChangeCipherSpec", <<>>)
<1>1. /\ FlightLen = (IF config.psk = "accepted" THEN 2 ELSE CertAt + 2) /\ CertAt = IF config.request THEN 3 ELSE 2
      /\ FlightLen \in Nat
  BY FlightShape, Sizes DEF CertAt
<1>2. \/ i = 1 \/ (i = 2 /\ config.request) \/ (i = CertAt /\ config.psk # "accepted")
      \/ (i = CertAt + 1 /\ config.psk # "accepted") \/ i = FlightLen
  BY <1>1
<1>3. /\ Name(ServerFlight[1]) = "EncryptedExtensions"
      /\ config.request => Name(ServerFlight[2]) = "CertificateRequest"
      /\ config.psk # "accepted" => Name(ServerFlight[CertAt]) = "Certificate"
      /\ config.psk # "accepted" => Name(ServerFlight[CertAt + 1]) = "CertificateVerify"
      /\ Name(ServerFlight[FlightLen]) = "Finished"
  <2>1. Name(ServerFlight[1]) = "EncryptedExtensions"
    BY FlightShape, Named, Zenon
  <2>2. config.request => Name(ServerFlight[2]) = "CertificateRequest"
    <3>1. config.request => ServerFlight[2] = Message("CertificateRequest", <<>>)
      BY FlightShape, Zenon
    <3> QED BY <3>1, Named, Zenon
  <2>3. config.psk # "accepted" => Name(ServerFlight[CertAt]) = "Certificate"
    <3> DEFINE m == Message("Certificate", <<TRUE>>)
    <3>1. config.psk # "accepted" => ServerFlight[CertAt] = m
      BY FlightShape, Zenon
    <3>2. Name(m) = "Certificate"
      BY Named, Zenon
    <3> HIDE DEF m
    <3> QED BY <3>1, <3>2, Zenon
  <2>4. config.psk # "accepted" => Name(ServerFlight[CertAt + 1]) = "CertificateVerify"
    BY FlightShape, Named, Zenon
  <2>5. Name(ServerFlight[FlightLen]) = "Finished"
    BY FlightShape, Named, Zenon
  <2> QED BY <2>1, <2>2, <2>3, <2>4, <2>5
<1>4. Name(ServerFlight[i]) # "ChangeCipherSpec"
  BY <1>2, <1>3
<1> QED BY <1>4, Named, Zenon

(* The client opens what the server wrote unless its PSK was declined. *)
LEMMA Readable ==
  ASSUME config \in Config, config.psk = "accepted" => ~config.request, NEW j \in 0 .. FlightLen, NEW n \in Nat, NEW m
  PROVE  Opens(ScheduleAt(j, n).server_state, Record(WriteHs, n, m)) <=> config.psk # "declined"
<1> DEFINE x == Expand(ClientHs, "s hs traffic", Opening)
<1>1. ScheduleAt(j, n).server_state = Keys(x, n)
  BY OnFlight
<1>2. config.psk # "declined" => x = WriteHs
  BY Secrets, Zenon DEF WriteHs
<1>3. config.psk = "declined" => x # WriteHs
  BY Secrets, Zenon
<1> HIDE DEF x
<1>4. Keys(x, n).traffic_secret = x /\ Keys(x, n).counter = n
  BY DEF Keys
<1>5. Record(WriteHs, n, m).secret = WriteHs /\ Record(WriteHs, n, m).counter = n
  BY DEF Record
<1> QED BY <1>1, <1>2, <1>3, <1>4, <1>5, Zenon DEF Opens

(* The client behind the flight, with the first q messages of its answer sent. *)
LEMMA StillAnswers ==
  ASSUME config.psk # "declined", config' = config, NEW q, NEW n, Sent' = q,
         ks' = Schedule(ServerHs, Keys(ReadHs, q), Keys(WriteHs, n), Mid \o SubSeq(Reply, 1, q)),
         handshake' = IF state' = "ClientCert" THEN Asked ELSE IF config.request THEN Answered ELSE NotAsked(Mid),
         verifier' = VerifierAt(FlightLen)
  PROVE  Answering'
<1>1. PICK a, c, s, t, f :
        a = ServerHs /\ c = Keys(ReadHs, q) /\ s = Keys(WriteHs, n) /\ t = Mid \o SubSeq(Reply, 1, q) /\ f = FlightLen
  BY Zenon
<1>2. /\ FlightLen' = f /\ Mid' = Mid /\ Reply' = Reply /\ ReadHs' = ReadHs /\ WriteHs' = WriteHs /\ ServerHs' = a
  BY <1>1, Fixed
<1>3. /\ VerifierAt(f)' = VerifierAt(f) /\ Schedule(a, c, s, t)' = Schedule(a, c, s, t) /\ Answered' = Answered
  BY FixedStages
<1>4. ks' = Schedule(a, c, s, t)
  BY <1>1, Zenon
<1>5. ks'.server_state.counter = n
  <2>1. Schedule(a, c, s, t).server_state = s
    BY ScheduleFields
  <2>2. s.counter = n
    BY <1>1 DEF Keys
  <2> QED BY <1>4, <2>1, <2>2, Zenon
<1>6. Keys(ReadHs, Sent)' = c /\ Keys(WriteHs, ks.server_state.counter)' = s /\ (Mid \o SubSeq(Reply, 1, Sent))' = t
  BY <1>1, <1>2, <1>5, Zenon
<1>7. ks' = Schedule(ServerHs, Keys(ReadHs, Sent), Keys(WriteHs, ks.server_state.counter),
                     Mid \o SubSeq(Reply, 1, Sent))'
  BY <1>2, <1>3, <1>4, <1>6, Zenon
<1>8. (handshake = IF state = "ClientCert" THEN Asked ELSE IF config.request THEN Answered ELSE NotAsked(Mid))'
  BY <1>2, <1>3, Zenon DEF Asked, NotAsked
<1>9. verifier' = VerifierAt(FlightLen)'
  BY <1>1, <1>2, <1>3, Zenon
<1> QED BY <1>7, <1>8, <1>9, Zenon DEF Answering

(* The flight is complete. *)
LEMMA Answers ==
  ASSUME config \in Config, config.psk = "accepted" => ~config.request, config.psk # "declined", config' = config,
         NEW n \in Nat, state' = StateAt(FlightLen), ks' = ScheduleAt(FlightLen, n),
         handshake' = KeptAt(FlightLen), verifier' = VerifierAt(FlightLen), data'.client = 0
  PROVE  ClientInv' /\ ClientAt' = Place(FlightLen, 0) /\ Sent' = 0 /\ state' \in {"ClientCert", "ClientFinished"}
<1>1. /\ FlightLen \in Nat /\ FlightLen >= 2 /\ Transcript(FlightLen) = Mid /\ Mid \o SubSeq(Reply, 1, 0) = Mid
  BY Sizes
<1>2. state' = IF config.request THEN "ClientCert" ELSE "ClientFinished"
  BY <1>1 DEF StateAt
<1>3. /\ FlightLen' = FlightLen /\ ReplyLen' = ReplyLen /\ Mid' = Mid /\ Reply' = Reply
      /\ ReadHs' = ReadHs /\ WriteHs' = WriteHs /\ ServerHs' = ServerHs
  BY Fixed
<1>4. Sent' = 0
  <2>1. ReplyLen = IF config.request THEN IF config.cert THEN 3 ELSE 2 ELSE 1
    BY ReplyShape
  <2> QED BY <1>2, <1>3, <2>1 DEF Sent
<1>5. handshake' = IF config.request THEN Asked ELSE NotAsked(Mid)
  BY <1>1, KeptSteps
<1>6. ks' = Schedule(ServerHs, Keys(ReadHs, 0), Keys(WriteHs, n), Mid)
  BY <1>1, Secrets, Zenon DEF ScheduleAt, ReadHs, WriteHs
<1>7. handshake' = IF state' = "ClientCert" THEN Asked ELSE IF config.request THEN Answered ELSE NotAsked(Mid)
  BY <1>2, <1>5
<1>8. Answering'
  BY <1>1, <1>4, <1>6, <1>7, StillAnswers, Zenon
<1>9. ClientInv'
  BY <1>2, <1>8 DEF ClientInv
<1>10. ClientAt' = Place(FlightLen, 0)
  BY <1>2, <1>3 DEF ClientAt
<1> QED BY <1>2, <1>4, <1>9, <1>10

(* The three things a record may do to a client that awaits the flight. *)
LEMMA VerifyOutcome ==
  ASSUME ServerVerify, NEW r, r = Head(down)
  PROVE  /\ r.messages[1] = Message("ChangeCipherSpec", <<>>) =>
              state' = state /\ error' = error /\ ks' = ks /\ handshake' = handshake /\ verifier' = verifier
         /\ r.messages[1] # Message("ChangeCipherSpec", <<>>) /\ ~Opens(ks.server_state, r) =>
              state' = "Failed" /\ error' = "CryptoError"
         /\ r.messages[1] # Message("ChangeCipherSpec", <<>>) /\ Opens(ks.server_state, r) =>
              /\ state' = HandleMessages(r.messages).state /\ error' = HandleMessages(r.messages).error
              /\ error' = "none" => ks' = ReadOne(HandleMessages(r.messages).ks)
              /\ handshake' = HandleMessages(r.messages).handshake
              /\ verifier' = HandleMessages(r.messages).verifier
<1>1. r.messages[1] = Message("ChangeCipherSpec", <<>>) =>
        state' = state /\ error' = error /\ ks' = ks /\ handshake' = handshake /\ verifier' = verifier
  BY Zenon DEF ServerVerify
<1>2. r.messages[1] # Message("ChangeCipherSpec", <<>>) /\ ~Opens(ks.server_state, r) =>
        state' = "Failed" /\ error' = "CryptoError"
  BY Zenon DEF ServerVerify, Fail
<1>3. r.messages[1] # Message("ChangeCipherSpec", <<>>) /\ Opens(ks.server_state, r) =>
        /\ state' = HandleMessages(r.messages).state /\ error' = HandleMessages(r.messages).error
        /\ error' = "none" => ks' = ReadOne(HandleMessages(r.messages).ks)
        /\ handshake' = HandleMessages(r.messages).handshake
        /\ verifier' = HandleMessages(r.messages).verifier
  BY Zenon DEF ServerVerify, ReadOne
<1> QED BY <1>1, <1>2, <1>3, Zenon

(* Counting the record behind the messages it held. *)
LEMMA RecordCounted ==
  ASSUME NEW j, NEW n \in Nat PROVE ReadOne(ScheduleAt(j, n)) = ScheduleAt(j, n + 1)
<1> DEFINE l == Expand(ClientHs, "s hs traffic", Opening)
           x == Keys(Expand(ClientHs, "c hs traffic", Opening), 0)
           y == Keys(l, n)
           z == Keys(l, n + 1)
           t == Transcript(j)
           h == ClientHs
<1>1. Counted(y) = z
  <2> HIDE DEF l
  <2> QED BY Counting
<1> HIDE DEF x, y, z, t, h
<1>2. ReadOne(Schedule(h, x, y, t)) = Schedule(h, x, Counted(y), t)
  BY ReadCounted
<1> QED BY <1>1, <1>2, Zenon DEF ScheduleAt, h, x, y, z, t

(* A stage's fields are what the client ends up with. *)
LEMMA ProcessedFields ==
  ASSUME NEW j, NEW n
  PROVE  /\ Processed(j, n).state = StateAt(j) /\ Processed(j, n).error = "none"
         /\ Processed(j, n).ks = ScheduleAt(j, n) /\ Processed(j, n).handshake = KeptAt(j)
         /\ Processed(j, n).verifier = VerifierAt(j)
BY DEF Processed, Stage

(* The fields of Progress. *)
LEMMA ProgressFields ==
  Progress.ks = ks /\ Progress.handshake = handshake /\ Progress.verifier = verifier
BY DEF Progress

(* The state in front of a record of the flight. *)
LEMMA AwaitsFlight ==
  ASSUME IInv, state = "ServerVerify"
  PROVE  /\ config \in Config /\ (config.psk = "accepted" => ~config.request)
         /\ \E j \in 0 .. FlightLen - 1, n \in Nat :
              /\ Progress = Processed(j, n) /\ Possible(j) /\ ks = ScheduleAt(j, n)
              /\ handshake = KeptAt(j) /\ verifier = VerifierAt(j) /\ ClientAt = Place(j, n)
         /\ server.phase # "start" /\ error = "none" /\ IsSequence(down) /\ Behind(ClientAt, down)
         /\ data \in [client : Nat, server : Nat] /\ data.client = 0 /\ Sent = 0
         /\ UpInv /\ FailuresExplained /\ ClientInv
<1>1. config \in Config /\ (config.psk = "accepted" => ~config.request)
  BY Configured
<1>2. /\ UpInv /\ FailuresExplained /\ ClientInv /\ IsSequence(down) /\ Behind(ClientAt, down)
      /\ data \in [client : Nat, server : Nat]
  BY Zenon DEF IInv, DownInv
<1>3. server.phase # "start" /\ error = "none" /\ data.client = 0
  BY <1>2 DEF UpInv, FailuresExplained, ClientInv
<1>4. Sent = 0
  BY DEF Sent
<1>5. PICK j \in 0 .. FlightLen - 1, n \in Nat : Progress = Processed(j, n) /\ Possible(j)
  BY <1>2 DEF ClientInv
<1>6. ks = ScheduleAt(j, n) /\ handshake = KeptAt(j) /\ verifier = VerifierAt(j)
  BY <1>5, ProgressFields, ProcessedFields, Zenon
<1>7. ClientAt = Place(j, n)
  <2>1. j \in 0 .. FlightLen
    BY <1>1, Sizes
  <2>2. Len(ks.transcript_hash) - 2 = j /\ ks.server_state.counter = n
    BY <1>1, <1>6, <2>1, OnFlight, Zenon
  <2>3. ClientAt = Place(Len(ks.transcript_hash) - 2, ks.server_state.counter)
    BY Zenon DEF ClientAt
  <2> QED BY <2>2, <2>3, Zenon
<1> QED BY <1>1, <1>2, <1>3, <1>4, <1>5, <1>6, <1>7, Zenon

(* ServerVerify. *)
LEMMA ServerVerifyStep ==
  ASSUME IInv, ServerVerify PROVE IInv'
<1>1. /\ state = "ServerVerify" /\ down # <<>> /\ config' = config /\ up' = up /\ server' = server /\ data' = data
      /\ down' = Tail(down)
  BY DEF ServerVerify
<1>2. /\ config \in Config /\ (config.psk = "accepted" => ~config.request)
      /\ server.phase # "start" /\ error = "none" /\ IsSequence(down) /\ Behind(ClientAt, down)
      /\ data \in [client : Nat, server : Nat] /\ data.client = 0 /\ Sent = 0
      /\ UpInv /\ FailuresExplained /\ ClientInv
  BY <1>1, AwaitsFlight
<1>3. PICK j \in 0 .. FlightLen - 1, n \in Nat :
        /\ Progress = Processed(j, n) /\ Possible(j) /\ ks = ScheduleAt(j, n)
        /\ handshake = KeptAt(j) /\ verifier = VerifierAt(j) /\ ClientAt = Place(j, n)
  BY <1>1, AwaitsFlight
<1>4. PICK r : r = Head(down)
  OBVIOUS
<1>5. /\ IsSequence(Tail(down))
      /\ \/ \E c \in Places : Leads(Place(j, n), r, c) /\ Behind(c, Tail(down))
         \/ server.phase = "aborted" /\ Aborts(Place(j, n), r)
  BY <1>1, <1>2, <1>3, <1>4, Consumed, Zenon
<1>6. FlightLen \in Nat /\ j \in 0 .. FlightLen
  BY <1>2, Sizes
  (* It fails. *)
<1>7. ASSUME state' = "Failed", FailuresExplained' PROVE IInv'
  <2>1. UpInv'
    BY <1>1, <1>2, <1>7, UpStays
  <2> QED BY <1>1, <1>2, <1>5, <1>7, <2>1, ClientFails
  (* It goes on at place c. *)
<1>8. ASSUME state' \in {"ServerVerify", "ClientCert", "ClientFinished"}, error' = "none", Sent' = 0, ClientInv',
             NEW c, c = ClientAt', Behind(c, Tail(down))
      PROVE  IInv'
  <2>1. UpInv'
    BY <1>1, <1>2, <1>8, UpStays
  <2>2. FailuresExplained'
    BY <1>1, <1>2, <1>8 DEF FailuresExplained
  <2>3. \E a, d : a = ClientAt' /\ d = down' /\ Behind(a, d)
    BY <1>1, <1>8, Zenon
  <2> QED BY <1>1, <1>2, <1>5, <1>8, <2>1, <2>2, <2>3, ClientMoves, Zenon
  (* A PSK that was declined. *)
<1>9. ASSUME NEW m, r = Record(WriteHs, n, m), m[1] # Message("ChangeCipherSpec", <<>>), config.psk = "declined"
      PROVE  IInv'
  <2>1. ~Opens(ks.server_state, r)
    BY <1>2, <1>3, <1>6, <1>9, Readable, Zenon
  <2>2. r.messages = m
    BY <1>9 DEF Record
  <2>3. state' = "Failed" /\ error' = "CryptoError"
    BY <1>4, <1>9, <2>1, <2>2, VerifyOutcome, Zenon
  <2>4. FailuresExplained'
    BY <1>1, <1>9, <2>3 DEF FailuresExplained
  <2> QED BY <1>7, <2>3, <2>4
<1>10. ASSUME NEW m, r = Record(WriteHs, n, m), m[1] # Message("ChangeCipherSpec", <<>>), config.psk # "declined"
       PROVE  /\ state' = HandleMessages(m).state /\ error' = HandleMessages(m).error
              /\ error' = "none" => ks' = ReadOne(HandleMessages(m).ks)
              /\ handshake' = HandleMessages(m).handshake /\ verifier' = HandleMessages(m).verifier
  <2>1. Opens(ks.server_state, r)
    BY <1>2, <1>3, <1>6, <1>10, Readable, Zenon
  <2>2. r.messages = m
    BY <1>10 DEF Record
  <2> QED BY <1>4, <1>10, <2>1, <2>2, VerifyOutcome, Zenon
<1>11. CASE server.phase = "aborted" /\ Aborts(Place(j, n), r)
  <2> DEFINE m == Message("Alert", <<>>)
             ms == <<m>>
  <2>1. r = Record(WriteHs, n, ms)
    BY <1>11, FlightAlert
  <2>2. Name(m) = "Alert" /\ ms[1] = m
    BY Named
  <2>3. ms[1] # Message("ChangeCipherSpec", <<>>)
    BY DEF Message
  <2>4. ASSUME config.psk # "declined" PROVE IInv'
    <3>1. StateAt(j) = "ServerVerify"
      BY <1>6 DEF StateAt
    <3>2. HandleMessages(ms).state = "Failed" /\ HandleMessages(ms).error = "InvalidRecord"
      <4> HIDE DEF m
      <4> QED BY <1>3, <2>2, <3>1, AlertStep
    <3>3. state' = "Failed" /\ error' = "InvalidRecord"
      <4> HIDE DEF ms
      <4> QED BY <1>10, <2>1, <2>3, <2>4, <3>2
    <3>4. FailuresExplained'
      BY <1>1, <1>11, <3>3 DEF FailuresExplained
    <3> QED BY <1>7, <3>3, <3>4
  <2> HIDE DEF ms
  <2> QED BY <1>9, <2>1, <2>3, <2>4
<1>12. ASSUME r = Plain(Message("ChangeCipherSpec", <<>>)), Behind(Place(j, n), Tail(down)) PROVE IInv'
  <2>1. r.messages[1] = Message("ChangeCipherSpec", <<>>)
    BY <1>12, PlainMessage, Zenon
  <2>2. state' = state /\ error' = error /\ ks' = ks /\ handshake' = handshake /\ verifier' = verifier
    BY <1>4, <2>1, VerifyOutcome, Zenon
  <2>3. ClientInv' /\ Sent' = Sent /\ ClientAt' = ClientAt
    BY <1>1, <1>2, <2>2, ClientSame
  <2> QED BY <1>1, <1>2, <1>3, <1>8, <1>12, <2>2, <2>3
<1>13. ASSUME NEW b \in j + 1 .. FlightLen, r = Record(WriteHs, n, SubSeq(ServerFlight, j + 1, b)),
              Behind(Place(b, IF b < FlightLen THEN n + 1 ELSE 0), Tail(down))
       PROVE  IInv'
  <2> DEFINE ms == SubSeq(ServerFlight, j + 1, b)
             q == HandleMessages(ms)
  <2>1. ms[1] # Message("ChangeCipherSpec", <<>>)
    <3>1. ServerFlight \in Seq(Said)
      BY <1>2, FlightShape
    <3>2. j + 1 \in 1 .. FlightLen /\ b <= FlightLen
      BY <1>6, <1>13
    <3>3. ms[1] = ServerFlight[j + 1]
      BY <1>6, <1>13, <3>1, <3>2 DEF FlightLen
    <3> HIDE DEF ms
    <3> QED BY <1>2, <3>2, <3>3, FlightNames
  <2>2. CASE config.psk = "declined"
    <3> HIDE DEF ms
    <3> QED BY <1>9, <1>13, <2>1, <2>2, Zenon DEF ms
  <2>3. CASE config.psk # "declined"
    <3>1. Refused(q) \/ (q = Processed(b, n) /\ Possible(b))
      BY <1>2, <1>3, <1>6, <1>13, <2>3, PieceStep
    <3>2. /\ state' = q.state /\ error' = q.error /\ (error' = "none" => ks' = ReadOne(q.ks))
          /\ handshake' = q.handshake /\ verifier' = q.verifier
      <4> HIDE DEF ms
      <4> QED BY <1>10, <1>13, <2>1, <2>3, Zenon DEF ms
    <3> HIDE DEF q
    <3>3. CASE Refused(q)
      <4>1. state' = "Failed" /\ error' = "InvalidCertificate" /\ config.verifier = "rejects"
        BY <3>2, <3>3 DEF Refused
      <4>2. FailuresExplained'
        BY <1>1, <4>1 DEF FailuresExplained
      <4> QED BY <1>7, <4>1, <4>2
    <3>4. CASE q = Processed(b, n) /\ Possible(b)
      <4>1. /\ state' = StateAt(b) /\ error' = "none" /\ handshake' = KeptAt(b) /\ verifier' = VerifierAt(b)
            /\ ks' = ReadOne(ScheduleAt(b, n))
        BY <3>2, <3>4, ProcessedFields, Zenon
      <4>2. ks' = ScheduleAt(b, n + 1) /\ n + 1 \in Nat
        BY <4>1, RecordCounted
      <4>3. CASE b < FlightLen
        <5>1. b \in 0 .. FlightLen - 1 /\ state' = "ServerVerify"
          BY <1>6, <1>13, <4>1, <4>3 DEF StateAt
        <5>2. ClientInv' /\ ClientAt' = Place(b, n + 1)
          BY <1>1, <1>2, <3>4, <4>1, <4>2, <5>1, Verifies, SMTT(30)
        <5>3. Sent' = 0
          BY <5>1 DEF Sent
        <5>4. Behind(Place(b, n + 1), Tail(down))
          BY <1>13, <4>3, Zenon
        <5> QED BY <1>8, <4>1, <5>1, <5>2, <5>3, <5>4
      <4>4. CASE b = FlightLen
        <5>1. /\ ClientInv' /\ ClientAt' = Place(FlightLen, 0) /\ Sent' = 0
              /\ state' \in {"ClientCert", "ClientFinished"}
          BY <1>1, <1>2, <2>3, <4>1, <4>2, <4>4, Answers, SMTT(30)
        <5>2. Behind(Place(FlightLen, 0), Tail(down))
          <6>1. ~(b < FlightLen)
            BY <1>6, <4>4
          <6> QED BY <1>13, <4>4, <6>1, Zenon
        <5> QED BY <1>8, <4>1, <5>1, <5>2
      <4> QED BY <1>6, <1>13, <4>3, <4>4
    <3> QED BY <3>1, <3>3, <3>4
  <2> QED BY <2>2, <2>3
<1>14. CASE \E c \in Places : Leads(Place(j, n), r, c) /\ Behind(c, Tail(down))
  <2>1. PICK c \in Places : Leads(Place(j, n), r, c) /\ Behind(c, Tail(down))
    BY <1>14
  <2>2. \/ r = Plain(Message("ChangeCipherSpec", <<>>)) /\ c = Place(j, n)
        \/ \E b \in j + 1 .. FlightLen :
             /\ r = Record(WriteHs, n, SubSeq(ServerFlight, j + 1, b))
             /\ c = Place(b, IF b < FlightLen THEN n + 1 ELSE 0)
    BY <1>2, <2>1, FlightRecord
  <2> QED BY <1>12, <1>13, <2>1, <2>2, Zenon
<1> QED BY <1>5, <1>11, <1>14

(* The client sends message q + 1 of its answer. *)
LEMMA ReplyRecord ==
  ASSUME config \in Config, config.psk = "accepted" => ~config.request, NEW q \in 0 .. ReplyLen - 1, NEW w, NEW k,
         k = Schedule(ServerHs, Keys(ReadHs, q), w, Mid \o SubSeq(Reply, 1, q))
  PROVE  /\ SentOne(update(k, Reply[q + 1])) =
              Schedule(ServerHs, Keys(ReadHs, q + 1), w, Mid \o SubSeq(Reply, 1, q + 1))
         /\ k.transcript_hash = Mid \o SubSeq(Reply, 1, q) /\ k.client_state = Keys(ReadHs, q)
         /\ update(k, Reply[q + 1]).client_state = Keys(ReadHs, q)
         /\ UpRecord(q + 1) = Record(ReadHs, q, <<Reply[q + 1]>>)
<1> DEFINE h == ServerHs
           c == Keys(ReadHs, q)
           d == Keys(ReadHs, q + 1)
           t == Mid \o SubSeq(Reply, 1, q)
           u == Mid \o SubSeq(Reply, 1, q + 1)
           m == Reply[q + 1]
           v == Append(t, m)
<1>1. ReplyLen \in Nat /\ q \in Nat
  BY Sizes
<1>2. v = u
  BY ReplyShape, OneMore, Zenon DEF ReplyLen
<1>3. Counted(c) = d
  BY <1>1, Counting
<1>4. UpRecord(q + 1) = Record(ReadHs, q, <<Reply[q + 1]>>)
  <2>1. q + 1 <= ReplyLen /\ (q + 1) - 1 = q
    BY <1>1
  <2> QED BY <2>1, Zenon DEF UpRecord
<1> HIDE DEF h, c, d, t, u, m
<1>5. update(Schedule(h, c, w, t), m) = Schedule(h, c, w, v)
  BY Updated
<1> HIDE DEF v
<1>6. /\ SentOne(Schedule(h, c, w, v)) = Schedule(h, Counted(c), w, v)
      /\ Schedule(h, c, w, v).client_state = c
      /\ Schedule(h, c, w, t).client_state = c /\ Schedule(h, c, w, t).transcript_hash = t
  BY SentCounted, ScheduleFields
<1>7. k = Schedule(h, c, w, t)
  BY Zenon DEF h, c, t
<1>8. SentOne(update(k, m)) = Schedule(h, d, w, u) /\ update(k, m).client_state = c
  BY <1>2, <1>3, <1>5, <1>6, <1>7, Zenon
<1>9. k.transcript_hash = t /\ k.client_state = c
  BY <1>6, <1>7, Zenon
<1> QED BY <1>4, <1>8, <1>9, Zenon DEF h, c, d, t, u, m

(* The state behind the server's flight. *)
LEMMA BehindFlight ==
  ASSUME IInv, state \in {"ClientCert", "ClientCertVerify", "ClientFinished"}
  PROVE  /\ config \in Config /\ (config.psk = "accepted" => ~config.request) /\ config.psk # "declined"
         /\ Answering /\ ClientAt = Place(FlightLen, 0) /\ IsSequence(down) /\ Behind(ClientAt, down)
         /\ server.phase # "start" /\ error = "none" /\ verifier = VerifierAt(FlightLen)
         /\ data \in [client : Nat, server : Nat] /\ data.client = 0
         /\ UpInv /\ ServerInv /\ FailuresExplained
<1>1. config \in Config /\ (config.psk = "accepted" => ~config.request)
  BY Configured
<1>2. /\ UpInv /\ ServerInv /\ FailuresExplained /\ ClientInv /\ IsSequence(down)
      /\ (state # "Failed" => Behind(ClientAt, down))
      /\ data \in [client : Nat, server : Nat]
  BY Zenon DEF IInv, DownInv
<1>3. server.phase # "start" /\ error = "none" /\ data.client = 0 /\ Answering
  BY <1>2, SMTT(30) DEF UpInv, FailuresExplained, ClientInv
<1>4. ClientAt = Place(FlightLen, 0)
  BY DEF ClientAt
<1>5. config.psk # "declined" /\ verifier = VerifierAt(FlightLen)
  BY <1>3, Zenon DEF Answering
<1> QED BY <1>1, <1>2, <1>3, <1>4, <1>5

(* What is left to show when it sends the next message of its answer. *)
LEMMA AnswerStep ==
  ASSUME IInv, state \in {"ClientCert", "ClientCertVerify"}, state' \in {"ClientCertVerify", "ClientFinished"},
         config' = config, error' = error, verifier' = verifier, down' = down, server' = server, data' = data,
         config.request, state' = "ClientCertVerify" => config.cert,
         NEW q, q = Sent, Sent' = q + 1, up' = Append(up, UpRecord(q + 1)), handshake' = Answered,
         ks' = Schedule(ServerHs, Keys(ReadHs, q + 1), Keys(WriteHs, ks.server_state.counter),
                        Mid \o SubSeq(Reply, 1, q + 1))
  PROVE  IInv'
<1>1. /\ config \in Config /\ (config.psk = "accepted" => ~config.request) /\ config.psk # "declined"
      /\ ClientAt = Place(FlightLen, 0) /\ IsSequence(down) /\ Behind(ClientAt, down)
      /\ server.phase # "start" /\ error = "none" /\ verifier = VerifierAt(FlightLen)
      /\ data \in [client : Nat, server : Nat] /\ data.client = 0
      /\ UpInv /\ ServerInv /\ FailuresExplained
  BY BehindFlight, SMTT(30)
<1>2. Answering'
  <2>1. handshake' = IF state' = "ClientCert" THEN Asked ELSE IF config.request THEN Answered ELSE NotAsked(Mid)
    BY SMTT(30)
  <2> QED BY <1>1, <2>1, StillAnswers, SMTT(30)
<1>3. ClientInv'
  BY <1>1, <1>2, SMTT(30) DEF ClientInv
<1>4. FailuresExplained'
  BY <1>1, SMTT(30) DEF FailuresExplained
<1>5. UpInv'
  BY <1>1, UpGrows, SMTT(30)
<1>6. ClientAt' = ClientAt
  BY <1>1, Fixed, Zenon DEF ClientAt
<1>7. \E c, d : c = ClientAt' /\ d = down' /\ Behind(c, d)
  BY <1>1, <1>6, Zenon
<1> QED BY <1>1, <1>3, <1>4, <1>5, <1>7, ClientMoves, SMTT(30)

(* Respond with a message that is hashed, and without. *)
LEMMA Responded ==
  ASSUME NEW k, NEW m, NEW x, NEW n, k.client_state = Keys(x, n), Respond(k, m, TRUE)
  PROVE  up' = Append(up, Record(x, n, <<m>>)) /\ ks' = SentOne(k)
<1>1. up' = Append(up, Sealed(k.client_state, <<m>>)) /\ ks' = SentOne(k)
  BY Zenon DEF Respond, SentOne
<1>2. Sealed(Keys(x, n), <<m>>) = Record(x, n, <<m>>)
  BY SealedKeys, Zenon
<1> QED BY <1>1, <1>2, Zenon

(* ClientCert. *)
LEMMA ClientCertStep ==
  ASSUME IInv, ClientCert PROVE IInv'
<1>1. /\ state = "ClientCert" /\ config' = config /\ error' = error /\ verifier' = verifier /\ down' = down
      /\ server' = server /\ data' = data
      /\ state' = IF config.cert THEN "ClientCertVerify" ELSE "ClientFinished"
  BY DEF ClientCert
<1>2. /\ config \in Config /\ (config.psk = "accepted" => ~config.request) /\ Answering
  BY <1>1, BehindFlight, SMTT(30)
<1>3. config.request
  BY <1>1, SMTT(30) DEF IInv, ClientInv
<1>4. Sent = 0
  BY <1>1 DEF Sent
<1>5. /\ ReplyLen = (IF config.cert THEN 3 ELSE 2) /\ ReplyLen' = ReplyLen /\ ReplyLen \in Nat
      /\ Reply[1] = Message("Certificate", <<config.cert>>)
  <2>1. ReplyLen = IF config.cert THEN 3 ELSE 2
    BY <1>2, <1>3, ReplyShape
  <2>2. Reply[1] = Message("Certificate", <<config.cert>>)
    BY <1>2, <1>3, ReplyShape, Zenon
  <2>3. ReplyLen' = ReplyLen /\ ReplyLen \in Nat
    BY <1>1, <1>2, Fixed, Sizes
  <2> QED BY <2>1, <2>2, <2>3
<1>6. Sent' = 0 + 1
  BY <1>1, <1>5 DEF Sent
<1> DEFINE w == Keys(WriteHs, ks.server_state.counter)
           m == Reply[0 + 1]
<1>7. ks = Schedule(ServerHs, Keys(ReadHs, 0), w, Mid \o SubSeq(Reply, 1, 0))
  BY <1>2, <1>4, Zenon DEF Answering
<1>8. /\ SentOne(update(ks, m)) = Schedule(ServerHs, Keys(ReadHs, 0 + 1), w, Mid \o SubSeq(Reply, 1, 0 + 1))
      /\ ks.transcript_hash = Mid \o SubSeq(Reply, 1, 0)
      /\ update(ks, m).client_state = Keys(ReadHs, 0)
      /\ UpRecord(0 + 1) = Record(ReadHs, 0, <<m>>)
  <2>1. 0 \in 0 .. ReplyLen - 1
    BY <1>5
  <2> HIDE DEF w
  <2> QED BY <1>2, <1>7, <2>1, ReplyRecord, SMTT(30)
<1>9. Respond(update(ks, m), m, TRUE)
  <2>1. m = Message("Certificate", <<config.cert>>)
    BY <1>5
  <2> QED BY <2>1, Zenon DEF ClientCert
<1>10. up' = Append(up, UpRecord(0 + 1)) /\ ks' = SentOne(update(ks, m))
  <2> HIDE DEF m
  <2> QED BY <1>8, <1>9, Responded, Zenon
<1>11. handshake' = Answered
  <2>1. handshake = Asked
    BY <1>1, <1>2, Zenon DEF Answering
  <2>2. handshake' = [handshake EXCEPT !.traffic_hash = ks.transcript_hash] /\ ks.transcript_hash = Mid
    <3>1. Mid \o SubSeq(Reply, 1, 0) = Mid
      BY <1>2, Sizes
    <3> QED BY <1>8, <3>1, Zenon DEF ClientCert
  <2> DEFINE b == TRUE
             t == Mid
             z == <<>>
  <2> HIDE DEF b, t, z
  <2>3. [Kept(z, b) EXCEPT !.traffic_hash = t] = Kept(t, b)
    BY DEF Kept
  <2> QED BY <2>1, <2>2, <2>3, Zenon DEF Asked, Answered, b, t, z
<1> HIDE DEF m
<1> QED BY <1>1, <1>3, <1>4, <1>6, <1>8, <1>10, <1>11, AnswerStep, Zenon

(* ClientCertVerify. *)
LEMMA ClientCertVerifyStep ==
  ASSUME IInv, ClientCertVerify PROVE IInv'
<1>1. /\ state = "ClientCertVerify" /\ config' = config /\ handshake' = handshake /\ verifier' = verifier
      /\ down' = down /\ server' = server /\ data' = data
  BY DEF ClientCertVerify
<1>2. /\ config \in Config /\ (config.psk = "accepted" => ~config.request) /\ Answering
      /\ IsSequence(down) /\ server.phase # "start" /\ UpInv /\ ServerInv
      /\ data \in [client : Nat, server : Nat]
  BY <1>1, BehindFlight
<1>3. config.request /\ config.cert
  BY <1>1, SMTT(30) DEF IInv, ClientInv
<1>4. Sent = 1
  BY <1>1 DEF Sent
<1>5. ReplyLen = 3 /\ ReplyLen' = 3
  <2>1. ReplyLen = 3
    BY <1>2, <1>3, ReplyShape
  <2> QED BY <1>1, <2>1, Fixed
<1> DEFINE w == Keys(WriteHs, ks.server_state.counter)
           t == Mid \o SubSeq(Reply, 1, 1)
<1>6. ks = Schedule(ServerHs, Keys(ReadHs, 1), w, t)
  BY <1>2, <1>4, Zenon DEF Answering
<1>7. /\ SentOne(update(ks, Reply[1 + 1])) = Schedule(ServerHs, Keys(ReadHs, 1 + 1), w, Mid \o SubSeq(Reply, 1, 1 + 1))
      /\ ks.transcript_hash = t /\ ks.client_state = Keys(ReadHs, 1)
      /\ update(ks, Reply[1 + 1]).client_state = Keys(ReadHs, 1)
      /\ UpRecord(1 + 1) = Record(ReadHs, 1, <<Reply[1 + 1]>>)
  <2>1. 1 \in 0 .. ReplyLen - 1
    BY <1>5
  <2> HIDE DEF w
  <2> QED BY <1>2, <1>6, <2>1, ReplyRecord, SMTT(30)
<1>8. CASE config.signer
  <2> DEFINE m == Reply[1 + 1]
  <2>1. m = Message("CertificateVerify", <<"sig", ks.transcript_hash>>)
    <3>1. Reply[2] = Message("CertificateVerify", <<"sig", t>>)
      BY <1>2, <1>3, ReplyShape, Zenon
    <3>2. m = Reply[2]
      OBVIOUS
    <3> QED BY <1>7, <3>1, <3>2, Zenon
  <2>2. Respond(update(ks, m), m, TRUE) /\ state' = "ClientFinished" /\ error' = error
    BY <1>8, <2>1, Zenon DEF ClientCertVerify
  <2>3. up' = Append(up, UpRecord(1 + 1)) /\ ks' = SentOne(update(ks, m))
    <3> HIDE DEF m
    <3> QED BY <1>7, <2>2, Responded, Zenon DEF m
  <2>4. Sent' = 1 + 1
    BY <1>5, <2>2 DEF Sent
  <2>5. handshake' = Answered
    BY <1>1, <1>2, <1>3, Zenon DEF Answering
  <2> HIDE DEF m
  <2>6. ks' = Schedule(ServerHs, Keys(ReadHs, 1 + 1), w, Mid \o SubSeq(Reply, 1, 1 + 1))
    BY <1>7, <2>3, Zenon DEF m
  <2> QED BY <1>1, <1>3, <1>4, <2>2, <2>3, <2>4, <2>5, <2>6, AnswerStep, Zenon
<1>9. CASE ~config.signer
  <2> DEFINE m == Message("Alert", <<"close_notify">>)
  <2>1. Respond(ks, m, TRUE) /\ state' = "Failed" /\ error' = "InvalidPrivateKey"
    BY <1>9, Zenon DEF ClientCertVerify, Fail
  <2>2. up' = Append(up, Record(ReadHs, 1, <<m>>))
    <3> HIDE DEF m
    <3> QED BY <1>7, <2>1, Responded, Zenon
  <2>3. UpAlert(1 + 1) = Record(ReadHs, 1, <<m>>)
    <3>1. (1 + 1) - 1 = 1
      OBVIOUS
    <3> QED BY <3>1, Zenon DEF UpAlert
  <2>4. FailuresExplained'
    BY <1>1, <1>3, <1>9, <2>1, SMTT(30) DEF FailuresExplained
  <2>5. UpInv'
    <3>1. up' = Append(up, UpAlert(Sent + 1)) /\ Sent + 1 <= ReplyLen
      <4>1. Sent + 1 <= ReplyLen
        BY <1>4, <1>5
      <4> QED BY <1>4, <2>2, <2>3, <4>1, Zenon
    <3> QED BY <1>1, <1>2, <2>1, <3>1, UpGrows
  <2> QED BY <1>1, <1>2, <2>1, <2>4, <2>5, ClientFails
<1> QED BY <1>8, <1>9

(* The client's Finished is the last message of its answer. *)
LEMMA FinishedRecord ==
  ASSUME IInv, state = "ClientFinished", FinishedSent
  PROVE  /\ up' = Append(up, UpRecord(Sent + 1)) /\ Sent + 1 = ReplyLen /\ Sent \in Nat
<1>1. /\ config \in Config /\ (config.psk = "accepted" => ~config.request) /\ Answering
  BY BehindFlight
<1>2. Sent = ReplyLen - 1 /\ ReplyLen \in Nat /\ ReplyLen >= 1
  BY <1>1, Sizes DEF Sent
<1> DEFINE q == ReplyLen - 1
           w == Keys(WriteHs, ks.server_state.counter)
           t == Mid \o SubSeq(Reply, 1, q)
<1>3. ks = Schedule(ServerHs, Keys(ReadHs, q), w, t)
  BY <1>1, <1>2, Zenon DEF Answering
<1>4. q \in 0 .. ReplyLen - 1 /\ q + 1 = ReplyLen
  BY <1>2
<1>5. /\ ks.transcript_hash = t /\ ks.client_state = Keys(ReadHs, q)
      /\ UpRecord(q + 1) = Record(ReadHs, q, <<Reply[q + 1]>>)
  <2> HIDE DEF w, q
  <2> QED BY <1>1, <1>3, <1>4, ReplyRecord, Zenon
<1>6. Reply[q + 1] = Message("Finished", create_client_finished(ks))
  <2>1. Reply[ReplyLen] = Message("Finished", Mac(ReadHs, t))
    BY <1>1, ReplyShape, Zenon
  <2>2. Keys(ReadHs, q).traffic_secret = ReadHs
    BY DEF Keys
  <2> HIDE DEF q, t
  <2> QED BY <1>4, <1>5, <2>1, <2>2, Zenon DEF create_client_finished
<1>7. up' = Append(up, Sealed(Keys(ReadHs, q), <<Reply[q + 1]>>))
  BY <1>5, <1>6, Zenon DEF FinishedSent
<1>8. Sealed(Keys(ReadHs, q), <<Reply[q + 1]>>) = Record(ReadHs, q, <<Reply[q + 1]>>)
  BY SealedKeys, Zenon
<1>9. up' = Append(up, UpRecord(Sent + 1))
  BY <1>2, <1>5, <1>7, <1>8, Zenon
<1> QED BY <1>2, <1>4, <1>9

(* The schedule of an open connection. *)
LEMMA MasterStage ==
  ASSUME NEW c, NEW s, NEW t, ks = Schedule(ServerHs, c, s, t)
  PROVE  initialize_master_secret([ks EXCEPT !.transcript_hash = Mid]) =
           Schedule(Master, Keys(ReadAp, 0), Keys(WriteAp, 0), Mid)
<1> DEFINE h == ServerHs
           u == Mid
           x == Master
           i == Zero
           l == "c ap traffic"
           m == "s ap traffic"
<1>1. x = Extract(Expand(h, "derived", <<>>), i)
  BY Zenon DEF Master
<1>2. [ks EXCEPT !.transcript_hash = Mid] = Rewound(Schedule(h, c, s, t), u)
  BY Zenon DEF Rewound
<1> HIDE DEF h, u, x, i, l, m
<1>3. Rewound(Schedule(h, c, s, t), u) = Schedule(h, c, s, u)
  BY Restored
<1>4. derived(calculate_traffic_secrets(initialize(Schedule(h, c, s, u), i), l, m)) =
        Schedule(x, Keys(Expand(x, l, u), 0), Keys(Expand(x, m, u), 0), u)
  BY <1>1, NextStage, SMTT(30)
<1>5. initialize_master_secret(Schedule(h, c, s, u)) = Schedule(x, Keys(Expand(x, l, u), 0), Keys(Expand(x, m, u), 0), u)
  BY <1>4, Zenon DEF initialize_master_secret, i, l, m
<1> QED BY <1>2, <1>3, <1>5, Zenon DEF ReadAp, WriteAp, u, x, l, m

(* An open connection with n records read, and c written. *)
LEMMA StaysOpen ==
  ASSUME config.psk # "declined", config' = config, state' = "ApplicationData", NEW n, NEW c, data'.client = c,
         ks' = Schedule(Master, Keys(ReadAp, c), Keys(WriteAp, n), Mid), verifier' = VerifierAt(FlightLen)
  PROVE  ClientInv' /\ ClientAt' = Place(FlightLen, n)
<1>1. PICK a, x, y, t, f :
        a = Master /\ x = Keys(ReadAp, c) /\ y = Keys(WriteAp, n) /\ t = Mid /\ f = FlightLen
  OBVIOUS
<1>2. /\ FlightLen' = f /\ Mid' = t /\ ReadAp' = ReadAp /\ WriteAp' = WriteAp /\ Master' = a
  BY <1>1, Fixed
<1>3. /\ VerifierAt(f)' = VerifierAt(f) /\ Schedule(a, x, y, t)' = Schedule(a, x, y, t)
  BY FixedStages
<1>4. ks' = Schedule(a, x, y, t)
  BY <1>1, Zenon
<1>5. ks'.server_state.counter = n
  <2>1. Schedule(a, x, y, t).server_state = y
    BY ScheduleFields, SMTT(30)
  <2>2. y.counter = n
    BY <1>1 DEF Keys
  <2> QED BY <1>4, <2>1, <2>2, Zenon
<1>6. Keys(ReadAp, data.client)' = x /\ Keys(WriteAp, ks.server_state.counter)' = y
  BY <1>1, <1>2, <1>5, Zenon
<1>7. ks' = Schedule(Master, Keys(ReadAp, data.client), Keys(WriteAp, ks.server_state.counter), Mid)'
  BY <1>2, <1>3, <1>4, <1>6, Zenon
<1>8. verifier' = VerifierAt(FlightLen)'
  BY <1>1, <1>2, <1>3, Zenon
<1>9. Open'
  BY <1>7, <1>8, Zenon DEF Open
<1>10. ClientInv'
  BY <1>9, SMTT(30) DEF ClientInv
<1>11. ClientAt' = Place(FlightLen', ks'.server_state.counter)
  BY SMTT(30) DEF ClientAt
<1> QED BY <1>1, <1>2, <1>5, <1>10, <1>11, Zenon

(* ClientFinished. *)
LEMMA ClientFinishedStep ==
  ASSUME IInv, ClientFinished PROVE IInv'
<1>1. /\ state = "ClientFinished" /\ config' = config /\ verifier' = verifier /\ FinishedSent
      /\ down' = down /\ server' = server /\ data' = data
  BY DEF ClientFinished
<1>2. /\ config \in Config /\ (config.psk = "accepted" => ~config.request) /\ config.psk # "declined"
      /\ Answering /\ ClientAt = Place(FlightLen, 0) /\ IsSequence(down) /\ Behind(ClientAt, down)
      /\ server.phase # "start" /\ error = "none" /\ verifier = VerifierAt(FlightLen)
      /\ data \in [client : Nat, server : Nat] /\ data.client = 0
      /\ UpInv /\ ServerInv /\ FailuresExplained
  BY <1>1, BehindFlight
<1>3. up' = Append(up, UpRecord(Sent + 1)) /\ Sent + 1 = ReplyLen /\ Sent \in Nat
  BY <1>1, FinishedRecord
<1>4. handshake.traffic_hash = Mid /\ Mid # <<>>
  <2>1. handshake = IF config.request THEN Answered ELSE NotAsked(Mid)
    BY <1>1, <1>2, Zenon DEF Answering
  <2>2. Answered.traffic_hash = Mid /\ NotAsked(Mid).traffic_hash = Mid
    BY KeptFields, Zenon DEF Answered, NotAsked
  <2>3. Mid # <<>>
    BY <1>2, Sizes
  <2> QED BY <2>1, <2>2, <2>3, Zenon
<1>5. /\ ks' = initialize_master_secret([ks EXCEPT !.transcript_hash = Mid])
      /\ state' = "ApplicationData" /\ error' = error
  BY <1>4, Zenon DEF ClientFinished
<1>6. ks' = Schedule(Master, Keys(ReadAp, 0), Keys(WriteAp, 0), Mid)
  BY <1>2, <1>5, MasterStage, Zenon DEF Answering
<1>7. ClientInv' /\ ClientAt' = Place(FlightLen, 0)
  BY <1>1, <1>2, <1>5, <1>6, StaysOpen, Zenon
<1>8. Sent' = Sent + 1
  <2>1. ReplyLen' = ReplyLen /\ ReplyLen \in Nat
    BY <1>1, <1>2, Fixed, Sizes, SMTT(30)
  <2> QED BY <1>1, <1>2, <1>3, <1>5, <2>1 DEF Sent
<1>9. UpInv'
  BY <1>1, <1>2, <1>3, <1>5, <1>8, UpGrows
<1>10. FailuresExplained'
  BY <1>1, <1>2, <1>5 DEF FailuresExplained
<1>11. \E c, d : c = ClientAt' /\ d = down' /\ Behind(c, d)
  BY <1>1, <1>2, <1>7, Zenon
<1> QED BY <1>1, <1>2, <1>7, <1>9, <1>10, <1>11, ClientMoves, SMTT(30)

(* TransportFails. *)
LEMMA TransportFailsStep ==
  ASSUME IInv, TransportFails PROVE IInv'
<1>1. /\ state \notin {"ApplicationData", "Failed"} /\ state' = "Failed" /\ error' = "Io"
      /\ up' = up \/ (state = "ClientFinished" /\ FinishedSent)
      /\ config' = config /\ down' = down /\ server' = server /\ data' = data
  BY DEF TransportFails, Fail
<1>2. FailuresExplained'
  BY <1>1 DEF FailuresExplained
<1>3. /\ IsSequence(down) /\ (server.phase = "start" => down = <<>>) /\ UpInv /\ ServerInv
      /\ data \in [client : Nat, server : Nat]
  BY Zenon DEF IInv, DownInv, ServerInv
<1>4. UpInv'
  <2>1. CASE up' = up
    BY <1>1, <1>3, <2>1, UpStays
  <2>2. CASE state = "ClientFinished" /\ FinishedSent
    <3>1. config \in Config /\ (config.psk = "accepted" => ~config.request)
      BY Configured
    <3>2. up' = Append(up, UpRecord(Sent + 1))
      BY <2>2, FinishedRecord
    <3> QED BY <1>1, <1>3, <2>2, <3>1, <3>2, UpGrows, SMTT(30)
  <2> QED BY <1>1, <2>1, <2>2
<1> QED BY <1>1, <1>2, <1>3, <1>4, ClientFails, SMTT(30)

(* An open connection. *)
LEMMA WhenOpen ==
  ASSUME IInv, state = "ApplicationData"
  PROVE  /\ config \in Config /\ (config.psk = "accepted" => ~config.request) /\ config.psk # "declined"
         /\ FlightLen \in Nat /\ ReplyLen \in Nat /\ IsSequence(down)
         /\ server.phase # "start" /\ error = "none" /\ verifier = VerifierAt(FlightLen)
         /\ data \in [client : Nat, server : Nat] /\ Sent = ReplyLen + data.client
         /\ UpInv /\ ServerInv /\ FailuresExplained
         /\ \E n : /\ ks = Schedule(Master, Keys(ReadAp, data.client), Keys(WriteAp, n), Mid)
                   /\ ks.client_state = Keys(ReadAp, data.client) /\ ks.server_state = Keys(WriteAp, n)
                   /\ ks.transcript_hash = Mid /\ ClientAt = Place(FlightLen, n) /\ Behind(Place(FlightLen, n), down)
<1>1. config \in Config /\ (config.psk = "accepted" => ~config.request)
  BY Configured
<1>2. FlightLen \in Nat /\ ReplyLen \in Nat
  BY <1>1, Sizes
<1>3. /\ UpInv /\ ServerInv /\ FailuresExplained /\ ClientInv /\ IsSequence(down)
      /\ (state # "Failed" => Behind(ClientAt, down)) /\ data \in [client : Nat, server : Nat]
  BY Zenon DEF IInv, DownInv
<1>4. server.phase # "start" /\ error = "none" /\ Open
  BY <1>3, SMTT(30) DEF UpInv, FailuresExplained, ClientInv
<1>5. Sent = ReplyLen + data.client
  BY DEF Sent
<1> DEFINE n == ks.server_state.counter
           x == Keys(ReadAp, data.client)
           y == Keys(WriteAp, n)
           m == Master
           t == Mid
<1>6. /\ config.psk # "declined" /\ verifier = VerifierAt(FlightLen) /\ ks = Schedule(m, x, y, t)
  BY <1>4, Zenon DEF Open
<1>7. ClientAt = Place(FlightLen, n)
  BY Zenon DEF ClientAt
<1>8. ks.client_state = x /\ ks.server_state = y /\ ks.transcript_hash = t
  <2> HIDE DEF x, y, m, t
  <2>1. Schedule(m, x, y, t).client_state = x /\ Schedule(m, x, y, t).server_state = y
        /\ Schedule(m, x, y, t).transcript_hash = t
    BY ScheduleFields
  <2> QED BY <1>6, <2>1, Zenon
<1>9. Behind(Place(FlightLen, n), down)
  BY <1>3, <1>7, Zenon
<1> HIDE DEF n
<1> QED BY <1>1, <1>2, <1>3, <1>4, <1>5, <1>6, <1>7, <1>8, <1>9, Zenon

(* SendData. *)
LEMMA SendDataStep ==
  ASSUME IInv, SendData PROVE IInv'
<1> DEFINE c == data.client
           m == Message("Data", <<c>>)
<1>1. /\ state = "ApplicationData" /\ state' = state /\ config' = config /\ error' = error /\ verifier' = verifier
      /\ down' = down /\ server' = server /\ data' = [data EXCEPT !.client = c + 1]
      /\ Respond(ks, m, TRUE)
  BY Zenon DEF SendData
<1>2. /\ config \in Config /\ (config.psk = "accepted" => ~config.request) /\ config.psk # "declined"
      /\ FlightLen \in Nat /\ ReplyLen \in Nat /\ IsSequence(down)
      /\ server.phase # "start" /\ error = "none" /\ verifier = VerifierAt(FlightLen)
      /\ data \in [client : Nat, server : Nat] /\ Sent = ReplyLen + data.client
      /\ UpInv /\ ServerInv /\ FailuresExplained
  BY <1>1, WhenOpen
<1>3. PICK n : /\ ks = Schedule(Master, Keys(ReadAp, data.client), Keys(WriteAp, n), Mid)
               /\ ks.client_state = Keys(ReadAp, data.client)
               /\ ClientAt = Place(FlightLen, n) /\ Behind(Place(FlightLen, n), down)
  BY <1>1, WhenOpen, Zenon
<1>4. /\ data' \in [client : Nat, server : Nat] /\ data'.server = data.server /\ data'.client = c + 1 /\ c \in Nat
  BY <1>1, <1>2
<1>5. up' = Append(up, Record(ReadAp, c, <<m>>)) /\ ks' = SentOne(ks)
  <2> HIDE DEF m
  <2> QED BY <1>1, <1>3, Responded, Zenon
<1>6. ks' = Schedule(Master, Keys(ReadAp, c + 1), Keys(WriteAp, n), Mid)
  <2> DEFINE h == Master
             x == Keys(ReadAp, c)
             y == Keys(WriteAp, n)
             t == Mid
             z == Keys(ReadAp, c + 1)
  <2>1. Counted(x) = z
    BY <1>4, Counting
  <2>2. ks = Schedule(h, x, y, t)
    BY <1>3, Zenon
  <2> HIDE DEF h, x, y, t, z
  <2>3. SentOne(Schedule(h, x, y, t)) = Schedule(h, Counted(x), y, t)
    BY SentCounted
  <2>4. ks' = Schedule(h, z, y, t)
    BY <1>5, <2>1, <2>2, <2>3, Zenon
  <2> QED BY <2>4 DEF h, y, t, z
<1>7. UpRecord(Sent + 1) = Record(ReadAp, c, <<m>>)
  <2> DEFINE i == Sent + 1
             e == i - ReplyLen - 1
  <2>1. ~(i <= ReplyLen) /\ e = c
    BY <1>2, <1>4
  <2> HIDE DEF i
  <2>2. UpRecord(i) = Record(ReadAp, e, <<Message("Data", <<e>>)>>)
    BY <2>1, Zenon DEF UpRecord
  <2> HIDE DEF e
  <2> QED BY <2>1, <2>2, Zenon DEF i
<1>8. Sent' = Sent + 1
  <2>1. ReplyLen' = ReplyLen
    BY <1>1, Fixed
  <2> QED BY <1>1, <1>2, <1>4, <2>1 DEF Sent
<1>9. UpInv'
  <2>1. up' = Append(up, UpRecord(Sent + 1))
    BY <1>5, <1>7, Zenon
  <2> QED BY <1>1, <1>2, <1>8, <2>1, UpGrows
<1>10. ClientInv' /\ ClientAt' = Place(FlightLen, n)
  BY <1>1, <1>2, <1>4, <1>6, StaysOpen
<1>11. FailuresExplained'
  BY <1>1, <1>2 DEF FailuresExplained
<1>12. \E a, d : a = ClientAt' /\ d = down' /\ Behind(a, d)
  BY <1>1, <1>3, <1>10, Zenon
<1> HIDE DEF m
<1> QED BY <1>1, <1>2, <1>4, <1>9, <1>10, <1>11, <1>12, ClientMoves

(* Behind the flight there is application data and nothing else. *)
LEMMA DataRecord ==
  ASSUME FlightLen \in Nat, NEW n, NEW r
  PROVE  /\ ~Aborts(Place(FlightLen, n), r)
         /\ \A c : Leads(Place(FlightLen, n), r, c) =>
              r = Record(WriteAp, n, <<Message("Data", <<>>)>>) /\ c = Place(FlightLen, n + 1)
<1>1. /\ Place(FlightLen, n).pos = FlightLen /\ Place(FlightLen, n).counter = n
      /\ Place(FlightLen, n) # Place(-1, 0)
  BY DEF Place
<1>2. FlightLen \notin 0 .. FlightLen - 1
  OBVIOUS
<1> QED BY <1>1, <1>2, Zenon DEF Leads, Aborts

(* ReadData. *)
LEMMA ReadDataStep ==
  ASSUME IInv, ReadData PROVE IInv'
<1>1. /\ state = "ApplicationData" /\ down # <<>> /\ config' = config /\ verifier' = verifier
      /\ up' = up /\ server' = server /\ data' = data /\ down' = Tail(down)
  BY DEF ReadData
<1>2. /\ config \in Config /\ (config.psk = "accepted" => ~config.request) /\ config.psk # "declined"
      /\ FlightLen \in Nat /\ ReplyLen \in Nat /\ IsSequence(down)
      /\ server.phase # "start" /\ error = "none" /\ verifier = VerifierAt(FlightLen)
      /\ data \in [client : Nat, server : Nat] /\ Sent = ReplyLen + data.client
      /\ UpInv /\ ServerInv /\ FailuresExplained
  BY <1>1, WhenOpen, SMTT(30)
<1>3. PICK n : /\ ks = Schedule(Master, Keys(ReadAp, data.client), Keys(WriteAp, n), Mid)
               /\ ks.server_state = Keys(WriteAp, n) /\ Behind(Place(FlightLen, n), down)
  BY <1>1, WhenOpen, Zenon
<1>4. /\ IsSequence(Tail(down))
      /\ \/ \E c \in Places : Place(FlightLen, n) \in Places /\ Leads(Place(FlightLen, n), Head(down), c)
                               /\ Behind(c, Tail(down))
         \/ server.phase = "aborted" /\ Aborts(Place(FlightLen, n), Head(down))
  BY <1>1, <1>2, <1>3, Consumed, Zenon
<1> DEFINE ms == <<Message("Data", <<>>)>>
<1>5. /\ Head(down) = Record(WriteAp, n, ms) /\ Behind(Place(FlightLen, n + 1), Tail(down))
      /\ Place(FlightLen, n) \in Places
  BY <1>2, <1>4, DataRecord, Zenon
<1>6. n \in Nat
  BY <1>5, SMTT(30) DEF Place, Places
<1>7. Opens(ks.server_state, Head(down))
  <2> HIDE DEF ms
  <2>1. Record(WriteAp, n, ms).secret = WriteAp /\ Record(WriteAp, n, ms).counter = n
    BY DEF Record
  <2>2. Keys(WriteAp, n).traffic_secret = WriteAp /\ Keys(WriteAp, n).counter = n
    BY DEF Keys
  <2> QED BY <1>3, <1>5, <2>1, <2>2, Zenon DEF Opens
<1>8. ks' = ReadOne(ks) /\ state' = state /\ error' = error
  BY <1>7, Zenon DEF ReadData, ReadOne
<1>9. ks' = Schedule(Master, Keys(ReadAp, data.client), Keys(WriteAp, n + 1), Mid)
  <2> DEFINE h == Master
             x == Keys(ReadAp, data.client)
             y == Keys(WriteAp, n)
             t == Mid
  <2>1. Counted(y) = Keys(WriteAp, n + 1)
    BY <1>6, Counting
  <2> HIDE DEF h, x, y, t
  <2>2. ReadOne(Schedule(h, x, y, t)) = Schedule(h, x, Counted(y), t)
    BY ReadCounted
  <2> QED BY <1>3, <1>8, <2>1, <2>2, Zenon DEF h, x, y, t
<1>10. ClientInv' /\ ClientAt' = Place(FlightLen, n + 1)
  BY <1>1, <1>2, <1>8, <1>9, StaysOpen, SMTT(30)
<1>11. FailuresExplained'
  BY <1>1, <1>2, <1>8, SMTT(30) DEF FailuresExplained
<1>12. UpInv'
  <2>1. Sent' = Sent
    <3>1. ReplyLen' = ReplyLen
      BY <1>1, Fixed
    <3> QED BY <1>1, <1>8, <3>1 DEF Sent
  <2> QED BY <1>1, <1>2, <1>8, <2>1, UpStays
<1>13. \E a, d : a = ClientAt' /\ d = down' /\ Behind(a, d)
  BY <1>1, <1>5, <1>10, Zenon
<1> QED BY <1>1, <1>2, <1>4, <1>10, <1>11, <1>12, <1>13, ClientMoves, Zenon
=============================================================================
