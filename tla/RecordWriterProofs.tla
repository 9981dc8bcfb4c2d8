------------------------- MODULE RecordWriterProofs -------------------------
(* Proofs about the sending half of a connection, for every buffer length,
   message length, write size and counter limit. *)
EXTENDS RecordWriter, SequenceTheorems, TLAPS

-----------------------------------------------------------------------------
(* What the operations of the write buffer return. *)

(* close_record panics only without a header; it fails only for an encrypted
   record with no room for the content type and the tag, and then keeps pos. *)
LEMMA CloseRecordResult ==
  ASSUME NEW w \in WriteBufferType
  PROVE  LET r == close_record(w)
         IN  /\ r.wb \in WriteBufferType
             /\ r.res \in Outcomes
             /\ r.res = "Panic" <=> w.current_header = None
             /\ r.res = "Panic" => r.wb = w
             /\ r.res = "Ok" => r.wb = EmptyBuffer /\ r.len = SealedLen(w) /\ r.len \in Nat
             /\ r.res \notin {"Ok", "Panic"} =>
                  /\ is_encrypted(w.current_header)
                  /\ w.pos + 1 + TAG_SIZE > BufLen
                  /\ r.wb.current_header = None /\ r.wb.pos = w.pos
  BY BufLenAssumption
  DEF close_record, Seal, SealedLen, Result, EmptyBuffer, WriteBufferType, Outcomes,
      is_encrypted, None, ClientRecordHeader, HEADER_SIZE, TAG_SIZE, TLS_RECORD_OVERHEAD

(* start_record on a buffer without a header always finds room for it there. *)
LEMMA StartRecordResult ==
  ASSUME NEW w \in WriteBufferType, NEW h \in ClientRecordHeader
  PROVE  LET r == start_record(w, h)
         IN  /\ r.wb \in WriteBufferType
             /\ r.res \in Outcomes
             /\ w = EmptyBuffer => r.res = "Ok" /\ r.wb.pos = HEADER_SIZE /\ r.wb.current_header = h
<1> USE BufLenAssumption DEF start_record, Result, WriteBufferType, Outcomes, None,
      ClientRecordHeader, HEADER_SIZE, TLS_RECORD_OVERHEAD
<1>1. CASE w.current_header # None
  BY <1>1 DEF EmptyBuffer
<1>2. CASE w.current_header = None /\ w.pos + HEADER_SIZE > BufLen
  BY <1>2 DEF EmptyBuffer
<1>3. CASE w.current_header = None /\ ~(w.pos + HEADER_SIZE > BufLen)
  <2>1. start_record(w, h).res = "Ok"
    BY <1>3
  <2>2. start_record(w, h).wb = [pos |-> w.pos + HEADER_SIZE, current_header |-> h]
    BY <1>3, Zenon
  <2> QED BY <2>1, <2>2 DEF EmptyBuffer
<1> QED BY <1>1, <1>2, <1>3

(* write_record on an empty buffer either empties it again, or leaves the
   started record or, when sealing failed, the whole unsealed one behind. *)
LEMMA WriteRecordResult ==
  ASSUME NEW h \in ClientRecordHeader, NEW n \in Nat
  PROVE  LET r == write_record(EmptyBuffer, h, n)
         IN  /\ r.wb \in WriteBufferType
             /\ r.res \in Outcomes \ {"Panic", "Io"}
             /\ r.res = "Ok" =>
                  /\ r.wb = EmptyBuffer /\ r.len \in Nat
                  /\ HEADER_SIZE + n <= BufLen
                  /\ r.len = HEADER_SIZE + n + (IF is_encrypted(h) THEN 1 + TAG_SIZE ELSE 0)
                  /\ r.len <= BufLen
             /\ r.res # "Ok" =>
                  /\ HEADER_SIZE + n + 1 + TAG_SIZE > BufLen
                  /\ \/ r.wb.pos = HEADER_SIZE /\ r.wb.current_header = h
                     \/ r.wb.current_header = None /\ r.wb.pos = HEADER_SIZE + n /\ r.wb.pos <= BufLen
<1> DEFINE s == start_record(EmptyBuffer, h)
           f == [s.wb EXCEPT !.pos = s.wb.pos + n]
           r == write_record(EmptyBuffer, h, n)
<1>1. EmptyBuffer \in WriteBufferType
  BY DEF EmptyBuffer, WriteBufferType
<1>2. s.wb \in WriteBufferType /\ s.res = "Ok" /\ s.wb.pos = HEADER_SIZE /\ s.wb.current_header = h
  BY <1>1, StartRecordResult
<1>3. f \in WriteBufferType /\ f.pos = HEADER_SIZE + n /\ f.current_header = h
  BY <1>2 DEF WriteBufferType, HEADER_SIZE
<1>4. CASE HEADER_SIZE + n > BufLen
  <2>1. r.res = "EncodeError" /\ r.wb = s.wb
    BY <1>2, <1>4 DEF write_record, Result, EmptyBuffer
  <2> QED
    BY <1>2, <1>4, <2>1, BufLenAssumption DEF Outcomes, HEADER_SIZE, TAG_SIZE
<1>5. CASE ~(HEADER_SIZE + n > BufLen)
  <2>1. r = close_record(f)
    BY <1>2, <1>5 DEF write_record, EmptyBuffer
  <2>2. h # None
    BY DEF None, ClientRecordHeader
  <2>3. close_record(f).res = "Ok" => SealedLen(f) <= BufLen
    BY <1>3, <1>5, <2>2, BufLenAssumption
    DEF close_record, Seal, SealedLen, Result, HEADER_SIZE, TAG_SIZE
  <2>4. close_record(f).res # "Io"
    BY DEF close_record, Seal, Result
  <2> HIDE DEF f
  <2>5. CASE r.res = "Ok"
    BY <1>3, <1>5, <2>1, <2>3, <2>5, CloseRecordResult, BufLenAssumption
    DEF SealedLen, HEADER_SIZE, TAG_SIZE, Outcomes
  <2>6. CASE r.res # "Ok"
    <3>1. r.res # "Panic" /\ r.res # "Io" /\ r.res \in Outcomes /\ r.wb \in WriteBufferType
      BY <1>3, <2>1, <2>2, <2>4, CloseRecordResult
    <3>2. r.wb.current_header = None /\ r.wb.pos = f.pos /\ f.pos + 1 + TAG_SIZE > BufLen
      BY <1>3, <2>1, <2>6, <3>1, CloseRecordResult
    <3> QED
      BY <1>3, <1>5, <2>6, <3>1, <3>2, BufLenAssumption DEF HEADER_SIZE, TAG_SIZE
  <2> QED BY <2>5, <2>6
<1> QED BY <1>4, <1>5

-----------------------------------------------------------------------------
(* What a step does to the records on the wire. *)

(* The fields of a record on the wire are numbers and truth values. *)
LEMMA WireFields ==
  ASSUME NEW w \in Seq(WireRecord), NEW i \in 1 .. Len(w)
  PROVE  /\ w[i].lo \in Nat /\ w[i].hi \in Nat /\ w[i].counter \in Nat /\ w[i].key \in 0 .. 2
         /\ w[i].done \in BOOLEAN
<1>1. w[i] \in WireRecord
  OBVIOUS
<1> QED BY <1>1, Zenon DEF WireRecord

(* A new record takes the current key and counter, and no complete record of
   that key has that counter. *)
LEMMA AppendedRecord ==
  ASSUME TypeOK, CountersBelow, NonceNeverReused, pc # "panic",
         NEW r \in WireRecord, r.key = key, r.counter = counter, r.done = FALSE,
         wire' = Append(wire, r), key' = key, counter' = counter
  PROVE  /\ wire' \in Seq(WireRecord)
         /\ Len(wire') = Len(wire) + 1
         /\ \A i \in 1 .. Len(wire) : wire'[i] = wire[i]
         /\ wire'[Len(wire')] = r
         /\ CountersBelow'
         /\ NonceNeverReused'
<1>1. wire \in Seq(WireRecord) /\ key \in Int /\ counter \in Int
  BY DEF TypeOK
<1>2. /\ wire' \in Seq(WireRecord)
      /\ Len(wire') = Len(wire) + 1
      /\ \A i \in 1 .. Len(wire) : wire'[i] = wire[i]
      /\ wire'[Len(wire')] = r
  BY <1>1
<1>3. Len(wire) \in Nat
  BY <1>1
<1>4. CountersBelow'
  BY <1>1, <1>2, <1>3 DEF CountersBelow
<1>5. NonceNeverReused'
  <2> SUFFICES ASSUME NEW i \in 1 .. Len(wire'), NEW j \in 1 .. Len(wire'), i < j,
                      wire'[i].enc, wire'[j].enc,
                      wire'[i].key = wire'[j].key, wire'[i].counter = wire'[j].counter
               PROVE  ~wire'[i].done
    BY DEF NonceNeverReused
  <2>1. i \in 1 .. Len(wire) /\ wire'[i] = wire[i]
    BY <1>2, <1>3
  <2>2. CASE j \in 1 .. Len(wire)
    BY <1>2, <2>1, <2>2 DEF NonceNeverReused
  <2>3. CASE j = Len(wire')
    BY <1>1, <1>2, <2>1, <2>3 DEF CountersBelow
  <2> QED BY <1>2, <1>3, <2>2, <2>3, SMTT(30)
<1> QED BY <1>2, <1>4, <1>5

(* A step that leaves the records, the key and the counter alone. *)
LEMMA SameWire ==
  ASSUME CountersBelow, NonceNeverReused, pc # "panic",
         wire' = wire, key' = key, counter' = counter
  PROVE  CountersBelow' /\ NonceNeverReused'
  BY DEF CountersBelow, NonceNeverReused

(* A step that adds at most one record without application data, and leaves
   the application's bytes where they are. *)
LEMMA SameStream ==
  ASSUME TypeOK, StreamEnd, StreamIntact,
         appended' = appended, first' = first,
         Len(wire') \in {Len(wire), Len(wire) + 1},
         \A i \in 1 .. Len(wire) : /\ wire'[i].inner = wire[i].inner
                                   /\ wire'[i].lo = wire[i].lo
                                   /\ wire'[i].hi = wire[i].hi,
         Len(wire') = Len(wire) + 1 => wire'[Len(wire')].inner # "ApplicationData",
         \/ wb' = wb
         \/ wb.current_header # "ApplicationData" /\ wb'.current_header # "ApplicationData"
  PROVE  StreamEnd' /\ StreamIntact'
<1> DEFINE App(i) == wire'[i].inner = "ApplicationData"
<1>1. Len(wire) \in Nat
  BY DEF TypeOK
<1>2. Buffered' = Buffered
  BY DEF Buffered
<1>3. \A i \in 1 .. Len(wire') : App(i) => i \in 1 .. Len(wire)
  BY <1>1
<1>4. \A i \in 1 .. Len(wire) : /\ App(i) <=> IsApp(i)
                                /\ wire'[i].lo = wire[i].lo /\ wire'[i].hi = wire[i].hi
                                /\ i \in 1 .. Len(wire')
  BY <1>1 DEF IsApp
<1>5. StreamEnd'
  BY <1>3, <1>4 DEF StreamEnd, IsApp
<1>6. StreamIntact'
  <2>1. ASSUME NEW i \in 1 .. Len(wire'), NEW j \in 1 .. Len(wire'), i < j, App(i), App(j)
        PROVE  wire'[i].hi <= wire'[j].lo
    BY <1>3, <1>4, <2>1 DEF StreamIntact
  <2>2. ASSUME NEW i \in 1 .. Len(wire'), App(i), NEW b \in Buffered'
        PROVE  wire'[i].hi < b
    BY <1>2, <1>3, <1>4, <2>2 DEF StreamIntact
  <2>3. ASSUME NEW b \in 1 .. appended'
        PROVE  b \in Buffered' \/ \E i \in 1 .. Len(wire') : App(i) /\ wire'[i].lo < b /\ b <= wire'[i].hi
    BY <1>2, <1>4 DEF StreamIntact
  <2> QED BY <2>1, <2>2, <2>3 DEF StreamIntact, IsApp
<1> QED BY <1>5, <1>6

(* f is where the payload of the application record being filled starts: a
   record already open, or one just started behind everything appended. *)
PayloadStart(f) ==
  \/ wb.current_header = "ApplicationData" /\ f = first
  \/ wb.current_header # "ApplicationData" /\ f = appended

(* Bytes are copied into the open record, which stays in the buffer. *)
LEMMA BytesBuffered ==
  ASSUME TypeOK, StreamEnd, StreamIntact, NEW f \in Nat, PayloadStart(f), f <= appended,
         first' = f, appended' \in Nat, appended' >= appended, wire' = wire,
         wb'.current_header = "ApplicationData", wb'.pos \in Nat,
         f + (wb'.pos - HEADER_SIZE) = appended'
  PROVE  StreamEnd' /\ StreamIntact'
<1>1. wire \in Seq(WireRecord) /\ Len(wire) \in Nat /\ appended \in Nat /\ first \in Nat
      /\ wb.pos \in Nat
  BY DEF TypeOK, WriteBufferType
<1>2. \A i \in 1 .. Len(wire) : wire[i].hi \in Nat
  BY <1>1, WireFields
<1>3. \A i \in 1 .. Len(wire) : IsApp(i) => wire[i].hi <= f
  BY DEF StreamEnd, PayloadStart
<1>4. Buffered' = f + 1 .. appended'
  BY <1>1 DEF Buffered, HEADER_SIZE
<1>5. StreamEnd'
  BY <1>1, <1>2, <1>3 DEF StreamEnd, IsApp
<1>7. \A b \in Buffered : b > f
  BY <1>1 DEF PayloadStart, Buffered
<1>8. StreamIntact'
  <2>1. \A b \in 1 .. appended' :
           b \in Buffered' \/ \E i \in 1 .. Len(wire) : IsApp(i) /\ wire[i].lo < b /\ b <= wire[i].hi
    <3> SUFFICES ASSUME NEW b \in 1 .. appended', b \notin Buffered'
                 PROVE  \E i \in 1 .. Len(wire) : IsApp(i) /\ wire[i].lo < b /\ b <= wire[i].hi
      OBVIOUS
    <3>1. b <= f /\ b \in 1 .. appended
      BY <1>1, <1>4
    <3>2. b \notin Buffered
      BY <1>1, <1>7, <3>1
    <3> QED BY <3>1, <3>2 DEF StreamIntact
  <2>2. \A i \in 1 .. Len(wire) : IsApp(i) => \A b \in Buffered' : wire[i].hi < b
    BY <1>1, <1>2, <1>3, <1>4
  <2> QED BY <2>1, <2>2 DEF StreamIntact, IsApp
<1> QED BY <1>5, <1>8

(* The open record is sealed and goes out, and the buffer is empty again. *)
LEMMA BytesSealed ==
  ASSUME TypeOK, StreamEnd, StreamIntact, NEW f \in Nat, PayloadStart(f), f <= appended,
         appended' \in Nat, appended' >= appended,
         NEW r \in WireRecord, r.inner = "ApplicationData", r.lo = f, r.hi = appended',
         wire' = Append(wire, r), wb' = EmptyBuffer
  PROVE  StreamEnd' /\ StreamIntact'
<1>1. wire \in Seq(WireRecord) /\ Len(wire) \in Nat /\ appended \in Nat /\ first \in Nat
      /\ wb.pos \in Nat
  BY DEF TypeOK, WriteBufferType
<1>2. \A i \in 1 .. Len(wire) : wire[i].hi \in Nat
  BY <1>1, WireFields
<1>3. \A i \in 1 .. Len(wire) : IsApp(i) => wire[i].hi <= f
  BY DEF StreamEnd, PayloadStart
<1>4. /\ wb'.current_header # "ApplicationData" /\ Buffered' = {}
      /\ Len(wire') = Len(wire) + 1
      /\ wire'[Len(wire) + 1] = r
      /\ \A i \in 1 .. Len(wire) : wire'[i] = wire[i]
  BY <1>1 DEF Buffered, EmptyBuffer, None
<1>5. StreamEnd'
  BY <1>1, <1>2, <1>3, <1>4 DEF StreamEnd, IsApp
<1>6. \A b \in Buffered : b > f
  BY <1>1 DEF PayloadStart, Buffered
<1>7. \A b \in 1 .. appended' :
         \E i \in 1 .. Len(wire') : IsApp(i)' /\ wire'[i].lo < b /\ b <= wire'[i].hi
  <2> SUFFICES ASSUME NEW b \in 1 .. appended'
               PROVE  \E i \in 1 .. Len(wire') : IsApp(i)' /\ wire'[i].lo < b /\ b <= wire'[i].hi
    OBVIOUS
  <2>1. CASE f < b
    <3>1. Len(wire) + 1 \in 1 .. Len(wire')
      BY <1>1, <1>4
    <3> QED BY <1>4, <2>1, <3>1 DEF IsApp
  <2>2. CASE ~(f < b)
    <3>1. b \in 1 .. appended /\ b \notin Buffered
      BY <1>1, <1>6, <2>2
    <3>2. PICK i \in 1 .. Len(wire) : IsApp(i) /\ wire[i].lo < b /\ b <= wire[i].hi
      BY <3>1 DEF StreamIntact
    <3> QED BY <1>1, <1>4, <3>2 DEF IsApp
  <2> QED BY <2>1, <2>2
<1>8. \A i, j \in 1 .. Len(wire') : i < j /\ IsApp(i)' /\ IsApp(j)' => wire'[i].hi <= wire'[j].lo
  <2> SUFFICES ASSUME NEW i \in 1 .. Len(wire'), NEW j \in 1 .. Len(wire'), i < j, IsApp(i)', IsApp(j)'
               PROVE  wire'[i].hi <= wire'[j].lo
    BY SMTT(30)
  <2>1. i \in 1 .. Len(wire) /\ wire'[i] = wire[i] /\ IsApp(i)
    BY <1>1, <1>4 DEF IsApp
  <2>2. CASE j \in 1 .. Len(wire)
    <3>1. wire'[j] = wire[j] /\ IsApp(j)
      BY <1>4, <2>2 DEF IsApp
    <3> QED BY <2>1, <2>2, <3>1 DEF StreamIntact
  <2>3. CASE j = Len(wire) + 1
    BY <1>3, <1>4, <2>1, <2>3
  <2>4. j \in 1 .. Len(wire) \/ j = Len(wire) + 1
    BY <1>1, <1>4
  <2> QED BY <2>2, <2>3, <2>4
<1> QED BY <1>4, <1>5, <1>7, <1>8, Zenon DEF StreamIntact, IsApp

-----------------------------------------------------------------------------
(* What the parts of an action preserve. *)

(* A call returns without having touched the buffer or the records. *)
LEMMA ReturnStep ==
  ASSUME IInv, NEW c \in CallType, NEW r \in Outcomes, Return(c, r), pc # "panic",
         UNCHANGED <<wb, first, appended, opened, key, counter, strict>>,
         r = "Panic" => c.op # "open" /\ state = "Failed" /\ wb.pos > 0 /\ wb.current_header = None,
         c.op = "open" => state # "ApplicationData",
         c.op = "write" /\ r = "Ok" /\ c.asked > 0 => c.got > 0
  PROVE  IInv'
<1> USE DEF IInv
<1>1. TypeOK'
  <2>1. pc' \in {"panic", "closed", "idle"} /\ state' \in States
    BY DEF TypeOK, Return, States
  <2>2. res' = [call |-> c, res |-> r]
    BY DEF Return
  <2>3. call' \in CallType /\ wire' = wire
    BY DEF Return, NoCall, CallType, States
  <2> QED BY <2>1, <2>2, <2>3 DEF TypeOK
<1>2. BufferShape'
  BY DEF BufferShape, Return, max_block_size, ClientRecordHeader
<1>3. StateShape'
  BY DEF StateShape, Return, HelloFits, KeyOf
<1>4. CallShape'
  BY DEF CallShape, Return
<1>5. CountersBelow' /\ NonceNeverReused'
  BY SameWire DEF Return
<1>6. StreamEnd' /\ StreamIntact'
  BY SameStream DEF Return
<1>7. PanicsExplained'
  BY DEF PanicsExplained, Return, Outcomes
<1>8. WriteMakesProgress'
  BY DEF WriteMakesProgress, Return
<1> QED BY <1>1, <1>2, <1>3, <1>4, <1>5, <1>6, <1>7, <1>8

(* A sealed record is a record of the wire. *)
LEMMA SealedRecord ==
  ASSUME TypeOK, NEW h \in ClientRecordHeader, NEW q, q.len \in Nat, NEW lo \in Nat, NEW hi \in Nat
  PROVE  Sealed(h, q, lo, hi) \in WireRecord
<1>1. RecordLength(q.len) \in Nat
  BY DEF RecordLength, HEADER_SIZE, U16
<1>2. /\ header_content_type(h) \in {"Handshake", "ChangeCipherSpec", "ApplicationData"}
      /\ trailer_content_type(h) \in {"Handshake", "Alert", "ApplicationData"}
      /\ is_encrypted(h) \in BOOLEAN
  BY DEF header_content_type, trailer_content_type, is_encrypted
<1>3. key \in 0 .. 2 /\ counter \in Nat
  BY WriterAssumption DEF TypeOK
<1> QED BY <1>1, <1>2, <1>3 DEF Sealed, WireRecord

(* What must be true of a call c that hands a record to the transport. *)
CallReady(c) ==
  /\ c \in CallType
  /\ c.op \in {"open", "write", "flush", "close_flush", "close"}
  /\ c.op = "open" =>
       /\ HelloFits /\ state # "ApplicationData" /\ c.next # "ClientHello"
       /\ c.next = "ApplicationData" => key = 1
       /\ c.next \notin {"ApplicationData", "Failed"} => key = KeyOf(c.next)
  /\ c.op = "write" => state = "ApplicationData" /\ (c.asked > 0 => c.got > 0)

(* A sealed record goes to the transport and leaves the buffer empty; what it
   means for the stream is left to the caller. *)
LEMMA TransmitStep ==
  ASSUME IInv, NEW c, CallReady(c), NEW r \in WireRecord, Transmit(r, c), pc # "panic",
         r.key = key, r.counter = counter, r.done = FALSE,
         wb' = EmptyBuffer, first' \in Nat, appended' \in Nat,
         UNCHANGED <<opened, key, counter, strict, state, res>>,
         StreamEnd', StreamIntact'
  PROVE  IInv'
<1> USE DEF IInv
<1>1. wire' = Append(wire, r) /\ wire \in Seq(WireRecord) /\ pc' = "sending" /\ call' = c
  BY DEF Transmit, TypeOK
<1>2. CountersBelow' /\ NonceNeverReused' /\ wire' \in Seq(WireRecord) /\ Len(wire') = Len(wire) + 1
  BY <1>1, AppendedRecord, Zenon
<1>3. Len(wire) \in Nat
  BY <1>1
<1>4. TypeOK'
  BY <1>1, <1>2 DEF TypeOK, EmptyBuffer, WriteBufferType, CallReady
<1>5. BufferShape'
  BY BufLenAssumption DEF BufferShape, EmptyBuffer, None, ClientRecordHeader, TLS_RECORD_OVERHEAD
<1>6. StateShape'
  BY DEF StateShape, HelloFits
<1>7. CallShape'
  BY <1>1, <1>2, <1>3 DEF CallShape, CallReady, HelloFits
<1>8. PanicsExplained'
  BY <1>1 DEF PanicsExplained
<1>9. WriteMakesProgress'
  BY DEF WriteMakesProgress
<1> QED BY <1>2, <1>4, <1>5, <1>6, <1>7, <1>8, <1>9

(* open() returns an error because its record did not fit or did not seal. *)
LEMMA OpenFailedStep ==
  ASSUME IInv, NEW c \in CallType, c.op = "open", NEW r \in Outcomes \ {"Panic"}, Return(c, r),
         pc # "panic", state # "ApplicationData", wb = EmptyBuffer,
         wb' \in WriteBufferType,
         NEW h \in ClientRecordHeader \ {"ApplicationData"},
         \/ wb'.pos = HEADER_SIZE /\ wb'.current_header = h
         \/ wb'.pos <= BufLen /\ wb'.current_header = None,
         UNCHANGED <<first, appended, opened, key, counter, strict>>
  PROVE  IInv'
<1> USE DEF IInv
<1>1. /\ pc' = "idle" /\ state' = "Failed" /\ call' = NoCall /\ wire' = wire
      /\ res' = [call |-> c, res |-> r]
  BY DEF Return
<1>2. TypeOK'
  <2>1. NoCall \in CallType
    BY DEF NoCall, CallType, States
  <2> QED BY <1>1, <2>1 DEF TypeOK, States
<1>3. BufferShape'
  BY <1>1, BufLenAssumption
  DEF BufferShape, ClientRecordHeader, None, HEADER_SIZE, TLS_RECORD_OVERHEAD
<1>4. StateShape'
  BY <1>1 DEF StateShape
<1>5. CallShape' /\ PanicsExplained'
  BY <1>1 DEF CallShape, PanicsExplained
<1>6. CountersBelow' /\ NonceNeverReused'
  BY <1>1, SameWire
<1>7. wb.current_header # "ApplicationData" /\ wb'.current_header # "ApplicationData"
  BY DEF EmptyBuffer, None
<1>8. StreamEnd' /\ StreamIntact'
  BY <1>1, <1>7, SameStream
<1>9. WriteMakesProgress'
  BY <1>1 DEF WriteMakesProgress
<1> QED BY <1>2, <1>3, <1>4, <1>5, <1>6, <1>8, <1>9

(* write_record on an empty buffer: a handshake message of open(), which may
   not fit, or an alert, which always does. *)
LEMMA SendRecordStep ==
  ASSUME IInv, NEW h \in ClientRecordHeader \ {"ApplicationData"}, NEW n \in Nat,
         NEW c \in CallType, SendRecord(h, n, c), pc # "panic", wb = EmptyBuffer,
         HEADER_SIZE + n <= BufLen => CallReady(c),
         (c.op = "open" /\ state # "ApplicationData") \/ n = 2,
         UNCHANGED <<first, appended, opened, key, counter, strict>>
  PROVE  IInv'
<1> DEFINE r == write_record(EmptyBuffer, h, n)
<1>1. /\ r.wb \in WriteBufferType
      /\ r.res \in Outcomes \ {"Panic", "Io"}
      /\ r.res = "Ok" => r.wb = EmptyBuffer /\ r.len \in Nat /\ HEADER_SIZE + n <= BufLen
      /\ r.res # "Ok" =>
           /\ HEADER_SIZE + n + 1 + TAG_SIZE > BufLen
           /\ \/ r.wb.pos = HEADER_SIZE /\ r.wb.current_header = h
              \/ r.wb.current_header = None /\ r.wb.pos <= BufLen
  BY WriteRecordResult, SMTT(30)
<1>2. /\ wb' = r.wb
      /\ r.res = "Ok" => Transmit(Sealed(h, r, appended, appended), c) /\ UNCHANGED <<state, res>>
      /\ r.res # "Ok" => Return(c, r.res)
  BY DEF SendRecord
<1> HIDE DEF r
<1>3. CASE r.res = "Ok"
  <2> DEFINE s == Sealed(h, r, appended, appended)
  <2>1. appended \in Nat /\ first \in Nat /\ TypeOK
    BY DEF IInv, TypeOK
  <2>2. /\ s \in WireRecord /\ s.key = key /\ s.counter = counter /\ s.done = FALSE
        /\ s.inner = trailer_content_type(h)
    <3>1. h \in ClientRecordHeader /\ r.len \in Nat
      BY <1>1, <1>3
    <3>2. s \in WireRecord
      BY <2>1, <3>1, SealedRecord
    <3> QED BY <3>2 DEF Sealed
  <2>3. s.inner # "ApplicationData"
    BY <2>2 DEF trailer_content_type, ClientRecordHeader
  <2> HIDE DEF s
  <2>4. wire' = Append(wire, s) /\ wire \in Seq(WireRecord)
    BY <1>2, <1>3, <2>1 DEF Transmit, TypeOK, s
  <2>5. /\ Len(wire') = Len(wire) + 1 /\ wire'[Len(wire')] = s
        /\ \A i \in 1 .. Len(wire) : wire'[i] = wire[i]
    BY <2>2, <2>4
  <2>6. StreamEnd' /\ StreamIntact'
    <3>1. wb' = wb /\ wire'[Len(wire')].inner # "ApplicationData"
      BY <1>1, <1>2, <1>3, <2>3, <2>5, SMTT(30)
    <3>2. \A i \in 1 .. Len(wire) : /\ wire'[i].inner = wire[i].inner
                                    /\ wire'[i].lo = wire[i].lo
                                    /\ wire'[i].hi = wire[i].hi
      BY <2>5, SMTT(30)
    <3>3. TypeOK /\ StreamEnd /\ StreamIntact /\ appended' = appended /\ first' = first
      BY DEF IInv
    <3>4. Len(wire') \in {Len(wire), Len(wire) + 1}
      BY <2>5
    <3> QED BY <3>1, <3>2, <3>3, <3>4, SameStream
  <2>7. CallReady(c) /\ wb' = EmptyBuffer /\ Transmit(s, c) /\ UNCHANGED <<state, res>>
    BY <1>1, <1>2, <1>3, SMTT(30) DEF s
  <2> QED BY <2>1, <2>2, <2>6, <2>7, TransmitStep, Zenon
<1>4. CASE r.res # "Ok"
  <2>1. c.op = "open" /\ state # "ApplicationData"
    BY <1>1, <1>4, BufLenAssumption DEF HEADER_SIZE, TAG_SIZE, TLS_RECORD_OVERHEAD
  <2> QED BY <1>1, <1>2, <1>4, <2>1, OpenFailedStep, SMTT(30)
<1> QED BY <1>3, <1>4

(* The buffer is empty, or an application record is open, unless open() failed. *)
LEMMA EmptyUnlessApp ==
  ASSUME IInv, state # "Failed", wb.current_header # "ApplicationData"
  PROVE  wb = EmptyBuffer
<1>1. wb \in WriteBufferType
  BY DEF IInv, TypeOK
<1>2. wb.current_header = None /\ wb.pos = 0
  BY <1>1 DEF IInv, BufferShape, WriteBufferType
<1> QED BY <1>1, <1>2 DEF WriteBufferType, EmptyBuffer

(* A record with room for the content type and the tag always seals. *)
LEMMA RoomToSeal ==
  ASSUME NEW w \in WriteBufferType, w.current_header # None, w.pos + 1 + TAG_SIZE <= BufLen
  PROVE  /\ close_record(w).res = "Ok" /\ close_record(w).wb = EmptyBuffer
         /\ close_record(w).len \in Nat
<1>1. close_record(w).res = "Ok"
  BY CloseRecordResult, BufLenAssumption DEF TAG_SIZE, WriteBufferType
<1> QED BY <1>1, CloseRecordResult

(* An application record with room to seal, holding the bytes up to appended',
   is closed and sent. *)
LEMMA CloseAppStep ==
  ASSUME IInv, NEW w \in WriteBufferType, NEW f \in Nat, NEW c, CallReady(c), CloseAndSend(w, f, c),
         pc # "panic", w.current_header = "ApplicationData", w.pos + 1 + TAG_SIZE <= BufLen,
         w.pos >= HEADER_SIZE, PayloadStart(f), f <= appended,
         appended' \in Nat, appended' >= appended, f + (w.pos - HEADER_SIZE) = appended',
         first' \in Nat, UNCHANGED <<opened, key, counter, strict>>
  PROVE  IInv'
<1> DEFINE r == close_record(w)
           s == Sealed("ApplicationData", r, f, appended')
<1>1. r.res = "Ok" /\ r.wb = EmptyBuffer /\ r.len \in Nat
  BY RoomToSeal DEF None
<1>2. wb' = EmptyBuffer /\ Transmit(s, c) /\ UNCHANGED <<state, res>>
  BY <1>1 DEF CloseAndSend
<1> HIDE DEF r
<1>3. TypeOK /\ "ApplicationData" \in ClientRecordHeader
  BY DEF IInv, ClientRecordHeader
<1>4. s \in WireRecord
  BY <1>1, <1>3, SealedRecord
<1>5. /\ s.key = key /\ s.counter = counter /\ s.done = FALSE
      /\ s.lo = f /\ s.hi = appended' /\ s.inner = "ApplicationData"
  BY DEF Sealed, trailer_content_type
<1> HIDE DEF s
<1>6. wire' = Append(wire, s)
  BY <1>2 DEF Transmit
<1>7. StreamEnd' /\ StreamIntact'
  BY <1>2, <1>3, <1>4, <1>5, <1>6, BytesSealed DEF IInv
<1> QED BY <1>2, <1>4, <1>5, <1>7, TransmitStep, Zenon

(* flush(): whatever is in the buffer is closed and sent; only the remains of a
   record that failed to seal make close_record panic. *)
LEMMA FlushStep ==
  ASSUME IInv, NEW c, CallReady(c), c.op \in {"flush", "close_flush"}, CloseAndSend(wb, first, c),
         pc # "panic", ~is_empty(wb), UNCHANGED <<first, appended, opened, key, counter, strict>>
  PROVE  IInv'
<1>1. wb \in WriteBufferType /\ wb.pos \in Nat /\ first \in Nat /\ appended \in Nat /\ TypeOK
  BY DEF IInv, TypeOK, WriteBufferType
<1>2. CASE wb.current_header = "ApplicationData"
  <2>1. wb.pos + 1 + TAG_SIZE <= BufLen /\ wb.pos >= HEADER_SIZE
    BY <1>1, <1>2, BufLenAssumption
    DEF IInv, BufferShape, max_block_size, TAG_SIZE, TLS_RECORD_OVERHEAD, HEADER_SIZE
  <2>2. first + (wb.pos - HEADER_SIZE) = appended /\ PayloadStart(first)
    BY <1>2 DEF IInv, StreamEnd, PayloadStart
  <2>3. first <= appended
    BY <1>1, <2>1, <2>2 DEF HEADER_SIZE
  <2> QED BY <1>1, <1>2, <2>1, <2>2, <2>3, CloseAppStep
<1>3. CASE wb.current_header = None
  <2>1. close_record(wb).res = "Panic" /\ close_record(wb).wb = wb
    BY <1>1, <1>3, CloseRecordResult, SMTT(30)
  <2>2. wb' = wb /\ Return(c, "Panic")
    BY <2>1 DEF CloseAndSend
  <2>3. state = "Failed" /\ wb.pos > 0
    BY <1>1, <1>3 DEF IInv, BufferShape, is_empty
  <2>4. "Panic" \in Outcomes /\ c \in CallType
    BY DEF Outcomes, CallReady
  <2> QED BY <1>3, <2>2, <2>3, <2>4, ReturnStep
<1>4. CASE wb.current_header \in ClientRecordHeader \ {"ApplicationData"}
  <2> DEFINE r == close_record(wb)
             s == Sealed(wb.current_header, r, first, first)
  <2>1. wb.current_header # None /\ wb.pos + 1 + TAG_SIZE <= BufLen
    BY <1>4, BufLenAssumption
    DEF IInv, BufferShape, None, ClientRecordHeader, HEADER_SIZE, TAG_SIZE, TLS_RECORD_OVERHEAD
  <2>2. r.res = "Ok" /\ r.wb = EmptyBuffer /\ r.len \in Nat
    BY <1>1, <2>1, RoomToSeal
  <2>3. wb' = EmptyBuffer /\ Transmit(s, c) /\ UNCHANGED <<state, res>>
    BY <1>1, <1>4, <2>2 DEF CloseAndSend
  <2> HIDE DEF r
  <2>4. s \in WireRecord
    BY <1>1, <1>4, <2>2, SealedRecord
  <2>5. s.key = key /\ s.counter = counter /\ s.done = FALSE /\ s.inner # "ApplicationData"
    BY <1>4 DEF Sealed, trailer_content_type, ClientRecordHeader
  <2> HIDE DEF s
  <2>6. wire' = Append(wire, s) /\ wire \in Seq(WireRecord)
    BY <1>1, <2>3 DEF Transmit, TypeOK
  <2>7. /\ Len(wire') = Len(wire) + 1 /\ wire'[Len(wire')] = s
        /\ \A i \in 1 .. Len(wire) : wire'[i] = wire[i]
    BY <2>4, <2>6
  <2>8. StreamEnd' /\ StreamIntact'
    <3>1. wb.current_header # "ApplicationData" /\ wb'.current_header # "ApplicationData"
      BY <1>4, <2>3 DEF EmptyBuffer, None
    <3>2. wire'[Len(wire')].inner # "ApplicationData"
      BY <2>5, <2>7
    <3>3. \A i \in 1 .. Len(wire) : /\ wire'[i].inner = wire[i].inner
                                    /\ wire'[i].lo = wire[i].lo
                                    /\ wire'[i].hi = wire[i].hi
      BY <2>7
    <3>4. TypeOK /\ StreamEnd /\ StreamIntact /\ appended' = appended /\ first' = first
      BY DEF IInv
    <3>5. Len(wire') \in {Len(wire), Len(wire) + 1}
      BY <2>7
    <3> QED BY <3>1, <3>2, <3>3, <3>4, <3>5, SameStream
  <2>9. first' \in Nat /\ appended' \in Nat
    BY <1>1
  <2> QED BY <2>3, <2>4, <2>5, <2>8, <2>9, TransmitStep, Zenon
<1> QED BY <1>1, <1>2, <1>3, <1>4 DEF WriteBufferType

(* write() copies into an open application record that is not yet full, and
   sends it when that filled it. *)
LEMMA AppendStep ==
  ASSUME IInv, NEW w \in WriteBufferType, NEW f \in Nat, NEW n \in Nat, AppendTo(w, f, n),
         pc # "panic", state = "ApplicationData",
         w.current_header = "ApplicationData", HEADER_SIZE <= w.pos, w.pos < max_block_size,
         PayloadStart(f), f <= appended, f + (w.pos - HEADER_SIZE) = appended,
         UNCHANGED <<opened, key, counter, strict>>
  PROVE  IInv'
<1> DEFINE b == IF n < space(w) THEN n ELSE space(w)
           v == [w EXCEPT !.pos = w.pos + b]
           c == WriteCall("write", n, b)
<1>1. /\ w.pos \in Nat /\ BufLen \in Nat /\ max_block_size \in Int /\ appended \in Nat
      /\ max_block_size = BufLen - 128
  BY BufLenAssumption DEF IInv, TypeOK, WriteBufferType, max_block_size, TLS_RECORD_OVERHEAD
<1>2. b \in Nat /\ (n > 0 => b > 0) /\ w.pos + b <= max_block_size
  BY <1>1 DEF space
<1>3. append(w, n).res = "Ok" /\ append(w, n).len = b /\ append(w, n).wb = v
  BY <1>1 DEF append, Result, space
<1>4. /\ v \in WriteBufferType /\ v.current_header = "ApplicationData"
      /\ v.pos = w.pos + b
  BY <1>1, <1>2 DEF WriteBufferType
<1>5. /\ c \in CallType /\ c.op = "write" /\ c.asked = n /\ c.got = b
  BY <1>2, Zenon DEF WriteCall, NoCall, CallType, States
<1>6. /\ first' = f /\ appended' = appended + b
      /\ is_full(v) => CloseAndSend(v, f, c)
      /\ ~is_full(v) => wb' = v /\ Return(c, "Ok")
  BY <1>3 DEF AppendTo
<1> HIDE DEF b, v, c
<1>7. appended' \in Nat /\ appended' >= appended /\ f + (v.pos - HEADER_SIZE) = appended'
  BY <1>1, <1>2, <1>4, <1>6 DEF HEADER_SIZE
<1>8. CASE is_full(v)
  <2>1. CallReady(c)
    BY <1>2, <1>5 DEF CallReady
  <2>2. v.pos + 1 + TAG_SIZE <= BufLen /\ v.pos >= HEADER_SIZE
    BY <1>1, <1>2, <1>4 DEF TAG_SIZE, HEADER_SIZE
  <2> QED BY <1>4, <1>6, <1>7, <1>8, <2>1, <2>2, CloseAppStep
<1>9. CASE ~is_full(v)
  <2>1. /\ wb' = v /\ pc' = "idle" /\ state' = state /\ call' = NoCall /\ wire' = wire
        /\ res' = [call |-> c, res |-> "Ok"]
    BY <1>5, <1>6, <1>9 DEF Return
  <2>2. v.pos < max_block_size
    BY <1>1, <1>2, <1>4, <1>9 DEF is_full
  <2>3. TypeOK'
    <3>1. NoCall \in CallType /\ "Ok" \in Outcomes
      BY DEF NoCall, CallType, States, Outcomes
    <3> QED BY <1>4, <1>5, <1>6, <1>7, <2>1, <3>1 DEF IInv, TypeOK
  <2>4. BufferShape'
    BY <1>1, <1>2, <1>4, <2>1, <2>2 DEF BufferShape, max_block_size, None, HEADER_SIZE
  <2>5. StateShape' /\ CallShape' /\ PanicsExplained' /\ WriteMakesProgress'
    BY <1>2, <1>5, <2>1, SMTT(30)
    DEF IInv, StateShape, CallShape, PanicsExplained, WriteMakesProgress, HelloFits
  <2>6. CountersBelow' /\ NonceNeverReused'
    BY <2>1, SameWire DEF IInv
  <2>7. StreamEnd' /\ StreamIntact'
    <3>1. wb'.current_header = "ApplicationData" /\ wb'.pos \in Nat
          /\ f + (wb'.pos - HEADER_SIZE) = appended' /\ first' = f /\ wire' = wire
      BY <1>4, <1>6, <1>7, <2>1 DEF WriteBufferType
    <3> QED BY <1>7, <3>1, BytesBuffered DEF IInv
  <2> QED BY <2>3, <2>4, <2>5, <2>6, <2>7 DEF IInv
<1> QED BY <1>8, <1>9
-----------------------------------------------------------------------------
(* The actions. *)

(* The calls that open() and close() make are calls. *)
LEMMA CallTypes ==
  /\ \A next \in States : HandshakeCall(next) \in CallType /\ HandshakeCall(next).op = "open"
                          /\ HandshakeCall(next).next = next
  /\ \A op \in {"flush", "close_flush", "close"}, n, g \in Nat :
       WriteCall(op, n, g) \in CallType /\ WriteCall(op, n, g).op = op
  BY Zenon DEF HandshakeCall, WriteCall, NoCall, CallType, States

(* A handshake message of open(): the next state goes with the keys in use. *)
LEMMA HandshakeStep ==
  ASSUME IInv, state \notin {"ApplicationData", "Failed"}, pc = "idle",
         NEW h \in ClientRecordHeader \ {"ApplicationData"}, NEW n \in Nat,
         NEW next \in States \ {"ClientHello"}, SendRecord(h, n, HandshakeCall(next)),
         state = "ClientHello" => n = HelloLen,
         next = "ApplicationData" => key = 1,
         next \notin {"ApplicationData", "Failed"} => key = KeyOf(next),
         UNCHANGED <<first, appended, opened, key, counter, strict>>
  PROVE  IInv'
<1> DEFINE c == HandshakeCall(next)
<1>1. c \in CallType /\ c.op = "open" /\ c.next = next
  BY CallTypes
<1>2. wb = EmptyBuffer
  <2>1. wb.current_header # "ApplicationData"
    BY DEF IInv, BufferShape
  <2> QED BY <2>1, EmptyUnlessApp
<1> HIDE DEF c
<1>3. HEADER_SIZE + n <= BufLen => HelloFits
  BY BufLenAssumption, WriterAssumption DEF IInv, StateShape, HelloFits, HEADER_SIZE
<1>4. HEADER_SIZE + n <= BufLen => CallReady(c)
  BY <1>1, <1>3 DEF CallReady
<1>5. SendRecord(h, n, c)
  BY DEF c
<1> QED BY <1>1, <1>2, <1>4, <1>5, SendRecordStep

(* write_all finished: the last record is complete and its counter is used up. *)
LEMMA WriteAllDoneStep ==
  ASSUME IInv, WriteAllDone
  PROVE  IInv'
<1> USE DEF IInv
<1>1. /\ pc = "sending" /\ wire \in Seq(WireRecord) /\ Len(wire) \in Nat /\ Len(wire) > 0
      /\ counter \in 0 .. CounterMax /\ CounterMax \in Nat /\ key \in 0 .. 2
  BY WriterAssumption DEF WriteAllDone, TypeOK, CallShape
<1>2. UNCHANGED <<wb, first, appended, opened, state, key, strict, call, res>>
  BY DEF WriteAllDone
<1>3. /\ pc' \in {"sent", "panic"} /\ counter' \in 0 .. CounterMax
      /\ pc' = "sent" => counter' = counter + 1
      /\ pc' = "panic" => counter' = counter /\ counter = CounterMax
  BY <1>1 DEF WriteAllDone
<1>4. /\ wire' \in Seq(WireRecord) /\ Len(wire') = Len(wire)
      /\ \A i \in 1 .. Len(wire) :
           /\ wire'[i].inner = wire[i].inner /\ wire'[i].enc = wire[i].enc
           /\ wire'[i].key = wire[i].key /\ wire'[i].counter = wire[i].counter
           /\ wire'[i].lo = wire[i].lo /\ wire'[i].hi = wire[i].hi
           /\ wire'[i].done # wire[i].done => i = Len(wire)
  <2> DEFINE last == [wire[Len(wire)] EXCEPT !.done = TRUE]
  <2>1. wire[Len(wire)] \in WireRecord
    BY <1>1
  <2>2. /\ last \in WireRecord /\ last.inner = wire[Len(wire)].inner /\ last.enc = wire[Len(wire)].enc
        /\ last.key = wire[Len(wire)].key /\ last.counter = wire[Len(wire)].counter
        /\ last.lo = wire[Len(wire)].lo /\ last.hi = wire[Len(wire)].hi
    BY <2>1, Zenon DEF WireRecord
  <2>3. wire' = [wire EXCEPT ![Len(wire)] = last]
    BY DEF WriteAllDone
  <2> HIDE DEF last
  <2>4. wire' \in Seq(WireRecord) /\ Len(wire') = Len(wire)
    BY <1>1, <2>2, <2>3
  <2>5. \A i \in 1 .. Len(wire) : wire'[i] = IF i = Len(wire) THEN last ELSE wire[i]
    BY <1>1, <2>3
  <2> QED BY <2>2, <2>4, <2>5
<1>5. \A i \in 1 .. Len(wire) : wire[i].key \in 0 .. 2 /\ wire[i].counter \in Nat
  BY <1>1, WireFields
<1>6. TypeOK'
  BY <1>2, <1>3, <1>4 DEF TypeOK
<1>7. BufferShape' /\ StateShape' /\ PanicsExplained' /\ WriteMakesProgress'
  BY <1>2, <1>3
  DEF BufferShape, StateShape, PanicsExplained, WriteMakesProgress, max_block_size, HelloFits
<1>8. CallShape'
  BY <1>1, <1>2, <1>3, <1>4 DEF CallShape, HelloFits
<1>9. CountersBelow'
  BY <1>1, <1>2, <1>3, <1>4, <1>5 DEF CountersBelow
<1>10. NonceNeverReused'
  BY <1>1, <1>4, SMTT(30) DEF NonceNeverReused
<1>11. StreamEnd' /\ StreamIntact'
  <2>1. Len(wire') \in {Len(wire), Len(wire) + 1} /\ Len(wire') # Len(wire) + 1
    BY <1>1, <1>4
  <2> QED BY <1>2, <1>4, <2>1, SameStream
<1> QED BY <1>6, <1>7, <1>8, <1>9, <1>10, <1>11

(* open() goes on behind its message; the last one installs the application
   keys, restarts the counter and opens the connection. *)
LEMMA HandshakeSentStep ==
  ASSUME IInv, HandshakeSent
  PROVE  IInv'
<1> USE DEF IInv
<1>1. /\ pc = "sent" /\ call.op = "open" /\ wb = EmptyBuffer /\ HelloFits
      /\ state # "ApplicationData" /\ call.next # "ClientHello" /\ call.next \in States
      /\ call.next = "ApplicationData" => key = 1
      /\ call.next \notin {"ApplicationData", "Failed"} => key = KeyOf(call.next)
      /\ wire \in Seq(WireRecord) /\ key \in 0 .. 2 /\ ~opened
  BY DEF HandshakeSent, CallShape, TypeOK, CallType, StateShape
<1>2. /\ UNCHANGED <<wb, first, appended, strict, wire, res>>
      /\ pc' = "idle" /\ call' = NoCall /\ state' = call.next
      /\ state' = "ApplicationData" => key' = 2 /\ counter' = 0 /\ opened' = TRUE
      /\ state' # "ApplicationData" => UNCHANGED <<key, counter, opened>>
  BY DEF HandshakeSent
<1>3. NoCall \in CallType
  BY DEF NoCall, CallType, States
<1>4. TypeOK'
  <2>1. opened' \in BOOLEAN
    BY <1>2, Zenon DEF TypeOK
  <2>2. key' \in 0 .. 2 /\ counter' \in 0 .. CounterMax
    BY <1>2, WriterAssumption DEF TypeOK
  <2> QED BY <1>1, <1>2, <1>3, <2>1, <2>2 DEF TypeOK
<1>5. BufferShape'
  BY <1>1, <1>2, BufLenAssumption
  DEF BufferShape, EmptyBuffer, None, ClientRecordHeader, TLS_RECORD_OVERHEAD
<1>6. StateShape'
  BY <1>1, <1>2 DEF StateShape, KeyOf, HelloFits
<1>7. CallShape' /\ PanicsExplained' /\ WriteMakesProgress' /\ NonceNeverReused'
  BY <1>2, SMTT(30) DEF CallShape, PanicsExplained, WriteMakesProgress, NonceNeverReused
<1>8. CountersBelow'
  <2>1. CASE state' = "ApplicationData"
    <3>1. \A i \in 1 .. Len(wire) : wire[i].key \in 0 .. 2
      BY <1>1, WireFields
    <3> QED BY <1>1, <1>2, <2>1, <3>1, SMTT(30) DEF CountersBelow
  <2>2. CASE state' # "ApplicationData"
    BY <1>1, <1>2, <2>2 DEF CountersBelow
  <2> QED BY <2>1, <2>2
<1>9. StreamEnd' /\ StreamIntact'
  BY <1>2, SameStream
<1> QED BY <1>4, <1>5, <1>6, <1>7, <1>8, <1>9

(* write() and close() go on behind the record they flushed. *)
LEMMA CallSentStep ==
  ASSUME IInv, CallSent
  PROVE  IInv'
<1>1. /\ pc = "sent" /\ call \in CallType /\ wb = EmptyBuffer
      /\ call.op \in {"write", "flush", "close_flush", "close"}
      /\ call.op = "write" /\ call.asked > 0 => call.got > 0
      /\ UNCHANGED <<opened, key, counter, strict>>
  BY DEF IInv, TypeOK, CallSent, CallShape
<1>2. CASE call.op = "close_flush"
  <2> DEFINE h == IF opened THEN "AlertEnc" ELSE "AlertPlain"
             c == WriteCall("close", 0, 0)
  <2>1. SendRecord(h, 2, c) /\ UNCHANGED <<first, appended>>
    BY <1>1, <1>2 DEF CallSent, CloseNotify
  <2>2. c \in CallType /\ CallReady(c) /\ h \in ClientRecordHeader \ {"ApplicationData"}
    BY CallTypes DEF CallReady, ClientRecordHeader
  <2> HIDE DEF h, c
  <2> QED BY <1>1, <2>1, <2>2, SendRecordStep
<1>3. CASE call.op # "close_flush"
  <2>1. Return(call, "Ok") /\ UNCHANGED <<wb, first, appended>>
    BY <1>1, <1>3 DEF CallSent
  <2> QED BY <1>1, <2>1, ReturnStep DEF Outcomes
<1> QED BY <1>2, <1>3

(* Any write(): it finds an application record open, or the buffer empty. *)
LEMMA WriteStep ==
  ASSUME IInv, Write
  PROVE  IInv'
<1>1. /\ pc = "idle" /\ state = "ApplicationData" /\ HelloFits
      /\ wb \in WriteBufferType /\ wb.pos \in Nat /\ appended \in Nat /\ first \in Nat
      /\ UNCHANGED <<opened, key, counter, strict>>
  BY DEF Write, IInv, TypeOK, StateShape, WriteBufferType
<1>2. PICK n \in WriteSizes :
        IF contains(wb, "ApplicationData") THEN AppendTo(wb, first, n)
        ELSE IF is_empty(wb) THEN StartAndAppend(n)
        ELSE CloseAndSend(wb, first, WriteCall("write_flush", n, 0)) /\ UNCHANGED <<first, appended>>
  BY DEF Write
<1>3. n \in Nat
  BY WriterAssumption
<1>4. CASE wb.current_header = "ApplicationData"
  <2>1. AppendTo(wb, first, n) /\ PayloadStart(first)
    BY <1>2, <1>4 DEF contains, PayloadStart
  <2>2. /\ HEADER_SIZE <= wb.pos /\ wb.pos < max_block_size
        /\ first + (wb.pos - HEADER_SIZE) = appended
    BY <1>4 DEF IInv, BufferShape, StreamEnd
  <2>3. first <= appended
    BY <1>1, <2>2 DEF HEADER_SIZE
  <2> QED BY <1>1, <1>3, <1>4, <2>1, <2>2, <2>3, AppendStep
<1>5. CASE wb.current_header # "ApplicationData"
  <2> DEFINE w == start_record(wb, "ApplicationData").wb
  <2>1. wb = EmptyBuffer
    BY <1>1, <1>5, EmptyUnlessApp
  <2>2. /\ w \in WriteBufferType /\ start_record(wb, "ApplicationData").res = "Ok"
        /\ w.pos = HEADER_SIZE /\ w.current_header = "ApplicationData"
    BY <1>1, <2>1, StartRecordResult DEF ClientRecordHeader
  <2>3. AppendTo(w, appended, n)
    BY <1>2, <1>5, <2>1, <2>2, SMTT(30) DEF contains, is_empty, EmptyBuffer, StartAndAppend
  <2> HIDE DEF w
  <2>4. HEADER_SIZE <= w.pos /\ w.pos < max_block_size /\ appended + (w.pos - HEADER_SIZE) = appended
    BY <1>1, <2>2, BufLenAssumption, WriterAssumption
    DEF max_block_size, HelloFits, HEADER_SIZE, TLS_RECORD_OVERHEAD, MIN_CLIENT_HELLO
  <2>5. PayloadStart(appended) /\ appended <= appended
    BY <1>1, <1>5 DEF PayloadStart
  <2> QED BY <1>1, <1>3, <2>2, <2>3, <2>4, <2>5, AppendStep
<1> QED BY <1>4, <1>5

(* Any flush() or close(). *)
LEMMA FlushOrCloseStep ==
  ASSUME IInv, Flush \/ Close
  PROVE  IInv'
<1>1. pc = "idle" /\ UNCHANGED <<first, appended, opened, key, counter, strict>>
      /\ wb \in WriteBufferType
  BY DEF Flush, Close, Callable, IInv, TypeOK
<1>2. \A op \in {"flush", "close_flush", "close"} :
        CallReady(WriteCall(op, 0, 0)) /\ WriteCall(op, 0, 0) \in CallType /\ WriteCall(op, 0, 0).op = op
  BY CallTypes DEF CallReady
<1>3. CASE ~is_empty(wb)
  <2>1. PICK op \in {"flush", "close_flush"} : CloseAndSend(wb, first, WriteCall(op, 0, 0))
    BY <1>3 DEF Flush, Close
  <2> DEFINE c == WriteCall(op, 0, 0)
  <2>2. CallReady(c) /\ c.op \in {"flush", "close_flush"}
    BY <1>2
  <2> HIDE DEF c
  <2>3. CloseAndSend(wb, first, c)
    BY <2>1 DEF c
  <2> QED BY <1>1, <1>3, <2>2, <2>3, FlushStep
<1>4. CASE is_empty(wb) /\ Flush
  <2>1. wb' = wb /\ Return(WriteCall("flush", 0, 0), "Ok")
    BY <1>4 DEF Flush
  <2>2. "Ok" \in Outcomes
    BY DEF Outcomes
  <2> QED BY <1>1, <1>2, <2>1, <2>2, ReturnStep
<1>5. CASE is_empty(wb) /\ Close
  <2> DEFINE h == IF opened THEN "AlertEnc" ELSE "AlertPlain"
             c == WriteCall("close", 0, 0)
  <2>1. SendRecord(h, 2, c)
    BY <1>5 DEF Close, CloseNotify
  <2>2. c \in CallType /\ CallReady(c) /\ h \in ClientRecordHeader \ {"ApplicationData"}
    BY <1>2 DEF ClientRecordHeader
  <2>3. wb = EmptyBuffer
    <3>1. wb.pos = 0 /\ wb.current_header = None
      BY <1>1, <1>5 DEF IInv, BufferShape, is_empty, HEADER_SIZE, WriteBufferType, max_block_size
    <3> QED BY <1>1, <3>1 DEF WriteBufferType, EmptyBuffer
  <2> HIDE DEF h, c
  <2> QED BY <1>1, <2>1, <2>2, <2>3, SendRecordStep
<1> QED BY <1>3, <1>4, <1>5

(* The handshake's side of Next. *)
LEMMA HandshakeNextStep ==
  ASSUME IInv, Handshake
  PROVE  IInv'
<1>1. /\ HelloLen \in Nat /\ FinishedLen \in Nat /\ HandshakeLens \subseteq Nat
      /\ state # "Failed" => key = KeyOf(state)
  BY WriterAssumption DEF IInv, StateShape
<1>2. ASSUME ClientHello PROVE IInv'
  BY <1>1, <1>2, HandshakeStep DEF ClientHello, ClientRecordHeader, States, KeyOf
<1>3. ASSUME AbortHandshake PROVE IInv'
  BY <1>1, <1>3, HandshakeStep DEF AbortHandshake, ClientRecordHeader, States
<1>4. ASSUME ClientCert PROVE IInv'
  <2>1. PICK n \in HandshakeLens, next \in {"ClientCertVerify", "ClientFinished"} :
          SendRecord("HandshakeEnc", n, HandshakeCall(next))
    BY <1>4 DEF ClientCert
  <2> QED BY <1>1, <1>4, <2>1, HandshakeStep DEF ClientCert, ClientRecordHeader, States, KeyOf
<1>5. ASSUME ClientCertVerify PROVE IInv'
  <2>1. CASE SendRecord("AlertEnc", 2, HandshakeCall("Failed"))
    BY <1>1, <1>5, <2>1, HandshakeStep DEF ClientCertVerify, ClientRecordHeader, States
  <2>2. ASSUME NEW n \in HandshakeLens, SendRecord("HandshakeEnc", n, HandshakeCall("ClientFinished"))
        PROVE  IInv'
    BY <1>1, <1>5, <2>2, HandshakeStep DEF ClientCertVerify, ClientRecordHeader, States, KeyOf
  <2> QED BY <1>5, <2>1, <2>2 DEF ClientCertVerify
<1>6. ASSUME ClientFinished PROVE IInv'
  BY <1>1, <1>6, HandshakeStep DEF ClientFinished, ClientRecordHeader, States, KeyOf
<1>7. ASSUME ServerHello \/ ServerVerify PROVE IInv'
  <2> USE DEF IInv
  <2>1. /\ pc = "idle" /\ state \in {"ServerHello", "ServerVerify"} /\ ~opened /\ HelloFits
        /\ state = "ServerHello" => key = 0
        /\ state = "ServerVerify" => key = 1
        /\ UNCHANGED <<wb, first, appended, opened, strict, pc, call, wire, res>>
    BY <1>1, <1>7 DEF ServerHello, ServerVerify, StateShape, KeyOf
  <2>2. wb = EmptyBuffer
    <3>1. wb.current_header # "ApplicationData"
      BY <2>1 DEF BufferShape
    <3> QED BY <2>1, <3>1, EmptyUnlessApp
  <2>3. /\ state' \in {"ServerVerify", "ClientCert", "ClientFinished", "Failed"}
        /\ \/ key' = key /\ counter' = counter
           \/ key = 0 /\ key' = 1 /\ counter' = 0
        /\ state' # "Failed" => key' = 1
    BY <1>7, <2>1 DEF ServerHello, ServerVerify
  <2>4. TypeOK'
    <3>1. key' \in 0 .. 2 /\ counter' \in 0 .. CounterMax /\ state' \in States
      BY <2>3, WriterAssumption DEF TypeOK, States
    <3> QED BY <2>1, <3>1 DEF TypeOK
  <2>5. BufferShape'
    BY <2>1, <2>2, BufLenAssumption
    DEF BufferShape, EmptyBuffer, None, ClientRecordHeader, TLS_RECORD_OVERHEAD
  <2>6. StateShape'
    BY <2>1, <2>3 DEF StateShape, KeyOf, HelloFits
  <2>7. CallShape' /\ PanicsExplained' /\ WriteMakesProgress' /\ NonceNeverReused'
    BY <2>1, SMTT(30) DEF CallShape, PanicsExplained, WriteMakesProgress, NonceNeverReused
  <2>8. CountersBelow'
    <3>1. wire \in Seq(WireRecord)
      BY DEF TypeOK
    <3>2. \A i \in 1 .. Len(wire) : wire[i].key \in 0 .. 2
      BY <3>1, WireFields
    <3> QED BY <2>1, <2>3, <3>2 DEF CountersBelow
  <2>9. StreamEnd' /\ StreamIntact'
    BY <2>1, SameStream
  <2> QED BY <2>4, <2>5, <2>6, <2>7, <2>8, <2>9
<1> QED BY <1>2, <1>3, <1>4, <1>5, <1>6, <1>7 DEF Handshake

(* The initial states satisfy the inductive invariant. *)
LEMMA InitInv == Init => IInv
<1> SUFFICES ASSUME Init PROVE IInv
  OBVIOUS
<1> USE WriterAssumption, BufLenAssumption DEF Init
<1>1. wire = <<>> /\ Len(wire) = 0 /\ wire \in Seq(WireRecord)
  OBVIOUS
<1>2. NoCall \in CallType /\ "Ok" \in Outcomes
  BY DEF NoCall, CallType, States, Outcomes
<1>3. TypeOK
  <2>1. wb \in WriteBufferType
    BY DEF EmptyBuffer, WriteBufferType
  <2>2. counter \in 0 .. CounterMax /\ key \in 0 .. 2 /\ state \in States
    BY DEF States
  <2>3. res \in [call : CallType, res : Outcomes]
    BY <1>2
  <2> QED BY <1>1, <1>2, <2>1, <2>2, <2>3, Zenon DEF TypeOK
<1>4. BufferShape
  BY DEF BufferShape, EmptyBuffer, None, ClientRecordHeader, TLS_RECORD_OVERHEAD
<1>5. StateShape /\ CallShape /\ PanicsExplained
  BY DEF StateShape, CallShape, PanicsExplained, KeyOf
<1>6. CountersBelow /\ NonceNeverReused
  BY <1>1, SMTT(30) DEF CountersBelow, NonceNeverReused
<1>7. StreamEnd /\ StreamIntact
  <2>1. wb.current_header # "ApplicationData" /\ 1 .. appended = {} /\ 1 .. Len(wire) = {}
    BY <1>1 DEF EmptyBuffer, None
  <2> QED BY <2>1 DEF StreamEnd, StreamIntact
<1>8. WriteMakesProgress
  BY DEF WriteMakesProgress, NoCall
<1> QED BY <1>3, <1>4, <1>5, <1>6, <1>7, <1>8 DEF IInv

(* Every step preserves it. *)
LEMMA NextInv == IInv /\ [Next]_vars => IInv'
<1> SUFFICES ASSUME IInv, [Next]_vars PROVE IInv'
  OBVIOUS
<1>1. CASE Handshake
  BY <1>1, HandshakeNextStep
<1>2. CASE Write
  BY <1>2, WriteStep
<1>3. CASE Flush \/ Close
  BY <1>3, FlushOrCloseStep
<1>4. CASE WriteAllDone
  BY <1>4, WriteAllDoneStep
<1>5. CASE WriteAllInterrupted \/ FlushTransportFailed
  <2>1. /\ pc \in {"sending", "sent"} /\ Return(call, "Io") /\ call \in CallType /\ "Io" \in Outcomes
        /\ UNCHANGED <<wb, first, appended, opened, key, counter, strict>>
        /\ call.op = "open" => state # "ApplicationData"
    BY <1>5 DEF WriteAllInterrupted, FlushTransportFailed, IInv, TypeOK, CallShape, Outcomes
  <2> QED BY <2>1, ReturnStep
<1>6. CASE HandshakeSent
  BY <1>6, HandshakeSentStep
<1>7. CASE CallSent
  BY <1>7, CallSentStep
<1>8. CASE SetFlushPolicy \/ PeerClosed \/ UNCHANGED vars
  <2> USE DEF IInv
  <2>1. /\ UNCHANGED <<wb, first, appended, state, key, counter, pc, call, wire, res>>
        /\ opened' = opened \/ opened' = FALSE
        /\ strict' \in BOOLEAN
    BY <1>8, Zenon DEF SetFlushPolicy, PeerClosed, vars, TypeOK
  <2>2. TypeOK'
    BY <2>1, Zenon DEF TypeOK
  <2>3. BufferShape' /\ StateShape' /\ CallShape' /\ PanicsExplained' /\ WriteMakesProgress'
    <3>1. BufferShape' /\ StateShape'
      BY <2>1 DEF BufferShape, StateShape, max_block_size, HelloFits
    <3>2. CallShape'
      BY <2>1 DEF CallShape, HelloFits
    <3>3. PanicsExplained' /\ WriteMakesProgress'
      BY <2>1 DEF PanicsExplained, WriteMakesProgress
    <3> QED BY <3>1, <3>2, <3>3
  <2>4. CountersBelow' /\ NonceNeverReused' /\ StreamEnd' /\ StreamIntact'
    BY <2>1, Zenon DEF CountersBelow, NonceNeverReused, StreamEnd, StreamIntact, IsApp, Buffered
  <2> QED BY <2>2, <2>3, <2>4
<1> QED BY <1>1, <1>2, <1>3, <1>4, <1>5, <1>6, <1>7, <1>8
        DEF Next, Application, Transport, Finished

(* The inductive invariant holds in every behaviour of the sending half. *)
THEOREM Invariance == Spec => []IInv
  BY InitInv, NextInv, PTL DEF Spec

(* Every variable keeps its type. *)
THEOREM TypeCorrect == Spec => []TypeOK
  BY Invariance, PTL DEF IInv

(* With any buffer, any writes and any interruption by the transport, two records
   sealed under one traffic secret have the same counter only if the transport
   did not take the first of them in full. *)
THEOREM NonceSafety == Spec => []NonceNeverReused
  BY Invariance, PTL DEF IInv

(* The records carry the application's stream: nothing that write() took is
   lost, repeated or reordered between the buffer and the wire. *)
THEOREM StreamSafety == Spec => []StreamIntact
  BY Invariance, PTL DEF IInv

(* An exhausted counter, and a flush or close() behind a handshake record that
   did not seal, are the only ways to panic. *)
THEOREM PanicSafety == Spec => []PanicsExplained
  BY Invariance, PTL DEF IInv

(* write() of a non-empty slice never returns Ok(0): a loop such as write_all
   over it ends. *)
THEOREM WriteProgress == Spec => []WriteMakesProgress
  BY Invariance, PTL DEF IInv
-----------------------------------------------------------------------------
(* Once the peer has closed the connection. *)

(* A step that takes nothing from the application and seals no application data
   but what the buffer holds. *)
Drains ==
  /\ appended' = appended /\ state' = state /\ opened' = opened
  /\ Len(wire') \in {Len(wire), Len(wire) + 1}
  /\ \A i \in 1 .. Len(wire) : wire'[i].inner = wire[i].inner
  /\ wb'.current_header = "ApplicationData" =>
       wb.current_header = "ApplicationData" /\ Len(wire') = Len(wire)
  /\ Len(wire') = Len(wire) + 1 /\ wire'[Len(wire')].inner = "ApplicationData" =>
       wb.current_header = "ApplicationData"

(* What write_record and close_record leave in the buffer. *)
LEMMA HeaderLeft ==
  /\ \A w \in WriteBufferType : close_record(w).wb.current_header \in {w.current_header, None}
  /\ \A h \in ClientRecordHeader, n \in Nat : write_record(EmptyBuffer, h, n).wb.current_header \in {h, None}
<1>1. ASSUME NEW w \in WriteBufferType PROVE close_record(w).wb.current_header \in {w.current_header, None}
  BY DEF close_record, Result, EmptyBuffer, WriteBufferType
<1>2. ASSUME NEW h \in ClientRecordHeader, NEW n \in Nat
      PROVE  write_record(EmptyBuffer, h, n).wb.current_header \in {h, None}
  <2> DEFINE s == start_record(EmptyBuffer, h)
             f == [s.wb EXCEPT !.pos = s.wb.pos + n]
  <2>1. /\ EmptyBuffer \in WriteBufferType /\ EmptyBuffer.current_header = None
        /\ s.wb \in WriteBufferType /\ s.res = "Ok" /\ s.wb.current_header = h
    BY StartRecordResult DEF WriteBufferType, EmptyBuffer
  <2>2. f \in WriteBufferType /\ f.current_header = h
    BY <2>1 DEF WriteBufferType
  <2>3. write_record(EmptyBuffer, h, n).wb \in {EmptyBuffer, s.wb, close_record(f).wb}
    BY <2>1 DEF write_record, Result
  <2> HIDE DEF s, f
  <2> QED BY <1>1, <2>1, <2>2, <2>3
<1> QED BY <1>1, <1>2

(* A record is sealed, or the call fails. *)
LEMMA DrainsRecord ==
  ASSUME IInv, appended' = appended, opened' = opened, state' = state,
         \/ UNCHANGED wire /\ (wb'.current_header = "ApplicationData" => wb.current_header = "ApplicationData")
         \/ \E r : /\ wire' = Append(wire, r) /\ wb' = EmptyBuffer
                   /\ r.inner = "ApplicationData" => wb.current_header = "ApplicationData"
  PROVE  Drains
<1>1. wire \in Seq(WireRecord) /\ Len(wire) \in Nat
  BY DEF IInv, TypeOK
<1>2. CASE UNCHANGED wire /\ (wb'.current_header = "ApplicationData" => wb.current_header = "ApplicationData")
  BY <1>1, <1>2 DEF Drains
<1>3. ASSUME NEW r, wire' = Append(wire, r), wb' = EmptyBuffer,
             r.inner = "ApplicationData" => wb.current_header = "ApplicationData"
      PROVE  Drains
  <2>1. /\ Len(wire') = Len(wire) + 1 /\ wire'[Len(wire')] = r
        /\ \A i \in 1 .. Len(wire) : wire'[i] = wire[i]
    BY <1>1, <1>3
  <2>2. wb'.current_header # "ApplicationData"
    BY <1>3 DEF EmptyBuffer, None
  <2> QED BY <1>1, <1>3, <2>1, <2>2 DEF Drains
<1> QED BY <1>2, <1>3

(* Flushing the buffer, and the close_notify. *)
LEMMA DrainsCall ==
  ASSUME IInv, state = "ApplicationData", UNCHANGED <<appended, opened>>,
         \/ \E op \in {"flush", "close_flush"} : CloseAndSend(wb, first, WriteCall(op, 0, 0))
         \/ CloseNotify /\ wb = EmptyBuffer
  PROVE  Drains
<1>1. wb \in WriteBufferType
  BY DEF IInv, TypeOK
<1>2. \A op : WriteCall(op, 0, 0).op = op
  BY DEF WriteCall, NoCall
<1>3. CASE CloseNotify /\ wb = EmptyBuffer
  <2> DEFINE h == IF opened THEN "AlertEnc" ELSE "AlertPlain"
             r == write_record(wb, h, 2)
  <2>1. h \in ClientRecordHeader /\ trailer_content_type(h) = "Alert" /\ h # "ApplicationData"
    BY DEF ClientRecordHeader, trailer_content_type
  <2>2. /\ r.res = "Ok" => r.wb = EmptyBuffer
        /\ r.wb.current_header \in {h, None}
    BY <1>3, <2>1, WriteRecordResult, HeaderLeft
  <2>3. SendRecord(h, 2, WriteCall("close", 0, 0))
    BY <1>3 DEF CloseNotify
  <2>4. CASE r.res = "Ok"
    <3>1. wire' = Append(wire, Sealed(h, r, appended, appended)) /\ wb' = EmptyBuffer /\ state' = state
      BY <2>2, <2>3, <2>4 DEF SendRecord, Transmit
    <3>2. Sealed(h, r, appended, appended).inner = "Alert"
      BY <2>1 DEF Sealed
    <3> HIDE DEF r, h
    <3> QED BY <3>1, <3>2, DrainsRecord
  <2>5. CASE r.res # "Ok"
    <3>1. wire' = wire /\ wb' = r.wb /\ state' = state
      BY <1>2, <2>3, <2>5 DEF SendRecord, Return
    <3>2. wb'.current_header # "ApplicationData"
      BY <2>1, <2>2, <3>1 DEF None
    <3> HIDE DEF r, h
    <3> QED BY <3>1, <3>2, DrainsRecord
  <2> QED BY <2>4, <2>5
<1>4. ASSUME NEW op \in {"flush", "close_flush"}, CloseAndSend(wb, first, WriteCall(op, 0, 0))
      PROVE  Drains
  <2> DEFINE r == close_record(wb)
  <2>1. /\ r.res = "Ok" => r.wb = EmptyBuffer /\ wb.current_header # None
        /\ r.wb.current_header \in {wb.current_header, None}
    BY <1>1, CloseRecordResult, HeaderLeft
  <2>2. CASE r.res = "Ok"
    <3>1. PICK hi : /\ wire' = Append(wire, Sealed(wb.current_header, r, first, hi))
                    /\ wb' = EmptyBuffer /\ state' = state
      BY <1>4, <2>1, <2>2 DEF CloseAndSend, Transmit
    <3>2. Sealed(wb.current_header, r, first, hi).inner = "ApplicationData" =>
            wb.current_header = "ApplicationData"
      BY <1>1, <2>1, <2>2 DEF Sealed, trailer_content_type, WriteBufferType, ClientRecordHeader
    <3> HIDE DEF r
    <3> QED BY <3>1, <3>2, DrainsRecord
  <2>3. CASE r.res # "Ok"
    <3>1. wire' = wire /\ wb' = r.wb /\ state' = state
      BY <1>2, <1>4, <2>3 DEF CloseAndSend, Return
    <3>2. wb'.current_header = "ApplicationData" => wb.current_header = "ApplicationData"
      BY <2>1, <3>1 DEF None
    <3> HIDE DEF r
    <3> QED BY <3>1, <3>2, DrainsRecord
  <2> QED BY <2>2, <2>3
<1> QED BY <1>3, <1>4

(* Every step of an open()ed connection that is closed by the peer. *)
LEMMA OnlyDrains ==
  ASSUME IInv, [Next]_vars, state = "ApplicationData", ~opened
  PROVE  Drains
<1>1. wb \in WriteBufferType /\ wire \in Seq(WireRecord) /\ Len(wire) \in Nat
  BY DEF IInv, TypeOK
<1>2. ~Handshake /\ ~Write /\ ~PeerClosed
  BY DEF Handshake, ClientHello, ServerHello, ServerVerify, AbortHandshake, ClientCert, ClientCertVerify,
         ClientFinished, Write, PeerClosed
<1>3. is_empty(wb) => wb = EmptyBuffer
  BY <1>1 DEF IInv, BufferShape, WriteBufferType, EmptyBuffer, is_empty, HEADER_SIZE
<1>4. ASSUME NEW c, NEW r, Return(c, r), UNCHANGED <<wb, appended, opened>>, c.op # "open"
      PROVE  Drains
  BY <1>4, DrainsRecord DEF Return
<1>5. \A op : WriteCall(op, 0, 0).op = op
  BY DEF WriteCall, NoCall
<1>6. CASE Flush
  <2>1. CASE is_empty(wb)
    BY <1>4, <1>5, <1>6, <2>1 DEF Flush
  <2>2. CASE ~is_empty(wb)
    BY <1>6, <2>2, DrainsCall DEF Flush
  <2> QED BY <2>1, <2>2
<1>7. CASE Close
  BY <1>3, <1>7, DrainsCall DEF Close
<1>8. CASE WriteAllDone
  <2>1. Len(wire) > 0
    BY <1>8 DEF WriteAllDone, IInv, CallShape
  <2> DEFINE last == [wire[Len(wire)] EXCEPT !.done = TRUE]
  <2>2. wire[Len(wire)] \in WireRecord
    BY <1>1, <2>1
  <2>3. last \in WireRecord /\ last.inner = wire[Len(wire)].inner
    BY <2>2 DEF WireRecord
  <2>4. wire' = [wire EXCEPT ![Len(wire)] = last]
    BY <1>8 DEF WriteAllDone
  <2> HIDE DEF last
  <2>5. Len(wire') = Len(wire) /\ \A i \in 1 .. Len(wire) : wire'[i].inner = wire[i].inner
    BY <1>1, <2>3, <2>4
  <2>6. UNCHANGED <<wb, appended, state, opened>>
    BY <1>8 DEF WriteAllDone
  <2>7. Len(wire') # Len(wire) + 1
    BY <1>1, <2>5
  <2> QED BY <2>5, <2>6, <2>7, Zenon DEF Drains
<1>9. CASE WriteAllInterrupted \/ FlushTransportFailed
  <2>1. call.op # "open"
    BY <1>9 DEF WriteAllInterrupted, FlushTransportFailed, IInv, CallShape
  <2> QED BY <1>4, <1>9, <2>1 DEF WriteAllInterrupted, FlushTransportFailed
<1>10. ~HandshakeSent
  BY DEF HandshakeSent, IInv, CallShape
<1>11. CASE CallSent
  <2>1. wb = EmptyBuffer /\ call.op \in {"write", "flush", "close_flush", "close"}
    BY <1>11 DEF CallSent, IInv, CallShape
  <2>2. CASE call.op = "close_flush"
    BY <1>11, <2>1, <2>2, DrainsCall DEF CallSent
  <2>3. CASE call.op # "close_flush"
    BY <1>4, <1>11, <2>1, <2>3 DEF CallSent
  <2> QED BY <2>2, <2>3
<1>12. CASE SetFlushPolicy \/ UNCHANGED vars
  BY <1>12, DrainsRecord DEF SetFlushPolicy, vars
<1> QED
  BY <1>2, <1>6, <1>7, <1>8, <1>9, <1>10, <1>11, <1>12 DEF Next, Application, Transport, Finished
=============================================================================
