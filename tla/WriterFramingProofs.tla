------------------------ MODULE WriterFramingProofs ------------------------
(* More about the sending half: what its record headers say, what flush() has
   done when it returns, and the counter that the peer reads a record with.  All
   rest on the inductive invariant IInv. *)
EXTENDS RecordWriterProofs, FiniteSetTheorems

-----------------------------------------------------------------------------
(* The length field. *)

(* Whatever close_record seals fits the buffer and has a header. *)
LEMMA SealedBounds ==
  ASSUME NEW w \in WriteBufferType, close_record(w).res = "Ok",
         HEADER_SIZE <= w.pos, w.pos <= BufLen
  PROVE  LET n == close_record(w).len
         IN  n \in Nat /\ HEADER_SIZE <= n /\ n <= BufLen /\ n <= w.pos + 1 + TAG_SIZE
  BY BufLenAssumption
  DEF close_record, Seal, SealedLen, Result, WriteBufferType, HEADER_SIZE, TAG_SIZE, is_encrypted

(* So does whatever write_record seals, in any buffer without a header. *)
LEMMA WrittenBounds ==
  ASSUME NEW w \in WriteBufferType, NEW h \in ClientRecordHeader, NEW n \in Nat,
         write_record(w, h, n).res = "Ok"
  PROVE  LET m == write_record(w, h, n).len IN m \in Nat /\ HEADER_SIZE <= m /\ m <= BufLen
<1> DEFINE s == start_record(w, h)
           f == [s.wb EXCEPT !.pos = s.wb.pos + n]
<1>1. w.current_header = None /\ s.res = "Ok" /\ ~(s.wb.pos + n > BufLen)
      /\ write_record(w, h, n) = close_record(f)
  BY DEF write_record, Result
<1>2. s.wb \in WriteBufferType /\ s.wb.pos = w.pos + HEADER_SIZE
  BY <1>1, StartRecordResult, Zenon DEF start_record, Result, WriteBufferType
<1>3. f \in WriteBufferType /\ f.pos = s.wb.pos + n /\ w.pos \in Nat
  BY <1>2 DEF WriteBufferType
<1>4. HEADER_SIZE <= f.pos /\ f.pos <= BufLen
  BY <1>1, <1>2, <1>3, BufLenAssumption DEF HEADER_SIZE
<1> HIDE DEF f
<1> QED BY <1>1, <1>3, <1>4, SealedBounds

(* A record that is as long as it says, and no longer than its buffer, is added. *)
LEMMA BoundsAppend ==
  ASSUME TypeOK, RecordBounds, NEW r \in WireRecord, wire' = Append(wire, r),
         r.declared = RecordLength(r.len), HEADER_SIZE <= r.len,
         r.len <= IF r.inner = "ApplicationData" THEN max_block_size + 1 + TAG_SIZE ELSE BufLen
  PROVE  RecordBounds'
<1>1. wire \in Seq(WireRecord) /\ Len(wire) \in Nat
  BY DEF TypeOK
<1>2. /\ Len(wire') = Len(wire) + 1 /\ wire'[Len(wire')] = r
      /\ \A i \in 1 .. Len(wire) : wire'[i] = wire[i]
  BY <1>1
<1>3. \A i \in 1 .. Len(wire') : i \in 1 .. Len(wire) \/ i = Len(wire')
  BY <1>1, <1>2
<1> QED BY <1>2, <1>3 DEF RecordBounds, IsApp, max_block_size

(* The records that write_record seals. *)
LEMMA SendBounds ==
  ASSUME IInv, RecordBounds, NEW h \in ClientRecordHeader \ {"ApplicationData"}, NEW n \in Nat, NEW c,
         SendRecord(h, n, c)
  PROVE  RecordBounds'
<1> DEFINE r == write_record(wb, h, n)
           s == Sealed(h, r, appended, appended)
<1>1. TypeOK /\ wb \in WriteBufferType /\ appended \in Nat
  BY DEF IInv, TypeOK
<1>2. CASE r.res = "Ok"
  <2>1. r.len \in Nat /\ HEADER_SIZE <= r.len /\ r.len <= BufLen
    BY <1>1, <1>2, WrittenBounds
  <2>2. wire' = Append(wire, s)
    BY <1>2 DEF SendRecord, Transmit
  <2> HIDE DEF r
  <2>3. s \in WireRecord
    BY <1>1, <2>1, SealedRecord
  <2>4. s.declared = RecordLength(s.len) /\ s.len = r.len /\ s.inner # "ApplicationData"
    BY DEF Sealed, trailer_content_type, ClientRecordHeader
  <2> HIDE DEF s
  <2> QED BY <1>1, <2>1, <2>2, <2>3, <2>4, BoundsAppend
<1>3. CASE r.res # "Ok"
  BY <1>3 DEF SendRecord, Return, RecordBounds, IsApp, max_block_size
<1> QED BY <1>2, <1>3

(* The records that close_record seals. *)
LEMMA CloseBounds ==
  ASSUME IInv, RecordBounds, NEW w \in WriteBufferType, NEW f \in Nat, NEW c, CloseAndSend(w, f, c),
         w.current_header # None => HEADER_SIZE <= w.pos /\ w.pos <= BufLen,
         w.current_header = "ApplicationData" => w.pos <= max_block_size
  PROVE  RecordBounds'
<1> DEFINE r == close_record(w)
           p == IF w.current_header = "ApplicationData" THEN w.pos - HEADER_SIZE ELSE 0
           s == Sealed(w.current_header, r, f, f + p)
<1>1. TypeOK /\ w.pos \in Nat
  BY DEF IInv, WriteBufferType
<1>2. CASE r.res = "Ok"
  <2>1. w.current_header \in ClientRecordHeader
    BY <1>2, CloseRecordResult DEF WriteBufferType
  <2>2. w.current_header # None
    BY <2>1 DEF ClientRecordHeader, None
  <2>3. r.len \in Nat /\ HEADER_SIZE <= r.len /\ r.len <= BufLen /\ r.len <= w.pos + 1 + TAG_SIZE
    BY <1>2, <2>2, SealedBounds
  <2>4. wire' = Append(wire, s)
    BY <1>2 DEF CloseAndSend, Transmit
  <2>5. f + p \in Nat
    BY <1>1, <2>2 DEF HEADER_SIZE
  <2> HIDE DEF r, p
  <2>6. s \in WireRecord
    BY <1>1, <2>1, <2>3, <2>5, SealedRecord
  <2>7. /\ s.declared = RecordLength(s.len) /\ s.len = r.len
        /\ s.inner = "ApplicationData" => w.current_header = "ApplicationData"
        /\ w.current_header = "ApplicationData" => s.inner = "ApplicationData"
    BY <2>1 DEF Sealed, trailer_content_type, ClientRecordHeader
  <2> HIDE DEF s
  <2>8. s.inner = "ApplicationData" => s.len <= max_block_size + 1 + TAG_SIZE
    BY <1>1, <2>3, <2>7, BufLenAssumption DEF TAG_SIZE, max_block_size, TLS_RECORD_OVERHEAD
  <2> QED BY <1>1, <2>3, <2>4, <2>6, <2>7, <2>8, BoundsAppend
<1>3. CASE r.res # "Ok"
  BY <1>3 DEF CloseAndSend, Return, RecordBounds, IsApp, max_block_size
<1> QED BY <1>2, <1>3

(* write() fills an open application record no further than max_block_size. *)
LEMMA AppendBounds ==
  ASSUME IInv, RecordBounds, NEW w \in WriteBufferType, NEW f \in Nat, NEW n \in Nat, AppendTo(w, f, n),
         w.current_header = "ApplicationData", HEADER_SIZE <= w.pos, w.pos < max_block_size
  PROVE  RecordBounds'
<1> DEFINE b == IF n < space(w) THEN n ELSE space(w)
           v == [w EXCEPT !.pos = w.pos + b]
           c == WriteCall("write", n, b)
<1>1. /\ w.pos \in Nat /\ BufLen \in Nat /\ max_block_size \in Int
      /\ max_block_size = BufLen - 128
  BY BufLenAssumption DEF WriteBufferType, max_block_size, TLS_RECORD_OVERHEAD
<1>2. b \in Nat /\ w.pos + b <= max_block_size
  BY <1>1 DEF space
<1>3. append(w, n).res = "Ok" /\ append(w, n).len = b /\ append(w, n).wb = v
  BY <1>1 DEF append, Result, space
<1>4. v \in WriteBufferType /\ v.current_header = "ApplicationData" /\ v.pos = w.pos + b
  BY <1>1, <1>2 DEF WriteBufferType
<1>5. /\ is_full(v) => CloseAndSend(v, f, c)
      /\ ~is_full(v) => wire' = wire
  BY <1>3 DEF AppendTo, Return
<1> HIDE DEF b, v, c
<1>6. CASE is_full(v)
  <2>1. HEADER_SIZE <= v.pos /\ v.pos <= BufLen /\ v.pos <= max_block_size
    BY <1>1, <1>2, <1>4 DEF HEADER_SIZE
  <2> QED BY <1>4, <1>5, <1>6, <2>1, CloseBounds
<1>7. CASE ~is_full(v)
  BY <1>5, <1>7 DEF RecordBounds, IsApp, max_block_size
<1> QED BY <1>6, <1>7

(* Any write(): it finds an application record open, or the buffer empty. *)
LEMMA WriteBounds ==
  ASSUME IInv, RecordBounds, Write
  PROVE  RecordBounds'
<1>1. /\ pc = "idle" /\ state = "ApplicationData" /\ HelloFits
      /\ wb \in WriteBufferType /\ appended \in Nat /\ first \in Nat
  BY DEF Write, IInv, TypeOK, StateShape
<1>2. PICK n \in WriteSizes :
        IF contains(wb, "ApplicationData") THEN AppendTo(wb, first, n)
        ELSE IF is_empty(wb) THEN StartAndAppend(n)
        ELSE CloseAndSend(wb, first, WriteCall("write_flush", n, 0)) /\ UNCHANGED <<first, appended>>
  BY DEF Write
<1>3. n \in Nat
  BY WriterAssumption
<1>4. CASE wb.current_header = "ApplicationData"
  <2>1. AppendTo(wb, first, n)
    BY <1>2, <1>4 DEF contains
  <2>2. HEADER_SIZE <= wb.pos /\ wb.pos < max_block_size
    BY <1>4 DEF IInv, BufferShape
  <2> QED BY <1>1, <1>3, <1>4, <2>1, <2>2, AppendBounds
<1>5. CASE wb.current_header # "ApplicationData"
  <2> DEFINE w == start_record(wb, "ApplicationData").wb
  <2>1. wb = EmptyBuffer
    BY <1>1, <1>5, EmptyUnlessApp
  <2>2. /\ w \in WriteBufferType /\ start_record(wb, "ApplicationData").res = "Ok"
        /\ w.pos = HEADER_SIZE /\ w.current_header = "ApplicationData"
    BY <1>1, <2>1, StartRecordResult DEF ClientRecordHeader
  <2>3. AppendTo(w, appended, n)
    BY <1>2, <1>5, <2>1, <2>2 DEF contains, is_empty, EmptyBuffer, StartAndAppend
  <2> HIDE DEF w
  <2>4. HEADER_SIZE <= w.pos /\ w.pos < max_block_size
    BY <1>1, <2>2, BufLenAssumption, WriterAssumption
    DEF max_block_size, HelloFits, HEADER_SIZE, TLS_RECORD_OVERHEAD, MIN_CLIENT_HELLO
  <2> QED BY <1>1, <1>3, <2>2, <2>3, <2>4, AppendBounds
<1> QED BY <1>4, <1>5

(* flush(), close() and the rest of a call seal what the buffer holds, or a
   close_notify. *)
LEMMA FlushOrCloseBounds ==
  ASSUME IInv, RecordBounds, Flush \/ Close \/ CallSent
  PROVE  RecordBounds'
<1>1. /\ wb \in WriteBufferType /\ first \in Nat /\ wb.pos \in Nat /\ max_block_size \in Int
      /\ wb.current_header # None => HEADER_SIZE <= wb.pos /\ wb.pos <= BufLen
      /\ wb.current_header = "ApplicationData" => wb.pos <= max_block_size
  BY BufLenAssumption DEF IInv, TypeOK, BufferShape, WriteBufferType, max_block_size, TLS_RECORD_OVERHEAD, HEADER_SIZE
<1>2. \/ wire' = wire
      \/ \E c : CloseAndSend(wb, first, c)
      \/ CloseNotify
  <2>1. CallSent => call.op \in {"write", "flush", "close_flush", "close"}
    BY DEF IInv, CallShape, CallSent
  <2> QED BY <2>1 DEF Flush, Close, CallSent, Return
<1>3. CASE wire' = wire
  BY <1>3 DEF RecordBounds, IsApp, max_block_size
<1>4. CASE \E c : CloseAndSend(wb, first, c)
  BY <1>1, <1>4, CloseBounds
<1>5. CASE CloseNotify
  BY <1>5, SendBounds DEF CloseNotify, ClientRecordHeader
<1> QED BY <1>2, <1>3, <1>4, <1>5

(* The messages of the handshake. *)
LEMMA HandshakeBounds ==
  ASSUME IInv, RecordBounds, Handshake
  PROVE  RecordBounds'
<1>1. HelloLen \in Nat /\ FinishedLen \in Nat /\ HandshakeLens \subseteq Nat
  BY WriterAssumption
<1>2. \/ wire' = wire
      \/ \E h \in ClientRecordHeader \ {"ApplicationData"}, n \in Nat : \E c : SendRecord(h, n, c)
  BY <1>1
  DEF Handshake, ClientHello, ServerHello, ServerVerify, AbortHandshake, ClientCert, ClientCertVerify,
      ClientFinished, ClientRecordHeader
<1> QED BY <1>2, SendBounds DEF RecordBounds, IsApp, max_block_size

(* Every step keeps the records within their bounds. *)
LEMMA NextBounds == IInv /\ RecordBounds /\ [Next]_vars => RecordBounds'
<1> SUFFICES ASSUME IInv, RecordBounds, [Next]_vars PROVE RecordBounds'
  OBVIOUS
<1>1. CASE Handshake
  BY <1>1, HandshakeBounds
<1>2. CASE Write
  BY <1>2, WriteBounds
<1>3. CASE Flush \/ Close \/ CallSent
  BY <1>3, FlushOrCloseBounds
<1>4. CASE WriteAllDone
  <2>1. wire \in Seq(WireRecord) /\ Len(wire) \in Nat
    BY DEF IInv, TypeOK
  <2>2. \A i \in 1 .. Len(wire) : wire[i] \in WireRecord
    BY <2>1
  <2> DEFINE last == [wire[Len(wire)] EXCEPT !.done = TRUE]
  <2>3. Len(wire) > 0 /\ wire[Len(wire)] \in WireRecord
    <3>1. Len(wire) > 0
      BY <1>4 DEF IInv, CallShape, WriteAllDone
    <3> QED BY <2>1, <2>2, <3>1
  <2>4. /\ last.declared = wire[Len(wire)].declared /\ last.len = wire[Len(wire)].len
        /\ last.inner = wire[Len(wire)].inner /\ last \in WireRecord
    BY <2>3, Zenon DEF WireRecord
  <2>5. wire' = [wire EXCEPT ![Len(wire)] = last]
    BY <1>4 DEF WriteAllDone
  <2> HIDE DEF last
  <2>6. Len(wire') = Len(wire) /\ \A i \in 1 .. Len(wire) : wire'[i] = IF i = Len(wire) THEN last ELSE wire[i]
    BY <2>1, <2>4, <2>5
  <2>7. \A i \in 1 .. Len(wire) : /\ wire'[i].declared = wire[i].declared
                                  /\ wire'[i].len = wire[i].len /\ wire'[i].inner = wire[i].inner
    BY <2>4, <2>6
  <2> QED BY <2>6, <2>7 DEF RecordBounds, IsApp, max_block_size
<1>5. CASE WriteAllInterrupted \/ FlushTransportFailed \/ HandshakeSent \/ SetFlushPolicy
           \/ PeerClosed \/ UNCHANGED vars
  <2>1. wire' = wire
    BY <1>5
    DEF WriteAllInterrupted, FlushTransportFailed, HandshakeSent, SetFlushPolicy, PeerClosed, Return, vars
  <2> QED BY <2>1 DEF RecordBounds, IsApp, max_block_size
<1> QED BY <1>1, <1>2, <1>3, <1>4, <1>5 DEF Next, Application, Transport, Finished

(* In buffers up to 65540 bytes every record's length field says how long it is,
   and those of application data do so up to the 65651 that the cast allows. *)
THEOREM LengthFieldSafety == Spec => []LengthFieldExact
<1>1. Init => RecordBounds
  BY DEF Init, RecordBounds
<1>2. Spec => []RecordBounds
  BY <1>1, NextBounds, Invariance, PTL DEF Spec
<1>3. IInv /\ RecordBounds => LengthFieldExact
  <2> SUFFICES ASSUME IInv, RecordBounds, NEW i \in 1 .. Len(wire), LengthFits(IsApp(i))
               PROVE  wire[i].declared + HEADER_SIZE = wire[i].len
    BY DEF LengthFieldExact
  <2>1. wire \in Seq(WireRecord) /\ wire[i] \in WireRecord
    BY DEF IInv, TypeOK
  <2>2. wire[i].len \in Nat
    BY <2>1 DEF WireRecord
  <2>3. 0 <= wire[i].len - HEADER_SIZE /\ wire[i].len - HEADER_SIZE < 65536
    <3>1. CASE IsApp(i)
      BY <2>2, <3>1, BufLenAssumption
      DEF RecordBounds, LengthFits, HEADER_SIZE, U16, max_block_size, TLS_RECORD_OVERHEAD, TAG_SIZE
    <3>2. CASE ~IsApp(i)
      BY <2>2, <3>2, BufLenAssumption DEF RecordBounds, LengthFits, HEADER_SIZE, U16
    <3> QED BY <3>1, <3>2
  <2>4. \A n \in Int : 0 <= n /\ n < 65536 => n % 65536 = n
    OBVIOUS
  <2>5. RecordLength(wire[i].len) = wire[i].len - HEADER_SIZE
    BY <2>2, <2>3, <2>4, SMTT(30) DEF RecordLength, U16, HEADER_SIZE
  <2> QED BY <2>2, <2>5 DEF RecordBounds, HEADER_SIZE
<1> QED BY <1>2, <1>3, Invariance, PTL
-----------------------------------------------------------------------------
(* flush(). *)

(* A call that sends a record returns nothing yet, or its own error. *)
LEMMA Answers ==
  /\ \A h, n, c : SendRecord(h, n, c) => res' = res \/ res'.call = c
  /\ \A w, f, c : CloseAndSend(w, f, c) => res' = res \/ (res'.call = c /\ res'.res # "Ok")
  BY DEF SendRecord, CloseAndSend, Transmit, Return

(* What write() answers is an answer to write(). *)
LEMMA WriteAnswers ==
  ASSUME Write
  PROVE  res' = res \/ res'.call.op # "flush"
<1>1. PICK n \in WriteSizes :
        IF contains(wb, "ApplicationData") THEN AppendTo(wb, first, n)
        ELSE IF is_empty(wb) THEN StartAndAppend(n)
        ELSE CloseAndSend(wb, first, WriteCall("write_flush", n, 0)) /\ UNCHANGED <<first, appended>>
  BY DEF Write
<1>2. \A m, g : WriteCall("write", m, g).op = "write" /\ WriteCall("write_flush", m, g).op = "write_flush"
  BY DEF WriteCall, NoCall
<1>3. ASSUME NEW w, NEW f, AppendTo(w, f, n) PROVE res' = res \/ res'.call.op # "flush"
  <2> DEFINE c == WriteCall("write", n, append(w, n).len)
  <2>1. c.op = "write"
    BY <1>2
  <2>2. CloseAndSend(append(w, n).wb, f, c) \/ Return(c, append(w, n).res)
    BY <1>3 DEF AppendTo
  <2> HIDE DEF c
  <2> QED BY <2>1, <2>2, Answers DEF Return
<1>4. ASSUME StartAndAppend(n) PROVE res' = res \/ res'.call.op # "flush"
  <2>1. CASE start_record(wb, "ApplicationData").res = "Ok"
    BY <1>3, <1>4, <2>1 DEF StartAndAppend
  <2>2. CASE start_record(wb, "ApplicationData").res # "Ok"
    <3>1. Return(WriteCall("write", n, 0), start_record(wb, "ApplicationData").res)
      BY <1>4, <2>2 DEF StartAndAppend
    <3> QED BY <1>2, <3>1 DEF Return
  <2> QED BY <2>1, <2>2
<1>5. ASSUME CloseAndSend(wb, first, WriteCall("write_flush", n, 0))
      PROVE  res' = res \/ res'.call.op # "flush"
  BY <1>2, <1>5, Answers
<1> QED BY <1>1, <1>3, <1>4, <1>5

(* flush() returns Ok only when no application record is left in the buffer. *)
LEMMA FlushEmpties ==
  ASSUME IInv, [Next]_vars, res' # res, res'.call.op = "flush", res'.res = "Ok"
  PROVE  wb'.current_header # "ApplicationData"
<1>1. CASE Handshake
  <2>1. \A next : HandshakeCall(next).op = "open"
    BY DEF HandshakeCall, NoCall
  <2>2. \/ res' = res
        \/ \E h, n, next : SendRecord(h, n, HandshakeCall(next))
    BY <1>1
    DEF Handshake, ClientHello, ServerHello, ServerVerify, AbortHandshake, ClientCert, ClientCertVerify,
        ClientFinished
  <2> QED BY <2>1, <2>2, Answers
<1>2. CASE Write
  BY <1>2, WriteAnswers
<1>3. ASSUME CloseNotify PROVE FALSE
  <2>1. WriteCall("close", 0, 0).op = "close"
    BY DEF WriteCall, NoCall
  <2> QED BY <1>3, <2>1, Answers DEF CloseNotify
<1>4. CASE Flush
  <2>1. wb.pos = 0 /\ wb' = wb
    BY <1>4, Answers DEF Flush, is_empty
  <2> QED BY <2>1 DEF IInv, BufferShape, HEADER_SIZE
<1>5. CASE Close
  BY <1>3, <1>5, Answers DEF Close
<1>6. CASE CallSent
  <2>1. wb = EmptyBuffer /\ call.op \in {"write", "flush", "close_flush", "close"}
    BY <1>6 DEF CallSent, IInv, CallShape
  <2>2. wb' = wb
    BY <1>3, <1>6, <2>1 DEF CallSent
  <2> QED BY <2>1, <2>2 DEF EmptyBuffer, None
<1>7. CASE WriteAllDone \/ WriteAllInterrupted \/ FlushTransportFailed \/ HandshakeSent \/ SetFlushPolicy
           \/ PeerClosed \/ UNCHANGED vars
  BY <1>7 DEF WriteAllDone, WriteAllInterrupted, FlushTransportFailed, HandshakeSent, SetFlushPolicy,
              PeerClosed, Return, vars
<1> QED BY <1>1, <1>2, <1>4, <1>5, <1>6, <1>7 DEF Next, Application, Transport, Finished

(* When flush() returns Ok, every byte that write() took has been handed to the
   transport in a record. *)
THEOREM FlushSafety == Spec => FlushDelivers
<1> DEFINE Delivered == \A b \in 1 .. appended' : \E i \in 1 .. Len(wire') :
                          wire'[i].inner = "ApplicationData" /\ wire'[i].lo < b /\ b <= wire'[i].hi
           Returned == res' # res /\ res'.call.op = "flush" /\ res'.res = "Ok"
                       /\ (\A i \in 1 .. Len(wire') : wire'[i].done)
<1>1. IInv /\ [Next]_vars /\ Returned => Delivered
  <2> SUFFICES ASSUME IInv, [Next]_vars, Returned PROVE Delivered
    OBVIOUS
  <2>1. StreamIntact'
    BY NextInv DEF IInv
  <2>2. wb'.current_header # "ApplicationData"
    BY FlushEmpties
  <2> QED BY <2>1, <2>2 DEF StreamIntact, Buffered, IsApp
<1>2. IInv /\ [Next]_vars => [Returned => Delivered]_vars
  BY <1>1
<1> HIDE DEF Delivered, Returned
<1>3. Spec => [][Returned => Delivered]_vars
  BY <1>2, Invariance, PTL DEF Spec
<1> QED BY <1>3, PTL DEF FlushDelivers, Delivered, Returned
-----------------------------------------------------------------------------
(* The record counter, as the peer sees it. *)

(* Sets of positions are finite, and one more position is one more. *)
LEMMA SealedFinite ==
  ASSUME NEW w, NEW k, NEW n \in Nat
  PROVE  IsFiniteSet(SealedUnder(w, k, n)) /\ Cardinality(SealedUnder(w, k, n)) \in Nat
<1>1. IsFiniteSet(1 .. n)
  BY FS_Interval
<1>2. SealedUnder(w, k, n) \subseteq 1 .. n
  BY DEF SealedUnder
<1>3. IsFiniteSet(SealedUnder(w, k, n))
  BY <1>1, <1>2, FS_Subset
<1> QED BY <1>3, FS_CardinalityType

(* PeerInSync in terms of SealedUnder. *)
LEMMA PeerInSyncAt ==
  PeerInSync <=>
    \A j \in 1 .. Len(wire) :
      wire[j].enc /\ (\A i \in SealedUnder(wire, wire[j].key, j - 1) : wire[i].done)
        => wire[j].counter = Cardinality(SealedUnder(wire, wire[j].key, j - 1))
  BY DEF PeerInSync, SealedUnder

(* Records up to the n-th are the same in both states. *)
SameUpTo(n) ==
  \A i \in 1 .. n : /\ wire'[i].enc = wire[i].enc /\ wire'[i].key = wire[i].key
                    /\ wire'[i].counter = wire[i].counter

LEMMA SameSealed ==
  ASSUME NEW k, NEW n, SameUpTo(n)
  PROVE  SealedUnder(wire', k, n) = SealedUnder(wire, k, n)
  BY DEF SealedUnder, SameUpTo

(* A step that seals nothing. *)
LEMMA QuietStep ==
  ASSUME PeerInv, wire' = wire, key' = key, counter' = counter,
         \/ pc' # "sending"
         \/ pc' = pc /\ call' = call /\ state' = state,
         pc' = "sent" => pc = "sent" /\ call' = call /\ state' = state,
         LastWords => LastWords'
  PROVE  PeerInv'
<1>1. InFlight' /\ PeerInSync'
  BY DEF PeerInv, InFlight, PeerInSync
<1>2. Counted => Counted'
  BY DEF Counted, SealedUnder
<1> QED BY <1>1, <1>2 DEF PeerInv

(* A step that seals a record: encrypted while the counter counts, or the last
   words under this key. *)
LEMMA SealStep ==
  ASSUME TypeOK, PeerInv, NEW r \in WireRecord, wire' = Append(wire, r), key' = key, counter' = counter,
         r.key = key, r.counter = counter, r.done = FALSE,
         pc' = "sending", call'.op = "open" => state' # "Failed",
         r.enc => ~LastWords, ~r.enc => LastWords'
  PROVE  PeerInv'
<1>1. wire \in Seq(WireRecord) /\ Len(wire) \in Nat
  BY DEF TypeOK
<1>2. /\ Len(wire') = Len(wire) + 1 /\ wire'[Len(wire')] = r
      /\ \A i \in 1 .. Len(wire) : wire'[i] = wire[i]
  BY <1>1
<1>3. r.enc \in BOOLEAN
  BY DEF WireRecord
<1>4. InFlight'
  BY <1>2 DEF InFlight
<1>5. r.enc => Counted'
  <2> SUFFICES ASSUME r.enc PROVE Counted'
    OBVIOUS
  <2>1. Len(wire') \in SealedUnder(wire', key, Len(wire')) /\ ~wire'[Len(wire')].done
    BY <1>1, <1>2 DEF SealedUnder
  <2> QED BY <1>2, <2>1 DEF Counted
<1>6. PeerInSync'
  <2> SUFFICES ASSUME NEW j \in 1 .. Len(wire'), wire'[j].enc,
                      \A i \in SealedUnder(wire', wire'[j].key, j - 1) : wire'[i].done
               PROVE  wire'[j].counter = Cardinality(SealedUnder(wire', wire'[j].key, j - 1))
    BY SMTT(30) DEF PeerInSync, SealedUnder
  <2>1. SameUpTo(j - 1) /\ \A i \in 1 .. j - 1 : wire'[i] = wire[i]
    BY <1>1, <1>2 DEF SameUpTo
  <2>2. SealedUnder(wire', wire'[j].key, j - 1) = SealedUnder(wire, wire'[j].key, j - 1)
    BY <2>1, SameSealed
  <2>3. \A i \in SealedUnder(wire, wire'[j].key, j - 1) : wire[i].done
    BY <2>1, <2>2 DEF SealedUnder
  <2>4. CASE j \in 1 .. Len(wire)
    <3>1. wire'[j] = wire[j]
      BY <1>2, <2>4
    <3> QED BY <2>2, <2>3, <2>4, <3>1, PeerInSyncAt DEF PeerInv
  <2>5. CASE j = Len(wire')
    <3>1. wire'[j] = r /\ j - 1 = Len(wire)
      BY <1>1, <1>2, <2>5
    <3>2. Counted
      BY <3>1 DEF PeerInv
    <3> QED BY <2>2, <2>3, <3>1, <3>2 DEF Counted
  <2> QED BY <1>1, <1>2, <2>4, <2>5
<1> QED BY <1>3, <1>4, <1>5, <1>6 DEF PeerInv

(* New keys: no record was sealed under them yet. *)
LEMMA NewKeys ==
  ASSUME IInv, PeerInv, wire' = wire, key' \in 0 .. 2, key' > key, counter' = 0, pc' = "idle"
  PROVE  PeerInv'
<1>1. SealedUnder(wire, key', Len(wire)) = {}
  <2>1. \A i \in 1 .. Len(wire) : wire[i].key <= key /\ wire[i].key \in 0 .. 2 /\ key \in 0 .. 2
    BY WireFields DEF IInv, TypeOK, CountersBelow
  <2> QED BY <2>1 DEF SealedUnder
<1>2. Counted'
  BY <1>1, FS_EmptySet DEF Counted
<1>3. InFlight' /\ PeerInSync'
  BY DEF PeerInv, InFlight, PeerInSync
<1> QED BY <1>2, <1>3 DEF PeerInv

(* The transport took the record. *)
LEMMA DoneStep ==
  ASSUME IInv, PeerInv, WriteAllDone
  PROVE  PeerInv'
<1> DEFINE n == Len(wire)
           last == [wire[n] EXCEPT !.done = TRUE]
<1>1. wire \in Seq(WireRecord) /\ n \in Nat /\ n > 0 /\ counter \in Nat
  BY WriterAssumption DEF IInv, TypeOK, CallShape, WriteAllDone
<1>2. wire[n] \in WireRecord
  BY <1>1
<1>3. /\ last.enc = wire[n].enc /\ last.key = wire[n].key /\ last.counter = wire[n].counter
      /\ last.done = TRUE /\ last \in WireRecord
  BY <1>2, Zenon DEF WireRecord
<1>4. wire' = [wire EXCEPT ![n] = last] /\ key' = key /\ wb' = wb /\ call' = call /\ state' = state
  BY DEF WriteAllDone
<1> HIDE DEF last, n
<1>5. Len(wire') = n /\ \A i \in 1 .. n : wire'[i] = IF i = n THEN last ELSE wire[i]
  BY <1>1, <1>3, <1>4 DEF n
<1>6. SameUpTo(n)
  BY <1>3, <1>5 DEF SameUpTo
<1>7. PeerInSync'
  <2> SUFFICES ASSUME NEW j \in 1 .. n, wire'[j].enc,
                      \A i \in SealedUnder(wire', wire'[j].key, j - 1) : wire'[i].done
               PROVE  wire'[j].counter = Cardinality(SealedUnder(wire', wire'[j].key, j - 1))
    BY <1>5 DEF PeerInSync, SealedUnder
  <2>1. SameUpTo(j - 1) /\ \A i \in 1 .. j - 1 : wire'[i] = wire[i]
    BY <1>1, <1>5, <1>6 DEF SameUpTo
  <2>2. SealedUnder(wire', wire'[j].key, j - 1) = SealedUnder(wire, wire'[j].key, j - 1)
    BY <2>1, SameSealed
  <2>3. \A i \in SealedUnder(wire, wire'[j].key, j - 1) : wire[i].done
    BY <2>1, <2>2 DEF SealedUnder
  <2>4. wire'[j].enc = wire[j].enc /\ wire'[j].key = wire[j].key /\ wire'[j].counter = wire[j].counter
    BY <1>6, Zenon DEF SameUpTo
  <2> QED BY <2>2, <2>3, <2>4, PeerInSyncAt DEF PeerInv, n
<1>8. InFlight'
  BY <1>4 DEF PeerInv, InFlight, WriteAllDone
<1>9. CASE counter < CounterMax
  <2>1. pc = "sending" /\ pc' = "sent" /\ counter' = counter + 1
    BY <1>9 DEF WriteAllDone
  <2>2. LastWords => LastWords'
    BY <1>4, <2>1 DEF LastWords
  <2>3. ASSUME Counted PROVE Counted'
    <3>1. wire[n].enc /\ wire[n].key = key /\ wire[n].counter = counter
      BY <2>1, <2>3 DEF Counted, PeerInv, InFlight, n
    <3>2. SealedUnder(wire', key, n) = SealedUnder(wire, key, n)
      BY <1>4, <1>6, SameSealed, Zenon
    <3>3. SealedUnder(wire, key, n) = SealedUnder(wire, key, n - 1) \cup {n} /\ n \notin SealedUnder(wire, key, n - 1)
      BY <1>1, <3>1 DEF SealedUnder
    <3>4. /\ IsFiniteSet(SealedUnder(wire, key, n - 1)) /\ n - 1 \in Nat
          /\ Cardinality(SealedUnder(wire, key, n)) = Cardinality(SealedUnder(wire, key, n - 1)) + 1
      <4> DEFINE S == SealedUnder(wire, key, n - 1)
      <4>1. n - 1 \in Nat /\ IsFiniteSet(S)
        BY <1>1, SealedFinite
      <4> HIDE DEF S
      <4>2. Cardinality(S \cup {n}) = IF n \in S THEN Cardinality(S) ELSE Cardinality(S) + 1
        BY <4>1, FS_AddElement
      <4> QED BY <3>3, <4>1, <4>2 DEF S
    <3>5. ASSUME \A i \in SealedUnder(wire, key, n) : wire'[i].done
          PROVE  counter = Cardinality(SealedUnder(wire, key, n - 1))
      <4>1. \A i \in SealedUnder(wire, key, n - 1) : wire[i].done
        BY <1>1, <1>5, <3>5, <3>3 DEF SealedUnder
      <4> QED BY <1>1, <3>1, <4>1, PeerInSyncAt DEF PeerInv, n
    <3> QED BY <1>4, <1>5, <2>1, <3>2, <3>4, <3>5 DEF Counted
  <2> QED BY <1>7, <1>8, <2>2, <2>3 DEF PeerInv
<1>10. CASE ~(counter < CounterMax)
  BY <1>7, <1>8, <1>10 DEF PeerInv, LastWords, WriteAllDone
<1> QED BY <1>9, <1>10

(* A message, or a close_notify: encrypted only while more may follow under this
   key, unencrypted only before there is one or as the last words. *)
LEMMA SendPeer ==
  ASSUME IInv, PeerInv, NEW h \in ClientRecordHeader \ {"ApplicationData"}, NEW n \in Nat, NEW c,
         SendRecord(h, n, c), wb = EmptyBuffer, pc \in {"idle", "sent"}, UNCHANGED <<key, counter>>,
         c.op \in {"open", "close"}, c.op = "open" => state # "Failed",
         is_encrypted(h) => ~LastWords,
         ~is_encrypted(h) => key = 0 \/ c.op = "close" \/ c.next = "Failed"
  PROVE  PeerInv'
<1> DEFINE r == write_record(wb, h, n)
           s == Sealed(h, r, appended, appended)
<1>1. TypeOK /\ appended \in Nat
  BY DEF IInv, TypeOK
<1>2. /\ r.res \in Outcomes \ {"Panic", "Io"} /\ r.wb.current_header \in {h, None}
      /\ r.res = "Ok" => r.wb = EmptyBuffer /\ r.len \in Nat
  BY WriteRecordResult, HeaderLeft, SMTT(30)
<1>3. ~is_encrypted(None)
  BY DEF is_encrypted, None
<1>4. CASE r.res = "Ok"
  <2>1. wire' = Append(wire, s) /\ wb' = EmptyBuffer /\ pc' = "sending" /\ call' = c /\ state' = state
    BY <1>2, <1>4 DEF SendRecord, Transmit
  <2>2. s \in WireRecord
    BY <1>1, <1>2, <1>4, SealedRecord
  <2>3. s.enc = is_encrypted(h) /\ s.key = key /\ s.counter = counter /\ s.done = FALSE
    BY DEF Sealed
  <2>4. ~is_encrypted(h) => LastWords'
    BY <1>3, <2>1 DEF LastWords, EmptyBuffer
  <2> HIDE DEF s, r
  <2> QED BY <1>1, <2>1, <2>2, <2>3, <2>4, SealStep, Zenon
<1>5. CASE r.res # "Ok"
  <2>1. /\ wb' = r.wb /\ wire' = wire /\ pc' \in {"idle", "closed"}
        /\ c.op = "open" => state' = "Failed"
        /\ c.op = "close" => pc' = "closed"
    BY <1>2, <1>5, SMTT(30) DEF SendRecord, Return
  <2>2. LastWords => LastWords'
    BY <1>2, <1>3, <2>1 DEF LastWords
  <2> HIDE DEF r
  <2> QED BY <2>1, <2>2, QuietStep
<1> QED BY <1>4, <1>5

(* What the buffer held. *)
LEMMA ClosePeer ==
  ASSUME IInv, PeerInv, NEW w \in WriteBufferType, NEW f \in Nat, NEW c, CloseAndSend(w, f, c),
         pc = "idle", UNCHANGED <<key, counter>>, c.op \in {"write", "flush", "close_flush"},
         w.current_header = "ApplicationData" => w.pos >= HEADER_SIZE,
         is_encrypted(w.current_header) => ~LastWords,
         w.current_header # None /\ ~is_encrypted(w.current_header) => state = "Failed",
         LastWords => w = wb
  PROVE  PeerInv'
<1> DEFINE r == close_record(w)
           p == IF w.current_header = "ApplicationData" THEN w.pos - HEADER_SIZE ELSE 0
           s == Sealed(w.current_header, r, f, f + p)
<1>1. TypeOK /\ w.pos \in Nat
  BY DEF IInv, WriteBufferType
<1>2. /\ r.res = "Panic" <=> w.current_header = None
      /\ r.wb.current_header \in {w.current_header, None}
      /\ r.res = "Ok" => r.wb = EmptyBuffer /\ r.len \in Nat
  BY CloseRecordResult, HeaderLeft, SMTT(30)
<1>3. ~is_encrypted(None)
  BY DEF is_encrypted, None
<1>4. CASE r.res = "Ok"
  <2>1. wire' = Append(wire, s) /\ wb' = EmptyBuffer /\ pc' = "sending" /\ call' = c /\ state' = state
    BY <1>2, <1>4, SMTT(30) DEF CloseAndSend, Transmit
  <2>2. w.current_header # None /\ w.current_header \in ClientRecordHeader
    BY <1>2, <1>4 DEF WriteBufferType
  <2>3. f + p \in Nat
    BY <1>1 DEF HEADER_SIZE
  <2> HIDE DEF p
  <2>4. s \in WireRecord
    BY <1>1, <1>2, <1>4, <2>2, <2>3, SealedRecord, SMTT(30)
  <2>5. s.enc = is_encrypted(w.current_header) /\ s.key = key /\ s.counter = counter /\ s.done = FALSE
    BY DEF Sealed
  <2>6. ~is_encrypted(w.current_header) => LastWords'
    BY <1>3, <2>1, <2>2 DEF LastWords, EmptyBuffer
  <2> HIDE DEF s, r
  <2> QED BY <1>1, <2>1, <2>4, <2>5, <2>6, SealStep, Zenon
<1>5. CASE r.res # "Ok"
  <2>1. wb' = r.wb /\ wire' = wire /\ state' = state /\ pc' \in {"idle", "closed", "panic"}
    BY <1>5 DEF CloseAndSend, Return
  <2>2. LastWords => LastWords'
    BY <1>2, <1>3, <2>1, SMTT(30) DEF LastWords
  <2> HIDE DEF r
  <2> QED BY <2>1, <2>2, QuietStep
<1> QED BY <1>4, <1>5

(* write(): the connection is open, so its keys are in use. *)
LEMMA AppendPeer ==
  ASSUME IInv, PeerInv, NEW w \in WriteBufferType, NEW f \in Nat, NEW n \in Nat, AppendTo(w, f, n),
         pc = "idle", ~LastWords, UNCHANGED <<key, counter>>,
         w.current_header = "ApplicationData", HEADER_SIZE <= w.pos, w.pos < max_block_size
  PROVE  PeerInv'
<1> DEFINE b == IF n < space(w) THEN n ELSE space(w)
           v == [w EXCEPT !.pos = w.pos + b]
           c == WriteCall("write", n, b)
<1>1. w.pos \in Nat /\ max_block_size \in Int
  BY BufLenAssumption DEF WriteBufferType, max_block_size, TLS_RECORD_OVERHEAD
<1>2. b \in Nat
  BY <1>1 DEF space
<1>3. append(w, n).res = "Ok" /\ append(w, n).len = b /\ append(w, n).wb = v
  BY <1>1 DEF append, Result, space
<1>4. v \in WriteBufferType /\ v.current_header = "ApplicationData" /\ v.pos = w.pos + b
  BY <1>1, <1>2 DEF WriteBufferType
<1>5. c.op = "write"
  BY DEF WriteCall, NoCall
<1>6. /\ is_full(v) => CloseAndSend(v, f, c)
      /\ ~is_full(v) => Return(c, "Ok")
  BY <1>3 DEF AppendTo
<1> HIDE DEF b, v, c
<1>7. CASE is_full(v)
  <2>1. v.pos >= HEADER_SIZE
    BY <1>1, <1>2, <1>4 DEF HEADER_SIZE
  <2> QED BY <1>4, <1>5, <1>6, <1>7, <2>1, ClosePeer DEF is_encrypted, None
<1>8. CASE ~is_full(v)
  <2>1. wire' = wire /\ pc' = "idle"
    BY <1>5, <1>6, <1>8 DEF Return
  <2> QED BY <2>1, QuietStep
<1> QED BY <1>7, <1>8

LEMMA WritePeer ==
  ASSUME IInv, PeerInv, Write
  PROVE  PeerInv'
<1>1. /\ pc = "idle" /\ state = "ApplicationData" /\ HelloFits
      /\ wb \in WriteBufferType /\ appended \in Nat /\ first \in Nat /\ UNCHANGED <<key, counter>>
  BY DEF Write, IInv, TypeOK, StateShape
<1>2. PICK n \in WriteSizes :
        IF contains(wb, "ApplicationData") THEN AppendTo(wb, first, n)
        ELSE IF is_empty(wb) THEN StartAndAppend(n)
        ELSE CloseAndSend(wb, first, WriteCall("write_flush", n, 0)) /\ UNCHANGED <<first, appended>>
  BY DEF Write
<1>3. n \in Nat
  BY WriterAssumption
<1>4. ~LastWords
  <2>1. key = 2
    BY <1>1 DEF IInv, StateShape, KeyOf
  <2> QED BY <1>1, <2>1 DEF LastWords
<1>5. CASE wb.current_header = "ApplicationData"
  <2>1. AppendTo(wb, first, n)
    BY <1>2, <1>5 DEF contains
  <2>2. HEADER_SIZE <= wb.pos /\ wb.pos < max_block_size
    BY <1>5 DEF IInv, BufferShape
  <2> QED BY <1>1, <1>3, <1>4, <1>5, <2>1, <2>2, AppendPeer
<1>6. CASE wb.current_header # "ApplicationData"
  <2> DEFINE w == start_record(wb, "ApplicationData").wb
  <2>1. wb = EmptyBuffer
    BY <1>1, <1>6, EmptyUnlessApp
  <2>2. /\ w \in WriteBufferType /\ start_record(wb, "ApplicationData").res = "Ok"
        /\ w.pos = HEADER_SIZE /\ w.current_header = "ApplicationData"
    BY <1>1, <2>1, StartRecordResult DEF ClientRecordHeader
  <2>3. AppendTo(w, appended, n)
    BY <1>2, <1>6, <2>1, <2>2 DEF contains, is_empty, EmptyBuffer, StartAndAppend
  <2> HIDE DEF w
  <2>4. HEADER_SIZE <= w.pos /\ w.pos < max_block_size
    BY <1>1, <2>2, BufLenAssumption, WriterAssumption
    DEF max_block_size, HelloFits, HEADER_SIZE, TLS_RECORD_OVERHEAD, MIN_CLIENT_HELLO
  <2> QED BY <1>1, <1>3, <1>4, <2>2, <2>3, <2>4, AppendPeer
<1> QED BY <1>5, <1>6

(* The close_notify is encrypted if the connection is still open, and it is the
   last record either way. *)
LEMMA ClosingPeer ==
  ASSUME IInv, PeerInv, CloseNotify, wb = EmptyBuffer, UNCHANGED <<key, counter>>,
         pc = "idle" \/ (pc = "sent" /\ call.op = "close_flush")
  PROVE  PeerInv'
<1> DEFINE h == IF opened THEN "AlertEnc" ELSE "AlertPlain"
           c == WriteCall("close", 0, 0)
<1>1. SendRecord(h, 2, c) /\ c.op = "close"
  BY DEF CloseNotify, WriteCall, NoCall
<1>2. h \in ClientRecordHeader \ {"ApplicationData"}
  BY DEF ClientRecordHeader
<1>3. is_encrypted(h) => ~LastWords
  <2>1. is_encrypted(h) => opened
    BY DEF is_encrypted
  <2>2. opened => state = "ApplicationData" /\ key = 2
    BY DEF IInv, StateShape, KeyOf
  <2> QED BY <2>1, <2>2 DEF LastWords
<1> HIDE DEF h, c
<1> QED BY <1>1, <1>2, <1>3, SendPeer

(* flush() and close() seal what the buffer holds: application data, or what a
   failed handshake left there. *)
LEMMA FlushOrClosePeer ==
  ASSUME IInv, PeerInv, Flush \/ Close
  PROVE  PeerInv'
<1>1. pc = "idle" /\ UNCHANGED <<key, counter>> /\ wb \in WriteBufferType /\ first \in Nat
  BY SMTT(30) DEF Flush, Close, Callable, IInv, TypeOK
<1>2. \A op : WriteCall(op, 0, 0).op = op
  BY DEF WriteCall, NoCall
<1>3. /\ wb.current_header = "ApplicationData" => wb.pos >= HEADER_SIZE
      /\ is_encrypted(wb.current_header) => ~LastWords
      /\ wb.current_header # None /\ ~is_encrypted(wb.current_header) => state = "Failed"
  <2>1. wb.pos \in Nat
    BY <1>1 DEF WriteBufferType
  <2>2. wb.current_header = "ApplicationData" => wb.pos >= HEADER_SIZE
    BY <2>1 DEF IInv, BufferShape, HEADER_SIZE
  <2>3. wb.current_header # None /\ ~is_encrypted(wb.current_header) => state = "Failed"
    BY <1>1 DEF IInv, BufferShape, WriteBufferType, is_encrypted
  <2> QED BY <1>1, <2>2, <2>3 DEF LastWords
<1>4. ASSUME NEW op \in {"flush", "close_flush"}, CloseAndSend(wb, first, WriteCall(op, 0, 0))
      PROVE  PeerInv'
  BY <1>1, <1>2, <1>3, <1>4, ClosePeer
<1>5. ASSUME is_empty(wb) PROVE wb = EmptyBuffer
  BY <1>1, <1>5 DEF IInv, BufferShape, WriteBufferType, EmptyBuffer, is_empty, HEADER_SIZE
<1>6. CASE Flush
  <2>1. CASE is_empty(wb)
    <3>1. wb' = wb /\ wire' = wire /\ pc' = "idle" /\ state' = state
      BY <1>2, <1>6, <2>1, SMTT(30) DEF Flush, Return
    <3>2. LastWords => LastWords'
      BY <1>1, <3>1 DEF LastWords
    <3> QED BY <1>1, <3>1, <3>2, QuietStep
  <2>2. CASE ~is_empty(wb)
    BY <1>4, <1>6, <2>2 DEF Flush
  <2> QED BY <2>1, <2>2
<1>7. CASE Close
  <2>1. CASE is_empty(wb)
    BY <1>1, <1>5, <1>7, <2>1, ClosingPeer DEF Close
  <2>2. CASE ~is_empty(wb)
    BY <1>4, <1>7, <2>2 DEF Close
  <2> QED BY <2>1, <2>2
<1> QED BY <1>6, <1>7

(* The messages of open(): everything behind ServerHello is encrypted, except
   the alert of an aborted handshake. *)
LEMMA HandshakePeer ==
  ASSUME IInv, PeerInv, Handshake
  PROVE  PeerInv'
<1>1. HelloLen \in Nat /\ FinishedLen \in Nat /\ HandshakeLens \subseteq Nat
  BY WriterAssumption
<1>2. /\ pc = "idle" /\ state \notin {"Failed", "ApplicationData"} /\ key \in 0 .. 2
      /\ state \in {"ClientHello", "ServerHello"} => key = 0
      /\ state \notin {"ClientHello", "ServerHello"} => key = 1
  BY DEF IInv, TypeOK, StateShape, KeyOf, Handshake, ClientHello, ServerHello, ServerVerify, AbortHandshake,
         ClientCert, ClientCertVerify, ClientFinished
<1>3. wb = EmptyBuffer
  <2>1. wb.current_header # "ApplicationData"
    BY <1>2 DEF IInv, BufferShape
  <2> QED BY <1>2, <2>1, EmptyUnlessApp
<1>4. key # 0 => ~LastWords
  BY <1>2 DEF LastWords
<1>5. \A next : HandshakeCall(next).op = "open" /\ HandshakeCall(next).next = next
  BY DEF HandshakeCall, NoCall
<1>6. ASSUME NEW n \in Nat, NEW next, UNCHANGED <<key, counter>>,
             \/ state = "ClientHello" /\ SendRecord("HandshakePlain", n, HandshakeCall(next))
             \/ next = "Failed" /\ SendRecord("AlertPlain", n, HandshakeCall(next))
             \/ key = 1 /\ SendRecord("HandshakeEnc", n, HandshakeCall(next))
             \/ key = 1 /\ SendRecord("AlertEnc", n, HandshakeCall(next))
      PROVE  PeerInv'
  <2>1. \A h \in {"HandshakePlain", "AlertPlain", "HandshakeEnc", "AlertEnc"} :
          h \in ClientRecordHeader \ {"ApplicationData"}
    BY DEF ClientRecordHeader
  <2>2. PICK h \in {"HandshakePlain", "AlertPlain", "HandshakeEnc", "AlertEnc"} :
          /\ SendRecord(h, n, HandshakeCall(next))
          /\ is_encrypted(h) => key = 1
          /\ ~is_encrypted(h) => key = 0 \/ next = "Failed"
    BY <1>2, <1>6 DEF is_encrypted
  <2> QED BY <1>2, <1>3, <1>4, <1>5, <1>6, <2>1, <2>2, SendPeer
<1>7. CASE ClientHello
  BY <1>1, <1>6, <1>7 DEF ClientHello
<1>8. CASE AbortHandshake
  BY <1>6, <1>8 DEF AbortHandshake
<1>9. CASE ClientCert
  BY <1>1, <1>2, <1>6, <1>9 DEF ClientCert
<1>10. CASE ClientCertVerify
  BY <1>1, <1>2, <1>6, <1>10 DEF ClientCertVerify
<1>11. CASE ClientFinished
  BY <1>1, <1>2, <1>6, <1>11 DEF ClientFinished
<1>12. CASE ServerHello
  <2>1. CASE key' = 1 /\ counter' = 0
    BY <1>2, <1>12, <2>1, NewKeys DEF ServerHello
  <2>2. CASE state' = "Failed" /\ UNCHANGED <<key, counter>>
    <3>1. LastWords'
      BY <1>2, <1>3, <1>12, <2>2 DEF LastWords, ServerHello, EmptyBuffer, is_encrypted, None
    <3> QED BY <1>2, <1>12, <2>2, <3>1, QuietStep DEF ServerHello
  <2> QED BY <1>12, <2>1, <2>2 DEF ServerHello
<1>13. CASE ServerVerify
  BY <1>2, <1>4, <1>13, QuietStep DEF ServerVerify
<1> QED BY <1>7, <1>8, <1>9, <1>10, <1>11, <1>12, <1>13 DEF Handshake

(* The rest of a call, once its record is sent or failed to be. *)
LEMMA SentPeer ==
  ASSUME IInv, PeerInv, WriteAllInterrupted \/ FlushTransportFailed \/ HandshakeSent \/ CallSent
  PROVE  PeerInv'
<1>1. /\ pc \in {"sending", "sent"} /\ wb = EmptyBuffer /\ key \in 0 .. 2
      /\ call.op \in {"open", "write", "flush", "close_flush", "close"}
      /\ call.op = "open" /\ call.next = "ApplicationData" => key = 1
  BY DEF IInv, TypeOK, CallShape, WriteAllInterrupted, FlushTransportFailed, HandshakeSent, CallSent
<1>2. ~is_encrypted(wb.current_header) /\ (call.op = "open" => state # "Failed")
  BY <1>1 DEF EmptyBuffer, is_encrypted, None, PeerInv, InFlight
<1>3. ASSUME NEW r \in {"Ok", "Io"}, Return(call, r), UNCHANGED <<wb, key, counter>>
      PROVE  PeerInv'
  <2>1. /\ wire' = wire /\ pc' \in {"idle", "closed"}
        /\ call.op = "open" => state' = "Failed"
        /\ call.op # "open" => state' = state
        /\ call.op = "close" => pc' = "closed"
    BY <1>1, <1>3 DEF Return
  <2>2. LastWords => LastWords'
    BY <1>1, <1>2, <1>3, <2>1 DEF LastWords
  <2> QED BY <1>3, <2>1, <2>2, QuietStep
<1>4. CASE WriteAllInterrupted
  BY <1>3, <1>4 DEF WriteAllInterrupted
<1>5. CASE FlushTransportFailed
  BY <1>3, <1>5 DEF FlushTransportFailed
<1>6. CASE HandshakeSent
  <2>1. pc = "sent" /\ call.op = "open" /\ wire' = wire /\ pc' = "idle" /\ wb' = wb /\ state' = call.next
    BY <1>6 DEF HandshakeSent
  <2>2. CASE call.next = "ApplicationData"
    BY <1>1, <1>6, <2>1, <2>2, NewKeys, SMTT(30) DEF HandshakeSent
  <2>3. CASE call.next # "ApplicationData"
    <3>1. UNCHANGED <<key, counter>>
      BY <1>6, <2>3 DEF HandshakeSent
    <3>2. LastWords => LastWords'
      BY <1>2, <2>1, <3>1 DEF LastWords
    <3> QED BY <2>1, <3>1, <3>2, QuietStep
  <2> QED BY <2>2, <2>3
<1>7. CASE CallSent
  <2>1. pc = "sent" /\ call.op \in {"write", "flush", "close_flush", "close"} /\ UNCHANGED <<key, counter>>
    BY <1>1, <1>7 DEF CallSent
  <2>2. CASE call.op = "close_flush"
    BY <1>1, <1>7, <2>1, <2>2, ClosingPeer DEF CallSent
  <2>3. CASE call.op # "close_flush"
    BY <1>3, <1>7, <2>1, <2>3 DEF CallSent
  <2> QED BY <2>2, <2>3
<1> QED BY <1>4, <1>5, <1>6, <1>7

(* Every step of the sending half. *)
LEMMA NextPeer == IInv /\ PeerInv /\ [Next]_vars => PeerInv'
<1> SUFFICES ASSUME IInv, PeerInv, [Next]_vars PROVE PeerInv'
  OBVIOUS
<1>1. CASE Handshake
  BY <1>1, HandshakePeer
<1>2. CASE Write
  BY <1>2, WritePeer
<1>3. CASE Flush \/ Close
  BY <1>3, FlushOrClosePeer
<1>4. CASE WriteAllDone
  BY <1>4, DoneStep
<1>5. CASE WriteAllInterrupted \/ FlushTransportFailed \/ HandshakeSent \/ CallSent
  BY <1>5, SentPeer
<1>6. CASE SetFlushPolicy \/ PeerClosed \/ UNCHANGED vars
  <2>1. UNCHANGED <<wb, key, counter, state, pc, call, wire>>
    BY <1>6 DEF SetFlushPolicy, PeerClosed, vars
  <2>2. LastWords => LastWords'
    BY <2>1 DEF LastWords
  <2> QED BY <2>1, <2>2, QuietStep
<1> QED BY <1>1, <1>2, <1>3, <1>4, <1>5, <1>6 DEF Next, Application, Transport, Finished

(* The peer, which counts the records it decrypts, stays in step with the sending
   half for as long as the transport interrupts none: through the change of keys
   behind Finished, past calls that fail before they send anything, and with
   close_notify behind the last write. *)
THEOREM CounterAgreement == Spec => []PeerInSync
<1>1. Init => PeerInv
  <2> SUFFICES ASSUME Init PROVE PeerInv
    OBVIOUS
  <2>1. wire = <<>> /\ Len(wire) = 0
    BY DEF Init
  <2>2. PeerInSync
    BY <2>1 DEF PeerInSync
  <2>3. InFlight /\ LastWords
    BY DEF Init, InFlight, LastWords, EmptyBuffer, is_encrypted, None
  <2> QED BY <2>2, <2>3 DEF PeerInv
<1>2. Spec => []PeerInv
  BY <1>1, NextPeer, Invariance, PTL DEF Spec
<1>3. PeerInv => PeerInSync
  BY DEF PeerInv
<1> QED BY <1>2, <1>3, PTL
=============================================================================
