----------------------- MODULE SplitConnectionProofs -----------------------
(***************************************************************************)
(* A connection implements its halves, for every buffer, message and       *)
(* stream: what is shown of RecordWriter and of RecordReader alone holds   *)
(* when both run at once over the shared flag.                             *)
(***************************************************************************)
EXTENDS SplitConnection, FiniteSetTheorems, TLAPS

(* The calls of close(). *)
Closing(c) == c.op \in {"close_flush", "close"}

(* A step of the sending half that ends its call c, or leaves its record with the
   transport. *)
GoesOn(c) ==
  \/ wpc' = "sending" /\ wcall' = c /\ state' = state
  \/ /\ wpc' \in {"idle", "panic"} \/ (wpc' = "closed" /\ Closing(c))
     /\ wcall' = W!NoCall
     /\ state' = IF c.op = "open" THEN "Failed" ELSE state

(* The operations that the constructors of calls name. *)
LEMMA CallOps ==
  /\ W!NoCall.op = "none"
  /\ \A next : W!HandshakeCall(next).op = "open"
  /\ \A op, asked, got : W!WriteCall(op, asked, got).op = op
BY DEF W!NoCall, W!HandshakeCall, W!WriteCall

(* Return, write_record and close_record with what follows them. *)
LEMMA CallSteps ==
  /\ \A c, r : W!Return(c, r) => GoesOn(c)
  /\ \A h, n, c : W!SendRecord(h, n, c) => GoesOn(c)
  /\ \A w, f, c : W!CloseAndSend(w, f, c) => GoesOn(c)
<1>1. \A c, r : W!Return(c, r) => GoesOn(c)
  BY DEF W!Return, GoesOn, Closing
<1>2. \A h, n, c : W!SendRecord(h, n, c) => GoesOn(c)
  BY <1>1 DEF W!SendRecord, W!Transmit, GoesOn
<1>3. \A w, f, c : W!CloseAndSend(w, f, c) => GoesOn(c)
  BY <1>1 DEF W!CloseAndSend, W!Transmit, GoesOn
<1> QED
  BY <1>1, <1>2, <1>3

(* write() makes only calls of its own, whichever way it goes. *)
LEMMA WriteSteps ==
  /\ \A w, f, n : W!AppendTo(w, f, n) => \E c : c.op = "write" /\ GoesOn(c)
  /\ \A n : W!StartAndAppend(n) => \E c : c.op = "write" /\ GoesOn(c)
<1>1. ASSUME NEW w, NEW f, NEW n, W!AppendTo(w, f, n)
      PROVE  \E c : c.op = "write" /\ GoesOn(c)
  <2> DEFINE c == W!WriteCall("write", n, W!append(w, n).len)
  <2>1. c.op = "write"
    BY CallOps
  <2>2. GoesOn(c)
    <3> HIDE DEF c
    <3> QED
      BY <1>1, CallSteps DEF W!AppendTo, c
  <2> QED
    BY <2>1, <2>2
<1>2. ASSUME NEW n, W!StartAndAppend(n)
      PROVE  \E c : c.op = "write" /\ GoesOn(c)
  <2>1. CASE W!start_record(wb, "ApplicationData").res = "Ok"
    BY <1>1, <1>2, <2>1 DEF W!StartAndAppend
  <2>2. CASE W!start_record(wb, "ApplicationData").res # "Ok"
    <3>1. GoesOn(W!WriteCall("write", n, 0))
      BY <1>2, <2>2, CallSteps DEF W!StartAndAppend
    <3> QED
      BY <3>1, CallOps
  <2> QED
    BY <2>1, <2>2
<1> QED
  BY <1>1, <1>2

(* What a step of the sending half does to its call, its state and the flag. *)
LEMMA WriterStep ==
  ASSUME CallsInOrder, W!Handshake \/ W!Write \/ W!Flush \/ W!SetFlushPolicy \/ W!Transport
  PROVE  /\ opened' \in BOOLEAN
         /\ wpc' = "idle" => wcall'.op = "none"
         /\ wpc' \in {"sending", "sent"} /\ wcall'.op = "open" => state' # "ApplicationData"
         /\ wpc # "closed" /\ ~Closing(wcall) => wpc' # "closed" /\ ~Closing(wcall')
         /\ state = "ApplicationData" => state' = state /\ opened' = opened
         /\ state # "ApplicationData" /\ state' = "ApplicationData" => opened'
<1> USE DEF CallsInOrder, Closing
<1>1. CASE W!ServerHello \/ W!ServerVerify
  BY <1>1, CallOps DEF W!ServerHello, W!ServerVerify
<1>2. CASE W!Handshake /\ ~(W!ServerHello \/ W!ServerVerify)
  <2>1. opened' = opened /\ state # "ApplicationData" /\ \E c : c.op = "open" /\ GoesOn(c)
    BY <1>2, CallOps, CallSteps, SMTT(30)
    DEF W!Handshake, W!ClientHello, W!AbortHandshake, W!ClientCert, W!ClientCertVerify, W!ClientFinished
  <2> QED
    BY <2>1, CallOps DEF GoesOn
<1>3. CASE W!Write
  <2>1. opened' = opened /\ \E c : c.op \in {"write", "write_flush"} /\ GoesOn(c)
    BY <1>3, CallOps, CallSteps, WriteSteps DEF W!Write
  <2> QED
    BY <2>1, CallOps DEF GoesOn
<1>4. CASE W!Flush
  <2>1. opened' = opened /\ \E c : c.op = "flush" /\ GoesOn(c)
    BY <1>4, CallOps, CallSteps DEF W!Flush
  <2> QED
    BY <2>1, CallOps DEF GoesOn
<1>5. CASE W!SetFlushPolicy
  BY <1>5 DEF W!SetFlushPolicy
<1>6. CASE W!WriteAllDone
  BY <1>6 DEF W!WriteAllDone
<1>7. CASE W!WriteAllInterrupted \/ W!FlushTransportFailed
  <2>1. opened' = opened /\ wpc \in {"sending", "sent"} /\ GoesOn(wcall) /\ wpc' # "sending"
    BY <1>7, CallSteps DEF W!WriteAllInterrupted, W!FlushTransportFailed, W!Return
  <2> QED
    BY <2>1, CallOps DEF GoesOn
<1>8. CASE W!HandshakeSent
  BY <1>8, CallOps, Zenon DEF W!HandshakeSent
<1>9. CASE W!CallSent
  <2>1. opened' = opened /\ \E c : c.op # "open" /\ (Closing(c) => Closing(wcall)) /\ GoesOn(c)
    <3>1. CASE wcall.op = "close_flush"
      BY <1>9, <3>1, CallOps, CallSteps DEF W!CallSent, W!CloseNotify
    <3>2. CASE wcall.op = "write_flush"
      BY <1>9, <3>2, WriteSteps DEF W!CallSent
    <3>3. CASE wcall.op \notin {"close_flush", "write_flush"}
      BY <1>9, <3>3, CallSteps DEF W!CallSent
    <3> QED
      BY <3>1, <3>2, <3>3
  <2> QED
    BY <2>1, CallOps DEF GoesOn
<1> QED
  BY <1>1, <1>2, <1>3, <1>4, <1>5, <1>6, <1>7, <1>8, <1>9, SMTT(30) DEF W!Transport

(* A step of the receiving half leaves the flag or clears it. *)
LEMMA ReaderStep ==
  R!Application \/ R!Transport \/ R!Interrupted => opened' = opened \/ opened' = FALSE
<1>1. R!Application => opened' = opened
  BY Zenon DEF R!Application, R!Read, R!ReadBuffered, R!ReadCall, R!Consume, R!Pop, R!Peek, R!Revert, R!Drop
<1>2. R!Interrupted => opened' = opened
  BY DEF R!Interrupted
<1>3. R!HeaderRead \/ R!BodyRead => opened' = opened
  BY DEF R!HeaderRead, R!BodyRead
<1>4. R!RecordComplete => opened' = opened \/ opened' = FALSE
  BY Zenon DEF R!RecordComplete, R!HandlePlaintext, R!Handle
<1> QED
  BY <1>1, <1>2, <1>3, <1>4 DEF R!Transport

(* CallsInOrder holds of a new connection, before open(). *)
LEMMA InitInOrder == Init => CallsInOrder
BY CallOps, Zenon DEF Init, W!Init, CallsInOrder

(* CallsInOrder is kept by every step of a connection: only the whole connection
   closes, and it is split only while its sending half is idle. *)
LEMMA NextInOrder == CallsInOrder /\ [Next]_vars => CallsInOrder'
<1> SUFFICES ASSUME CallsInOrder, [Next]_vars
             PROVE  CallsInOrder'
  OBVIOUS
<1>1. CASE Open \/ Write \/ Flush \/ SetFlushPolicy \/ WriterGoesOn
  <2>1. /\ W!Handshake \/ W!Write \/ W!Flush \/ W!SetFlushPolicy \/ W!Transport
        /\ split' = split
    BY <1>1 DEF Open, Write, Flush, SetFlushPolicy, WriterGoesOn, Writer
  <2> QED
    BY <2>1, WriterStep DEF CallsInOrder, Closing
<1>2. CASE Close
  <2>1. opened' = opened /\ ~split' /\ \E c : Closing(c) /\ GoesOn(c)
    BY <1>2, CallOps, CallSteps DEF Close, Whole, Writer, W!Close, W!CloseNotify, Closing
  <2> QED
    BY <2>1, CallOps DEF GoesOn, Closing, CallsInOrder
<1>3. CASE ReaderCalls \/ ReaderGoesOn \/ ReaderInterrupted
  <2>1. opened' \in BOOLEAN /\ UNCHANGED <<wvars, split>>
    BY <1>3, ReaderStep, Zenon DEF ReaderCalls, ReaderGoesOn, ReaderInterrupted, Reader, CallsInOrder
  <2> QED
    BY <2>1 DEF CallsInOrder, wvars
<1>4. CASE Split \/ Join \/ Done \/ UNCHANGED vars
  BY <1>4 DEF Split, Join, Done, WriterIdle, vars, wvars, CallsInOrder
<1> QED
  BY <1>1, <1>2, <1>3, <1>4 DEF Next

(* Every step of the connection is one of the sending half, or none for it: where
   the receiving half clears the flag, no close() is in progress. *)
LEMMA WriterHalf == CallsInOrder /\ [Next]_vars => [W!Next]_(W!vars)
<1> SUFFICES ASSUME CallsInOrder, [Next]_vars
             PROVE  W!Next \/ UNCHANGED W!vars
  OBVIOUS
<1>1. CASE Open \/ Close \/ SetFlushPolicy \/ Write \/ Flush \/ WriterGoesOn
  BY <1>1 DEF Open, Close, SetFlushPolicy, Write, Flush, WriterGoesOn, Writer, W!Next, W!Application
<1>2. CASE ReaderCalls \/ ReaderGoesOn \/ ReaderInterrupted
  <2>1. Readable /\ UNCHANGED wvars /\ (opened' = opened \/ opened' = FALSE)
    BY <1>2, ReaderStep DEF ReaderCalls, ReaderGoesOn, ReaderInterrupted, Reader
  <2>2. CASE opened' = opened
    BY <2>1, <2>2 DEF wvars, W!vars
  <2>3. CASE opened' # opened
    <3>1. opened /\ opened' = FALSE /\ wpc # "closed" /\ wcall.op \notin {"close_flush", "close"}
      BY <2>1, <2>3, Zenon DEF CallsInOrder, Readable, WriterIdle
    <3> QED
      BY <2>1, <3>1 DEF wvars, W!PeerClosed, W!Next
  <2> QED
    BY <2>2, <2>3
<1>3. CASE Split \/ Join \/ Done \/ UNCHANGED vars
  BY <1>3 DEF Split, Join, Done, vars, wvars, W!vars
<1> QED
  BY <1>1, <1>2, <1>3 DEF Next

(* What does not look at the flag is the same in both views of the receiving half. *)
LEMMA SameView ==
  /\ R!Start = Half!Start
  /\ R!StreamLen = Half!StreamLen
  /\ \A e : R!Headers(e) = Half!Headers(e)
  /\ \A n : R!Authentic(n) = Half!Authentic(n)
  /\ \A h : R!HeaderDone(h) = Half!HeaderDone(h)
  /\ \A c, b, d : R!Answer(c, b, d) = Half!Answer(c, b, d)
  /\ \A b, d, n : R!Deliver(b, d, n) = Half!Deliver(b, d, n)
<1>1. R!Start = Half!Start
  BY Zenon DEF R!Start, Half!Start, R!ContentLength, Half!ContentLength, R!HEADER_LEN, Half!HEADER_LEN
<1>2. R!StreamLen = Half!StreamLen
  BY <1>1, Zenon DEF R!StreamLen, Half!StreamLen
<1>3. \A e : R!Headers(e) = Half!Headers(e)
  BY <1>1, Zenon DEF R!Headers, Half!Headers, R!ContentLength, Half!ContentLength, R!HEADER_LEN, Half!HEADER_LEN
<1>4. \A n : R!Authentic(n) = Half!Authentic(n)
  BY <1>1, Zenon DEF R!Authentic, Half!Authentic, R!ContentLength, Half!ContentLength, R!HEADER_LEN, Half!HEADER_LEN
<1>5. \A h : R!HeaderDone(h) = Half!HeaderDone(h)
  BY Zenon DEF R!HeaderDone, Half!HeaderDone, R!Fail, Half!Fail, R!LocalsGone, Half!LocalsGone, R!NoHeader, Half!NoHeader,
     R!EnsureContiguous, Half!EnsureContiguous, R!Rotated, Half!Rotated
<1>6. \A b, d, n : R!Deliver(b, d, n) = Half!Deliver(b, d, n)
  BY Zenon DEF R!Deliver, Half!Deliver
<1>7. \A c, b, d : R!Answer(c, b, d) = Half!Answer(c, b, d)
  BY Zenon DEF R!Answer, Half!Answer, R!Deliver, Half!Deliver, R!Least, Half!Least, R!Left, Half!Left, R!NoBuffer, Half!NoBuffer
<1> QED
  BY <1>1, <1>2, <1>3, <1>4, <1>5, <1>6, <1>7

(* Once the connection is open the two views of the receiving half agree on the
   flag, and so on every step. *)
LEMMA SameStep ==
  ASSUME state = "ApplicationData", state' = state, opened \in BOOLEAN
  PROVE  /\ R!Application => Half!Application
         /\ R!Transport => Half!Transport
         /\ R!Interrupted => Half!Interrupted
<1> DEFINE flag == state # "ApplicationData" \/ opened
<1>1. /\ flag = opened
      /\ opened' = opened => flag' = flag
      /\ opened' = FALSE => flag' = FALSE
  OBVIOUS
<1> HIDE DEF flag
<1>2. R!Application => Half!Application
  <2>1. \A n : R!ReadCall(n) => Half!ReadCall(n)
    BY <1>1, SameView DEF flag, R!ReadCall, Half!ReadCall, R!Idle, Half!Idle, R!is_empty, Half!is_empty,
       R!Left, Half!Left, R!reader, Half!reader, R!locals, Half!locals
  <2>2. R!Consume => Half!Consume
    BY <1>1, SameView DEF flag, R!Consume, Half!Consume, R!Idle, Half!Idle, R!Least, Half!Least,
       R!Left, Half!Left, R!reader, Half!reader, R!locals, Half!locals
  <2>3. R!Pop => Half!Pop
    BY <1>1, Zenon DEF flag, R!Pop, Half!Pop, R!Least, Half!Least,
       R!Left, Half!Left, R!reader, Half!reader, R!locals, Half!locals
  <2>4. R!Peek \/ R!Revert => Half!Peek \/ Half!Revert
    BY <1>1 DEF flag, R!Peek, Half!Peek, R!Revert, Half!Revert, R!NoBuffer, Half!NoBuffer,
       R!reader, Half!reader, R!locals, Half!locals
  <2>5. R!Drop => Half!Drop
    BY <1>1, SameView DEF flag, R!Drop, Half!Drop, R!NoBuffer, Half!NoBuffer,
       R!Left, Half!Left, R!reader, Half!reader, R!locals, Half!locals
  <2> QED
    BY <2>1, <2>2, <2>3, <2>4, <2>5 DEF R!Application, Half!Application, R!Read, Half!Read,
       R!ReadBuffered, Half!ReadBuffered
<1>3. R!Transport => Half!Transport
  <2>1. R!HeaderRead => Half!HeaderRead
    BY <1>1, SameView DEF flag, R!HeaderRead, Half!HeaderRead, R!Least, Half!Least, R!HEADER_LEN, Half!HEADER_LEN
  <2>2. R!BodyRead => Half!BodyRead
    BY <1>1, SameView, SMTT(30) DEF flag, R!BodyRead, Half!BodyRead, R!Least, Half!Least, R!Fail, Half!Fail,
       R!LocalsGone, Half!LocalsGone, R!NoHeader, Half!NoHeader
  <2>3. \A r : R!Handle(r) => Half!Handle(r)
    BY <1>1, SameView DEF flag, R!Handle, Half!Handle, R!NextRecord, Half!NextRecord, R!Fail, Half!Fail,
       R!is_empty, Half!is_empty, R!Left, Half!Left
  <2>4. R!HandlePlaintext => Half!HandlePlaintext
    BY <1>1 DEF flag, R!HandlePlaintext, Half!HandlePlaintext, R!NextRecord, Half!NextRecord, R!Fail, Half!Fail
  <2>5. R!RecordComplete => Half!RecordComplete
    BY <1>1, <2>3, <2>4, SameView DEF flag, R!RecordComplete, Half!RecordComplete, R!Fail, Half!Fail,
       R!LocalsGone, Half!LocalsGone, R!NoHeader, Half!NoHeader
  <2> QED
    BY <2>1, <2>2, <2>5 DEF R!Transport, Half!Transport
<1>4. R!Interrupted => Half!Interrupted
  BY <1>1 DEF flag, R!Interrupted, Half!Interrupted, R!Fail, Half!Fail, R!LocalsGone, Half!LocalsGone,
     R!NoHeader, Half!NoHeader, R!reader, Half!reader
<1> QED
  BY <1>2, <1>3, <1>4

(* Every step of the connection is one of the receiving half, or none for it. *)
LEMMA ReaderHalf == CallsInOrder /\ [Next]_vars => [Half!Next]_(Half!vars)
<1> SUFFICES ASSUME CallsInOrder, [Next]_vars
             PROVE  Half!Next \/ UNCHANGED Half!vars
  OBVIOUS
<1>1. CASE Open \/ Close \/ SetFlushPolicy \/ Write \/ Flush \/ WriterGoesOn
  <2>1. UNCHANGED rvars
    BY <1>1 DEF Open, Close, SetFlushPolicy, Write, Flush, WriterGoesOn, Writer
  <2>2. (state # "ApplicationData" \/ opened)' = (state # "ApplicationData" \/ opened)
    <3>1. CASE Close
      <4>1. opened' = opened /\ state' = state
        BY <3>1, CallOps, CallSteps, SMTT(30) DEF Close, Writer, W!Close, W!CloseNotify, GoesOn
      <4> QED
        BY <4>1
    <3>2. CASE ~Close
      <4>1. W!Handshake \/ W!Write \/ W!Flush \/ W!SetFlushPolicy \/ W!Transport
        BY <1>1, <3>2 DEF Open, Write, Flush, SetFlushPolicy, WriterGoesOn, Writer
      <4> QED
        BY <4>1, WriterStep DEF CallsInOrder
    <3> QED
      BY <3>1, <3>2
  <2> QED
    BY <2>1, <2>2 DEF rvars, Half!vars
<1>2. CASE ReaderCalls \/ ReaderGoesOn \/ ReaderInterrupted
  <2>1. /\ state = "ApplicationData" /\ state' = state /\ opened \in BOOLEAN
        /\ R!Application \/ R!Transport \/ R!Interrupted
    BY <1>2 DEF ReaderCalls, ReaderGoesOn, ReaderInterrupted, Reader, Readable, wvars, CallsInOrder
  <2> QED
    BY <2>1, SameStep DEF Half!Next
<1>3. CASE Split \/ Join \/ Done \/ UNCHANGED vars
  BY <1>3, SMTT(30) DEF Split, Join, Done, vars, wvars, rvars, Half!vars
<1> QED
  BY <1>1, <1>2, <1>3 DEF Next

(* Whatever the two halves do at the same time over the shared flag, each of them
   runs as RecordWriter and RecordReader describe it alone: what is shown of those
   holds of the connection, split or not. *)
THEOREM HalvesImplemented == Spec => ImplementsHalves
<1>1. Spec => []CallsInOrder
  BY InitInOrder, NextInOrder, PTL DEF Spec
<1>2. Init => W!Init /\ Half!Init
  BY DEF Init
<1> QED
  BY <1>1, <1>2, WriterHalf, ReaderHalf, PTL DEF Spec, ImplementsHalves, W!Spec, Half!Spec

-----------------------------------------------------------------------------
(* What the proofs about the sending half say of the whole connection. *)

(* The theorems about the halves, in the terms of the connection. *)
WP == INSTANCE RecordWriterProofs WITH BufLen <- WriteBufLen, pc <- wpc, call <- wcall, res <- wres

(* The operations of the write buffer are the same in both instances. *)
LEMMA SameBuffer ==
  /\ W!EmptyBuffer = WP!EmptyBuffer /\ W!NoCall = WP!NoCall
  /\ \A w : W!is_full(w) = WP!is_full(w) /\ W!is_empty(w) = WP!is_empty(w)
  /\ \A w, h : W!contains(w, h) = WP!contains(w, h)
  /\ \A w, n : W!append(w, n) = WP!append(w, n)
  /\ \A w, h : W!start_record(w, h) = WP!start_record(w, h)
  /\ \A w : W!close_record(w) = WP!close_record(w)
  /\ \A w, h, n : W!write_record(w, h, n) = WP!write_record(w, h, n)
  /\ \A h, r, lo, hi : W!Sealed(h, r, lo, hi) = WP!Sealed(h, r, lo, hi)
  /\ \A next : W!HandshakeCall(next) = WP!HandshakeCall(next)
  /\ \A op, n, g : W!WriteCall(op, n, g) = WP!WriteCall(op, n, g)
<1>1. W!EmptyBuffer = WP!EmptyBuffer /\ W!NoCall = WP!NoCall
  BY Zenon DEF W!EmptyBuffer, WP!EmptyBuffer, W!None, WP!None, W!NoCall, WP!NoCall
<1>2. \A w : W!is_full(w) = WP!is_full(w) /\ W!is_empty(w) = WP!is_empty(w)
  BY Zenon DEF W!is_full, WP!is_full, W!is_empty, WP!is_empty, W!max_block_size, WP!max_block_size,
     W!TLS_RECORD_OVERHEAD, WP!TLS_RECORD_OVERHEAD
<1>3. \A w, h : W!contains(w, h) = WP!contains(w, h)
  BY Zenon DEF W!contains, WP!contains
<1>4. \A w, n : W!append(w, n) = WP!append(w, n)
  BY Zenon DEF W!append, WP!append, W!space, WP!space, W!max_block_size, WP!max_block_size, W!TLS_RECORD_OVERHEAD,
     WP!TLS_RECORD_OVERHEAD, W!Result, WP!Result
<1>5. \A w, h : W!start_record(w, h) = WP!start_record(w, h)
  BY Zenon DEF W!start_record, WP!start_record, W!Result, WP!Result, W!None, WP!None, W!HEADER_SIZE, WP!HEADER_SIZE
<1>6. \A w : W!close_record(w) = WP!close_record(w)
  BY Zenon DEF W!close_record, WP!close_record, W!Seal, WP!Seal, W!SealedLen, WP!SealedLen, W!is_encrypted,
     WP!is_encrypted, W!Result, WP!Result, W!EmptyBuffer, WP!EmptyBuffer, W!None, WP!None, W!HEADER_SIZE,
     WP!HEADER_SIZE, W!TAG_SIZE, WP!TAG_SIZE
<1>7. \A w, h, n : W!write_record(w, h, n) = WP!write_record(w, h, n)
  BY <1>5, <1>6, Zenon DEF W!write_record, WP!write_record, W!Result, WP!Result, W!None, WP!None
<1>8. \A h, r, lo, hi : W!Sealed(h, r, lo, hi) = WP!Sealed(h, r, lo, hi)
  <2>1. \A h : W!header_content_type(h) = WP!header_content_type(h) /\ W!is_encrypted(h) = WP!is_encrypted(h)
    BY Zenon DEF W!header_content_type, WP!header_content_type, W!is_encrypted, WP!is_encrypted
  <2>2. \A h : W!trailer_content_type(h) = WP!trailer_content_type(h)
    BY Zenon DEF W!trailer_content_type, WP!trailer_content_type
  <2>3. \A n : W!RecordLength(n) = WP!RecordLength(n)
    BY SMT DEF W!RecordLength, WP!RecordLength, W!HEADER_SIZE, WP!HEADER_SIZE, W!U16, WP!U16
  <2> QED BY <2>1, <2>2, <2>3 DEF W!Sealed, WP!Sealed
<1>9. \A next : W!HandshakeCall(next) = WP!HandshakeCall(next)
  BY Zenon DEF W!HandshakeCall, WP!HandshakeCall, W!NoCall, WP!NoCall
<1>10. \A op, n, g : W!WriteCall(op, n, g) = WP!WriteCall(op, n, g)
  BY Zenon DEF W!WriteCall, WP!WriteCall, W!NoCall, WP!NoCall
<1> QED BY <1>1, <1>2, <1>3, <1>4, <1>5, <1>6, <1>7, <1>8, <1>9, <1>10, Zenon

(* So are the parts of the calls, *)
LEMMA SameCalls ==
  /\ \A c, r : W!Return(c, r) = WP!Return(c, r)
  /\ \A h, n, c : W!SendRecord(h, n, c) = WP!SendRecord(h, n, c)
  /\ \A w, f, c : W!CloseAndSend(w, f, c) = WP!CloseAndSend(w, f, c)
  /\ \A w, f, n : W!AppendTo(w, f, n) = WP!AppendTo(w, f, n)
  /\ \A n : W!StartAndAppend(n) = WP!StartAndAppend(n)
  /\ W!CloseNotify = WP!CloseNotify
  /\ W!Callable = WP!Callable
<1>1. \A c, r : W!Return(c, r) = WP!Return(c, r)
  BY SameBuffer, Zenon DEF W!Return, WP!Return
<1>2. \A r, c : W!Transmit(r, c) = WP!Transmit(r, c)
  BY Zenon DEF W!Transmit, WP!Transmit
<1>3. \A h, n, c : W!SendRecord(h, n, c) = WP!SendRecord(h, n, c)
  <2>1. /\ \A h, n : W!write_record(wb, h, n) = WP!write_record(wb, h, n)
        /\ \A h, r : W!Sealed(h, r, appended, appended) = WP!Sealed(h, r, appended, appended)
    BY SameBuffer, Zenon
  <2> QED BY <1>1, <1>2, <2>1, ZenonT(60) DEF W!SendRecord, WP!SendRecord
<1>4. \A w, f, c : W!CloseAndSend(w, f, c) = WP!CloseAndSend(w, f, c)
  <2>1. /\ \A w : W!close_record(w) = WP!close_record(w)
        /\ \A h, r, lo, hi : W!Sealed(h, r, lo, hi) = WP!Sealed(h, r, lo, hi)
    BY SameBuffer, Zenon
  <2> QED
    BY <1>1, <1>2, <2>1, ZenonT(60) DEF W!CloseAndSend, WP!CloseAndSend, W!HEADER_SIZE, WP!HEADER_SIZE
<1>5. \A w, f, n : W!AppendTo(w, f, n) = WP!AppendTo(w, f, n)
  BY <1>1, <1>4, SameBuffer, ZenonT(60) DEF W!AppendTo, WP!AppendTo
<1>6. \A n : W!StartAndAppend(n) = WP!StartAndAppend(n)
  BY <1>1, <1>5, SameBuffer, Zenon DEF W!StartAndAppend, WP!StartAndAppend
<1>7. W!CloseNotify = WP!CloseNotify
  BY <1>3, SameBuffer, Zenon DEF W!CloseNotify, WP!CloseNotify
<1>8. W!Callable = WP!Callable
  BY Zenon DEF W!Callable, WP!Callable
<1> QED BY <1>1, <1>2, <1>3, <1>4, <1>5, <1>6, <1>7, <1>8, Zenon

(* and with them the sending half. *)
LEMMA SameWriter == (W!Init <=> WP!Init) /\ (W!Next <=> WP!Next) /\ W!vars = WP!vars
<1>1. W!vars = WP!vars
  BY DEF W!vars, WP!vars
<1>2. W!Init <=> WP!Init
  BY SameBuffer, Zenon DEF W!Init, WP!Init
<1>3. W!Handshake <=> WP!Handshake
  <2>1. W!ClientHello <=> WP!ClientHello
    BY SameBuffer, SameCalls, SMTT(30) DEF W!ClientHello, WP!ClientHello
  <2>2. W!ServerHello <=> WP!ServerHello
    BY SameBuffer, SameCalls DEF W!ServerHello, WP!ServerHello
  <2>3. W!ServerVerify <=> WP!ServerVerify
    BY SameBuffer, SameCalls DEF W!ServerVerify, WP!ServerVerify
  <2>4. W!AbortHandshake <=> WP!AbortHandshake
    BY SameBuffer, SameCalls, SMTT(30) DEF W!AbortHandshake, WP!AbortHandshake
  <2>5. W!ClientCert <=> WP!ClientCert
    BY SameBuffer, SameCalls, SMTT(30) DEF W!ClientCert, WP!ClientCert
  <2>6. W!ClientCertVerify <=> WP!ClientCertVerify
    BY SameBuffer, SameCalls DEF W!ClientCertVerify, WP!ClientCertVerify
  <2>7. W!ClientFinished <=> WP!ClientFinished
    BY SameBuffer, SameCalls DEF W!ClientFinished, WP!ClientFinished
  <2> QED BY <2>1, <2>2, <2>3, <2>4, <2>5, <2>6, <2>7, Zenon DEF W!Handshake, WP!Handshake
<1>4. W!Application <=> WP!Application
  <2>1. W!Write <=> WP!Write
    BY SameBuffer, SameCalls DEF W!Write, WP!Write
  <2>2. W!Flush <=> WP!Flush
    BY SameBuffer, SameCalls DEF W!Flush, WP!Flush
  <2>3. W!Close <=> WP!Close
    BY SameBuffer, SameCalls DEF W!Close, WP!Close
  <2>4. W!SetFlushPolicy <=> WP!SetFlushPolicy
    BY SameBuffer, SameCalls DEF W!SetFlushPolicy, WP!SetFlushPolicy
  <2> QED BY <2>1, <2>2, <2>3, <2>4, Zenon DEF W!Application, WP!Application
<1>5. W!Transport <=> WP!Transport
  <2>1. W!WriteAllDone <=> WP!WriteAllDone
    BY SameBuffer, SameCalls, SMTT(30) DEF W!WriteAllDone, WP!WriteAllDone
  <2>2. W!WriteAllInterrupted <=> WP!WriteAllInterrupted
    BY SameBuffer, SameCalls, SMTT(30) DEF W!WriteAllInterrupted, WP!WriteAllInterrupted
  <2>3. W!FlushTransportFailed <=> WP!FlushTransportFailed
    BY SameBuffer, SameCalls DEF W!FlushTransportFailed, WP!FlushTransportFailed
  <2>4. W!HandshakeSent <=> WP!HandshakeSent
    BY SameBuffer, SameCalls DEF W!HandshakeSent, WP!HandshakeSent
  <2>5. W!CallSent <=> WP!CallSent
    BY SameBuffer, SameCalls DEF W!CallSent, WP!CallSent
  <2> QED BY <2>1, <2>2, <2>3, <2>4, <2>5, Zenon DEF W!Transport, WP!Transport
<1>6. W!PeerClosed <=> WP!PeerClosed
  BY Zenon DEF W!PeerClosed, WP!PeerClosed
<1>7. W!Finished <=> WP!Finished
  BY Zenon DEF W!Finished, WP!Finished, W!vars, WP!vars
<1> QED BY <1>1, <1>2, <1>3, <1>4, <1>5, <1>6, <1>7, Zenon DEF W!Next, WP!Next
-----------------------------------------------------------------------------
(* The sizes the connection is built with are ones the sending half is proved for. *)
LEMMA WriterConstants == WP!BufLenAssumption /\ WP!WriterAssumption
BY ConnectionAssumption
   DEF W!BufLenAssumption, WP!BufLenAssumption, W!WriterAssumption, WP!WriterAssumption,
       W!TLS_RECORD_OVERHEAD, WP!TLS_RECORD_OVERHEAD, W!MIN_CLIENT_HELLO, WP!MIN_CLIENT_HELLO

(* The sending half of a connection keeps the inductive invariant it has alone. *)
LEMMA WriterInvariant == Spec => []CallsInOrder /\ [][WP!Next]_(WP!vars) /\ []WP!IInv
<1>1. WP!Spec => []WP!IInv
  BY WriterConstants, WP!Invariance, PTL
<1>2. Init => WP!Init
  BY SameWriter DEF Init
<1>3. CallsInOrder /\ [Next]_vars => [WP!Next]_(WP!vars)
  BY WriterHalf, SameWriter, Zenon DEF W!vars, WP!vars
<1> QED BY <1>1, <1>2, <1>3, InitInOrder, NextInOrder, PTL DEF Spec, WP!Spec

(* Before the peer's close_notify nothing is said; after it the sending half only
   sends what it holds. *)
LEMMA InitClosed == Init => Closed
<1> SUFFICES ASSUME Init PROVE Closed
  OBVIOUS
<1>1. closedAt = -1 /\ wire = <<>>
  BY DEF Init, W!Init
<1> QED BY <1>1 DEF Closed

LEMMA ClosedStep ==
  WP!IInv /\ WP!IInv' /\ [WP!Next]_(WP!vars) /\ Closed /\ [Next]_vars =>
    Closed' /\ (closedAt >= 0 => appended' = appended)
<1> SUFFICES ASSUME WP!IInv, WP!IInv', [WP!Next]_(WP!vars), Closed, [Next]_vars
             PROVE  Closed' /\ (closedAt >= 0 => appended' = appended)
  BY SMTT(30)
<1>1. Len(wire) \in Nat /\ Len(wire') \in Nat /\ closedAt \in -1 .. Len(wire)
  BY DEF WP!IInv, WP!TypeOK, Closed
<1>2. CASE closedAt' = closedAt /\ closedAt = -1
  BY <1>1, <1>2 DEF Closed
<1>3. CASE closedAt' = closedAt /\ closedAt >= 0
  <2>1. WP!Drains
    <3>1. state = "ApplicationData" /\ ~opened
      BY <1>3, SMTT(30) DEF Closed
    <3> QED BY <3>1, WriterConstants, WP!OnlyDrains, Zenon DEF WP!BufLenAssumption, WP!WriterAssumption
  <2>2. /\ appended' = appended /\ state' = state /\ opened' = opened
        /\ Len(wire') \in {Len(wire), Len(wire) + 1}
        /\ \A i \in 1 .. Len(wire) : wire'[i].inner = wire[i].inner
        /\ wb'.current_header = "ApplicationData" =>
             wb.current_header = "ApplicationData" /\ Len(wire') = Len(wire)
        /\ Len(wire') = Len(wire) + 1 /\ wire'[Len(wire')].inner = "ApplicationData" =>
             wb.current_header = "ApplicationData"
    BY <2>1, SMTT(30) DEF WP!Drains
  <2>3. SealedSince' \subseteq SealedSince \cup {Len(wire) + 1}
    BY <1>1, <1>3, <2>2 DEF SealedSince
  <2>4. Len(wire) + 1 \in SealedSince' => wb.current_header = "ApplicationData"
    BY <1>1, <1>3, <2>2 DEF SealedSince
  <2>5. Len(wire') = Len(wire) => SealedSince' \subseteq SealedSince
    BY <1>1, <1>3, <2>2 DEF SealedSince
  <2>6. \A i, j \in SealedSince' : i = j
    BY <1>3, <2>3, <2>4 DEF Closed
  <2>7. wb'.current_header = "ApplicationData" => SealedSince' = {}
    BY <1>3, <2>2, <2>5 DEF Closed
  <2>8. closedAt' \in -1 .. Len(wire')
    BY <1>1, <1>3, <2>2
  <2> QED BY <1>3, <2>2, <2>6, <2>7, <2>8 DEF Closed
<1>4. CASE closedAt' # closedAt
  <2>1. ReaderCalls \/ ReaderGoesOn \/ ReaderInterrupted
    BY <1>4 DEF Next, vars, Open, Close, SetFlushPolicy, Write, Flush, WriterGoesOn, Writer, Split, Join, Done
  <2>2. /\ state = "ApplicationData" /\ opened /\ ~opened'
        /\ closedAt' = Len(wire) /\ UNCHANGED wvars
    BY <1>4, <2>1 DEF ReaderCalls, ReaderGoesOn, ReaderInterrupted, Readable, Reader
  <2>3. ~(closedAt >= 0)
    BY <2>2 DEF Closed
  <2>4. wire' = wire /\ state' = state
    BY <2>2, SMTT(30) DEF wvars
  <2>5. SealedSince' = {}
    BY <1>1, <2>2, <2>4 DEF SealedSince
  <2> QED BY <1>1, <2>2, <2>3, <2>4, <2>5 DEF Closed
<1> QED BY <1>1, <1>2, <1>3, <1>4

(* That is at most one record. *)
AtMostOneRecord == closedAt >= 0 => Cardinality(SealedSince) <= 1

LEMMA ClosedBounds == Closed => AtMostOneRecord
<1> SUFFICES ASSUME Closed, closedAt >= 0 PROVE Cardinality(SealedSince) <= 1
  BY SMTT(30) DEF AtMostOneRecord
<1>1. CASE SealedSince = {}
  BY <1>1, FS_EmptySet
<1>2. ASSUME NEW i \in SealedSince PROVE Cardinality(SealedSince) <= 1
  <2>1. SealedSince = {i}
    BY <1>2 DEF Closed
  <2> QED BY <2>1, FS_Singleton
<1> QED BY <1>1, <1>2

(* Once read() has met the peer's close_notify, write() takes nothing more, at
   whatever step of its own a concurrent writer then is, and at most the record
   that was being filled is still sealed: for every size of the buffers, every
   stream of the peer and every number of records. *)
THEOREM ClosedSafety == Spec => NothingTakenAfterClose
<1>1. AtMostOneRecord' => (closedAt' >= 0 => Cardinality(SealedSince') <= 1)
  BY SMTT(30) DEF AtMostOneRecord
<1> QED
  BY <1>1, InitClosed, ClosedStep, ClosedBounds, WriterInvariant, PTL DEF Spec, NothingTakenAfterClose
=============================================================================
