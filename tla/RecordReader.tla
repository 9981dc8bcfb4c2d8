---------------------------- MODULE RecordReader ----------------------------
(***************************************************************************)
(* The receiving half of an open TlsConnection: RecordReader, decrypt_     *)
(* record, DecryptedReadHandler and the ReadBuffer lent to the application *)
(* (src/record_reader.rs, src/connection.rs, src/common, src/read_buffer.rs*)
(* and the read calls of src/asynch.rs and src/blocking.rs).               *)
(*                                                                         *)
(* The server's records are chosen at the start and form one byte stream.  *)
(* The transport hands it out in pieces of any size.  A byte is known by   *)
(* its position in the stream, so the read buffer maps cells to positions  *)
(* and authenticated decryption accepts exactly the cells of one record.   *)
(*                                                                         *)
(* A read may fail, or its future may be dropped, at every await: what was *)
(* read of a header is lost then, and `pending' keeps bytes whose header   *)
(* is gone.                                                                *)
(***************************************************************************)
EXTENDS Integers, Sequences

CONSTANTS
  BufLen,       \* length of the read buffer
  Streams,      \* sequences of records that the server may send
  TagSize,      \* length of the authentication tag
  ReadSizes,    \* lengths of the slices the application passes to read()
  GarbageLens   \* lengths that bytes which are no header may spell

HEADER_LEN == 5

Kinds == {"app", "ticket", "close_notify", "alert", "key_update"}

ServerRecord == [kind : Kinds, len : Nat, pad : Nat]

ASSUME ReaderAssumption ==
  /\ BufLen \in Nat \ {0}
  /\ TagSize \in Nat \ {0}
  /\ \A s \in Streams :
       /\ s \in Seq(ServerRecord)
       /\ \A i \in 1 .. Len(s) : s[i].kind = "close_notify" => i = Len(s)
  /\ ReadSizes \subseteq Nat \ {0}
  /\ GarbageLens \subseteq Nat

VARIABLES
  sent,      \* the server's records
  at,        \* how many bytes of the stream the transport has handed out
  buf,       \* the read buffer: cell -> position in the stream, 0 if unset
  decoded,   \* cells in front that belong to decoded records
  pending,   \* bytes behind them that were read and not decoded
  head,      \* bytes of the next header read so far
  header,    \* the decoded header: its content type and length
  remain,    \* what advance() still asks of the transport
  counter,   \* the record counter of the read key schedule
  opened,    \* the AtomicBool shared with the writing half
  dec,       \* DecryptedBufferInfo
  rb,        \* the ReadBuffer that the application holds, or NoBuffer
  taken,     \* history: positions of the bytes that the application consumed
  pc,        \* "idle", "header", "body" or "panic"
  call,      \* slice length of the pending read(), 0 for read_buffered()
  fault,     \* history: a read was interrupted inside a record
  res        \* result of the last finished call

vars == <<sent, at, buf, decoded, pending, head, header, remain, counter, opened, dec, rb, taken,
          pc, call, fault, res>>
reader == <<at, buf, decoded, pending, counter>>
locals == <<head, header, remain>>
-----------------------------------------------------------------------------
(* The stream, as the server wrote it (external). *)

ContentLength(r) == r.len + 1 + r.pad + TagSize

(* Start[i]: bytes in front of record i. *)
Start ==
  LET f[i \in 0 .. Len(sent)] ==
        IF i = 0 THEN 0 ELSE f[i - 1] + HEADER_LEN + ContentLength(sent[i])
  IN  [i \in 1 .. Len(sent) + 1 |-> f[i - 1]]

StreamLen == Start[Len(sent) + 1]

(* StreamUpTo[i]: the application's bytes in the first i records, in the order
   they were sent. *)
StreamUpTo ==
  LET at0 == Start
      f[i \in 0 .. Len(sent)] ==
        IF i = 0 THEN <<>>
        ELSE f[i - 1] \o IF sent[i].kind = "app"
                         THEN [k \in 1 .. sent[i].len |-> at0[i] + HEADER_LEN + k]
                         ELSE <<>>
  IN  f

Stream == StreamUpTo[Len(sent)]

NoHeader == [type |-> "None", len |-> 0]
NoBuffer == [held |-> FALSE, consumed |-> 0, used |-> FALSE]

Init ==
  /\ sent \in Streams
  /\ at = 0
  /\ buf = [c \in 0 .. BufLen - 1 |-> 0]
  /\ decoded \in 0 .. BufLen   \* the handshake's records went through the same buffer
  /\ pending = 0
  /\ head = 0 /\ header = NoHeader /\ remain = 0
  /\ counter = 0
  /\ opened = TRUE
  /\ dec = [offset |-> 0, len |-> 0, consumed |-> 0]
  /\ rb = NoBuffer
  /\ taken = <<>>
  /\ pc = "idle" /\ call = 0
  /\ fault = FALSE
  /\ res = "Ok"
-----------------------------------------------------------------------------
(* DecryptedBufferInfo and ReadBuffer. *)

Left(d) == d.len - d.consumed
is_empty(d) == Left(d) = 0

Least(a, b) == IF a < b THEN a ELSE b

(* Mutant: what was consumed before is handed out again. *)
Deliver_FromStart(b, d, n) ==
  /\ taken' = taken \o [k \in 1 .. n |-> b[d.offset + k - 1]]
  /\ dec' = [d EXCEPT !.consumed = d.consumed + n]

(* n bytes of the decrypted record d, in buffer b, go to the application. *)
Deliver(b, d, n) ==
  /\ taken' = taken \o [k \in 1 .. n |-> b[d.offset + d.consumed + k - 1]]
  /\ dec' = [d EXCEPT !.consumed = d.consumed + n]

(* Mutant: the last byte is left behind. *)
Answer_LeavesOne(c, b, d) ==
  /\ IF c > 0
     THEN Deliver(b, d, Least(c, Left(d)) - 1) /\ UNCHANGED rb
     ELSE rb' = [NoBuffer EXCEPT !.held = TRUE] /\ dec' = d /\ UNCHANGED taken
  /\ pc' = "idle" /\ call' = 0
  /\ res' = "Ok"

(* read_buffered has a record with unread bytes: read() pops what its slice
   holds, read_buffered() lends the rest out. *)
Answer(c, b, d) ==
  /\ IF c > 0
     THEN Deliver(b, d, Least(c, Left(d))) /\ UNCHANGED rb
     ELSE rb' = [NoBuffer EXCEPT !.held = TRUE] /\ dec' = d /\ UNCHANGED taken
  /\ pc' = "idle" /\ call' = 0
  /\ res' = "Ok"

Idle == pc = "idle" /\ ~rb.held

(* read() with a slice of n bytes, n > 0, or read_buffered() for n = 0. *)
ReadCall(n) ==
  /\ Idle /\ opened
  /\ IF is_empty(dec)
     THEN pc' = "header" /\ call' = n /\ UNCHANGED <<dec, rb, taken, res>>
     ELSE Answer(n, buf, dec)
  /\ UNCHANGED <<reader, locals, sent, opened, fault>>

Read == \E n \in ReadSizes : ReadCall(n)

ReadBuffered == ReadCall(0)

(* BufRead::consume pops from a fresh ReadBuffer, whether opened or not. *)
Consume ==
  /\ Idle
  /\ \E n \in ReadSizes : Deliver(buf, dec, Least(n, Left(dec)))
  /\ UNCHANGED <<reader, locals, sent, opened, rb, pc, call, fault, res>>

Pop ==
  /\ rb.held
  /\ \E n \in ReadSizes :
       rb' = [rb EXCEPT !.consumed = rb.consumed + Least(n, Left(dec) - rb.consumed), !.used = TRUE]
  /\ UNCHANGED <<reader, locals, sent, opened, dec, taken, pc, call, fault, res>>

Peek ==
  /\ rb.held
  /\ rb' = [rb EXCEPT !.used = TRUE]
  /\ UNCHANGED <<reader, locals, sent, opened, dec, taken, pc, call, fault, res>>

Revert ==
  /\ rb.held
  /\ rb' = NoBuffer
  /\ UNCHANGED <<reader, locals, sent, opened, dec, taken, pc, call, fault, res>>

Drop ==
  /\ rb.held
  /\ Deliver(buf, dec, IF rb.used THEN rb.consumed ELSE Left(dec))
  /\ rb' = NoBuffer
  /\ UNCHANGED <<reader, locals, sent, opened, pc, call, fault, res>>
-----------------------------------------------------------------------------
(* RecordReader::read. *)

(* read() of one record is over: its local variables are gone. *)
LocalsGone == head' = 0 /\ header' = NoHeader /\ remain' = 0

(* The call ends without data. *)
Fail(r) ==
  /\ pc' = IF r = "Panic" THEN "panic" ELSE "idle"
  /\ call' = 0
  /\ res' = r
  /\ UNCHANGED <<dec, rb, taken>>

(* RecordHeader::decode of the five bytes that end at position e: the header of
   the record that starts there, or whatever other bytes happen to spell. *)
Headers(e) ==
  IF \E i \in 1 .. Len(sent) : Start[i] + HEADER_LEN = e
  THEN {[type |-> "ApplicationData", len |-> ContentLength(sent[i])] :
          i \in {j \in 1 .. Len(sent) : Start[j] + HEADER_LEN = e}}
  ELSE [type : {"ApplicationData", "Plaintext", "None"}, len : GarbageLens]

(* Mutant: off by one. *)
Rotated_OffByOne(n) == decoded + n > BufLen + 1

(* ensure_contiguous moves the pending bytes to the front when a record of n
   bytes does not fit behind the decoded ones. *)
Rotated(n) == decoded + n > BufLen

EnsureContiguous(n) ==
  /\ buf' = IF Rotated(n)
            THEN [c \in 0 .. BufLen - 1 |-> IF c < pending THEN buf[decoded + c] ELSE buf[c]]
            ELSE buf
  /\ decoded' = IF Rotated(n) THEN 0 ELSE decoded

(* Five bytes are a header: a record that can never fit is an error, with its
   bytes still on the way. *)
HeaderDone(h) ==
  CASE h.type = "None" ->
         Fail("InvalidRecord") /\ LocalsGone /\ UNCHANGED <<buf, decoded, fault>>
    [] h.type # "None" /\ h.len > BufLen ->
         Fail("InsufficientSpace") /\ LocalsGone /\ fault' = TRUE /\ UNCHANGED <<buf, decoded>>
    [] OTHER ->
         /\ EnsureContiguous(h.len)
         /\ head' = 0 /\ header' = h /\ remain' = h.len
         /\ pc' = "body"
         /\ UNCHANGED <<dec, rb, taken, call, fault, res>>

HeaderRead ==
  /\ pc = "header"
  /\ \E n \in 1 .. Least(HEADER_LEN - head, StreamLen - at) :
       /\ at' = at + n
       /\ IF head + n < HEADER_LEN
          THEN head' = head + n /\ UNCHANGED <<header, remain, buf, decoded, dec, rb, taken, pc, call, fault, res>>
          ELSE \E h \in Headers(at + n) : HeaderDone(h)
  /\ UNCHANGED <<sent, pending, counter, opened>>

(* Mutant: every turn asks for the whole record. *)
BodyRead_Overreads ==
  /\ pc = "body" /\ pending < header.len
  /\ \E n \in 1 .. Least(Least(remain, StreamLen - at), BufLen - decoded - pending) :
       /\ at' = at + n
       /\ buf' = [c \in 0 .. BufLen - 1 |->
                    IF c \in decoded + pending .. decoded + pending + n - 1
                    THEN at + 1 + c - (decoded + pending) ELSE buf[c]]
       /\ pending' = pending + n
  /\ UNCHANGED <<sent, decoded, head, header, remain, counter, opened, dec, rb, taken, pc, call, fault, res>>

(* One turn of the loop of advance(): it asks for `remain' bytes, which is more
   than is missing if bytes were pending when it started. *)
BodyRead ==
  /\ pc = "body" /\ pending < header.len
  /\ IF decoded + pending + remain > BufLen
     THEN Fail("Panic") /\ LocalsGone /\ UNCHANGED <<at, buf, pending>>
     ELSE \E n \in 1 .. Least(remain, StreamLen - at) :
            /\ at' = at + n
            /\ buf' = [c \in 0 .. BufLen - 1 |->
                         IF c \in decoded + pending .. decoded + pending + n - 1
                         THEN at + 1 + c - (decoded + pending) ELSE buf[c]]
            /\ pending' = pending + n
            /\ remain' = remain - n
            /\ UNCHANGED <<head, header, dec, rb, taken, pc, call, res>>
  /\ UNCHANGED <<sent, decoded, counter, opened, fault>>

(* The records whose bytes, and no others, lie in the n cells behind `decoded',
   and whose place in the stream is the one the nonce is made for. *)
Authentic(n) ==
  {i \in 1 .. Len(sent) :
     /\ i = counter + 1
     /\ n = ContentLength(sent[i])
     /\ \A k \in 1 .. n : buf[decoded + k - 1] = Start[i] + HEADER_LEN + k}

(* No data yet: read_buffered goes on with the next record. *)
NextRecord == pc' = "header" /\ UNCHANGED <<rb, taken, call, res>>

(* Mutant: the plaintext is looked for at the front of the buffer. *)
Handle_OffsetZero(r) ==
  LET d == [offset |-> 0, len |-> r.len, consumed |-> 0]
  IN  CASE r.kind = "app" ->
             /\ counter' = counter + 1
             /\ IF is_empty(d) THEN dec' = d /\ NextRecord ELSE Answer(call, buf, d)
             /\ UNCHANGED opened
        [] r.kind = "close_notify" ->
             opened' = FALSE /\ Fail("ConnectionClosed") /\ UNCHANGED counter
        [] OTHER -> Fail("InternalError") /\ UNCHANGED <<counter, opened>>

(* Mutant: a session ticket is skipped without counting its record. *)
Handle_TicketUncounted(r) ==
  LET d == [offset |-> decoded, len |-> r.len, consumed |-> 0]
  IN  CASE r.kind = "app" ->
             /\ counter' = counter + 1
             /\ IF is_empty(d) THEN dec' = d /\ NextRecord ELSE Answer(call, buf, d)
             /\ UNCHANGED opened
        [] r.kind = "ticket" -> NextRecord /\ UNCHANGED <<counter, opened, dec>>
        [] r.kind = "close_notify" ->
             opened' = FALSE /\ Fail("ConnectionClosed") /\ UNCHANGED counter
        [] OTHER -> Fail("InternalError") /\ UNCHANGED <<counter, opened>>

(* decrypt_record and DecryptedReadHandler::handle for an authentic record.  The
   counter moves on only if the handler returned Ok. *)
Handle(r) ==
  LET d == [offset |-> decoded, len |-> r.len, consumed |-> 0]
  IN  CASE r.kind = "app" ->
             /\ counter' = counter + 1
             /\ IF is_empty(d) THEN dec' = d /\ NextRecord ELSE Answer(call, buf, d)
             /\ UNCHANGED opened
        [] r.kind = "ticket" ->
             counter' = counter + 1 /\ NextRecord /\ UNCHANGED <<opened, dec>>
        [] r.kind = "close_notify" ->
             opened' = FALSE /\ Fail("ConnectionClosed") /\ UNCHANGED counter
        [] OTHER ->
             /\ Fail(IF r.kind = "alert" THEN "InternalError" ELSE "Unimplemented")
             /\ UNCHANGED <<counter, opened>>

(* A record whose header says that it is not encrypted goes to the handler as it
   is; only bytes that are no record of the server look like that here. *)
HandlePlaintext ==
  \/ NextRecord /\ UNCHANGED <<opened, dec>>
  \/ Fail("Panic") /\ UNCHANGED opened
  \/ Fail("InternalError") /\ UNCHANGED opened
  \/ Fail("ConnectionClosed") /\ opened' = FALSE

(* Mutant: the header is counted as if it were in the buffer. *)
RecordComplete_CountsHeader ==
  /\ pc = "body" /\ pending >= header.len
  /\ decoded' = decoded + HEADER_LEN + header.len
  /\ pending' = pending - header.len
  /\ LocalsGone
  /\ IF Authentic(header.len) = {}
     THEN Fail("CryptoError") /\ UNCHANGED <<counter, opened>>
     ELSE \E i \in Authentic(header.len) : Handle(sent[i])
  /\ UNCHANGED <<sent, at, buf, fault>>

(* consume(), then what read_application_data and read_buffered do with the
   record: nothing in here awaits. *)
RecordComplete ==
  /\ pc = "body" /\ pending >= header.len
  /\ decoded' = decoded + header.len
  /\ pending' = pending - header.len
  /\ LocalsGone
  /\ IF header.type = "Plaintext"
     THEN HandlePlaintext /\ UNCHANGED counter
     ELSE IF Authentic(header.len) = {}
     THEN Fail("CryptoError") /\ UNCHANGED <<counter, opened>>
     ELSE \E i \in Authentic(header.len) : Handle(sent[i])
  /\ UNCHANGED <<sent, at, buf, fault>>

(* The transport fails or ends, or the future is dropped at an await. *)
Interrupted ==
  /\ \/ pc = "header"
     \/ pc = "body" /\ pending < header.len /\ decoded + pending + remain <= BufLen
  /\ Fail("Io") /\ LocalsGone
  /\ fault' = (fault \/ pc = "body" \/ head > 0)
  /\ UNCHANGED <<reader, sent, opened>>

(* Calls on a closed connection return MissingHandshake and change nothing. *)
Finished ==
  /\ pc = "panic" \/ (~opened /\ Idle /\ is_empty(dec))
  /\ UNCHANGED vars

Transport == HeaderRead \/ BodyRead \/ RecordComplete

Application == Read \/ ReadBuffered \/ Consume \/ Pop \/ Peek \/ Revert \/ Drop

Next == Transport \/ Application \/ Interrupted \/ Finished

Spec == Init /\ [][Next]_vars

(* No read is interrupted, the transport delivers, and the application, whatever
   else it does in between, calls read() again and again and lets go of every
   ReadBuffer. *)
CalmSpec ==
  /\ Init /\ [][Transport \/ Application \/ Finished]_vars
  /\ WF_vars(Transport) /\ SF_vars(Read) /\ WF_vars(Drop)
-----------------------------------------------------------------------------
(* Properties. *)

Errors == {"Io", "InvalidRecord", "InsufficientSpace", "CryptoError", "ConnectionClosed",
           "InternalError", "Unimplemented", "Panic"}

Refused(r) == r.kind \in {"alert", "key_update"}

(* Every variable of the receiving half keeps the type of its Rust field. *)
TypeOK ==
  /\ sent \in Streams
  /\ at \in 0 .. StreamLen
  /\ buf \in [0 .. BufLen - 1 -> 0 .. StreamLen]
  /\ decoded \in 0 .. BufLen /\ pending \in 0 .. BufLen
  /\ head \in 0 .. HEADER_LEN
  /\ header \in [type : {"ApplicationData", "Plaintext", "None"}, len : Nat]
  /\ remain \in Nat /\ counter \in Nat
  /\ opened \in BOOLEAN /\ fault \in BOOLEAN
  /\ dec \in [offset : Nat, len : Nat, consumed : Nat]
  /\ rb \in [held : BOOLEAN, consumed : Nat, used : BOOLEAN]
  /\ taken \in Seq(1 .. StreamLen)
  /\ pc \in {"idle", "header", "body", "panic"} /\ call \in ReadSizes \cup {0}
  /\ res \in Errors \cup {"Ok"}

(* The application's next bytes are in the buffer where DecryptedBufferInfo says,
   in stream order and unharmed, at every await: no rotation and no later read
   overwrites plaintext that was not taken yet. *)
UnreadIntact ==
  \A k \in 1 .. Left(dec) :
    /\ Len(taken) + k <= Len(Stream)
    /\ buf[dec.offset + dec.consumed + k - 1] = Stream[Len(taken) + k]

(* Only a read that was interrupted inside a record can lead to a panic. *)
PanicOnlyAfterFault == pc = "panic" => fault

(* Without an interruption, a record longer than the buffer, or a message the
   client refuses, no read ever fails: the reader stays in step with the server. *)
ErrorsExplained ==
  res \in {"InvalidRecord", "CryptoError", "InsufficientSpace"} =>
    fault \/ \E i \in 1 .. Len(sent) : Refused(sent[i])

(* Between calls on an open connection the stream is at a record boundary, nothing
   is pending, and the counter is the number of records in front of it, unless
   one of them was refused. *)
CounterInSync ==
  pc = "idle" /\ ~fault /\ opened =>
    \E n \in 0 .. Len(sent) :
      /\ at = Start[n + 1] /\ pending = 0
      /\ (\A i \in 1 .. n : ~Refused(sent[i])) => counter = n

Plain == INSTANCE ByteStream
           WITH stream <- Stream, got <- taken, closed <- (~opened /\ ~fault)

(* What the application consumes is the server's stream, in order, and the
   connection is seen as closed by the peer only at its end, whatever was
   interrupted where. *)
DeliversStream == Plain!Spec

(* Every record fits the buffer and is one that the client takes. *)
Readable ==
  \A i \in 1 .. Len(sent) : sent[i].kind \in {"app", "ticket", "close_notify"} /\ ContentLength(sent[i]) <= BufLen

(* Then an application that keeps reading gets every byte, past empty records and
   session tickets, and whatever use it makes of the ReadBuffer. *)
EveryByteRead == Readable => <>(taken = Stream)
-----------------------------------------------------------------------------
(* The inductive invariant of the proofs. *)

(* What lies in the buffer fits, and so does the record that is being read. *)
Bounds ==
  /\ decoded + pending <= BufLen
  /\ pc = "body" => decoded + header.len <= BufLen /\ header.type # "None"
  /\ head < HEADER_LEN /\ (pc # "header" => head = 0)

(* Records are read only when all plaintext is taken, and nothing but its holder
   touches a ReadBuffer. *)
Lent ==
  /\ pc \in {"header", "body"} => opened /\ is_empty(dec) /\ ~rb.held
  /\ IF rb.held THEN pc = "idle" ELSE rb = NoBuffer
  /\ dec.consumed <= dec.len /\ rb.consumed <= Left(dec)

(* The application has the bytes of the records counted so far, but for those
   that wait in the buffer. *)
Consumed ==
  /\ counter <= Len(sent)
  /\ Len(taken) + Left(dec) = Len(StreamUpTo[counter])
  /\ \A k \in 1 .. Len(taken) : taken[k] = Stream[k]

(* The reader is behind record n, or in record n + 1. *)
Behind(n) ==
  /\ pc # "panic"
  /\ pc \in {"idle", "header"} => at = Start[n + 1] + head /\ pending = 0
  /\ pc = "body" =>
       /\ n < Len(sent)
       /\ header = [type |-> "ApplicationData", len |-> ContentLength(sent[n + 1])]
       /\ at = Start[n + 1] + HEADER_LEN + pending
       /\ pending + remain = header.len
       /\ \A k \in 1 .. pending : buf[decoded + k - 1] = Start[n + 1] + HEADER_LEN + k
  /\ opened /\ (\A i \in 1 .. n : ~Refused(sent[i])) => counter = n

InStep == ~fault => \E n \in 0 .. Len(sent) : Behind(n)

ClosedAtEnd == ~opened /\ ~fault => taken = Stream /\ is_empty(dec)

IInv ==
  /\ TypeOK /\ Bounds /\ Lent /\ Consumed /\ UnreadIntact
  /\ InStep /\ ErrorsExplained /\ ClosedAtEnd
=============================================================================
