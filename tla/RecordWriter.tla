---------------------------- MODULE RecordWriter ----------------------------
(***************************************************************************)
(* The sending half of a TlsConnection, from the first byte of open() to   *)
(* close(): the handshake records that State::process answers with, then   *)
(* write, flush and close, as in src/asynch.rs and src/blocking.rs.        *)
(*                                                                         *)
(* Every await on the transport is a step of its own.  It may succeed,     *)
(* fail, or never be resumed because the caller dropped the future; in     *)
(* split mode the reading half may clear `opened' in between.              *)
(***************************************************************************)
EXTENDS WriteBuffer, Sequences, FiniteSets

CONSTANTS
  HelloLen,      \* encoded length of the ClientHello
  HandshakeLens, \* encoded lengths of ClientCert and ClientCertVerify
  FinishedLen,   \* encoded length of Finished: 4 + the size of the hash
  WriteSizes,    \* lengths of the slices the application passes to write()
  CounterMax,    \* u64::MAX
  MaxRecords     \* bound: no call is made once this many records were sealed

(* The fixed fields of a ClientHello, its key share and the extensions that
   ClientHello::encode always writes take 147 bytes. *)
MIN_CLIENT_HELLO == 147

ASSUME WriterAssumption ==
  /\ HelloLen \in Nat /\ HelloLen >= MIN_CLIENT_HELLO
  /\ HandshakeLens \subseteq Nat
  /\ FinishedLen \in Nat
  /\ WriteSizes \subseteq Nat
  /\ CounterMax \in Nat
  /\ MaxRecords \in Nat

VARIABLES
  wb,        \* record_write_buf
  first,     \* stream position of the first payload byte in wb
  appended,  \* bytes of the application's stream copied into wb so far
  opened,    \* the AtomicBool shared with the reading half
  state,     \* the handshake's State, or "Failed" once open() returned an error
  key,       \* which traffic secret the write key schedule holds: 0 none,
             \* 1 handshake, 2 application
  counter,   \* the record counter of the write key schedule
  strict,    \* flush_policy = Strict
  pc,        \* "idle", "sending" (write_all), "sent" (after it), "closed", "panic"
  call,      \* the call in progress and what it still has to do
  wire,      \* history: the records handed to the transport
  res        \* result of the last finished call of the application

vars == <<wb, first, appended, opened, state, key, counter, strict, pc, call, wire, res>>

States == {"ClientHello", "ServerHello", "ServerVerify", "ClientCert", "ClientCertVerify",
           "ClientFinished", "ApplicationData", "Failed"}

NoCall == [op |-> "none", next |-> "Failed", asked |-> 0, got |-> 0]
HandshakeCall(next) == [NoCall EXCEPT !.op = "open", !.next = next]
WriteCall(op, asked, got) == [NoCall EXCEPT !.op = op, !.asked = asked, !.got = got]

Init ==
  /\ wb = EmptyBuffer
  /\ first = 0
  /\ appended = 0
  /\ opened = FALSE
  /\ state = "ClientHello"
  /\ key = 0
  /\ counter = 0
  /\ strict = TRUE
  /\ pc = "idle"
  /\ call = NoCall
  /\ wire = <<>>
  /\ res = [call |-> NoCall, res |-> "Ok"]
-----------------------------------------------------------------------------
(* What the sealed record r.len bytes long looks like to the peer. *)
Sealed(h, r, lo, hi) ==
  [outer    |-> header_content_type(h),
   inner    |-> trailer_content_type(h),
   enc      |-> is_encrypted(h),
   key      |-> key,
   counter  |-> counter,
   lo       |-> lo,
   hi       |-> hi,
   len      |-> r.len,
   declared |-> RecordLength(r.len),
   done     |-> FALSE]

Transmit(record, c) ==
  /\ wire' = Append(wire, record)
  /\ pc' = "sending"
  /\ call' = c

(* The call returns an error before anything was handed to the transport. *)
Return(c, r) ==
  /\ pc' = IF r = "Panic" THEN "panic"
           ELSE IF c.op \in {"close_flush", "close"} THEN "closed" ELSE "idle"
  /\ state' = IF c.op = "open" THEN "Failed" ELSE state
  /\ res' = [call |-> c, res |-> r]
  /\ call' = NoCall
  /\ UNCHANGED wire

(* WriteBuffer::write_record and the respond that follows it. *)
SendRecord(h, n, c) ==
  LET r == write_record(wb, h, n)
  IN  /\ wb' = r.wb
      /\ IF r.res = "Ok"
         THEN Transmit(Sealed(h, r, appended, appended), c) /\ UNCHANGED <<state, res>>
         ELSE Return(c, r.res)

(* close_record on buffer w, holding the stream bytes f+1 .. f+payload. *)
CloseAndSend(w, f, c) ==
  LET r == close_record(w)
      payload == IF w.current_header = "ApplicationData" THEN w.pos - HEADER_SIZE ELSE 0
  IN  /\ wb' = r.wb
      /\ IF r.res = "Ok"
         THEN /\ Transmit(Sealed(w.current_header, r, f, f + payload), c)
              /\ UNCHANGED <<state, res>>
         ELSE Return(c, r.res)
-----------------------------------------------------------------------------
(* open(): one action per answer of State::process. *)

ClientHello ==
  /\ pc = "idle" /\ state = "ClientHello"
  /\ SendRecord("HandshakePlain", HelloLen, HandshakeCall("ServerHello"))
  /\ UNCHANGED <<first, appended, opened, key, counter, strict>>

(* initialize_handshake_secret installs fresh keys and restarts the counter. *)
ServerHello ==
  /\ pc = "idle" /\ state = "ServerHello"
  /\ \/ key' = 1 /\ counter' = 0 /\ state' = "ServerVerify"
     \/ state' = "Failed" /\ UNCHANGED <<key, counter>>
  /\ UNCHANGED <<wb, first, appended, opened, strict, pc, call, wire, res>>

(* The server's Finished was verified, or its flight was rejected. *)
ServerVerify ==
  /\ pc = "idle" /\ state = "ServerVerify"
  /\ state' \in {"ClientCert", "ClientFinished", "Failed"}
  /\ UNCHANGED <<wb, first, appended, opened, key, counter, strict, pc, call, wire, res>>

(* handle_processing_error: AbortHandshake answers with an unencrypted alert. *)
AbortHandshake ==
  /\ pc = "idle" /\ state = "ServerVerify"
  /\ SendRecord("AlertPlain", 2, HandshakeCall("Failed"))
  /\ UNCHANGED <<first, appended, opened, key, counter, strict>>

ClientCert ==
  /\ pc = "idle" /\ state = "ClientCert"
  /\ \E n \in HandshakeLens, next \in {"ClientCertVerify", "ClientFinished"} :
       SendRecord("HandshakeEnc", n, HandshakeCall(next))
  /\ UNCHANGED <<first, appended, opened, key, counter, strict>>

(* Without a signer, an encrypted close_notify goes out and open() fails. *)
ClientCertVerify ==
  /\ pc = "idle" /\ state = "ClientCertVerify"
  /\ \/ \E n \in HandshakeLens : SendRecord("HandshakeEnc", n, HandshakeCall("ClientFinished"))
     \/ SendRecord("AlertEnc", 2, HandshakeCall("Failed"))
  /\ UNCHANGED <<first, appended, opened, key, counter, strict>>

ClientFinished ==
  /\ pc = "idle" /\ state = "ClientFinished"
  /\ SendRecord("HandshakeEnc", FinishedLen, HandshakeCall("ApplicationData"))
  /\ UNCHANGED <<first, appended, opened, key, counter, strict>>
-----------------------------------------------------------------------------
(* open() borrows the connection exclusively, so no other call is made before it
   returned. *)
Callable == pc = "idle" /\ state \in {"ClientHello", "ApplicationData", "Failed"}

(* write(): start a record unless one is open, copy what fits, and flush a full
   buffer.  The copied bytes count as appended even if that flush then fails. *)

AppendTo(w, f, n) ==
  LET r == append(w, n)
      c == WriteCall("write", n, r.len)
  IN  /\ first' = f
      /\ appended' = appended + r.len
      /\ IF r.res = "Ok" /\ is_full(r.wb)
         THEN CloseAndSend(r.wb, f, c)
         ELSE wb' = r.wb /\ Return(c, r.res)

StartAndAppend(n) ==
  LET s == start_record(wb, "ApplicationData")
  IN  IF s.res = "Ok"
      THEN AppendTo(s.wb, appended, n)
      ELSE /\ wb' = s.wb
           /\ Return(WriteCall("write", n, 0), s.res)
           /\ UNCHANGED <<first, appended>>

(* Mutant: an open record is not looked for. *)
Write_AlwaysStarts ==
  /\ pc = "idle" /\ opened /\ Len(wire) < MaxRecords
  /\ \E n \in WriteSizes : StartAndAppend(n)
  /\ UNCHANGED <<opened, key, counter, strict>>

(* Mutant: the flag is looked at when the connection opens, not by every call. *)
Write_Unchecked ==
  /\ pc = "idle" /\ state = "ApplicationData" /\ Len(wire) < MaxRecords
  /\ \E n \in WriteSizes :
       IF contains(wb, "ApplicationData") THEN AppendTo(wb, first, n)
       ELSE IF is_empty(wb) THEN StartAndAppend(n)
       ELSE CloseAndSend(wb, first, WriteCall("write_flush", n, 0)) /\ UNCHANGED <<first, appended>>
  /\ UNCHANGED <<opened, key, counter, strict>>

Write ==
  /\ pc = "idle" /\ opened /\ Len(wire) < MaxRecords
  /\ \E n \in WriteSizes :
       IF contains(wb, "ApplicationData") THEN AppendTo(wb, first, n)
       ELSE IF is_empty(wb) THEN StartAndAppend(n)
       ELSE CloseAndSend(wb, first, WriteCall("write_flush", n, 0)) /\ UNCHANGED <<first, appended>>
  /\ UNCHANGED <<opened, key, counter, strict>>

(* Mutant: only a full buffer is worth a record. *)
Flush_FullOnly ==
  /\ Callable /\ Len(wire) < MaxRecords
  /\ IF ~is_full(wb)
     THEN wb' = wb /\ Return(WriteCall("flush", 0, 0), "Ok")
     ELSE CloseAndSend(wb, first, WriteCall("flush", 0, 0))
  /\ UNCHANGED <<first, appended, opened, key, counter, strict>>

Flush ==
  /\ Callable /\ Len(wire) < MaxRecords
  /\ IF is_empty(wb)
     THEN wb' = wb /\ Return(WriteCall("flush", 0, 0), "Ok")
     ELSE CloseAndSend(wb, first, WriteCall("flush", 0, 0))
  /\ UNCHANGED <<first, appended, opened, key, counter, strict>>

(* close_internal flushes, then sends a close_notify that is encrypted only if
   the connection is still open. *)
CloseNotify ==
  SendRecord(IF opened THEN "AlertEnc" ELSE "AlertPlain", 2, WriteCall("close", 0, 0))

Close ==
  /\ Callable
  /\ IF is_empty(wb)
     THEN CloseNotify
     ELSE CloseAndSend(wb, first, WriteCall("close_flush", 0, 0))
  /\ UNCHANGED <<first, appended, opened, key, counter, strict>>

SetFlushPolicy ==
  /\ Callable
  /\ strict' = ~strict
  /\ UNCHANGED <<wb, first, appended, opened, state, key, counter, pc, call, wire, res>>
-----------------------------------------------------------------------------
(* The transport's answers. *)

(* Mutant: the addition is not checked. *)
WriteAllDone_Unchecked ==
  /\ pc = "sending"
  /\ wire' = [wire EXCEPT ![Len(wire)].done = TRUE]
  /\ pc' = "sent" /\ counter' = counter + 1
  /\ UNCHANGED <<wb, first, appended, opened, state, key, strict, call, res>>

(* Mutant: the counter moves on only where the transport is flushed as well. *)
WriteAllDone_StrictOnly ==
  /\ pc = "sending"
  /\ wire' = [wire EXCEPT ![Len(wire)].done = TRUE]
  /\ pc' = "sent"
  /\ counter' = IF strict /\ counter < CounterMax THEN counter + 1 ELSE counter
  /\ UNCHANGED <<wb, first, appended, opened, state, key, strict, call, res>>

(* write_all is over; increment_counter unwraps a checked addition. *)
WriteAllDone ==
  /\ pc = "sending"
  /\ wire' = [wire EXCEPT ![Len(wire)].done = TRUE]
  /\ IF counter < CounterMax
     THEN pc' = "sent" /\ counter' = counter + 1
     ELSE pc' = "panic" /\ UNCHANGED counter
  /\ UNCHANGED <<wb, first, appended, opened, state, key, strict, call, res>>

(* write_all failed, or its future was dropped: the buffer is already empty
   and the counter stays. *)
WriteAllInterrupted ==
  /\ pc = "sending"
  /\ Return(call, "Io")
  /\ UNCHANGED <<wb, first, appended, opened, key, counter, strict>>

(* The transport's flush failed: the record itself was written. *)
FlushTransportFailed ==
  /\ pc = "sent"
  /\ call.op \in {"open", "close"} \/ strict
  /\ Return(call, "Io")
  /\ UNCHANGED <<wb, first, appended, opened, key, counter, strict>>

(* Mutant: the new keys go on counting where the old ones stopped. *)
HandshakeSent_KeepsCounter ==
  /\ pc = "sent" /\ call.op = "open"
  /\ state' = call.next
  /\ IF call.next = "ApplicationData"
     THEN key' = 2 /\ opened' = TRUE
     ELSE UNCHANGED <<key, opened>>
  /\ pc' = "idle" /\ call' = NoCall
  /\ UNCHANGED <<wb, first, appended, counter, strict, wire, res>>

(* What remains of the call once its record was sent and flushed. *)
HandshakeSent ==
  /\ pc = "sent" /\ call.op = "open"
  /\ state' = call.next
  /\ IF call.next = "ApplicationData"
     THEN key' = 2 /\ counter' = 0 /\ opened' = TRUE
     ELSE UNCHANGED <<key, counter, opened>>
  /\ pc' = "idle" /\ call' = NoCall
  /\ UNCHANGED <<wb, first, appended, strict, wire, res>>

CallSent ==
  /\ pc = "sent" /\ call.op # "open"
  /\ CASE call.op = "close_flush" -> CloseNotify /\ UNCHANGED <<first, appended>>
       [] call.op = "write_flush" -> StartAndAppend(call.asked)
       [] OTHER -> Return(call, "Ok") /\ UNCHANGED <<wb, first, appended>>
  /\ UNCHANGED <<opened, key, counter, strict>>

(* The reading half received close_notify; close() owns both halves. *)
PeerClosed ==
  /\ opened /\ pc # "closed" /\ call.op \notin {"close_flush", "close"}
  /\ opened' = FALSE
  /\ UNCHANGED <<wb, first, appended, state, key, counter, strict, pc, call, wire, res>>

Finished == pc \in {"closed", "panic"} /\ UNCHANGED vars

Handshake ==
  \/ ClientHello \/ ServerHello \/ ServerVerify \/ AbortHandshake
  \/ ClientCert \/ ClientCertVerify \/ ClientFinished

Application == Write \/ Flush \/ Close \/ SetFlushPolicy

Transport ==
  \/ WriteAllDone \/ WriteAllInterrupted \/ FlushTransportFailed
  \/ HandshakeSent \/ CallSent

Next == Handshake \/ Application \/ Transport \/ PeerClosed \/ Finished

Spec == Init /\ [][Next]_vars
-----------------------------------------------------------------------------
(* Properties. *)

CallType ==
  [op : {"none", "open", "write", "write_flush", "flush", "close_flush", "close"},
   next : States, asked : Nat, got : Nat]

WireRecord ==
  [outer : {"Handshake", "ChangeCipherSpec", "ApplicationData"},
   inner : {"Handshake", "Alert", "ApplicationData"}, enc : BOOLEAN,
   key : 0 .. 2, counter : Nat, lo : Nat, hi : Nat, len : Nat, declared : Nat,
   done : BOOLEAN]

Outcomes == {"Ok", "Panic", "Io", "InternalError", "EncodeError", "InsufficientSpace",
             "InvalidApplicationData"}

(* Every variable of the sending half keeps the type its Rust field has. *)
TypeOK ==
  /\ wb \in WriteBufferType
  /\ first \in Nat /\ appended \in Nat
  /\ opened \in BOOLEAN /\ strict \in BOOLEAN
  /\ state \in States
  /\ key \in 0 .. 2 /\ counter \in 0 .. CounterMax
  /\ pc \in {"idle", "sending", "sent", "closed", "panic"}
  /\ call \in CallType
  /\ wire \in Seq(WireRecord)
  /\ res \in [call : CallType, res : Outcomes]

IsApp(i) == wire[i].inner = "ApplicationData"

(* Stream bytes that wb holds and no record carries yet. *)
Buffered ==
  IF wb.current_header = "ApplicationData" THEN first + 1 .. first + (wb.pos - HEADER_SIZE) ELSE {}

(* Two records sealed under one traffic secret carry the same counter only if
   the transport interrupted the first of them: increment_counter runs after
   write_all, and close_record has emptied the buffer before it. *)
NonceNeverReused ==
  \A i, j \in 1 .. Len(wire) :
    /\ i < j
    /\ wire[i].enc /\ wire[j].enc
    /\ wire[i].key = wire[j].key
    /\ wire[i].counter = wire[j].counter
    => ~wire[i].done

(* A peer that decrypts every record it gets in full counts as the writer does:
   a record sealed after k complete ones of its key, and no interrupted one,
   carries counter k, whatever unencrypted records went out in between. *)
PeerInSync ==
  \A j \in 1 .. Len(wire) :
    LET before == {i \in 1 .. j - 1 : wire[i].enc /\ wire[i].key = wire[j].key}
    IN  wire[j].enc /\ (\A i \in before : wire[i].done)
          => wire[j].counter = Cardinality(before)

(* Between write() and the wire no byte is lost, repeated or reordered: the
   payloads follow each other in stream order, and each byte that write() took
   is in exactly one record or still in the buffer. *)
StreamIntact ==
  /\ \A i, j \in 1 .. Len(wire) : i < j /\ IsApp(i) /\ IsApp(j) => wire[i].hi <= wire[j].lo
  /\ \A i \in 1 .. Len(wire) : IsApp(i) => \A b \in Buffered : wire[i].hi < b
  /\ \A b \in 1 .. appended :
       \/ b \in Buffered
       \/ \E i \in 1 .. Len(wire) : IsApp(i) /\ wire[i].lo < b /\ b <= wire[i].hi

(* When flush() returns Ok and the transport interrupted no record so far, every
   byte that write() took has been written to the transport in a record. *)
FlushDelivers ==
  [][res' # res /\ res'.call.op = "flush" /\ res'.res = "Ok" /\ (\A i \in 1 .. Len(wire') : wire'[i].done)
     => \A b \in 1 .. appended' :
          \E i \in 1 .. Len(wire') :
             wire'[i].inner = "ApplicationData" /\ wire'[i].lo < b /\ b <= wire'[i].hi]_vars

(* The only panics are the exhausted counter and closing a connection whose
   handshake failed while a record was being sealed: an open connection never
   meets the unwrap of close_record, the debug assertion of start_record or an
   underflow of space(), with any buffer that the ClientHello fitted in. *)
PanicsExplained ==
  pc = "panic" => \/ counter = CounterMax
                  \/ state = "Failed" /\ wb.pos > 0 /\ wb.current_header = None

(* write() of a non-empty slice that returns Ok took at least one byte. *)
WriteMakesProgress ==
  res.call.op = "write" /\ res.res = "Ok" /\ res.call.asked > 0 => res.call.got > 0

(* Buffers in which no record is longer than its length field can say; a record
   of application data leaves room in the buffer that other records may fill. *)
LengthFits(app) ==
  (IF app THEN max_block_size + 1 + TAG_SIZE ELSE BufLen) - HEADER_SIZE < U16

(* The two length bytes that close_record writes into the header, a cast to 16
   bits, say how long the record really is. *)
LengthFieldExact ==
  \A i \in 1 .. Len(wire) : LengthFits(IsApp(i)) => wire[i].declared + HEADER_SIZE = wire[i].len

(* The inductive invariant, part by part.

   What the buffer holds: an open application record is never full between
   calls, and a handshake record is left behind only by a failed handshake. *)
BufferShape ==
  /\ wb.current_header = "ApplicationData" =>
       state = "ApplicationData" /\ HEADER_SIZE <= wb.pos /\ wb.pos < max_block_size
  /\ wb.current_header \in ClientRecordHeader \ {"ApplicationData"} =>
       wb.pos = HEADER_SIZE /\ state = "Failed"
  /\ wb.current_header = None /\ wb.pos > 0 => state = "Failed"
  /\ wb.pos <= BufLen

(* Which keys are installed in a state of the handshake. *)
KeyOf(s) ==
  CASE s \in {"ClientHello", "ServerHello"} -> 0
    [] s = "ApplicationData"                -> 2
    [] OTHER                                -> 1

HelloFits == HelloLen + HEADER_SIZE <= BufLen

(* Where the handshake stands: any state behind the ClientHello means that the
   ClientHello fitted the buffer. *)
StateShape ==
  /\ opened => state = "ApplicationData"
  /\ state \notin {"ClientHello", "Failed"} => HelloFits
  /\ state # "Failed" => key = KeyOf(state)

(* Where a call stands while the transport has its record: the buffer is empty
   again, and the state that open() will go to matches the keys. *)
CallShape ==
  pc \in {"sending", "sent"} =>
    /\ wb = EmptyBuffer /\ Len(wire) > 0
    /\ call.op \in {"open", "write", "flush", "close_flush", "close"}
    /\ call.op = "open" =>
         /\ HelloFits /\ state # "ApplicationData" /\ call.next # "ClientHello"
         /\ call.next = "ApplicationData" => key = 1
         /\ call.next \notin {"ApplicationData", "Failed"} => key = KeyOf(call.next)
    /\ call.op = "write" => state = "ApplicationData" /\ (call.asked > 0 => call.got > 0)

(* Counters already used: none above the current one, and a complete record's
   counter lies strictly below it. *)
CountersBelow ==
  \A i \in 1 .. Len(wire) :
    /\ wire[i].key <= key
    /\ wire[i].key = key =>
         /\ wire[i].counter <= counter
         /\ wire[i].done /\ pc # "panic" => wire[i].counter < counter

(* The buffered bytes are the last ones appended, behind every record's. *)
StreamEnd ==
  /\ wb.current_header = "ApplicationData" => first + (wb.pos - HEADER_SIZE) = appended
  /\ \A i \in 1 .. Len(wire) : IsApp(i) =>
        /\ wire[i].lo <= wire[i].hi /\ wire[i].hi <= appended
        /\ wb.current_header = "ApplicationData" => wire[i].hi <= first

IInv ==
  /\ TypeOK /\ BufferShape /\ StateShape /\ CallShape /\ CountersBelow /\ StreamEnd
  /\ NonceNeverReused /\ StreamIntact /\ PanicsExplained /\ WriteMakesProgress

(* No record is longer than what it was put together in. *)
RecordBounds ==
  \A i \in 1 .. Len(wire) :
    /\ wire[i].declared = RecordLength(wire[i].len)
    /\ HEADER_SIZE <= wire[i].len
    /\ wire[i].len <= IF IsApp(i) THEN max_block_size + 1 + TAG_SIZE ELSE BufLen

(* The encrypted records of key k among the first n of w. *)
SealedUnder(w, k, n) == {i \in 1 .. n : w[i].enc /\ w[i].key = k}

(* The record that the transport has is the newest one, sealed as things stand,
   and a failed open() sends none. *)
InFlight ==
  /\ pc = "sending" =>
       /\ wire[Len(wire)].key = key /\ wire[Len(wire)].counter = counter
       /\ ~wire[Len(wire)].done
  /\ pc \in {"sending", "sent"} /\ call.op = "open" => state # "Failed"

(* Nothing more will be encrypted under this key: there is none yet, or open()
   failed or is about to, or close() is at its last record. *)
LastWords ==
  \/ pc \in {"closed", "panic"}
  \/ /\ ~is_encrypted(wb.current_header)
     /\ \/ key = 0 \/ state = "Failed"
        \/ /\ pc \in {"sending", "sent"}
           /\ call.op = "close" \/ (call.op = "open" /\ call.next = "Failed")

(* While the transport took every record of this key, the counter counts them. *)
Counted ==
  /\ pc = "sending" => wire[Len(wire)].enc
  /\ (\A i \in SealedUnder(wire, key, Len(wire)) : wire[i].done)
       => counter = Cardinality(SealedUnder(wire, key, Len(wire)))

PeerInv == InFlight /\ (LastWords \/ Counted) /\ PeerInSync

(* close() hands the socket back, with an error if need be; it never panics. *)
CloseReturnsSocket == pc # "panic"

(* A handshake that is aborted sends the peer an alert record. *)
AbortSendsAlert ==
  pc = "sending" /\ call.op = "open" /\ wire[Len(wire)].inner = "Alert" /\ ~wire[Len(wire)].enc
    => wire[Len(wire)].outer = "Alert"
=============================================================================
