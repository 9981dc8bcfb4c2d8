-------------------------- MODULE SplitConnection --------------------------
(***************************************************************************)
(* A TlsConnection as a whole (src/asynch.rs, src/blocking.rs): the        *)
(* sending half of RecordWriter and the receiving half of RecordReader,    *)
(* which share the AtomicBool `opened'.  A connection that is not split    *)
(* lends itself to one call at a time; the TlsReader and TlsWriter of      *)
(* split() run at the same time, step by step in any order.                *)
(***************************************************************************)
EXTENDS Integers, Sequences, FiniteSets

CONSTANTS
  WriteBufLen, HelloLen, HandshakeLens, FinishedLen, WriteSizes, CounterMax, MaxRecords,
  ReadBufLen, Streams, TagSize, ReadSizes, GarbageLens

VARIABLES
  split,      \* the halves are lent out
  opened,     \* shared by the halves
  closedAt,   \* history: records sealed when the peer's close_notify cleared opened
  wb, first, appended, state, key, counter, strict, wpc, wcall, wire, wres,
  sent, at, buf, decoded, pending, head, header, remain, rcounter, dec, rb, taken, rpc, rcall, fault, rres

wvars == <<wb, first, appended, state, key, counter, strict, wpc, wcall, wire, wres>>
rvars == <<sent, at, buf, decoded, pending, head, header, remain, rcounter, dec, rb, taken, rpc, rcall, fault, rres>>
vars == <<split, opened, closedAt, wvars, rvars>>

W == INSTANCE RecordWriter WITH BufLen <- WriteBufLen, pc <- wpc, call <- wcall, res <- wres

(* The receiving half is in use once the handshake is over; until then it is as
   at its start, and open. *)
R == INSTANCE RecordReader
       WITH BufLen <- ReadBufLen, counter <- rcounter, pc <- rpc, call <- rcall, res <- rres

Half == INSTANCE RecordReader
          WITH BufLen <- ReadBufLen, counter <- rcounter, pc <- rpc, call <- rcall, res <- rres,
               opened <- (state # "ApplicationData" \/ opened)

ASSUME ConnectionAssumption == W!BufLenAssumption /\ W!WriterAssumption /\ R!ReaderAssumption

Init == W!Init /\ Half!Init /\ split = FALSE /\ closedAt = -1
-----------------------------------------------------------------------------
(* No call on the half is in progress, and it has lent out no ReadBuffer. *)
WriterIdle == wpc = "idle" /\ state \in {"ClientHello", "ApplicationData", "Failed"}
ReaderIdle == rpc = "idle" /\ ~rb.held

Writer(A) == A /\ UNCHANGED <<rvars, split, closedAt>>

(* open(), close() and set_flush_policy() are calls of the whole connection. *)
Whole == ~split /\ ReaderIdle

Open == Whole /\ Writer(W!Handshake)

(* Mutant: a half can close the connection. *)
Close_OfHalf == Writer(W!Close)

Close == Whole /\ Writer(W!Close)

SetFlushPolicy == Whole /\ Writer(W!SetFlushPolicy)

(* write() and flush() of either kind. *)
Write == (split \/ ReaderIdle) /\ Writer(W!Write)
Flush == (split \/ ReaderIdle) /\ Writer(W!Flush)

(* A call in progress goes on. *)
WriterGoesOn == Writer(W!Transport)

(* Steps of the reading half; the one that meets a close_notify clears opened. *)
Reader(A) ==
  /\ A
  /\ closedAt' = IF opened /\ ~opened' THEN Len(wire) ELSE closedAt
  /\ UNCHANGED <<wvars, split>>

Readable == state = "ApplicationData" /\ (split \/ WriterIdle)

ReaderCalls == Readable /\ Reader(R!Application)
ReaderGoesOn == Readable /\ Reader(R!Transport)
ReaderInterrupted == Readable /\ Reader(R!Interrupted)

Split ==
  /\ ~split /\ WriterIdle /\ ReaderIdle
  /\ split' = TRUE
  /\ UNCHANGED <<opened, closedAt, wvars, rvars>>

(* Both halves are dropped.  A call borrows its half, so none is in progress: one
   that is given up is an interrupted one before. *)
Join ==
  /\ split /\ WriterIdle /\ ReaderIdle
  /\ split' = FALSE
  /\ UNCHANGED <<opened, closedAt, wvars, rvars>>

Done == (wpc \in {"closed", "panic"} \/ rpc = "panic") /\ UNCHANGED vars

Next ==
  \/ Open \/ Close \/ SetFlushPolicy \/ Write \/ Flush \/ WriterGoesOn
  \/ ReaderCalls \/ ReaderGoesOn \/ ReaderInterrupted
  \/ Split \/ Join \/ Done

Spec == Init /\ [][Next]_vars

(* What the halves rely on: no call is left over when the sending half is idle,
   open() runs only before the connection is open, and a connection that is split
   is neither closed nor closing. *)
CallsInOrder ==
  /\ opened \in BOOLEAN
  /\ wpc = "idle" => wcall.op = "none"
  /\ wpc \in {"sending", "sent"} /\ wcall.op = "open" => state # "ApplicationData"
  /\ split => wpc # "closed" /\ wcall.op \notin {"close_flush", "close"}

(* The records of application data sealed since the peer's close_notify. *)
SealedSince == {i \in closedAt + 1 .. Len(wire) : wire[i].inner = "ApplicationData"}

(* What is left to send once the peer has closed: the record in the buffer, if it
   holds one, is the only one of application data. *)
Closed ==
  /\ closedAt \in -1 .. Len(wire)
  /\ closedAt >= 0 =>
       /\ state = "ApplicationData" /\ ~opened
       /\ \A i, j \in SealedSince : i = j
       /\ wb.current_header = "ApplicationData" => SealedSince = {}
-----------------------------------------------------------------------------
(* Put together, the halves are what each was checked as alone: every step of
   the connection is a step of RecordWriter or leaves it alone, and the same for
   RecordReader.  In particular the reading half clears `opened' only where
   RecordWriter allows for it, never under a close() in progress. *)
ImplementsHalves == W!Spec /\ Half!Spec

(* Once the reading half has seen the peer's close_notify, write() takes nothing
   more, even if it was waiting for the transport at that moment; what it took
   before goes out in at most one more record. *)
NothingTakenAfterClose ==
  [][/\ closedAt >= 0 => appended' = appended
     /\ closedAt' >= 0 => Cardinality(SealedSince') <= 1]_vars
=============================================================================
