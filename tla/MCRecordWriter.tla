--------------------------- MODULE MCRecordWriter ---------------------------
(* Small instances of RecordWriter for TLC. *)
EXTENDS RecordWriter

(* With a buffer of 152 bytes: a message that fits, one that fits unsealed
   only, and one that does not fit. *)
MCHandshakeLens == {36, 140, 148}
SealFailsLens == {140}

(* Nothing, a part of a record, more than a record. *)
MCWriteSizes == {0, 7, 30}

(* The recommended size of the read buffer. *)
ReadBufLen == 16640

(* open() can encode its ClientHello if the larger of the two buffers holds it. *)
HelloUsesLargerBuffer ==
  HelloLen + HEADER_SIZE <= ReadBufLen =>
    ~(res.call.op = "open" /\ res.call.next = "ServerHello" /\ res.res = "EncodeError")
=============================================================================
