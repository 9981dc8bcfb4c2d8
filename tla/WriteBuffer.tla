---------------------------- MODULE WriteBuffer ----------------------------
(***************************************************************************)
(* The buffer in which one outgoing record is put together and sealed      *)
(* (src/write_buffer.rs), with the record headers of src/record.rs and the *)
(* capacity checks of CryptoBuffer and encrypt.                            *)
(*                                                                         *)
(* A buffer is a record [pos, current_header]; its bytes are abstracted to *)
(* how many there are.  Fallible operations return [res, wb, len], where   *)
(* res is "Ok", an error, or "Panic" for a failed unwrap, debug assertion, *)
(* slice bound or usize subtraction.                                       *)
(***************************************************************************)
EXTENDS Integers

CONSTANT BufLen   \* buffer.len(), fixed when the connection is created

TLS_RECORD_OVERHEAD == 128
HEADER_SIZE == 5
TAG_SIZE == 16
U16 == 65536

(* WriteBuffer::new asserts this of every buffer. *)
ASSUME BufLenAssumption == BufLen \in Nat /\ BufLen > TLS_RECORD_OVERHEAD

-----------------------------------------------------------------------------
(* ClientRecordHeader: Handshake(bool), Alert(bool), ApplicationData. *)

ClientRecordHeader ==
  {"HandshakePlain", "HandshakeEnc", "AlertPlain", "AlertEnc", "ApplicationData"}

None == "None"

is_encrypted(h) == h \in {"HandshakeEnc", "AlertEnc", "ApplicationData"}

header_content_type(h) ==
  CASE h = "HandshakePlain" -> "Handshake"
    [] h = "AlertPlain"     -> "ChangeCipherSpec"
    [] OTHER                -> "ApplicationData"

trailer_content_type(h) ==
  CASE h \in {"HandshakePlain", "HandshakeEnc"} -> "Handshake"
    [] h \in {"AlertPlain", "AlertEnc"}         -> "Alert"
    [] OTHER                                    -> "ApplicationData"

-----------------------------------------------------------------------------
WriteBufferType == [pos : Nat, current_header : ClientRecordHeader \cup {None}]

EmptyBuffer == [pos |-> 0, current_header |-> None]

max_block_size == BufLen - TLS_RECORD_OVERHEAD

(* Mutant: the room kept for sealing is forgotten. *)
is_full_OfBuffer(wb) == wb.pos = BufLen

is_full(wb) == wb.pos = max_block_size

is_empty(wb) == wb.pos = 0

contains(wb, h) == wb.current_header = h

space(wb) == max_block_size - wb.pos

Result(r, wb, n) == [res |-> r, wb |-> wb, len |-> n]

(* Mutant: the whole slice is reported as taken. *)
append_ClaimsAll(wb, n) ==
  LET buffered == IF n < space(wb) THEN n ELSE space(wb)
  IN  Result("Ok", [wb EXCEPT !.pos = wb.pos + buffered], n)

(* len is the number of bytes taken; a negative space is the usize underflow. *)
append(wb, n) ==
  LET buffered == IF n < space(wb) THEN n ELSE space(wb)
  IN  IF space(wb) < 0
      THEN Result("Panic", wb, 0)
      ELSE Result("Ok", [wb EXCEPT !.pos = wb.pos + buffered], buffered)

(* The header is stored before the five bytes are encoded, and stays when
   encoding them fails. *)
start_record(wb, h) ==
  LET started == [wb EXCEPT !.current_header = h]
  IN  CASE wb.current_header # None       -> Result("Panic", wb, 0)
        [] wb.pos + HEADER_SIZE > BufLen  -> Result("EncodeError", started, 0)
        [] OTHER -> Result("Ok", [started EXCEPT !.pos = wb.pos + HEADER_SIZE], 0)

(* Sealing a record of wb.pos bytes takes the trailing content type and the
   tag.  encrypt compares with the whole capacity, not counting the header in
   front; the extension by the tag then checks the space that is really left. *)
Seal(wb) ==
  LET typed == wb.pos + 1
      inner == typed - HEADER_SIZE
  IN  CASE typed > BufLen                           -> "EncodeError"
        [] inner + TAG_SIZE > BufLen                -> "InsufficientSpace"
        [] HEADER_SIZE + inner + TAG_SIZE > BufLen  -> "InvalidApplicationData"
        [] OTHER                                    -> "Ok"

SealedLen(wb) ==
  IF is_encrypted(wb.current_header) THEN wb.pos + 1 + TAG_SIZE ELSE wb.pos

(* len is the length of the slice handed to the transport.  take() has emptied
   current_header by the time sealing can fail, and pos keeps its value. *)
close_record(wb) ==
  LET taken  == [wb EXCEPT !.current_header = None]
      sealed == IF is_encrypted(wb.current_header) THEN Seal(wb) ELSE "Ok"
  IN  CASE wb.current_header = None -> Result("Panic", wb, 0)
        [] sealed # "Ok"            -> Result(sealed, taken, 0)
        [] OTHER                    -> Result("Ok", EmptyBuffer, SealedLen(wb))

(* Mutant: the header counts itself. *)
RecordLength_WithHeader(n) == n % U16

(* The two length bytes of the record header. *)
RecordLength(n) == (n - HEADER_SIZE) % U16

(* encode_payload of n bytes between start_record and close_record; when they
   do not fit, the started record stays in the buffer. *)
write_record(wb, h, n) ==
  LET started == start_record(wb, h)
      filled  == [started.wb EXCEPT !.pos = started.wb.pos + n]
  IN  CASE wb.current_header # None    -> Result("InternalError", wb, 0)
        [] started.res # "Ok"          -> started
        [] started.wb.pos + n > BufLen -> Result("EncodeError", started.wb, 0)
        [] OTHER                       -> close_record(filled)
=============================================================================
