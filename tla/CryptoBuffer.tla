---------------------------- MODULE CryptoBuffer ----------------------------
(***************************************************************************)
(* What src/buffer.rs appends: big-endian numbers and length-prefixed      *)
(* bodies.  A buffer that is being encoded into is the sequence of its     *)
(* bytes; a body that does not fit the space left is refused where it is   *)
(* put into the write buffer (write_record of WriteBuffer), which keeps    *)
(* nothing of it.                                                          *)
(***************************************************************************)
EXTENDS Integers, Sequences

push(n) == <<n % 256>>

push_u16(n) == <<(n \div 256) % 256, n % 256>>

push_u24(n) == <<(n \div 65536) % 256, (n \div 256) % 256, n % 256>>

push_u32(n) == push_u16(n \div 65536) \o push_u16(n)

(* The length written back is cast to the width of its field. *)
with_u8_length(body) == push(Len(body)) \o body

with_u16_length(body) == push_u16(Len(body)) \o body

with_u24_length(body) == push_u24(Len(body)) \o body
=============================================================================
