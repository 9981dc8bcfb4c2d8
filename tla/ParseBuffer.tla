---------------------------- MODULE ParseBuffer ----------------------------
(***************************************************************************)
(* src/parse_buffer.rs: a cursor p into the bytes b.  Reading returns      *)
(* [err, val, pos] with err = NoError and the cursor behind what was read, *)
(* or an error with the cursor where it was left.                          *)
(***************************************************************************)
EXTENDS Integers, Sequences

NoError == "none"

Ok(v, p) == [err |-> NoError, val |-> v, pos |-> p]
Err(e, p) == [err |-> e, val |-> <<>>, pos |-> p]
is_ok(r) == r.err = NoError

(* The ? operator, match, and map_err. *)
Then(r, Go(_, _)) == IF is_ok(r) THEN Go(r.val, r.pos) ELSE r
Match(r, Arms(_)) == Arms(r)
map_err(r, e) == IF is_ok(r) THEN r ELSE Err(e, r.pos)

slice(b, p, n) ==
  IF p + n <= Len(b) THEN Ok(SubSeq(b, p + 1, p + n), p + n) ELSE Err("InsufficientBytes", p)

read_u8(b, p) == IF p < Len(b) THEN Ok(b[p + 1], p + 1) ELSE Err("InsufficientBytes", p)

read_u16(b, p) ==
  IF p + 2 <= Len(b) THEN Ok(256 * b[p + 1] + b[p + 2], p + 2) ELSE Err("InsufficientBytes", p)

read_u24(b, p) ==
  IF p + 3 <= Len(b)
  THEN Ok(65536 * b[p + 1] + 256 * b[p + 2] + b[p + 3], p + 3)
  ELSE Err("InsufficientBytes", p)

(* The two 32-bit numbers of a ticket are not used. *)
read_u32(b, p) == IF p + 4 <= Len(b) THEN Ok(0, p + 4) ELSE Err("InsufficientBytes", p)

(* A vector of elements up to the end of data, at most N of them. *)
read_all(data, N, Read(_, _), full) ==
  LET RECURSIVE Loop(_, _)
      Loop(p, found) ==
        IF p = Len(data) THEN Ok(found, p)
        ELSE Match(Read(data, p), LAMBDA r :
               IF ~is_ok(r) THEN r
               ELSE IF Len(found) = N THEN Err(full, r.pos)
               ELSE Loop(r.pos, Append(found, r.val)))
  IN  Loop(0, <<>>)

read_list(b, p, n, N, Read(_, _)) ==
  Then(slice(b, p, n), LAMBDA data, q :
    Then(read_all(data, N, Read, "InsufficientSpace"), LAMBDA found, end : Ok(found, q)))
=============================================================================
