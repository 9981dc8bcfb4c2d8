----------------------------- MODULE ByteStream -----------------------------
(***************************************************************************)
(* What the receiving side of a TLS connection promises its application:   *)
(* the peer's bytes arrive in order, each once, and the connection counts  *)
(* as closed by the peer only when all of them have been taken.            *)
(***************************************************************************)
EXTENDS Naturals, Sequences

VARIABLES
  stream,   \* the bytes the peer sent
  got,      \* the bytes the application consumed so far
  closed    \* the peer's close_notify was seen

vars == <<stream, got, closed>>

Init == got = <<>> /\ closed = FALSE

Take ==
  /\ ~closed
  /\ \E k \in Len(got) + 1 .. Len(stream) : got' = SubSeq(stream, 1, k)
  /\ UNCHANGED <<stream, closed>>

Close ==
  /\ got = stream
  /\ closed' = TRUE
  /\ UNCHANGED <<stream, got>>

Next == Take \/ Close

Spec == Init /\ [][Next]_vars
=============================================================================
