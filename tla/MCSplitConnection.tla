------------------------- MODULE MCSplitConnection -------------------------
EXTENDS SplitConnection

(* One byte of application data, then the end of the connection. *)
MCStreams ==
  {<<[kind |-> "app", len |-> 1, pad |-> 0], [kind |-> "close_notify", len |-> 2, pad |-> 0]>>}
=============================================================================
