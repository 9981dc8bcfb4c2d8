--------------------------- MODULE MCRecordReader ---------------------------
(* Small instances of RecordReader for TLC. *)
EXTENDS RecordReader

(* Application data of one, two and no bytes, with and without padding, and the
   messages that carry none. *)
App(n, pad) == [kind |-> "app", len |-> n, pad |-> pad]
Ticket == [kind |-> "ticket", len |-> 1, pad |-> 0]
Control(kind) == [kind |-> kind, len |-> 2, pad |-> 0]

Middles == {App(0, 0), App(1, 1), App(2, 0), Ticket}
Ends == {Control("close_notify"), Control("alert"), Control("key_update"), App(3, 3)}

(* Every mixture of three records, none of them longer than seven bytes but the
   last, which may be too long for a buffer of eight. *)
MCStreams == {<<a, b, c>> : a \in Middles, b \in Middles, c \in Ends}

(* Records to be interrupted. *)
FaultStreams == {<<App(2, 0), Control("close_notify")>>, <<Ticket, App(1, 1), App(1, 0)>>}

MCReadSizes == {1, 5}
FaultReadSizes == {1}
MCGarbageLens == {}
FaultGarbageLens == {4, 9}
=============================================================================
