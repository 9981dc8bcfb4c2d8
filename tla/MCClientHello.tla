--------------------------- MODULE MCClientHello ---------------------------
EXTENDS ClientHello

(* ASCII host names of one and of ten bytes. *)
MCServerNames == {<<97>>, [i \in 1 .. 10 |-> 98]}

(* "h2"; "h2" and a 255-byte name; a 256-byte name, whose length does not fit
   its byte; an empty list. *)
Name(n) == [i \in 1 .. n |-> 104]
MCAlpnLists == {<<>>, <<Name(2)>>, <<Name(2), Name(255)>>, <<Name(256)>>}

(* No identity, one, the full four, and one more than the vector takes. *)
MCIdentityLists == {[i \in 1 .. n |-> <<105, i>>] : n \in {0, 1, 4, 5}}
=============================================================================
