---------------------------- MODULE MCHandshake ----------------------------
(* Small instances of Handshake for TLC. *)
EXTENDS Handshake

(* Every way the two sides can be set up; a server that takes the PSK does not
   ask for a certificate. *)
MCConfigs == {c \in Config : c.psk = "accepted" => ~c.request}
=============================================================================
