----------------------------- MODULE KeySchedule -----------------------------
(***************************************************************************)
(* The client's key schedule (src/key_schedule.rs) over symbolic terms: an *)
(* HKDF output or a MAC is the tuple of what it was computed from, so two  *)
(* secrets are equal exactly when they were derived in the same way.  A    *)
(* transcript hash is the sequence of messages it was fed.                 *)
(***************************************************************************)
EXTENDS Integers, Sequences

Zero == <<"zero">>
Psk == <<"psk">>
Shared == <<"dh">>

Extract(salt, ikm) == <<"extract", salt, ikm>>
Expand(secret, label, context) == <<"expand", secret, label, context>>
Mac(secret, transcript) == <<"mac", Expand(secret, "finished", <<>>), transcript>>

(* KeyScheduleState: the traffic secret stands for the key and iv made of it. *)
NoSecret == <<"uninitialized">>
FreshState(secret) == [traffic_secret |-> secret, counter |-> 0]

(* KeySchedule::new: the first salt is all zeroes. *)
NewSchedule ==
  [secret |-> Zero, hkdf |-> NoSecret, binder_key |-> NoSecret,
   client_state |-> FreshState(NoSecret), server_state |-> FreshState(NoSecret),
   transcript_hash |-> <<>>]

initialize(ks, ikm) ==
  LET secret == Extract(ks.secret, ikm) IN [ks EXCEPT !.secret = secret, !.hkdf = secret]

derived(ks) == [ks EXCEPT !.secret = Expand(ks.hkdf, "derived", <<>>)]

calculate_traffic_secrets(ks, client_label, server_label) ==
  [ks EXCEPT !.client_state = FreshState(Expand(ks.hkdf, client_label, ks.transcript_hash)),
             !.server_state = FreshState(Expand(ks.hkdf, server_label, ks.transcript_hash))]

initialize_early_secret(ks, psk) ==
  LET early == initialize(ks, psk)
  IN  derived([early EXCEPT !.binder_key = Expand(early.hkdf, "ext binder", <<>>)])

(* Mutant: the salt of the master secret is not derived. *)
initialize_handshake_secret_NotDerived(ks, ikm) ==
  calculate_traffic_secrets(initialize(ks, ikm), "c hs traffic", "s hs traffic")

initialize_handshake_secret(ks, ikm) ==
  derived(calculate_traffic_secrets(initialize(ks, ikm), "c hs traffic", "s hs traffic"))

initialize_master_secret(ks) ==
  derived(calculate_traffic_secrets(initialize(ks, Zero), "c ap traffic", "s ap traffic"))

update(ks, message) == [ks EXCEPT !.transcript_hash = Append(ks.transcript_hash, message)]

create_psk_binder(ks, partial) == Mac(ks.binder_key, partial)

create_client_finished(ks) == Mac(ks.client_state.traffic_secret, ks.transcript_hash)

(* hash is the transcript that ServerHandshake::read kept from before it fed the
   Finished message itself. *)
verify_server_finished(ks, verify, hash) == verify = Mac(ks.server_state.traffic_secret, hash)
=============================================================================
