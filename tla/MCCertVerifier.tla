--------------------------- MODULE MCCertVerifier ---------------------------
(* Small instances of CertVerifier: names of up to five characters on a single
   well-signed certificate, and chains of up to three certificates over four
   keys with every way of signing them. *)
EXTENDS CertVerifier

KeyOf(id, kind) == [id |-> id, kind |-> kind]

Root == KeyOf("root", "p256")
K1   == KeyOf("k1", "p256")
K2   == KeyOf("k2", "ed25519")
K3   == KeyOf("k3", "rsa")
K4   == KeyOf("k4", "junk32")

MaxName == 5

Good ==
  [entry |-> "X509", decodes |-> TRUE, key |-> K1, signature |-> Root,
   signature_algorithm |-> "ECDSA_SHA256", not_before |-> 1, not_after |-> 2,
   cns |-> <<>>, sans |-> <<>>]

AAA   == <<"a", ".", "a", ".", "a">>
BAA   == <<"b", ".", "a", ".", "a">>
Wild  == <<"*", ".", "a", ".", "A">>
Long  == <<"a", "a", "a", "a", "a", "a", "a">>
Other == <<NotUtf8, ".", "a">>

GoodCA == [Good EXCEPT !.key = Root]

MCCAs ==
  {GoodCA, [Good EXCEPT !.key = K2],
   [Good EXCEPT !.key = Root, !.entry = "RawPublicKey"],
   [Good EXCEPT !.key = Root, !.decodes = FALSE]}

MCClocks == {{}, {1}, {3}}

Words(chars, n) == UNION {[1..k -> chars] : k \in 0..n}

(* Every pattern against every host name, as common name or as SAN. *)
NameHosts == Words({"a", "."}, MaxName) \cup
             {BAA, <<"a", ".", "b", ".", "a">>, <<"A", ".", "a">>, <<"_", ".", "a", ".", "a">>,
              <<"a", "b", ".", "A", ".", "a">>, Long}

NameChains ==
  {<<[Good EXCEPT !.cns = <<w>>]>> : w \in Words({"a", ".", "*"}, MaxName)
                                             \cup Words({"A", "."}, MaxName) \cup {Wild}}
    \cup {<<[Good EXCEPT !.sans = <<<<w>>>>]>> : w \in Words({"a", ".", "*"}, 3) \cup {Wild, AAA, BAA}}

(* Several names of each sort, names that do not fit or are not UTF-8. *)
ListNames == {AAA, BAA, Wild, Long, Other}

ListChains ==
  {<<[Good EXCEPT !.cns = cns, !.sans = sans]>> :
     cns  \in {<<>>, <<AAA>>, <<AAA, BAA>>, <<AAA, Other>>, <<Long, AAA>>},
     sans \in {<<>>} \cup {<<s>> : s \in Words(ListNames, 3)}
                \cup {<<<<BAA, BAA>>, <<n>>>> : n \in ListNames}
                \cup {<<<<BAA>>, <<n, m>>>> : n, m \in ListNames}}

(* Certificates that differ in how they are signed and when they hold. *)
Links ==
  {[Good EXCEPT !.key = k, !.signature = s, !.signature_algorithm = a, !.cns = <<AAA>>] :
     k \in {K1, K2, K3, K4}, s \in {Root, K1, K2, K3, Malformed},
     a \in {"ECDSA_SHA256", "ED25519", "RSA_PKCS1_SHA256", "DSA"}}
    \cup {[Good EXCEPT !.not_before = 2, !.cns = <<AAA>>],
          [Good EXCEPT !.decodes = FALSE], [Good EXCEPT !.cns = <<BAA>>], Good}

ShortLinks ==
  {[Good EXCEPT !.key = k, !.signature = s, !.signature_algorithm = a, !.cns = <<n>>] :
     k \in {K1, K2}, s \in {Root, K1, K2}, a \in {"ECDSA_SHA256", "ED25519"},
     n \in {AAA, BAA}}

Intermediates == {c \in ShortLinks : c.key = K1 /\ c.cns = <<AAA>>}

LinkChains ==
  {<<>>} \cup {<<c>> : c \in Links} \cup (ShortLinks \X Links)
    \cup (ShortLinks \X Intermediates \X Intermediates)
    \cup {[i \in 1..n |-> [Good EXCEPT !.cns = <<AAA>>, !.signature = IF i = n THEN Root ELSE K1]] :
            n \in 3..5}

LinkHosts == {AAA, Long}

MCVerifies ==
  {[signature_scheme |-> scheme, signature |-> sig, over |-> over] :
     scheme \in {"EcdsaSecp256r1Sha256", "EcdsaSecp384r1Sha384", "Ed25519",
                 "RsaPssRsaeSha256", "RsaPssRsaeSha384", "Sha1"},
     sig \in {K1, K2, K3, Malformed}, over \in {Transcript, "CH..ServerHello"}}

MCHosts == NameHosts \cup {AAA, Long}

(* The certificates for webpki: a common name it ignores, SANs, a wildcard, and
   chains with an intermediate it does not look at. *)
WebpkiLinks == {[c EXCEPT !.sans = <<<<AAA>>>>] : c \in Links}
                 \cup {[Good EXCEPT !.cns = <<AAA>>], [Good EXCEPT !.sans = <<<<BAA, BAA>>, <<Wild>>>>],
                       [Good EXCEPT !.entry = "RawPublicKey"]}

WebpkiChains ==
  {<<>>} \cup {<<c>> : c \in WebpkiLinks} \cup {<<c, Good>> : c \in WebpkiLinks}
    \cup {[i \in 1..n |-> [Good EXCEPT !.sans = <<<<AAA>>>>]] : n \in 3..5}

(* The names meet every host name, and the chains every CA and every clock, the
   other inputs being those of a client that could accept them. *)
MCChains(features, cert, clock, name) ==
  LET names == cert = GoodCA /\ clock = {1}
      links == (cert = GoodCA \/ clock = {1}) /\ name \in {{}, {AAA}}
  IN  IF features.verifier # "pki" \/ features.hash_len > 32
      THEN IF name \in {{}, {AAA}, {<<"a", ".", "b", ".", "a">>}} THEN WebpkiChains ELSE {}
      ELSE (IF names THEN NameChains ELSE {})
             \cup (IF links THEN LinkChains ELSE {})
             \cup (IF names /\ links THEN ListChains ELSE {})

MCBuilds == [verifier : {"pki", "webpki", "webpki_alloc"}, hash_len : {32, 48}]
=============================================================================
