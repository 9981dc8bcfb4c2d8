---------------------------- MODULE CertVerifier ----------------------------
(***************************************************************************)
(* The two certificate verifiers, the built-in one (src/pki.rs) with the   *)
(* name extraction of src/der_certificate.rs and the one that asks the     *)
(* webpki library (src/webpki.rs): the host name is set, the server's      *)
(* chain is checked against the CA, and the CertificateVerify signature is *)
(* checked with the key of the first certificate, over the transcript kept *)
(* then.  Which one is in use is a choice of the build.                    *)
(*                                                                         *)
(* A name is a sequence of characters, an Option is a set of at most one   *)
(* element.  Cryptography is symbolic: a key is a record [id, kind] and a  *)
(* signature is the key that made it, or Malformed.                        *)
(***************************************************************************)
EXTENDS Integers, Sequences, FiniteSets

CONSTANTS
  HOSTNAME_MAXLEN,     \* 64 in the code
  MAX_SAN_DNS_NAMES,   \* 3 in the code
  MaxEntries,          \* 16 in the code: entries a CertificateRef can hold
  CertSize,            \* CERT_SIZE, the room for the chain, in certificates
  Builds,              \* which verifier, and the output length of the hash function
  CAs,                 \* the certificates `new` may be given
  Clocks,              \* what Clock::now() may return: {} or {time}
  Hosts,               \* the server names `open` may be given
  Chains(_, _, _, _),  \* the certificate lists a client of that build, CA, clock
                       \* and host name may be sent
  Verifies             \* the CertificateVerify messages a server may send

ASSUME SizesAssumption ==
  /\ HOSTNAME_MAXLEN \in Nat \ {0}
  /\ MAX_SAN_DNS_NAMES \in Nat \ {0}
  /\ MaxEntries \in Nat \ {0}
  /\ CertSize \in Nat
  /\ Builds \subseteq [verifier : {"pki", "webpki", "webpki_alloc"}, hash_len : {32, 48}]

NotUtf8 == "ff"

(* "_" stands for every character that no host name has. *)
Letters == {"a", "b", "A", "B"}
Chars == Letters \cup {".", "*", "_", NotUtf8}

Name == Seq(Chars)
Key == [id : STRING, kind : STRING]

CertificateEntry ==
  [entry : {"X509", "RawPublicKey"}, decodes : BOOLEAN, key : Key, signature : Key,
   signature_algorithm : STRING, not_before : Nat, not_after : Nat, cns : Seq(Name), sans : Seq(Seq(Name))]

ASSUME InputsAssumption ==
  /\ CAs \subseteq CertificateEntry
  /\ \A clock \in Clocks : clock \subseteq Nat /\ \A s, t \in clock : s = t
  /\ Hosts \subseteq Name
  /\ \A build \in Builds, ca \in CAs, clock \in Clocks, host \in {{}} \cup {{h} : h \in Hosts} :
       Chains(build, ca, clock, host) \subseteq Seq(CertificateEntry)
  /\ Verifies \subseteq [signature_scheme : STRING, signature : Key, over : STRING]

Malformed == [id |-> "malformed", kind |-> "none"]

-----------------------------------------------------------------------------
(* Names in a certificate.  cns holds the values of the subject's CommonName
   attributes, sans the dNSName entries of each SAN extension. *)

IsUtf8(name) == \A i \in DOMAIN name : name[i] # NotUtf8

NameFits(name) == Len(name) <= HOSTNAME_MAXLEN

(* The last CommonName wins; one that does not fit is an error. *)
extract_common_name(cert) ==
  [ ok  |-> \A i \in DOMAIN cert.cns : NameFits(cert.cns[i]),
    val |-> {cn \in {cert.cns[i] : i \in {Len(cert.cns)} \ {0}} : IsUtf8(cn)} ]

(* One SAN extension.  The loop is left once the vector is full, but only
   after a name was parsed: an extension met with a full vector still has its
   first name parsed, and dropped. *)
Least(m, n) == IF m < n THEN m ELSE n

ReadSan(acc, names) ==
  LET room == MAX_SAN_DNS_NAMES - Len(acc.val)
      read == SubSeq(names, 1, IF room = 0 THEN Least(Len(names), 1) ELSE Least(Len(names), room))
  IN  [ ok  |-> acc.ok /\ \A i \in DOMAIN read : IsUtf8(read[i]) /\ NameFits(read[i]),
        val |-> acc.val \o SubSeq(read, 1, Least(Len(read), room)) ]

NoSan == [ok |-> TRUE, val |-> <<>>]

(* The extensions, in order. *)
extract_san_dns_names(cert) ==
  LET read[k \in 0 .. Len(cert.sans)] ==
        IF k = 0 THEN NoSan ELSE ReadSan(read[k - 1], cert.sans[k])
  IN  read[Len(cert.sans)]

-----------------------------------------------------------------------------
(* Host name matching. *)

to_ascii_lowercase(c) == IF c = "A" THEN "a" ELSE IF c = "B" THEN "b" ELSE c

Lower(s) == [i \in DOMAIN s |-> to_ascii_lowercase(s[i])]

Positions(s, c) == {i \in 1 .. Len(s) : s[i] = c}

Count(s, c) == Cardinality(Positions(s, c))

After(s, i) == SubSeq(s, i + 1, Len(s))

HostChars == Letters \cup {"."}

(* Mutant: letters are compared as they are. *)
tls_hostname_match_impl_CaseSensitive(cn, host) ==
  /\ \A i \in DOMAIN cn : cn[i] \in HostChars \cup {"*"}
  /\ \A i \in DOMAIN host : host[i] \in HostChars
  /\ \/ Count(cn, "*") = 0 /\ cn = host
     \/ /\ Count(cn, "*") = 1
        /\ Len(cn) >= 2 /\ cn[1] = "*" /\ cn[2] = "."
        /\ Count(cn, ".") >= 2
        /\ Count(cn, ".") = Count(host, ".")
        /\ \E dot_idx \in Positions(host, ".") :
             /\ \A i \in Positions(host, ".") : dot_idx <= i
             /\ After(cn, 2) = After(host, dot_idx)

(* A name has one label more than it has dots. *)
tls_hostname_match_impl(cn, host) ==
  LET cn_labels   == 1 + Count(cn, ".")
      host_labels == 1 + Count(host, ".")
      stars       == Count(cn, "*")
  IN  /\ \A i \in DOMAIN cn : cn[i] \in HostChars \cup {"*"}
      /\ \A i \in DOMAIN host : host[i] \in HostChars
      /\ \/ stars = 0 /\ Lower(cn) = Lower(host)
         \/ /\ stars = 1
            /\ Len(cn) >= 2 /\ cn[1] = "*" /\ cn[2] = "."
            /\ cn_labels >= 3
            /\ cn_labels = host_labels
            /\ \E dot_idx \in Positions(host, ".") :
                 /\ \A i \in Positions(host, ".") : dot_idx <= i
                 /\ Lower(After(cn, 2)) = Lower(After(host, dot_idx))

tls_hostname_match(names, hostname) ==
  IF hostname = {}
  THEN names.common_name = {} /\ names.san_dns_names = <<>>
  ELSE \E host \in hostname :
         \/ \E i \in DOMAIN names.san_dns_names :
              tls_hostname_match_impl(names.san_dns_names[i], host)
         \/ \E cn \in names.common_name : tls_hostname_match_impl(cn, host)

-----------------------------------------------------------------------------
(* Certificate and handshake signatures. *)

(* The kind of key each signature algorithm decodes; others are unsupported. *)
KeyKind ==
  [ECDSA_SHA256 |-> "p256", ECDSA_SHA384 |-> "p384", ED25519 |-> "ed25519",
   RSA_PKCS1_SHA256 |-> "rsa", RSA_PKCS1_SHA384 |-> "rsa", RSA_PKCS1_SHA512 |-> "rsa"]

SchemeKind ==
  [EcdsaSecp256r1Sha256 |-> "p256", EcdsaSecp384r1Sha384 |-> "p384",
   Ed25519 |-> "ed25519", RsaPssRsaeSha256 |-> "rsa",
   RsaPssRsaeSha384 |-> "rsa", RsaPssRsaeSha512 |-> "rsa"]

(* The key bytes are converted to an array of 32 with unwrap. *)
Is32Bytes(key) == key.kind \in {"ed25519", "junk32"}

CertSignature(alg, key, sig) ==
  CASE alg \notin DOMAIN KeyKind             -> "InvalidSignatureScheme"
    [] alg = "ED25519" /\ ~Is32Bytes(key)    -> "Panic"
    [] key.kind # KeyKind[alg]               -> "DecodeError"
    [] sig = Malformed                       -> "ParseError"
    [] sig # key                             -> "InvalidCertificate"
    [] OTHER                                 -> "Ok"

NoNames == [common_name |-> {}, san_dns_names |-> <<>>]

(* verify_certificate(verifier, certificate, now): one link of the chain. *)
verify_certificate(verifier, cert, now) ==
  LET cn   == extract_common_name(cert)
      sans == extract_san_dns_names(cert)
      res  ==
        CASE verifier.entry # "X509" \/ ~verifier.decodes -> "DecodeError"
          [] cert.entry # "X509"                          -> "InvalidCertificate"
          [] ~cert.decodes \/ ~cn.ok \/ ~sans.ok          -> "DecodeError"
          [] \E t \in now : cert.not_before > t \/ cert.not_after < t
                                                          -> "InvalidCertificate"
          [] OTHER -> CertSignature(cert.signature_algorithm, verifier.key, cert.signature)
  IN  [res |-> res, names |-> [common_name |-> cn.val, san_dns_names |-> sans.val]]

(* The pairs the iterator yields: from the last entry to the first, each with
   the one yielded before it, the CA for the last entry. *)
CertificateChain(ca, chain) ==
  [k \in 1..Len(chain) |->
     <<IF k = 1 THEN ca ELSE chain[Len(chain) + 2 - k], chain[Len(chain) + 1 - k]>>]

NothingWalked == [res |-> "Ok", names |-> NoNames]

(* Mutant: an error does not end the loop. *)
VerifyChain_GoesOn(ca, chain, now) ==
  LET pairs == CertificateChain(ca, chain)
  IN  IF chain = <<>> THEN NothingWalked
      ELSE verify_certificate(pairs[Len(chain)][1], pairs[Len(chain)][2], now)

(* The loop over the pairs: stops at the first error, keeps the last names. *)
VerifyChain(ca, chain, now) ==
  LET pairs == CertificateChain(ca, chain)
      walk[k \in 0 .. Len(chain)] ==
        IF k = 0 THEN NothingWalked
        ELSE IF walk[k - 1].res # "Ok" THEN walk[k - 1]
        ELSE verify_certificate(pairs[k][1], pairs[k][2], now)
  IN  walk[Len(chain)]

(* verify_signature(message, certificate, verify), the leaf being entries[0]. *)
LeafSignature(chain, verify, transcript) ==
  IF chain = <<>> \/ ~chain[1].decodes THEN "DecodeError"
  ELSE LET key    == chain[1].key
           scheme == verify.signature_scheme
       IN  CASE scheme \notin DOMAIN SchemeKind                    -> "InvalidSignatureScheme"
             [] scheme = "Ed25519" /\ ~Is32Bytes(key)              -> "Panic"
             [] scheme = "RsaPssRsaeSha256" /\ key.kind # "rsa"    -> "Panic"
             [] key.kind # SchemeKind[scheme]                      -> "DecodeError"
             [] verify.signature = Malformed                       -> "DecodeError"
             [] verify.signature # key \/ verify.over # transcript -> "InvalidSignature"
             [] OTHER                                              -> "Ok"

-----------------------------------------------------------------------------
(* The verifier of src/webpki.rs. *)

(* RFC 6125: the names are the same but for case, or the leftmost label of the
   pattern is a star that stands for one whole label of the host name, the empty
   one included, and two labels at least follow. *)
CoversHost(pattern, hostname) ==
  /\ \A i \in 1 .. Len(hostname) : hostname[i] \in HostChars
  /\ \/ Lower(pattern) = Lower(hostname)
     \/ \E n \in 0 .. Len(hostname) :
          LET label  == SubSeq(hostname, 1, n)
              suffix == After(hostname, n)
          IN  /\ Lower(pattern) = <<"*">> \o Lower(suffix)
              /\ Len(suffix) > 0 /\ suffix[1] = "."
              /\ \A i \in 1 .. n : label[i] # "."
              /\ \E i \in 2 .. Len(suffix) : suffix[i] = "."

AllSans(cert) == UNION {{cert.sans[k][i] : i \in DOMAIN cert.sans[k]} : k \in DOMAIN cert.sans}

(* ALL_SIGALGS: the kinds of CA key that each algorithm is accepted with. *)
ALL_SIGALGS ==
  [ECDSA_SHA256 |-> {"p256", "p384"}, ECDSA_SHA384 |-> {"p256", "p384"}, ED25519 |-> {"ed25519"}]

(* The library: one certificate under one trust anchor at a given time, and the
   names of a certificate, of which it takes the SANs only. *)
verify_for_usage(cert, trust, time) ==
  /\ cert.signature_algorithm \in DOMAIN ALL_SIGALGS
  /\ trust.key.kind \in ALL_SIGALGS[cert.signature_algorithm]
  /\ cert.signature = trust.key
  /\ cert.not_before <= time /\ time <= cert.not_after

verify_is_valid_for_subject_name(cert, hostname) ==
  \E san \in AllSans(cert) : CoversHost(san, hostname)

(* Only the first certificate is looked at; without a clock the time is 0. *)
TimeOf(clock) == IF clock = {} THEN 0 ELSE CHOOSE t \in clock : TRUE

webpki_verify_certificate(hosts, anchor, chain, clock) ==
  CASE anchor.entry # "X509"                         -> "InvalidCertificate"
    [] ~anchor.decodes                               -> "DecodeError"
    [] chain = <<>> \/ chain[1].entry # "X509"       -> "InvalidCertificate"
    [] ~chain[1].decodes                             -> "DecodeError"
    [] ~verify_for_usage(chain[1], anchor, TimeOf(clock)) -> "InvalidCertificate"
    [] \E h \in hosts : ~verify_is_valid_for_subject_name(chain[1], h)  -> "InvalidCertificate"
    [] OTHER                                         -> "Ok"

(* TryInto<&SignatureAlgorithm>: which schemes there are depends on `alloc'. *)
webpki_try_into ==
  [EcdsaSecp256r1Sha256 |-> "p256", EcdsaSecp384r1Sha384 |-> "p384", Ed25519 |-> "ed25519"]

webpki_try_into_alloc ==
  [EcdsaSecp256r1Sha256 |-> "p256", EcdsaSecp384r1Sha384 |-> "p384", Ed25519 |-> "ed25519",
   RsaPkcs1Sha256 |-> "rsa", RsaPkcs1Sha384 |-> "rsa", RsaPkcs1Sha512 |-> "rsa",
   RsaPssRsaeSha256 |-> "rsa", RsaPssRsaeSha384 |-> "rsa", RsaPssRsaeSha512 |-> "rsa"]

webpki_verify_signature(schemes, chain, verify, transcript) ==
  LET key == chain[1].key
  IN  CASE verify.signature_scheme \notin DOMAIN schemes -> "InvalidSignatureScheme"
        [] OTHER ->
             IF /\ key.kind = schemes[verify.signature_scheme]
                /\ verify.signature = key /\ verify.over = transcript
             THEN "Ok" ELSE "InvalidSignature"

-----------------------------------------------------------------------------
VARIABLES
  build,                     \* the features and the cipher suite in use
  ca, host,                  \* fields of CertVerifier
  certificate_transcript,
  certificate,
  phase,                     \* the call the client makes next
  result,                    \* what the last call returned
  now,                       \* the clock
  sent                       \* history: the chain and CertificateVerify received

vars == <<build, ca, host, certificate_transcript, certificate, phase, result, now, sent>>

NothingSent == [chain |-> <<>>, verify |-> {}]

Transcript == "CH..Certificate"

Init ==
  /\ build \in Builds
  /\ ca \in CAs
  /\ now \in Clocks
  /\ host = {} /\ certificate_transcript = {} /\ certificate = {}
  /\ phase = "SetHostname"
  /\ result = "Ok"
  /\ sent = NothingSent

Proceed(res, next) ==
  /\ result' = res
  /\ phase' = IF res = "Ok" THEN next ELSE "Failed"

(* The configuration names no server. *)
NoServerName ==
  /\ phase = "SetHostname"
  /\ Proceed("Ok", "Certificate")
  /\ UNCHANGED <<build, ca, host, certificate_transcript, certificate, now, sent>>

set_hostname_verification(hostname) ==
  /\ phase = "SetHostname"
  /\ host' = IF NameFits(hostname) THEN {hostname} ELSE host
  /\ Proceed(IF NameFits(hostname) THEN "Ok" ELSE "InsufficientSpace", "Certificate")
  /\ UNCHANGED <<build, ca, certificate_transcript, certificate, now, sent>>

(* CertificateEntryRef::parse_vector fills a vector of fixed capacity. *)
parse_vector(chain) == IF Len(chain) > MaxEntries THEN "DecodeError" ELSE "Ok"

(* The chain is copied into an owned Certificate<CERT_SIZE>. *)
try_from(chain) == IF Len(chain) > CertSize THEN "OutOfMemory" ELSE "Ok"

(* TlsVerifier::verify_certificate of a chain that the client received. *)
CheckChain(chain) ==
  LET walk == VerifyChain(ca, chain, now)
      res  == IF build.verifier # "pki" THEN webpki_verify_certificate(host, ca, chain, now)
              ELSE IF walk.res = "Ok" /\ ~tls_hostname_match(walk.names, host)
              THEN "InvalidCertificate" ELSE walk.res
  IN  CASE parse_vector(chain) # "Ok" -> parse_vector(chain)
        [] res # "Ok"                 -> res
        [] OTHER                      -> try_from(chain)

(* The signed message: 64 blanks, the context string with its final zero, and
   the hash, in a vector of fixed capacity. *)
MessageFits == 64 + 34 + build.hash_len <= (IF build.verifier = "pki" THEN 146 ELSE 130)

CheckSignature(chain, verify, transcript) ==
  IF ~MessageFits THEN "EncodeError"
  ELSE CASE build.verifier = "pki"    -> LeafSignature(chain, verify, transcript)
         [] build.verifier = "webpki" ->
              webpki_verify_signature(webpki_try_into, chain, verify, transcript)
         [] build.verifier = "webpki_alloc" ->
              webpki_verify_signature(webpki_try_into_alloc, chain, verify, transcript)

(* The Certificate message arrives. *)
VerifyCertificate ==
  /\ phase = "Certificate"
  /\ \E chain \in Chains(build, ca, now, host) :
       LET res == CheckChain(chain)
       IN  /\ sent' = [sent EXCEPT !.chain = chain]
           /\ certificate' = IF res = "Ok" THEN {chain} ELSE certificate
           /\ certificate_transcript' =
                IF res = "Ok" THEN {Transcript} ELSE certificate_transcript
           /\ Proceed(res, "CertificateVerify")
  /\ UNCHANGED <<build, ca, host, now>>

(* TlsVerifier::verify_signature; it takes the transcript. *)
VerifySignature(verify) ==
  /\ phase = "CertificateVerify"
  /\ sent' = [sent EXCEPT !.verify = {verify}]
  /\ \E transcript \in certificate_transcript, chain \in certificate :
       Proceed(CheckSignature(chain, verify, transcript), "Verified")
  /\ certificate_transcript' = {}
  /\ UNCHANGED <<build, ca, host, certificate, now>>

Next ==
  \/ NoServerName
  \/ \E hostname \in Hosts : set_hostname_verification(hostname)
  \/ VerifyCertificate
  \/ \E verify \in Verifies : VerifySignature(verify)

Spec == Init /\ [][Next]_vars

-----------------------------------------------------------------------------
(* What a certificate list must be, said without the order of the checks.   *)

(* The certificates that matter to the build, and the names of the first one:
   webpki takes no intermediates and no common name. *)
Relevant(chain) == IF build.verifier = "pki" \/ chain = <<>> THEN chain ELSE <<chain[1]>>

LeafNames(chain) ==
  AllSans(chain[1]) \cup (IF build.verifier = "pki" THEN extract_common_name(chain[1]).val ELSE {})

SanCount(cert) ==
  LET count[k \in 0 .. Len(cert.sans)] == IF k = 0 THEN 0 ELSE count[k - 1] + Len(cert.sans[k])
  IN  count[Len(cert.sans)]

Issuer(chain, i) == IF i = Len(chain) THEN ca ELSE chain[i + 1]

(* The algorithms and schemes of the build. *)
Accepts(alg, kind) ==
  IF build.verifier = "pki" THEN alg \in DOMAIN KeyKind /\ KeyKind[alg] = kind
  ELSE alg \in DOMAIN ALL_SIGALGS /\ kind \in ALL_SIGALGS[alg]

Schemes ==
  CASE build.verifier = "pki" -> SchemeKind
    [] build.verifier = "webpki" -> webpki_try_into
    [] build.verifier = "webpki_alloc" -> webpki_try_into_alloc

Readable(cert) ==
  /\ cert.decodes
  /\ build.verifier = "pki" => extract_common_name(cert).ok /\ extract_san_dns_names(cert).ok

(* Without a clock, pki.rs asks for no time and webpki.rs for the time 0. *)
Moments == IF build.verifier = "pki" THEN now ELSE {TimeOf(now)}

(* Certificate i is readable, in force, and signed by its issuer's key. *)
Vouched(chain, i) ==
  LET cert == chain[i]
  IN  /\ Readable(cert)
      /\ \A t \in Moments : t \in cert.not_before..cert.not_after
      /\ cert.signature = Issuer(chain, i).key
      /\ Accepts(cert.signature_algorithm, cert.signature.kind)

TrustedChain(chain) ==
  /\ chain # <<>>
  /\ ca.entry = "X509" /\ ca.decodes
  /\ \A i \in DOMAIN chain : chain[i].entry = "X509" /\ Vouched(chain, i)
  /\ IF host = {} THEN build.verifier # "pki" \/ LeafNames(chain) = {}
     ELSE \E h \in host, n \in LeafNames(chain) : CoversHost(n, h)

ProvesKey(chain, verify) ==
  /\ verify.signature_scheme \in DOMAIN Schemes
  /\ Schemes[verify.signature_scheme] = chain[1].key.kind
  /\ verify.signature = chain[1].key
  /\ verify.over = Transcript

(* A server is verified only when every certificate that matters to the build is
   in force and signed by the key of the one after it, the last by the CA, when
   a name of the first one covers the configured server name, and
   when the CertificateVerify was made with that certificate's key over the
   transcript up to the Certificate message (CertVerifier, pki.rs and webpki.rs). *)
VerifiedIsTrusted ==
  phase = "Verified" =>
    /\ TrustedChain(Relevant(sent.chain))
    /\ \E verify \in sent.verify : ProvesKey(sent.chain, verify)

(* No server with a trusted chain that fits is turned away: when the verifier
   fails, the server name or the chain was too long, the chain was not trusted,
   the CertificateVerify does not prove possession of its key, the certificate
   has more SANs than are kept (der_certificate.rs), or the signed message is
   longer than webpki.rs has room for, which a 48 byte hash makes it. *)
TrustedIsVerified ==
  phase = "Failed" =>
    \/ result = "InsufficientSpace" /\ host = {}
    \/ Len(sent.chain) > MaxEntries \/ Len(sent.chain) > CertSize
    \/ ~TrustedChain(Relevant(sent.chain))
    \/ \E verify \in sent.verify : ~ProvesKey(sent.chain, verify)
    \/ build.verifier = "pki" /\ SanCount(sent.chain[1]) > MAX_SAN_DNS_NAMES
    \/ build.verifier # "pki" /\ build.hash_len > 32

(* "if the certificate contains Subject Alternative Names (SANs), only the
   SANs are used for matching and the Common Name (CN) is ignored"
   (tls_hostname_match, pki.rs). *)
SansReplaceCommonName ==
  build.verifier = "pki" /\ phase = "CertificateVerify" /\ host # {} =>
    \A sans \in {extract_san_dns_names(sent.chain[1]).val} :
      sans # <<>> => \E h \in host, i \in DOMAIN sans : CoversHost(sans[i], h)
=============================================================================
