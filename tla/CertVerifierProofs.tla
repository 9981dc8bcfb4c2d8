------------------------- MODULE CertVerifierProofs -------------------------
(***************************************************************************)
(* For every chain, name, CA and clock, each verifier accepts exactly the  *)
(* servers that the trust predicate of CertVerifier describes.             *)
(***************************************************************************)
EXTENDS CertVerifier, FiniteSetTheorems, SequenceTheorems, WellFoundedInduction, TLAPS

(* What holds at 0 and passes on to the next number holds on an interval. *)
LEMMA IntervalInduction ==
  ASSUME NEW n \in Nat, NEW S, 0 \in S, \A i \in 0 .. n - 1 : i \in S => i + 1 \in S
  PROVE  \A i \in 0 .. n : i \in S
<1> DEFINE T == {i \in 0 .. n : i \notin S}
<1> SUFFICES ASSUME T # {} PROVE FALSE
  OBVIOUS
<1>1. T \subseteq Nat
  OBVIOUS
<1>2. PICK m \in T : \A k \in T : ~(<<k, m>> \in OpToRel(<, Nat))
  BY <1>1, NatLessThanWellFounded, WFMin, Zenon
<1>3. \A k \in T : <<k, m>> \in OpToRel(<, Nat) <=> k < m
  BY <1>1 DEF OpToRel
<1>4. m \in T /\ \A k \in T : ~(k < m)
  BY <1>2, <1>3, Zenon
<1>5. m # 0 /\ m - 1 \in 0 .. n - 1 /\ m - 1 \notin T
  BY <1>4
<1> QED
  BY <1>4, <1>5

-----------------------------------------------------------------------------
(* Host name matching: the counting of stars and dots in tls_hostname_match_impl
   finds exactly the patterns that cover the host name. *)

(* Lower case, letter by letter: it keeps dots and stars, and makes none. *)
LEMMA LowerChar ==
  ASSUME NEW c \in Chars
  PROVE  /\ to_ascii_lowercase(c) \in Chars
         /\ to_ascii_lowercase(c) = "." <=> c = "."
         /\ to_ascii_lowercase(c) = "*" <=> c = "*"
         /\ to_ascii_lowercase(c) \in HostChars <=> c \in HostChars
<1> DEFINE d == to_ascii_lowercase(c)
<1>1. \/ d = "a" /\ c = "A"
      \/ d = "b" /\ c = "B"
      \/ d = c /\ c # "A" /\ c # "B"
  BY Zenon DEF to_ascii_lowercase
<1> HIDE DEF d
<1>2. d \in Chars
  BY <1>1 DEF Chars, Letters, NotUtf8
<1>4. (d = "." <=> c = ".") /\ (d = "*" <=> c = "*")
  BY <1>1, SMT
<1>3. d \in HostChars <=> c \in HostChars
  BY <1>1 DEF HostChars, Letters
<1> QED
  BY <1>2, <1>3, <1>4, Zenon DEF d

LEMMA LowerName ==
  ASSUME NEW s \in Name
  PROVE  /\ Lower(s) \in Name
         /\ Len(Lower(s)) = Len(s)
         /\ \A i \in 1 .. Len(s) : Lower(s)[i] = to_ascii_lowercase(s[i])
<1> DEFINE f == [i \in 1 .. Len(s) |-> to_ascii_lowercase(s[i])]
<1>1. Len(s) \in Nat /\ DOMAIN s = 1 .. Len(s) /\ \A i \in 1 .. Len(s) : s[i] \in Chars
  BY DEF Name
<1>2. Lower(s) = f
  BY <1>1 DEF Lower
<1>3. \A i \in 1 .. Len(s) : to_ascii_lowercase(s[i]) \in Chars
  BY <1>1, LowerChar, Zenon
<1>5. f \in Seq(Chars)
  BY <1>1, <1>3, SMT
<1>6. Len(f) = Len(s)
  <2>1. DOMAIN f = 1 .. Len(f) /\ DOMAIN f = 1 .. Len(s) /\ Len(f) \in Nat
    BY <1>5, <1>1
  <2> QED
    BY <2>1, <1>1
<1>7. \A i \in 1 .. Len(s) : f[i] = to_ascii_lowercase(s[i])
  BY Zenon
<1> QED
  BY <1>2, <1>5, <1>6, <1>7, Zenon DEF Name

(* Two names are the same but for case. *)
LEMMA SameLower ==
  ASSUME NEW s \in Name, NEW t \in Name
  PROVE  Lower(s) = Lower(t) <=>
           /\ Len(s) = Len(t)
           /\ \A i \in 1 .. Len(s) : to_ascii_lowercase(s[i]) = to_ascii_lowercase(t[i])
<1> DEFINE ls == Lower(s)
           lt == Lower(t)
<1>1. /\ ls \in Seq(Chars) /\ Len(ls) = Len(s) /\ Len(s) \in Nat
      /\ \A i \in 1 .. Len(s) : ls[i] = to_ascii_lowercase(s[i])
  BY LowerName DEF Name
<1>2. /\ lt \in Seq(Chars) /\ Len(lt) = Len(t) /\ Len(t) \in Nat
      /\ \A i \in 1 .. Len(t) : lt[i] = to_ascii_lowercase(t[i])
  BY LowerName DEF Name
<1> HIDE DEF ls, lt
<1>3. ls = lt <=> Len(ls) = Len(lt) /\ \A i \in 1 .. Len(ls) : ls[i] = lt[i]
  BY <1>1, <1>2, SeqEqual
<1>4. ls = lt <=> /\ Len(s) = Len(t)
                  /\ \A i \in 1 .. Len(s) : to_ascii_lowercase(s[i]) = to_ascii_lowercase(t[i])
  BY <1>1, <1>2, <1>3
<1> QED
  BY <1>4 DEF ls, lt

(* What follows position n. *)
LEMMA AfterName ==
  ASSUME NEW s \in Name, NEW n \in 0 .. Len(s)
  PROVE  /\ After(s, n) \in Name
         /\ Len(After(s, n)) = Len(s) - n
         /\ \A i \in 1 .. Len(s) - n : After(s, n)[i] = s[n + i]
<1>1. Len(s) \in Nat /\ n \in Nat /\ n <= Len(s) /\ \A i \in 1 .. Len(s) : s[i] \in Chars
  BY DEF Name
<1>2. \A i \in n + 1 .. Len(s) : s[i] \in Chars
  BY <1>1
<1>3. /\ SubSeq(s, n + 1, Len(s)) \in Seq(Chars)
      /\ Len(SubSeq(s, n + 1, Len(s))) = IF n + 1 <= Len(s) THEN Len(s) - (n + 1) + 1 ELSE 0
      /\ \A i \in 1 .. Len(s) - (n + 1) + 1 : SubSeq(s, n + 1, Len(s))[i] = s[(n + 1) + i - 1]
  BY <1>1, <1>2, SubSeqProperties
<1> QED
  BY <1>1, <1>3 DEF After, Name

(* The positions of a character, and their number. *)
LEMMA PositionsFinite ==
  ASSUME NEW s \in Name, NEW c
  PROVE  IsFiniteSet(Positions(s, c)) /\ Count(s, c) \in Nat
<1>1. Len(s) \in Nat
  BY DEF Name
<1>2. IsFiniteSet(1 .. Len(s))
  BY <1>1, FS_Interval
<1>3. Positions(s, c) \in SUBSET (1 .. Len(s))
  BY DEF Positions
<1>4. IsFiniteSet(Positions(s, c))
  BY <1>2, <1>3, FS_Subset, Zenon
<1> QED
  BY <1>4, FS_CardinalityType, Zenon DEF Count

(* Two dots of which one is at position 2 leave one elsewhere, and conversely. *)
LEMMA AnotherPosition ==
  ASSUME NEW s \in Name, NEW c, NEW p \in Positions(s, c)
  PROVE  Count(s, c) >= 2 <=> \E i \in Positions(s, c) : i # p
<1> DEFINE P == Positions(s, c)
<1>1. IsFiniteSet(P) /\ Cardinality(P) \in Nat /\ Count(s, c) = Cardinality(P)
  BY PositionsFinite, Zenon DEF Count
<1>2. p \in P
  OBVIOUS
<1> HIDE DEF P
<1>3. Cardinality(P) # 0
  BY <1>1, <1>2, FS_EmptySet, Zenon
<1>4. Cardinality(P) = 1 <=> \A i \in P : i = p
  <2>1. Cardinality(P) = 1 <=> \E x : P = {x}
    BY <1>1, FS_Singleton, Zenon
  <2>2. (\E x : P = {x}) <=> \A i \in P : i = p
    <3>1. ASSUME \A i \in P : i = p PROVE P = {p}
      BY <1>2, <3>1, Zenon
    <3>2. ASSUME NEW x, P = {x} PROVE \A i \in P : i = p
      BY <1>2, <3>2
    <3> QED
      BY <3>1, <3>2, Zenon
  <2> QED
    BY <2>1, <2>2, Zenon
<1>5. Cardinality(P) >= 2 <=> ~(Cardinality(P) = 1)
  BY <1>1, <1>3
<1> QED
  BY <1>1, <1>4, <1>5, Zenon DEF P

(* A pattern with exactly one star, at its start. *)
LEMMA OneStar ==
  ASSUME NEW s \in Name, Len(s) >= 1, s[1] = "*"
  PROVE  Count(s, "*") = 1 <=> \A i \in 2 .. Len(s) : s[i] # "*"
<1> DEFINE P == Positions(s, "*")
<1>1. 1 \in P /\ \A i \in P : i \in 1 .. Len(s)
  BY DEF Positions, Name
<1>2. (\E i \in P : i # 1) <=> ~ \A i \in 2 .. Len(s) : s[i] # "*"
  BY <1>1 DEF Positions, Name
<1>3. Count(s, "*") >= 2 <=> \E i \in P : i # 1
  <2>1. 1 \in Positions(s, "*")
    BY <1>1
  <2> QED
    BY <2>1, AnotherPosition
<1>4. Count(s, "*") \in Nat /\ Count(s, "*") # 0
  <2>1. IsFiniteSet(P) /\ Count(s, "*") \in Nat
    BY PositionsFinite, Zenon
  <2> QED
    BY <1>1, <2>1, FS_EmptySet, Zenon DEF Count
<1> HIDE DEF P
<1>5. Count(s, "*") = 1 <=> ~(Count(s, "*") >= 2)
  BY <1>4
<1> QED
  BY <1>2, <1>3, <1>5, Zenon

LEMMA NoStar ==
  ASSUME NEW s \in Name
  PROVE  Count(s, "*") = 0 <=> \A i \in 1 .. Len(s) : s[i] # "*"
<1>1. IsFiniteSet(Positions(s, "*"))
  BY PositionsFinite, Zenon
<1>2. Count(s, "*") = 0 <=> Positions(s, "*") = {}
  BY <1>1, FS_EmptySet, Zenon DEF Count
<1> QED
  BY <1>2, Zenon DEF Positions

(* The wildcard case of RFC 6125, character by character. *)
Wildcard(cn, hn, n) ==
  /\ n + 1 <= Len(hn) /\ Len(cn) = Len(hn) - n + 1
  /\ cn[1] = "*"
  /\ \A i \in 1 .. n : hn[i] # "."
  /\ hn[n + 1] = "."
  /\ \E i \in n + 2 .. Len(hn) : hn[i] = "."
  /\ \A i \in n + 1 .. Len(hn) : to_ascii_lowercase(cn[i - n + 1]) = to_ascii_lowercase(hn[i])

LEMMA CoversWildcard ==
  ASSUME NEW cn \in Name, NEW hn \in Name, NEW n \in 0 .. Len(hn)
  PROVE  Wildcard(cn, hn, n) <=>
           /\ Lower(cn) = <<"*">> \o Lower(After(hn, n))
           /\ Len(After(hn, n)) > 0 /\ After(hn, n)[1] = "."
           /\ \A i \in 1 .. n : SubSeq(hn, 1, n)[i] # "."
           /\ \E i \in 2 .. Len(After(hn, n)) : After(hn, n)[i] = "."
<1> DEFINE suf  == After(hn, n)
           low  == Lower(suf)
           star == <<"*">> \o low
           lc   == Lower(cn)
           lab  == SubSeq(hn, 1, n)
           len  == Len(hn)
           L(c) == to_ascii_lowercase(c)
<1>1. /\ len \in Nat /\ n \in Nat /\ n <= len /\ Len(cn) \in Nat
      /\ \A i \in 1 .. len : hn[i] \in Chars
      /\ \A i \in 1 .. Len(cn) : cn[i] \in Chars
  BY DEF Name
<1>2. /\ suf \in Name /\ Len(suf) = len - n
      /\ \A i \in 1 .. len - n : suf[i] = hn[n + i]
  BY AfterName, Zenon
<1>3. /\ low \in Seq(Chars) /\ Len(low) = Len(suf)
      /\ \A i \in 1 .. Len(suf) : low[i] = L(suf[i])
  BY <1>2, LowerName, Zenon DEF Name
<1>4. /\ lc \in Seq(Chars) /\ Len(lc) = Len(cn)
      /\ \A i \in 1 .. Len(cn) : lc[i] = L(cn[i])
  BY LowerName, Zenon DEF Name
<1>5. /\ star \in Seq(Chars) /\ Len(star) = 1 + Len(low)
      /\ star[1] = "*" /\ \A i \in 2 .. 1 + Len(low) : star[i] = low[i - 1]
  <2>1. <<"*">> \in Seq(Chars) /\ Len(<<"*">>) = 1 /\ <<"*">>[1] = "*"
    BY DEF Chars, Letters, NotUtf8
  <2> HIDE DEF low
  <2> QED
    BY <1>3, <2>1, ConcatProperties
<1>6. \A i \in 1 .. n : lab[i] = hn[i]
  <2>1. \A i \in 1 .. n - 1 + 1 : SubSeq(hn, 1, n)[i] = hn[1 + i - 1]
    BY <1>1, SubSeqProperties
  <2> QED
    BY <1>1, <2>1
<1>7. \A i \in 1 .. Len(cn) : L(cn[i]) = "*" <=> cn[i] = "*"
  BY <1>1, LowerChar, Zenon
<1> HIDE DEF suf, low, star, lc, lab, len, L
<1>8. lc = star <=>
        /\ Len(cn) = len - n + 1 /\ cn[1] = "*"
        /\ \A i \in 2 .. Len(cn) : L(cn[i]) = L(hn[n + i - 1])
  <2>1. lc = star <=> Len(lc) = Len(star) /\ \A i \in 1 .. Len(lc) : lc[i] = star[i]
    BY <1>4, <1>5, SeqEqual
  <2>2. Len(lc) = Len(star) <=> Len(cn) = len - n + 1
    BY <1>1, <1>2, <1>3, <1>4, <1>5
  <2>3. ASSUME Len(cn) = len - n + 1
        PROVE  (\A i \in 1 .. Len(lc) : lc[i] = star[i]) <=>
                 cn[1] = "*" /\ \A i \in 2 .. Len(cn) : L(cn[i]) = L(hn[n + i - 1])
    <3>1. lc[1] = L(cn[1]) /\ star[1] = "*" /\ (L(cn[1]) = "*" <=> cn[1] = "*")
      BY <1>1, <1>4, <1>5, <1>7, <2>3
    <3>2. ASSUME NEW i \in 2 .. Len(cn)
          PROVE  lc[i] = L(cn[i]) /\ star[i] = L(hn[n + i - 1])
      <4>1. i \in 1 .. Len(cn) /\ i \in 2 .. 1 + Len(low) /\ i - 1 \in 1 .. Len(suf) /\ i - 1 \in 1 .. len - n
        BY <1>1, <1>2, <1>3, <2>3
      <4>2. n + (i - 1) = n + i - 1
        BY <1>1
      <4> QED
        BY <1>2, <1>3, <1>4, <1>5, <4>1, <4>2, Zenon
    <3>3. (\A i \in 1 .. Len(lc) : lc[i] = star[i]) <=>
            lc[1] = star[1] /\ \A i \in 2 .. Len(cn) : lc[i] = star[i]
      BY <1>1, <1>4, <2>3
    <3> QED
      BY <3>1, <3>2, <3>3, Zenon
  <2> QED
    BY <2>1, <2>2, <2>3, Zenon
<1>9. /\ Len(suf) > 0 <=> n + 1 <= len
      /\ n + 1 <= len => suf[1] = hn[n + 1]
      /\ (\E i \in 2 .. Len(suf) : suf[i] = ".") <=> \E i \in n + 2 .. len : hn[i] = "."
  <2>1. Len(suf) > 0 <=> n + 1 <= len
    BY <1>1, <1>2
  <2>2. n + 1 <= len => suf[1] = hn[n + 1]
    BY <1>1, <1>2
  <2>3. ASSUME NEW i \in 2 .. Len(suf), suf[i] = "."
        PROVE  \E j \in n + 2 .. len : hn[j] = "."
    <3>1. n + i \in n + 2 .. len /\ i \in 1 .. len - n
      BY <1>1, <1>2
    <3> QED
      BY <1>2, <2>3, <3>1, Zenon
  <2>4. ASSUME NEW j \in n + 2 .. len, hn[j] = "."
        PROVE  \E i \in 2 .. Len(suf) : suf[i] = "."
    <3>1. j - n \in 2 .. Len(suf) /\ j - n \in 1 .. len - n /\ n + (j - n) = j
      BY <1>1, <1>2
    <3> QED
      BY <1>2, <2>4, <3>1, Zenon
  <2> QED
    BY <2>1, <2>2, <2>3, <2>4, Zenon
<1>10. ASSUME Len(cn) = len - n + 1
       PROVE  (\A i \in 2 .. Len(cn) : L(cn[i]) = L(hn[n + i - 1])) <=>
                \A i \in n + 1 .. len : L(cn[i - n + 1]) = L(hn[i])
  <2>1. ASSUME \A i \in 2 .. Len(cn) : L(cn[i]) = L(hn[n + i - 1]), NEW i \in n + 1 .. len
        PROVE  L(cn[i - n + 1]) = L(hn[i])
    <3>1. i - n + 1 \in 2 .. Len(cn) /\ n + (i - n + 1) - 1 = i
      BY <1>1, <1>10
    <3> QED
      BY <2>1, <3>1, Zenon
  <2>2. ASSUME \A i \in n + 1 .. len : L(cn[i - n + 1]) = L(hn[i]), NEW i \in 2 .. Len(cn)
        PROVE  L(cn[i]) = L(hn[n + i - 1])
    <3>1. n + i - 1 \in n + 1 .. len /\ (n + i - 1) - n + 1 = i
      BY <1>1, <1>10
    <3> QED
      BY <2>2, <3>1, Zenon
  <2> QED
    BY <2>1, <2>2, Zenon
<1>11. Wildcard(cn, hn, n) <=>
         /\ n + 1 <= len /\ Len(cn) = len - n + 1
         /\ cn[1] = "*"
         /\ \A i \in 1 .. n : hn[i] # "."
         /\ hn[n + 1] = "."
         /\ \E i \in n + 2 .. len : hn[i] = "."
         /\ \A i \in n + 1 .. len : L(cn[i - n + 1]) = L(hn[i])
  BY Zenon DEF Wildcard, L, len
<1>12. Wildcard(cn, hn, n) <=>
         /\ lc = star
         /\ Len(suf) > 0 /\ suf[1] = "."
         /\ \A i \in 1 .. n : lab[i] # "."
         /\ \E i \in 2 .. Len(suf) : suf[i] = "."
  BY <1>6, <1>8, <1>9, <1>10, <1>11, Zenon
<1> QED
  BY <1>12, Zenon DEF suf, low, star, lc, lab

(* A wildcard pattern and a host name it covers have as many dots. *)
LEMMA SameDots ==
  ASSUME NEW cn \in Name, NEW hn \in Name, NEW n \in 0 .. Len(hn), Wildcard(cn, hn, n)
  PROVE  Count(cn, ".") = Count(hn, ".")
<1> DEFINE P == Positions(hn, ".")
           Q == Positions(cn, ".")
           f == [i \in P |-> i - n + 1]
           L(c) == to_ascii_lowercase(c)
<1>1. /\ Len(hn) \in Nat /\ n \in Nat /\ n <= Len(hn) /\ Len(cn) \in Nat
      /\ \A i \in 1 .. Len(hn) : hn[i] \in Chars
      /\ \A i \in 1 .. Len(cn) : cn[i] \in Chars
  BY DEF Name
<1>2. /\ n + 1 <= Len(hn) /\ Len(cn) = Len(hn) - n + 1
      /\ cn[1] = "*"
      /\ \A i \in 1 .. n : hn[i] # "."
      /\ \A i \in n + 1 .. Len(hn) : L(cn[i - n + 1]) = L(hn[i])
  BY Zenon DEF Wildcard
<1>3. \A i : i \in P <=> i \in 1 .. Len(hn) /\ hn[i] = "."
  BY Zenon DEF Positions
<1>4. \A i : i \in Q <=> i \in 1 .. Len(cn) /\ cn[i] = "."
  BY Zenon DEF Positions
<1>5. /\ \A i \in 1 .. Len(hn) : L(hn[i]) = "." <=> hn[i] = "."
      /\ \A i \in 1 .. Len(cn) : L(cn[i]) = "." <=> cn[i] = "."
  BY <1>1, LowerChar, Zenon
<1>6. IsFiniteSet(P)
  BY PositionsFinite, Zenon
<1> HIDE DEF P, Q, L
<1>7. ASSUME NEW i \in P
      PROVE  i \in n + 1 .. Len(hn) /\ i - n + 1 \in Q
  <2>1. i \in n + 1 .. Len(hn) /\ i - n + 1 \in 1 .. Len(cn) /\ hn[i] = "." /\ i \in 1 .. Len(hn)
    BY <1>1, <1>2, <1>3, SMTT(30)
  <2> QED
    BY <1>2, <1>4, <1>5, <2>1, Zenon
<1>8. f \in [P -> Q]
  BY <1>7
<1>9. \A i, j \in P : f[i] = f[j] => i = j
  BY <1>1, <1>7
<1>10. ASSUME NEW k \in Q
       PROVE  \E i \in P : f[i] = k
  <2>1. k \in 2 .. Len(cn) /\ k \in 1 .. Len(cn) /\ cn[k] = "."
    BY <1>1, <1>2, <1>4
  <2>2. /\ k + n - 1 \in n + 1 .. Len(hn) /\ k + n - 1 \in 1 .. Len(hn)
        /\ (k + n - 1) - n + 1 = k
    BY <1>1, <1>2, <2>1
  <2>3. hn[k + n - 1] = "."
    <3>1. L(cn[(k + n - 1) - n + 1]) = L(hn[k + n - 1])
      BY <1>2, <2>2, Zenon
    <3>2. L(cn[k]) = L(hn[k + n - 1])
      BY <2>2, <3>1
    <3> QED
      BY <1>5, <2>1, <2>2, <3>2, Zenon
  <2>4. k + n - 1 \in P
    BY <1>3, <2>2, <2>3, Zenon
  <2>5. f[k + n - 1] = k
    BY <2>2, <2>4
  <2> QED
    BY <2>4, <2>5, Zenon
<1> HIDE DEF f
<1>11. f \in Bijection(P, Q)
  BY <1>8, <1>9, <1>10, Zenon DEF Bijection, Injection, Surjection, IsInjective
<1>12. ExistsBijection(P, Q)
  BY <1>11, Zenon DEF ExistsBijection
<1> QED
  BY <1>6, <1>12, FS_Bijection, Zenon DEF P, Q, Count

(* The wildcard branch of tls_hostname_match_impl, from the first dot. *)
LEMMA WildcardMatches ==
  ASSUME NEW cn \in Name, NEW hn \in Name, NEW d \in Positions(hn, "."),
         \A i \in Positions(hn, ".") : d <= i,
         Len(cn) >= 2, cn[1] = "*", cn[2] = ".", Count(cn, ".") >= 2,
         Lower(After(cn, 2)) = Lower(After(hn, d))
  PROVE  Wildcard(cn, hn, d - 1)
<1> DEFINE L(c) == to_ascii_lowercase(c)
<1>1. /\ Len(hn) \in Nat /\ Len(cn) \in Nat
      /\ \A i \in 1 .. Len(hn) : hn[i] \in Chars
      /\ \A i \in 1 .. Len(cn) : cn[i] \in Chars
  BY DEF Name
<1>2. d \in 1 .. Len(hn) /\ hn[d] = "." /\ \A i \in 1 .. Len(hn) : hn[i] = "." => d <= i
  BY Zenon DEF Positions
<1>3. 2 \in 0 .. Len(cn) /\ d \in 0 .. Len(hn)
  BY <1>1, <1>2
<1>4. /\ After(cn, 2) \in Name /\ Len(After(cn, 2)) = Len(cn) - 2
      /\ \A i \in 1 .. Len(cn) - 2 : After(cn, 2)[i] = cn[2 + i]
  BY <1>3, AfterName
<1>5. /\ After(hn, d) \in Name /\ Len(After(hn, d)) = Len(hn) - d
      /\ \A i \in 1 .. Len(hn) - d : After(hn, d)[i] = hn[d + i]
  BY <1>3, AfterName
<1>6. /\ Len(After(cn, 2)) = Len(After(hn, d))
      /\ \A i \in 1 .. Len(After(cn, 2)) : L(After(cn, 2)[i]) = L(After(hn, d)[i])
  BY <1>4, <1>5, SameLower, Zenon
<1>7. Len(cn) - 2 = Len(hn) - d /\ \A i \in 1 .. Len(cn) - 2 : L(cn[2 + i]) = L(hn[d + i])
  BY <1>4, <1>5, <1>6, Zenon
<1> HIDE DEF L
<1>8. ASSUME NEW i \in d .. Len(hn)
      PROVE  i - (d - 1) + 1 \in 2 .. Len(cn) /\ L(cn[i - (d - 1) + 1]) = L(hn[i])
  <2>1. CASE i = d
    <3>1. i - (d - 1) + 1 = 2 /\ 2 \in 2 .. Len(cn)
      BY <1>1, <1>2, <2>1
    <3> QED
      BY <1>2, <2>1, <3>1, Zenon
  <2>2. CASE i # d
    <3>1. i - d \in 1 .. Len(cn) - 2 /\ 2 + (i - d) = i - (d - 1) + 1 /\ d + (i - d) = i
      BY <1>1, <1>2, <1>7, <2>2
    <3>2. L(cn[i - (d - 1) + 1]) = L(hn[i])
      BY <1>7, <3>1, Zenon
    <3> QED
      BY <1>1, <3>1, <3>2, SMTT(30)
  <2> QED
    BY <2>1, <2>2
<1>9. \E i \in (d - 1) + 2 .. Len(hn) : hn[i] = "."
  <2>1. 2 \in Positions(cn, ".")
    BY <1>1 DEF Positions
  <2>2. PICK p \in Positions(cn, ".") : p # 2
    BY <2>1, AnotherPosition
  <2>3. p \in 1 .. Len(cn) /\ cn[p] = "."
    BY DEF Positions
  <2>4. p \in 3 .. Len(cn)
    BY <1>1, <2>2, <2>3
  <2>5. /\ p - 2 \in 1 .. Len(cn) - 2 /\ 2 + (p - 2) = p
        /\ d + (p - 2) \in 1 .. Len(hn) /\ d + (p - 2) \in (d - 1) + 2 .. Len(hn)
    BY <1>1, <1>2, <1>7, <2>4
  <2>6. L(cn[p]) = L(hn[d + (p - 2)])
    BY <1>7, <2>5, Zenon
  <2>7. (L(cn[p]) = "." <=> cn[p] = ".") /\ (L(hn[d + (p - 2)]) = "." <=> hn[d + (p - 2)] = ".")
    BY <1>1, <2>3, <2>5, LowerChar, Zenon DEF L
  <2> QED
    BY <2>3, <2>5, <2>6, <2>7, Zenon
<1>10. (d - 1) + 1 = d /\ d <= Len(hn) /\ Len(cn) = Len(hn) - (d - 1) + 1
  BY <1>1, <1>2, <1>7
<1>11. \A i \in 1 .. d - 1 : hn[i] # "."
  BY <1>1, <1>2
<1> QED
  BY <1>2, <1>8, <1>9, <1>10, <1>11, Zenon DEF Wildcard, L

(* A pattern that covers a host name passes the counting. *)
LEMMA MatchesWildcard ==
  ASSUME NEW cn \in Name, NEW hn \in Name, NEW n \in 0 .. Len(hn), Wildcard(cn, hn, n),
         \A i \in 1 .. Len(hn) : hn[i] \in HostChars
  PROVE  /\ \A i \in 1 .. Len(cn) : cn[i] \in HostChars \cup {"*"}
         /\ Count(cn, "*") = 1
         /\ Len(cn) >= 2 /\ cn[1] = "*" /\ cn[2] = "."
         /\ Count(cn, ".") >= 2
         /\ n + 1 \in Positions(hn, ".")
         /\ \A i \in Positions(hn, ".") : n + 1 <= i
         /\ Lower(After(cn, 2)) = Lower(After(hn, n + 1))
<1> DEFINE L(c) == to_ascii_lowercase(c)
<1>1. /\ Len(hn) \in Nat /\ n \in Nat /\ n <= Len(hn) /\ Len(cn) \in Nat
      /\ \A i \in 1 .. Len(hn) : hn[i] \in Chars
      /\ \A i \in 1 .. Len(cn) : cn[i] \in Chars
  BY DEF Name
<1>2. /\ n + 1 <= Len(hn) /\ Len(cn) = Len(hn) - n + 1
      /\ cn[1] = "*"
      /\ \A i \in 1 .. n : hn[i] # "."
      /\ hn[n + 1] = "."
      /\ \E i \in n + 2 .. Len(hn) : hn[i] = "."
      /\ \A i \in n + 1 .. Len(hn) : L(cn[i - n + 1]) = L(hn[i])
  BY Zenon DEF Wildcard
<1>3. Len(cn) >= 2
  BY <1>1, <1>2
<1>4. ASSUME NEW c \in Chars, NEW e \in Chars, L(c) = L(e)
      PROVE  (c = "." <=> e = ".") /\ (c = "*" <=> e = "*") /\ (c \in HostChars <=> e \in HostChars)
  BY <1>4, LowerChar, Zenon
<1> HIDE DEF L
<1>5. ASSUME NEW k \in 2 .. Len(cn)
      PROVE  /\ k + n - 1 \in 1 .. Len(hn)
             /\ cn[k] = "." <=> hn[k + n - 1] = "."
             /\ cn[k] = "*" <=> hn[k + n - 1] = "*"
             /\ cn[k] \in HostChars <=> hn[k + n - 1] \in HostChars
             /\ L(cn[k]) = L(hn[k + n - 1])
  <2>1. /\ k + n - 1 \in n + 1 .. Len(hn) /\ k + n - 1 \in 1 .. Len(hn) /\ k \in 1 .. Len(cn)
        /\ (k + n - 1) - n + 1 = k
    BY <1>1, <1>2
  <2>2. L(cn[(k + n - 1) - n + 1]) = L(hn[k + n - 1])
    BY <1>2, <2>1, Zenon
  <2>3. L(cn[k]) = L(hn[k + n - 1])
    BY <2>1, <2>2
  <2>4. cn[k] \in Chars /\ hn[k + n - 1] \in Chars
    BY <1>1, <2>1, Zenon
  <2> QED
    BY <1>4, <2>1, <2>3, <2>4, Zenon
<1>6. ASSUME NEW k \in 2 .. Len(cn) PROVE cn[k] \in HostChars /\ cn[k] # "*"
  <2>1. "*" \notin HostChars
    BY DEF HostChars, Letters
  <2> QED
    BY <1>5, <2>1, Zenon
<1>7. \A i \in 1 .. Len(cn) : cn[i] \in HostChars \cup {"*"}
  <2> SUFFICES ASSUME NEW i \in 1 .. Len(cn) PROVE cn[i] \in HostChars \cup {"*"}
    OBVIOUS
  <2>1. i = 1 \/ i \in 2 .. Len(cn)
    BY <1>1
  <2> QED
    BY <1>2, <1>6, <2>1, Zenon
<1>8. Count(cn, "*") = 1
  <2>1. Len(cn) >= 1
    BY <1>1, <1>3
  <2> QED
    BY <1>2, <1>6, <2>1, OneStar, Zenon
<1>9. cn[2] = "." /\ 2 \in Positions(cn, ".")
  <2>1. 2 \in 2 .. Len(cn) /\ 2 + n - 1 = n + 1 /\ 2 \in 1 .. Len(cn)
    BY <1>1, <1>3
  <2>2. cn[2] = "."
    BY <1>2, <1>5, <2>1
  <2> QED
    BY <2>1, <2>2, Zenon DEF Positions
<1>10. Count(cn, ".") >= 2
  <2>1. PICK i \in n + 2 .. Len(hn) : hn[i] = "."
    BY <1>2, Zenon
  <2>2. i - n + 1 \in 2 .. Len(cn) /\ i - n + 1 \in 1 .. Len(cn) /\ i - n + 1 # 2 /\ (i - n + 1) + n - 1 = i
    BY <1>1, <1>2
  <2>3. cn[i - n + 1] = "."
    BY <1>5, <2>1, <2>2, SMTT(30)
  <2>4. i - n + 1 \in Positions(cn, ".")
    BY <2>2, <2>3, Zenon DEF Positions
  <2> QED
    BY <1>9, <2>2, <2>4, AnotherPosition, ZenonT(60)
<1>11. n + 1 \in Positions(hn, ".") /\ \A i \in Positions(hn, ".") : n + 1 <= i
  BY <1>1, <1>2, SMTT(30) DEF Positions
<1>12. Lower(After(cn, 2)) = Lower(After(hn, n + 1))
  <2>1. 2 \in 0 .. Len(cn) /\ n + 1 \in 0 .. Len(hn)
    BY <1>1, <1>2, <1>3
  <2>2. /\ After(cn, 2) \in Name /\ Len(After(cn, 2)) = Len(cn) - 2
        /\ \A i \in 1 .. Len(cn) - 2 : After(cn, 2)[i] = cn[2 + i]
    BY <2>1, AfterName
  <2>3. /\ After(hn, n + 1) \in Name /\ Len(After(hn, n + 1)) = Len(hn) - (n + 1)
        /\ \A i \in 1 .. Len(hn) - (n + 1) : After(hn, n + 1)[i] = hn[(n + 1) + i]
    BY <2>1, AfterName
  <2>4. Len(cn) - 2 = Len(hn) - (n + 1)
    BY <1>1, <1>2
  <2>5. ASSUME NEW i \in 1 .. Len(cn) - 2
        PROVE  L(After(cn, 2)[i]) = L(After(hn, n + 1)[i])
    <3>1. 2 + i \in 2 .. Len(cn) /\ (2 + i) + n - 1 = (n + 1) + i
      BY <1>1
    <3>2. L(cn[2 + i]) = L(hn[(2 + i) + n - 1])
      BY <1>5, <3>1, Zenon
    <3>3. L(cn[2 + i]) = L(hn[(n + 1) + i])
      BY <3>1, <3>2
    <3> QED
      BY <2>2, <2>3, <2>4, <3>3, Zenon
  <2> QED
    BY <2>2, <2>3, <2>4, <2>5, SameLower, SMTT(30) DEF L
<1> QED
  BY <1>2, <1>3, <1>7, <1>8, <1>9, <1>10, <1>11, <1>12, Zenon

(* For every pattern and host name, tls_hostname_match_impl is the rule of
   RFC 6125 (src/pki.rs, hostname matching). *)
THEOREM HostnameMatchIsRfc6125 ==
  ASSUME NEW cn \in Name, NEW hn \in Name
  PROVE  tls_hostname_match_impl(cn, hn) <=> CoversHost(cn, hn)
<1> DEFINE Plain == \A i \in 1 .. Len(hn) : hn[i] \in HostChars
           Same == Lower(cn) = Lower(hn)
           Allowed == \A i \in 1 .. Len(cn) : cn[i] \in HostChars \cup {"*"}
           ByStar == \E n \in 0 .. Len(hn) : Wildcard(cn, hn, n)
           Starred == /\ Count(cn, "*") = 1
                      /\ Len(cn) >= 2 /\ cn[1] = "*" /\ cn[2] = "."
                      /\ 1 + Count(cn, ".") >= 3
                      /\ 1 + Count(cn, ".") = 1 + Count(hn, ".")
                      /\ \E d \in Positions(hn, ".") :
                           /\ \A i \in Positions(hn, ".") : d <= i
                           /\ Lower(After(cn, 2)) = Lower(After(hn, d))
<1>1. CoversHost(cn, hn) <=> Plain /\ (Same \/ ByStar)
  BY CoversWildcard, Zenon DEF CoversHost
<1>2. tls_hostname_match_impl(cn, hn) <=>
        Allowed /\ Plain /\ ((Count(cn, "*") = 0 /\ Same) \/ Starred)
  <2>1. DOMAIN cn = 1 .. Len(cn) /\ DOMAIN hn = 1 .. Len(hn)
    BY DEF Name
  <2> QED
    BY <2>1, Zenon DEF tls_hostname_match_impl
<1>3. Count(cn, ".") \in Nat /\ Count(hn, ".") \in Nat
  BY PositionsFinite, Zenon
<1>4. ASSUME Starred PROVE ByStar
  <2>1. PICK d \in Positions(hn, ".") :
               (\A i \in Positions(hn, ".") : d <= i) /\ Lower(After(cn, 2)) = Lower(After(hn, d))
    BY <1>4, Zenon
  <2>2. Count(cn, ".") >= 2
    BY <1>3, <1>4
  <2>3. Wildcard(cn, hn, d - 1)
    BY <1>4, <2>1, <2>2, WildcardMatches, Zenon
  <2>4. d - 1 \in 0 .. Len(hn)
    BY DEF Positions, Name
  <2> QED
    BY <2>3, <2>4, Zenon
<1>5. ASSUME Plain, ByStar PROVE Allowed /\ Starred
  <2>1. PICK n \in 0 .. Len(hn) : Wildcard(cn, hn, n)
    BY <1>5, Zenon
  <2>2. Count(cn, ".") = Count(hn, ".")
    BY <2>1, SameDots, Zenon
  <2>3. /\ Allowed
        /\ Count(cn, "*") = 1
        /\ Len(cn) >= 2 /\ cn[1] = "*" /\ cn[2] = "."
        /\ Count(cn, ".") >= 2
        /\ n + 1 \in Positions(hn, ".")
        /\ \A i \in Positions(hn, ".") : n + 1 <= i
        /\ Lower(After(cn, 2)) = Lower(After(hn, n + 1))
    BY <1>5, <2>1, MatchesWildcard, Zenon
  <2>4. 1 + Count(cn, ".") >= 3 /\ 1 + Count(cn, ".") = 1 + Count(hn, ".")
    BY <1>3, <2>2, <2>3
  <2> QED
    BY <2>3, <2>4, Zenon
<1>6. ASSUME Plain, Same PROVE Allowed /\ Count(cn, "*") = 0
  <2>1. Len(cn) = Len(hn) /\ \A i \in 1 .. Len(cn) : to_ascii_lowercase(cn[i]) = to_ascii_lowercase(hn[i])
    BY <1>6, SameLower, Zenon
  <2>2. ASSUME NEW i \in 1 .. Len(cn) PROVE cn[i] \in HostChars /\ cn[i] # "*"
    <3>1. cn[i] \in Chars /\ hn[i] \in Chars /\ hn[i] \in HostChars
      BY <1>6, <2>1 DEF Name
    <3>2. cn[i] \in HostChars
      BY <2>1, <3>1, LowerChar, Zenon
    <3> QED
      BY <3>2 DEF HostChars, Letters
  <2> QED
    BY <2>2, NoStar, Zenon
<1> HIDE DEF Plain, Same, Allowed, ByStar, Starred
<1> QED
  BY <1>1, <1>2, <1>4, <1>5, <1>6, Zenon

-----------------------------------------------------------------------------
(* The names of a certificate. *)

LEMMA LeastIs ==
  ASSUME NEW x \in Nat, NEW y \in Nat
  PROVE  /\ Least(x, y) <= y
         /\ x <= y => Least(x, y) = x
         /\ y # 0 /\ Least(x, y) = 0 => x = 0
  BY DEF Least

(* One SAN extension: names are kept in order as long as there is room. *)
LEMMA ReadSanKeeps ==
  ASSUME NEW acc, acc.val \in Seq(Name), Len(acc.val) <= MAX_SAN_DNS_NAMES, NEW names \in Seq(Name)
  PROVE  LET v == ReadSan(acc, names).val
             a == Len(acc.val)
             m == Least(Len(names), MAX_SAN_DNS_NAMES - a)
         IN  /\ v \in Seq(Name) /\ Len(v) = a + m /\ m \in 0 .. Len(names)
             /\ \A i \in 1 .. a : v[i] = acc.val[i]
             /\ \A i \in 1 .. m : v[a + i] = names[i]
<1> DEFINE a == Len(acc.val)
           room == MAX_SAN_DNS_NAMES - a
           k == IF room = 0 THEN Least(Len(names), 1) ELSE Least(Len(names), room)
           read == SubSeq(names, 1, k)
           l == Least(Len(read), room)
           kept == SubSeq(read, 1, l)
           m == Least(Len(names), room)
           v == ReadSan(acc, names).val
<1>1. v = acc.val \o kept
  BY Zenon DEF ReadSan
<1>2. a \in Nat /\ room \in Nat /\ Len(names) \in Nat
  BY SizesAssumption
<1>3. k \in 0 .. Len(names) /\ m \in 0 .. Len(names) /\ m <= k /\ m = Least(k, room)
  BY <1>2 DEF Least
<1>4. \A i \in 1 .. k : names[i] \in Name
  BY <1>3
<1> HIDE DEF a, room, k, m
<1>5. read \in Seq(Name) /\ Len(read) = k /\ \A i \in 1 .. k : read[i] = names[i]
  BY <1>2, <1>3, <1>4, SubSeqProperties
<1>6. l = m /\ \A i \in 1 .. m : i \in 1 .. k /\ read[i] \in Name
  BY <1>2, <1>3, <1>4, <1>5
<1> HIDE DEF read, l
<1>7. kept \in Seq(Name) /\ Len(kept) = m /\ \A i \in 1 .. m : kept[i] = read[i]
  BY <1>2, <1>3, <1>6, SubSeqProperties
<1>8. \A i \in 1 .. m : kept[i] = names[i]
  BY <1>5, <1>6, <1>7, Zenon
<1> HIDE DEF kept, v
<1>9. /\ v \in Seq(Name) /\ Len(v) = a + m
      /\ \A i \in 1 .. a + m : v[i] = IF i <= a THEN acc.val[i] ELSE kept[i - a]
  BY <1>1, <1>7, ConcatProperties, Zenon DEF a
<1>10. \A i \in 1 .. a : v[i] = acc.val[i]
  BY <1>2, <1>3, <1>9, SMTT(30)
<1>11. ASSUME NEW i \in 1 .. m PROVE v[a + i] = names[i]
  <2>1. a + i \in 1 .. a + m /\ ~(a + i <= a) /\ (a + i) - a = i
    BY <1>2, <1>3
  <2>2. v[a + i] = kept[(a + i) - a]
    BY <1>9, <2>1, Zenon
  <2> QED
    BY <1>8, <2>1, <2>2
<1> QED
  BY <1>3, <1>9, <1>10, <1>11, Zenon DEF a, m, v, room

IsRead(f, sans, n) == f = [k \in 0 .. n |-> IF k = 0 THEN NoSan ELSE ReadSan(f[k - 1], sans[k])]

(* The recursive function of extract_san_dns_names exists. *)
LEMMA ReadExists ==
  ASSUME NEW sans, NEW N \in Nat PROVE \E f : IsRead(f, sans, N)
<1> DEFINE S == {n \in Nat : \E f : IsRead(f, sans, n)}
<1>1. 0 \in S
  <2>1. IsRead([k \in 0 .. 0 |-> NoSan], sans, 0)
    BY DEF IsRead
  <2> QED BY <2>1
<1>2. ASSUME NEW n \in 0 .. N - 1, n \in S
      PROVE  n + 1 \in S
  <2>1. PICK f : IsRead(f, sans, n)
    BY <1>2
  <2> DEFINE g == [k \in 0 .. n + 1 |-> IF k = n + 1 THEN ReadSan(f[n], sans[n + 1]) ELSE f[k]]
  <2>2. \A k \in 0 .. n : f[k] = IF k = 0 THEN NoSan ELSE ReadSan(f[k - 1], sans[k])
    BY <2>1 DEF IsRead
  <2>3. IsRead(g, sans, n + 1)
    BY <2>2 DEF IsRead
  <2> QED BY <2>3
<1> HIDE DEF S
<1>3. \A i \in 0 .. N : i \in S
  BY <1>1, <1>2, IntervalInduction
<1> QED BY <1>3 DEF S

(* What it computes, extension by extension. *)
LEMMA ReadSteps ==
  ASSUME NEW cert, Len(cert.sans) \in Nat
  PROVE  \E f : /\ f[0] = NoSan /\ extract_san_dns_names(cert) = f[Len(cert.sans)]
                /\ \A k \in 1 .. Len(cert.sans) : f[k] = ReadSan(f[k - 1], cert.sans[k])
<1> DEFINE f == CHOOSE f : IsRead(f, cert.sans, Len(cert.sans))
<1>1. extract_san_dns_names(cert) = f[Len(cert.sans)]
  BY Zenon DEF extract_san_dns_names, IsRead
<1>2. IsRead(f, cert.sans, Len(cert.sans))
  BY ReadExists, Zenon
<1> HIDE DEF f
<1>3. \A k \in 0 .. Len(cert.sans) : f[k] = IF k = 0 THEN NoSan ELSE ReadSan(f[k - 1], cert.sans[k])
  BY <1>2, Zenon DEF IsRead
<1> QED BY <1>1, <1>3

IsSum(f, sans, n) == f = [k \in 0 .. n |-> IF k = 0 THEN 0 ELSE f[k - 1] + Len(sans[k])]

(* The same for SanCount. *)
LEMMA SumExists ==
  ASSUME NEW sans, NEW N \in Nat PROVE \E f : IsSum(f, sans, N)
<1> DEFINE S == {n \in Nat : \E f : IsSum(f, sans, n)}
<1>1. 0 \in S
  <2>1. IsSum([k \in 0 .. 0 |-> 0], sans, 0)
    BY DEF IsSum
  <2> QED BY <2>1
<1>2. ASSUME NEW n \in 0 .. N - 1, n \in S
      PROVE  n + 1 \in S
  <2>1. PICK f : IsSum(f, sans, n)
    BY <1>2
  <2> DEFINE g == [k \in 0 .. n + 1 |-> IF k = n + 1 THEN f[n] + Len(sans[n + 1]) ELSE f[k]]
  <2>2. \A k \in 0 .. n : f[k] = IF k = 0 THEN 0 ELSE f[k - 1] + Len(sans[k])
    BY <2>1 DEF IsSum
  <2>3. ASSUME NEW k \in 0 .. n + 1
        PROVE  g[k] = IF k = 0 THEN 0 ELSE g[k - 1] + Len(sans[k])
    <3>1. CASE k = n + 1
      <4>1. g[k - 1] = f[n] /\ g[k] = f[n] + Len(sans[k])
        BY <3>1
      <4> QED BY <3>1, <4>1
    <3>2. CASE k # n + 1 /\ k # 0
      <4>1. g[k - 1] = f[k - 1] /\ g[k] = f[k] /\ k \in 0 .. n
        BY <3>2
      <4> QED BY <2>2, <3>2, <4>1, Zenon
    <3>3. CASE k = 0
      BY <2>2, <3>3
    <3> QED BY <3>1, <3>2, <3>3
  <2>4. g = [k \in 0 .. n + 1 |-> IF k = 0 THEN 0 ELSE g[k - 1] + Len(sans[k])]
    BY <2>3, Zenon
  <2>5. IsSum(g, sans, n + 1)
    BY <2>4, Zenon DEF IsSum
  <2> HIDE DEF g
  <2> QED BY <2>5
<1> HIDE DEF S
<1>3. \A i \in 0 .. N : i \in S
  BY <1>1, <1>2, IntervalInduction
<1> QED BY <1>3 DEF S

LEMMA SumSteps ==
  ASSUME NEW cert, Len(cert.sans) \in Nat
  PROVE  \E f : /\ f[0] = 0 /\ SanCount(cert) = f[Len(cert.sans)]
                /\ \A k \in 1 .. Len(cert.sans) : f[k] = f[k - 1] + Len(cert.sans[k])
<1> DEFINE f == CHOOSE f : IsSum(f, cert.sans, Len(cert.sans))
<1>1. SanCount(cert) = f[Len(cert.sans)]
  BY Zenon DEF SanCount, IsSum
<1>2. IsSum(f, cert.sans, Len(cert.sans))
  BY SumExists
<1> HIDE DEF f
<1>3. \A k \in 0 .. Len(cert.sans) : f[k] = IF k = 0 THEN 0 ELSE f[k - 1] + Len(cert.sans[k])
  BY <1>2, Zenon DEF IsSum
<1> QED BY <1>1, <1>3

(* What is kept of the SANs: some of the certificate's, one at least if there
   is one, and all of them if there is room. *)
LEMMA SansKept ==
  ASSUME NEW cert \in CertificateEntry
  PROVE  LET v == extract_san_dns_names(cert).val
         IN  /\ v \in Seq(Name)
             /\ \A i \in DOMAIN v : v[i] \in AllSans(cert)
             /\ v = <<>> => AllSans(cert) = {}
             /\ SanCount(cert) <= MAX_SAN_DNS_NAMES =>
                  \A san \in AllSans(cert) : \E i \in DOMAIN v : v[i] = san
<1> DEFINE n == Len(cert.sans)
           max == MAX_SAN_DNS_NAMES
<1>1. n \in Nat /\ max \in Nat \ {0} /\ cert.sans \in Seq(Seq(Name)) /\ DOMAIN cert.sans = 1 .. n
  BY SizesAssumption DEF CertificateEntry
<1>2. \A k \in 1 .. n : /\ cert.sans[k] \in Seq(Name) /\ Len(cert.sans[k]) \in Nat
                        /\ DOMAIN cert.sans[k] = 1 .. Len(cert.sans[k])
  BY <1>1
<1>3. PICK f : /\ f[0] = NoSan /\ extract_san_dns_names(cert) = f[n]
               /\ \A k \in 1 .. n : f[k] = ReadSan(f[k - 1], cert.sans[k])
  BY <1>1, ReadSteps, Zenon
<1>4. PICK c : /\ c[0] = 0 /\ SanCount(cert) = c[n]
               /\ \A k \in 1 .. n : c[k] = c[k - 1] + Len(cert.sans[k])
  BY <1>1, SumSteps, Zenon
<1> DEFINE In(x, k) == \E j \in 1 .. k : \E i \in 1 .. Len(cert.sans[j]) : x = cert.sans[j][i]
           Kept(v, k) ==
             /\ v \in Seq(Name) /\ Len(v) <= max
             /\ \A i \in 1 .. Len(v) : In(v[i], k)
             /\ Len(v) = 0 => \A j \in 1 .. k : Len(cert.sans[j]) = 0
           Full(v, k) ==
             c[k] <= max => /\ Len(v) = c[k]
                            /\ \A j \in 1 .. k : \A i \in 1 .. Len(cert.sans[j]) :
                                 \E h \in 1 .. Len(v) : v[h] = cert.sans[j][i]
           S == {k \in Nat : c[k] \in Nat /\ Kept(f[k].val, k) /\ Full(f[k].val, k)}
<1>5. 0 \in S
  <2>1. NoSan.val = <<>>
    BY DEF NoSan
  <2>2. f[0].val = <<>>
    BY <1>3, <2>1, Zenon
  <2>3. <<>> \in Seq(Name) /\ Len(<<>>) = 0 /\ 0 <= max /\ \A j : j \notin 1 .. 0
    BY <1>1
  <2>4. Kept(<<>>, 0)
    BY <2>3, Zenon
  <2>5. Full(<<>>, 0)
    BY <1>4, <2>3, Zenon
  <2> HIDE DEF Kept, Full
  <2> QED
    BY <1>4, <2>2, <2>4, <2>5
<1>6. ASSUME NEW k \in 0 .. n - 1, k \in S
      PROVE  k + 1 \in S
  <2> DEFINE s == cert.sans[k + 1]
             u == f[k].val
             v == f[k + 1].val
             a == Len(u)
             m == Least(Len(s), max - a)
  <2>1. k \in Nat /\ k + 1 \in 1 .. n /\ k + 1 \in Nat /\ (k + 1) - 1 = k
    BY <1>1
  <2>2. c[k] \in Nat /\ Kept(u, k) /\ Full(u, k)
    BY <1>6, Zenon
  <2>3. s \in Seq(Name) /\ Len(s) \in Nat
    BY <1>2, <2>1, Zenon
  <2>4. f[k + 1] = ReadSan(f[k], s) /\ c[k + 1] = c[k] + Len(s)
    BY <1>3, <1>4, <2>1
  <2>5. u \in Seq(Name) /\ a <= max /\ a \in Nat
    BY <2>2
  <2>6. /\ v \in Seq(Name) /\ Len(v) = a + m /\ m \in 0 .. Len(s)
        /\ \A i \in 1 .. a : v[i] = u[i]
        /\ \A i \in 1 .. m : v[a + i] = s[i]
    <3>1. v = ReadSan(f[k], s).val
      BY <2>4, Zenon
    <3> HIDE DEF v, s
    <3> QED
      BY <2>3, <2>5, <3>1, ReadSanKeeps, ZenonT(60)
  <2> HIDE DEF s, u, v
  <2>11. m <= max - a /\ (a + Len(s) <= max => m = Len(s)) /\ (m = 0 /\ a = 0 => Len(s) = 0)
    <3>1. max - a \in Nat /\ (a = 0 => max - a # 0) /\ (a + Len(s) <= max => Len(s) <= max - a)
      BY <1>1, <2>3, <2>5
    <3>2. /\ m <= max - a
          /\ Len(s) <= max - a => m = Len(s)
          /\ max - a # 0 /\ m = 0 => Len(s) = 0
      BY <2>3, <3>1, LeastIs
    <3> QED
      BY <3>1, <3>2, Zenon
  <2> HIDE DEF a, m
  <2>7. \A j : j \in 1 .. k + 1 <=> j \in 1 .. k \/ j = k + 1
    BY <2>1
  <2>8. Kept(v, k + 1)
    <3>1. v \in Seq(Name) /\ Len(v) <= max
      BY <1>1, <2>3, <2>5, <2>6, <2>11
    <3>2. ASSUME NEW i \in 1 .. Len(v) PROVE In(v[i], k + 1)
      <4>1. CASE i \in 1 .. a
        <5>1. In(u[i], k) /\ v[i] = u[i]
          BY <2>2, <2>6, <4>1, Zenon DEF a
        <5> QED
          BY <2>7, <5>1, Zenon
      <4>2. CASE i \notin 1 .. a
        <5>1. i - a \in 1 .. m /\ a + (i - a) = i /\ i - a \in 1 .. Len(s)
          BY <2>3, <2>5, <2>6, <4>2
        <5>2. v[a + (i - a)] = s[i - a]
          BY <2>6, <5>1, Zenon
        <5>3. v[i] = s[i - a]
          BY <5>1, <5>2
        <5> QED
          BY <2>1, <2>7, <5>1, <5>3, Zenon DEF s
      <4> QED
        BY <4>1, <4>2
    <3>3. ASSUME Len(v) = 0, NEW j \in 1 .. k + 1 PROVE Len(cert.sans[j]) = 0
      <4>1. a = 0 /\ m = 0
        <5>1. Len(v) = a + m /\ m \in 0 .. Len(s)
          BY <2>6, Zenon
        <5> QED
          BY <2>3, <2>5, <3>3, <5>1
      <4>2. Len(s) = 0
        BY <2>11, <4>1
      <4> QED
        BY <2>2, <2>7, <4>1, <4>2, Zenon DEF a, s
    <3> QED
      BY <3>1, <3>2, <3>3, Zenon
  <2>9. Full(v, k + 1)
    <3> SUFFICES ASSUME c[k + 1] <= max
                 PROVE  /\ Len(v) = c[k + 1]
                        /\ \A j \in 1 .. k + 1 : \A i \in 1 .. Len(cert.sans[j]) :
                             \E h \in 1 .. Len(v) : v[h] = cert.sans[j][i]
      OBVIOUS
    <3>1. c[k] <= max
      BY <1>1, <2>2, <2>3, <2>4, SMTT(30)
    <3>2. /\ a = c[k]
          /\ \A j \in 1 .. k : \A i \in 1 .. Len(cert.sans[j]) : \E h \in 1 .. a : u[h] = cert.sans[j][i]
      BY <2>2, <3>1, Zenon DEF a
    <3>3. m = Len(s)
      BY <1>1, <2>4, <2>11, <3>2
    <3>4. Len(v) = c[k + 1]
      BY <2>4, <2>6, <3>2, <3>3
    <3>5. (\A h \in 1 .. a : h \in 1 .. Len(v)) /\ \A i \in 1 .. Len(s) : a + i \in 1 .. Len(v)
      BY <2>3, <2>5, <2>6, <3>3
    <3>6. ASSUME NEW j \in 1 .. k + 1, NEW i \in 1 .. Len(cert.sans[j])
          PROVE  \E h \in 1 .. Len(v) : v[h] = cert.sans[j][i]
      <4>1. CASE j \in 1 .. k
        <5>1. PICK h \in 1 .. a : u[h] = cert.sans[j][i]
          BY <3>2, <4>1, Zenon
        <5> QED
          BY <2>6, <3>5, <5>1, Zenon
      <4>2. CASE j = k + 1
        BY <2>6, <3>3, <3>5, <4>2, Zenon DEF s
      <4> QED
        BY <2>7, <4>1, <4>2, Zenon
    <3> QED
      BY <3>4, <3>6, Zenon
  <2>10. c[k + 1] \in Nat
    BY <2>2, <2>3, <2>4, SMTT(30)
  <2> QED
    BY <2>1, <2>8, <2>9, <2>10, Zenon DEF v
<1>7. n \in S
  <2> HIDE DEF S
  <2>1. \A i \in 0 .. n : i \in S
    BY <1>1, <1>5, <1>6, IntervalInduction, Zenon
  <2> QED
    BY <1>1, <2>1
<1> DEFINE v == f[n].val
<1>8. Kept(v, n) /\ Full(v, n)
  BY <1>7, Zenon
<1>9. v \in Seq(Name) /\ DOMAIN v = 1 .. Len(v) /\ Len(v) \in Nat
  BY <1>8
<1>10. \A x : x \in AllSans(cert) <=> In(x, n)
  <2>1. ASSUME NEW x, x \in AllSans(cert) PROVE In(x, n)
    <3>1. PICK k \in DOMAIN cert.sans : x \in {cert.sans[k][i] : i \in DOMAIN cert.sans[k]}
      BY <2>1, Zenon DEF AllSans
    <3>2. PICK i \in DOMAIN cert.sans[k] : x = cert.sans[k][i]
      BY <3>1, Zenon
    <3> QED
      BY <1>1, <1>2, <3>2, Zenon
  <2>2. ASSUME NEW x, In(x, n) PROVE x \in AllSans(cert)
    <3>1. PICK k \in 1 .. n : \E i \in 1 .. Len(cert.sans[k]) : x = cert.sans[k][i]
      BY <2>2, Zenon
    <3>2. x \in {cert.sans[k][i] : i \in DOMAIN cert.sans[k]}
      BY <1>2, <3>1, Zenon
    <3> QED
      BY <1>1, <3>2, Zenon DEF AllSans
  <2> QED
    BY <2>1, <2>2, Zenon
<1> HIDE DEF v
<1>11. v = <<>> => AllSans(cert) = {}
  <2> SUFFICES ASSUME v = <<>>, NEW x, In(x, n) PROVE FALSE
    BY <1>10, Zenon
  <2>1. Len(v) = 0
    OBVIOUS
  <2>2. PICK j \in 1 .. n : \E i \in 1 .. Len(cert.sans[j]) : x = cert.sans[j][i]
    BY Zenon
  <2>3. Len(cert.sans[j]) = 0
    BY <1>8, <2>1, Zenon
  <2> QED
    BY <2>2, <2>3
<1>12. \A i \in DOMAIN v : v[i] \in AllSans(cert)
  BY <1>8, <1>9, <1>10, Zenon
<1>13. SanCount(cert) <= max => \A san \in AllSans(cert) : \E i \in DOMAIN v : v[i] = san
  <2> SUFFICES ASSUME SanCount(cert) <= max, NEW san \in AllSans(cert)
               PROVE  \E i \in DOMAIN v : v[i] = san
    BY Zenon
  <2>1. c[n] <= max
    BY <1>4
  <2>2. \A j \in 1 .. n : \A i \in 1 .. Len(cert.sans[j]) : \E h \in 1 .. Len(v) : v[h] = cert.sans[j][i]
    BY <1>8, <2>1, Zenon
  <2>3. PICK j \in 1 .. n : \E i \in 1 .. Len(cert.sans[j]) : san = cert.sans[j][i]
    BY <1>10, Zenon
  <2>5. PICK i \in 1 .. Len(cert.sans[j]) : san = cert.sans[j][i]
    BY <2>3, Zenon
  <2>4. PICK h \in 1 .. Len(v) : v[h] = cert.sans[j][i]
    BY <2>2, Zenon
  <2> QED
    BY <1>9, <2>5, <2>4, SMTT(30)
<1>14. extract_san_dns_names(cert).val = v
  BY <1>3, Zenon DEF v
<1> QED
  BY <1>9, <1>11, <1>12, <1>13, <1>14, Zenon

-----------------------------------------------------------------------------
(* Signatures and links of a chain. *)

(* A certificate's signature passes exactly when its algorithm is known and it
   was made with the issuer's key, of the kind that the algorithm takes. *)
LEMMA CertSignatureOk ==
  ASSUME NEW alg, NEW key, NEW sig
  PROVE  CertSignature(alg, key, sig) = "Ok" <=>
           alg \in DOMAIN KeyKind /\ KeyKind[alg] = key.kind /\ sig = key
<1>1. alg \in DOMAIN KeyKind /\ KeyKind[alg] = key.kind /\ alg = "ED25519" => Is32Bytes(key)
  BY DEF KeyKind, Is32Bytes
<1>2. alg \in DOMAIN KeyKind /\ KeyKind[alg] = key.kind => key # Malformed
  BY DEF KeyKind, Malformed
<1> QED
  BY <1>1, <1>2, Zenon DEF CertSignature

(* The same for the CertificateVerify of a chain whose leaf was read (pki.rs)... *)
LEMMA LeafSignatureOk ==
  ASSUME NEW chain, NEW verify, NEW transcript
  PROVE  LeafSignature(chain, verify, transcript) = "Ok" <=>
           /\ chain # <<>> /\ chain[1].decodes
           /\ verify.signature_scheme \in DOMAIN SchemeKind
           /\ SchemeKind[verify.signature_scheme] = chain[1].key.kind
           /\ verify.signature = chain[1].key
           /\ verify.over = transcript
<1> DEFINE key == chain[1].key
           scheme == verify.signature_scheme
           Fits == scheme \in DOMAIN SchemeKind /\ SchemeKind[scheme] = key.kind
<1>1. /\ Fits /\ scheme = "Ed25519" => Is32Bytes(key)
      /\ Fits /\ scheme = "RsaPssRsaeSha256" => key.kind = "rsa"
  BY DEF SchemeKind, Is32Bytes
<1>2. Fits => key # Malformed
  BY DEF SchemeKind, Malformed
<1> QED
  BY <1>1, <1>2, Zenon DEF LeafSignature

(* ... and webpki.rs. *)
LEMMA WebpkiSignatureOk ==
  ASSUME NEW schemes, NEW chain, NEW verify, NEW transcript
  PROVE  webpki_verify_signature(schemes, chain, verify, transcript) = "Ok" <=>
           /\ verify.signature_scheme \in DOMAIN schemes
           /\ schemes[verify.signature_scheme] = chain[1].key.kind
           /\ verify.signature = chain[1].key
           /\ verify.over = transcript
  BY Zenon DEF webpki_verify_signature

InTime(cert, clock) == \A t \in clock : t \in cert.not_before .. cert.not_after

(* One link of the chain. *)
LEMMA LinkOk ==
  ASSUME NEW verifier, NEW cert \in CertificateEntry, NEW clock \in SUBSET Nat
  PROVE  verify_certificate(verifier, cert, clock).res = "Ok" <=>
           /\ verifier.entry = "X509" /\ verifier.decodes
           /\ cert.entry = "X509" /\ cert.decodes
           /\ extract_common_name(cert).ok /\ extract_san_dns_names(cert).ok
           /\ InTime(cert, clock)
           /\ cert.signature_algorithm \in DOMAIN KeyKind
           /\ KeyKind[cert.signature_algorithm] = verifier.key.kind
           /\ cert.signature = verifier.key
<1> DEFINE late == \E t \in clock : cert.not_before > t \/ cert.not_after < t
           sig == CertSignature(cert.signature_algorithm, verifier.key, cert.signature)
           cn == extract_common_name(cert).ok
           sans == extract_san_dns_names(cert).ok
<1>1. late <=> ~InTime(cert, clock)
  <2>1. cert.not_before \in Nat /\ cert.not_after \in Nat
    BY DEF CertificateEntry
  <2> QED
    BY <2>1 DEF InTime
<1>2. sig = "Ok" <=> /\ cert.signature_algorithm \in DOMAIN KeyKind
                     /\ KeyKind[cert.signature_algorithm] = verifier.key.kind
                     /\ cert.signature = verifier.key
  BY CertSignatureOk
<1>3. verify_certificate(verifier, cert, clock).res =
        CASE verifier.entry # "X509" \/ ~verifier.decodes -> "DecodeError"
          [] cert.entry # "X509"                          -> "InvalidCertificate"
          [] ~cert.decodes \/ ~cn \/ ~sans                -> "DecodeError"
          [] late                                         -> "InvalidCertificate"
          [] OTHER                                        -> sig
  BY Zenon DEF verify_certificate
<1> HIDE DEF late, sig, cn, sans
<1>4. verify_certificate(verifier, cert, clock).res = "Ok" <=>
        /\ verifier.entry = "X509" /\ verifier.decodes
        /\ cert.entry = "X509" /\ cert.decodes /\ cn /\ sans /\ ~late /\ sig = "Ok"
  BY <1>3, Zenon
<1> QED
  BY <1>1, <1>2, <1>4, Zenon DEF cn, sans

LEMMA LinkNames ==
  ASSUME NEW verifier, NEW cert, NEW clock
  PROVE  verify_certificate(verifier, cert, clock).names =
           [common_name |-> extract_common_name(cert).val, san_dns_names |-> extract_san_dns_names(cert).val]
  BY Zenon DEF verify_certificate

(* Entry k of the iterator. *)
Link(anchor, chain, clock, k) ==
  verify_certificate(CertificateChain(anchor, chain)[k][1], CertificateChain(anchor, chain)[k][2], clock)

IsWalk(f, anchor, chain, clock, n) ==
  f = [k \in 0 .. n |-> IF k = 0 THEN NothingWalked
                        ELSE IF f[k - 1].res # "Ok" THEN f[k - 1] ELSE Link(anchor, chain, clock, k)]

(* The recursive function of VerifyChain exists. *)
LEMMA WalkExists ==
  ASSUME NEW anchor, NEW chain, NEW clock, NEW N \in Nat PROVE \E f : IsWalk(f, anchor, chain, clock, N)
<1> DEFINE S == {n \in Nat : \E f : IsWalk(f, anchor, chain, clock, n)}
<1>1. 0 \in S
  <2>1. IsWalk([k \in 0 .. 0 |-> NothingWalked], anchor, chain, clock, 0)
    BY DEF IsWalk
  <2> QED BY <2>1
<1>2. ASSUME NEW n \in 0 .. N - 1, n \in S
      PROVE  n + 1 \in S
  <2>1. PICK f : IsWalk(f, anchor, chain, clock, n)
    BY <1>2
  <2> DEFINE g == [k \in 0 .. n + 1 |->
                     IF k = n + 1 THEN IF f[n].res # "Ok" THEN f[n] ELSE Link(anchor, chain, clock, k) ELSE f[k]]
  <2>2. \A k \in 0 .. n : f[k] = IF k = 0 THEN NothingWalked
                                 ELSE IF f[k - 1].res # "Ok" THEN f[k - 1] ELSE Link(anchor, chain, clock, k)
    BY <2>1, SMTT(30) DEF IsWalk
  <2>3. IsWalk(g, anchor, chain, clock, n + 1)
    BY <2>2, SMTT(30) DEF IsWalk
  <2> HIDE DEF g
  <2> QED BY <2>3
<1> HIDE DEF S
<1>3. \A i \in 0 .. N : i \in S
  BY <1>1, <1>2, IntervalInduction
<1> QED BY <1>3 DEF S

(* The walk succeeds exactly when every link does, and then returns the names
   of the last certificate yielded, the first of the chain. *)
LEMMA VerifyChainOk ==
  ASSUME NEW anchor, NEW chain, NEW clock, Len(chain) \in Nat
  PROVE  /\ VerifyChain(anchor, chain, clock).res = "Ok" <=>
              \A k \in 1 .. Len(chain) : Link(anchor, chain, clock, k).res = "Ok"
         /\ VerifyChain(anchor, chain, clock).res = "Ok" /\ Len(chain) > 0 =>
              VerifyChain(anchor, chain, clock) = Link(anchor, chain, clock, Len(chain))
         /\ Len(chain) = 0 => VerifyChain(anchor, chain, clock) = NothingWalked
<1> DEFINE n == Len(chain)
           f == CHOOSE f : IsWalk(f, anchor, chain, clock, n)
           L(k) == Link(anchor, chain, clock, k)
<1>1. VerifyChain(anchor, chain, clock) = f[n]
  BY Zenon DEF VerifyChain, IsWalk, Link
<1>2. IsWalk(f, anchor, chain, clock, n)
  BY WalkExists
<1> HIDE DEF f, L
<1>3. \A k \in 0 .. n : f[k] = IF k = 0 THEN NothingWalked ELSE IF f[k - 1].res # "Ok" THEN f[k - 1] ELSE L(k)
  BY <1>2, SMTT(30) DEF IsWalk, L
<1> DEFINE S == {k \in Nat : f[k].res = "Ok" <=> \A j \in 1 .. k : L(j).res = "Ok"}
<1>4. f[0] = NothingWalked /\ f[0].res = "Ok"
  BY <1>3 DEF NothingWalked
<1>5. 0 \in S
  BY <1>4
<1>6. ASSUME NEW k \in 0 .. n - 1
      PROVE  f[k + 1] = IF f[k].res # "Ok" THEN f[k] ELSE L(k + 1)
  <2>1. k + 1 \in 0 .. n /\ k + 1 # 0 /\ (k + 1) - 1 = k
    OBVIOUS
  <2> QED
    BY <1>3, <2>1
<1>7. ASSUME NEW k \in 0 .. n - 1, k \in S
      PROVE  k + 1 \in S
  <2>1. k + 1 \in Nat /\ \A j : j \in 1 .. k + 1 <=> j \in 1 .. k \/ j = k + 1
    OBVIOUS
  <2> QED
    BY <1>6, <1>7, <2>1, Zenon
<1>8. n \in S
  <2> HIDE DEF S
  <2>1. \A i \in 0 .. n : i \in S
    BY <1>5, <1>7, IntervalInduction, SMTT(30)
  <2> QED
    BY <2>1
<1>9. f[n].res = "Ok" /\ n > 0 => f[n] = L(n)
  <2> SUFFICES ASSUME f[n].res = "Ok", n > 0 PROVE f[n] = L(n)
    OBVIOUS
  <2>1. n - 1 \in 0 .. n - 1 /\ (n - 1) + 1 = n
    OBVIOUS
  <2>2. f[n] = IF f[n - 1].res # "Ok" THEN f[n - 1] ELSE L(n)
    BY <1>6, <2>1
  <2> QED
    BY <2>2, Zenon
<1>10. n = 0 => f[n] = NothingWalked
  BY <1>4
<1> QED
  BY <1>1, <1>8, <1>9, <1>10, Zenon DEF L

-----------------------------------------------------------------------------
(* The checks of a state against the trust predicate. *)

StateTypes ==
  /\ build \in Builds
  /\ ca \in CAs
  /\ now \in Clocks
  /\ host \in {{}} \cup {{h} : h \in Hosts}

LEMMA Types ==
  ASSUME StateTypes
  PROVE  /\ build.verifier \in {"pki", "webpki", "webpki_alloc"} /\ build.hash_len \in {32, 48}
         /\ ca \in CertificateEntry
         /\ now \in SUBSET Nat /\ TimeOf(now) \in Nat
         /\ host = {} \/ \E h \in Name : host = {h}
<1>1. build.verifier \in {"pki", "webpki", "webpki_alloc"} /\ build.hash_len \in {32, 48}
  BY SizesAssumption DEF StateTypes
<1>2. ca \in CertificateEntry /\ now \in SUBSET Nat
  BY InputsAssumption, Zenon DEF StateTypes
<1>3. TimeOf(now) \in Nat
  BY <1>2, Zenon DEF TimeOf
<1>4. host = {} \/ \E h \in Name : host = {h}
  BY InputsAssumption, Zenon DEF StateTypes
<1> QED
  BY <1>1, <1>2, <1>3, <1>4, Zenon

(* pki.rs: the links yielded by the iterator, in the order of the chain. *)
LEMMA ChainLinks ==
  ASSUME StateTypes, build.verifier = "pki", NEW chain \in Seq(CertificateEntry), chain # <<>>
  PROVE  (\A k \in 1 .. Len(chain) : Link(ca, chain, now, k).res = "Ok") <=>
           /\ ca.entry = "X509" /\ ca.decodes
           /\ \A i \in DOMAIN chain : chain[i].entry = "X509" /\ Vouched(chain, i)
<1> DEFINE n == Len(chain)
           I(i) == Issuer(chain, i)
           Good(i) == I(i).entry = "X509" /\ I(i).decodes /\ chain[i].entry = "X509" /\ Vouched(chain, i)
<1>1. /\ n \in Nat \ {0} /\ DOMAIN chain = 1 .. n
      /\ \A i \in 1 .. n : chain[i] \in CertificateEntry
  OBVIOUS
<1>2. now \in SUBSET Nat
  BY Types, Zenon
<1>3. ASSUME NEW i \in 1 .. n
      PROVE  Link(ca, chain, now, n + 1 - i) = verify_certificate(I(i), chain[i], now)
  <2> DEFINE k == n + 1 - i
  <2> HIDE DEF n
  <2>1. k \in 1 .. n /\ n + 1 - k = i /\ n + 2 - k = i + 1 /\ (k = 1 <=> i = n)
    BY <1>1
  <2>2. CertificateChain(ca, chain)[k] = <<IF k = 1 THEN ca ELSE chain[n + 2 - k], chain[n + 1 - k]>>
    BY <2>1, Zenon DEF CertificateChain, n
  <2>3. CertificateChain(ca, chain)[k][1] = I(i) /\ CertificateChain(ca, chain)[k][2] = chain[i]
    BY <2>1, <2>2 DEF Issuer, n
  <2> QED
    BY <2>3, Zenon DEF Link
<1>4. ASSUME NEW i \in 1 .. n
      PROVE  verify_certificate(I(i), chain[i], now).res = "Ok" <=> Good(i)
  <2> DEFINE cert == chain[i]
             alg == cert.signature_algorithm
  <2>1. verify_certificate(I(i), cert, now).res = "Ok" <=>
          /\ I(i).entry = "X509" /\ I(i).decodes
          /\ cert.entry = "X509" /\ cert.decodes
          /\ extract_common_name(cert).ok /\ extract_san_dns_names(cert).ok
          /\ InTime(cert, now)
          /\ alg \in DOMAIN KeyKind
          /\ KeyKind[alg] = I(i).key.kind
          /\ cert.signature = I(i).key
    BY <1>1, <1>2, LinkOk, Zenon
  <2>2. Vouched(chain, i) <=>
          /\ cert.decodes
          /\ extract_common_name(cert).ok /\ extract_san_dns_names(cert).ok
          /\ InTime(cert, now)
          /\ cert.signature = I(i).key
          /\ alg \in DOMAIN KeyKind
          /\ KeyKind[alg] = cert.signature.kind
    BY Zenon DEF Vouched, Readable, InTime, Accepts, Moments
  <2> QED
    BY <2>1, <2>2, Zenon
<1>5. (\A k \in 1 .. n : Link(ca, chain, now, k).res = "Ok") <=> \A i \in 1 .. n : Good(i)
  <2> HIDE DEF Good
  <2>1. ASSUME \A k \in 1 .. n : Link(ca, chain, now, k).res = "Ok", NEW i \in 1 .. n PROVE Good(i)
    <3>1. n + 1 - i \in 1 .. n
      BY <1>1
    <3> QED
      BY <1>3, <1>4, <2>1, <3>1, Zenon
  <2>2. ASSUME \A i \in 1 .. n : Good(i), NEW k \in 1 .. n PROVE Link(ca, chain, now, k).res = "Ok"
    <3>1. n + 1 - k \in 1 .. n /\ n + 1 - (n + 1 - k) = k
      BY <1>1
    <3>2. Link(ca, chain, now, n + 1 - (n + 1 - k)).res = "Ok"
      BY <1>3, <1>4, <2>2, <3>1, Zenon
    <3> QED
      BY <3>1, <3>2
  <2> QED
    BY <2>1, <2>2, Zenon
<1>6. I(n) = ca /\ n \in 1 .. n
  BY <1>1 DEF Issuer
<1>7. ASSUME ca.entry = "X509", ca.decodes, NEW i \in 1 .. n,
             \A j \in 1 .. n : chain[j].entry = "X509" /\ Vouched(chain, j)
      PROVE  I(i).entry = "X509" /\ I(i).decodes
  <2> HIDE DEF n
  <2>1. CASE i = n
    BY <1>6, <1>7, <2>1, Zenon
  <2>2. CASE i # n
    <3>1. i + 1 \in 1 .. n
      BY <1>1, <2>2
    <3>2. I(i) = chain[i + 1]
      BY <2>2, Zenon DEF Issuer, n
    <3>3. chain[i + 1].decodes
      BY <1>7, <3>1, Zenon DEF Vouched, Readable
    <3> QED
      BY <1>7, <3>1, <3>2, <3>3, Zenon
  <2> QED
    BY <2>1, <2>2
<1> QED
  BY <1>1, <1>5, <1>6, <1>7, Zenon

(* pki.rs: the names read from the first certificate against the host name. *)
LEMMA NamesOk ==
  ASSUME StateTypes, build.verifier = "pki", NEW chain \in Seq(CertificateEntry), chain # <<>>,
         NEW names, names.common_name = extract_common_name(chain[1]).val,
         names.san_dns_names = extract_san_dns_names(chain[1]).val
  PROVE  LET Covered == IF host = {} THEN LeafNames(chain) = {}
                        ELSE \E h \in host, x \in LeafNames(chain) : CoversHost(x, h)
         IN  /\ tls_hostname_match(names, host) => Covered
             /\ Covered /\ SanCount(chain[1]) <= MAX_SAN_DNS_NAMES => tls_hostname_match(names, host)
<1> DEFINE cert == chain[1]
           cns == extract_common_name(cert).val
           v == extract_san_dns_names(cert).val
           all == AllSans(cert)
           Room == SanCount(cert) <= MAX_SAN_DNS_NAMES
<1>1. cert \in CertificateEntry
  OBVIOUS
<1>2. /\ v \in Seq(Name)
      /\ \A i \in DOMAIN v : v[i] \in all
      /\ v = <<>> => all = {}
      /\ Room => \A san \in all : \E i \in DOMAIN v : v[i] = san
  BY <1>1, SansKept, Zenon
<1>3. \A x \in cns : x \in Name
  <2>1. cert.cns \in Seq(Name)
    BY <1>1 DEF CertificateEntry
  <2>2. Len(cert.cns) # 0 => cert.cns[Len(cert.cns)] \in Name
    BY <2>1
  <2>3. cns = {x \in {cert.cns[i] : i \in {Len(cert.cns)} \ {0}} : IsUtf8(x)}
    BY Zenon DEF extract_common_name
  <2> QED
    BY <2>2, <2>3, Zenon
<1>4. \A x : x \in LeafNames(chain) <=> x \in all \/ x \in cns
  BY Zenon DEF LeafNames
<1>5. host = {} \/ \E h \in Name : host = {h}
  BY Types, Zenon
<1>6. tls_hostname_match(names, host) <=>
        IF host = {} THEN cns = {} /\ v = <<>>
        ELSE \E h \in host : \/ \E i \in DOMAIN v : tls_hostname_match_impl(v[i], h)
                             \/ \E x \in cns : tls_hostname_match_impl(x, h)
  BY Zenon DEF tls_hostname_match
<1>7. \A i \in DOMAIN v : v[i] \in Name
  BY <1>2
<1> HIDE DEF cert, cns, v, all, Room
<1>8. v # <<>> => \E i \in DOMAIN v : TRUE
  BY <1>2
<1>9. CASE host = {}
  <2>1. tls_hostname_match(names, host) <=> LeafNames(chain) = {}
    BY <1>2, <1>4, <1>6, <1>8, <1>9, Zenon
  <2> QED
    BY <1>9, <2>1, Zenon
<1>10. ASSUME host # {}
       PROVE  /\ tls_hostname_match(names, host) => \E h \in host, x \in LeafNames(chain) : CoversHost(x, h)
              /\ (\E h \in host, x \in LeafNames(chain) : CoversHost(x, h)) /\ Room => tls_hostname_match(names, host)
  <2>1. PICK h \in Name : host = {h}
    BY <1>5, <1>10, Zenon
  <2>2. tls_hostname_match(names, host) <=>
          \/ \E i \in DOMAIN v : tls_hostname_match_impl(v[i], h)
          \/ \E x \in cns : tls_hostname_match_impl(x, h)
    BY <1>6, <1>10, <2>1, SMTT(30)
  <2>3. tls_hostname_match(names, host) <=>
          \/ \E i \in DOMAIN v : CoversHost(v[i], h)
          \/ \E x \in cns : CoversHost(x, h)
    BY <1>3, <1>7, <2>2, HostnameMatchIsRfc6125, Zenon
  <2>4. (\E g \in host, x \in LeafNames(chain) : CoversHost(x, g)) <=>
          \/ \E x \in all : CoversHost(x, h)
          \/ \E x \in cns : CoversHost(x, h)
    BY <1>4, <2>1, Zenon
  <2> QED
    BY <1>2, <2>3, <2>4, Zenon
<1> QED
  BY <1>9, <1>10, Zenon DEF Room, cert

(* The room for the chain. *)
LEMMA CheckChainOk ==
  ASSUME StateTypes, NEW chain \in Seq(CertificateEntry)
  PROVE  CheckChain(chain) = "Ok" <=>
           /\ Len(chain) <= MaxEntries /\ Len(chain) <= CertSize
           /\ IF build.verifier # "pki" THEN webpki_verify_certificate(host, ca, chain, now) = "Ok"
              ELSE /\ VerifyChain(ca, chain, now).res = "Ok"
                   /\ tls_hostname_match(VerifyChain(ca, chain, now).names, host)
<1> DEFINE walk == VerifyChain(ca, chain, now)
           match == tls_hostname_match(walk.names, host)
           web == webpki_verify_certificate(host, ca, chain, now)
           res == IF build.verifier # "pki" THEN web
                  ELSE IF walk.res = "Ok" /\ ~match THEN "InvalidCertificate" ELSE walk.res
<1>1. parse_vector(chain) = "Ok" <=> Len(chain) <= MaxEntries
  BY SizesAssumption DEF parse_vector
<1>2. try_from(chain) = "Ok" <=> Len(chain) <= CertSize
  BY SizesAssumption DEF try_from
<1>3. CheckChain(chain) = CASE parse_vector(chain) # "Ok" -> parse_vector(chain)
                            [] res # "Ok"                 -> res
                            [] OTHER                      -> try_from(chain)
  BY Zenon DEF CheckChain
<1> HIDE DEF walk, match, web
<1>4. res = "Ok" <=> IF build.verifier # "pki" THEN web = "Ok" ELSE walk.res = "Ok" /\ match
  BY Zenon
<1> HIDE DEF res
<1>5. CheckChain(chain) = "Ok" <=> parse_vector(chain) = "Ok" /\ res = "Ok" /\ try_from(chain) = "Ok"
  BY <1>3, Zenon
<1> QED
  BY <1>1, <1>2, <1>4, <1>5, Zenon DEF walk, match, web

Fits(chain) == Len(chain) <= MaxEntries /\ Len(chain) <= CertSize

(* pki.rs: a chain with a certificate in it is accepted only if it is trusted,
   and always if it is and fits. *)
LEMMA PkiChain ==
  ASSUME StateTypes, build.verifier = "pki", NEW chain \in Seq(CertificateEntry), chain # <<>>
  PROVE  /\ CheckChain(chain) = "Ok" => TrustedChain(Relevant(chain))
         /\ TrustedChain(Relevant(chain)) /\ Fits(chain) /\ SanCount(chain[1]) <= MAX_SAN_DNS_NAMES
              => CheckChain(chain) = "Ok"
<1> DEFINE walk == VerifyChain(ca, chain, now)
           match == tls_hostname_match(walk.names, host)
           Covered == IF host = {} THEN LeafNames(chain) = {}
                      ELSE \E h \in host, x \in LeafNames(chain) : CoversHost(x, h)
           Linked == /\ ca.entry = "X509" /\ ca.decodes
                     /\ \A i \in DOMAIN chain : chain[i].entry = "X509" /\ Vouched(chain, i)
           Room == SanCount(chain[1]) <= MAX_SAN_DNS_NAMES
<1>1. Len(chain) \in Nat /\ Len(chain) > 0
  OBVIOUS
<1>2. CheckChain(chain) = "Ok" <=> Fits(chain) /\ walk.res = "Ok" /\ match
  BY CheckChainOk, Zenon DEF Fits
<1>3. walk.res = "Ok" <=> Linked
  <2>1. walk.res = "Ok" <=> \A k \in 1 .. Len(chain) : Link(ca, chain, now, k).res = "Ok"
    BY <1>1, VerifyChainOk, Zenon
  <2> QED
    BY <2>1, ChainLinks, Zenon
<1>4. ASSUME walk.res = "Ok"
      PROVE  (match => Covered) /\ (Covered /\ Room => match)
  <2>1. walk = Link(ca, chain, now, Len(chain))
    BY <1>1, <1>4, VerifyChainOk, Zenon
  <2>2. CertificateChain(ca, chain)[Len(chain)][2] = chain[1]
    <3>1. Len(chain) \in 1 .. Len(chain) /\ Len(chain) + 1 - Len(chain) = 1
      BY <1>1
    <3>2. CertificateChain(ca, chain)[Len(chain)] =
            <<IF Len(chain) = 1 THEN ca ELSE chain[Len(chain) + 2 - Len(chain)], chain[Len(chain) + 1 - Len(chain)]>>
      BY <3>1, Zenon DEF CertificateChain
    <3> QED
      BY <3>1, <3>2, SMTT(30)
  <2>3. /\ walk.names.common_name = extract_common_name(chain[1]).val
        /\ walk.names.san_dns_names = extract_san_dns_names(chain[1]).val
    <3> DEFINE cn == extract_common_name(chain[1]).val
               sans == extract_san_dns_names(chain[1]).val
    <3> HIDE DEF walk
    <3>1. walk.names = [common_name |-> cn, san_dns_names |-> sans]
      <4> DEFINE issuer == CertificateChain(ca, chain)[Len(chain)][1]
                 last == CertificateChain(ca, chain)[Len(chain)][2]
      <4>1. walk = verify_certificate(issuer, last, now)
        BY <2>1, Zenon DEF Link
      <4> HIDE DEF issuer, last
      <4>2. walk.names = [common_name |-> extract_common_name(last).val,
                          san_dns_names |-> extract_san_dns_names(last).val]
        BY <4>1, LinkNames, Zenon
      <4>3. last = chain[1]
        BY <2>2 DEF last
      <4> QED
        BY <4>2, <4>3, Zenon
    <3> HIDE DEF cn, sans
    <3>2. walk.names.common_name = cn /\ walk.names.san_dns_names = sans
      BY <3>1
    <3> QED
      BY <3>2 DEF cn, sans
  <2> HIDE DEF walk
  <2> QED
    BY <2>3, NamesOk, Zenon
<1>5. Relevant(chain) = chain
  BY Zenon DEF Relevant
<1>6. TrustedChain(chain) <=> Linked /\ Covered
  BY Zenon DEF TrustedChain
<1> HIDE DEF walk, match, Covered, Linked, Room
<1>7. /\ CheckChain(chain) = "Ok" => TrustedChain(Relevant(chain))
      /\ TrustedChain(Relevant(chain)) /\ Fits(chain) /\ Room => CheckChain(chain) = "Ok"
  BY <1>2, <1>3, <1>4, <1>5, <1>6, Zenon
<1> QED
  BY <1>7, Zenon DEF Room

(* webpki.rs: the same, of the first certificate alone. *)
LEMMA WebpkiChain ==
  ASSUME StateTypes, build.verifier # "pki", NEW chain \in Seq(CertificateEntry)
  PROVE  CheckChain(chain) = "Ok" <=> Fits(chain) /\ TrustedChain(Relevant(chain))
<1> DEFINE cert == chain[1]
           Usable == verify_for_usage(cert, ca, TimeOf(now))
           Named == \A h \in host : verify_is_valid_for_subject_name(cert, h)
<1>1. CheckChain(chain) = "Ok" <=> Fits(chain) /\ webpki_verify_certificate(host, ca, chain, now) = "Ok"
  BY CheckChainOk, Zenon DEF Fits
<1>2. webpki_verify_certificate(host, ca, chain, now) = "Ok" <=>
        /\ ca.entry = "X509" /\ ca.decodes
        /\ chain # <<>> /\ cert.entry = "X509" /\ cert.decodes /\ Usable /\ Named
  BY Zenon DEF webpki_verify_certificate
<1>3. CASE chain = <<>>
  BY <1>1, <1>2, <1>3, Zenon DEF Relevant, TrustedChain
<1>4. CASE chain # <<>>
  <2> DEFINE one == <<cert>>
  <2>1. Relevant(chain) = one
    BY <1>4, Zenon DEF Relevant
  <2>2. DOMAIN one = {1} /\ one[1] = cert /\ one # <<>> /\ Len(one) = 1
    OBVIOUS
  <2>3. cert \in CertificateEntry
    BY <1>4
  <2> HIDE DEF one, cert
  <2>4. Issuer(one, 1) = ca
    BY <2>2, Zenon DEF Issuer
  <2>5. Usable <=> /\ \A t \in {TimeOf(now)} : t \in cert.not_before .. cert.not_after
                   /\ cert.signature = ca.key
                   /\ cert.signature_algorithm \in DOMAIN ALL_SIGALGS
                   /\ cert.signature.kind \in ALL_SIGALGS[cert.signature_algorithm]
    <3>1. cert.not_before \in Nat /\ cert.not_after \in Nat /\ TimeOf(now) \in Nat
      BY <2>3, Types DEF CertificateEntry
    <3>2. (\A t \in {TimeOf(now)} : t \in cert.not_before .. cert.not_after) <=>
            cert.not_before <= TimeOf(now) /\ TimeOf(now) <= cert.not_after
      BY <3>1
    <3> QED
      BY <3>2, Zenon DEF verify_for_usage
  <2>6. Vouched(one, 1) <=> cert.decodes /\ Usable
    <3>1. Moments = {TimeOf(now)}
      BY Zenon DEF Moments
    <3>2. Readable(cert) <=> cert.decodes
      BY Zenon DEF Readable
    <3>3. Accepts(cert.signature_algorithm, cert.signature.kind) <=>
            /\ cert.signature_algorithm \in DOMAIN ALL_SIGALGS
            /\ cert.signature.kind \in ALL_SIGALGS[cert.signature_algorithm]
      BY Zenon DEF Accepts
    <3> HIDE DEF Usable
    <3> QED
      BY <2>2, <2>4, <2>5, <3>1, <3>2, <3>3, Zenon DEF Vouched
  <2>7. Named <=> IF host = {} THEN TRUE ELSE \E h \in host, x \in LeafNames(one) : CoversHost(x, h)
    <3>1. host = {} \/ \E h \in Name : host = {h}
      BY Types, Zenon
    <3>2. LeafNames(one) = AllSans(cert)
      BY <2>2 DEF LeafNames
    <3>3. CASE host = {}
      BY <3>3, Zenon
    <3>4. ASSUME NEW h, host = {h} PROVE Named <=> \E g \in host, x \in LeafNames(one) : CoversHost(x, g)
      BY <3>2, <3>4, Zenon DEF verify_is_valid_for_subject_name
    <3> QED
      BY <3>1, <3>3, <3>4, Zenon
  <2> HIDE DEF Usable, Named
  <2>8. TrustedChain(one) <=> /\ ca.entry = "X509" /\ ca.decodes
                              /\ cert.entry = "X509" /\ Vouched(one, 1) /\ Named
    BY <2>2, <2>7, Zenon DEF TrustedChain
  <2> QED
    BY <1>1, <1>2, <1>4, <2>1, <2>6, <2>8, Zenon
<1> QED
  BY <1>3, <1>4

(* The CertificateVerify passes exactly when the signed message fits and it
   proves possession of the key of a leaf that was read. *)
LEMMA SignatureOk ==
  ASSUME StateTypes, NEW chain, NEW verify
  PROVE  CheckSignature(chain, verify, Transcript) = "Ok" <=>
           /\ MessageFits /\ ProvesKey(chain, verify)
           /\ build.verifier = "pki" => chain # <<>> /\ chain[1].decodes
<1>1. build.verifier \in {"pki", "webpki", "webpki_alloc"}
  BY Types, Zenon
<1>2. CASE build.verifier = "pki"
  <2>1. CheckSignature(chain, verify, Transcript) = "Ok" <=>
          MessageFits /\ LeafSignature(chain, verify, Transcript) = "Ok"
    BY <1>2, Zenon DEF CheckSignature
  <2>2. Schemes = SchemeKind
    BY <1>2, Zenon DEF Schemes
  <2>3. LeafSignature(chain, verify, Transcript) = "Ok" <=>
          /\ chain # <<>> /\ chain[1].decodes
          /\ verify.signature_scheme \in DOMAIN Schemes
          /\ Schemes[verify.signature_scheme] = chain[1].key.kind
          /\ verify.signature = chain[1].key
          /\ verify.over = Transcript
    BY <2>2, LeafSignatureOk
  <2> QED
    BY <1>2, <2>1, <2>3, Zenon DEF ProvesKey
<1>3. CASE build.verifier = "webpki"
  <2>1. CheckSignature(chain, verify, Transcript) = "Ok" <=>
          MessageFits /\ webpki_verify_signature(webpki_try_into, chain, verify, Transcript) = "Ok"
    BY <1>3, Zenon DEF CheckSignature
  <2>2. Schemes = webpki_try_into
    BY <1>3, Zenon DEF Schemes
  <2>3. build.verifier # "pki"
    BY <1>3, Zenon
  <2>4. webpki_verify_signature(webpki_try_into, chain, verify, Transcript) = "Ok" <=>
          /\ verify.signature_scheme \in DOMAIN Schemes
          /\ Schemes[verify.signature_scheme] = chain[1].key.kind
          /\ verify.signature = chain[1].key
          /\ verify.over = Transcript
    BY <2>2, WebpkiSignatureOk
  <2> QED
    BY <2>1, <2>3, <2>4, Zenon DEF ProvesKey
<1>4. CASE build.verifier = "webpki_alloc"
  <2>1. CheckSignature(chain, verify, Transcript) = "Ok" <=>
          MessageFits /\ webpki_verify_signature(webpki_try_into_alloc, chain, verify, Transcript) = "Ok"
    BY <1>4, Zenon DEF CheckSignature
  <2>2. Schemes = webpki_try_into_alloc
    BY <1>4, Zenon DEF Schemes
  <2>3. build.verifier # "pki"
    BY <1>4, Zenon
  <2>4. webpki_verify_signature(webpki_try_into_alloc, chain, verify, Transcript) = "Ok" <=>
          /\ verify.signature_scheme \in DOMAIN Schemes
          /\ Schemes[verify.signature_scheme] = chain[1].key.kind
          /\ verify.signature = chain[1].key
          /\ verify.over = Transcript
    BY <2>2, WebpkiSignatureOk
  <2> QED
    BY <2>1, <2>3, <2>4, Zenon DEF ProvesKey
<1> QED
  BY <1>1, <1>2, <1>3, <1>4

LEMMA SanCountNat ==
  ASSUME NEW cert \in CertificateEntry
  PROVE  SanCount(cert) \in Nat
<1> DEFINE n == Len(cert.sans)
<1>1. n \in Nat /\ cert.sans \in Seq(Seq(Name))
  BY DEF CertificateEntry
<1>2. \A k \in 1 .. n : Len(cert.sans[k]) \in Nat
  BY <1>1
<1>3. PICK c : /\ c[0] = 0 /\ SanCount(cert) = c[n]
               /\ \A k \in 1 .. n : c[k] = c[k - 1] + Len(cert.sans[k])
  BY <1>1, SumSteps, Zenon
<1> HIDE DEF n
<1> DEFINE S == {k \in Nat : c[k] \in Nat}
<1>4. 0 \in S
  BY <1>3
<1>5. ASSUME NEW k \in 0 .. n - 1, k \in S
      PROVE  k + 1 \in S
  <2>1. k + 1 \in 1 .. n /\ (k + 1) - 1 = k /\ k + 1 \in Nat
    BY <1>1
  <2>2. c[k + 1] = c[k] + Len(cert.sans[k + 1]) /\ Len(cert.sans[k + 1]) \in Nat
    BY <1>2, <1>3, <2>1
  <2> QED
    BY <1>5, <2>1, <2>2, SMTT(30)
<1> HIDE DEF S
<1>6. \A i \in 0 .. n : i \in S
  BY <1>1, <1>4, <1>5, IntervalInduction, Zenon
<1> QED
  BY <1>1, <1>3, <1>6 DEF S

-----------------------------------------------------------------------------
(* The inductive invariant: what the phase of the handshake says about the
   chain and the signature received so far. *)

IInv ==
  /\ StateTypes
  /\ sent \in [chain : Seq(CertificateEntry), verify : SUBSET Verifies]
  /\ phase \in {"SetHostname", "Certificate", "CertificateVerify", "Verified", "Failed"}
  /\ phase = "SetHostname" => host = {}
  /\ phase = "CertificateVerify" =>
       /\ CheckChain(sent.chain) = "Ok"
       /\ certificate = {sent.chain} /\ certificate_transcript = {Transcript}
  /\ phase = "Verified" =>
       /\ CheckChain(sent.chain) = "Ok"
       /\ \E verify \in sent.verify : CheckSignature(sent.chain, verify, Transcript) = "Ok"
  /\ phase = "Failed" =>
       \/ result = "InsufficientSpace" /\ host = {}
       \/ CheckChain(sent.chain) # "Ok"
       \/ \E verify \in sent.verify : CheckSignature(sent.chain, verify, Transcript) # "Ok"

LEMMA InitIInv == Init => IInv
<1> SUFFICES ASSUME Init PROVE IInv
  OBVIOUS
<1>1. StateTypes
  BY Zenon DEF Init, StateTypes
<1>2. NothingSent \in [chain : Seq(CertificateEntry), verify : SUBSET Verifies]
  BY DEF NothingSent
<1>3. sent = NothingSent /\ phase = "SetHostname" /\ host = {}
  BY Zenon DEF Init
<1> QED
  BY <1>1, <1>2, <1>3 DEF IInv

(* What the checks of a given chain say does not change once the host name is set. *)
LEMMA ChecksFixed ==
  ASSUME UNCHANGED <<build, ca, host, now>>, NEW chain, NEW verify
  PROVE  /\ CheckChain(chain)' = CheckChain(chain)
         /\ CheckSignature(chain, verify, Transcript)' = CheckSignature(chain, verify, Transcript)
<1>1. build' = build /\ ca' = ca /\ host' = host /\ now' = now
  OBVIOUS
<1>2. CheckChain(chain)' = CheckChain(chain)
  BY <1>1, Zenon DEF CheckChain
<1>3. MessageFits' <=> MessageFits
  BY <1>1, ZenonT(60) DEF MessageFits
<1>4. CheckSignature(chain, verify, Transcript)' = CheckSignature(chain, verify, Transcript)
  BY <1>1, SMT DEF CheckSignature, MessageFits
<1> QED
  BY <1>2, <1>4

LEMMA HostnameStep ==
  ASSUME IInv, NEW hostname \in Hosts, set_hostname_verification(hostname)
  PROVE  IInv'
<1>1. /\ phase = "SetHostname" /\ host = {} /\ StateTypes
      /\ sent \in [chain : Seq(CertificateEntry), verify : SUBSET Verifies]
  BY Zenon DEF IInv, set_hostname_verification
<1>2. /\ build' = build /\ ca' = ca /\ now' = now /\ sent' = sent
      /\ \/ host' = {hostname} /\ phase' = "Certificate"
         \/ host' = host /\ phase' = "Failed" /\ result' = "InsufficientSpace"
  BY Zenon DEF set_hostname_verification, Proceed
<1>3. StateTypes'
  BY <1>1, <1>2 DEF StateTypes
<1> QED
  BY <1>1, <1>2, <1>3, SMTT(30) DEF IInv

LEMMA CertificateStep ==
  ASSUME IInv, VerifyCertificate
  PROVE  IInv'
<1>1. PICK chain \in Chains(build, ca, now, host) :
        /\ sent' = [sent EXCEPT !.chain = chain]
        /\ \/ /\ CheckChain(chain) = "Ok" /\ phase' = "CertificateVerify"
              /\ certificate' = {chain} /\ certificate_transcript' = {Transcript}
           \/ CheckChain(chain) # "Ok" /\ phase' = "Failed"
  BY Zenon DEF VerifyCertificate, Proceed
<1>2. UNCHANGED <<build, ca, host, now>>
  BY Zenon DEF VerifyCertificate
<1>3. StateTypes /\ sent \in [chain : Seq(CertificateEntry), verify : SUBSET Verifies]
  BY Zenon DEF IInv
<1>4. chain \in Seq(CertificateEntry)
  BY <1>3, InputsAssumption, Zenon DEF StateTypes
<1>5. /\ sent' \in [chain : Seq(CertificateEntry), verify : SUBSET Verifies]
      /\ sent'.chain = chain
  BY <1>1, <1>3, <1>4
<1>6. StateTypes'
  BY <1>2, <1>3, Zenon DEF StateTypes
<1>7. CheckChain(chain)' = CheckChain(chain)
  BY <1>2, ChecksFixed, Zenon
<1>8. CheckChain(sent.chain)' = CheckChain(chain)'
  BY <1>5, Zenon DEF CheckChain
<1>9. CASE CheckChain(chain) = "Ok"
  <2>1. phase' = "CertificateVerify" /\ certificate' = {sent'.chain} /\ certificate_transcript' = {Transcript}
    BY <1>1, <1>5, <1>9, Zenon
  <2>2. CheckChain(sent.chain)' = "Ok"
    BY <1>7, <1>8, <1>9, Zenon
  <2> QED
    BY <1>5, <1>6, <2>1, <2>2, Zenon DEF IInv
<1>10. CASE CheckChain(chain) # "Ok"
  <2>1. phase' = "Failed" /\ CheckChain(sent.chain)' # "Ok"
    BY <1>1, <1>7, <1>8, <1>10, Zenon
  <2> QED
    BY <1>5, <1>6, <2>1, Zenon DEF IInv
<1> QED
  BY <1>9, <1>10

LEMMA SignatureStep ==
  ASSUME IInv, NEW verify \in Verifies, VerifySignature(verify)
  PROVE  IInv'
<1> DEFINE chain == sent.chain
<1>1. /\ CheckChain(chain) = "Ok" /\ certificate = {chain} /\ certificate_transcript = {Transcript}
      /\ StateTypes /\ sent \in [chain : Seq(CertificateEntry), verify : SUBSET Verifies]
  BY Zenon DEF IInv, VerifySignature
<1>2. sent' = [sent EXCEPT !.verify = {verify}] /\ UNCHANGED <<build, ca, host, now>>
  BY Zenon DEF VerifySignature
<1>3. \/ CheckSignature(chain, verify, Transcript) = "Ok" /\ phase' = "Verified"
      \/ CheckSignature(chain, verify, Transcript) # "Ok" /\ phase' = "Failed"
  <2>1. PICK t \in certificate_transcript, c \in certificate : Proceed(CheckSignature(c, verify, t), "Verified")
    BY Zenon DEF VerifySignature
  <2>2. t = Transcript /\ c = chain
    BY <1>1
  <2> QED
    BY <2>1, <2>2, Zenon DEF Proceed
<1>4. /\ sent' \in [chain : Seq(CertificateEntry), verify : SUBSET Verifies]
      /\ sent'.chain = chain /\ sent'.verify = {verify}
  BY <1>1, <1>2
<1>5. StateTypes'
  BY <1>1, <1>2, Zenon DEF StateTypes
<1> HIDE DEF chain
<1>6. PICK c : c = chain
  OBVIOUS
<1>7. /\ CheckChain(c)' = CheckChain(c)
      /\ CheckSignature(c, verify, Transcript)' = CheckSignature(c, verify, Transcript)
  BY <1>2, ChecksFixed, Zenon
<1>8. CheckChain(sent.chain)' = CheckChain(c)'
  BY <1>4, <1>6, Zenon DEF CheckChain
<1>9. CheckSignature(sent.chain, verify, Transcript)' = CheckSignature(c, verify, Transcript)'
  BY <1>4, <1>6, SMT DEF CheckSignature, MessageFits
<1>10. CheckChain(sent.chain)' = "Ok" /\ verify \in sent'.verify
  BY <1>1, <1>4, <1>6, <1>7, <1>8, Zenon
<1>11. CheckSignature(sent.chain, verify, Transcript)' = CheckSignature(chain, verify, Transcript)
  BY <1>6, <1>7, <1>9, Zenon
<1>12. CASE CheckSignature(chain, verify, Transcript) = "Ok"
  <2>1. phase' = "Verified" /\ \E w \in sent'.verify : CheckSignature(sent.chain, w, Transcript)' = "Ok"
    BY <1>3, <1>10, <1>11, <1>12, Zenon
  <2> QED
    BY <1>4, <1>5, <1>10, <2>1, Zenon DEF IInv
<1>13. CASE CheckSignature(chain, verify, Transcript) # "Ok"
  <2>1. phase' = "Failed" /\ \E w \in sent'.verify : CheckSignature(sent.chain, w, Transcript)' # "Ok"
    BY <1>3, <1>10, <1>11, <1>13, Zenon
  <2> QED
    BY <1>4, <1>5, <2>1, Zenon DEF IInv
<1> QED
  BY <1>12, <1>13

LEMMA NextIInv == IInv /\ [Next]_vars => IInv'
<1> SUFFICES ASSUME IInv, [Next]_vars PROVE IInv'
  OBVIOUS
<1>1. CASE NoServerName
  <2>1. /\ phase' = "Certificate" /\ build' = build /\ ca' = ca /\ host' = host /\ now' = now /\ sent' = sent
    BY <1>1, Zenon DEF NoServerName, Proceed
  <2>2. StateTypes' /\ sent' \in [chain : Seq(CertificateEntry), verify : SUBSET Verifies]
    BY <2>1, Zenon DEF IInv, StateTypes
  <2> QED
    BY <2>1, <2>2, Zenon DEF IInv
<1>2. ASSUME NEW hostname \in Hosts, set_hostname_verification(hostname) PROVE IInv'
  BY <1>2, HostnameStep
<1>3. CASE VerifyCertificate
  BY <1>3, CertificateStep
<1>4. ASSUME NEW verify \in Verifies, VerifySignature(verify) PROVE IInv'
  BY <1>4, SignatureStep
<1>5. CASE UNCHANGED vars
  <2>1. /\ build' = build /\ ca' = ca /\ host' = host /\ now' = now /\ sent' = sent /\ phase' = phase
        /\ result' = result /\ certificate' = certificate /\ certificate_transcript' = certificate_transcript
    BY <1>5, Zenon DEF vars
  <2> QED
    BY <2>1, ZenonT(60) DEF IInv, StateTypes, CheckChain, CheckSignature, MessageFits
<1> QED
  BY <1>1, <1>2, <1>3, <1>4, <1>5, Zenon DEF Next

(* What the invariant gives for a server that was verified... *)
LEMMA IInvVerified == IInv => VerifiedIsTrusted
<1> SUFFICES ASSUME IInv, phase = "Verified"
             PROVE  /\ TrustedChain(Relevant(sent.chain))
                    /\ \E verify \in sent.verify : ProvesKey(sent.chain, verify)
  BY Zenon DEF VerifiedIsTrusted
<1>1. StateTypes /\ sent.chain \in Seq(CertificateEntry) /\ CheckChain(sent.chain) = "Ok"
  BY DEF IInv
<1>2. PICK verify \in sent.verify : CheckSignature(sent.chain, verify, Transcript) = "Ok"
  BY Zenon DEF IInv
<1>3. ProvesKey(sent.chain, verify) /\ (build.verifier = "pki" => sent.chain # <<>>)
  BY <1>1, <1>2, SignatureOk, Zenon
<1>4. TrustedChain(Relevant(sent.chain))
  BY <1>1, <1>3, PkiChain, WebpkiChain, Zenon
<1> QED
  BY <1>3, <1>4, Zenon

(* ... and for one that was turned away. *)
LEMMA IInvFailed == IInv => TrustedIsVerified
<1> DEFINE chain == sent.chain
<1> SUFFICES ASSUME IInv, phase = "Failed",
                    ~(result = "InsufficientSpace" /\ host = {}),
                    ~(Len(chain) > MaxEntries), ~(Len(chain) > CertSize),
                    TrustedChain(Relevant(chain)),
                    \A verify \in sent.verify : ProvesKey(chain, verify),
                    ~(build.verifier = "pki" /\ SanCount(chain[1]) > MAX_SAN_DNS_NAMES),
                    ~(build.verifier # "pki" /\ build.hash_len > 32)
             PROVE  FALSE
  BY Zenon DEF TrustedIsVerified
<1>1. StateTypes /\ chain \in Seq(CertificateEntry)
  BY DEF IInv
<1>2. Fits(chain)
  BY <1>1, SizesAssumption DEF Fits
<1>3. Relevant(chain) # <<>> /\ chain # <<>>
  BY Zenon DEF TrustedChain, Relevant
<1>4. CheckChain(chain) = "Ok"
  <2>1. CASE build.verifier = "pki"
    <3>1. SanCount(chain[1]) <= MAX_SAN_DNS_NAMES
      <4>1. SanCount(chain[1]) \in Nat
        BY <1>1, <1>3, SanCountNat, SMTT(30)
      <4> QED
        BY <2>1, <4>1, SizesAssumption
    <3> QED
      BY <1>1, <1>2, <1>3, <2>1, <3>1, PkiChain, Zenon
  <2>2. CASE build.verifier # "pki"
    BY <1>1, <1>2, <2>2, WebpkiChain, Zenon
  <2> QED
    BY <2>1, <2>2
<1>5. PICK verify \in sent.verify : CheckSignature(chain, verify, Transcript) # "Ok"
  BY <1>4, Zenon DEF IInv
<1>6. MessageFits
  <2>1. build.hash_len \in {32, 48}
    BY <1>1, Types, Zenon
  <2> QED
    BY <2>1 DEF MessageFits
<1>7. build.verifier = "pki" => chain[1].decodes
  <2> SUFFICES ASSUME build.verifier = "pki" PROVE chain[1].decodes
    BY SMTT(30)
  <2>1. Relevant(chain) = chain
    BY Zenon DEF Relevant
  <2>2. 1 \in DOMAIN chain
    BY <1>1, <1>3
  <2> QED
    BY <2>1, <2>2, Zenon DEF TrustedChain, Vouched, Readable
<1> QED
  BY <1>1, <1>3, <1>5, <1>6, <1>7, SignatureOk, Zenon

LEMMA IInvAlways == Spec => []IInv
  BY InitIInv, NextIInv, PTL DEF Spec

(* For every CA, clock, host name and chain a client may be sent, a server is
   verified only when its chain is trusted, a name of the first certificate
   covers the host name, and the CertificateVerify was made with its key over
   the transcript (CertVerifier of src/pki.rs and src/webpki.rs). *)
THEOREM VerifiedServerIsTrusted == Spec => []VerifiedIsTrusted
  BY IInvAlways, IInvVerified, PTL

(* And none with such a chain and signature is turned away, but for the limits
   that TrustedIsVerified lists. *)
THEOREM TrustedServerIsVerified == Spec => []TrustedIsVerified
  BY IInvAlways, IInvFailed, PTL
=============================================================================
