------------------------- MODULE RecordReaderProofs -------------------------
(***************************************************************************)
(* The receiving half, for every stream, buffer length and slice length,   *)
(* with interruptions at every await.                                      *)
(***************************************************************************)
EXTENDS RecordReader, WellFoundedInduction, TLAPS

(* Induction up to n, for a set of numbers: with 0 and closed under the successor,
   it has all the numbers up to n. *)
LEMMA IntervalInduction ==
  ASSUME NEW n \in Nat, NEW S, 0 \in S, \A i \in 0 .. n - 1 : i \in S => i + 1 \in S
  PROVE  \A i \in 0 .. n : i \in S
<1> DEFINE T == {i \in 0 .. n : i \notin S}
<1> SUFFICES ASSUME T # {} PROVE FALSE
  OBVIOUS
<1>1. T \subseteq Nat
  OBVIOUS
<1>2. PICK m \in T : \A k \in T : ~(<<k, m>> \in OpToRel(<, Nat))
  BY <1>1, NatLessThanWellFounded, WFMin, Zenon
<1>3. \A k \in T : <<k, m>> \in OpToRel(<, Nat) <=> k < m
  BY <1>1 DEF OpToRel
<1>4. m \in T /\ \A k \in T : ~(k < m)
  BY <1>2, <1>3, Zenon
<1>5. m # 0 /\ m - 1 \in 0 .. n - 1 /\ m - 1 \notin T
  BY <1>4
<1> QED
  BY <1>4, <1>5

-----------------------------------------------------------------------------
(* Where the server's records lie in the stream of bytes that the client reads, and
   where the bytes of its application data are in them: the recursive functions
   Start and StreamUpTo of RecordReader, record by record, for every stream. *)

(* Every record has at least its content type and its tag. *)
LEMMA SentRecords ==
  ASSUME sent \in Streams
  PROVE  /\ Len(sent) \in Nat
         /\ \A i \in 1 .. Len(sent) :
              /\ sent[i].kind \in Kinds
              /\ sent[i].len \in Nat
              /\ ContentLength(sent[i]) \in Nat /\ sent[i].len < ContentLength(sent[i])
              /\ sent[i].kind = "close_notify" => i = Len(sent)
<1>1. sent \in Seq(ServerRecord)
  BY ReaderAssumption
<1>2. \A i \in 1 .. Len(sent) : sent[i] \in ServerRecord
  BY <1>1
<1> QED
  BY <1>1, <1>2, ReaderAssumption, SMTT(30) DEF ServerRecord, ContentLength

(* The recursion in Start. *)
IsSums(f, n) ==
  f = [i \in 0 .. n |-> IF i = 0 THEN 0 ELSE f[i - 1] + HEADER_LEN + ContentLength(sent[i])]

LEMMA SumsExist == \A n \in Nat : \E f : IsSums(f, n)
<1> SUFFICES ASSUME NEW N \in Nat PROVE \E f : IsSums(f, N)
  OBVIOUS
<1> DEFINE S == {n \in Nat : \E f : IsSums(f, n)}
<1>1. 0 \in S
  <2>1. IsSums([i \in 0 .. 0 |-> 0], 0)
    BY DEF IsSums
  <2> QED
    BY <2>1
<1>2. ASSUME NEW n \in 0 .. N - 1, n \in S
      PROVE  n + 1 \in S
  <2>1. PICK f : IsSums(f, n)
    BY <1>2
  <2> DEFINE g == [i \in 0 .. n + 1 |->
                     IF i = n + 1 THEN f[n] + HEADER_LEN + ContentLength(sent[n + 1]) ELSE f[i]]
  <2>2. \A i \in 0 .. n : f[i] = IF i = 0 THEN 0 ELSE f[i - 1] + HEADER_LEN + ContentLength(sent[i])
    BY <2>1 DEF IsSums
  <2>3. IsSums(g, n + 1)
    BY <2>2 DEF IsSums
  <2> QED
    BY <2>3
<1> HIDE DEF S
<1>3. \A i \in 0 .. N : i \in S
  BY <1>1, <1>2, IntervalInduction
<1> QED
  BY <1>3 DEF S

(* Records follow each other without a gap. *)
LEMMA StartStep ==
  ASSUME sent \in Streams
  PROVE  /\ Start[1] = 0
         /\ \A i \in 1 .. Len(sent) : Start[i + 1] = Start[i] + HEADER_LEN + ContentLength(sent[i])
<1> DEFINE f == CHOOSE f : IsSums(f, Len(sent))
<1>1. Start = [i \in 1 .. Len(sent) + 1 |-> f[i - 1]]
  BY DEF Start, IsSums
<1>2. IsSums(f, Len(sent))
  BY SumsExist, SentRecords, Zenon
<1> HIDE DEF f
<1>3. \A i \in 0 .. Len(sent) : f[i] = IF i = 0 THEN 0 ELSE f[i - 1] + HEADER_LEN + ContentLength(sent[i])
  BY <1>2, SMTT(30) DEF IsSums
<1> QED
  BY <1>1, <1>3, SentRecords

LEMMA StartNat ==
  ASSUME sent \in Streams
  PROVE  /\ \A i \in 1 .. Len(sent) + 1 : Start[i] \in Nat
         /\ StreamLen \in Nat
<1> DEFINE S == {i \in Nat : Start[i + 1] \in Nat}
<1>1. 0 \in S
  BY StartStep
<1>2. \A i \in 0 .. Len(sent) - 1 : i \in S => i + 1 \in S
  BY StartStep, SentRecords DEF HEADER_LEN
<1> HIDE DEF S
<1>3. \A i \in 0 .. Len(sent) : i \in S
  BY <1>1, <1>2, SentRecords, IntervalInduction, Zenon
<1>4. ASSUME NEW i \in 1 .. Len(sent) + 1
      PROVE  Start[i] \in Nat
  <2>1. i - 1 \in 0 .. Len(sent) /\ (i - 1) + 1 = i
    BY SentRecords
  <2> QED
    BY <1>3, <2>1, Zenon DEF S
<1> QED
  BY <1>4, SentRecords DEF StreamLen

(* A record ends where the next one starts, at the latest at the stream's end. *)
LEMMA StartOrder ==
  ASSUME sent \in Streams, NEW i \in 1 .. Len(sent), NEW j \in i + 1 .. Len(sent) + 1
  PROVE  Start[i] + HEADER_LEN + ContentLength(sent[i]) <= Start[j]
<1> DEFINE End == Start[i] + HEADER_LEN + ContentLength(sent[i])
           S == {k \in Nat : k > i => End <= Start[k]}
<1>1. 0 \in S
  BY SentRecords
<1>2. ASSUME NEW k \in 0 .. Len(sent), k \in S
      PROVE  k + 1 \in S
  <2> SUFFICES ASSUME k >= i
               PROVE  End <= Start[k + 1]
    BY SentRecords
  <2>1. k \in 1 .. Len(sent) /\ i \in 1 .. Len(sent) + 1 /\ k \in 1 .. Len(sent) + 1
    BY SentRecords
  <2>2. Start[k + 1] = Start[k] + HEADER_LEN + ContentLength(sent[k])
    BY <2>1, StartStep
  <2>3. Start[k] \in Nat /\ Start[i] \in Nat /\ ContentLength(sent[k]) \in Nat
        /\ ContentLength(sent[i]) \in Nat
    BY <2>1, StartNat, SentRecords
  <2>4. CASE k = i
    BY <2>2, <2>3, <2>4 DEF HEADER_LEN
  <2>5. CASE k > i
    <3>1. End <= Start[k]
      BY <1>2, <2>5
    <3>2. End \in Nat
      BY <2>3, SMTT(30) DEF HEADER_LEN
    <3> QED
      BY <2>2, <2>3, <3>1, <3>2, SMTT(30) DEF HEADER_LEN
  <2> QED
    BY <2>1, <2>4, <2>5
<1>3. \A k \in 0 .. Len(sent) + 1 : k \in S
  <2> HIDE DEF S
  <2>1. Len(sent) + 1 \in Nat /\ (Len(sent) + 1) - 1 = Len(sent)
    BY SentRecords
  <2> QED
    BY <1>1, <1>2, <2>1, IntervalInduction, Zenon
<1>4. j \in S
  BY <1>3, SentRecords, SMTT(30)
<1> QED
  BY <1>4, SentRecords

(* The headers of two records are never at one place. *)
LEMMA StartInjective ==
  ASSUME sent \in Streams, NEW i \in 1 .. Len(sent), NEW j \in 1 .. Len(sent), Start[i] = Start[j]
  PROVE  i = j
<1>1. Start[i] \in Nat /\ Start[j] \in Nat
  BY StartNat, SentRecords
<1>2. ~ i < j
  BY <1>1, StartOrder, SentRecords DEF HEADER_LEN
<1>3. ~ j < i
  BY <1>1, StartOrder, SentRecords DEF HEADER_LEN
<1> QED
  BY <1>2, <1>3, SentRecords

(* Sequences, for the provers. *)
LEMMA Concatenated ==
  ASSUME NEW T, NEW a \in Seq(T), NEW b \in Seq(T)
  PROVE  /\ a \o b \in Seq(T)
         /\ Len(a \o b) = Len(a) + Len(b)
         /\ Len(a) \in Nat /\ Len(b) \in Nat /\ Len(a) <= Len(a \o b)
         /\ \A k \in 1 .. Len(a) : (a \o b)[k] = a[k]
         /\ \A k \in 1 .. Len(b) : (a \o b)[Len(a) + k] = b[k]
  OBVIOUS

LEMMA Elements ==
  ASSUME NEW T, NEW s \in Seq(T)
  PROVE  Len(s) \in Nat /\ \A k \in 1 .. Len(s) : s[k] \in T
  OBVIOUS

LEMMA SameSequence ==
  ASSUME NEW T, NEW a \in Seq(T), NEW b \in Seq(T),
         Len(a) = Len(b), \A k \in 1 .. Len(a) : a[k] = b[k]
  PROVE  a = b
  OBVIOUS

LEMMA Tabulated ==
  ASSUME NEW T, NEW n \in Nat, NEW f, f = [k \in 1 .. n |-> f[k]], \A k \in 1 .. n : f[k] \in T
  PROVE  f \in Seq(T) /\ Len(f) = n
<1>1. f \in [1 .. n -> T]
  OBVIOUS
<1> QED
  BY <1>1

(* The recursion in StreamUpTo. *)
Piece(i) ==
  IF sent[i].kind = "app" THEN [k \in 1 .. sent[i].len |-> Start[i] + HEADER_LEN + k] ELSE <<>>

Extended(s, i) == s \o Piece(i)

IsPrefixes(f, n) == f = [i \in 0 .. n |-> IF i = 0 THEN <<>> ELSE Extended(f[i - 1], i)]

LEMMA PrefixesExist == \A n \in Nat : \E f : IsPrefixes(f, n)
<1> SUFFICES ASSUME NEW N \in Nat PROVE \E f : IsPrefixes(f, N)
  OBVIOUS
<1> DEFINE S == {n \in Nat : \E f : IsPrefixes(f, n)}
<1>1. 0 \in S
  <2>1. IsPrefixes([i \in 0 .. 0 |-> <<>>], 0)
    BY DEF IsPrefixes
  <2> QED
    BY <2>1
<1>2. ASSUME NEW n \in 0 .. N - 1, n \in S
      PROVE  n + 1 \in S
  <2>1. PICK f : IsPrefixes(f, n)
    BY <1>2
  <2> DEFINE g == [i \in 0 .. n + 1 |-> IF i = n + 1 THEN Extended(f[n], n + 1) ELSE f[i]]
  <2>2. \A i \in 0 .. n : f[i] = IF i = 0 THEN <<>> ELSE Extended(f[i - 1], i)
    BY <2>1 DEF IsPrefixes
  <2>3. IsPrefixes(g, n + 1)
    BY <2>2 DEF IsPrefixes
  <2> QED
    BY <2>3
<1> HIDE DEF S
<1>3. \A i \in 0 .. N : i \in S
  BY <1>1, <1>2, IntervalInduction
<1> QED
  BY <1>3 DEF S

LEMMA StreamStep ==
  ASSUME sent \in Streams
  PROVE  /\ StreamUpTo[0] = <<>>
         /\ \A i \in 1 .. Len(sent) : StreamUpTo[i] = Extended(StreamUpTo[i - 1], i)
<1> DEFINE f == CHOOSE f : IsPrefixes(f, Len(sent))
<1>1. StreamUpTo = f
  BY DEF StreamUpTo, IsPrefixes, Extended, Piece
<1>2. IsPrefixes(f, Len(sent))
  BY PrefixesExist, SentRecords, Zenon
<1> HIDE DEF f
<1>3. \A i \in 0 .. Len(sent) : f[i] = IF i = 0 THEN <<>> ELSE Extended(f[i - 1], i)
  BY <1>2 DEF IsPrefixes
<1> QED
  BY <1>1, <1>3, SentRecords

(* The bytes of a record of application data are positions in the stream. *)
LEMMA PieceType ==
  ASSUME sent \in Streams, NEW i \in 1 .. Len(sent)
  PROVE  /\ Piece(i) \in Seq(1 .. StreamLen)
         /\ Len(Piece(i)) = IF sent[i].kind = "app" THEN sent[i].len ELSE 0
         /\ \A k \in 1 .. Len(Piece(i)) : Piece(i)[k] = Start[i] + HEADER_LEN + k
<1>1. CASE sent[i].kind = "app"
  <2>1. sent[i].len \in Nat /\ Piece(i) = [k \in 1 .. sent[i].len |-> Start[i] + HEADER_LEN + k]
    BY <1>1, SentRecords DEF Piece
  <2>2. /\ Start[i] + HEADER_LEN + ContentLength(sent[i]) <= StreamLen
        /\ Start[i] \in Nat /\ StreamLen \in Nat
        /\ ContentLength(sent[i]) \in Nat /\ sent[i].len < ContentLength(sent[i])
    BY StartOrder, StartNat, SentRecords DEF StreamLen
  <2>3. \A k \in 1 .. sent[i].len : Start[i] + HEADER_LEN + k \in 1 .. StreamLen
    BY <2>1, <2>2, SMTT(30) DEF HEADER_LEN
  <2>4. /\ Piece(i) = [k \in 1 .. sent[i].len |-> Piece(i)[k]]
        /\ \A k \in 1 .. sent[i].len : Piece(i)[k] = Start[i] + HEADER_LEN + k
    BY <2>1
  <2>5. \A k \in 1 .. sent[i].len : Piece(i)[k] \in 1 .. StreamLen
    BY <2>3, <2>4
  <2>6. Piece(i) \in Seq(1 .. StreamLen) /\ Len(Piece(i)) = sent[i].len
    BY <2>1, <2>4, <2>5, Tabulated, Zenon
  <2> QED
    BY <1>1, <2>4, <2>6, Zenon
<1>2. CASE sent[i].kind # "app"
  BY <1>2 DEF Piece
<1> QED
  BY <1>1, <1>2

LEMMA StreamType ==
  ASSUME sent \in Streams
  PROVE  /\ \A i \in 0 .. Len(sent) : StreamUpTo[i] \in Seq(1 .. StreamLen)
         /\ Stream \in Seq(1 .. StreamLen)
<1> DEFINE T == Seq(1 .. StreamLen)
           S == {i \in Nat : StreamUpTo[i] \in T}
<1>1. 0 \in S
  <2>1. <<>> \in T
    OBVIOUS
  <2> HIDE DEF T
  <2> QED
    BY <2>1, StreamStep
<1>2. ASSUME NEW i \in 0 .. Len(sent) - 1, i \in S
      PROVE  i + 1 \in S
  <2>1. i + 1 \in 1 .. Len(sent) /\ (i + 1) - 1 = i
    BY SentRecords
  <2>2. StreamUpTo[i + 1] = Extended(StreamUpTo[i], i + 1)
    BY <2>1, StreamStep
  <2>3. StreamUpTo[i] \in T /\ Piece(i + 1) \in T
    BY <1>2, <2>1, PieceType
  <2>4. Extended(StreamUpTo[i], i + 1) \in T
    BY <2>3, Concatenated DEF Extended
  <2> HIDE DEF T
  <2> QED
    BY <2>1, <2>2, <2>4
<1> HIDE DEF S
<1>3. \A i \in 0 .. Len(sent) : i \in S
  BY <1>1, <1>2, SentRecords, IntervalInduction, Zenon
<1> HIDE DEF T
<1>4. \A i \in 0 .. Len(sent) : StreamUpTo[i] \in T
  BY <1>3 DEF S
<1>5. Stream \in T
  BY <1>4, SentRecords DEF Stream
<1> QED
  BY <1>4, <1>5 DEF T

(* What came in the first i records starts the stream. *)
LEMMA StreamPrefix ==
  ASSUME sent \in Streams, NEW i \in 0 .. Len(sent)
  PROVE  /\ Len(StreamUpTo[i]) <= Len(Stream)
         /\ \A k \in 1 .. Len(StreamUpTo[i]) : Stream[k] = StreamUpTo[i][k]
<1> DEFINE Starts(a, b) == Len(a) <= Len(b) /\ \A k \in 1 .. Len(a) : b[k] = a[k]
           S == {j \in Nat : j >= i => Starts(StreamUpTo[i], StreamUpTo[j])}
<1>1. \A a \in Seq(1 .. StreamLen) : Starts(a, a)
  OBVIOUS
<1>2. \A a, b, c \in Seq(1 .. StreamLen) : Starts(a, b) => Starts(a, b \o c)
  <2> SUFFICES ASSUME NEW a \in Seq(1 .. StreamLen), NEW b \in Seq(1 .. StreamLen),
                      NEW c \in Seq(1 .. StreamLen), Starts(a, b)
               PROVE  Starts(a, b \o c)
    OBVIOUS
  <2>1. Len(a) \in Nat /\ Len(b) \in Nat /\ Len(b) <= Len(b \o c) /\ Len(b \o c) \in Nat
        /\ \A k \in 1 .. Len(b) : (b \o c)[k] = b[k]
    BY Concatenated
  <2> QED
    BY <2>1
<1> HIDE DEF Starts
<1>3. StreamUpTo[i] \in Seq(1 .. StreamLen)
  BY StreamType
<1>4. 0 \in S
  BY <1>1, <1>3, SentRecords
<1>5. ASSUME NEW j \in 0 .. Len(sent) - 1, j \in S
      PROVE  j + 1 \in S
  <2>1. j + 1 \in 1 .. Len(sent) /\ (j + 1) - 1 = j /\ j + 1 \in 0 .. Len(sent) /\ j \in 0 .. Len(sent)
    BY SentRecords
  <2>2. StreamUpTo[j + 1] = StreamUpTo[j] \o Piece(j + 1)
    BY <2>1, StreamStep, Zenon DEF Extended
  <2>3. StreamUpTo[j] \in Seq(1 .. StreamLen) /\ Piece(j + 1) \in Seq(1 .. StreamLen)
    BY <2>1, StreamType, PieceType
  <2>4. ASSUME j >= i PROVE Starts(StreamUpTo[i], StreamUpTo[j + 1])
    <3>1. Starts(StreamUpTo[i], StreamUpTo[j])
      BY <1>5, <2>4
    <3>2. Starts(StreamUpTo[i], StreamUpTo[j] \o Piece(j + 1))
      BY <1>2, <1>3, <2>3, <3>1, Zenon
    <3> QED
      BY <2>2, <3>2, Zenon
  <2>5. CASE j + 1 = i
    BY <1>1, <1>3, <2>1, <2>5
  <2> QED
    BY <2>1, <2>4, <2>5, SentRecords
<1>6. \A j \in 0 .. Len(sent) : j \in S
  <2> HIDE DEF S
  <2> QED
    BY <1>4, <1>5, SentRecords, IntervalInduction, Zenon
<1>7. Starts(StreamUpTo[i], StreamUpTo[Len(sent)])
  BY <1>6, SentRecords
<1> QED
  BY <1>7 DEF Stream, Starts

(* The bytes of record i are where the stream has them. *)
LEMMA StreamOfRecord ==
  ASSUME sent \in Streams, NEW i \in 1 .. Len(sent)
  PROVE  /\ Len(StreamUpTo[i - 1]) \in Nat
         /\ Len(StreamUpTo[i]) = Len(StreamUpTo[i - 1]) + IF sent[i].kind = "app" THEN sent[i].len ELSE 0
         /\ sent[i].kind = "app" =>
              \A k \in 1 .. sent[i].len :
                /\ Len(StreamUpTo[i - 1]) + k <= Len(Stream)
                /\ Stream[Len(StreamUpTo[i - 1]) + k] = Start[i] + HEADER_LEN + k
<1>1. i - 1 \in 0 .. Len(sent) /\ i \in 0 .. Len(sent)
  BY SentRecords
<1> DEFINE a == StreamUpTo[i - 1]
           b == Piece(i)
           n == IF sent[i].kind = "app" THEN sent[i].len ELSE 0
<1>2. a \in Seq(1 .. StreamLen) /\ b \in Seq(1 .. StreamLen) /\ StreamUpTo[i] = a \o b
  BY <1>1, StreamType, StreamStep, PieceType DEF Extended
<1>3. Len(b) = n /\ \A k \in 1 .. Len(b) : b[k] = Start[i] + HEADER_LEN + k
  BY PieceType
<1>4. /\ Len(a \o b) = Len(a) + Len(b) /\ Len(a) \in Nat /\ Len(b) \in Nat
      /\ \A k \in 1 .. Len(b) : (a \o b)[Len(a) + k] = b[k]
  BY <1>2, Concatenated
<1>5. /\ Len(a \o b) <= Len(Stream) /\ Len(Stream) \in Nat
      /\ \A k \in 1 .. Len(a \o b) : Stream[k] = (a \o b)[k]
  BY <1>1, <1>2, StreamPrefix, StreamType, SMTT(30)
<1> HIDE DEF a, b
<1>6. ASSUME NEW k \in 1 .. Len(b)
      PROVE  Len(a) + k <= Len(Stream) /\ Stream[Len(a) + k] = Start[i] + HEADER_LEN + k
  <2>1. Len(a) + k \in 1 .. Len(a \o b) /\ Len(a) + k <= Len(Stream)
    BY <1>4, <1>5
  <2> QED
    BY <1>3, <1>4, <1>5, <2>1
<1>7. Len(StreamUpTo[i]) = Len(a) + n /\ Len(a) \in Nat
  BY <1>2, <1>3, <1>4
<1>8. ASSUME sent[i].kind = "app"
      PROVE  \A k \in 1 .. sent[i].len :
               Len(a) + k <= Len(Stream) /\ Stream[Len(a) + k] = Start[i] + HEADER_LEN + k
  BY <1>3, <1>6, <1>8
<1> QED
  BY <1>7, <1>8 DEF a

-----------------------------------------------------------------------------
(* The parts of the inductive invariant. *)

(* The application has t, record d waits for it in buffer b, and c records have
   been counted. *)
Kept(b, d, t, c) ==
  /\ d \in [offset : Nat, len : Nat, consumed : Nat] /\ d.consumed <= d.len
  /\ t \in Seq(1 .. StreamLen)
  /\ c \in 0 .. Len(sent)
  /\ Len(t) + Left(d) = Len(StreamUpTo[c])
  /\ \A k \in 1 .. Len(t) : t[k] = Stream[k]
  /\ \A k \in 1 .. Left(d) :
       Len(t) + k <= Len(Stream) /\ b[d.offset + d.consumed + k - 1] = Stream[Len(t) + k]

(* RecordReader and the locals of its read(). *)
Reading ==
  /\ sent \in Streams
  /\ at \in 0 .. StreamLen
  /\ buf \in [0 .. BufLen - 1 -> 0 .. StreamLen]
  /\ decoded \in 0 .. BufLen /\ pending \in 0 .. BufLen
  /\ head \in 0 .. HEADER_LEN
  /\ header \in [type : {"ApplicationData", "Plaintext", "None"}, len : Nat]
  /\ remain \in Nat
  /\ opened \in BOOLEAN /\ fault \in BOOLEAN
  /\ pc \in {"idle", "header", "body", "panic"}
  /\ Bounds

(* The calls of the application. *)
Calling ==
  /\ rb \in [held : BOOLEAN, consumed : Nat, used : BOOLEAN]
  /\ call \in ReadSizes \cup {0}
  /\ res \in Errors \cup {"Ok"}
  /\ Lent
  /\ ErrorsExplained
  /\ ClosedAtEnd

LEMMA Parts == IInv <=> Kept(buf, dec, taken, counter) /\ Reading /\ Calling /\ InStep
<1>1. ASSUME IInv PROVE Kept(buf, dec, taken, counter)
  <2>1. counter \in 0 .. Len(sent)
    BY <1>1, SentRecords DEF IInv, TypeOK, Consumed
  <2> QED
    BY <1>1, <2>1 DEF IInv, TypeOK, Consumed, Lent, UnreadIntact, Kept
<1>2. IInv => Reading /\ Calling /\ InStep
  BY DEF IInv, TypeOK, Reading, Calling
<1>3. ASSUME Kept(buf, dec, taken, counter), Reading, Calling, InStep PROVE IInv
  <2>1. counter \in Nat /\ counter <= Len(sent)
    BY <1>3, SentRecords DEF Kept, Reading
  <2>2. TypeOK
    BY <1>3, <2>1 DEF TypeOK, Kept, Reading, Calling
  <2>3. Consumed /\ UnreadIntact
    BY <1>3, <2>1 DEF Consumed, UnreadIntact, Kept
  <2> QED
    BY <1>3, <2>2, <2>3 DEF IInv, Reading, Calling
<1> QED
  BY <1>1, <1>2, <1>3

(* The stream is the server's. *)
LEMMA SameStream ==
  ASSUME sent' = sent
  PROVE  Start' = Start /\ StreamLen' = StreamLen /\ StreamUpTo' = StreamUpTo /\ Stream' = Stream
<1>1. Start' = Start
  BY DEF Start, ContentLength, HEADER_LEN
<1>2. StreamLen' = StreamLen
  BY <1>1 DEF StreamLen
<1>3. StreamUpTo' = StreamUpTo
  BY <1>1 DEF StreamUpTo, HEADER_LEN
<1> QED
  BY <1>1, <1>2, <1>3 DEF Stream

LEMMA PartsNext ==
  ASSUME sent' = sent, Kept(buf', dec', taken', counter'), Reading', Calling', InStep'
  PROVE  IInv'
<1>1. Kept(buf, dec, taken, counter)'
  BY SameStream DEF Kept, Left
<1> QED
  BY <1>1, Parts, PTL

(* When nothing waits the buffer does not matter. *)
LEMMA KeptInAnyBuffer ==
  ASSUME NEW b, NEW e, NEW d, NEW t, NEW c, Kept(b, d, t, c), is_empty(d)
  PROVE  Kept(e, d, t, c)
BY DEF Kept, is_empty

(* n bytes of what waits go to the application. *)
LEMMA Delivered ==
  ASSUME sent \in Streams, NEW b, NEW d, NEW c, Kept(b, d, taken, c), NEW n \in 0 .. Left(d), Deliver(b, d, n)
  PROVE  /\ Kept(b, dec', taken', c)
         /\ Len(taken') = Len(taken) + n /\ Left(dec') = Left(d) - n
<1> DEFINE piece == [k \in 1 .. n |-> b[d.offset + d.consumed + k - 1]]
<1>1. /\ d \in [offset : Nat, len : Nat, consumed : Nat] /\ d.consumed <= d.len
      /\ Left(d) \in Nat /\ n \in Nat /\ n <= Left(d)
      /\ d.offset \in Nat /\ d.consumed \in Nat /\ d.len \in Nat
  BY DEF Kept, Left
<1>2. /\ dec' \in [offset : Nat, len : Nat, consumed : Nat]
      /\ dec'.offset = d.offset /\ dec'.len = d.len /\ dec'.consumed = d.consumed + n
  BY <1>1 DEF Deliver
<1>3. dec'.consumed <= dec'.len /\ Left(dec') = Left(d) - n
  BY <1>1, <1>2 DEF Left
<1>4. /\ Stream \in Seq(1 .. StreamLen) /\ taken \in Seq(1 .. StreamLen)
      /\ Len(taken) \in Nat /\ Len(Stream) \in Nat
  BY StreamType DEF Kept
<1>5. /\ piece = [k \in 1 .. n |-> piece[k]]
      /\ \A k \in 1 .. n : piece[k] = b[d.offset + d.consumed + k - 1]
  OBVIOUS
<1> HIDE DEF piece
<1>6. \A k \in 1 .. n : Len(taken) + k <= Len(Stream) /\ piece[k] = Stream[Len(taken) + k]
  BY <1>1, <1>5, SMTT(30) DEF Kept
<1>7. \A k \in 1 .. n : piece[k] \in 1 .. StreamLen
  <2>1. \A j \in 1 .. Len(Stream) : Stream[j] \in 1 .. StreamLen
    BY <1>4, Elements, Zenon
  <2>2. \A k \in 1 .. n : Len(taken) + k \in 1 .. Len(Stream)
    BY <1>4, <1>6
  <2> QED
    BY <1>6, <2>1, <2>2
<1>8. piece \in Seq(1 .. StreamLen) /\ Len(piece) = n
  BY <1>1, <1>5, <1>7, Tabulated, Zenon
<1>9. taken' = taken \o piece
  BY DEF Deliver, piece
<1>10. /\ taken' \in Seq(1 .. StreamLen) /\ Len(taken') = Len(taken) + n
       /\ \A k \in 1 .. Len(taken) : taken'[k] = taken[k]
       /\ \A k \in 1 .. n : taken'[Len(taken) + k] = piece[k]
  <2> DEFINE T == 1 .. StreamLen
  <2> HIDE DEF T
  <2>1. taken \in Seq(T) /\ piece \in Seq(T)
    BY <1>4, <1>8 DEF T
  <2>2. /\ taken \o piece \in Seq(T)
        /\ Len(taken \o piece) = Len(taken) + Len(piece)
        /\ \A k \in 1 .. Len(taken) : (taken \o piece)[k] = taken[k]
        /\ \A k \in 1 .. Len(piece) : (taken \o piece)[Len(taken) + k] = piece[k]
    BY <2>1, Concatenated
  <2>3. Len(piece) = n
    BY <1>8
  <2> QED
    BY <1>9, <2>2, <2>3, Zenon DEF T
<1>11. ASSUME NEW k \in 1 .. Len(taken') PROVE taken'[k] = Stream[k]
  <2>1. CASE k <= Len(taken)
    BY <1>4, <1>10, <2>1 DEF Kept
  <2>2. CASE k > Len(taken)
    <3>1. k - Len(taken) \in 1 .. n /\ Len(taken) + (k - Len(taken)) = k
      BY <1>1, <1>4, <1>10, <2>2
    <3> QED
      BY <1>6, <1>10, <3>1
  <2> QED
    BY <1>4, <1>10, <2>1, <2>2
<1>12. ASSUME NEW k \in 1 .. Left(dec')
       PROVE  /\ Len(taken') + k <= Len(Stream)
              /\ b[dec'.offset + dec'.consumed + k - 1] = Stream[Len(taken') + k]
  <2>1. n + k \in 1 .. Left(d)
    BY <1>1, <1>3
  <2>2. /\ Len(taken) + (n + k) <= Len(Stream)
        /\ b[d.offset + d.consumed + (n + k) - 1] = Stream[Len(taken) + (n + k)]
    BY <2>1 DEF Kept
  <2>3. /\ Len(taken') + k = Len(taken) + (n + k)
        /\ dec'.offset + dec'.consumed + k - 1 = d.offset + d.consumed + (n + k) - 1
    BY <1>1, <1>2, <1>3, <1>4, <1>10, SMTT(30)
  <2> QED
    BY <2>2, <2>3
<1>13. Len(taken') + Left(dec') = Len(StreamUpTo[c]) /\ c \in 0 .. Len(sent)
  BY <1>1, <1>3, <1>4, <1>10 DEF Kept
<1> QED
  BY <1>2, <1>3, <1>10, <1>11, <1>12, <1>13 DEF Kept

(* What the application gets is never taken back, and only a close_notify, which
   hands nothing out, closes the connection. *)
Grows ==
  /\ sent' = sent
  /\ Len(taken) <= Len(taken')
  /\ ~opened => ~opened' /\ fault' = fault
  /\ opened' # opened => taken' = taken

LEMMA LeftNat ==
  ASSUME NEW b, NEW d, NEW t, NEW c, Kept(b, d, t, c)
  PROVE  Left(d) \in Nat /\ Len(t) \in Nat
BY DEF Kept, Left

LEMMA LeastOf ==
  ASSUME NEW a \in Nat, NEW b \in Nat
  PROVE  Least(a, b) \in 0 .. b /\ Least(a, b) <= a
BY DEF Least

(* read() or read_buffered() returns bytes of record d. *)
LEMMA Answered ==
  ASSUME sent \in Streams, NEW c \in ReadSizes \cup {0}, NEW d, NEW n, Kept(buf, d, taken, n),
         rb = NoBuffer, Answer(c, buf, d)
  PROVE  /\ Kept(buf, dec', taken', n)
         /\ Left(dec') <= Left(d) /\ Len(taken) <= Len(taken')
         /\ pc' = "idle" /\ call' = 0 /\ res' = "Ok"
         /\ rb' \in [held : BOOLEAN, consumed : Nat, used : BOOLEAN]
         /\ rb'.held \/ rb' = NoBuffer
         /\ rb'.consumed <= Left(dec')
<1>1. c \in Nat /\ Left(d) \in Nat /\ Len(taken) \in Nat
  BY LeftNat, ReaderAssumption
<1>2. CASE c > 0
  <2>1. Least(c, Left(d)) \in 0 .. Left(d)
    BY <1>1, LeastOf
  <2>2. Deliver(buf, d, Least(c, Left(d))) /\ rb' = NoBuffer
    BY <1>2 DEF Answer
  <2>3. /\ Kept(buf, dec', taken', n)
        /\ Len(taken') = Len(taken) + Least(c, Left(d)) /\ Left(dec') = Left(d) - Least(c, Left(d))
    BY <2>1, <2>2, Delivered
  <2>4. Left(dec') <= Left(d) /\ Len(taken) <= Len(taken') /\ 0 <= Left(dec')
    BY <1>1, <2>1, <2>3
  <2> QED
    BY <2>2, <2>3, <2>4 DEF Answer, NoBuffer
<1>3. CASE ~(c > 0)
  <2>1. rb' = [held |-> TRUE, consumed |-> 0, used |-> FALSE] /\ dec' = d /\ taken' = taken
    BY <1>3 DEF Answer, NoBuffer
  <2> QED
    BY <1>1, <2>1 DEF Answer
<1> QED
  BY <1>2, <1>3

(* A connection as open() leaves it. *)
LEMMA InitInv == Init => IInv
<1> SUFFICES ASSUME Init PROVE IInv
  OBVIOUS
<1>1. sent \in Streams
  BY DEF Init
<1>2. Kept(buf, dec, taken, counter)
  BY <1>1, StreamStep, SentRecords DEF Init, Kept, Left
<1>3. Reading
  BY <1>1, StartNat, ReaderAssumption DEF Init, Reading, Bounds, NoHeader, HEADER_LEN
<1>4. Calling
  BY DEF Init, Calling, Lent, ErrorsExplained, ClosedAtEnd, NoBuffer, is_empty, Left
<1>5. Behind(0) /\ 0 \in 0 .. Len(sent)
  BY <1>1, StartStep, SentRecords DEF Init, Behind
<1> QED
  BY <1>2, <1>3, <1>4, <1>5, Parts DEF InStep

(* A call of the application that leaves the records alone. *)
LEMMA ApplicationStep ==
  ASSUME IInv, UNCHANGED <<reader, locals, sent, opened, fault>>,
         pc = "idle", pc' \in {"idle", "header"},
         call' \in ReadSizes \cup {0}, res' \in {res, "Ok"},
         Kept(buf, dec', taken', counter), Left(dec') <= Left(dec), Len(taken) <= Len(taken'),
         rb' \in [held : BOOLEAN, consumed : Nat, used : BOOLEAN],
         IF rb'.held THEN pc' = "idle" ELSE rb' = NoBuffer,
         rb'.consumed <= Left(dec'),
         pc' = "header" => opened /\ is_empty(dec')
  PROVE  IInv' /\ Grows
<1>1. Kept(buf, dec, taken, counter) /\ Reading /\ Calling /\ InStep
  BY Parts
<1>2. /\ at' = at /\ buf' = buf /\ decoded' = decoded /\ pending' = pending /\ counter' = counter
      /\ head' = head /\ header' = header /\ remain' = remain
      /\ sent' = sent /\ opened' = opened /\ fault' = fault
  BY DEF reader, locals
<1>3. Start' = Start /\ StreamLen' = StreamLen /\ Stream' = Stream
  BY <1>2, SameStream
<1>4. Reading'
  BY <1>1, <1>2, <1>3 DEF Reading, Bounds
<1>5. InStep'
  <2> SUFFICES ASSUME ~fault PROVE \E n \in 0 .. Len(sent') : Behind(n)'
    BY <1>2 DEF InStep
  <2>1. PICK n \in 0 .. Len(sent) : Behind(n)
    BY <1>1 DEF InStep
  <2>2. Behind(n)'
    BY <1>2, <1>3, <2>1 DEF Behind, Refused
  <2> QED
    BY <1>2, <2>2
<1>6. dec'.consumed <= dec'.len
  BY DEF Kept
<1>7. Lent'
  BY <1>2, <1>6 DEF Lent
<1>8. ErrorsExplained'
  BY <1>1, <1>2 DEF Calling, ErrorsExplained, Refused
<1>9. ClosedAtEnd'
  <2> SUFFICES ASSUME ~opened, ~fault PROVE taken' = Stream /\ is_empty(dec')
    BY <1>2, <1>3 DEF ClosedAtEnd, is_empty, Left
  <2>1. taken = Stream /\ Left(dec) = 0
    BY <1>1 DEF Calling, ClosedAtEnd, is_empty
  <2>2. Left(dec') \in Nat /\ Left(dec') = 0 /\ Len(taken') \in Nat
    BY <2>1, LeftNat
  <2>3. Len(taken') = Len(StreamUpTo[counter]) /\ Len(taken) = Len(StreamUpTo[counter])
    BY <1>1, <2>1, <2>2, LeftNat DEF Kept
  <2>4. /\ taken' \in Seq(1 .. StreamLen) /\ Stream \in Seq(1 .. StreamLen)
        /\ Len(taken') = Len(Stream) /\ \A k \in 1 .. Len(taken') : taken'[k] = Stream[k]
    BY <1>1, <2>1, <2>3 DEF Kept
  <2> QED
    BY <2>2, <2>4, SameSequence DEF is_empty
<1>10. Calling'
  BY <1>1, <1>7, <1>8, <1>9 DEF Calling
<1> QED
  BY <1>2, <1>4, <1>5, <1>10, PartsNext DEF Grows

(* read() and read_buffered(). *)
LEMMA ReadCallStep ==
  ASSUME IInv, NEW n \in ReadSizes \cup {0}, ReadCall(n)
  PROVE  IInv' /\ Grows
<1>1. Kept(buf, dec, taken, counter) /\ Reading /\ Calling
  BY Parts
<1>2. sent \in Streams /\ pc = "idle" /\ rb = NoBuffer /\ opened
  BY <1>1 DEF Reading, Calling, Lent, ReadCall, Idle
<1>3. UNCHANGED <<reader, locals, sent, opened, fault>>
  BY DEF ReadCall
<1>4. CASE is_empty(dec)
  <2>1. pc' = "header" /\ call' = n /\ dec' = dec /\ rb' = rb /\ taken' = taken /\ res' = res
    BY <1>4 DEF ReadCall
  <2>2. Left(dec') <= Left(dec) /\ Len(taken) <= Len(taken') /\ rb'.consumed <= Left(dec')
    BY <1>1, <2>1, LeftNat DEF Calling, Lent
  <2>3. /\ rb' \in [held : BOOLEAN, consumed : Nat, used : BOOLEAN] /\ ~rb'.held /\ rb' = NoBuffer
        /\ is_empty(dec') /\ Kept(buf, dec', taken', counter)
    BY <1>1, <1>2, <1>4, <2>1 DEF Calling, NoBuffer
  <2> QED
    BY <1>2, <1>3, <2>1, <2>2, <2>3, ApplicationStep
<1>5. CASE ~is_empty(dec)
  <2>1. Answer(n, buf, dec)
    BY <1>5 DEF ReadCall
  <2>2. /\ Kept(buf, dec', taken', counter)
        /\ Left(dec') <= Left(dec) /\ Len(taken) <= Len(taken')
        /\ pc' = "idle" /\ call' = 0 /\ res' = "Ok"
        /\ rb' \in [held : BOOLEAN, consumed : Nat, used : BOOLEAN]
        /\ rb'.held \/ rb' = NoBuffer
        /\ rb'.consumed <= Left(dec')
    BY <1>1, <1>2, <2>1, Answered
  <2> QED
    BY <1>2, <1>3, <2>2, ApplicationStep
<1> QED
  BY <1>4, <1>5

(* BufRead::consume. *)
LEMMA ConsumeStep ==
  ASSUME IInv, Consume
  PROVE  IInv' /\ Grows
<1>1. Kept(buf, dec, taken, counter) /\ Reading /\ Calling
  BY Parts
<1>2. sent \in Streams /\ pc = "idle" /\ rb = NoBuffer /\ Left(dec) \in Nat /\ Len(taken) \in Nat
  BY <1>1, LeftNat DEF Reading, Calling, Lent, Consume, Idle
<1>3. UNCHANGED <<reader, locals, sent, opened, fault, pc, rb, call, res>>
  BY DEF Consume
<1>4. PICK n \in ReadSizes : Deliver(buf, dec, Least(n, Left(dec)))
  BY DEF Consume
<1>5. Least(n, Left(dec)) \in 0 .. Left(dec)
  BY <1>2, LeastOf, ReaderAssumption
<1>6. /\ Kept(buf, dec', taken', counter)
      /\ Len(taken') = Len(taken) + Least(n, Left(dec)) /\ Left(dec') = Left(dec) - Least(n, Left(dec))
  BY <1>1, <1>2, <1>4, <1>5, Delivered
<1>7. Left(dec') <= Left(dec) /\ Len(taken) <= Len(taken') /\ 0 <= Left(dec')
  BY <1>2, <1>5, <1>6
<1>8. /\ rb' = NoBuffer /\ ~rb'.held /\ rb'.consumed = 0 /\ rb' \in [held : BOOLEAN, consumed : Nat, used : BOOLEAN]
      /\ call' \in ReadSizes \cup {0} /\ pc' = "idle" /\ res' = res
  BY <1>1, <1>2, <1>3 DEF NoBuffer, Calling
<1> QED
  BY <1>2, <1>3, <1>6, <1>7, <1>8, ApplicationStep

(* ReadBuffer: pop and its kin, peek, revert and drop. *)
LEMMA ReadBufferStep ==
  ASSUME IInv, Pop \/ Peek \/ Revert \/ Drop
  PROVE  IInv' /\ Grows
<1>1. Kept(buf, dec, taken, counter) /\ Reading /\ Calling
  BY Parts
<1>2. /\ sent \in Streams /\ rb.held /\ pc = "idle" /\ rb.consumed <= Left(dec)
      /\ rb \in [held : BOOLEAN, consumed : Nat, used : BOOLEAN]
      /\ Left(dec) \in Nat /\ Len(taken) \in Nat /\ rb.consumed \in Nat
  BY <1>1, LeftNat, Zenon DEF Reading, Calling, Lent, Pop, Peek, Revert, Drop
<1>3. /\ UNCHANGED <<reader, locals, sent, opened, fault>>
      /\ pc' = "idle" /\ call' \in ReadSizes \cup {0} /\ res' = res
  BY <1>1, <1>2, Zenon DEF Pop, Peek, Revert, Drop, Calling
<1>4. NoBuffer \in [held : BOOLEAN, consumed : Nat, used : BOOLEAN] /\ ~NoBuffer.held /\ NoBuffer.consumed = 0
  BY DEF NoBuffer
<1>5. CASE ~Drop
  <2>1. dec' = dec /\ taken' = taken
    BY <1>5, Zenon DEF Pop, Peek, Revert
  <2>2. /\ rb' \in [held : BOOLEAN, consumed : Nat, used : BOOLEAN]
        /\ rb'.held \/ rb' = NoBuffer
        /\ rb'.consumed <= Left(dec)
    <3>1. CASE Pop
      <4>1. PICK n \in ReadSizes :
              rb' = [rb EXCEPT !.consumed = rb.consumed + Least(n, Left(dec) - rb.consumed), !.used = TRUE]
        BY <3>1, Zenon DEF Pop
      <4>2. n \in Nat /\ Left(dec) - rb.consumed \in Nat
        BY <1>2, ReaderAssumption
      <4>3. Least(n, Left(dec) - rb.consumed) \in 0 .. Left(dec) - rb.consumed
        BY <4>2, LeastOf, Zenon
      <4>4. /\ rb.consumed + Least(n, Left(dec) - rb.consumed) \in Nat
            /\ rb.consumed + Least(n, Left(dec) - rb.consumed) <= Left(dec)
        BY <1>2, <4>3
      <4> QED
        BY <1>2, <4>1, <4>4, Zenon
    <3>2. CASE Peek
      BY <1>2, <3>2, Zenon DEF Peek
    <3>3. CASE Revert
      BY <1>2, <1>4, <3>3 DEF Revert
    <3> QED
      BY <1>5, <3>1, <3>2, <3>3
  <2>3. Kept(buf, dec', taken', counter) /\ Left(dec') <= Left(dec) /\ Len(taken) <= Len(taken')
    BY <1>1, <1>2, <2>1
  <2> QED
    BY <1>2, <1>3, <2>1, <2>2, <2>3, ApplicationStep
<1>6. CASE Drop
  <2> DEFINE n == IF rb.used THEN rb.consumed ELSE Left(dec)
  <2>1. n \in 0 .. Left(dec) /\ Deliver(buf, dec, n) /\ rb' = NoBuffer
    BY <1>2, <1>6 DEF Drop
  <2> HIDE DEF n
  <2>2. Kept(buf, dec', taken', counter) /\ Len(taken') = Len(taken) + n /\ Left(dec') = Left(dec) - n
    BY <1>1, <1>2, <2>1, Delivered
  <2>3. Left(dec') <= Left(dec) /\ Len(taken) <= Len(taken') /\ 0 <= Left(dec')
    BY <1>2, <2>1, <2>2
  <2> QED
    BY <1>2, <1>3, <1>4, <2>1, <2>2, <2>3, ApplicationStep
<1> QED
  BY <1>5, <1>6

(* A step of a read that has no record yet. *)
LEMMA TransportStep ==
  ASSUME IInv, pc \in {"header", "body"}, UNCHANGED <<sent, counter, opened, dec, rb, taken>>,
         call' \in ReadSizes \cup {0}, res' \in Errors \cup {"Ok"},
         Reading', InStep', ErrorsExplained'
  PROVE  IInv' /\ Grows
<1>1. Kept(buf, dec, taken, counter) /\ Reading /\ Calling
  BY Parts
<1>2. opened /\ is_empty(dec) /\ ~rb.held /\ rb = NoBuffer /\ Len(taken) \in Nat
  BY <1>1, LeftNat DEF Calling, Lent
<1>3. Kept(buf', dec', taken', counter')
  BY <1>1, <1>2, KeptInAnyBuffer
<1>4. Lent' /\ ClosedAtEnd'
  BY <1>1, <1>2 DEF Calling, Lent, ClosedAtEnd, is_empty, Left
<1>5. Calling'
  BY <1>1, <1>4 DEF Calling
<1> QED
  BY <1>2, <1>3, <1>5, PartsNext DEF Grows

(* In step with the server, five bytes are the header of the next record. *)
LEMMA HeaderInStep ==
  ASSUME Reading, pc = "header", NEW n \in 0 .. Len(sent), Behind(n),
         NEW m \in 1 .. Least(HEADER_LEN - head, StreamLen - at), head + m = HEADER_LEN
  PROVE  /\ n < Len(sent)
         /\ at + m = Start[n + 1] + HEADER_LEN
         /\ Headers(at + m) = {[type |-> "ApplicationData", len |-> ContentLength(sent[n + 1])]}
<1>1. /\ sent \in Streams /\ at = Start[n + 1] + head /\ head \in 0 .. HEADER_LEN /\ at \in 0 .. StreamLen
      /\ n \in Nat /\ Len(sent) \in Nat /\ n <= Len(sent)
  BY SentRecords DEF Reading, Behind
<1>2. Start[n + 1] \in Nat /\ StreamLen \in Nat
  BY <1>1, StartNat
<1>3. m \in Nat /\ m >= 1 /\ m <= StreamLen - at
  BY <1>1, <1>2, SMTT(30) DEF Least, HEADER_LEN
<1>4. n < Len(sent)
  <2> SUFFICES ASSUME n = Len(sent) PROVE FALSE
    BY <1>1
  <2>1. Start[n + 1] = StreamLen
    BY DEF StreamLen
  <2> QED
    BY <1>1, <1>2, <1>3, <2>1 DEF HEADER_LEN
<1>5. at + m = Start[n + 1] + HEADER_LEN /\ n + 1 \in 1 .. Len(sent)
  <2>1. head \in Nat /\ m \in Nat
    BY <1>1, <1>3 DEF HEADER_LEN
  <2>2. (Start[n + 1] + head) + m = Start[n + 1] + (head + m)
    BY <1>2, <2>1
  <2> QED
    BY <1>1, <1>4, <2>2
<1>6. \A j \in 1 .. Len(sent) : Start[j] + HEADER_LEN = at + m <=> j = n + 1
  <2> TAKE j \in 1 .. Len(sent)
  <2>1. Start[j] \in Nat
    BY <1>1, StartNat
  <2>2. Start[j] + HEADER_LEN = at + m => Start[j] = Start[n + 1]
    BY <1>2, <1>5, <2>1 DEF HEADER_LEN
  <2> QED
    BY <1>1, <1>5, <2>2, StartInjective
<1>7. {j \in 1 .. Len(sent) : Start[j] + HEADER_LEN = at + m} = {n + 1}
  BY <1>5, <1>6
<1>8. \E i \in 1 .. Len(sent) : Start[i] + HEADER_LEN = at + m
  BY <1>5, <1>6
<1>9. Headers(at + m) = {[type |-> "ApplicationData", len |-> ContentLength(sent[i])] : i \in {n + 1}}
  BY <1>7, <1>8, Zenon DEF Headers
<1> QED
  BY <1>4, <1>5, <1>9

LEMMA HeaderTypes ==
  ASSUME sent \in Streams, NEW e, NEW h \in Headers(e)
  PROVE  h \in [type : {"ApplicationData", "Plaintext", "None"}, len : Nat]
<1>1. \A i \in 1 .. Len(sent) : ContentLength(sent[i]) \in Nat
  BY SentRecords
<1>2. CASE \E i \in 1 .. Len(sent) : Start[i] + HEADER_LEN = e
  <2>1. PICK i \in 1 .. Len(sent) : h = [type |-> "ApplicationData", len |-> ContentLength(sent[i])]
    BY <1>2, SMTT(30) DEF Headers
  <2> QED
    BY <1>1, <2>1
<1>3. CASE ~ \E i \in 1 .. Len(sent) : Start[i] + HEADER_LEN = e
  <2>1. h \in [type : {"ApplicationData", "Plaintext", "None"}, len : GarbageLens]
    BY <1>3 DEF Headers
  <2> QED
    BY <2>1, ReaderAssumption, Zenon
<1> QED
  BY <1>2, <1>3

(* The loop that reads a header, and what follows its fifth byte. *)
LEMMA HeaderReadStep ==
  ASSUME IInv, HeaderRead
  PROVE  IInv' /\ Grows
<1>1. Reading /\ Calling /\ InStep
  BY Parts
<1>2. /\ sent \in Streams /\ pc = "header" /\ sent' = sent /\ pending' = pending
      /\ counter' = counter /\ opened' = opened
      /\ at \in 0 .. StreamLen /\ decoded \in 0 .. BufLen /\ pending \in 0 .. BufLen
      /\ decoded + pending <= BufLen /\ head \in 0 .. HEADER_LEN /\ head < HEADER_LEN
      /\ buf \in [0 .. BufLen - 1 -> 0 .. StreamLen] /\ BufLen \in Nat
  BY <1>1, ReaderAssumption, SMTT(30) DEF Reading, Bounds, HeaderRead
<1>3. StreamLen \in Nat /\ Start' = Start /\ StreamLen' = StreamLen
  BY <1>2, StartNat, SameStream
<1>4. PICK m \in 1 .. Least(HEADER_LEN - head, StreamLen - at) :
        /\ at' = at + m
        /\ IF head + m < HEADER_LEN
           THEN head' = head + m /\ UNCHANGED <<header, remain, buf, decoded, dec, rb, taken, pc, call, fault, res>>
           ELSE \E h \in Headers(at + m) : HeaderDone(h)
  BY DEF HeaderRead
<1>5. m \in Nat /\ m <= HEADER_LEN - head /\ at' \in 0 .. StreamLen /\ head + m <= HEADER_LEN
  BY <1>2, <1>3, <1>4 DEF Least, HEADER_LEN
<1>6. CASE head + m < HEADER_LEN
  <2>1. Reading'
    BY <1>1, <1>2, <1>3, <1>4, <1>5, <1>6, SMTT(30) DEF Reading, Bounds, HEADER_LEN
  <2>2. InStep'
    <3> SUFFICES ASSUME ~fault PROVE \E n \in 0 .. Len(sent) : Behind(n)'
      BY <1>2, <1>4, <1>6 DEF InStep
    <3>1. PICK n \in 0 .. Len(sent) : Behind(n)
      BY <1>1 DEF InStep
    <3>2. at' = Start[n + 1] + head'
      <4>1. Start[n + 1] \in Nat /\ at = Start[n + 1] + head
        BY <1>2, <3>1, StartNat, SentRecords, SMTT(30) DEF Behind
      <4>2. at' = at + m /\ head' = head + m
        BY <1>4, <1>6, Zenon
      <4> QED BY <1>2, <1>5, <4>1, <4>2
    <3>3. Behind(n)'
      BY <1>2, <1>3, <1>4, <1>6, <3>1, <3>2, SMTT(30) DEF Behind, Refused
    <3> QED
      BY <3>3
  <2>3. ErrorsExplained' /\ call' \in ReadSizes \cup {0} /\ res' \in Errors \cup {"Ok"}
    BY <1>1, <1>2, <1>4, <1>6 DEF Calling, ErrorsExplained, Refused
  <2> QED
    BY <1>2, <1>4, <1>6, <2>1, <2>2, <2>3, TransportStep
<1>7. CASE ~(head + m < HEADER_LEN)
  <2>1. head + m = HEADER_LEN
    BY <1>2, <1>5, <1>7 DEF HEADER_LEN
  <2>2. PICK h \in Headers(at + m) : HeaderDone(h)
    BY <1>4, <1>7
  <2>3. /\ h \in [type : {"ApplicationData", "Plaintext", "None"}, len : Nat] /\ h.len \in Nat
        /\ NoHeader \in [type : {"ApplicationData", "Plaintext", "None"}, len : Nat]
    BY <1>2, <2>2, HeaderTypes DEF NoHeader
  <2>4. \A n \in 0 .. Len(sent) : Behind(n) =>
          /\ n < Len(sent) /\ at' = Start[n + 1] + HEADER_LEN
          /\ h = [type |-> "ApplicationData", len |-> ContentLength(sent[n + 1])]
          /\ pending = 0
    BY <1>1, <1>2, <1>4, <2>1, <2>2, HeaderInStep, SMTT(30) DEF Behind
  <2>5. CASE h.type = "None"
    <3>1. /\ Fail("InvalidRecord") /\ LocalsGone /\ UNCHANGED <<buf, decoded, fault>>
      BY <2>2, <2>5 DEF HeaderDone
    <3>2. fault
      <4> SUFFICES ASSUME ~fault PROVE FALSE
        BY <1>1 DEF Reading
      <4> QED
        BY <1>1, <2>4, <2>5 DEF InStep
    <3>3. Reading'
      BY <1>1, <1>2, <1>3, <1>5, <2>3, <3>1 DEF Reading, Bounds, Fail, LocalsGone, HEADER_LEN
    <3>4. InStep' /\ ErrorsExplained' /\ call' \in ReadSizes \cup {0} /\ res' \in Errors \cup {"Ok"}
      BY <3>1, <3>2 DEF InStep, ErrorsExplained, Fail, Errors
    <3> QED
      BY <1>2, <3>1, <3>3, <3>4, TransportStep DEF Fail
  <2>6. CASE h.type # "None" /\ h.len > BufLen
    <3>1. /\ Fail("InsufficientSpace") /\ LocalsGone /\ fault' = TRUE /\ UNCHANGED <<buf, decoded>>
      BY <2>2, <2>6 DEF HeaderDone
    <3>2. Reading'
      BY <1>1, <1>2, <1>3, <1>5, <2>3, <3>1 DEF Reading, Bounds, Fail, LocalsGone, HEADER_LEN
    <3>3. InStep' /\ ErrorsExplained' /\ call' \in ReadSizes \cup {0} /\ res' \in Errors \cup {"Ok"}
      BY <3>1 DEF InStep, ErrorsExplained, Fail, Errors
    <3> QED
      BY <1>2, <3>1, <3>2, <3>3, TransportStep DEF Fail
  <2>7. CASE h.type # "None" /\ ~(h.len > BufLen)
    <3>1. /\ EnsureContiguous(h.len)
          /\ head' = 0 /\ header' = h /\ remain' = h.len
          /\ pc' = "body"
          /\ UNCHANGED <<dec, rb, taken, call, fault, res>>
      BY <2>2, <2>7 DEF HeaderDone
    <3>2. decoded' \in 0 .. BufLen /\ decoded' + h.len <= BufLen /\ decoded' + pending <= BufLen
      BY <1>2, <2>3, <2>7, <3>1 DEF EnsureContiguous, Rotated
    <3>3. buf' \in [0 .. BufLen - 1 -> 0 .. StreamLen]
      <4>1. \A c \in 0 .. BufLen - 1 : c < pending => decoded + c \in 0 .. BufLen - 1
        BY <1>2
      <4>2. CASE Rotated(h.len)
        BY <1>2, <3>1, <4>1, <4>2 DEF EnsureContiguous
      <4>3. CASE ~Rotated(h.len)
        BY <1>2, <3>1, <4>3 DEF EnsureContiguous
      <4> QED
        BY <4>2, <4>3
    <3>4. Reading'
      <4>1. Bounds'
        <5>1. header'.len = h.len /\ header'.type # "None" /\ head' = 0 /\ pending' = pending
          BY <1>2, <2>7, <3>1
        <5>2. decoded' + header'.len <= BufLen /\ decoded' + pending' <= BufLen
          BY <3>2, <5>1, Zenon
        <5> QED
          BY <5>1, <5>2 DEF Bounds, HEADER_LEN
      <4>2. /\ header' \in [type : {"ApplicationData", "Plaintext", "None"}, len : Nat]
            /\ remain' \in Nat /\ pc' = "body" /\ fault' = fault /\ head' \in 0 .. HEADER_LEN
        BY <2>3, <3>1 DEF HEADER_LEN
      <4> QED
        BY <1>1, <1>2, <1>3, <1>5, <3>2, <3>3, <4>1, <4>2, SMTT(30) DEF Reading
    <3>5. InStep'
      <4> SUFFICES ASSUME ~fault PROVE \E n \in 0 .. Len(sent) : Behind(n)'
        BY <1>2, <3>1 DEF InStep
      <4>1. PICK n \in 0 .. Len(sent) : Behind(n)
        BY <1>1 DEF InStep
      <4>2. /\ n < Len(sent) /\ at' = Start[n + 1] + HEADER_LEN
            /\ header' = [type |-> "ApplicationData", len |-> ContentLength(sent[n + 1])]
        BY <2>4, <3>1, <4>1
      <4>3. pending = 0
        BY <1>2, <4>1 DEF Behind
      <4>4. Start[n + 1] \in Nat /\ ContentLength(sent[n + 1]) \in Nat
        <5>1. sent \in Streams /\ Len(sent) \in Nat
          BY <1>2, SentRecords, SMTT(30)
        <5>2. n + 1 \in 1 .. Len(sent) /\ n + 1 \in 1 .. Len(sent) + 1
          BY <4>2, <5>1
        <5> QED BY <5>1, <5>2, StartNat, SentRecords
      <4>5. pending' = 0 /\ at' = Start[n + 1] + HEADER_LEN + pending' /\ pending' + remain' = header'.len
        BY <1>2, <2>3, <3>1, <4>2, <4>3, <4>4, SMTT(30) DEF HEADER_LEN
      <4>6. Behind(n)'
        BY <1>2, <1>3, <3>1, <4>1, <4>2, <4>5, SMTT(30) DEF Behind, Refused
      <4> QED
        BY <4>6
    <3>6. ErrorsExplained' /\ call' \in ReadSizes \cup {0} /\ res' \in Errors \cup {"Ok"}
      BY <1>1, <1>2, <3>1 DEF Calling, ErrorsExplained, Refused
    <3> QED
      BY <1>2, <3>1, <3>4, <3>5, <3>6, TransportStep
  <2> QED
    BY <2>5, <2>6, <2>7
<1> QED
  BY <1>6, <1>7

(* The loop of advance(). *)
LEMMA BodyReadStep ==
  ASSUME IInv, BodyRead
  PROVE  IInv' /\ Grows
<1>1. Reading /\ Calling /\ InStep
  BY Parts
<1>2. /\ sent \in Streams /\ pc = "body" /\ pending < header.len
      /\ sent' = sent /\ decoded' = decoded /\ counter' = counter /\ opened' = opened /\ fault' = fault
      /\ at \in 0 .. StreamLen /\ decoded \in 0 .. BufLen /\ pending \in 0 .. BufLen /\ BufLen \in Nat
      /\ decoded + header.len <= BufLen /\ head = 0 /\ remain \in Nat
      /\ header \in [type : {"ApplicationData", "Plaintext", "None"}, len : Nat] /\ header.len \in Nat
      /\ buf \in [0 .. BufLen - 1 -> 0 .. StreamLen]
  BY <1>1, ReaderAssumption, Zenon DEF Reading, Bounds, BodyRead
<1>3. StreamLen \in Nat /\ Start' = Start /\ StreamLen' = StreamLen
  BY <1>2, StartNat, SameStream
<1>4. CASE decoded + pending + remain > BufLen
  <2>1. Fail("Panic") /\ LocalsGone /\ UNCHANGED <<at, buf, pending>>
    BY <1>4 DEF BodyRead
  <2>2. fault
    <3> SUFFICES ASSUME ~fault PROVE FALSE
      BY <1>1 DEF Reading
    <3>1. PICK n \in 0 .. Len(sent) : Behind(n)
      BY <1>1 DEF InStep
    <3>2. pending + remain = header.len
      BY <1>2, <3>1, SMTT(30) DEF Behind
    <3> QED
      BY <1>2, <1>4, <3>2
  <2>3. Reading'
    BY <1>1, <1>2, <1>3, <2>1 DEF Reading, Bounds, Fail, LocalsGone, NoHeader, HEADER_LEN
  <2>4. InStep' /\ ErrorsExplained' /\ call' \in ReadSizes \cup {0} /\ res' \in Errors \cup {"Ok"}
    BY <1>2, <2>1, <2>2 DEF InStep, ErrorsExplained, Fail, Errors
  <2> QED
    BY <1>2, <2>1, <2>3, <2>4, TransportStep DEF Fail
<1>5. CASE ~(decoded + pending + remain > BufLen)
  <2>1. PICK m \in 1 .. Least(remain, StreamLen - at) :
          /\ at' = at + m
          /\ buf' = [c \in 0 .. BufLen - 1 |->
                       IF c \in decoded + pending .. decoded + pending + m - 1
                       THEN at + 1 + c - (decoded + pending) ELSE buf[c]]
          /\ pending' = pending + m
          /\ remain' = remain - m
          /\ UNCHANGED <<head, header, dec, rb, taken, pc, call, res>>
    BY <1>5 DEF BodyRead
  <2>2. m \in Nat /\ m >= 1 /\ m <= remain /\ m <= StreamLen - at
    BY <1>2, <1>3 DEF Least
  <2>3. /\ at' \in 0 .. StreamLen /\ remain' \in Nat
        /\ pending' \in 0 .. BufLen /\ decoded' + pending' <= BufLen
    BY <1>2, <1>3, <1>5, <2>1, <2>2
  <2>4. buf' \in [0 .. BufLen - 1 -> 0 .. StreamLen]
    <3>1. \A c \in 0 .. BufLen - 1 : c \in decoded + pending .. decoded + pending + m - 1 =>
            at + 1 + c - (decoded + pending) \in 0 .. StreamLen
      BY <1>2, <1>3, <2>2
    <3> QED
      BY <1>2, <2>1, <3>1, Zenon
  <2>5. Reading'
    <3>1. Bounds'
      BY <1>1, <1>2, <2>1, <2>3 DEF Reading, Bounds
    <3> QED
      BY <1>1, <1>2, <1>3, <2>1, <2>3, <2>4, <3>1, SMTT(30) DEF Reading
  <2>6. InStep'
    <3> SUFFICES ASSUME ~fault PROVE \E n \in 0 .. Len(sent) : Behind(n)'
      BY <1>2 DEF InStep
    <3>1. PICK n \in 0 .. Len(sent) : Behind(n)
      BY <1>1 DEF InStep
    <3>2. /\ n < Len(sent) /\ at = Start[n + 1] + HEADER_LEN + pending
          /\ pending + remain = header.len
          /\ \A k \in 1 .. pending : buf[decoded + k - 1] = Start[n + 1] + HEADER_LEN + k
      BY <1>2, <3>1, SMTT(30) DEF Behind
    <3> DEFINE first == Start[n + 1]
    <3>3. first \in Nat /\ at = first + HEADER_LEN + pending
      <4>1. n + 1 \in 1 .. Len(sent) + 1
        BY <1>2, SentRecords
      <4> QED
        BY <1>2, <3>2, <4>1, StartNat, SMTT(30)
    <3>4. pending \in Nat /\ decoded \in Nat /\ pending' = pending + m /\ decoded + pending + m <= BufLen
      BY <1>2, <1>5, <2>1, <2>2
    <3> HIDE DEF first
    <3>5. at' = first + HEADER_LEN + pending' /\ pending' + remain' = header'.len
      <4>1. at' = first + HEADER_LEN + pending'
        BY <2>1, <2>2, <3>3, <3>4 DEF HEADER_LEN
      <4>2. pending' + remain' = pending + remain /\ header' = header
        BY <1>2, <2>1, <2>2, <3>4
      <4> QED
        BY <3>2, <4>1, <4>2
    <3>6. ASSUME NEW k \in 1 .. pending'
          PROVE  buf'[decoded + k - 1] = first + HEADER_LEN + k
      <4>1. k \in Nat /\ 1 <= k /\ k <= pending + m
        BY <2>2, <3>4
      <4>2. decoded + k - 1 \in 0 .. BufLen - 1
        BY <1>2, <2>2, <3>4, <4>1
      <4>3. CASE k <= pending
        <5>1. ~(decoded + k - 1 \in decoded + pending .. decoded + pending + m - 1) /\ k \in 1 .. pending
          BY <2>2, <3>4, <4>3, <4>1
        <5> QED
          BY <2>1, <3>2, <4>2, <5>1 DEF first
      <4>4. CASE k > pending
        <5>1. decoded + k - 1 \in decoded + pending .. decoded + pending + m - 1
          BY <2>2, <3>4, <4>4, <4>1
        <5>2. at + 1 + (decoded + k - 1) - (decoded + pending) = first + HEADER_LEN + k
          BY <3>3, <3>4, <4>1 DEF HEADER_LEN
        <5> QED
          BY <2>1, <4>2, <5>1, <5>2
      <4> QED
        BY <3>4, <4>3, <4>4, <4>1
    <3>7. Behind(n)'
      BY <1>2, <1>3, <2>1, <3>1, <3>2, <3>5, <3>6, Zenon DEF Behind, Refused, first
    <3> QED
      BY <3>7
  <2>7. ErrorsExplained' /\ call' \in ReadSizes \cup {0} /\ res' \in Errors \cup {"Ok"}
    BY <1>1, <1>2, <2>1, SMTT(30) DEF Calling, ErrorsExplained, Refused
  <2> QED
    BY <1>2, <2>1, <2>5, <2>6, <2>7, TransportStep
<1> QED
  BY <1>4, <1>5

(* A read that fails, or is dropped, at an await. *)
LEMMA InterruptedStep ==
  ASSUME IInv, Interrupted
  PROVE  IInv' /\ Grows
<1>1. Reading /\ Calling /\ InStep
  BY Parts
<1>2. /\ sent \in Streams /\ pc \in {"header", "body"} /\ Fail("Io") /\ LocalsGone
      /\ fault' = (fault \/ pc = "body" \/ head > 0)
      /\ at' = at /\ buf' = buf /\ decoded' = decoded /\ pending' = pending /\ counter' = counter
      /\ sent' = sent /\ opened' = opened
  BY <1>1 DEF Reading, Interrupted, reader
<1>3. Start' = Start /\ StreamLen' = StreamLen
  BY <1>2, SameStream
<1>4. Reading'
  BY <1>1, <1>2, <1>3, SMTT(30) DEF Reading, Bounds, Fail, LocalsGone, NoHeader, HEADER_LEN
<1>5. InStep'
  <2> SUFFICES ASSUME ~fault' PROVE \E n \in 0 .. Len(sent) : Behind(n)'
    BY <1>2 DEF InStep
  <2>1. ~fault /\ pc = "header" /\ head = 0
    <3>1. ~fault /\ pc # "body" /\ ~(head > 0)
      BY <1>2, Zenon
    <3>2. head \in 0 .. HEADER_LEN
      BY <1>1 DEF Reading
    <3> QED
      BY <1>2, <3>1, <3>2 DEF HEADER_LEN
  <2>2. PICK n \in 0 .. Len(sent) : Behind(n)
    BY <1>1, <2>1 DEF InStep
  <2>3. Behind(n)'
    BY <1>2, <1>3, <2>1, <2>2, SMTT(30) DEF Behind, Refused, Fail, LocalsGone
  <2> QED
    BY <2>3
<1>6. ErrorsExplained' /\ call' \in ReadSizes \cup {0} /\ res' \in Errors \cup {"Ok"}
  BY <1>2 DEF ErrorsExplained, Fail, Errors
<1> QED
  BY <1>2, <1>4, <1>5, <1>6, TransportStep DEF Fail

(* What consume() does, whatever becomes of the record. *)
Consumes ==
  /\ pc = "body" /\ pending >= header.len
  /\ decoded' = decoded + header.len
  /\ pending' = pending - header.len
  /\ LocalsGone
  /\ UNCHANGED <<sent, at, buf, fault>>

LEMMA ConsumesRecord ==
  ASSUME Reading, Consumes, pc' \in {"idle", "header", "panic"}, opened' \in BOOLEAN
  PROVE  Reading'
<1>1. /\ sent \in Streams /\ sent' = sent /\ at' = at /\ buf' = buf /\ fault' = fault
      /\ decoded \in 0 .. BufLen /\ pending \in 0 .. BufLen /\ BufLen \in Nat /\ header.len \in Nat
      /\ decoded + header.len <= BufLen /\ decoded + pending <= BufLen /\ pending >= header.len
      /\ decoded' = decoded + header.len /\ pending' = pending - header.len
  <2>1. header \in [type : {"ApplicationData", "Plaintext", "None"}, len : Nat]
    BY DEF Reading
  <2> QED
    BY <2>1, ReaderAssumption, SMTT(30) DEF Reading, Bounds, Consumes
<1>2. decoded' \in 0 .. BufLen /\ pending' \in 0 .. BufLen /\ decoded' + pending' <= BufLen
  BY <1>1
<1>3. head' = 0 /\ header' = NoHeader /\ remain' = 0 /\ StreamLen' = StreamLen
  BY <1>1, SameStream DEF Consumes, LocalsGone
<1>4. Bounds'
  BY <1>2, <1>3 DEF Bounds, HEADER_LEN
<1>5. /\ header' \in [type : {"ApplicationData", "Plaintext", "None"}, len : Nat]
      /\ head' \in 0 .. HEADER_LEN /\ remain' \in Nat
  BY <1>3 DEF NoHeader, HEADER_LEN
<1>6. at' \in 0 .. StreamLen' /\ buf' \in [0 .. BufLen - 1 -> 0 .. StreamLen'] /\ fault' \in BOOLEAN
  BY <1>1, <1>3, SMTT(30) DEF Reading
<1> QED
  BY <1>1, <1>2, <1>4, <1>5, <1>6, Zenon DEF Reading

(* In step with the server, the record is complete exactly at its end. *)
LEMMA ConsumesInStep ==
  ASSUME Reading, Consumes, pc' \in {"idle", "header"},
         NEW n \in 0 .. Len(sent), Behind(n),
         opened' /\ (\A i \in 1 .. n + 1 : ~Refused(sent[i])) => counter' = n + 1
  PROVE  InStep'
<1>1. /\ sent \in Streams /\ sent' = sent /\ at' = at /\ head' = 0
      /\ pending \in Nat /\ remain \in Nat /\ pending >= header.len /\ pending' = pending - header.len
      /\ n < Len(sent) /\ header = [type |-> "ApplicationData", len |-> ContentLength(sent[n + 1])]
      /\ at = Start[n + 1] + HEADER_LEN + pending /\ pending + remain = header.len
  BY SMTT(30) DEF Reading, Consumes, LocalsGone, Behind
<1>2. n + 1 \in 1 .. Len(sent) /\ n + 1 \in 0 .. Len(sent) /\ n \in Nat
  <2>1. Len(sent) \in Nat /\ n < Len(sent)
    BY <1>1, SentRecords
  <2> QED BY <2>1
<1>3. header.len = ContentLength(sent[n + 1]) /\ header.len \in Nat
  <2>1. ContentLength(sent[n + 1]) \in Nat
    BY <1>1, <1>2, SentRecords, Zenon
  <2> DEFINE c == ContentLength(sent[n + 1])
  <2>2. header = [type |-> "ApplicationData", len |-> c] /\ c \in Nat
    BY <1>1, <2>1, Zenon
  <2> HIDE DEF c
  <2>3. header.len = c /\ header.len \in Nat
    BY <2>2
  <2> QED BY <2>3 DEF c
<1>4. pending = header.len /\ pending' = 0
  BY <1>1, <1>3
<1>5. Start[(n + 1) + 1] = Start[n + 1] + HEADER_LEN + ContentLength(sent[n + 1]) /\ Start[(n + 1) + 1] \in Nat
  BY <1>1, <1>2, StartStep, StartNat, SMTT(30)
<1>6. Start' = Start /\ at' = Start[(n + 1) + 1] + head'
  BY <1>1, <1>3, <1>4, <1>5, SameStream, SMTT(30)
<1>7. Behind(n + 1)'
  BY <1>1, <1>4, <1>6, Zenon DEF Behind, Refused
<1> QED
  BY <1>1, <1>2, <1>7 DEF InStep

(* In step, the record opens unless an earlier one was refused. *)
LEMMA AuthenticInStep ==
  ASSUME IInv, Consumes, NEW n \in 0 .. Len(sent), Behind(n), \A i \in 1 .. n : ~Refused(sent[i])
  PROVE  n + 1 \in Authentic(header.len) /\ counter = n
<1>1. /\ sent \in Streams /\ opened /\ counter = n
      /\ pending \in Nat /\ remain \in Nat /\ pending >= header.len
      /\ n < Len(sent) /\ header = [type |-> "ApplicationData", len |-> ContentLength(sent[n + 1])]
      /\ pending + remain = header.len
      /\ \A k \in 1 .. pending : buf[decoded + k - 1] = Start[n + 1] + HEADER_LEN + k
  BY Parts, SMTT(30) DEF Reading, Calling, Lent, Consumes, Behind
<1>2. n + 1 \in 1 .. Len(sent) /\ header.len = ContentLength(sent[n + 1]) /\ header.len \in Nat
  <2>1. Len(sent) \in Nat /\ n < Len(sent)
    BY <1>1, SentRecords
  <2>2. n + 1 \in 1 .. Len(sent)
    BY <2>1
  <2> QED BY <1>1, <2>2, SentRecords
<1>3. pending = header.len
  BY <1>1, <1>2
<1> QED
  BY <1>1, <1>2, <1>3, SMTT(30) DEF Authentic

(* A record that is not one of the server's, or not the next one. *)
LEMMA CryptoErrorStep ==
  ASSUME IInv, Consumes, Authentic(header.len) = {}, Fail("CryptoError"), UNCHANGED <<counter, opened>>
  PROVE  IInv' /\ Grows
<1>1. Reading /\ Calling /\ InStep /\ pc = "body" /\ sent' = sent /\ fault' = fault
  BY Parts DEF Consumes
<1>2. pc' = "idle" /\ call' = 0 /\ res' = "CryptoError" /\ UNCHANGED <<dec, rb, taken>>
  BY DEF Fail
<1>3. Reading'
  BY <1>1, <1>2, ConsumesRecord, SMTT(30) DEF Reading
<1>4. ASSUME ~fault
      PROVE  InStep' /\ \E i \in 1 .. Len(sent) : Refused(sent[i])
  <2>1. PICK n \in 0 .. Len(sent) : Behind(n)
    BY <1>1, <1>4 DEF InStep
  <2>2. PICK i \in 1 .. n : Refused(sent[i])
    BY <2>1, AuthenticInStep
  <2>3. i \in 1 .. n + 1 /\ i \in 1 .. Len(sent)
    <3>1. Len(sent) \in Nat
      BY <1>1, SentRecords DEF Reading
    <3> QED BY <3>1
  <2>4. InStep'
    BY <1>1, <1>2, <2>1, <2>2, <2>3, ConsumesInStep
  <2> QED
    BY <2>2, <2>3, <2>4
<1>5. InStep' /\ ErrorsExplained'
  BY <1>1, <1>4 DEF InStep, ErrorsExplained, Refused
<1> QED
  BY <1>1, <1>2, <1>3, <1>5, TransportStep DEF Errors

(* Bytes that look like an unencrypted record: the reader is out of step. *)
LEMMA PlaintextStep ==
  ASSUME IInv, Consumes, header.type = "Plaintext", HandlePlaintext, UNCHANGED counter
  PROVE  IInv' /\ Grows
<1>1. /\ Kept(buf, dec, taken, counter) /\ Reading /\ Calling /\ InStep
      /\ pc = "body" /\ sent' = sent /\ fault' = fault /\ buf' = buf
  BY Parts DEF Consumes
<1>2. opened /\ is_empty(dec) /\ rb = NoBuffer /\ ~rb.held /\ Len(taken) \in Nat
  BY <1>1, LeftNat DEF Calling, Lent
<1>3. fault
  <2> SUFFICES ASSUME ~fault PROVE FALSE
    BY <1>1 DEF Reading
  <2>1. PICK n \in 0 .. Len(sent) : Behind(n)
    BY <1>1 DEF InStep
  <2> QED
    BY <1>1, <2>1 DEF Behind
<1>4. /\ pc' \in {"idle", "header", "panic"} /\ opened' \in BOOLEAN
      /\ dec' = dec /\ rb' = rb /\ taken' = taken
      /\ call' \in ReadSizes \cup {0} /\ res' \in Errors \cup {"Ok"}
      /\ pc' = "header" => opened'
  BY <1>1, <1>2, Zenon DEF HandlePlaintext, NextRecord, Fail, Errors, Calling
<1>5. Reading'
  BY <1>1, <1>4, ConsumesRecord
<1>6. InStep' /\ ErrorsExplained' /\ ClosedAtEnd'
  BY <1>1, <1>3 DEF InStep, ErrorsExplained, ClosedAtEnd
<1>7. Lent'
  BY <1>1, <1>2, <1>4 DEF Calling, Lent, is_empty, Left
<1>8. Calling'
  BY <1>1, <1>4, <1>6, <1>7 DEF Calling
<1> QED
  BY <1>1, <1>2, <1>4, <1>5, <1>6, <1>8, PartsNext DEF Grows

(* DecryptedReadHandler and decrypt_record, for the next record of the server. *)
LEMMA HandleStep ==
  ASSUME IInv, Consumes, NEW i \in Authentic(header.len), Handle(sent[i])
  PROVE  IInv' /\ Grows
<1>1. /\ Kept(buf, dec, taken, counter) /\ Reading /\ Calling /\ InStep
      /\ pc = "body" /\ sent' = sent /\ fault' = fault /\ buf' = buf
  BY Parts DEF Consumes
<1>2. /\ sent \in Streams /\ opened /\ is_empty(dec) /\ rb = NoBuffer /\ ~rb.held
      /\ Left(dec) = 0 /\ Len(taken) \in Nat /\ call \in ReadSizes \cup {0} /\ res \in Errors \cup {"Ok"}
  BY <1>1, LeftNat, SMTT(30) DEF Reading, Calling, Lent, is_empty
<1>3. /\ i \in 1 .. Len(sent) /\ i = counter + 1 /\ header.len = ContentLength(sent[i])
      /\ \A k \in 1 .. header.len : buf[decoded + k - 1] = Start[i] + HEADER_LEN + k
  BY DEF Authentic
<1>4. /\ counter \in Nat /\ i - 1 = counter /\ counter + 1 \in 0 .. Len(sent)
      /\ sent[i].kind \in Kinds /\ sent[i].len \in Nat /\ sent[i].len < header.len /\ header.len \in Nat
  BY <1>1, <1>2, <1>3, SentRecords, SMTT(30) DEF Kept
<1>5. Len(taken) = Len(StreamUpTo[counter]) /\ Len(StreamUpTo[counter]) \in Nat
  BY <1>1, <1>2, <1>3, <1>4, StreamOfRecord, SMTT(30) DEF Kept
<1>6. /\ Len(StreamUpTo[counter + 1]) = Len(taken) + IF sent[i].kind = "app" THEN sent[i].len ELSE 0
      /\ sent[i].kind = "app" =>
           \A k \in 1 .. sent[i].len :
             Len(taken) + k <= Len(Stream) /\ Stream[Len(taken) + k] = Start[i] + HEADER_LEN + k
  <2>1. Len(StreamUpTo[i - 1]) = Len(taken) /\ counter + 1 = i
    BY <1>3, <1>4, <1>5, SMTT(30)
  <2>2. /\ Len(StreamUpTo[i]) = Len(StreamUpTo[i - 1]) + IF sent[i].kind = "app" THEN sent[i].len ELSE 0
        /\ sent[i].kind = "app" =>
             \A k \in 1 .. sent[i].len :
               /\ Len(StreamUpTo[i - 1]) + k <= Len(Stream)
               /\ Stream[Len(StreamUpTo[i - 1]) + k] = Start[i] + HEADER_LEN + k
    BY <1>2, <1>3, StreamOfRecord, Zenon
  <2> QED
    BY <2>1, <2>2, Zenon
<1>7. ASSUME pc' \in {"idle", "header"},
             \/ counter' = counter + 1 /\ ~Refused(sent[i])
             \/ ~opened'
             \/ counter' = counter /\ Refused(sent[i])
      PROVE  InStep'
  <2> SUFFICES ASSUME ~fault PROVE InStep'
    BY <1>1 DEF InStep, Reading
  <2>1. PICK n \in 0 .. Len(sent) : Behind(n)
    BY <1>1 DEF InStep
  <2>2. ASSUME opened', \A j \in 1 .. n + 1 : ~Refused(sent[j])
        PROVE  counter' = n + 1
    <3>1. \A j \in 1 .. n : j \in 1 .. n + 1
      BY <1>2, SentRecords, SMTT(30)
    <3>2. \A j \in 1 .. n : ~Refused(sent[j])
      BY <2>2, <3>1
    <3>3. counter = n
      BY <2>1, <3>2, AuthenticInStep
    <3>4. i = n + 1 /\ i \in 1 .. n + 1
      BY <1>3, <3>3, SentRecords, SMTT(30)
    <3> QED
      BY <1>7, <2>2, <3>3, <3>4
  <2> QED
    BY <1>1, <1>7, <2>1, <2>2, ConsumesInStep
<1>8. ASSUME Kept(buf, dec', taken', counter'), Len(taken) <= Len(taken'), pc' \in {"idle", "header"}, opened',
             rb' \in [held : BOOLEAN, consumed : Nat, used : BOOLEAN],
             IF rb'.held THEN pc' = "idle" ELSE rb' = NoBuffer,
             rb'.consumed <= Left(dec'), pc' = "header" => is_empty(dec'),
             call' \in ReadSizes \cup {0}, res' \in {res, "Ok", "InternalError", "Unimplemented"},
             opened' = opened, InStep'
      PROVE  IInv' /\ Grows
  <2>1. Reading'
    BY <1>1, <1>8, ConsumesRecord, SMTT(30) DEF Reading
  <2>2. ErrorsExplained' /\ ClosedAtEnd'
    BY <1>1, <1>8, SMTT(30) DEF Calling, ErrorsExplained, ClosedAtEnd, Refused
  <2>3. Lent'
    BY <1>8, SMTT(30) DEF Lent, Kept, is_empty, Left
  <2>4. Calling'
    BY <1>2, <1>8, <2>2, <2>3 DEF Calling, Errors
  <2> QED
    BY <1>1, <1>2, <1>8, <2>1, <2>4, PartsNext DEF Grows
<1>9. CASE sent[i].kind = "app"
  <2> DEFINE d == [offset |-> decoded, len |-> sent[i].len, consumed |-> 0]
  <2>1. /\ counter' = counter + 1 /\ opened' = opened
        /\ IF is_empty(d) THEN dec' = d /\ NextRecord ELSE Answer(call, buf, d)
    BY <1>9 DEF Handle
  <2>2. Left(d) = sent[i].len /\ d.offset = decoded /\ d.consumed = 0
        /\ d \in [offset : Nat, len : Nat, consumed : Nat] /\ d.consumed <= d.len /\ decoded \in Nat
    BY <1>1, <1>4, SMTT(30) DEF Left, Reading
  <2>3. Kept(buf, d, taken, counter')
    <3> HIDE DEF d
    <3>1. ASSUME NEW k \in 1 .. Left(d)
          PROVE  /\ Len(taken) + k <= Len(Stream)
                 /\ buf[d.offset + d.consumed + k - 1] = Stream[Len(taken) + k]
      <4>1. k \in 1 .. header.len /\ k \in 1 .. sent[i].len /\ d.offset + d.consumed + k - 1 = decoded + k - 1
        BY <1>4, <2>2, SMTT(30)
      <4> QED
        BY <1>3, <1>6, <1>9, <4>1, Zenon
    <3>2. Len(taken) + Left(d) = Len(StreamUpTo[counter'])
      BY <1>6, <1>9, <2>1, <2>2, Zenon
    <3> QED
      BY <1>1, <1>4, <2>1, <2>2, <3>1, <3>2, Zenon DEF Kept
  <2> HIDE DEF d
  <2>4. ~Refused(sent[i])
    BY <1>9, SMTT(30) DEF Refused
  <2>5. CASE is_empty(d)
    <3>1. dec' = d /\ pc' = "header" /\ rb' = rb /\ taken' = taken /\ call' = call /\ res' = res
      BY <2>1, <2>5 DEF NextRecord
    <3>2. /\ rb' = NoBuffer /\ ~rb'.held /\ rb'.consumed = 0 /\ Left(dec') = 0 /\ is_empty(dec')
          /\ rb' \in [held : BOOLEAN, consumed : Nat, used : BOOLEAN]
      BY <1>2, <2>5, <3>1, SMTT(30) DEF NoBuffer, is_empty
    <3>3. InStep'
      BY <1>7, <2>1, <2>4, <3>1
    <3> QED
      BY <1>2, <1>8, <2>1, <2>3, <3>1, <3>2, <3>3
  <2>6. CASE ~is_empty(d)
    <3>1. /\ Kept(buf, dec', taken', counter')
          /\ Len(taken) <= Len(taken')
          /\ pc' = "idle" /\ call' = 0 /\ res' = "Ok"
          /\ rb' \in [held : BOOLEAN, consumed : Nat, used : BOOLEAN]
          /\ rb'.held \/ rb' = NoBuffer
          /\ rb'.consumed <= Left(dec')
      BY <1>2, <2>1, <2>3, <2>6, Answered, SMTT(30)
    <3>2. InStep'
      BY <1>7, <2>1, <2>4, <3>1
    <3> QED
      BY <1>2, <1>8, <2>1, <3>1, <3>2, SMTT(30)
  <2> QED
    BY <2>5, <2>6
<1>10. CASE sent[i].kind = "ticket"
  <2>1. /\ counter' = counter + 1 /\ opened' = opened /\ dec' = dec
        /\ pc' = "header" /\ rb' = rb /\ taken' = taken /\ call' = call /\ res' = res
    BY <1>10 DEF Handle, NextRecord
  <2>2. Len(StreamUpTo[counter + 1]) = Len(StreamUpTo[counter])
    BY <1>5, <1>6, <1>10
  <2>3. Kept(buf, dec', taken', counter')
    BY <1>1, <1>4, <2>1, <2>2, SMTT(30) DEF Kept
  <2>4. InStep'
    BY <1>7, <1>10, <2>1, SMTT(30) DEF Refused
  <2>5. /\ rb' = NoBuffer /\ ~rb'.held /\ rb'.consumed = 0 /\ Left(dec') = 0 /\ is_empty(dec')
        /\ rb' \in [held : BOOLEAN, consumed : Nat, used : BOOLEAN]
    BY <1>2, <2>1 DEF NoBuffer, is_empty
  <2> QED
    BY <1>2, <1>8, <2>1, <2>3, <2>4, <2>5, SMTT(30)
<1>11. CASE sent[i].kind = "close_notify"
  <2>1. /\ opened' = FALSE /\ counter' = counter /\ dec' = dec /\ rb' = rb /\ taken' = taken
        /\ pc' = "idle" /\ call' = 0 /\ res' = "ConnectionClosed"
    BY <1>11 DEF Handle, Fail
  <2>2. taken = Stream
    <3>1. counter + 1 = Len(sent)
      BY <1>2, <1>3, <1>11, SentRecords, SMTT(30)
    <3>2. Stream = StreamUpTo[counter + 1] /\ Len(Stream) = Len(taken)
      BY <1>6, <1>5, <1>11, <3>1, SMTT(30) DEF Stream
    <3>3. taken \in Seq(1 .. StreamLen) /\ Stream \in Seq(1 .. StreamLen) /\ \A k \in 1 .. Len(taken) : taken[k] = Stream[k]
      BY <1>1, <1>2, StreamType, Zenon DEF Kept
    <3> QED
      BY <3>2, <3>3, SameSequence
  <2>3. Reading' /\ InStep'
    BY <1>1, <1>7, <2>1, ConsumesRecord, Zenon
  <2>4. Stream' = Stream
    BY <1>1, SameStream
  <2>5. Lent' /\ ClosedAtEnd' /\ ErrorsExplained'
    BY <1>1, <1>2, <2>1, <2>2, <2>4, SMTT(30) DEF Calling, Lent, ClosedAtEnd, ErrorsExplained, is_empty, Left
  <2>6. Calling'
    BY <1>1, <2>1, <2>5 DEF Calling, Errors
  <2> QED
    BY <1>1, <1>2, <2>1, <2>3, <2>6, PartsNext, SMTT(30) DEF Grows
<1>12. CASE sent[i].kind \in {"alert", "key_update"}
  <2>1. /\ opened' = opened /\ counter' = counter /\ dec' = dec /\ rb' = rb /\ taken' = taken
        /\ pc' = "idle" /\ call' = 0 /\ res' \in {"InternalError", "Unimplemented"}
    BY <1>12 DEF Handle, Fail
  <2>2. InStep'
    BY <1>7, <1>12, <2>1, SMTT(30) DEF Refused
  <2>3. /\ rb' = NoBuffer /\ ~rb'.held /\ rb'.consumed = 0 /\ Left(dec') = 0 /\ is_empty(dec')
        /\ rb' \in [held : BOOLEAN, consumed : Nat, used : BOOLEAN]
    BY <1>2, <2>1, SMTT(30) DEF NoBuffer, is_empty
  <2> QED
    BY <1>1, <1>2, <1>8, <2>1, <2>2, <2>3, SMTT(30)
<1> QED
  BY <1>4, <1>9, <1>10, <1>11, <1>12 DEF Kinds

(* A complete record. *)
LEMMA RecordCompleteStep ==
  ASSUME IInv, RecordComplete
  PROVE  IInv' /\ Grows
<1>1. Consumes
  BY DEF RecordComplete, Consumes
<1>2. CASE header.type = "Plaintext"
  BY <1>1, <1>2, PlaintextStep DEF RecordComplete
<1>3. CASE header.type # "Plaintext" /\ Authentic(header.len) = {}
  BY <1>1, <1>3, CryptoErrorStep DEF RecordComplete
<1>4. CASE header.type # "Plaintext" /\ Authentic(header.len) # {}
  BY <1>1, <1>4, HandleStep DEF RecordComplete
<1> QED
  BY <1>2, <1>3, <1>4

(* Every step keeps the inductive invariant. *)
LEMMA NextInv == IInv /\ [Next]_vars => IInv' /\ Grows
<1> SUFFICES ASSUME IInv, [Next]_vars
             PROVE  IInv' /\ Grows
  OBVIOUS
<1>1. CASE HeaderRead
  BY <1>1, HeaderReadStep
<1>2. CASE BodyRead
  BY <1>2, BodyReadStep
<1>3. CASE RecordComplete
  BY <1>3, RecordCompleteStep
<1>4. CASE Read \/ ReadBuffered
  BY <1>4, ReadCallStep DEF Read, ReadBuffered
<1>5. CASE Consume
  BY <1>5, ConsumeStep
<1>6. CASE Pop \/ Peek \/ Revert \/ Drop
  BY <1>6, ReadBufferStep
<1>7. CASE Interrupted
  BY <1>7, InterruptedStep
<1>8. CASE Finished \/ UNCHANGED vars
  <2>1. UNCHANGED vars
    BY <1>8 DEF Finished
  <2>2. UNCHANGED <<sent, at, buf, decoded, pending, head, header, remain, counter, opened, dec, rb, taken,
                    pc, call, fault, res>>
    BY <2>1 DEF vars
  <2>3. Kept(buf, dec, taken, counter) /\ Reading /\ Calling /\ InStep /\ Len(taken) \in Nat
    BY Parts, LeftNat
  <2>4. Start' = Start /\ StreamLen' = StreamLen /\ Stream' = Stream
    BY <2>2, SameStream
  <2>5. Reading'
    BY <2>2, <2>3, <2>4, SMTT(30) DEF Reading, Bounds
  <2>6. Calling'
    BY <2>2, <2>3, <2>4, SMTT(30) DEF Calling, Lent, ErrorsExplained, ClosedAtEnd, is_empty, Left, Refused
  <2>7. InStep'
    BY <2>2, <2>3, <2>4, SMTT(30) DEF InStep, Behind, Refused
  <2> QED
    BY <2>2, <2>3, <2>5, <2>6, <2>7, PartsNext DEF Grows
<1> QED
  BY <1>1, <1>2, <1>3, <1>4, <1>5, <1>6, <1>7, <1>8 DEF Next, Transport, Application

-----------------------------------------------------------------------------
(* The theorems. *)

(* The inductive invariant: the buffer's bounds, the place of the reader in the
   stream, and what the application has of the records counted so far. *)
THEOREM ReaderInvariant == Spec => []IInv
BY InitInv, NextInv, PTL DEF Spec

(* The fields of the receiving half keep their types, for every buffer length,
   stream and slice length, whatever is interrupted where. *)
THEOREM ReaderTypes == Spec => []TypeOK
<1>1. IInv => TypeOK
  BY DEF IInv
<1> QED
  BY <1>1, ReaderInvariant, PTL

(* ensure_contiguous and advance() never overwrite plaintext that waits for the
   application: it lies where DecryptedBufferInfo says, in stream order. *)
THEOREM UnreadStaysIntact == Spec => []UnreadIntact
<1>1. IInv => UnreadIntact
  BY DEF IInv
<1> QED
  BY <1>1, ReaderInvariant, PTL

(* The slice of advance() is out of range only after a read was interrupted
   inside a record. *)
THEOREM NoPanicInStep == Spec => []PanicOnlyAfterFault
<1>1. IInv => PanicOnlyAfterFault
  BY SMTT(30) DEF IInv, InStep, Behind, PanicOnlyAfterFault
<1> QED
  BY <1>1, ReaderInvariant, PTL

(* InvalidRecord, InsufficientSpace and CryptoError have a cause: an interrupted
   read, a record that cannot fit, or an earlier record that was refused. *)
THEOREM ReadErrorsExplained == Spec => []ErrorsExplained
<1>1. IInv => ErrorsExplained
  BY DEF IInv
<1> QED
  BY <1>1, ReaderInvariant, PTL

(* Between calls the record counter, and so the nonce, is that of the record the
   transport is at. *)
THEOREM ReadCounterInSync == Spec => []CounterInSync
<1>1. IInv => CounterInSync
  <2> SUFFICES ASSUME IInv, pc = "idle", ~fault, opened
               PROVE  \E n \in 0 .. Len(sent) :
                        /\ at = Start[n + 1] /\ pending = 0
                        /\ (\A i \in 1 .. n : ~Refused(sent[i])) => counter = n
    BY DEF CounterInSync
  <2>1. PICK n \in 0 .. Len(sent) : Behind(n)
    BY DEF IInv, InStep
  <2>2. head = 0 /\ at = Start[n + 1] + head /\ pending = 0
        /\ ((\A i \in 1 .. n : ~Refused(sent[i])) => counter = n)
    BY <2>1, SMTT(30) DEF IInv, Bounds, Behind
  <2>3. Start[n + 1] \in Nat
    <3>1. sent \in Streams
      BY SMTT(30) DEF IInv, TypeOK
    <3>2. n + 1 \in 1 .. Len(sent) + 1
      BY <3>1, SentRecords, SMTT(30)
    <3> QED
      BY <3>1, <3>2, StartNat
  <2>4. at = Start[n + 1]
    BY <2>2, <2>3
  <2> QED
    BY <2>2, <2>4
<1> QED
  BY <1>1, ReaderInvariant, PTL

(* A step of the reader hands the application the next bytes of the stream, sees
   the peer's close at the stream's end, or is none for ByteStream. *)
LEMMA StepIsPlain == IInv /\ IInv' /\ Grows => [Plain!Next]_(Plain!vars)
<1> SUFFICES ASSUME IInv, IInv', Grows
             PROVE  Plain!Next \/ UNCHANGED Plain!vars
  OBVIOUS
<1> DEFINE closed == ~opened /\ ~fault
<1>1. /\ sent' = sent /\ sent \in Streams /\ Stream' = Stream
      /\ opened \in BOOLEAN /\ opened' \in BOOLEAN /\ fault \in BOOLEAN /\ fault' \in BOOLEAN
  BY SameStream, SMTT(30) DEF Grows, IInv, TypeOK
<1>2. /\ Stream \in Seq(1 .. StreamLen)
      /\ taken \in Seq(1 .. StreamLen) /\ taken' \in Seq(1 .. StreamLen)
      /\ \A k \in 1 .. Len(taken) : taken[k] = Stream[k]
      /\ \A k \in 1 .. Len(taken') : taken'[k] = Stream[k]
      /\ Len(taken) <= Len(taken')
  BY <1>1, StreamType, SameStream, Zenon DEF IInv, TypeOK, Consumed, Grows
<1>3. Len(taken') <= Len(Stream)
  <2>1. counter' \in Nat /\ counter' <= Len(sent) /\ Len(taken') + Left(dec)' = Len(StreamUpTo[counter'])
    BY <1>1, SameStream, SMTT(30) DEF IInv, Consumed, TypeOK
  <2>2. Left(dec)' \in Nat
    <3>1. dec' \in [offset : Nat, len : Nat, consumed : Nat] /\ dec'.consumed <= dec'.len
      BY SMTT(30) DEF IInv, TypeOK, Lent
    <3> QED
      BY <3>1 DEF Left
  <2>3. Len(StreamUpTo[counter']) <= Len(Stream) /\ Len(StreamUpTo[counter']) \in Nat
    BY <1>1, <2>1, SentRecords, StreamPrefix, StreamType, SMTT(30)
  <2>4. Len(taken') \in Nat /\ Len(Stream) \in Nat
    BY <1>2
  <2> QED
    BY <2>1, <2>2, <2>3, <2>4
<1>4. CASE closed
  <2>1. closed' /\ taken = Stream /\ taken' = Stream
    BY <1>1, <1>4, SMTT(30) DEF IInv, ClosedAtEnd, Grows
  <2> QED
    BY <1>1, <1>4, <2>1 DEF Plain!vars
<1>5. CASE ~closed /\ closed'
  <2>1. taken' = Stream
    BY <1>1, <1>5 DEF IInv, ClosedAtEnd
  <2>2. opened' # opened \/ fault' # fault
    BY <1>5
  <2>3. taken' = taken
    BY <1>1, <1>5, <2>2 DEF Grows
  <2> QED
    BY <1>1, <1>5, <2>1, <2>3 DEF Plain!Next, Plain!Close
<1>6. CASE ~closed /\ ~closed'
  <2>1. CASE Len(taken') > Len(taken)
    <3>1. Len(taken') \in Len(taken) + 1 .. Len(Stream)
      BY <1>2, <1>3, <2>1, SMTT(30)
    <3>2. taken' = SubSeq(Stream, 1, Len(taken'))
      BY <1>2, <1>3
    <3> QED
      BY <1>1, <1>6, <3>1, <3>2, Zenon DEF Plain!Next, Plain!Take
  <2>2. CASE ~(Len(taken') > Len(taken))
    <3>1. Len(taken') = Len(taken)
      BY <1>2, <2>2
    <3>2. \A k \in 1 .. Len(taken) : taken[k] = taken'[k]
      BY <1>2, <3>1
    <3>3. taken' = taken
      BY <1>2, <3>1, <3>2, SameSequence, SMTT(30)
    <3> QED
      BY <1>1, <1>6, <3>3 DEF Plain!vars
  <2> QED
    BY <2>1, <2>2
<1> QED
  BY <1>4, <1>5, <1>6

(* The receiving half implements ByteStream: the application gets the server's
   bytes in order, each once, and a close only at their end, for every stream and
   every way of reading it, whatever is interrupted where. *)
THEOREM StreamDelivered == Spec => DeliversStream
<1>1. Init => Plain!Init
  BY SMTT(30) DEF Init, Plain!Init
<1>2. IInv /\ [Next]_vars => [Plain!Next]_(Plain!vars)
  BY NextInv, StepIsPlain
<1> QED
  BY <1>1, <1>2, ReaderInvariant, PTL DEF Spec, DeliversStream, Plain!Spec
=============================================================================
