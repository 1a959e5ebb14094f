---------------------------- MODULE CyclicProofs ---------------------------
(***************************************************************************)
(* Proofs about Cyclic, for every set of messages, values and identifiers: *)
(* what segment_collect() and a listener do with a value of any length,    *)
(* type correctness, and that the messages of a device implement Broadcast *)
(* when one frame is lost at most.                                         *)
(***************************************************************************)
EXTENDS Cyclic, SequenceTheorems, TLAPS

Byte == 0 .. 255

-----------------------------------------------------------------------------
(* Segmentation *)

LEMMA FunctionIsSeq ==
  ASSUME NEW S, NEW n \in Nat, NEW f \in [1 .. n -> S]
  PROVE  f \in Seq(S) /\ Len(f) = n
OBVIOUS

LEMMA Slice ==
  ASSUME NEW S, NEW s \in Seq(S), NEW i \in Nat \ {0}, NEW j \in Nat,
         i <= j + 1, j <= Len(s)
  PROVE  /\ SubSeq(s, i, j) \in Seq(S)
         /\ Len(SubSeq(s, i, j)) = j - i + 1
         /\ \A k \in 1 .. j - i + 1 : SubSeq(s, i, j)[k] = s[i - 1 + k]
<1>1. \A k \in i .. j : s[k] \in S
  BY ElementOfSeq
<1>2. /\ SubSeq(s, i, j) \in Seq(S)
      /\ Len(SubSeq(s, i, j)) = IF i <= j THEN j - i + 1 ELSE 0
      /\ \A k \in 1 .. j - i + 1 : SubSeq(s, i, j)[k] = s[i + k - 1]
  BY <1>1, SubSeqProperties
<1>3. \A k \in Int : i + k - 1 = i - 1 + k
  OBVIOUS
<1>4. QED
  BY <1>2, <1>3

\* The sequence byte of every frame there can be: the counter wraps after the
\* fifteenth.
LEMMA SeqByteIs == \A k \in 1 .. 37 : SeqByte[k] = 32 + (k % 16)
<1> DEFINE P(f) == f = [k \in 1 .. 37 |-> IF k = 1 THEN SeqFirst ELSE NextSeq(f[k - 1])]
           UpTo(n) == \A k \in 1 .. n : SeqByte[k] = 32 + (k % 16)
<1>1. SeqByte = CHOOSE f : P(f)
  BY DEF SeqByte
<1>2. P([k \in 1 .. 37 |-> 32 + (k % 16)])
  BY DEF NextSeq, SeqFirst, SeqMax, SeqMin
<1>3. P(SeqByte)
  <2> HIDE DEF P
  <2> QED
    BY <1>1, <1>2
<1>4. SeqByte[1] = 33 /\ \A k \in 1 .. 36 : SeqByte[k + 1] = NextSeq(SeqByte[k])
  BY <1>3 DEF SeqFirst
<1>5. \A k \in 1 .. 36 : SeqByte[k] \in Nat =>
        SeqByte[k + 1] = IF SeqByte[k] + 1 > 47 THEN 32 ELSE SeqByte[k] + 1
  BY <1>4 DEF NextSeq, SeqMax, SeqMin
<1> HIDE DEF P
<1>6. ASSUME NEW n \in 1 .. 36, UpTo(n) PROVE UpTo(n + 1)
  <2>1. SeqByte[n] = 32 + (n % 16)
    BY <1>6
  <2>2. SeqByte[n] \in Nat /\ SeqByte[n] + 1 > 47 <=> n % 16 = 15
    BY <2>1
  <2>3. (n + 1) % 16 = IF n % 16 = 15 THEN 0 ELSE (n % 16) + 1
    OBVIOUS
  <2>4. SeqByte[n + 1] = IF n % 16 = 15 THEN 32 ELSE SeqByte[n] + 1
    BY <1>5, <2>1, <2>2
  <2>5. SeqByte[n + 1] = 32 + ((n + 1) % 16)
    BY <2>1, <2>3, <2>4
  <2>6. QED
    BY <1>6, <2>5
<1>7. UpTo(1)
  BY <1>4
<1> HIDE DEF UpTo
<1>8. UpTo(10)
  BY <1>6, <1>7
<1>9. UpTo(20)
  BY <1>6, <1>8
<1>10. UpTo(30)
  BY <1>6, <1>9
<1>11. UpTo(37)
  BY <1>6, <1>10
<1>12. QED
  BY <1>11 DEF UpTo

LEMMA PadIs ==
  ASSUME NEW b \in Seq(Byte), Len(b) <= 8
  PROVE  /\ Pad(b) \in Frame
         /\ \A i \in 1 .. Len(b) : Pad(b)[i] = b[i]
<1> DEFINE n == Len(b)
<1>1. n \in Nat /\ n <= 8 /\ \A i \in 1 .. n : b[i] \in Byte
  BY LenProperties, ElementOfSeq
<1>2. Pad(b) = [i \in 1 .. 8 |-> IF i <= n THEN b[i] ELSE PadByte] /\ PadByte \in Byte
  BY DEF Pad, FrameLen, PadByte, Byte
<1>3. Frame = [1 .. 8 -> Byte]
  BY DEF Frame, FrameLen, Byte
<1> HIDE DEF n
<1>4. Pad(b) \in Frame /\ \A i \in 1 .. n : Pad(b)[i] = b[i]
  BY <1>1, <1>2, <1>3
<1>5. QED
  BY <1>4 DEF n

\* How much of a value the first frame has room for.
InFirst(p) == IF Len(p) <= 15 THEN 4 ELSE IF Len(p) \in Escapes THEN 2 ELSE 3

Header(d, p) == <<SeqFirst, d % 256, (d \div 256) % 256>> \o LengthCode(Len(p))

\* The value that segment_collect() is given, and its frames.
Sent(d, p) == d \in Identifier /\ p \in Seq(Byte) /\ Sendable(p)

LEMMA SentParts ==
  ASSUME NEW d, NEW p, Sent(d, p)
  PROVE  d \in Identifier /\ p \in Seq(Byte) /\ Len(p) \in 1 .. 255
BY DEF Sent, Sendable

\* Quotient and remainder by 256.
LEMMA ByteOf ==
  ASSUME NEW d \in Int
  PROVE  /\ d \div 256 \in Int /\ d % 256 \in Int
         /\ 256 * (d \div 256) + (d % 256) = d
         /\ 0 <= d % 256 /\ d % 256 < 256
OBVIOUS

\* The two bytes of an identifier, and what makes one of them again.
LEMMA TwoBytes ==
  ASSUME NEW d \in Identifier
  PROVE  /\ d % 256 \in Byte /\ (d \div 256) % 256 \in Byte
         /\ (d % 256) + 256 * ((d \div 256) % 256) = d
<1> DEFINE q == d \div 256
           r == d % 256
<1>1. /\ q \in Int /\ r \in Int /\ 256 * q + r = d /\ 0 <= r /\ r < 256
      /\ 0 <= d /\ d < 65536 /\ d \in Int
  BY ByteOf DEF Identifier
<1> HIDE DEF q, r
<1>2. 0 <= q /\ q <= 255
  BY <1>1
<1>3. q % 256 = q
  BY <1>1, <1>2
<1>4. q \in Byte /\ r \in Byte
  BY <1>1, <1>2 DEF Byte
<1>5. (d \div 256) % 256 = q /\ d % 256 = r
  BY <1>3 DEF q, r
<1>6. QED
  BY <1>1, <1>4, <1>5

\* The three ways to tell a length.
LEMMA LengthCodeIs ==
  ASSUME NEW n \in 1 .. 255
  PROVE  /\ n <= 15 => LengthCode(n) = <<176 + n>>
         /\ n > 15 /\ n \in Escapes => LengthCode(n) = <<176, 193, n>>
         /\ n > 15 /\ n \notin Escapes => LengthCode(n) = <<176, n>>
BY DEF LengthCode, ShortMax, LenBase, Escape

LEMMA HeaderIs ==
  ASSUME NEW d, NEW p, Sent(d, p), NEW h, h = Header(d, p)
  PROVE  /\ h \in Seq(Byte) /\ Len(h) = 8 - InFirst(p)
         /\ h[1] = 33 /\ h[2] = d % 256 /\ h[3] = (d \div 256) % 256
         /\ Len(p) <= 15 => h[4] = 176 + Len(p)
         /\ Len(p) > 15 => h[4] = 176
         /\ Len(p) > 15 /\ Len(p) \in Escapes => h[5] = 193 /\ h[6] = Len(p)
         /\ Len(p) > 15 /\ Len(p) \notin Escapes => h[5] = Len(p)
<1> DEFINE s == <<33, d % 256, (d \div 256) % 256>>
           n == Len(p)
           c == LengthCode(n)
<1>1. n \in 1 .. 255 /\ d \in Identifier
  BY SentParts
<1>2. s \in Seq(Byte) /\ Len(s) = 3 /\ s[1] = 33 /\ s[2] = d % 256
      /\ s[3] = (d \div 256) % 256
  <2>1. d % 256 \in Byte /\ (d \div 256) % 256 \in Byte /\ 33 \in Byte
    BY <1>1, TwoBytes DEF Byte
  <2>2. QED
    BY <2>1
<1> HIDE DEF s
<1>3. /\ c \in Seq(Byte) /\ Len(c) = 5 - InFirst(p)
      /\ n <= 15 => c[1] = 176 + n
      /\ n > 15 => c[1] = 176
      /\ n > 15 /\ n \in Escapes => c[2] = 193 /\ c[3] = n
      /\ n > 15 /\ n \notin Escapes => c[2] = n
  <2> HIDE DEF n, c
  <2>0. n \in Byte /\ 176 \in Byte /\ 193 \in Byte
    BY <1>1 DEF Byte
  <2>1. CASE n <= 15
    <3>0. 176 + n \in Byte
      BY <1>1, <2>1 DEF Byte
    <3>1. c = <<176 + n>>
      BY <1>1, <2>1, LengthCodeIs DEF c
    <3>2. c \in Seq(Byte) /\ Len(c) = 1 /\ c[1] = 176 + n
      BY <3>0, <3>1
    <3>3. InFirst(p) = 4
      BY <2>1 DEF InFirst, n
    <3>4. QED
      BY <1>1, <2>1, <3>2, <3>3
  <2>2. CASE n > 15 /\ n \in Escapes
    <3>1. c = <<176, 193, n>>
      BY <1>1, <2>2, LengthCodeIs DEF c
    <3>2. c \in Seq(Byte) /\ Len(c) = 3 /\ c[1] = 176 /\ c[2] = 193 /\ c[3] = n
      BY <2>0, <3>1
    <3>3. InFirst(p) = 2
      BY <1>1, <2>2 DEF InFirst, n
    <3>4. QED
      BY <1>1, <2>2, <3>2, <3>3
  <2>3. CASE n > 15 /\ n \notin Escapes
    <3>1. c = <<176, n>>
      BY <1>1, <2>3, LengthCodeIs DEF c
    <3>2. c \in Seq(Byte) /\ Len(c) = 2 /\ c[1] = 176 /\ c[2] = n
      BY <2>0, <3>1
    <3>3. InFirst(p) = 3
      BY <1>1, <2>3 DEF InFirst, n
    <3>4. QED
      BY <1>1, <2>3, <3>2, <3>3
  <2>4. QED
    BY <1>1, <2>1, <2>2, <2>3
<1>4. h = s \o c
  BY DEF Header, SeqFirst, s
<1>5. InFirst(p) \in {2, 3, 4} /\ (n > 15 => InFirst(p) < 4)
      /\ (n > 15 /\ n \in Escapes => InFirst(p) < 3)
  BY DEF InFirst
<1> HIDE DEF c, n
<1>6. c \in Seq(Byte) /\ Len(c) = 5 - InFirst(p) /\ Len(c) \in Nat
  BY <1>3, <1>5
<1>7. /\ h \in Seq(Byte) /\ Len(h) = Len(s) + Len(c)
      /\ \A i \in 1 .. Len(s) + Len(c) : h[i] = IF i <= Len(s) THEN s[i] ELSE c[i - Len(s)]
  <2>1. s \in Seq(Byte)
    BY <1>2
  <2>2. QED
    BY <1>4, <1>6, <2>1, ConcatProperties
<1>8. /\ Len(h) = 8 - InFirst(p)
      /\ h[1] = s[1] /\ h[2] = s[2] /\ h[3] = s[3]
  BY <1>2, <1>5, <1>6, <1>7
<1>9. /\ h[4] = c[1]
      /\ InFirst(p) < 4 => h[5] = c[2]
      /\ InFirst(p) < 3 => h[6] = c[3]
  <2>1. 4 \in 1 .. Len(s) + Len(c) /\ 4 - Len(s) = 1
    BY <1>2, <1>5, <1>6
  <2>2. InFirst(p) < 4 => 5 \in 1 .. Len(s) + Len(c) /\ 5 - Len(s) = 2
    BY <1>2, <1>5, <1>6
  <2>3. InFirst(p) < 3 => 6 \in 1 .. Len(s) + Len(c) /\ 6 - Len(s) = 3
    BY <1>2, <1>5, <1>6
  <2>4. QED
    BY <1>2, <1>7, <2>1, <2>2, <2>3
<1>10. /\ n <= 15 => h[4] = 176 + n
       /\ n > 15 => h[4] = 176
       /\ n > 15 /\ n \in Escapes => h[5] = 193 /\ h[6] = n
       /\ n > 15 /\ n \notin Escapes => h[5] = n
  BY <1>3, <1>5, <1>9
<1>11. QED
  BY <1>2, <1>7, <1>8, <1>10 DEF n

\* The parts of segment_collect().
Rest(p) == SubSeq(p, InFirst(p) + 1, Len(p))

Opening(p) == SubSeq(p, 1, IF InFirst(p) < Len(p) THEN InFirst(p) ELSE Len(p))

Chunk(p, k) ==
  SubSeq(Rest(p), 7 * k - 6, IF 7 * k < Len(Rest(p)) THEN 7 * k ELSE Len(Rest(p)))

Count(p) == 1 + (Len(Rest(p)) + 6) \div 7

LEMMA InFirstIs ==
  ASSUME NEW d, NEW p, Sent(d, p)
  PROVE  /\ InFirst(p) \in {2, 3, 4} /\ Len(p) \in Nat /\ p \in Seq(Byte)
         /\ Len(p) >= 1 /\ Len(p) - InFirst(p) <= 252
<1> DEFINE n == Len(p)
           f == InFirst(p)
<1>1. n \in 1 .. 255 /\ p \in Seq(Byte)
  BY SentParts
<1>2. f = IF n <= 15 THEN 4 ELSE IF n \in Escapes THEN 2 ELSE 3
  BY DEF InFirst
<1> HIDE DEF n, f
<1>3. n \in Nat /\ n >= 1 /\ n <= 255
  BY <1>1
<1>4. n \in Escapes => n <= 193
  BY DEF Escapes
<1>5. f \in {2, 3, 4} /\ n - f <= 252
  BY <1>2, <1>3, <1>4
<1>6. QED
  BY <1>1, <1>3, <1>5 DEF n, f

LEMMA CollectIs ==
  ASSUME NEW d, NEW p, Sent(d, p)
  PROVE  SegmentCollect(d, p) =
           [k \in 1 .. Count(p) |->
              IF k = 1 THEN Pad(Header(d, p) \o Opening(p))
              ELSE Pad(<<SeqByte[k]>> \o Chunk(p, k - 1))]
<1>1. Len(Header(d, p)) = 8 - InFirst(p) /\ InFirst(p) \in {2, 3, 4}
  BY HeaderIs, InFirstIs
<1>2. FrameLen - Len(Header(d, p)) = InFirst(p)
  BY <1>1 DEF FrameLen
<1> DEFINE G(f) ==
             LET rest == SubSeq(p, f + 1, Len(p))
                 chunk(k) == SubSeq(rest, 7 * k - 6, IF 7 * k < Len(rest)
                                                     THEN 7 * k ELSE Len(rest))
             IN [k \in 1 .. 1 + (Len(rest) + 6) \div 7 |->
                   IF k = 1
                   THEN Pad(Header(d, p) \o SubSeq(p, 1, IF f < Len(p) THEN f ELSE Len(p)))
                   ELSE Pad(<<SeqByte[k]>> \o chunk(k - 1))]
<1>3. SegmentCollect(d, p) = G(FrameLen - Len(Header(d, p)))
  BY DEF SegmentCollect, Header
<1>4. SegmentCollect(d, p) = G(InFirst(p))
  <2> HIDE DEF G
  <2> QED
    BY <1>2, <1>3
<1>5. QED
  BY <1>4 DEF Rest, Opening, Chunk, Count

LEMMA RestIs ==
  ASSUME NEW d, NEW p, Sent(d, p)
  PROVE  /\ Rest(p) \in Seq(Byte)
         /\ Len(Rest(p)) = IF InFirst(p) < Len(p) THEN Len(p) - InFirst(p) ELSE 0
         /\ \A i \in 1 .. Len(Rest(p)) : Rest(p)[i] = p[InFirst(p) + i]
<1> DEFINE f == InFirst(p)
           n == Len(p)
<1>1. f \in Nat /\ n \in Nat /\ p \in Seq(Byte)
  BY InFirstIs
<1> HIDE DEF f, n
<1>2. \A i \in f + 1 .. n : p[i] \in Byte
  BY <1>1, ElementOfSeq DEF n
<1>3. /\ Rest(p) \in Seq(Byte)
      /\ Len(Rest(p)) = IF f + 1 <= n THEN n - (f + 1) + 1 ELSE 0
      /\ \A i \in 1 .. n - (f + 1) + 1 : Rest(p)[i] = p[f + 1 + i - 1]
  BY <1>1, <1>2, SubSeqProperties DEF Rest, f, n
<1>4. Len(Rest(p)) = IF f < n THEN n - f ELSE 0
  BY <1>1, <1>3
<1>5. ASSUME NEW i \in 1 .. Len(Rest(p)) PROVE Rest(p)[i] = p[f + i]
  <2>1. i \in 1 .. n - (f + 1) + 1 /\ f + 1 + i - 1 = f + i
    BY <1>1, <1>4
  <2>2. QED
    BY <1>3, <2>1
<1>6. QED
  BY <1>3, <1>4, <1>5 DEF f, n

\* As many continuation frames as the rest needs, and no more.
LEMMA CountIs ==
  ASSUME NEW d, NEW p, Sent(d, p)
  PROVE  /\ Count(p) \in 1 .. 37
         /\ InFirst(p) + 7 * (Count(p) - 1) >= Len(p)
         /\ 7 * (Count(p) - 1) >= Len(Rest(p))
         /\ Count(p) > 1 => InFirst(p) + 7 * (Count(p) - 2) < Len(p)
         /\ Count(p) > 1 => 7 * (Count(p) - 2) < Len(Rest(p))
<1> DEFINE r == Len(Rest(p))
           q == (r + 6) \div 7
<1>1. /\ r = (IF InFirst(p) < Len(p) THEN Len(p) - InFirst(p) ELSE 0)
      /\ r \in Nat /\ r <= 252 /\ InFirst(p) \in {2, 3, 4} /\ Len(p) \in Nat
  BY RestIs, InFirstIs
<1> HIDE DEF r
<1>2. q \in Int /\ 7 * q <= r + 6 /\ r + 6 < 7 * q + 7
  BY <1>1
<1> HIDE DEF q
<1>3. 0 <= q /\ q <= 36 /\ 7 * q >= r /\ (q > 0 => 7 * (q - 1) < r)
  BY <1>1, <1>2
<1>4. Count(p) = 1 + q
  BY DEF Count, q, r
<1>5. QED
  BY <1>1, <1>2, <1>3, <1>4 DEF r

LEMMA ChunkIs ==
  ASSUME NEW d, NEW p, Sent(d, p), NEW k \in Nat \ {0}, 7 * (k - 1) < Len(Rest(p))
  PROVE  /\ Chunk(p, k) \in Seq(Byte)
         /\ Len(Chunk(p, k)) =
              (IF 7 * k < Len(Rest(p)) THEN 7 ELSE Len(Rest(p)) - 7 * (k - 1))
         /\ \A j \in 1 .. Len(Chunk(p, k)) :
              Chunk(p, k)[j] = p[InFirst(p) + 7 * (k - 1) + j]
<1> DEFINE s == Rest(p)
           n == Len(s)
           e == IF 7 * k < n THEN 7 * k ELSE n
<1>1. s \in Seq(Byte) /\ n \in Nat /\ \A i \in 1 .. n : s[i] = p[InFirst(p) + i]
  BY RestIs, LenProperties
<1>2. Chunk(p, k) = SubSeq(s, 7 * k - 6, e) /\ InFirst(p) \in Int
  BY InFirstIs DEF Chunk
<1>3. 7 * (k - 1) < n
  OBVIOUS
<1> HIDE DEF s
<1>4. 7 * k - 6 \in Nat \ {0} /\ e \in Nat /\ 7 * k - 6 <= e + 1 /\ e <= n
      /\ e - (7 * k - 6) + 1 = IF 7 * k < n THEN 7 ELSE n - 7 * (k - 1)
  <2> HIDE DEF n
  <2>1. CASE 7 * k < n
    <3>1. e = 7 * k
      BY <2>1
    <3>2. QED
      BY <1>1, <1>3, <2>1, <3>1
  <2>2. CASE ~(7 * k < n)
    <3>1. e = n
      BY <2>2
    <3>2. QED
      BY <1>1, <1>3, <2>2, <3>1
  <2>3. QED
    BY <2>1, <2>2
<1> HIDE DEF e
<1>5. /\ SubSeq(s, 7 * k - 6, e) \in Seq(Byte)
      /\ Len(SubSeq(s, 7 * k - 6, e)) = e - (7 * k - 6) + 1
      /\ \A j \in 1 .. e - (7 * k - 6) + 1 :
           SubSeq(s, 7 * k - 6, e)[j] = s[7 * k - 6 - 1 + j]
  BY <1>1, <1>4, Slice
<1>6. ASSUME NEW j \in 1 .. e - (7 * k - 6) + 1
      PROVE  s[7 * k - 6 - 1 + j] = p[InFirst(p) + 7 * (k - 1) + j]
  <2> DEFINE i == 7 * k - 6 - 1 + j
  <2>1. i \in 1 .. n /\ InFirst(p) + i = InFirst(p) + 7 * (k - 1) + j
    BY <1>1, <1>2, <1>4
  <2>2. QED
    BY <1>1, <2>1
<1>7. QED
  BY <1>2, <1>4, <1>5, <1>6 DEF s

LEMMA OpeningIs ==
  ASSUME NEW d, NEW p, Sent(d, p)
  PROVE  /\ Opening(p) \in Seq(Byte)
         /\ Len(Opening(p)) = (IF InFirst(p) < Len(p) THEN InFirst(p) ELSE Len(p))
         /\ \A i \in 1 .. Len(Opening(p)) : Opening(p)[i] = p[i]
<1> DEFINE e == IF InFirst(p) < Len(p) THEN InFirst(p) ELSE Len(p)
<1>1. p \in Seq(Byte) /\ e \in Nat /\ e >= 1 /\ e <= Len(p)
  BY InFirstIs
<1>2. Opening(p) = SubSeq(p, 1, e)
  BY DEF Opening
<1> HIDE DEF e
<1>3. /\ SubSeq(p, 1, e) \in Seq(Byte) /\ Len(SubSeq(p, 1, e)) = e - 1 + 1
      /\ \A i \in 1 .. e - 1 + 1 : SubSeq(p, 1, e)[i] = p[1 - 1 + i]
  BY <1>1, Slice
<1>4. e - 1 + 1 = e /\ \A i \in 1 .. e : 1 - 1 + i = i
  BY <1>1
<1>5. QED
  BY <1>2, <1>3, <1>4 DEF e

\* Two sequences of bytes that fit a frame, put one after the other.
LEMMA PairPadded ==
  ASSUME NEW s \in Seq(Byte), NEW u \in Seq(Byte), Len(s) + Len(u) <= 8
  PROVE  /\ Pad(s \o u) \in Frame
         /\ \A i \in 1 .. Len(s) : Pad(s \o u)[i] = s[i]
         /\ \A i \in 1 .. Len(u) : Pad(s \o u)[Len(s) + i] = u[i]
<1> DEFINE w == s \o u
           m == Len(s)
           n == Len(u)
<1>1. m \in Nat /\ n \in Nat /\ m + n <= 8
  BY LenProperties
<1>2. /\ w \in Seq(Byte) /\ Len(w) = m + n
      /\ \A i \in 1 .. m + n : w[i] = IF i <= m THEN s[i] ELSE u[i - m]
  BY ConcatProperties
<1> HIDE DEF w, m, n
<1>3. Pad(w) \in Frame /\ \A i \in 1 .. m + n : Pad(w)[i] = w[i]
  BY <1>1, <1>2, PadIs
<1>4. ASSUME NEW i \in 1 .. m PROVE Pad(w)[i] = s[i]
  BY <1>1, <1>2, <1>3
<1>5. ASSUME NEW i \in 1 .. n PROVE Pad(w)[m + i] = u[i]
  <2> DEFINE x == m + i
  <2>1. x \in 1 .. m + n /\ ~(x <= m) /\ x - m = i
    BY <1>1
  <2> HIDE DEF x
  <2>2. w[x] = u[x - m] /\ Pad(w)[x] = w[x]
    BY <1>2, <1>3, <2>1
  <2>3. QED
    BY <2>1, <2>2 DEF x
<1>6. QED
  BY <1>3, <1>4, <1>5 DEF w, m, n

LEMMA FirstFrameIs ==
  ASSUME NEW d, NEW p, Sent(d, p), NEW b, b = Pad(Header(d, p) \o Opening(p))
  PROVE  /\ b \in Frame /\ b[1] = 33 /\ b[2] + 256 * b[3] = d
         /\ Announced(b) = [len |-> Len(p), at |-> 9 - InFirst(p)]
         /\ \A i \in 1 .. InFirst(p) : i <= Len(p) => b[8 - InFirst(p) + i] = p[i]
<1> DEFINE h == Header(d, p)
           o == Opening(p)
           n == Len(p)
           f == InFirst(p)
<1>1. /\ h \in Seq(Byte) /\ Len(h) = 8 - f
      /\ h[1] = 33 /\ h[2] = d % 256 /\ h[3] = (d \div 256) % 256
      /\ n <= 15 => h[4] = 176 + n
      /\ n > 15 => h[4] = 176
      /\ n > 15 /\ n \in Escapes => h[5] = 193 /\ h[6] = n
      /\ n > 15 /\ n \notin Escapes => h[5] = n
  BY HeaderIs
<1>2. /\ o \in Seq(Byte) /\ Len(o) = (IF f < n THEN f ELSE n)
      /\ \A i \in 1 .. Len(o) : o[i] = p[i]
  BY OpeningIs
<1>3. f \in {2, 3, 4} /\ n \in Nat /\ n >= 1
  BY InFirstIs
<1>4. f = IF n <= 15 THEN 4 ELSE IF n \in Escapes THEN 2 ELSE 3
  BY DEF InFirst
<1> HIDE DEF h, o, n, f
<1>5. h \in Seq(Byte) /\ o \in Seq(Byte) /\ Len(h) + Len(o) <= 8
  BY <1>1, <1>2, <1>3
<1>6. /\ b \in Frame
      /\ \A i \in 1 .. Len(h) : b[i] = h[i]
      /\ \A i \in 1 .. Len(o) : b[Len(h) + i] = o[i]
  <2>1. b = Pad(h \o o)
    BY DEF h, o
  <2>2. QED
    BY <1>5, <2>1, PairPadded
<1>7. /\ b[1] = h[1] /\ b[2] = h[2] /\ b[3] = h[3] /\ b[4] = h[4]
      /\ f < 4 => b[5] = h[5]
      /\ f < 3 => b[6] = h[6]
  <2>1. /\ {1, 2, 3, 4} \subseteq 1 .. Len(h) /\ (f < 4 => 5 \in 1 .. Len(h))
        /\ f < 3 => 6 \in 1 .. Len(h)
    BY <1>1, <1>3
  <2>2. QED
    BY <1>6, <2>1
<1>8. b[2] + 256 * b[3] = d
  <2>1. d \in Identifier
    BY SentParts
  <2>2. QED
    BY <1>1, <1>7, <2>1, TwoBytes
<1>9. Announced(b) = [len |-> n, at |-> 9 - f]
  <2>1. CASE n <= 15
    <3>1. b[4] = 176 + n /\ f = 4
      BY <1>1, <1>4, <1>7, <2>1
    <3>2. b[4] % 16 = n /\ n > 0
      BY <1>3, <2>1, <3>1
    <3>3. QED
      BY <3>1, <3>2 DEF Announced
  <2>2. CASE n > 15 /\ n \in Escapes
    <3>1. b[4] = 176 /\ b[5] = 193 /\ b[6] = n /\ f = 2
      BY <1>1, <1>3, <1>4, <1>7, <2>2
    <3>2. ~(b[4] % 16 > 0)
      BY <3>1
    <3>3. QED
      BY <3>1, <3>2 DEF Announced, Escape
  <2>3. CASE n > 15 /\ n \notin Escapes
    <3>1. b[4] = 176 /\ b[5] = n /\ f = 3
      BY <1>1, <1>3, <1>4, <1>7, <2>3
    <3>2. ~(b[4] % 16 > 0) /\ n # 193
      BY <2>3, <3>1 DEF Escapes
    <3>3. QED
      BY <3>1, <3>2 DEF Announced, Escape
  <2>4. QED
    BY <1>3, <2>1, <2>2, <2>3
<1>10. ASSUME NEW i \in 1 .. f, i <= n PROVE b[8 - f + i] = p[i]
  <2>1. i \in 1 .. Len(o)
    BY <1>2, <1>3, <1>10
  <2>2. QED
    BY <1>1, <1>2, <1>6, <2>1
<1>11. QED
  BY <1>1, <1>6, <1>7, <1>8, <1>9, <1>10 DEF n, f

LEMMA NextFrameIs ==
  ASSUME NEW d, NEW p, Sent(d, p), NEW k \in 2 .. Count(p),
         NEW b, b = Pad(<<SeqByte[k]>> \o Chunk(p, k - 1))
  PROVE  /\ b \in Frame /\ b[1] = 32 + (k % 16)
         /\ \A j \in 1 .. 7 : InFirst(p) + 7 * (k - 2) + j <= Len(p) =>
              b[1 + j] = p[InFirst(p) + 7 * (k - 2) + j]
<1> DEFINE s == <<SeqByte[k]>>
           u == Chunk(p, k - 1)
           r == Len(Rest(p))
           c == Count(p)
           f == InFirst(p)
           n == Len(p)
<1>1. c \in 1 .. 37 /\ (c > 1 => 7 * (c - 2) < r)
  BY CountIs
<1>2. r \in Nat /\ r = (IF f < n THEN n - f ELSE 0) /\ f \in Nat /\ n \in Nat
  BY RestIs, InFirstIs, LenProperties
<1>3. k \in 2 .. c
  OBVIOUS
<1>4. ASSUME 7 * (k - 1 - 1) < r
      PROVE  /\ u \in Seq(Byte)
             /\ Len(u) = (IF 7 * (k - 1) < r THEN 7 ELSE r - 7 * (k - 1 - 1))
             /\ \A j \in 1 .. Len(u) : u[j] = p[f + 7 * (k - 1 - 1) + j]
  <2>1. k - 1 \in Nat \ {0}
    BY <1>1, <1>3
  <2>2. QED
    BY <1>4, <2>1, ChunkIs
<1> HIDE DEF u, r, c, f, n
<1>5. 7 * (k - 2) < r /\ k \in 1 .. 37 /\ k - 1 - 1 = k - 2
  BY <1>1, <1>2, <1>3
<1>6. s \in Seq(Byte) /\ Len(s) = 1 /\ s[1] = 32 + (k % 16)
  <2>1. SeqByte[k] = 32 + (k % 16)
    BY <1>5, SeqByteIs
  <2>2. k % 16 \in 0 .. 15
    BY <1>5
  <2>3. SeqByte[k] \in Byte
    BY <2>1, <2>2 DEF Byte
  <2>4. QED
    BY <2>1, <2>3
<1>7. /\ u \in Seq(Byte) /\ Len(u) = (IF 7 * (k - 1) < r THEN 7 ELSE r - 7 * (k - 2))
      /\ \A j \in 1 .. Len(u) : u[j] = p[f + 7 * (k - 2) + j]
  BY <1>4, <1>5
<1> HIDE DEF s
<1>8. Len(s) + Len(u) <= 8 /\ Len(u) \in Nat
  <2>1. r - 7 * (k - 2) \in Nat /\ (~(7 * (k - 1) < r) => r - 7 * (k - 2) <= 7)
    BY <1>2, <1>5
  <2>2. Len(u) \in Nat /\ Len(u) <= 7
    BY <1>7, <2>1
  <2>3. QED
    BY <1>6, <2>2
<1>9. /\ b \in Frame /\ \A i \in 1 .. Len(s) : b[i] = s[i]
      /\ \A j \in 1 .. Len(u) : b[Len(s) + j] = u[j]
  <2>1. b = Pad(s \o u) /\ s \in Seq(Byte) /\ u \in Seq(Byte)
    BY <1>6, <1>7 DEF s, u
  <2> HIDE DEF s
  <2>2. Len(s) + Len(u) <= 8
    BY <1>8
  <2>3. s \in Seq(Byte) /\ u \in Seq(Byte)
    BY <2>1
  <2>4. /\ Pad(s \o u) \in Frame /\ \A i \in 1 .. Len(s) : Pad(s \o u)[i] = s[i]
        /\ \A j \in 1 .. Len(u) : Pad(s \o u)[Len(s) + j] = u[j]
    BY <2>2, <2>3, PairPadded
  <2>5. QED
    BY <2>1, <2>4, Zenon
<1>10. ASSUME NEW j \in 1 .. 7, f + 7 * (k - 2) + j <= n
       PROVE  b[1 + j] = p[f + 7 * (k - 2) + j]
  <2>1. j \in 1 .. Len(u)
    BY <1>2, <1>5, <1>7, <1>10
  <2>2. QED
    BY <1>6, <1>7, <1>9, <2>1
<1>11. QED
  BY <1>6, <1>9, <1>10 DEF f, n

\* What a listener relies on in the frames of value p for identifier d.
Segmented(fs, d, p) ==
  /\ fs \in Seq(Frame) /\ Len(fs) \in 1 .. 37
  /\ InFirst(p) + 7 * (Len(fs) - 1) >= Len(p)
  /\ Len(fs) > 1 => InFirst(p) + 7 * (Len(fs) - 2) < Len(p)
  /\ fs[1][2] + 256 * fs[1][3] = d
  /\ Announced(fs[1]) = [len |-> Len(p), at |-> 9 - InFirst(p)]
  /\ \A k \in 1 .. Len(fs) : fs[k][1] = 32 + (k % 16)
  /\ \A i \in 1 .. InFirst(p) : i <= Len(p) => fs[1][8 - InFirst(p) + i] = p[i]
  /\ \A k \in 2 .. Len(fs), j \in 1 .. 7 :
       InFirst(p) + 7 * (k - 2) + j <= Len(p) =>
         fs[k][1 + j] = p[InFirst(p) + 7 * (k - 2) + j]

\* What segment_collect() makes of every value it accepts (collect.py:94-161).
LEMMA CollectSegments ==
  ASSUME NEW d, NEW p, Sent(d, p), NEW fs, fs = SegmentCollect(d, p)
  PROVE  Segmented(fs, d, p)
<1> DEFINE c == Count(p)
           first == Pad(Header(d, p) \o Opening(p))
           next(k) == Pad(<<SeqByte[k]>> \o Chunk(p, k - 1))
<1>1. fs = [k \in 1 .. c |-> IF k = 1 THEN first ELSE next(k)]
  BY CollectIs
<1>2. /\ c \in 1 .. 37 /\ InFirst(p) + 7 * (c - 1) >= Len(p)
      /\ c > 1 => InFirst(p) + 7 * (c - 2) < Len(p)
  BY CountIs
<1>3. /\ first \in Frame /\ first[1] = 33 /\ first[2] + 256 * first[3] = d
      /\ Announced(first) = [len |-> Len(p), at |-> 9 - InFirst(p)]
      /\ \A i \in 1 .. InFirst(p) : i <= Len(p) => first[8 - InFirst(p) + i] = p[i]
  BY FirstFrameIs
<1>4. ASSUME NEW k \in 2 .. c
      PROVE  /\ next(k) \in Frame /\ next(k)[1] = 32 + (k % 16)
             /\ \A j \in 1 .. 7 : InFirst(p) + 7 * (k - 2) + j <= Len(p) =>
                  next(k)[1 + j] = p[InFirst(p) + 7 * (k - 2) + j]
  BY NextFrameIs
<1> HIDE DEF c, first, next
<1>5. fs[1] = first /\ \A k \in 2 .. c : fs[k] = next(k)
  BY <1>1, <1>2
<1>6. fs \in Seq(Frame) /\ Len(fs) = c
  <2>1. c \in Nat /\ fs \in [1 .. c -> Frame]
    BY <1>1, <1>2, <1>3, <1>4
  <2>2. QED
    BY <2>1, FunctionIsSeq
<1>7. \A k \in 1 .. c : fs[k][1] = 32 + (k % 16)
  <2>1. 1 % 16 = 1
    OBVIOUS
  <2>2. fs[1][1] = 32 + (1 % 16)
    BY <1>3, <1>5, <2>1
  <2>3. \A k \in 2 .. c : fs[k][1] = 32 + (k % 16)
    BY <1>4, <1>5
  <2>4. QED
    BY <1>2, <2>2, <2>3
<1>8. /\ Len(fs) \in 1 .. 37 /\ InFirst(p) + 7 * (Len(fs) - 1) >= Len(p)
      /\ Len(fs) > 1 => InFirst(p) + 7 * (Len(fs) - 2) < Len(p)
      /\ \A k \in 1 .. Len(fs) : fs[k][1] = 32 + (k % 16)
  BY <1>2, <1>6, <1>7
<1>9. /\ fs[1][2] + 256 * fs[1][3] = d
      /\ Announced(fs[1]) = [len |-> Len(p), at |-> 9 - InFirst(p)]
      /\ \A i \in 1 .. InFirst(p) : i <= Len(p) => fs[1][8 - InFirst(p) + i] = p[i]
  BY <1>3, <1>5
<1>10. ASSUME NEW k \in 2 .. Len(fs), NEW j \in 1 .. 7,
              InFirst(p) + 7 * (k - 2) + j <= Len(p)
       PROVE  fs[k][1 + j] = p[InFirst(p) + 7 * (k - 2) + j]
  <2>1. k \in 2 .. c
    BY <1>6
  <2>2. fs[k] = next(k)
    BY <1>5, <2>1
  <2>3. next(k)[1 + j] = p[InFirst(p) + 7 * (k - 2) + j]
    BY <1>4, <1>10, <2>1
  <2>4. QED
    BY <2>2, <2>3
<1>11. fs \in Seq(Frame)
  BY <1>6
<1>12. QED
  BY <1>8, <1>9, <1>10, <1>11, Zenon DEF Segmented

-----------------------------------------------------------------------------
(* A listener *)

Listener == [did : Int, len : Byte, data : Seq(Byte), want : {0} \cup SeqMin .. SeqMax]

\* It has taken in the first g frames of a message.
Follows(l, d, p, g) ==
  /\ l \in Listener /\ l.did = d /\ l.len = Len(p)
  /\ l.want = 32 + ((g + 1) % 16)
  /\ Len(l.data) = InFirst(p) + 7 * (g - 1)
  /\ \A i \in 1 .. Len(l.data) : i <= Len(p) => l.data[i] = p[i]

LEMMA SeqByteType ==
  ASSUME NEW k \in Nat
  PROVE  32 + (k % 16) \in SeqMin .. SeqMax
<1>1. k % 16 \in Nat /\ k % 16 <= 15
  OBVIOUS
<1>2. QED
  BY <1>1 DEF SeqMin, SeqMax

\* A listener that does not wait for a first sequence byte takes a first frame
\* for what it is, whatever it had before.
LEMMA HeedsFirst ==
  ASSUME NEW fs, NEW d, NEW p, Sent(d, p), Segmented(fs, d, p), NEW l, l.want # SeqFirst
  PROVE  Follows(Heeded(l, fs[1]), d, p, 1)
<1> DEFINE b == fs[1]
           f == InFirst(p)
           m == Heeded(l, b)
           data == SubSeq(b, 9 - f, FrameLen)
<1>1. /\ b \in Frame /\ b[1] = 33 /\ b[2] + 256 * b[3] = d
      /\ Announced(b) = [len |-> Len(p), at |-> 9 - f]
      /\ \A i \in 1 .. f : i <= Len(p) => b[8 - f + i] = p[i]
  <2>1. 1 \in 1 .. Len(fs) /\ 1 % 16 = 1
    BY DEF Segmented
  <2>2. QED
    BY <2>1, ElementOfSeq DEF Segmented
<1>2. f \in {2, 3, 4} /\ Len(p) \in Byte /\ d \in Int
  BY InFirstIs, SentParts DEF Byte, Identifier
<1>3. m = [did |-> d, len |-> Len(p), data |-> data, want |-> 34]
  <2> HIDE DEF b, f
  <2>1. b[1] = SeqFirst /\ SeqFirst + 1 = 34 /\ b[1] # l.want
    BY <1>1 DEF SeqFirst
  <2>2. Announced(b).len = Len(p) /\ Announced(b).at = 9 - f
    BY <1>1
  <2>3. m = [did  |-> b[2] + 256 * b[3], len  |-> Announced(b).len,
             data |-> SubSeq(b, Announced(b).at, FrameLen), want |-> SeqFirst + 1]
    BY <2>1, Zenon DEF Heeded
  <2>4. QED
    BY <1>1, <2>1, <2>2, <2>3
<1>4. /\ data \in Seq(Byte) /\ Len(data) = f
      /\ \A i \in 1 .. f : data[i] = b[8 - f + i]
  <2> HIDE DEF b, f
  <2>1. \A i \in 9 - f .. 8 : b[i] \in Byte
    <3>1. b \in [1 .. 8 -> Byte]
      BY <1>1 DEF Frame, FrameLen, Byte
    <3>2. \A i \in 9 - f .. 8 : i \in 1 .. 8
      BY <1>2
    <3>3. QED
      BY <3>1, <3>2
  <2>2. 9 - f \in Int /\ 9 - f <= 8 /\ 8 - (9 - f) + 1 = f /\ data = SubSeq(b, 9 - f, 8)
    BY <1>2 DEF FrameLen
  <2> HIDE DEF data
  <2>3. /\ data \in Seq(Byte) /\ Len(data) = f
        /\ \A i \in 1 .. f : data[i] = b[9 - f + i - 1]
    BY <2>1, <2>2, SubSeqProperties
  <2>4. \A i \in 1 .. f : 9 - f + i - 1 = 8 - f + i
    BY <1>2
  <2>5. QED
    BY <2>3, <2>4
<1> HIDE DEF b, f, m, data
<1>5. m \in Listener
  BY <1>2, <1>3, <1>4 DEF Listener, SeqMin, SeqMax
<1>6. 32 + ((1 + 1) % 16) = 34 /\ f + 7 * (1 - 1) = f
  BY <1>2
<1>7. \A i \in 1 .. Len(data) : i <= Len(p) => data[i] = p[i]
  BY <1>1, <1>4
<1>8. Follows(m, d, p, 1)
  BY <1>3, <1>4, <1>5, <1>6, <1>7 DEF Follows, f
<1>9. QED
  BY <1>8 DEF m, b

LEMMA NotListeningIs ==
  /\ NotListening \in Listener /\ NotListening.want # SeqFirst
  /\ ~Complete(NotListening)
BY DEF NotListening, Listener, Byte, SeqFirst, Complete

LEMMA FollowsIs ==
  ASSUME NEW l, NEW d, NEW p, NEW g \in Nat, Follows(l, d, p, g)
  PROVE  l # NotListening
<1>1. l.want = 32 + ((g + 1) % 16) /\ (g + 1) % 16 >= 0 /\ (g + 1) % 16 \in Int
  BY DEF Follows
<1>2. NotListening.want = 0
  BY DEF NotListening
<1>3. QED
  BY <1>1, <1>2

\* Seven bytes of a frame after those before.
LEMMA TakesIn ==
  ASSUME NEW u \in Seq(Byte), NEW b \in Frame
  PROVE  /\ u \o SubSeq(b, 2, FrameLen) \in Seq(Byte)
         /\ Len(u \o SubSeq(b, 2, FrameLen)) = Len(u) + 7
         /\ \A i \in 1 .. Len(u) : (u \o SubSeq(b, 2, FrameLen))[i] = u[i]
         /\ \A j \in 1 .. 7 : (u \o SubSeq(b, 2, FrameLen))[Len(u) + j] = b[1 + j]
<1> DEFINE s == SubSeq(b, 2, FrameLen)
           w == u \o s
           m == Len(u)
<1>1. /\ s \in Seq(Byte) /\ Len(s) = 7
      /\ \A j \in 1 .. 7 : s[j] = b[2 + j - 1]
  <2>1. b \in [1 .. 8 -> Byte] /\ s = SubSeq(b, 2, 8)
    BY DEF Frame, FrameLen, Byte
  <2>2. \A i \in 2 .. 8 : b[i] \in Byte
    BY <2>1
  <2>3. 8 - 2 + 1 = 7
    OBVIOUS
  <2> HIDE DEF s
  <2>4. QED
    BY <2>1, <2>2, <2>3, SubSeqProperties
<1> HIDE DEF s
<1>2. /\ w \in Seq(Byte) /\ Len(w) = m + 7
      /\ \A i \in 1 .. m + 7 : w[i] = IF i <= m THEN u[i] ELSE s[i - m]
  <2>1. s \in Seq(Byte)
    BY <1>1
  <2>2. /\ w \in Seq(Byte) /\ Len(w) = m + Len(s)
        /\ \A i \in 1 .. m + Len(s) : w[i] = IF i <= m THEN u[i] ELSE s[i - m]
    BY <2>1, ConcatProperties
  <2>3. QED
    BY <1>1, <2>2
<1>3. m \in Nat
  BY LenProperties
<1> HIDE DEF w, m
<1>4. ASSUME NEW i \in 1 .. m PROVE w[i] = u[i]
  BY <1>2, <1>3
<1>5. ASSUME NEW j \in 1 .. 7 PROVE w[m + j] = b[1 + j]
  <2> DEFINE x == m + j
  <2>1. x \in 1 .. m + 7 /\ ~(x <= m) /\ x - m = j /\ 2 + j - 1 = 1 + j
    BY <1>3
  <2> HIDE DEF x
  <2>2. w[x] = s[j]
    BY <1>2, <2>1
  <2>3. QED
    BY <1>1, <2>1, <2>2 DEF x
<1>6. QED
  BY <1>2, <1>4, <1>5 DEF w, m, s

\* A listener that follows a message takes in its next frame.
LEMMA HeedsNext ==
  ASSUME NEW fs, NEW d, NEW p, Sent(d, p), Segmented(fs, d, p), NEW l,
         NEW g \in 1 .. Len(fs) - 1, Follows(l, d, p, g)
  PROVE  Follows(Heeded(l, fs[g + 1]), d, p, g + 1)
<1> DEFINE b == fs[g + 1]
           f == InFirst(p)
           n == Len(p)
           c == Len(fs)
           m == Heeded(l, b)
           u == l.data
           data == u \o SubSeq(b, 2, FrameLen)
<1>1. c \in 1 .. 37 /\ g \in 1 .. c - 1
  BY DEF Segmented
<1>2. b \in Frame
  BY <1>1, ElementOfSeq DEF Segmented
<1>3. /\ b[1] = 32 + ((g + 1) % 16)
      /\ \A j \in 1 .. 7 : f + 7 * (g - 1) + j <= n => b[1 + j] = p[f + 7 * (g - 1) + j]
  <2>1. g + 1 \in 1 .. c /\ g + 1 \in 2 .. c /\ g + 1 - 2 = g - 1
    BY <1>1
  <2>2. \A k \in 2 .. c, j \in 1 .. 7 :
          f + 7 * (k - 2) + j <= n => fs[k][1 + j] = p[f + 7 * (k - 2) + j]
    BY DEF Segmented
  <2>3. \A k \in 1 .. c : fs[k][1] = 32 + (k % 16)
    BY DEF Segmented
  <2> HIDE DEF f, n, c
  <2>4. QED
    BY <2>1, <2>2, <2>3
<1>4. f \in {2, 3, 4} /\ n \in Nat
  BY InFirstIs
<1>5. /\ l \in Listener /\ l.did = d /\ l.len = n /\ l.want = 32 + ((g + 1) % 16)
      /\ Len(u) = f + 7 * (g - 1)
      /\ \A i \in 1 .. Len(u) : i <= n => u[i] = p[i]
  BY DEF Follows
<1>6. g \in Nat
  BY <1>1
<1>7. l # NotListening
  BY <1>6, FollowsIs
<1>8. l = [did |-> d, len |-> n, data |-> u, want |-> l.want]
      /\ u \in Seq(Byte) /\ d \in Int /\ n \in Byte
  BY <1>5 DEF Listener
<1> HIDE DEF b, f, n, c, u
<1>9. m = [l EXCEPT !.data = data, !.want = IF @ = SeqMax THEN SeqMin ELSE @ + 1]
  BY <1>3, <1>5, <1>7 DEF Heeded, u
<1>10. (IF l.want = SeqMax THEN SeqMin ELSE l.want + 1) = 32 + ((g + 1 + 1) % 16)
  <2>1. (g + 1 + 1) % 16 = IF (g + 1) % 16 = 15 THEN 0 ELSE ((g + 1) % 16) + 1
    BY <1>6
  <2>2. (g + 1) % 16 \in Int
    BY <1>6
  <2>3. l.want = SeqMax <=> (g + 1) % 16 = 15
    BY <1>5, <2>2 DEF SeqMax
  <2>4. CASE (g + 1) % 16 = 15
    BY <1>5, <2>1, <2>3, <2>4 DEF SeqMin
  <2>5. CASE (g + 1) % 16 # 15
    BY <1>5, <2>1, <2>2, <2>3, <2>5
  <2>6. QED
    BY <2>4, <2>5
<1>11. m = [did |-> d, len |-> n, data |-> data, want |-> 32 + ((g + 1 + 1) % 16)]
  <2>1. m = [did |-> d, len |-> n, data |-> data,
             want |-> IF l.want = SeqMax THEN SeqMin ELSE l.want + 1]
    <3> DEFINE w == l.want
               x == IF l.want = SeqMax THEN SeqMin ELSE l.want + 1
    <3>1. l = [did |-> d, len |-> n, data |-> u, want |-> w]
          /\ m = [l EXCEPT !.data = data, !.want = x]
      BY <1>8, <1>9
    <3> HIDE DEF data, m, w, x
    <3>2. m = [did |-> d, len |-> n, data |-> data, want |-> x]
      BY <3>1
    <3>3. QED
      BY <3>2 DEF x
  <2>2. QED
    BY <1>10, <2>1, Zenon
<1>12. /\ data \in Seq(Byte) /\ Len(data) = Len(u) + 7
       /\ \A i \in 1 .. Len(u) : data[i] = u[i]
       /\ \A j \in 1 .. 7 : data[Len(u) + j] = b[1 + j]
  BY <1>2, <1>8, TakesIn
<1> HIDE DEF m, data
<1>13. Len(data) = f + 7 * (g + 1 - 1)
  BY <1>4, <1>5, <1>6, <1>12
<1>14. ASSUME NEW i \in 1 .. Len(data), i <= n PROVE data[i] = p[i]
  <2> DEFINE e == Len(u)
  <2>0. e \in Int /\ e = f + 7 * (g - 1) /\ i \in 1 .. e + 7
    BY <1>4, <1>5, <1>6, <1>12
  <2>1. CASE i <= e
    <3>1. i \in 1 .. e
      BY <2>0, <2>1
    <3>2. QED
      BY <1>5, <1>12, <1>14, <3>1
  <2>2. CASE ~(i <= e)
    <3> DEFINE j == i - e
    <3> HIDE DEF e
    <3>1. j \in 1 .. 7 /\ i = e + j /\ i = f + 7 * (g - 1) + j
      BY <1>4, <1>6, <2>0, <2>2
    <3> HIDE DEF j
    <3>2. b[1 + j] = p[i]
      BY <1>3, <1>14, <3>1
    <3>3. QED
      BY <1>12, <3>1, <3>2 DEF e
  <2>3. QED
    BY <2>1, <2>2
<1>15. m \in Listener
  <2>1. 32 + ((g + 1 + 1) % 16) \in SeqMin .. SeqMax
    BY <1>6, SeqByteType
  <2>2. QED
    BY <1>8, <1>11, <1>12, <2>1 DEF Listener
<1>16. Follows(m, d, p, g + 1)
  BY <1>11, <1>13, <1>14, <1>15 DEF Follows, f, n
<1>17. QED
  BY <1>16 DEF m, b

\* The message is complete with its last frame and not before, and is the one
\* that was sent.
LEMMA CompleteAtLast ==
  ASSUME NEW fs, NEW d, NEW p, Sent(d, p), Segmented(fs, d, p), NEW l,
         NEW g \in 1 .. Len(fs), Follows(l, d, p, g)
  PROVE  /\ Complete(l) <=> g = Len(fs)
         /\ g = Len(fs) => MessageOf(l) = <<d, p>>
<1> DEFINE f == InFirst(p)
           n == Len(p)
           c == Len(fs)
           u == l.data
<1>1. /\ c \in 1 .. 37 /\ g \in 1 .. c /\ f + 7 * (c - 1) >= n
      /\ c > 1 => f + 7 * (c - 2) < n
  BY DEF Segmented
<1>2. /\ l.did = d /\ l.len = n /\ Len(u) = f + 7 * (g - 1)
      /\ \A i \in 1 .. Len(u) : i <= n => u[i] = p[i]
      /\ u \in Seq(Byte)
  BY DEF Follows, Listener
<1>3. f \in Nat /\ n \in Nat /\ n >= 1 /\ p \in Seq(Byte)
  BY InFirstIs
<1>4. l # NotListening
  BY <1>1, FollowsIs
<1> HIDE DEF f, n, c, u
<1>5. Complete(l) <=> Len(u) >= n
  BY <1>2, <1>4 DEF Complete, u
<1>6. Len(u) >= n <=> g = c
  BY <1>1, <1>2, <1>3
<1>7. ASSUME g = c PROVE MessageOf(l) = <<d, p>>
  <2>1. Len(u) >= n /\ Len(u) \in Nat
    BY <1>2, <1>6, <1>7, LenProperties
  <2> DEFINE v == SubSeq(u, 1, n)
  <2>2. /\ v \in Seq(Byte) /\ Len(v) = n - 1 + 1 /\ \A k \in 1 .. n - 1 + 1 : v[k] = u[1 - 1 + k]
    BY <1>2, <1>3, <2>1, Slice
  <2>3. n - 1 + 1 = n /\ \A k \in 1 .. n : 1 - 1 + k = k
    BY <1>3
  <2> HIDE DEF v
  <2>4. \A k \in 1 .. n : k \in 1 .. Len(u) /\ k <= n
    BY <1>3, <2>1
  <2>5. Len(v) = Len(p) /\ \A k \in 1 .. Len(p) : v[k] = p[k]
    BY <1>2, <2>2, <2>3, <2>4 DEF n
  <2>6. v = p
    BY <1>3, <2>2, <2>5, SeqEqual
  <2>7. QED
    BY <1>2, <2>6 DEF MessageOf, v, u
<1>8. QED
  BY <1>5, <1>6, <1>7 DEF c

\* A listener that is not with a message of at most sixteen frames, or a frame
\* behind, leaves it with the next one.
LEMMA OutOfStep ==
  ASSUME NEW fs, NEW d, NEW p, Sent(d, p), Segmented(fs, d, p), ~Repeats(fs), NEW l,
         NEW g \in 1 .. Len(fs) - 1,
         l = NotListening \/ (g > 1 /\ Follows(l, d, p, g - 1))
  PROVE  Heeded(l, fs[g + 1]) = NotListening
<1> DEFINE b == fs[g + 1]
           c == Len(fs)
<1>1. c \in 1 .. 37 /\ c <= 16 /\ g \in 1 .. c - 1
  BY DEF Segmented, Repeats
<1>2. b[1] = 32 + ((g + 1) % 16)
  <2>1. g + 1 \in 1 .. c
    BY <1>1
  <2>2. QED
    BY <2>1 DEF Segmented
<1>3. l = NotListening \/ (g > 1 /\ l.want = 32 + (g % 16))
  <2>1. g - 1 + 1 = g
    BY <1>1
  <2>2. QED
    BY <2>1 DEF Follows
<1> HIDE DEF b, c
<1>4. g % 16 = g /\ g \in 1 .. 15 /\ (g + 1) % 16 = IF g = 15 THEN 0 ELSE g + 1
  BY <1>1
<1>5. b[1] # SeqFirst /\ (l # NotListening => b[1] # l.want)
  BY <1>2, <1>3, <1>4 DEF SeqFirst
<1>6. Heeded(l, b) = NotListening
  BY <1>5, Zenon DEF Heeded
<1>7. QED
  BY <1>6 DEF b

-----------------------------------------------------------------------------
(* Messages on their way *)

Dids == {DidOf[m] : m \in Message}

Values ==
  {v \in Loaded \cup Written \cup Times \cup {Fixed[m] : m \in Message} : Sendable(v)}

\* What has been sent and not left the queue entirely, and what is queued.
Said == [did : Dids, value : Values, left : 1 .. 37]

Entry ==
  {e \in [id : {"cyclic", "meter"}, b : Frame] :
     e.id = "cyclic" => e.b[1] \in SeqMin .. SeqMax}

FramesOf(a) == Frames[a.did][a.value]

OnBus(b) == [id |-> "cyclic", b |-> b]

LEMMA ValuesAreSent ==
  ASSUME NEW d \in Dids, NEW v \in Values
  PROVE  Sent(d, v) /\ Segmented(Frames[d][v], d, v)
<1>1. d \in Identifier
  BY CyclicAssumption DEF Dids
<1>2. v \in Seq(Byte)
  <2>1. CASE v \in Times
    <3>1. v \in [1 .. 3 -> Byte]
      BY <2>1, CyclicAssumption DEF Byte
    <3>2. QED
      BY <3>1, FunctionIsSeq
  <2>2. CASE v \notin Times
    <3>1. v \in Loaded \cup Written \cup {Fixed[m] : m \in Message}
      BY <2>2 DEF Values
    <3>2. QED
      BY <3>1, CyclicAssumption DEF Byte
  <2>3. QED
    BY <2>1, <2>2
<1>3. Sent(d, v)
  BY <1>1, <1>2 DEF Sent, Values
<1>4. Frames[d][v] = SegmentCollect(d, v)
  BY Zenon DEF Frames, Dids, Values
<1>5. QED
  BY <1>3, <1>4, CollectSegments

\* The frames of a message, in the queue.
LEMMA FramesAre ==
  ASSUME NEW d \in Dids, NEW v \in Values, NEW fs, fs = Frames[d][v]
  PROVE  /\ Len(fs) \in 1 .. 37 /\ fs \in Seq(Frame)
         /\ \A k \in 1 .. Len(fs) : OnBus(fs[k]) \in Entry
<1>1. Segmented(fs, d, v)
  BY ValuesAreSent
<1>2. /\ Len(fs) \in 1 .. 37 /\ fs \in Seq(Frame)
      /\ \A k \in 1 .. Len(fs) : fs[k][1] = 32 + (k % 16)
  BY <1>1 DEF Segmented
<1>3. ASSUME NEW k \in 1 .. Len(fs) PROVE OnBus(fs[k]) \in Entry
  <2>1. fs[k] \in Frame /\ k \in Nat
    BY <1>2, ElementOfSeq
  <2>2. fs[k][1] \in SeqMin .. SeqMax
    BY <1>2, <2>1, SeqByteType
  <2>3. QED
    BY <2>1, <2>2 DEF OnBus, Entry
<1>4. QED
  BY <1>2, <1>3

\* Where the frames of the messages are in the queue: those of the i-th from
\* at[i] on, without a gap, the last of them last, all of every message but
\* the first, in the order of the messages; and no others.
InQueue(q, a, at) == \A i \in 1 .. Len(a) : at[i] + a[i].left - 1 <= Len(q)

WholeBut1(a) ==
  \A i \in 1 .. Len(a) :
    /\ a[i].left <= Len(FramesOf(a[i]))
    /\ i > 1 => a[i].left = Len(FramesOf(a[i]))

FramesAt(q, a, at) ==
  \A i \in 1 .. Len(a) : \A j \in 1 .. a[i].left :
    q[at[i] + j - 1] = OnBus(FramesOf(a[i])[Len(FramesOf(a[i])) - a[i].left + j])

InOrder(a, at) ==
  \A i, k \in 1 .. Len(a) : i < k => at[i] + a[i].left <= at[k]

NoOthers(q, a, at) ==
  \A x \in 1 .. Len(q) : q[x].id = "cyclic" =>
    \E i \in 1 .. Len(a) : at[i] <= x /\ x < at[i] + a[i].left

Laid(q, a, at) ==
  /\ at \in [1 .. Len(a) -> Nat \ {0}]
  /\ InQueue(q, a, at) /\ WholeBut1(a) /\ FramesAt(q, a, at)
  /\ InOrder(a, at) /\ NoOthers(q, a, at)

LEMMA SaidIs ==
  ASSUME NEW a \in Seq(Said), NEW i \in 1 .. Len(a)
  PROVE  /\ a[i] \in Said /\ a[i].left \in Nat /\ a[i].left >= 1
         /\ a[i].did \in Dids /\ a[i].value \in Values
         /\ Len(FramesOf(a[i])) \in 1 .. 37
<1>1. a[i] \in Said
  BY ElementOfSeq
<1>2. a[i].did \in Dids /\ a[i].value \in Values /\ a[i].left \in 1 .. 37
  BY <1>1 DEF Said
<1>3. Len(FramesOf(a[i])) \in 1 .. 37
  BY <1>2, FramesAre DEF FramesOf
<1>4. a[i].left \in Nat /\ a[i].left >= 1
  <2> DEFINE e == a[i].left
  <2>1. e \in 1 .. 37
    BY <1>2
  <2> HIDE DEF e
  <2>2. e \in Nat /\ e >= 1
    BY <2>1
  <2>3. QED
    BY <2>2 DEF e
<1>5. QED
  BY <1>1, <1>2, <1>3, <1>4, Zenon

\* Frames are put after what is queued, and a message after those under way.
Put(q, fs, r) ==
  /\ r \in Seq(Entry) /\ Len(r) = Len(q) + Len(fs)
  /\ \A i \in 1 .. Len(q) : r[i] = q[i]
  /\ \A j \in 1 .. Len(fs) : r[Len(q) + j] = OnBus(fs[j])

Added(a, x, c) ==
  /\ c \in Seq(Said) /\ Len(c) = Len(a) + 1 /\ c[Len(a) + 1] = x
  /\ \A i \in 1 .. Len(a) : c[i] = a[i]

LEMMA PutIs ==
  ASSUME NEW q \in Seq(Entry), NEW d \in Dids, NEW v \in Values
  PROVE  Put(q, Frames[d][v],
             q \o [k \in DOMAIN Frames[d][v] |-> OnBus(Frames[d][v][k])])
<1> DEFINE fs == Frames[d][v]
           n == Len(q)
           z == Len(fs)
           s == [k \in DOMAIN fs |-> OnBus(fs[k])]
           r == q \o s
<1>1. n \in Nat /\ z \in 1 .. 37 /\ DOMAIN fs = 1 .. z
  BY FramesAre, LenProperties
<1>2. s \in [1 .. z -> Entry] /\ \A j \in 1 .. z : s[j] = OnBus(fs[j])
  BY <1>1, FramesAre
<1> HIDE DEF fs, s
<1>3. s \in Seq(Entry) /\ Len(s) = z
  <2> HIDE DEF z
  <2>1. z \in Nat
    BY <1>1
  <2>2. QED
    BY <1>2, <2>1, FunctionIsSeq
<1>4. /\ r \in Seq(Entry) /\ Len(r) = n + Len(s)
      /\ \A i \in 1 .. n + Len(s) : r[i] = IF i <= n THEN q[i] ELSE s[i - n]
  <2>1. s \in Seq(Entry)
    BY <1>3
  <2>2. QED
    BY <2>1, ConcatProperties
<1> HIDE DEF n, z, r
<1>5. z \in Nat
  BY <1>1
<1>6. ASSUME NEW i \in 1 .. n PROVE r[i] = q[i]
  BY <1>1, <1>3, <1>4, <1>5
<1>7. ASSUME NEW j \in 1 .. z PROVE r[n + j] = OnBus(fs[j])
  <2> DEFINE y == n + j
  <2>1. y \in 1 .. n + z /\ ~(y <= n) /\ y - n = j
    BY <1>1, <1>5
  <2> HIDE DEF y
  <2>2. r[y] = s[j]
    BY <1>3, <1>4, <2>1
  <2>3. QED
    BY <1>2, <2>2 DEF y
<1>8. r \in Seq(Entry) /\ Len(r) = n + z
  BY <1>3, <1>4
<1>9. Put(q, fs, r)
  BY <1>6, <1>7, <1>8 DEF Put, n, z
<1>10. QED
  BY <1>9 DEF fs, r, s

\* A message of which all frames are still to go.
Whole(x, fs) ==
  /\ x \in Said /\ fs = FramesOf(x) /\ x.left = Len(fs) /\ Len(fs) \in 1 .. 37

\* _send() puts all frames of a message after what is queued.
LEMMA LaidSend ==
  ASSUME NEW q \in Seq(Entry), NEW a \in Seq(Said), NEW at, Laid(q, a, at),
         NEW x, NEW fs, Whole(x, fs), NEW r, Put(q, fs, r), NEW c, Added(a, x, c)
  PROVE  \E to : Laid(r, c, to)
<1> DEFINE n == Len(q)
           m == Len(a)
           z == Len(fs)
           to == [i \in 1 .. m + 1 |-> IF i <= m THEN at[i] ELSE n + 1]
<1>1. n \in Nat /\ m \in Nat /\ z \in Nat /\ z >= 1
  <2>1. z \in 1 .. 37
    BY DEF Whole
  <2> HIDE DEF z
  <2>2. QED
    BY <2>1, LenProperties
<1>0. x.left = z /\ FramesOf(x) = fs
  BY DEF Whole
<1>2. /\ r \in Seq(Entry) /\ Len(r) = n + z
      /\ \A i \in 1 .. n : r[i] = q[i]
      /\ \A j \in 1 .. z : r[n + j] = OnBus(fs[j])
  BY DEF Put
<1>3. /\ c \in Seq(Said) /\ Len(c) = m + 1 /\ c[m + 1] = x
      /\ \A i \in 1 .. m : c[i] = a[i]
  BY DEF Added
<1>4. /\ at \in [1 .. m -> Nat \ {0}] /\ InQueue(q, a, at) /\ WholeBut1(a)
      /\ FramesAt(q, a, at) /\ InOrder(a, at) /\ NoOthers(q, a, at)
  BY DEF Laid
<1>5. \A i \in 1 .. m : a[i].left \in Nat /\ a[i].left >= 1
  BY SaidIs
<1>6. to[m + 1] = n + 1 /\ \A i \in 1 .. m : to[i] = at[i]
  BY <1>1
<1>16. to \in [1 .. m + 1 -> Nat \ {0}]
  BY <1>1, <1>4
<1>7. \A i \in 1 .. m + 1 : i \in 1 .. m \/ i = m + 1
  BY <1>1
<1>8. \A i \in 1 .. m : at[i] \in Nat /\ at[i] >= 1 /\ at[i] + a[i].left - 1 <= n
  <2>1. \A i \in 1 .. m : at[i] \in Nat /\ at[i] >= 1
    BY <1>4
  <2>2. QED
    BY <1>4, <2>1, Zenon DEF InQueue
<1> HIDE DEF n, m, z, to
<1>9. InQueue(r, c, to)
  <2>1. ASSUME NEW i \in 1 .. m + 1 PROVE to[i] + c[i].left - 1 <= n + z
    <3>1. CASE i \in 1 .. m
      <4> DEFINE u == at[i]
                 e == a[i].left
      <4>1. u \in Nat /\ e \in Nat /\ u + e - 1 <= n /\ to[i] = u /\ c[i].left = e
        BY <1>3, <1>5, <1>6, <1>8, <3>1
      <4> HIDE DEF u, e
      <4>2. u + e - 1 <= n + z
        BY <1>1, <4>1
      <4>3. QED
        BY <4>1, <4>2
    <3>2. CASE i = m + 1
      <4>1. to[i] = n + 1 /\ c[i].left = z
        BY <1>0, <1>3, <1>6, <3>2
      <4>2. QED
        BY <1>1, <4>1
    <3>3. QED
      BY <1>7, <3>1, <3>2
  <2>2. QED
    BY <1>2, <1>3, <2>1 DEF InQueue
<1>10. WholeBut1(c)
  <2>1. ASSUME NEW i \in 1 .. m + 1
        PROVE  /\ c[i].left <= Len(FramesOf(c[i]))
               /\ i > 1 => c[i].left = Len(FramesOf(c[i]))
    <3>1. CASE i \in 1 .. m
      BY <1>3, <1>4, <3>1 DEF WholeBut1, m
    <3>2. CASE i = m + 1
      BY <1>0, <1>3, <3>2 DEF z
    <3>3. QED
      BY <1>7, <3>1, <3>2
  <2>2. QED
    BY <1>3, <2>1 DEF WholeBut1
<1>11. FramesAt(r, c, to)
  <2>1. ASSUME NEW i \in 1 .. m + 1, NEW j \in 1 .. c[i].left
        PROVE  r[to[i] + j - 1] = OnBus(FramesOf(c[i])[Len(FramesOf(c[i])) - c[i].left + j])
    <3>1. CASE i \in 1 .. m
      <4>1. c[i] = a[i] /\ to[i] = at[i] /\ j \in 1 .. a[i].left
        BY <1>3, <1>6, <2>1, <3>1
      <4>2. at[i] + j - 1 \in 1 .. n
        <5> DEFINE u == at[i]
                   e == a[i].left
        <5>1. u \in Nat /\ u >= 1 /\ u + e - 1 <= n /\ e \in Nat /\ j \in 1 .. e
          BY <1>5, <1>8, <3>1, <4>1
        <5> HIDE DEF u, e
        <5>2. u + j - 1 \in 1 .. n
          BY <1>1, <5>1
        <5>3. QED
          BY <5>2 DEF u
      <4>3. r[at[i] + j - 1] = q[at[i] + j - 1]
        BY <1>2, <4>2
      <4>4. q[at[i] + j - 1] = OnBus(FramesOf(a[i])[Len(FramesOf(a[i])) - a[i].left + j])
        BY <1>4, <3>1, <4>1 DEF FramesAt, m
      <4>5. QED
        BY <4>1, <4>3, <4>4
    <3>2. CASE i = m + 1
      <4>1. c[i] = x /\ to[i] = n + 1 /\ j \in 1 .. z
        BY <1>0, <1>3, <1>6, <2>1, <3>2
      <4>2. n + 1 + j - 1 = n + j /\ z - z + j = j
        BY <1>1, <4>1
      <4>3. r[n + j] = OnBus(fs[j])
        BY <1>2, <4>1
      <4>4. QED
        BY <1>0, <4>1, <4>2, <4>3 DEF z
    <3>3. QED
      BY <1>7, <3>1, <3>2
  <2>2. QED
    BY <1>3, <2>1 DEF FramesAt
<1>12. InOrder(c, to)
  <2>1. ASSUME NEW i \in 1 .. m + 1, NEW k \in 1 .. m + 1, i < k
        PROVE  to[i] + c[i].left <= to[k]
    <3>1. i \in 1 .. m /\ to[i] = at[i] /\ c[i] = a[i]
      BY <1>1, <1>3, <1>6, <2>1
    <3>2. CASE k \in 1 .. m
      BY <1>4, <1>6, <2>1, <3>1, <3>2 DEF InOrder, m
    <3>3. CASE k = m + 1
      <4> DEFINE u == at[i]
                 e == a[i].left
      <4>1. /\ u \in Nat /\ e \in Nat /\ u + e - 1 <= n
            /\ to[i] = u /\ c[i].left = e /\ to[k] = n + 1
        BY <1>5, <1>6, <1>8, <3>1, <3>3
      <4> HIDE DEF u, e
      <4>2. u + e <= n + 1
        BY <1>1, <4>1
      <4>3. QED
        BY <4>1, <4>2
    <3>4. QED
      BY <1>7, <3>2, <3>3
  <2>2. QED
    BY <1>3, <2>1 DEF InOrder
<1>13. NoOthers(r, c, to)
  <2>1. ASSUME NEW y \in 1 .. n + z, r[y].id = "cyclic"
        PROVE  \E i \in 1 .. m + 1 : to[i] <= y /\ y < to[i] + c[i].left
    <3>1. CASE y <= n
      <4>1. y \in 1 .. n /\ q[y].id = "cyclic"
        BY <1>1, <1>2, <2>1, <3>1
      <4>2. PICK i \in 1 .. m : at[i] <= y /\ y < at[i] + a[i].left
        BY <1>4, <4>1 DEF NoOthers, n, m
      <4>3. i \in 1 .. m + 1 /\ to[i] = at[i] /\ c[i] = a[i]
        BY <1>1, <1>3, <1>6
      <4>4. QED
        BY <4>2, <4>3
    <3>2. CASE y > n
      <4>1. m + 1 \in 1 .. m + 1 /\ n + 1 <= y /\ y < n + 1 + z
        BY <1>1, <3>2
      <4>2. to[m + 1] = n + 1 /\ c[m + 1].left = z
        BY <1>0, <1>3, <1>6
      <4>3. QED
        BY <4>1, <4>2
    <3>3. QED
      BY <1>1, <3>1, <3>2
  <2>2. QED
    BY <1>2, <1>3, <2>1 DEF NoOthers
<1>14. Laid(r, c, to)
  BY <1>3, <1>16, <1>9, <1>10, <1>11, <1>12, <1>13 DEF Laid
<1>15. QED
  BY <1>14

\* The meter puts in a frame of its own.
Foreign(e) == e.id # "cyclic"

LEMMA LaidMeter ==
  ASSUME NEW q \in Seq(Entry), NEW a \in Seq(Said), NEW at, Laid(q, a, at),
         NEW e \in Entry, Foreign(e)
  PROVE  Append(q, e) \in Seq(Entry) /\ Laid(Append(q, e), a, at)
<1> DEFINE n == Len(q)
           m == Len(a)
           r == Append(q, e)
<1>1. /\ r \in Seq(Entry) /\ Len(r) = n + 1 /\ r[n + 1] = e
      /\ \A i \in 1 .. n : r[i] = q[i]
  BY AppendProperties
<1>2. n \in Nat /\ m \in Nat
  BY LenProperties
<1>3. /\ at \in [1 .. m -> Nat \ {0}] /\ InQueue(q, a, at) /\ WholeBut1(a)
      /\ FramesAt(q, a, at) /\ InOrder(a, at) /\ NoOthers(q, a, at)
  BY DEF Laid
<1>4. \A i \in 1 .. m : a[i].left \in Nat /\ a[i].left >= 1
  BY SaidIs
<1>5. \A i \in 1 .. m : at[i] \in Nat /\ at[i] >= 1
  BY <1>3
<1>6. \A i \in 1 .. m : at[i] + a[i].left - 1 <= n
  BY <1>3, Zenon DEF InQueue
<1> HIDE DEF n, m, r
<1>7. InQueue(r, a, at)
  <2>1. ASSUME NEW i \in 1 .. m PROVE at[i] + a[i].left - 1 <= n + 1
    <3>1. /\ at[i] \in Nat /\ a[i].left \in Nat /\ at[i] + a[i].left - 1 <= n
      BY <1>4, <1>5, <1>6
    <3>2. QED
      BY <1>2, <3>1
  <2>2. QED
    BY <1>1, <2>1 DEF InQueue, m
<1>8. FramesAt(r, a, at)
  <2>1. ASSUME NEW i \in 1 .. m, NEW j \in 1 .. a[i].left
        PROVE  r[at[i] + j - 1] = OnBus(FramesOf(a[i])[Len(FramesOf(a[i])) - a[i].left + j])
    <3>1. at[i] + j - 1 \in 1 .. n
      <4> DEFINE u == at[i]
                 w == a[i].left
      <4>1. u \in Nat /\ u >= 1 /\ w \in Nat /\ u + w - 1 <= n /\ j \in 1 .. w
        BY <1>4, <1>5, <1>6
      <4> HIDE DEF u, w
      <4>2. u + j - 1 \in 1 .. n
        BY <1>2, <4>1
      <4>3. QED
        BY <4>2 DEF u
    <3>3. r[at[i] + j - 1] = q[at[i] + j - 1]
      BY <1>1, <3>1
    <3>4. q[at[i] + j - 1] = OnBus(FramesOf(a[i])[Len(FramesOf(a[i])) - a[i].left + j])
      BY <1>3, Zenon DEF FramesAt, m
    <3>5. QED
      BY <3>3, <3>4, Zenon
  <2>2. QED
    BY <2>1 DEF FramesAt, m
<1>9. NoOthers(r, a, at)
  <2>1. ASSUME NEW y \in 1 .. n + 1, r[y].id = "cyclic"
        PROVE  \E i \in 1 .. m : at[i] <= y /\ y < at[i] + a[i].left
    <3>1. y # n + 1
      BY <1>1, <2>1 DEF Foreign
    <3>2. y \in 1 .. n
      BY <1>2, <3>1
    <3>3. q[y].id = "cyclic"
      BY <1>1, <2>1, <3>2
    <3>4. QED
      BY <1>3, <3>2, <3>3 DEF NoOthers, n, m
  <2>2. QED
    BY <1>1, <2>1 DEF NoOthers, m
<1>10. Laid(r, a, at)
  BY <1>3, <1>7, <1>8, <1>9 DEF Laid, m
<1>11. QED
  BY <1>1, <1>10 DEF r

\* The first frame has left the queue.
TailOf(r, q) ==
  /\ r \in Seq(Entry) /\ Len(r) = Len(q) - 1 /\ Len(r) \in Nat
  /\ \A i \in 1 .. Len(r) : r[i] = q[i + 1]

LEMMA TailIs ==
  ASSUME NEW q \in Seq(Entry), q # <<>>
  PROVE  TailOf(Tail(q), q) /\ Head(q) = q[1] /\ Head(q) \in Entry
BY HeadTailProperties, LenProperties DEF TailOf

\* It was the meter's: all others move up.
LEMMA LaidMeterGone ==
  ASSUME NEW q \in Seq(Entry), NEW a \in Seq(Said), NEW at, Laid(q, a, at),
         NEW r, TailOf(r, q), Foreign(q[1])
  PROVE  \E to : Laid(r, a, to)
<1> DEFINE n == Len(q)
           m == Len(a)
           to == [i \in 1 .. m |-> at[i] - 1]
<1>1. /\ r \in Seq(Entry) /\ Len(r) = n - 1
      /\ \A i \in 1 .. n - 1 : r[i] = q[i + 1]
  BY DEF TailOf
<1>2. n \in Nat /\ m \in Nat
  BY LenProperties
<1>3. /\ at \in [1 .. m -> Nat \ {0}] /\ InQueue(q, a, at) /\ WholeBut1(a)
      /\ FramesAt(q, a, at) /\ InOrder(a, at) /\ NoOthers(q, a, at)
  BY DEF Laid
<1>4. \A i \in 1 .. m : a[i].left \in Nat /\ a[i].left >= 1
  BY SaidIs
<1>5. \A i \in 1 .. m : at[i] \in Nat /\ at[i] >= 1
  BY <1>3
<1>6. \A i \in 1 .. m : at[i] + a[i].left - 1 <= n
  BY <1>3, Zenon DEF InQueue
<1>7. \A i \in 1 .. m : to[i] = at[i] - 1
  OBVIOUS
<1> HIDE DEF n, m
<1>8. ASSUME NEW i \in 1 .. m PROVE at[i] >= 2
  <2>1. SUFFICES ASSUME at[i] = 1 PROVE FALSE
    BY <1>5
  <2>2. 1 \in 1 .. a[i].left /\ at[i] + 1 - 1 = 1
    BY <1>4, <2>1
  <2>3. q[1] = OnBus(FramesOf(a[i])[Len(FramesOf(a[i])) - a[i].left + 1])
    BY <1>3, <2>2 DEF FramesAt, m
  <2>4. QED
    BY <2>3 DEF OnBus, Foreign
<1>9. to \in [1 .. m -> Nat \ {0}]
  <2>1. \A i \in 1 .. m : at[i] - 1 \in Nat \ {0}
    BY <1>5, <1>8
  <2>2. QED
    BY <2>1
<1> HIDE DEF to
<1>10. InQueue(r, a, to)
  <2>1. ASSUME NEW i \in 1 .. m PROVE to[i] + a[i].left - 1 <= n - 1
    <3> DEFINE b == at[i]
               e == a[i].left
               g == to[i]
    <3>1. b \in Nat /\ e \in Nat /\ b + e - 1 <= n /\ g = b - 1
      BY <1>4, <1>5, <1>6, <1>7
    <3> HIDE DEF b, e, g
    <3>2. g + e - 1 <= n - 1
      BY <1>2, <3>1
    <3>3. QED
      BY <3>2 DEF e, g
  <2>2. QED
    BY <1>1, <2>1 DEF InQueue, m
<1>11. FramesAt(r, a, to)
  <2>1. ASSUME NEW i \in 1 .. m, NEW j \in 1 .. a[i].left
        PROVE  r[to[i] + j - 1] = OnBus(FramesOf(a[i])[Len(FramesOf(a[i])) - a[i].left + j])
    <3> DEFINE b == at[i]
               e == a[i].left
               g == to[i]
               y == g + j - 1
    <3>1. b \in Nat /\ b >= 2 /\ e \in Nat /\ b + e - 1 <= n /\ g = b - 1 /\ j \in 1 .. e
      BY <1>4, <1>5, <1>6, <1>7, <1>8
    <3> HIDE DEF b, e, g
    <3>2. y \in 1 .. n - 1 /\ y + 1 = b + j - 1
      BY <1>2, <3>1
    <3> HIDE DEF y
    <3>3. r[y] = q[at[i] + j - 1]
      BY <1>1, <3>2 DEF b
    <3>4. q[at[i] + j - 1] = OnBus(FramesOf(a[i])[Len(FramesOf(a[i])) - a[i].left + j])
      BY <1>3, Zenon DEF FramesAt, m
    <3>5. QED
      BY <3>3, <3>4, Zenon DEF y, g
  <2>2. QED
    BY <2>1 DEF FramesAt, m
<1>12. InOrder(a, to)
  <2>1. ASSUME NEW i \in 1 .. m, NEW k \in 1 .. m, i < k
        PROVE  to[i] + a[i].left <= to[k]
    <3>1. at[i] + a[i].left <= at[k]
      BY <1>3, <2>1 DEF InOrder, m
    <3> DEFINE u == at[i]
               e == a[i].left
               w == at[k]
    <3>2. u \in Nat /\ w \in Nat /\ e \in Nat /\ to[i] = u - 1 /\ to[k] = w - 1 /\ u + e <= w
      BY <1>4, <1>5, <1>7, <3>1
    <3> HIDE DEF u, w
    <3>3. to[i] + e <= to[k]
      <4> HIDE DEF e
      <4>1. u - 1 + e <= w - 1
        BY <3>2
      <4>2. QED
        BY <3>2, <4>1
    <3>4. QED
      BY <3>3
  <2>2. QED
    BY <2>1 DEF InOrder, m
<1>13. NoOthers(r, a, to)
  <2>1. ASSUME NEW y \in 1 .. n - 1, r[y].id = "cyclic"
        PROVE  \E i \in 1 .. m : to[i] <= y /\ y < to[i] + a[i].left
    <3>1. q[y + 1].id = "cyclic" /\ y + 1 \in 1 .. n
      BY <1>1, <1>2, <2>1
    <3>2. PICK i \in 1 .. m : at[i] <= y + 1 /\ y + 1 < at[i] + a[i].left
      BY <1>3, <3>1 DEF NoOthers, n, m
    <3>3. at[i] \in Nat /\ a[i].left \in Nat /\ to[i] = at[i] - 1
      BY <1>4, <1>5, <1>7
    <3>4. to[i] <= y /\ y < to[i] + a[i].left
      BY <3>2, <3>3
    <3>5. QED
      BY <3>4
  <2>2. QED
    BY <1>1, <2>1 DEF NoOthers, m
<1>14. Laid(r, a, to)
  BY <1>3, <1>9, <1>10, <1>11, <1>12, <1>13 DEF Laid, m
<1>15. QED
  BY <1>14

\* It was a message's: then it is the next one of the first message.
LEMMA HeadIsFirst ==
  ASSUME NEW q \in Seq(Entry), NEW a \in Seq(Said), NEW at, Laid(q, a, at),
         q # <<>>, ~Foreign(q[1])
  PROVE  /\ a # <<>> /\ 1 \in 1 .. Len(a) /\ at[1] = 1
         /\ q[1] = OnBus(FramesOf(a[1])[Len(FramesOf(a[1])) - a[1].left + 1])
<1> DEFINE n == Len(q)
           m == Len(a)
<1>1. n \in Nat /\ n >= 1 /\ m \in Nat
  BY LenProperties, EmptySeq
<1>2. /\ at \in [1 .. m -> Nat \ {0}]
      /\ FramesAt(q, a, at) /\ InOrder(a, at) /\ NoOthers(q, a, at)
  BY DEF Laid
<1>3. \A i \in 1 .. m : at[i] \in Nat /\ at[i] >= 1
  BY <1>2
<1>4. \A i \in 1 .. m : a[i].left \in Nat /\ a[i].left >= 1
  BY SaidIs
<1> HIDE DEF n, m
<1>5. PICK i \in 1 .. m : at[i] <= 1 /\ 1 < at[i] + a[i].left
  <2>1. 1 \in 1 .. n
    BY <1>1
  <2>2. QED
    BY <1>2, <2>1 DEF NoOthers, Foreign, n, m
<1>6. at[i] = 1
  BY <1>3, <1>5
<1>7. 1 \in 1 .. m
  BY <1>1
<1>8. i = 1
  <2>1. SUFFICES ASSUME 1 < i PROVE FALSE
    BY <1>1
  <2>2. at[1] + a[1].left <= at[i]
    BY <1>2, <1>7, <2>1 DEF InOrder, m
  <2>3. at[1] \in Nat /\ at[1] >= 1 /\ a[1].left \in Nat /\ a[1].left >= 1
    BY <1>3, <1>4, <1>7
  <2>4. QED
    BY <1>6, <2>2, <2>3
<1>9. 1 \in 1 .. a[1].left /\ at[1] + 1 - 1 = 1
  BY <1>4, <1>6, <1>7, <1>8
<1>10. q[at[1] + 1 - 1] = OnBus(FramesOf(a[1])[Len(FramesOf(a[1])) - a[1].left + 1])
  BY <1>2, <1>7, <1>9, Zenon DEF FramesAt, m
<1>11. a # <<>>
  BY <1>1, <1>7, EmptySeq DEF m
<1>12. QED
  BY <1>6, <1>7, <1>8, <1>9, <1>10, <1>11 DEF m

\* It was the last one of the first message, with which that has gone.
OthersOf(b, a) ==
  /\ b \in Seq(Said) /\ Len(b) = Len(a) - 1 /\ Len(b) \in Nat
  /\ \A i \in 1 .. Len(b) : b[i] = a[i + 1]

LastGone(q, a) == q # <<>> /\ ~Foreign(q[1]) /\ a[1].left = 1

LEMMA LaidLastGone ==
  ASSUME NEW q \in Seq(Entry), NEW a \in Seq(Said), NEW at, Laid(q, a, at),
         NEW r, TailOf(r, q), NEW b, OthersOf(b, a), LastGone(q, a)
  PROVE  \E to : Laid(r, b, to)
<1> DEFINE n == Len(q)
           m == Len(a)
           to == [i \in 1 .. m - 1 |-> at[i + 1] - 1]
<1>1. /\ r \in Seq(Entry) /\ Len(r) = n - 1
      /\ \A i \in 1 .. n - 1 : r[i] = q[i + 1]
  BY DEF TailOf
<1>2. /\ b \in Seq(Said) /\ Len(b) = m - 1
      /\ \A i \in 1 .. m - 1 : b[i] = a[i + 1]
  BY DEF OthersOf
<1>3. /\ at \in [1 .. m -> Nat \ {0}] /\ InQueue(q, a, at) /\ WholeBut1(a)
      /\ FramesAt(q, a, at) /\ InOrder(a, at) /\ NoOthers(q, a, at)
  BY DEF Laid
<1>4. \A i \in 1 .. m : a[i].left \in Nat /\ a[i].left >= 1
  BY SaidIs
<1>5. \A i \in 1 .. m : at[i] \in Nat /\ at[i] >= 1
  BY <1>3
<1>6. \A i \in 1 .. m : at[i] + a[i].left - 1 <= n
  BY <1>3, Zenon DEF InQueue
<1>7. \A i \in 1 .. m - 1 : to[i] = at[i + 1] - 1
  OBVIOUS
<1>8. n \in Nat /\ m \in Nat /\ at[1] = 1 /\ 1 \in 1 .. m /\ a[1].left = 1
  BY HeadIsFirst, LenProperties DEF LastGone
<1> HIDE DEF n, m
<1>9. ASSUME NEW i \in 1 .. m - 1 PROVE i + 1 \in 1 .. m /\ i + 1 > 1 /\ at[i + 1] >= 2
  <2>1. i + 1 \in 1 .. m /\ 1 < i + 1
    BY <1>8
  <2>2. at[1] + a[1].left <= at[i + 1]
    BY <1>3, <1>8, <2>1 DEF InOrder, m
  <2>3. QED
    BY <1>8, <2>1, <2>2
<1>10. to \in [1 .. m - 1 -> Nat \ {0}]
  <2>1. ASSUME NEW i \in 1 .. m - 1 PROVE at[i + 1] - 1 \in Nat \ {0}
    <3>1. at[i + 1] \in Nat /\ at[i + 1] >= 2
      BY <1>5, <1>9
    <3>2. QED
      BY <3>1
  <2>2. QED
    BY <2>1
<1> HIDE DEF to
<1>11. ASSUME NEW i \in 1 .. m - 1
       PROVE  /\ b[i] = a[i + 1] /\ a[i + 1].left \in Nat /\ at[i + 1] \in Nat
              /\ at[i + 1] >= 2 /\ at[i + 1] + a[i + 1].left - 1 <= n
              /\ to[i] = at[i + 1] - 1
  BY <1>2, <1>4, <1>5, <1>6, <1>7, <1>9
<1>12. InQueue(r, b, to)
  <2>1. ASSUME NEW i \in 1 .. m - 1 PROVE to[i] + b[i].left - 1 <= n - 1
    <3> DEFINE k == at[i + 1]
               e == a[i + 1].left
               g == to[i]
    <3>1. k \in Nat /\ e \in Nat /\ k + e - 1 <= n /\ g = k - 1 /\ b[i].left = e
      BY <1>11
    <3> HIDE DEF k, e, g
    <3>2. g + e - 1 <= n - 1
      BY <1>8, <3>1
    <3>3. QED
      BY <3>1, <3>2 DEF g
  <2>2. QED
    BY <1>1, <1>2, <2>1 DEF InQueue
<1>13. WholeBut1(b)
  <2>1. ASSUME NEW i \in 1 .. m - 1
        PROVE  b[i].left <= Len(FramesOf(b[i])) /\ b[i].left = Len(FramesOf(b[i]))
    <3>1. b[i] = a[i + 1] /\ i + 1 \in 1 .. m /\ i + 1 > 1
      BY <1>9, <1>11
    <3>2. QED
      BY <1>3, <3>1 DEF WholeBut1, m
  <2>2. QED
    BY <1>2, <2>1 DEF WholeBut1
<1>14. FramesAt(r, b, to)
  <2>1. ASSUME NEW i \in 1 .. m - 1, NEW j \in 1 .. b[i].left
        PROVE  r[to[i] + j - 1] = OnBus(FramesOf(b[i])[Len(FramesOf(b[i])) - b[i].left + j])
    <3> DEFINE k == at[i + 1]
               e == a[i + 1].left
               g == to[i]
               y == g + j - 1
    <3>1. k \in Nat /\ k >= 2 /\ e \in Nat /\ k + e - 1 <= n /\ g = k - 1 /\ j \in 1 .. e
      BY <1>11
    <3> HIDE DEF k, e, g
    <3>2. y \in 1 .. n - 1 /\ y + 1 = k + j - 1
      BY <1>8, <3>1
    <3> HIDE DEF y
    <3>3. r[y] = q[at[i + 1] + j - 1]
      BY <1>1, <3>2 DEF k
    <3>4. i + 1 \in 1 .. m /\ j \in 1 .. a[i + 1].left
      BY <1>9, <3>1 DEF e
    <3>5. q[at[i + 1] + j - 1]
            = OnBus(FramesOf(a[i + 1])[Len(FramesOf(a[i + 1])) - a[i + 1].left + j])
      BY <1>3, <3>4, Zenon DEF FramesAt, m
    <3>6. b[i] = a[i + 1]
      BY <1>11
    <3>7. QED
      BY <3>3, <3>5, <3>6, Zenon DEF y, g
  <2>2. QED
    BY <1>2, <2>1 DEF FramesAt
<1>15. InOrder(b, to)
  <2>1. ASSUME NEW i \in 1 .. m - 1, NEW k \in 1 .. m - 1, i < k
        PROVE  to[i] + b[i].left <= to[k]
    <3>1. i + 1 < k + 1 /\ i + 1 \in 1 .. m /\ k + 1 \in 1 .. m
      BY <1>8, <2>1
    <3>2. at[i + 1] + a[i + 1].left <= at[k + 1]
      BY <1>3, <3>1 DEF InOrder, m
    <3> DEFINE u == at[i + 1]
               e == a[i + 1].left
               w == at[k + 1]
    <3>3. /\ u \in Nat /\ w \in Nat /\ e \in Nat /\ u + e <= w
          /\ to[i] = u - 1 /\ to[k] = w - 1 /\ b[i].left = e
      BY <1>11, <3>2
    <3> HIDE DEF u, e, w
    <3>4. u - 1 + e <= w - 1
      BY <3>3
    <3>5. QED
      BY <3>3, <3>4
  <2>2. QED
    BY <1>2, <2>1 DEF InOrder
<1>16. NoOthers(r, b, to)
  <2>1. ASSUME NEW y \in 1 .. n - 1, r[y].id = "cyclic"
        PROVE  \E i \in 1 .. m - 1 : to[i] <= y /\ y < to[i] + b[i].left
    <3>1. q[y + 1].id = "cyclic" /\ y + 1 \in 1 .. n /\ y + 1 >= 2
      BY <1>1, <1>8, <2>1
    <3>2. PICK k \in 1 .. m : at[k] <= y + 1 /\ y + 1 < at[k] + a[k].left
      BY <1>3, <3>1 DEF NoOthers, n, m
    <3>3. k # 1
      BY <1>8, <3>1, <3>2
    <3> DEFINE i == k - 1
    <3>4. i \in 1 .. m - 1 /\ i + 1 = k
      BY <1>8, <3>3
    <3> HIDE DEF i
    <3> DEFINE u == at[k]
               e == a[k].left
    <3>5. /\ u \in Nat /\ e \in Nat /\ u <= y + 1 /\ y + 1 < u + e
          /\ to[i] = u - 1 /\ b[i].left = e
      BY <1>11, <3>2, <3>4
    <3> HIDE DEF u, e
    <3>6. u - 1 <= y /\ y < u - 1 + e
      BY <3>5
    <3>7. QED
      BY <3>4, <3>5, <3>6
  <2>2. QED
    BY <1>1, <1>2, <2>1 DEF NoOthers
<1>17. Laid(r, b, to)
  BY <1>2, <1>10, <1>12, <1>13, <1>14, <1>15, <1>16 DEF Laid
<1>18. QED
  BY <1>17

\* It was another one of the first message.
LessOne(b, a) ==
  /\ b \in Seq(Said) /\ Len(b) = Len(a) /\ FramesOf(b[1]) = FramesOf(a[1])
  /\ b[1].left = a[1].left - 1
  /\ \A i \in 2 .. Len(a) : b[i] = a[i]

OneGone(q, a) == q # <<>> /\ ~Foreign(q[1]) /\ a[1].left > 1

LEMMA LaidOneGone ==
  ASSUME NEW q \in Seq(Entry), NEW a \in Seq(Said), NEW at, Laid(q, a, at),
         NEW r, TailOf(r, q), NEW b, LessOne(b, a), OneGone(q, a)
  PROVE  \E to : Laid(r, b, to)
<1> DEFINE n == Len(q)
           m == Len(a)
           to == [i \in 1 .. m |-> IF i = 1 THEN 1 ELSE at[i] - 1]
<1>1. /\ r \in Seq(Entry) /\ Len(r) = n - 1
      /\ \A i \in 1 .. n - 1 : r[i] = q[i + 1]
  BY DEF TailOf
<1>2. /\ b \in Seq(Said) /\ Len(b) = m /\ FramesOf(b[1]) = FramesOf(a[1])
      /\ b[1].left = a[1].left - 1
      /\ \A i \in 2 .. m : b[i] = a[i]
  BY DEF LessOne
<1>3. /\ at \in [1 .. m -> Nat \ {0}] /\ InQueue(q, a, at) /\ WholeBut1(a)
      /\ FramesAt(q, a, at) /\ InOrder(a, at) /\ NoOthers(q, a, at)
  BY DEF Laid
<1>4. \A i \in 1 .. m : a[i].left \in Nat /\ a[i].left >= 1
  BY SaidIs
<1>5. \A i \in 1 .. m : at[i] \in Nat /\ at[i] >= 1
  BY <1>3
<1>6. \A i \in 1 .. m : at[i] + a[i].left - 1 <= n
  BY <1>3, Zenon DEF InQueue
<1>7. n \in Nat /\ m \in Nat /\ at[1] = 1 /\ 1 \in 1 .. m /\ a[1].left > 1
  BY HeadIsFirst, LenProperties DEF OneGone
<1>8. to[1] = 1 /\ \A i \in 2 .. m : to[i] = at[i] - 1
  BY <1>7
<1> HIDE DEF n, m
<1>9. \A i \in 1 .. m : i = 1 \/ i \in 2 .. m
  OBVIOUS
<1>10. ASSUME NEW i \in 2 .. m PROVE at[i] >= 2 + a[1].left - 1 /\ i \in 1 .. m
  <2>1. i \in 1 .. m /\ 1 < i
    OBVIOUS
  <2>2. at[1] + a[1].left <= at[i]
    BY <1>3, <1>7, <2>1 DEF InOrder, m
  <2>3. a[1].left \in Nat /\ at[i] \in Nat
    BY <1>4, <1>5, <1>7, <2>1
  <2>4. QED
    BY <1>7, <2>1, <2>2, <2>3
<1>11. to \in [1 .. m -> Nat \ {0}]
  <2>1. ASSUME NEW i \in 1 .. m PROVE (IF i = 1 THEN 1 ELSE at[i] - 1) \in Nat \ {0}
    <3>1. CASE i = 1
      BY <3>1
    <3>2. CASE i \in 2 .. m
      <4>1. at[i] \in Nat /\ a[1].left \in Nat /\ at[i] >= 2 + a[1].left - 1
        BY <1>4, <1>5, <1>7, <1>10, <3>2
      <4>2. QED
        BY <1>7, <3>2, <4>1
    <3>3. QED
      BY <1>9, <3>1, <3>2
  <2>2. QED
    BY <2>1
<1> HIDE DEF to
<1>12. ASSUME NEW i \in 2 .. m
       PROVE  /\ i \in 1 .. m /\ b[i] = a[i] /\ a[i].left \in Nat /\ at[i] \in Nat
              /\ at[i] >= 2 /\ at[i] + a[i].left - 1 <= n
              /\ to[i] = at[i] - 1
  <2>1. i \in 1 .. m /\ at[i] >= 2 + a[1].left - 1
    BY <1>10
  <2>2. a[1].left \in Nat /\ a[1].left >= 1 /\ at[i] \in Nat
    BY <1>4, <1>5, <1>7, <2>1
  <2>3. at[i] >= 2
    BY <2>1, <2>2
  <2>4. QED
    BY <1>2, <1>4, <1>5, <1>6, <1>8, <2>1, <2>3
<1>13. /\ a[1].left \in Nat /\ a[1].left > 1 /\ a[1].left <= n
       /\ b[1].left = a[1].left - 1 /\ to[1] = 1
  <2>1. at[1] + a[1].left - 1 <= n /\ a[1].left \in Nat
    BY <1>4, <1>6, <1>7
  <2>2. a[1].left <= n
    BY <1>7, <2>1
  <2>3. QED
    BY <1>2, <1>7, <1>8, <2>1, <2>2
<1>14. InQueue(r, b, to)
  <2>1. ASSUME NEW i \in 1 .. m PROVE to[i] + b[i].left - 1 <= n - 1
    <3>1. CASE i = 1
      <4> DEFINE e == a[1].left
      <4>1. e \in Nat /\ e <= n /\ b[i].left = e - 1 /\ to[i] = 1
        BY <1>13, <3>1
      <4> HIDE DEF e
      <4>2. QED
        BY <1>7, <4>1
    <3>2. CASE i \in 2 .. m
      <4> DEFINE k == at[i]
                 e == a[i].left
      <4>1. k \in Nat /\ e \in Nat /\ k + e - 1 <= n /\ to[i] = k - 1 /\ b[i].left = e
        BY <1>12, <3>2
      <4> HIDE DEF k, e
      <4>2. QED
        BY <1>7, <4>1
    <3>3. QED
      BY <1>9, <3>1, <3>2
  <2>2. QED
    BY <1>1, <1>2, <2>1 DEF InQueue
<1>15. WholeBut1(b)
  <2>1. ASSUME NEW i \in 1 .. m
        PROVE  /\ b[i].left <= Len(FramesOf(b[i]))
               /\ i > 1 => b[i].left = Len(FramesOf(b[i]))
    <3>1. CASE i = 1
      <4> DEFINE e == a[1].left
                 z == Len(FramesOf(a[1]))
      <4>1. e \in Nat /\ e <= z /\ b[i].left = e - 1 /\ Len(FramesOf(b[i])) = z
        BY <1>2, <1>3, <1>7, <1>13, <3>1 DEF WholeBut1, m
      <4>2. z \in 1 .. 37
        BY <1>7, SaidIs DEF m
      <4> HIDE DEF e, z
      <4>3. QED
        BY <3>1, <4>1, <4>2
    <3>2. CASE i \in 2 .. m
      <4>1. b[i] = a[i] /\ i \in 1 .. m
        BY <1>12, <3>2
      <4>2. QED
        BY <1>3, <4>1 DEF WholeBut1, m
    <3>3. QED
      BY <1>9, <3>1, <3>2
  <2>2. QED
    BY <1>2, <2>1 DEF WholeBut1
<1>16. FramesAt(r, b, to)
  <2>1. ASSUME NEW i \in 1 .. m, NEW j \in 1 .. b[i].left
        PROVE  r[to[i] + j - 1] = OnBus(FramesOf(b[i])[Len(FramesOf(b[i])) - b[i].left + j])
    <3>1. CASE i = 1
      <4> DEFINE e == a[1].left
                 z == Len(FramesOf(a[1]))
                 x == j + 1
      <4>1. e \in Nat /\ e > 1 /\ e <= n /\ j \in 1 .. e - 1
        BY <1>13, <3>1
      <4>2. z \in 1 .. 37
        BY <1>7, SaidIs DEF m
      <4>3. x \in 1 .. e => q[at[1] + x - 1] = OnBus(FramesOf(a[1])[z - e + x])
        BY <1>3, <1>7, Zenon DEF FramesAt, m
      <4> HIDE DEF e, z
      <4>4. x \in 1 .. e /\ 1 + x - 1 = j + 1 /\ z - e + x = z - (e - 1) + j
            /\ 1 + j - 1 = j /\ j \in 1 .. n - 1
        BY <1>7, <4>1, <4>2
      <4>5. r[j] = q[j + 1]
        BY <1>1, <4>4
      <4>6. q[j + 1] = OnBus(FramesOf(a[1])[z - (e - 1) + j])
        BY <1>7, <4>3, <4>4
      <4>7. to[i] = 1 /\ b[i].left = e - 1 /\ FramesOf(b[i]) = FramesOf(a[1])
        BY <1>2, <1>13, <3>1 DEF e
      <4>8. QED
        BY <4>4, <4>5, <4>6, <4>7 DEF z
    <3>2. CASE i \in 2 .. m
      <4> DEFINE k == at[i]
                 e == a[i].left
                 g == to[i]
                 y == g + j - 1
      <4>1. k \in Nat /\ k >= 2 /\ e \in Nat /\ k + e - 1 <= n /\ g = k - 1 /\ j \in 1 .. e
        BY <1>12, <3>2
      <4> HIDE DEF k, e, g
      <4>2. y \in 1 .. n - 1 /\ y + 1 = k + j - 1
        BY <1>7, <4>1
      <4> HIDE DEF y
      <4>3. r[y] = q[at[i] + j - 1]
        BY <1>1, <4>2 DEF k
      <4>4. j \in 1 .. a[i].left /\ b[i] = a[i]
        BY <1>12, <3>2, <4>1 DEF e
      <4>5. q[at[i] + j - 1] = OnBus(FramesOf(a[i])[Len(FramesOf(a[i])) - a[i].left + j])
        BY <1>3, <4>4, Zenon DEF FramesAt, m
      <4>6. QED
        BY <4>3, <4>4, <4>5, Zenon DEF y, g
    <3>3. QED
      BY <1>9, <3>1, <3>2
  <2>2. QED
    BY <1>2, <2>1 DEF FramesAt
<1>17. InOrder(b, to)
  <2>1. ASSUME NEW i \in 1 .. m, NEW k \in 1 .. m, i < k
        PROVE  to[i] + b[i].left <= to[k]
    <3>1. k \in 2 .. m
      BY <2>1
    <3> DEFINE w == at[k]
    <3>2. w \in Nat /\ to[k] = w - 1
      BY <1>12, <3>1
    <3>3. CASE i = 1
      <4> DEFINE e == a[1].left
      <4>1. e \in Nat /\ w >= 2 + e - 1 /\ to[i] = 1 /\ b[i].left = e - 1
        BY <1>10, <1>13, <3>1, <3>3
      <4> HIDE DEF w, e
      <4>2. QED
        BY <3>2, <4>1
    <3>4. CASE i \in 2 .. m
      <4> DEFINE u == at[i]
                 e == a[i].left
      <4>1. u \in Nat /\ e \in Nat /\ to[i] = u - 1 /\ b[i].left = e
        BY <1>12, <3>4
      <4>2. u + e <= w
        BY <1>3, <2>1 DEF InOrder, m
      <4> HIDE DEF u, e, w
      <4>3. QED
        BY <3>2, <4>1, <4>2
    <3>5. QED
      BY <1>9, <3>3, <3>4
  <2>2. QED
    BY <1>2, <2>1 DEF InOrder
<1>18. NoOthers(r, b, to)
  <2>1. ASSUME NEW y \in 1 .. n - 1, r[y].id = "cyclic"
        PROVE  \E i \in 1 .. m : to[i] <= y /\ y < to[i] + b[i].left
    <3>1. q[y + 1].id = "cyclic" /\ y + 1 \in 1 .. n
      BY <1>1, <1>7, <2>1
    <3>2. PICK k \in 1 .. m : at[k] <= y + 1 /\ y + 1 < at[k] + a[k].left
      BY <1>3, <3>1 DEF NoOthers, n, m
    <3>3. CASE k = 1
      <4> DEFINE e == a[1].left
      <4>1. e \in Nat /\ y + 1 < 1 + e /\ to[k] = 1 /\ b[k].left = e - 1
        BY <1>7, <1>13, <3>2, <3>3
      <4> HIDE DEF e
      <4>2. to[k] <= y /\ y < to[k] + b[k].left
        BY <4>1
      <4>3. QED
        BY <4>2
    <3>4. CASE k \in 2 .. m
      <4> DEFINE u == at[k]
                 e == a[k].left
      <4>1. /\ u \in Nat /\ e \in Nat /\ u <= y + 1 /\ y + 1 < u + e
            /\ to[k] = u - 1 /\ b[k].left = e
        BY <1>12, <3>2, <3>4
      <4> HIDE DEF u, e
      <4>2. to[k] <= y /\ y < to[k] + b[k].left
        BY <4>1
      <4>3. QED
        BY <4>2
    <3>5. QED
      BY <1>9, <3>3, <3>4
  <2>2. QED
    BY <1>1, <1>2, <2>1 DEF NoOthers
<1>19. Laid(r, b, to)
  BY <1>2, <1>11, <1>14, <1>15, <1>16, <1>17, <1>18 DEF Laid
<1>20. QED
  BY <1>19

LEMMA TailOfSaid ==
  ASSUME NEW a \in Seq(Said), a # <<>>
  PROVE  OthersOf(Tail(a), a) /\ Head(a) = a[1] /\ 1 \in 1 .. Len(a)
<1>1. /\ Tail(a) \in Seq(Said) /\ Len(Tail(a)) = Len(a) - 1
      /\ \A i \in 1 .. Len(Tail(a)) : Tail(a)[i] = a[i + 1]
  BY HeadTailProperties
<1>2. Len(a) \in Nat \ {0}
  BY EmptySeq
<1>3. Len(Tail(a)) \in Nat /\ 1 \in 1 .. Len(a)
  BY <1>1, <1>2
<1>4. QED
  BY <1>1, <1>3 DEF OthersOf

LEMMA OneLess ==
  ASSUME NEW a \in Seq(Said), 1 \in 1 .. Len(a), a[1].left > 1,
         NEW b, b = [a EXCEPT ![1].left = @ - 1]
  PROVE  LessOne(b, a) /\ b[1].did = a[1].did /\ b[1].value = a[1].value
<1> DEFINE x == a[1]
           y == [x EXCEPT !.left = @ - 1]
<1>1. x \in Said /\ x.left > 1
  BY SaidIs
<1> HIDE DEF x
<1>2. x.left \in 1 .. 37
  BY <1>1 DEF Said
<1>3. x.left - 1 \in 1 .. 37
  BY <1>1, <1>2
<1>4. y \in Said /\ y.left = x.left - 1 /\ y.did = x.did /\ y.value = x.value
  BY <1>1, <1>3 DEF Said
<1>5. b = [a EXCEPT ![1] = y]
  BY DEF x
<1> HIDE DEF y
<1>6. /\ b \in Seq(Said) /\ Len(b) = Len(a) /\ b[1] = y
      /\ \A j \in 1 .. Len(a) : j # 1 => b[j] = a[j]
  BY <1>4, <1>5, ExceptSeq
<1>7. \A i \in 2 .. Len(a) : i \in 1 .. Len(a) /\ i # 1
  OBVIOUS
<1>8. FramesOf(b[1]) = FramesOf(a[1]) /\ b[1].left = a[1].left - 1
      /\ b[1].did = a[1].did /\ b[1].value = a[1].value
  BY <1>4, <1>6 DEF FramesOf, x
<1>9. QED
  BY <1>6, <1>7, <1>8 DEF LessOne

\* A listener stays one, whatever it hears.
LEMMA HeededType ==
  ASSUME NEW l \in Listener, NEW b \in Frame, b[1] \in SeqMin .. SeqMax
  PROVE  Heeded(l, b) \in Listener
<1> DEFINE m == Heeded(l, b)
<1>1. b \in [1 .. 8 -> Byte]
  BY DEF Frame, FrameLen, Byte
<1>2. l.did \in Int /\ l.len \in Byte /\ l.data \in Seq(Byte)
  BY DEF Listener
<1>3. CASE l # NotListening /\ b[1] = l.want
  <2> DEFINE data == l.data \o SubSeq(b, 2, FrameLen)
             x == IF l.want = SeqMax THEN SeqMin ELSE l.want + 1
  <2>1. data \in Seq(Byte)
    BY <1>2, TakesIn
  <2>2. x \in SeqMin .. SeqMax
    BY <1>3 DEF SeqMin, SeqMax
  <2>3. m = [l EXCEPT !.data = data, !.want = x]
    BY <1>3 DEF Heeded
  <2> HIDE DEF data, x, m
  <2>4. m \in Listener
    BY <2>1, <2>2, <2>3 DEF Listener
  <2>5. QED
    BY <2>4 DEF m
<1>4. CASE ~(l # NotListening /\ b[1] = l.want) /\ b[1] = SeqFirst
  <2> DEFINE at == Announced(b).at
             data == SubSeq(b, at, FrameLen)
  <2>1. at \in {5, 6, 7}
    BY DEF Announced
  <2>2. Announced(b).len \in Byte
    <3>1. b[4] \in Byte /\ b[5] \in Byte /\ b[6] \in Byte
      BY <1>1
    <3>2. b[4] % 16 \in Byte
      BY <3>1 DEF Byte
    <3>3. QED
      BY <3>1, <3>2 DEF Announced
  <2>3. b[2] + 256 * b[3] \in Int
    <3> DEFINE u == b[2]
               w == b[3]
    <3>1. u \in Byte /\ w \in Byte
      BY <1>1
    <3> HIDE DEF u, w
    <3>2. u + 256 * w \in Int
      BY <3>1 DEF Byte
    <3>3. QED
      BY <3>2 DEF u, w
  <2>4. m = [did |-> b[2] + 256 * b[3], len |-> Announced(b).len,
             data |-> data, want |-> SeqFirst + 1]
    BY <1>4, Zenon DEF Heeded
  <2> HIDE DEF at, m
  <2>5. data \in Seq(Byte)
    <3>1. \A i \in at .. 8 : i \in 1 .. 8
      BY <2>1
    <3>2. \A i \in at .. 8 : b[i] \in Byte
      BY <1>1, <3>1
    <3>3. at \in Int /\ data = SubSeq(b, at, 8)
      BY <2>1 DEF FrameLen
    <3> HIDE DEF data
    <3>4. QED
      BY <3>2, <3>3, SubSeqProperties
  <2>6. SeqFirst + 1 \in SeqMin .. SeqMax
    BY DEF SeqFirst, SeqMin, SeqMax
  <2> HIDE DEF data
  <2>7. m \in Listener
    BY <2>2, <2>3, <2>4, <2>5, <2>6 DEF Listener
  <2>8. QED
    BY <2>7 DEF m
<1>5. CASE ~(l # NotListening /\ b[1] = l.want) /\ b[1] # SeqFirst
  BY <1>5, NotListeningIs, Zenon DEF Heeded
<1>6. QED
  BY <1>3, <1>4, <1>5

-----------------------------------------------------------------------------
(* The state *)

TypeInv ==
  /\ life \in {"new", "running", "stopping", "stopped"}
  /\ tasks \subseteq Task
  /\ store \in [Known -> Loaded \cup Written] /\ now \in Times
  /\ queue \in Seq(Entry) /\ air \in Seq(Said)
  /\ lst \in Listener
  /\ changes \in 0 .. MaxChanges /\ drops \in 0 .. MaxDrop

\* The queue holds what remains of the messages on their way.
QueueInv == \E at : Laid(queue, air, at)

LEMMA TypeInvTypes == TypeInv => TypeOK
<1> SUFFICES ASSUME TypeInv PROVE TypeOK
  OBVIOUS
<1>1. DOMAIN queue = 1 .. Len(queue) /\ DOMAIN air = 1 .. Len(air)
  BY LenProperties DEF TypeInv
<1>2. ASSUME NEW i \in 1 .. Len(queue)
      PROVE  /\ queue[i].id \in {"cyclic", "meter"} /\ queue[i].b \in Frame
             /\ queue[i].id = "cyclic" => queue[i].b[1] \in SeqMin .. SeqMax
  <2>1. queue[i] \in Entry
    BY ElementOfSeq DEF TypeInv
  <2>2. QED
    BY <2>1 DEF Entry
<1>3. ASSUME NEW i \in 1 .. Len(air)
      PROVE  Sendable(air[i].value) /\ air[i].left \in 1 .. 37
  <2>1. air[i] \in Said
    BY ElementOfSeq DEF TypeInv
  <2>2. air[i].value \in Values /\ air[i].left \in 1 .. 37
    BY <2>1 DEF Said
  <2>3. QED
    BY <2>2 DEF Values
<1>4. lst.len \in 0 .. 255 /\ lst.want \in {0} \cup SeqMin .. SeqMax
  BY DEF TypeInv, Listener, Byte
<1>5. /\ DOMAIN store = Known /\ now \in Times
      /\ life \in {"new", "running", "stopping", "stopped"} /\ tasks \subseteq Task
      /\ changes \in 0 .. MaxChanges /\ drops \in 0 .. MaxDrop
  BY DEF TypeInv
<1>6. \A i \in DOMAIN queue :
        /\ queue[i].id \in {"cyclic", "meter"} /\ queue[i].b \in Frame
        /\ queue[i].id = "cyclic" => queue[i].b[1] \in SeqMin .. SeqMax
  BY <1>1, <1>2, Zenon
<1>7. \A i \in DOMAIN air : Sendable(air[i].value) /\ air[i].left \in 1 .. 37
  BY <1>1, <1>3, Zenon
<1>8. QED
  BY <1>4, <1>5, <1>6, <1>7, Zenon DEF TypeOK

LEMMA EncodedIs ==
  ASSUME TypeInv, NEW m \in Message, Sendable(Encoded(m))
  PROVE  Encoded(m) \in Values /\ DidOf[m] \in Dids
<1>1. ~Sendable(<<>>)
  BY DEF Sendable
<1>2. CASE Encoder[m] = "fixed"
  BY <1>2 DEF Encoded, Values, Dids
<1>3. CASE Encoder[m] = "localtime"
  BY <1>3 DEF Encoded, Values, Dids, TypeInv
<1>4. CASE Encoder[m] # "fixed" /\ Encoder[m] # "localtime"
  <2>1. Encoded(m) = IF DidOf[m] \in Known THEN store[DidOf[m]] ELSE <<>>
    BY <1>4 DEF Encoded
  <2>2. DidOf[m] \in Known /\ Encoded(m) = store[DidOf[m]]
    BY <1>1, <2>1
  <2>3. store[DidOf[m]] \in Loaded \cup Written
    BY <2>2 DEF TypeInv
  <2>4. QED
    BY <2>2, <2>3 DEF Values, Dids
<1>5. QED
  BY <1>2, <1>3, <1>4

\* What Send puts into the queue and into the air.
LEMMA SendIs ==
  ASSUME TypeInv, NEW m \in Message, Send(m)
  PROVE  LET x == [did |-> DidOf[m], value |-> Encoded(m),
                   left |-> Len(Frames[DidOf[m]][Encoded(m)])]
         IN /\ Whole(x, Frames[DidOf[m]][Encoded(m)]) /\ Added(air, x, air')
            /\ Put(queue, Frames[DidOf[m]][Encoded(m)], queue')
            /\ air' = Append(air, x)
<1> DEFINE d == DidOf[m]
           v == Encoded(m)
           fs == Frames[d][v]
           x == [did |-> d, value |-> v, left |-> Len(fs)]
<1>1. d \in Dids /\ v \in Values
  BY EncodedIs DEF Send
<1>2. queue' = queue \o [k \in DOMAIN fs |-> OnBus(fs[k])] /\ air' = Append(air, x)
  BY DEF Send, OnBus
<1> HIDE DEF d, v
<1>3. Len(fs) \in 1 .. 37
  BY <1>1, FramesAre
<1>4. Put(queue, fs, queue')
  BY <1>1, <1>2, PutIs DEF TypeInv
<1>5. x \in Said /\ x.left = Len(fs) /\ FramesOf(x) = fs
  BY <1>1, <1>3 DEF Said, FramesOf
<1>6. Whole(x, fs)
  BY <1>3, <1>5 DEF Whole
<1> HIDE DEF fs, x
<1>7. Added(air, x, air')
  BY <1>2, <1>5, AppendProperties DEF Added, TypeInv
<1>8. QED
  BY <1>2, <1>4, <1>6, <1>7 DEF d, v, fs, x

\* The first frame of the queue, unless it is the meter's.
LEMMA NextOnBus ==
  ASSUME TypeInv, QueueInv, queue # <<>>, ~Foreign(queue[1])
  PROVE  /\ air # <<>> /\ 1 \in 1 .. Len(air)
         /\ air[1].did \in Dids /\ air[1].value \in Values
         /\ air[1].left \in Nat \ {0} /\ air[1].left <= Len(FramesOf(air[1]))
         /\ Len(FramesOf(air[1])) \in 1 .. 37
         /\ Sent(air[1].did, air[1].value)
         /\ Segmented(FramesOf(air[1]), air[1].did, air[1].value)
         /\ queue[1].b = FramesOf(air[1])[Len(FramesOf(air[1])) - air[1].left + 1]
<1>0. queue \in Seq(Entry) /\ air \in Seq(Said)
  BY DEF TypeInv
<1>1. PICK at : Laid(queue, air, at)
  BY DEF QueueInv
<1>2. /\ air # <<>> /\ 1 \in 1 .. Len(air)
      /\ queue[1] = OnBus(FramesOf(air[1])[Len(FramesOf(air[1])) - air[1].left + 1])
  BY <1>0, <1>1, HeadIsFirst
<1>3. /\ air[1].did \in Dids /\ air[1].value \in Values
      /\ air[1].left \in Nat /\ air[1].left >= 1
      /\ Len(FramesOf(air[1])) \in 1 .. 37
  BY <1>0, <1>2, SaidIs
<1>4. air[1].left <= Len(FramesOf(air[1]))
  BY <1>1, <1>2 DEF Laid, WholeBut1
<1>5. /\ Sent(air[1].did, air[1].value)
      /\ Segmented(FramesOf(air[1]), air[1].did, air[1].value)
  BY <1>3, ValuesAreSent DEF FramesOf
<1>6. queue[1].b = FramesOf(air[1])[Len(FramesOf(air[1])) - air[1].left + 1]
  BY <1>2 DEF OnBus
<1>7. air[1].left \in Nat \ {0}
  <2> DEFINE e == air[1].left
  <2>1. e \in Nat /\ e >= 1
    BY <1>3
  <2> HIDE DEF e
  <2>2. e \in Nat \ {0}
    BY <2>1
  <2>3. QED
    BY <2>2 DEF e
<1>8. QED
  BY <1>2, <1>3, <1>4, <1>5, <1>6, <1>7, Zenon

LEMMA GoneIs ==
  ASSUME TypeInv, QueueInv, queue # <<>>, Gone
  PROVE  /\ queue' \in Seq(Entry) /\ air' \in Seq(Said) /\ QueueInv'
         /\ Head(queue) = queue[1] /\ (Head(queue).id = "meter" <=> Foreign(queue[1]))
         /\ Foreign(queue[1]) => air' = air
         /\ ~Foreign(queue[1]) /\ air[1].left = 1 => air' = Tail(air)
         /\ ~Foreign(queue[1]) /\ air[1].left # 1 =>
              air[1].left > 1 /\ air' = [air EXCEPT ![1].left = @ - 1]
<1>0. queue \in Seq(Entry) /\ air \in Seq(Said)
  BY DEF TypeInv
<1>1. TailOf(queue', queue) /\ Head(queue) = queue[1] /\ Head(queue) \in Entry
  BY <1>0, TailIs DEF Gone
<1>2. queue' \in Seq(Entry)
  BY <1>1 DEF TailOf
<1>3. Head(queue).id = "meter" <=> Foreign(queue[1])
  BY <1>1 DEF Entry, Foreign
<1>4. PICK at : Laid(queue, air, at)
  BY DEF QueueInv
<1>5. CASE Foreign(queue[1])
  <2>1. air' = air
    BY <1>3, <1>5 DEF Gone
  <2>2. \E to : Laid(queue', air, to)
    BY <1>0, <1>1, <1>4, <1>5, LaidMeterGone
  <2>3. QED
    BY <1>0, <1>1, <1>2, <1>3, <1>5, <2>1, <2>2 DEF QueueInv
<1>6. CASE ~Foreign(queue[1]) /\ air[1].left = 1
  <2>1. air # <<>>
    BY <1>6, NextOnBus
  <2>2. OthersOf(Tail(air), air) /\ Head(air) = air[1]
    BY <1>0, <2>1, TailOfSaid
  <2>3. air' = Tail(air)
    BY <1>3, <1>6, <2>2 DEF Gone
  <2>4. LastGone(queue, air)
    BY <1>6 DEF LastGone
  <2>5. \E to : Laid(queue', air', to)
    BY <1>0, <1>1, <1>4, <2>2, <2>3, <2>4, LaidLastGone
  <2>6. air' \in Seq(Said)
    BY <2>2, <2>3 DEF OthersOf
  <2>7. QED
    BY <1>1, <1>2, <1>3, <1>6, <2>3, <2>5, <2>6 DEF QueueInv
<1>7. CASE ~Foreign(queue[1]) /\ air[1].left # 1
  <2>1. air # <<>> /\ 1 \in 1 .. Len(air) /\ air[1].left \in Nat \ {0}
    BY <1>7, NextOnBus
  <2>2. air[1].left > 1
    <3> DEFINE e == air[1].left
    <3>1. e \in Nat \ {0} /\ e # 1
      BY <1>7, <2>1
    <3> HIDE DEF e
    <3>2. e > 1
      BY <3>1
    <3>3. QED
      BY <3>2 DEF e
  <2>3. Head(air) = air[1]
    BY <1>0, <2>1, TailOfSaid
  <2>4. air' = [air EXCEPT ![1].left = @ - 1]
    BY <1>3, <1>7, <2>3 DEF Gone
  <2>5. LessOne(air', air)
    BY <1>0, <2>1, <2>2, <2>4, OneLess
  <2>6. OneGone(queue, air)
    BY <1>7, <2>2 DEF OneGone
  <2>7. \E to : Laid(queue', air', to)
    BY <1>0, <1>1, <1>4, <2>5, <2>6, LaidOneGone
  <2>8. air' \in Seq(Said)
    BY <2>5 DEF LessOne
  <2>9. QED
    BY <1>1, <1>2, <1>3, <1>7, <2>2, <2>4, <2>7, <2>8 DEF QueueInv
<1>8. QED
  BY <1>5, <1>6, <1>7

QInv == TypeInv /\ QueueInv

LEMMA QInvInit == Init => QInv
<1> SUFFICES ASSUME Init PROVE QInv
  OBVIOUS
<1>1. queue = <<>> /\ air = <<>> /\ Len(queue) = 0 /\ Len(air) = 0
  BY DEF Init
<1>2. queue \in Seq(Entry) /\ air \in Seq(Said)
  BY <1>1, EmptySeq
<1>3. lst \in Listener
  BY NotListeningIs DEF Init
<1>4. store \in [Known -> Loaded \cup Written]
  BY DEF Init
<1>5. changes \in 0 .. MaxChanges /\ drops \in 0 .. MaxDrop
  BY CyclicAssumption DEF Init
<1>6. Laid(queue, air, [i \in 1 .. 0 |-> 1])
  BY <1>1 DEF Laid, InQueue, WholeBut1, FramesAt, InOrder, NoOthers
<1>7. life = "new" /\ tasks = {} /\ now \in Times
  BY DEF Init
<1>8. QED
  BY <1>2, <1>3, <1>4, <1>5, <1>6, <1>7 DEF QInv, TypeInv, QueueInv

LEMMA SendQInv ==
  ASSUME QInv, NEW m \in Message, Send(m)
  PROVE  QInv'
<1> DEFINE fs == Frames[DidOf[m]][Encoded(m)]
           x == [did |-> DidOf[m], value |-> Encoded(m), left |-> Len(fs)]
<1>0. TypeInv /\ QueueInv
  BY DEF QInv
<1>1. Whole(x, fs) /\ Added(air, x, air') /\ Put(queue, fs, queue')
  BY <1>0, SendIs
<1> HIDE DEF fs, x
<1>2. PICK at : Laid(queue, air, at)
  BY <1>0 DEF QueueInv
<1>3. queue \in Seq(Entry) /\ air \in Seq(Said)
  BY <1>0 DEF TypeInv
<1>4. \E to : Laid(queue', air', to)
  BY <1>1, <1>2, <1>3, LaidSend
<1>5. queue' \in Seq(Entry) /\ air' \in Seq(Said)
  BY <1>1 DEF Put, Added
<1>6. UNCHANGED <<life, tasks, store, now, lst, heard, changes, drops>>
  BY DEF Send
<1>7. QED
  BY <1>0, <1>4, <1>5, <1>6 DEF QInv, QueueInv, TypeInv

LEMMA PassQInv ==
  ASSUME QInv, Pass
  PROVE  QInv'
<1>0. TypeInv /\ QueueInv /\ queue # <<>> /\ Gone
  BY DEF QInv, Pass
<1>1. /\ queue' \in Seq(Entry) /\ air' \in Seq(Said) /\ QueueInv'
      /\ Head(queue) = queue[1] /\ (Head(queue).id = "meter" <=> Foreign(queue[1]))
  BY <1>0, GoneIs
<1>2. lst' \in Listener
  <2>1. CASE Head(queue).id = "meter"
    BY <1>0, <2>1 DEF Pass, TypeInv
  <2>2. CASE Head(queue).id # "meter"
    <3>1. queue[1] \in Entry
      BY <1>0, <1>1, TailIs DEF TypeInv
    <3>2. Head(queue).b \in Frame /\ Head(queue).b[1] \in SeqMin .. SeqMax
      BY <1>1, <2>2, <3>1 DEF Entry
    <3>3. Heeded(lst, Head(queue).b) \in Listener
      BY <1>0, <3>2, HeededType DEF TypeInv
    <3>4. lst' = NotListening \/ lst' = Heeded(lst, Head(queue).b)
      BY <2>2, Zenon DEF Pass
    <3>5. QED
      BY <3>3, <3>4, NotListeningIs
  <2>3. QED
    BY <2>1, <2>2
<1>3. UNCHANGED <<life, tasks, store, now, changes, drops>>
  BY DEF Pass
<1>4. QED
  BY <1>0, <1>1, <1>2, <1>3 DEF QInv, TypeInv

LEMMA DropQInv ==
  ASSUME QInv, Drop
  PROVE  QInv'
<1>0. TypeInv /\ QueueInv /\ queue # <<>> /\ Gone
  BY DEF QInv, Drop
<1>1. queue' \in Seq(Entry) /\ air' \in Seq(Said) /\ QueueInv'
  BY <1>0, GoneIs
<1>2. drops' \in 0 .. MaxDrop
  BY <1>0, CyclicAssumption DEF Drop, TypeInv
<1>3. UNCHANGED <<life, tasks, store, now, lst, changes>>
  BY DEF Drop
<1>4. QED
  BY <1>0, <1>1, <1>2, <1>3 DEF QInv, TypeInv

LEMMA QInvNext == QInv /\ [Next]_vars => QInv'
<1> SUFFICES ASSUME QInv, [Next]_vars PROVE QInv'
  OBVIOUS
<1>0. TypeInv /\ QueueInv
  BY DEF QInv
<1>1. CASE Start
  BY <1>0, <1>1 DEF Start, QInv, TypeInv, QueueInv
<1>2. CASE Stop
  BY <1>0, <1>2 DEF Stop, QInv, TypeInv, QueueInv
<1>3. CASE StopReturns
  BY <1>0, <1>3 DEF StopReturns, QInv, TypeInv, QueueInv
<1>4. CASE MeterSend
  <2> DEFINE e == [id |-> "meter", b |-> MeterFrame]
  <2>1. e \in Entry /\ Foreign(e)
    BY CyclicAssumption DEF Entry, Foreign
  <2>2. queue' = Append(queue, e)
    BY <1>4 DEF MeterSend
  <2> HIDE DEF e
  <2>3. PICK at : Laid(queue, air, at)
    BY <1>0 DEF QueueInv
  <2>4. queue' \in Seq(Entry) /\ Laid(queue', air, at)
    BY <1>0, <2>1, <2>2, <2>3, LaidMeter DEF TypeInv
  <2>5. UNCHANGED <<life, tasks, store, now, lst, heard, changes, drops, air>>
    BY <1>4 DEF MeterSend
  <2>6. QED
    BY <1>0, <2>4, <2>5 DEF QInv, TypeInv, QueueInv
<1>5. CASE Write
  <2>1. /\ changes' \in 0 .. MaxChanges
        /\ UNCHANGED <<life, tasks, now, queue, lst, heard, drops, air>>
    BY <1>0, <1>5, CyclicAssumption DEF Write, TypeInv
  <2>2. store' \in [Known -> Loaded \cup Written]
    BY <1>0, <1>5 DEF Write, TypeInv
  <2>3. QED
    BY <1>0, <2>1, <2>2 DEF QInv, TypeInv, QueueInv
<1>6. CASE ClockTicks
  <2>1. /\ changes' \in 0 .. MaxChanges /\ now' \in Times
        /\ UNCHANGED <<life, tasks, store, queue, lst, heard, drops, air>>
    BY <1>0, <1>6, CyclicAssumption DEF ClockTicks, TypeInv
  <2>2. QED
    BY <1>0, <2>1 DEF QInv, TypeInv, QueueInv
<1>7. CASE Pass
  BY <1>7, PassQInv
<1>8. CASE Drop
  BY <1>8, DropQInv
<1>9. CASE \E m \in Message : Send(m)
  BY <1>9, SendQInv
<1>10. CASE UNCHANGED vars
  BY <1>0, <1>10 DEF vars, QInv, TypeInv, QueueInv
<1>11. QED
  BY <1>1, <1>2, <1>3, <1>4, <1>5, <1>6, <1>7, <1>8, <1>9, <1>10 DEF Next, Skip

\* Types, and sequence bytes in the range of the protocol: every frame queued
\* is one of segment_collect(), or the meter's.
THEOREM TypeCorrect == Spec => []TypeOK
<1>1. Init => QInv
  BY QInvInit
<1>2. QInv /\ [Next]_vars => QInv'
  BY QInvNext
<1>3. QInv => TypeOK
  BY TypeInvTypes DEF QInv
<1>4. QED
  BY <1>1, <1>2, <1>3, PTL DEF Spec

-----------------------------------------------------------------------------
(* What is heard *)

\* No frame of the first message has left the queue yet.
Between(a) == a = <<>> \/ a[1].left = Len(FramesOf(a[1]))

Taken(a) == Len(FramesOf(a[1])) - a[1].left

With(l, a, g) == Follows(l, a[1].did, a[1].value, g)

\* A frame of the first message was lost: the first one, or the last.
Behind(l, a) ==
  /\ ~Repeats(FramesOf(a[1]))
  /\ l = NotListening \/ (Taken(a) > 1 /\ With(l, a, Taken(a) - 1))

\* The listener has all frames of the first message that have left the queue,
\* unless one was lost; between two messages it does not wait for a byte that
\* the first frame of the next one has.
LstInv ==
  /\ Between(air) => lst.want # SeqFirst /\ (drops = 0 => lst = NotListening)
  /\ ~Between(air) => With(lst, air, Taken(air)) \/ (drops # 0 /\ Behind(lst, air))

IInv == QInv /\ LstInv

\* The messages, as the abstract specification has them.
SaidOf(a) == [i \in DOMAIN a |-> <<a[i].did, a[i].value>>]

LEMMA SaidOfAppend ==
  ASSUME NEW a \in Seq(Said), NEW x, NEW c, Added(a, x, c)
  PROVE  SaidOf(c) = Append(SaidOf(a), <<x.did, x.value>>)
<1> DEFINE n == Len(a)
           P == Dids \X Values
           s == SaidOf(a)
           y == <<x.did, x.value>>
<1>1. n \in Nat /\ DOMAIN a = 1 .. n
  BY LenProperties
<1>2. /\ c \in Seq(Said) /\ DOMAIN c = 1 .. n + 1 /\ c[n + 1] = x
      /\ \A i \in 1 .. n : c[i] = a[i]
  BY LenProperties DEF Added
<1>3. s = [i \in 1 .. n |-> <<a[i].did, a[i].value>>]
  BY <1>1 DEF SaidOf
<1>4. s \in Seq({s[i] : i \in 1 .. n} \cup {y}) /\ Len(s) = n
  <2> HIDE DEF n
  <2>1. s \in [1 .. n -> {s[i] : i \in 1 .. n} \cup {y}]
    BY <1>3
  <2> HIDE DEF s
  <2>2. QED
    BY <1>1, <2>1, FunctionIsSeq
<1>5. Append(s, y) = [i \in 1 .. n + 1 |-> IF i = n + 1 THEN y ELSE s[i]]
  <2> DEFINE S == {s[i] : i \in 1 .. n} \cup {y}
             w == Append(s, y)
  <2>1. y \in S /\ s \in Seq(S)
    BY <1>4
  <2> HIDE DEF S, s, y, n
  <2>2. /\ w \in Seq(S) /\ Len(w) = Len(s) + 1
        /\ \A i \in 1 .. Len(s) : w[i] = s[i]
        /\ w[Len(s) + 1] = y
    BY <2>1, AppendProperties
  <2> HIDE DEF w
  <2>3. DOMAIN w = 1 .. n + 1 /\ w = [i \in DOMAIN w |-> w[i]]
    BY <1>4, <2>2, LenProperties
  <2>4. \A i \in 1 .. n + 1 : w[i] = IF i = n + 1 THEN y ELSE s[i]
    BY <1>1, <1>4, <2>2
  <2>5. w = [i \in 1 .. n + 1 |-> IF i = n + 1 THEN y ELSE s[i]]
    BY <2>3, <2>4
  <2>6. QED
    BY <2>5 DEF w
<1>6. SaidOf(c) = [i \in 1 .. n + 1 |-> <<c[i].did, c[i].value>>]
  BY <1>2 DEF SaidOf
<1>7. ASSUME NEW i \in 1 .. n + 1
      PROVE  <<c[i].did, c[i].value>> = IF i = n + 1 THEN y ELSE s[i]
  <2>1. CASE i = n + 1
    BY <1>2, <2>1
  <2>2. CASE i # n + 1
    <3>1. i \in 1 .. n
      BY <1>1, <2>2
    <3>2. QED
      BY <1>2, <1>3, <2>2, <3>1
  <2>3. QED
    BY <2>1, <2>2
<1> HIDE DEF n, s, y
<1>8. SaidOf(c) = Append(s, y)
  BY <1>5, <1>6, <1>7, Zenon
<1>9. QED
  BY <1>8 DEF s, y

LEMMA SaidOfTail ==
  ASSUME NEW a \in Seq(Said), a # <<>>
  PROVE  /\ SaidOf(a) # <<>> /\ Head(SaidOf(a)) = <<a[1].did, a[1].value>>
         /\ SaidOf(Tail(a)) = Tail(SaidOf(a))
<1> DEFINE n == Len(a)
           s == SaidOf(a)
           b == Tail(a)
           S == {s[i] : i \in 1 .. n}
<1>1. n \in Nat \ {0} /\ DOMAIN a = 1 .. n
  BY LenProperties, EmptySeq
<1>2. s = [i \in 1 .. n |-> <<a[i].did, a[i].value>>]
  BY <1>1 DEF SaidOf
<1>3. s \in Seq(S) /\ Len(s) = n
  <2> HIDE DEF n
  <2>1. s \in [1 .. n -> S] /\ n \in Nat
    BY <1>1, <1>2
  <2> HIDE DEF s, S
  <2>2. QED
    BY <2>1, FunctionIsSeq
<1>4. b \in Seq(Said) /\ Len(b) = n - 1 /\ \A i \in 1 .. n - 1 : b[i] = a[i + 1]
  BY TailOfSaid DEF OthersOf
<1>5. s # <<>>
  BY <1>1, <1>3, EmptySeq
<1>6. /\ Tail(s) \in Seq(S) /\ Len(Tail(s)) = n - 1
      /\ \A i \in 1 .. n - 1 : Tail(s)[i] = s[i + 1]
  <2> HIDE DEF n, s, S
  <2>1. /\ Tail(s) \in Seq(S) /\ Len(Tail(s)) = Len(s) - 1
        /\ \A i \in 1 .. Len(Tail(s)) : Tail(s)[i] = s[i + 1]
    BY <1>3, <1>5, HeadTailProperties
  <2>2. QED
    BY <1>3, <2>1
<1>7. Head(s) = s[1] /\ 1 \in 1 .. n
  BY <1>1
<1>8. SaidOf(b) = [i \in 1 .. n - 1 |-> <<b[i].did, b[i].value>>]
  <2>1. DOMAIN b = 1 .. n - 1
    BY <1>4, LenProperties
  <2>2. QED
    BY <2>1 DEF SaidOf
<1>9. Tail(s) = [i \in 1 .. n - 1 |-> Tail(s)[i]]
  <2> DEFINE w == Tail(s)
  <2>1. DOMAIN w = 1 .. n - 1 /\ w = [i \in DOMAIN w |-> w[i]]
    BY <1>6, LenProperties
  <2> HIDE DEF w
  <2>2. w = [i \in 1 .. n - 1 |-> w[i]]
    BY <2>1
  <2>3. QED
    BY <2>2 DEF w
<1>10. ASSUME NEW i \in 1 .. n - 1 PROVE <<b[i].did, b[i].value>> = Tail(s)[i]
  <2>1. i + 1 \in 1 .. n
    BY <1>1
  <2>2. Tail(s)[i] = s[i + 1] /\ b[i] = a[i + 1]
    BY <1>4, <1>6
  <2>3. QED
    BY <1>2, <2>1, <2>2
<1>11. SaidOf(b) = Tail(s)
  BY <1>8, <1>9, <1>10, Zenon
<1>12. QED
  BY <1>2, <1>5, <1>7, <1>11 DEF n

LEMMA SaidOfOneLess ==
  ASSUME NEW a \in Seq(Said), 1 \in 1 .. Len(a), NEW b, LessOne(b, a),
         b[1].did = a[1].did, b[1].value = a[1].value
  PROVE  SaidOf(b) = SaidOf(a)
<1>1. /\ DOMAIN a = 1 .. Len(a) /\ DOMAIN b = 1 .. Len(a)
      /\ \A i \in 2 .. Len(a) : b[i] = a[i]
  BY LenProperties DEF LessOne
<1>2. ASSUME NEW i \in 1 .. Len(a)
      PROVE  <<b[i].did, b[i].value>> = <<a[i].did, a[i].value>>
  <2>1. CASE i = 1
    BY <2>1
  <2>2. CASE i # 1
    <3>1. i \in 2 .. Len(a)
      BY <2>2
    <3>2. QED
      BY <1>1, <3>1
  <2>3. QED
    BY <2>1, <2>2
<1>3. QED
  BY <1>1, <1>2, Zenon DEF SaidOf

\* What the next frame makes of a listener.
LEMMA HeedsNextOnBus ==
  ASSUME QInv, LstInv, queue # <<>>, ~Foreign(queue[1]), NEW l,
         l = Heeded(lst, queue[1].b)
  PROVE  /\ Taken(air) + 1 \in 1 .. Len(FramesOf(air[1]))
         /\ air[1].left = 1 <=> Taken(air) + 1 = Len(FramesOf(air[1]))
         /\ \/ /\ With(l, air, Taken(air) + 1)
               /\ Complete(l) <=> air[1].left = 1
               /\ air[1].left = 1 => MessageOf(l) = <<air[1].did, air[1].value>>
            \/ /\ l = NotListening /\ drops # 0 /\ ~Repeats(FramesOf(air[1]))
               /\ ~Complete(l)
<1> DEFINE d == air[1].did
           p == air[1].value
           fs == FramesOf(air[1])
           z == Len(fs)
           e == air[1].left
           g == z - e
<1>1. /\ air # <<>> /\ Sent(d, p) /\ Segmented(fs, d, p)
      /\ e \in Nat \ {0} /\ e <= z /\ z \in 1 .. 37
      /\ queue[1].b = fs[z - e + 1]
  BY NextOnBus DEF QInv
<1>2. l = Heeded(lst, fs[z - e + 1])
  BY <1>1
<1>3. Taken(air) = g /\ (Between(air) <=> e = z)
  BY <1>1 DEF Taken, Between
<1>4. /\ Between(air) => lst.want # SeqFirst
      /\ ~Between(air) => \/ Follows(lst, d, p, g)
                          \/ drops # 0 /\ ~Repeats(fs)
                             /\ (lst = NotListening \/ (g > 1 /\ Follows(lst, d, p, g - 1)))
  BY <1>3 DEF LstInv, Behind, With
<1> HIDE DEF d, p, fs, z, e
<1>5. /\ g + 1 \in 1 .. z /\ (e = 1 <=> g + 1 = z) /\ z - e + 1 = g + 1
      /\ (e = z <=> g = 0) /\ (g # 0 => g \in 1 .. z - 1)
  BY <1>1
<1>6. Follows(l, d, p, g + 1) \/ (l = NotListening /\ drops # 0 /\ ~Repeats(fs))
  <2>1. CASE g = 0
    <3>1. lst.want # SeqFirst /\ g + 1 = 1
      BY <1>3, <1>4, <1>5, <2>1
    <3>2. l = Heeded(lst, fs[1])
      BY <1>2, <1>5, <3>1
    <3>3. Follows(l, d, p, 1)
      BY <1>1, <3>1, <3>2, HeedsFirst
    <3>4. QED
      BY <3>1, <3>3
  <2>2. CASE g # 0 /\ Follows(lst, d, p, g)
    <3>1. g \in 1 .. Len(fs) - 1 /\ l = Heeded(lst, fs[g + 1])
      BY <1>2, <1>5, <2>2 DEF z
    <3> HIDE DEF g
    <3>2. Follows(l, d, p, g + 1)
      BY <1>1, <2>2, <3>1, HeedsNext
    <3>3. QED
      BY <3>2
  <2>3. CASE g # 0 /\ drops # 0 /\ ~Repeats(fs)
             /\ (lst = NotListening \/ (g > 1 /\ Follows(lst, d, p, g - 1)))
    <3>1. g \in 1 .. Len(fs) - 1 /\ l = Heeded(lst, fs[g + 1])
      BY <1>2, <1>5, <2>3 DEF z
    <3> HIDE DEF g
    <3>2. l = NotListening
      BY <1>1, <2>3, <3>1, OutOfStep
    <3>3. QED
      BY <2>3, <3>2
  <2>4. QED
    BY <1>3, <1>4, <1>5, <2>1, <2>2, <2>3
<1>7. ASSUME Follows(l, d, p, g + 1)
      PROVE  (Complete(l) <=> e = 1) /\ (e = 1 => MessageOf(l) = <<d, p>>)
  <2> DEFINE h == g + 1
  <2>1. h \in 1 .. Len(fs) /\ Follows(l, d, p, h) /\ (e = 1 <=> h = Len(fs))
    BY <1>5, <1>7 DEF z
  <2> HIDE DEF h
  <2>2. (Complete(l) <=> h = Len(fs)) /\ (h = Len(fs) => MessageOf(l) = <<d, p>>)
    BY <1>1, <2>1, CompleteAtLast
  <2>3. QED
    BY <2>1, <2>2
<1>8. (g + 1 \in 1 .. z) /\ (e = 1 <=> g + 1 = z)
  BY <1>5
<1> HIDE DEF g
<1>9. Taken(air) + 1 \in 1 .. z /\ (e = 1 <=> Taken(air) + 1 = z)
  BY <1>3, <1>8
<1>10. \/ /\ With(l, air, Taken(air) + 1)
          /\ Complete(l) <=> e = 1
          /\ e = 1 => MessageOf(l) = <<d, p>>
       \/ /\ l = NotListening /\ drops # 0 /\ ~Repeats(fs)
          /\ ~Complete(l)
  <2>1. CASE Follows(l, d, p, g + 1)
    <3>1. With(l, air, Taken(air) + 1)
      BY <1>3, <2>1 DEF With, d, p
    <3>2. QED
      BY <1>7, <2>1, <3>1
  <2>2. CASE l = NotListening /\ drops # 0 /\ ~Repeats(fs)
    BY <2>2, NotListeningIs
  <2>3. QED
    BY <1>6, <2>1, <2>2
<1>11. QED
  BY <1>9, <1>10 DEF d, p, fs, z, e

\* What remains when a frame of the first message has left the queue.
LEMMA RestOnBus ==
  ASSUME QInv, queue # <<>>, Gone, ~Foreign(queue[1])
  PROVE  /\ air[1].left = 1 =>
              /\ Between(air') /\ air # <<>>
              /\ SaidOf(air) # <<>> /\ Head(SaidOf(air)) = <<air[1].did, air[1].value>>
              /\ SaidOf(air') = Tail(SaidOf(air))
         /\ air[1].left # 1 =>
              /\ ~Between(air') /\ Taken(air') = Taken(air) + 1
              /\ FramesOf(air'[1]) = FramesOf(air[1])
              /\ air'[1].did = air[1].did /\ air'[1].value = air[1].value
              /\ SaidOf(air') = SaidOf(air)
<1>0. TypeInv /\ QueueInv /\ air \in Seq(Said)
  BY DEF QInv, TypeInv
<1>1. /\ air # <<>> /\ 1 \in 1 .. Len(air)
      /\ air[1].left \in Nat \ {0} /\ air[1].left <= Len(FramesOf(air[1]))
      /\ Len(FramesOf(air[1])) \in 1 .. 37
  BY <1>0, NextOnBus
<1>2. /\ air' \in Seq(Said)
      /\ air[1].left = 1 => air' = Tail(air)
      /\ air[1].left # 1 => air[1].left > 1 /\ air' = [air EXCEPT ![1].left = @ - 1]
  BY <1>0, GoneIs
<1>3. ASSUME air[1].left = 1
      PROVE  /\ Between(air')
             /\ SaidOf(air) # <<>> /\ Head(SaidOf(air)) = <<air[1].did, air[1].value>>
             /\ SaidOf(air') = Tail(SaidOf(air))
  <2>1. Between(air')
    <3>1. SUFFICES ASSUME air' # <<>> PROVE air'[1].left = Len(FramesOf(air'[1]))
      BY DEF Between
    <3>2. 1 \in 1 .. Len(air')
      BY <1>2, <3>1, TailOfSaid
    <3>3. OthersOf(air', air)
      BY <1>0, <1>1, <1>2, <1>3, TailOfSaid
    <3>4. air'[1] = air[2] /\ 2 \in 1 .. Len(air)
      <4>1. Len(air') = Len(air) - 1 /\ Len(air) \in Nat /\ air'[1] = air[1 + 1]
        BY <1>0, <3>2, <3>3, LenProperties DEF OthersOf
      <4>2. QED
        BY <3>2, <4>1
    <3>5. PICK at : Laid(queue, air, at)
      BY <1>0 DEF QueueInv
    <3>6. air[2].left = Len(FramesOf(air[2]))
      BY <3>4, <3>5 DEF Laid, WholeBut1
    <3>7. QED
      BY <3>4, <3>6
  <2>2. QED
    BY <1>0, <1>1, <1>2, <1>3, <2>1, SaidOfTail
<1>4. ASSUME air[1].left # 1
      PROVE  /\ ~Between(air') /\ Taken(air') = Taken(air) + 1
             /\ FramesOf(air'[1]) = FramesOf(air[1])
             /\ air'[1].did = air[1].did /\ air'[1].value = air[1].value
             /\ SaidOf(air') = SaidOf(air)
  <2>1. LessOne(air', air) /\ air'[1].did = air[1].did /\ air'[1].value = air[1].value
    BY <1>0, <1>1, <1>2, <1>4, OneLess
  <2>2. SaidOf(air') = SaidOf(air)
    BY <1>0, <1>1, <2>1, SaidOfOneLess
  <2>3. /\ FramesOf(air'[1]) = FramesOf(air[1]) /\ air'[1].left = air[1].left - 1
        /\ Len(air') = Len(air)
    BY <2>1 DEF LessOne
  <2>4. air' # <<>>
    <3>1. Len(air') # 0
      BY <1>1, <2>3
    <3>2. QED
      BY <3>1, EmptySeq
  <2> DEFINE z == Len(FramesOf(air[1]))
             e == air[1].left
  <2>5. e \in Nat \ {0} /\ e <= z /\ z \in 1 .. 37
    BY <1>1
  <2>6. Taken(air') = z - (e - 1) /\ Taken(air) = z - e /\ (Between(air') <=> e - 1 = z)
    BY <2>3, <2>4 DEF Taken, Between
  <2> HIDE DEF z, e
  <2>7. Taken(air') = Taken(air) + 1 /\ ~Between(air')
    BY <2>5, <2>6
  <2>8. QED
    BY <2>1, <2>2, <2>3, <2>7
<1>5. QED
  BY <1>1, <1>3, <1>4

LEMMA SendLst ==
  ASSUME IInv, NEW m \in Message, Send(m)
  PROVE  LstInv'
<1> DEFINE fs == Frames[DidOf[m]][Encoded(m)]
           x == [did |-> DidOf[m], value |-> Encoded(m), left |-> Len(fs)]
<1>1. Whole(x, fs) /\ Added(air, x, air') /\ air \in Seq(Said)
  BY SendIs DEF IInv, QInv, TypeInv
<1>2. UNCHANGED <<lst, drops>> /\ LstInv
  BY DEF Send, IInv
<1> HIDE DEF fs, x
<1>3. CASE air = <<>>
  <2>1. air'[1] = x
    BY <1>1, <1>3 DEF Added
  <2>2. Between(air')
    BY <1>1, <2>1 DEF Whole, Between
  <2>3. Between(air)
    BY <1>3 DEF Between
  <2>4. QED
    BY <1>2, <2>2, <2>3 DEF LstInv
<1>4. CASE air # <<>>
  <2>1. 1 \in 1 .. Len(air)
    BY <1>1, <1>4, TailOfSaid
  <2>2. air'[1] = air[1] /\ Len(air') = Len(air) + 1
    BY <1>1, <2>1 DEF Added
  <2>3. air' # <<>>
    <3>1. Len(air') # 0
      BY <2>1, <2>2
    <3>2. QED
      BY <3>1, EmptySeq
  <2>4. (Between(air') <=> Between(air)) /\ Taken(air') = Taken(air)
    BY <1>4, <2>2, <2>3 DEF Between, Taken
  <2>5. QED
    BY <1>2, <2>2, <2>4 DEF LstInv, Behind, With
<1>5. QED
  BY <1>3, <1>4

\* The listener, and what it has heard, when it hears a frame.
LEMMA PassLst ==
  ASSUME IInv, Pass
  PROVE  /\ LstInv'
         /\ \/ SaidOf(air') = SaidOf(air) /\ heard' = heard
            \/ /\ SaidOf(air) # <<>> /\ SaidOf(air') = Tail(SaidOf(air))
               /\ heard' \in {heard, Head(SaidOf(air))}
<1>0. QInv /\ LstInv /\ TypeInv /\ QueueInv /\ queue # <<>> /\ Gone /\ drops' = drops
  BY DEF IInv, QInv, Pass
<1>1. /\ Head(queue) = queue[1] /\ (Head(queue).id = "meter" <=> Foreign(queue[1]))
      /\ Foreign(queue[1]) => air' = air
  BY <1>0, GoneIs
<1>2. CASE Foreign(queue[1])
  <2>1. UNCHANGED <<lst, heard, air, drops>>
    BY <1>0, <1>1, <1>2 DEF Pass
  <2>2. QED
    BY <1>0, <2>1 DEF LstInv
<1>3. CASE ~Foreign(queue[1])
  <2> DEFINE l == Heeded(lst, queue[1].b)
  <2>1. /\ lst' = IF Complete(l) THEN NotListening ELSE l
        /\ heard' = IF Complete(l) THEN MessageOf(l) ELSE heard
    BY <1>1, <1>3 DEF Pass
  <2>2. \/ /\ With(l, air, Taken(air) + 1)
           /\ Complete(l) <=> air[1].left = 1
           /\ air[1].left = 1 => MessageOf(l) = <<air[1].did, air[1].value>>
        \/ /\ l = NotListening /\ drops # 0 /\ ~Repeats(FramesOf(air[1]))
           /\ ~Complete(l)
    BY <1>0, <1>3, HeedsNextOnBus
  <2> HIDE DEF l
  <2>3. CASE air[1].left = 1
    <3>1. /\ Between(air') /\ SaidOf(air) # <<>> /\ SaidOf(air') = Tail(SaidOf(air))
          /\ Head(SaidOf(air)) = <<air[1].did, air[1].value>>
      BY <1>0, <1>3, <2>3, RestOnBus
    <3>2. lst' = NotListening
      BY <2>1, <2>2, <2>3
    <3>3. heard' \in {heard, <<air[1].did, air[1].value>>}
      BY <2>1, <2>2, <2>3
    <3>4. LstInv'
      BY <3>1, <3>2, NotListeningIs DEF LstInv
    <3>5. QED
      BY <3>1, <3>3, <3>4
  <2>4. CASE air[1].left # 1
    <3>1. /\ ~Between(air') /\ Taken(air') = Taken(air) + 1
          /\ FramesOf(air'[1]) = FramesOf(air[1])
          /\ air'[1].did = air[1].did /\ air'[1].value = air[1].value
          /\ SaidOf(air') = SaidOf(air)
      BY <1>0, <1>3, <2>4, RestOnBus
    <3>2. lst' = l /\ heard' = heard
      BY <2>1, <2>2, <2>4
    <3>3. \/ With(lst', air', Taken(air'))
          \/ lst' = NotListening /\ drops' # 0 /\ ~Repeats(FramesOf(air'[1]))
      BY <1>0, <2>2, <2>4, <3>1, <3>2 DEF With
    <3>4. LstInv'
      BY <3>1, <3>3 DEF LstInv, Behind
    <3>5. QED
      BY <3>1, <3>2, <3>4
  <2>5. QED
    BY <2>3, <2>4
<1>4. QED
  BY <1>2, <1>3

\* When a frame is lost, the first one that is.
LEMMA DropLst ==
  ASSUME MaxDrop <= 1, IInv, Drop
  PROVE  /\ LstInv' /\ heard' = heard
         /\ \/ SaidOf(air') = SaidOf(air)
            \/ SaidOf(air) # <<>> /\ SaidOf(air') = Tail(SaidOf(air))
<1>0. /\ QInv /\ LstInv /\ TypeInv /\ QueueInv /\ queue # <<>> /\ Gone
      /\ UNCHANGED <<lst, heard>>
  BY DEF IInv, QInv, Drop
<1>1. drops = 0 /\ drops' = 1
  <2>1. drops \in Nat /\ drops < MaxDrop /\ drops' = drops + 1 /\ MaxDrop \in Nat
    BY <1>0, CyclicAssumption DEF TypeInv, Drop
  <2>2. QED
    BY <2>1
<1>2. /\ Head(queue) = queue[1] /\ (Head(queue).id = "meter" <=> Foreign(queue[1]))
      /\ Foreign(queue[1]) => air' = air
  BY <1>0, GoneIs
<1>3. CASE Foreign(queue[1])
  <2>1. UNCHANGED <<lst, heard, air>>
    BY <1>0, <1>2, <1>3
  <2>2. QED
    BY <1>0, <1>1, <2>1 DEF LstInv
<1>4. CASE ~Foreign(queue[1])
  <2> DEFINE fs == FramesOf(air[1])
             z == Len(fs)
             e == air[1].left
             g == z - e
  <2>1. /\ air # <<>> /\ 1 \in 1 .. Len(air)
        /\ e \in Nat \ {0} /\ e <= z /\ z \in 1 .. 37
    BY <1>0, <1>4, NextOnBus
  <2>2. ~Repeats(fs)
    <3>1. queue[1] \in Entry /\ Head(air) = air[1]
      BY <1>0, <2>1, TailIs, TailOfSaid DEF TypeInv
    <3>2. Head(queue).id = "cyclic"
      BY <1>2, <1>4, <3>1 DEF Entry
    <3>3. QED
      BY <3>1, <3>2 DEF Drop, FramesOf
  <2>3. Taken(air) = g /\ (Between(air) <=> e = z) /\ z <= 16
    BY <2>1, <2>2 DEF Taken, Between, Repeats
  <2>4. /\ e = z => lst = NotListening
        /\ e # z => With(lst, air, g)
    BY <1>0, <1>1, <2>3 DEF LstInv
  <2> HIDE DEF fs, z, e
  <2>5. (e = z <=> g = 0) /\ (g # 0 => g + 1 > 1) /\ g \in Nat /\ (e = 1 => g + 1 = z)
    BY <2>1
  <2>6. CASE e = 1
    <3>1. /\ Between(air') /\ SaidOf(air) # <<>> /\ SaidOf(air') = Tail(SaidOf(air))
      BY <1>0, <1>4, <2>6, RestOnBus DEF e
    <3>2. lst.want # SeqFirst
      <4>1. CASE e = z
        BY <2>4, <4>1, NotListeningIs
      <4>2. CASE e # z
        <5>1. lst.want = 32 + ((g + 1) % 16)
          BY <2>4, <4>2 DEF With, Follows
        <5>2. g + 1 \in 2 .. 16
          BY <2>1, <2>3, <2>5, <2>6, <4>2
        <5> HIDE DEF g
        <5>3. (g + 1) % 16 # 1
          BY <5>2
        <5>4. (g + 1) % 16 \in Int
          BY <5>2
        <5>5. QED
          BY <5>1, <5>3, <5>4 DEF SeqFirst
      <4>3. QED
        BY <4>1, <4>2
    <3>3. LstInv'
      BY <1>0, <1>1, <3>1, <3>2 DEF LstInv
    <3>4. QED
      BY <1>0, <3>1, <3>3
  <2>7. CASE e # 1
    <3>1. /\ ~Between(air') /\ Taken(air') = Taken(air) + 1
          /\ FramesOf(air'[1]) = fs
          /\ air'[1].did = air[1].did /\ air'[1].value = air[1].value
          /\ SaidOf(air') = SaidOf(air)
      BY <1>0, <1>4, <2>7, RestOnBus DEF e, fs
    <3>2. Taken(air') = g + 1
      BY <2>3, <3>1
    <3>3. lst = NotListening \/ (Taken(air') > 1 /\ With(lst, air, g))
      BY <2>4, <2>5, <3>2
    <3>4. Taken(air') - 1 = g
      BY <2>5, <3>2
    <3> HIDE DEF g
    <3>5. With(lst, air', g) <=> With(lst, air, g)
      BY <3>1 DEF With
    <3>6. Behind(lst, air')
      BY <2>2, <3>1, <3>3, <3>4, <3>5 DEF Behind
    <3>7. LstInv'
      BY <1>0, <1>1, <3>1, <3>6 DEF LstInv
    <3>8. QED
      BY <1>0, <3>1, <3>7
  <2>8. QED
    BY <2>6, <2>7
<1>5. QED
  BY <1>3, <1>4

LEMMA IInvNext == MaxDrop <= 1 /\ IInv /\ [Next]_vars => IInv'
<1> SUFFICES ASSUME MaxDrop <= 1, IInv, [Next]_vars PROVE IInv'
  OBVIOUS
<1>1. QInv'
  BY QInvNext DEF IInv
<1>2. LstInv'
  <2>1. CASE Pass
    BY <2>1, PassLst
  <2>2. CASE Drop
    BY <2>2, DropLst
  <2>3. CASE \E m \in Message : Send(m)
    BY <2>3, SendLst
  <2>4. CASE UNCHANGED <<lst, air, drops>>
    BY <2>4 DEF IInv, LstInv
  <2>5. QED
    BY <2>1, <2>2, <2>3, <2>4
    DEF Next, Start, Stop, StopReturns, MeterSend, Write, ClockTicks, Skip, vars
<1>3. QED
  BY <1>1, <1>2 DEF IInv

-----------------------------------------------------------------------------
(* Refinement *)

Now == [m \in Message |-> Encoded(m)]

LEMMA BroadcastInit == Init => Spoken!BInit
<1> SUFFICES ASSUME Init PROVE Spoken!BInit
  OBVIOUS
<1>1. air = <<>> /\ heard = <<>> /\ DOMAIN air = {}
  BY DEF Init
<1>2. [i \in DOMAIN air |-> <<air[i].did, air[i].value>>] = <<>>
  BY <1>1
<1>3. QED
  BY <1>1, <1>2 DEF Spoken!BInit

\* Every step is one of the abstract specification, or none.
LEMMA BroadcastStep ==
  ASSUME MaxDrop <= 1, IInv, [Next]_vars
  PROVE  [Spoken!BNext]_Spoken!bvars
<1>1. CASE UNCHANGED <<air, heard>>
  BY <1>1 DEF Spoken!BNext, Spoken!Changes
<1>2. ASSUME SaidOf(air') = SaidOf(air), heard' = heard
      PROVE  Spoken!BNext
  BY <1>2 DEF Spoken!BNext, Spoken!Changes, SaidOf
<1>3. ASSUME NEW m \in Message, Send(m) PROVE Spoken!BNext
  <2> DEFINE fs == Frames[DidOf[m]][Encoded(m)]
             x == [did |-> DidOf[m], value |-> Encoded(m), left |-> Len(fs)]
  <2>1. Added(air, x, air') /\ air \in Seq(Said)
    BY <1>3, SendIs DEF IInv, QInv, TypeInv
  <2>2. x.did = DidOf[m] /\ x.value = Encoded(m)
    OBVIOUS
  <2> HIDE DEF x
  <2>3. SaidOf(air') = Append(SaidOf(air), <<DidOf[m], Encoded(m)>>)
    BY <2>1, <2>2, SaidOfAppend
  <2>4. UNCHANGED <<store, now, heard>>
    BY <1>3 DEF Send
  <2>5. UNCHANGED Now /\ Now[m] = Encoded(m)
    BY <2>4 DEF Now, Encoded
  <2>6. Spoken!Say(m)
    BY <2>3, <2>4, <2>5 DEF Spoken!Say, SaidOf, Now
  <2>7. QED
    BY <2>6 DEF Spoken!BNext
<1>4. ASSUME UNCHANGED <<store, now>>, SaidOf(air) # <<>>, SaidOf(air') = Tail(SaidOf(air)),
             heard' \in {heard, Head(SaidOf(air))}
      PROVE  Spoken!BNext
  <2>1. UNCHANGED Now
    BY <1>4 DEF Now, Encoded
  <2>2. Spoken!Hear \/ Spoken!Lose
    BY <1>4, <2>1 DEF Spoken!Hear, Spoken!Lose, SaidOf, Now
  <2>3. QED
    BY <2>2 DEF Spoken!BNext
<1>5. CASE Pass
  <2>1. \/ SaidOf(air') = SaidOf(air) /\ heard' = heard
        \/ /\ SaidOf(air) # <<>> /\ SaidOf(air') = Tail(SaidOf(air))
           /\ heard' \in {heard, Head(SaidOf(air))}
    BY <1>5, PassLst
  <2>2. UNCHANGED <<store, now>>
    BY <1>5 DEF Pass
  <2>3. QED
    BY <1>2, <1>4, <2>1, <2>2
<1>6. CASE Drop
  <2>1. /\ heard' = heard
        /\ \/ SaidOf(air') = SaidOf(air)
           \/ SaidOf(air) # <<>> /\ SaidOf(air') = Tail(SaidOf(air))
    BY <1>6, DropLst
  <2>2. UNCHANGED <<store, now>>
    BY <1>6 DEF Drop
  <2>3. QED
    BY <1>2, <1>4, <2>1, <2>2
<1>7. QED
  BY <1>1, <1>3, <1>5, <1>6
  DEF Next, Start, Stop, StopReturns, MeterSend, Write, ClockTicks, Skip, vars

\* The messages of a device implement Broadcast, for any messages, values and
\* number of frames queued, when at most one frame is lost: a listener hears
\* values of one instant, whole and in order, or nothing (cyclic.py:162-163,
\* collect.py:94-161).  With two losses it may take frames of one message for
\* those of another, as their sequence bytes may follow on each other.
THEOREM HearsWholeValues ==
  ASSUME MaxDrop <= 1
  PROVE  Spec => IsBroadcast
<1>1. Init => IInv
  <2>1. Init => QInv
    BY QInvInit
  <2>2. Init => LstInv
    BY NotListeningIs DEF Init, LstInv, Between
  <2>3. QED
    BY <2>1, <2>2 DEF IInv
<1>2. IInv /\ [Next]_vars => IInv'
  BY IInvNext
<1>3. IInv /\ [Next]_vars => [Spoken!BNext]_Spoken!bvars
  BY BroadcastStep
<1>4. QED
  BY <1>1, <1>2, <1>3, BroadcastInit, PTL DEF Spec, IsBroadcast, Spoken!BSpec
=============================================================================
