--------------------------- MODULE ProtocolProofs --------------------------
(***************************************************************************)
(* Lemmas on the operators that Device, Link, DoIP and Session are built   *)
(* from, for every frame size and set of symbols: what segmentation,       *)
(* assembler, handlers and fault injector return, what a UDS request       *)
(* leaves alone, and what a receiver holds after each frame of a response. *)
(***************************************************************************)
EXTENDS Faults, SequenceTheorems, TLAPS

-----------------------------------------------------------------------------
(* Sequences *)

\* A function on 1 .. n is a sequence, empty where n is negative.
LEMMA FunctionIsSeq ==
  ASSUME NEW S, NEW n \in Int, NEW f \in [1 .. n -> S]
  PROVE  /\ f \in Seq(S)
         /\ Len(f) = IF n >= 0 THEN n ELSE 0
<1>1. CASE n >= 0
  BY <1>1
<1>2. CASE n < 0
  <2>1. 1 .. n = 1 .. 0
    BY <1>2
  <2>2. QED
    BY <1>2, <2>1
<1>3. QED
  BY <1>1, <1>2

\* A slice of a sequence is a sequence; a prefix slice has the length asked
\* for when there is enough to slice.
LEMMA SliceType ==
  ASSUME NEW S, NEW s \in Seq(S), NEW i \in Nat \ {0}, NEW j \in Int, j <= Len(s)
  PROVE  /\ SubSeq(s, i, j) \in Seq(S)
         /\ Len(SubSeq(s, i, j)) = IF i <= j THEN j - i + 1 ELSE 0
<1>1. \A k \in i .. j : s[k] \in S
  BY ElementOfSeq
<1>2. QED
  BY <1>1, SubSeqProperties

\* Take(s, n) is a sequence of at most n elements.
LEMMA TakeType ==
  ASSUME NEW S, NEW s \in Seq(S), NEW n \in Int
  PROVE  /\ Take(s, n) \in Seq(S)
         /\ n >= 0 => Len(Take(s, n)) <= n
<1>1. Smaller(n, Len(s)) \in Int /\ Smaller(n, Len(s)) <= Len(s) /\ Smaller(n, Len(s)) <= n
  BY LenProperties DEF Smaller
<1>2. QED
  BY <1>1, SliceType DEF Take

\* Padding adds symbols of the same set.
LEMMA PaddedType ==
  ASSUME NEW s \in Seq(Byte), NEW n \in Int
  PROVE  Padded(s, n) \in Seq(Byte)
<1> DEFINE pad == [i \in 1 .. n - Len(s) |-> PadByte]
<1>1. PadByte \in Byte
  BY DEF PadByte, Byte, HeaderByte
<1>2. n - Len(s) \in Int /\ pad \in [1 .. n - Len(s) -> Byte]
  BY <1>1, LenProperties
<1>3. pad \in Seq(Byte)
  BY <1>2, FunctionIsSeq
<1>4. QED
  BY <1>3, ConcatProperties DEF Padded

-----------------------------------------------------------------------------
(* ISO-TP *)

LEMMA FlowControlType == FlowControl \in Frame(Byte)
BY DEF FlowControl, Frame, FrameType

\* segment() makes frames, and at least one (isotp.py:76).
LEMMA SegmentType ==
  ASSUME NEW p \in Payload
  PROVE  Segment(p) \in Seq(Frame(Byte)) /\ Segment(p) # <<>>
<1> DEFINE cfs == [k \in 1 .. CFCount(p) |-> ConsecutiveFrame(p, k)]
<1>0. p \in Seq(Byte) /\ Len(p) \in Nat
  BY LenProperties DEF Payload
<1>1. CASE Len(p) <= SFCap
  <2>1. SingleFrame(p) \in Frame(Byte)
    BY <1>0, PaddedType, IsoTpAssumption DEF SingleFrame, Frame, FrameType
  <2>2. QED
    BY <1>1, <2>1 DEF Segment
<1>2. CASE Len(p) > SFCap
  <2>1. FirstFrame(p) \in Frame(Byte)
    BY <1>0, <1>2, SliceType, IsoTpAssumption DEF FirstFrame, Frame, FrameType
  <2>2. CFCount(p) \in Int
    BY <1>0, IsoTpAssumption DEF CFCount
  <2>3. ASSUME NEW k \in 1 .. CFCount(p)
        PROVE  ConsecutiveFrame(p, k) \in Frame(Byte)
    <3>1. (k - 1) * CFCap \in Nat /\ k * CFCap \in Nat
      BY IsoTpAssumption, <2>2
    <3>2. /\ FFCap + (k - 1) * CFCap + 1 \in Nat \ {0}
          /\ Smaller(FFCap + k * CFCap, Len(p)) \in Int
          /\ Smaller(FFCap + k * CFCap, Len(p)) <= Len(p)
      BY <1>0, <3>1, IsoTpAssumption DEF Smaller
    <3>3. Chunk(p, k) \in Seq(Byte)
      BY <1>0, <3>2, SliceType DEF Chunk
    <3>4. k % SeqWrap \in Nat
      BY <2>2, IsoTpAssumption
    <3>5. QED
      BY <3>3, <3>4, PaddedType, IsoTpAssumption
      DEF ConsecutiveFrame, Frame, FrameType
  <2>4. cfs \in Seq(Frame(Byte))
    BY <2>2, <2>3, FunctionIsSeq
  <2>5. <<FirstFrame(p)>> \in Seq(Frame(Byte)) /\ Len(<<FirstFrame(p)>>) = 1
    BY <2>1
  <2>6. QED
    BY <1>0, <1>2, <2>4, <2>5, ConcatProperties, IsoTpAssumption DEF Segment
<1>3. QED
  BY <1>0, <1>1, <1>2, IsoTpAssumption

\* The assembler stays an assembler, and a frame whose announced length fits
\* MaxLen keeps an assembly in progress short of a length that fits.
LEMMA FedType ==
  ASSUME NEW a \in Assembler(Byte), NEW f \in Frame(Byte)
  PROVE  /\ Fed(a, f) \in Assembler(Byte)
         /\ a.want <= MaxLen /\ (f.t = "FF" => f.n <= MaxLen)
              => Fed(a, f).want <= MaxLen
         /\ (a.on => Len(a.buf) < a.want)
              => (Fed(a, f).on => Len(Fed(a, f).buf) < Fed(a, f).want)
<1>0. /\ f.d \in Seq(Byte) /\ f.n \in Nat
      /\ a.on \in BOOLEAN /\ a.buf \in Seq(Byte) /\ a.want \in Nat /\ a.seq \in Nat
      /\ Len(a.buf) \in Nat
  BY LenProperties DEF Frame, Assembler
<1>1. Reset \in Assembler(Byte) /\ Reset.want <= MaxLen /\ ~Reset.on
  BY IsoTpAssumption DEF Reset, Assembler
<1>2. CASE IsFirst(f)
  <2>1. Take(f.d, FFCap) \in Seq(Byte) /\ Len(Take(f.d, FFCap)) <= FFCap
    BY <1>0, TakeType, IsoTpAssumption
  <2>2. Len(Take(f.d, FFCap)) < f.n
    BY <1>0, <1>2, <2>1, LenProperties, IsoTpAssumption DEF IsFirst
  <2>3. Fed(a, f) = [on |-> TRUE, want |-> f.n, buf |-> Take(f.d, FFCap), seq |-> 1]
    BY <1>2 DEF Fed, Completes, IsFirst, IsSingle, Fills, IsNext, IsMismatch
  <2>4. QED
    BY <1>0, <1>2, <2>1, <2>2, <2>3 DEF Assembler, IsFirst
<1>3. CASE Completes(a, f) \/ IsMismatch(a, f)
  <2>1. Fed(a, f) = Reset
    BY <1>3 DEF Fed, Completes, IsFirst, IsSingle, Fills, IsNext, IsMismatch
  <2>2. QED
    BY <1>1, <2>1
<1>4. CASE IsNext(a, f) /\ ~Fills(a, f)
  <2>1. Fed(a, f) = [a EXCEPT !.buf = Grown(a, f), !.seq = (a.seq + 1) % SeqWrap]
    BY <1>4 DEF Fed, Completes, IsFirst, IsSingle, Fills, IsNext, IsMismatch
  <2>2. Smaller(CFCap, a.want - Len(a.buf)) \in Int
    BY <1>0, IsoTpAssumption DEF Smaller
  <2>3. Grown(a, f) \in Seq(Byte)
    BY <1>0, <2>2, TakeType, ConcatProperties DEF Grown
  <2>4. (a.seq + 1) % SeqWrap \in Nat
    BY <1>0, IsoTpAssumption
  <2>5. Len(Grown(a, f)) < a.want
    BY <1>0, <1>4, <2>3, LenProperties DEF Fills
  <2>6. QED
    BY <1>0, <2>1, <2>3, <2>4, <2>5 DEF Assembler
<1>5. CASE ~(IsFirst(f) \/ Completes(a, f) \/ IsMismatch(a, f) \/ (IsNext(a, f) /\ ~Fills(a, f)))
  <2>1. Fed(a, f) = a
    BY <1>5 DEF Fed
  <2>2. QED
    BY <2>1
<1>6. QED
  BY <1>2, <1>3, <1>4, <1>5

\* A completed payload is no longer than MaxLen.
LEMMA PayloadType ==
  ASSUME NEW a \in Assembler(Byte), NEW f \in Frame(Byte), Completes(a, f)
  PROVE  /\ PayloadOf(a, f) \in Payload
         /\ a.want <= MaxLen => Len(PayloadOf(a, f)) <= MaxLen
<1>0. /\ f.d \in Seq(Byte) /\ f.n \in Nat
      /\ a.buf \in Seq(Byte) /\ a.want \in Nat /\ Len(a.buf) \in Nat
  BY LenProperties DEF Frame, Assembler
<1>1. CASE IsSingle(f)
  <2>1. Take(f.d, f.n) \in Seq(Byte) /\ Len(Take(f.d, f.n)) <= f.n
    BY <1>0, TakeType
  <2>2. QED
    BY <1>0, <1>1, <2>1, LenProperties, IsoTpAssumption DEF PayloadOf, IsSingle, Payload
<1>2. CASE ~IsSingle(f)
  <2>1. Smaller(CFCap, a.want - Len(a.buf)) \in Int
    BY <1>0, IsoTpAssumption DEF Smaller
  <2>2. Grown(a, f) \in Seq(Byte)
    BY <1>0, <2>1, TakeType, ConcatProperties DEF Grown
  <2>3. Take(Grown(a, f), a.want) \in Seq(Byte) /\ Len(Take(Grown(a, f), a.want)) <= a.want
    BY <1>0, <2>2, TakeType
  <2>4. QED
    BY <1>0, <1>2, <2>3, LenProperties, IsoTpAssumption DEF PayloadOf, Payload
<1>3. QED
  BY <1>1, <1>2

-----------------------------------------------------------------------------
(* The handlers *)

\* Three symbols are a payload that a frame list can carry.
LEMMA NegativeType ==
  ASSUME NEW sid \in Byte, NEW nrc \in Byte
  PROVE  /\ Negative(sid, nrc) \in Payload
         /\ Segmentable(Negative(sid, nrc))
<1>1. "7F" \in Byte
  BY DEF Byte, HeaderByte
<1>2. MaxLen >= 3
  BY IsoTpAssumption, FaultsAssumption
<1>3. QED
  BY <1>1, <1>2, IsoTpAssumption DEF Negative, Payload, Segmentable

\* What the UDS handler returns is a payload, and one that segment() takes as
\* long as every stored value leaves room for the header of a read reply.
LEMMA UdsReplyType ==
  ASSUME NEW p \in Payload, NEW st \in Store
  PROVE  /\ UdsReply(p, st) \in Payload
         /\ (\A d \in Known : Len(st[d]) <= MaxLen - 2)
              => Segmentable(UdsReply(p, st))
<1>0. /\ "22" \in Byte /\ "2E" \in Byte /\ "62" \in Byte /\ "6E" \in Byte
      /\ "11" \in Byte /\ "12" \in Byte /\ "31" \in Byte /\ <<>> \in Payload
  BY DEF Byte, HeaderByte, Payload
<1>1. p \in Seq(Byte) /\ Len(p) \in Nat /\ MaxLen \in Nat /\ MaxLen >= 3
  BY LenProperties, IsoTpAssumption, FaultsAssumption DEF Payload
<1>2. ASSUME NEW d \in Known, d \in Byte
      PROVE  /\ <<"62", d>> \o st[d] \in Payload
             /\ Len(st[d]) <= MaxLen - 2 => Segmentable(<<"62", d>> \o st[d])
  <2>1. st[d] \in Seq(Byte) /\ Len(st[d]) \in Nat
    BY LenProperties DEF Store, Payload
  <2>2. <<"62", d>> \in Seq(Byte) /\ Len(<<"62", d>>) = 2
    BY <1>0, <1>2
  <2>3. QED
    BY <1>1, <2>1, <2>2, ConcatProperties DEF Payload, Segmentable
<1>3. /\ ReadReply(p, st) \in Payload
      /\ (\A d \in Known : Len(st[d]) <= MaxLen - 2) => Segmentable(ReadReply(p, st))
  <2>1. CASE Len(p) < 2 \/ p[2] \notin Known
    BY <1>0, <2>1, NegativeType DEF ReadReply
  <2>2. CASE ~(Len(p) < 2) /\ p[2] \in Known
    <3>1. p[2] \in Byte
      BY <1>1, <2>2, ElementOfSeq
    <3>2. QED
      BY <1>2, <2>2, <3>1 DEF ReadReply
  <2>3. QED
    BY <2>1, <2>2
<1>4. WriteReply(p) \in Payload /\ Segmentable(WriteReply(p))
  <2>1. CASE Len(p) < 3 \/ ~WriteAllowed(p) \/ p[2] \notin Known
    BY <1>0, <2>1, NegativeType DEF WriteReply
  <2>2. CASE ~(Len(p) < 3 \/ ~WriteAllowed(p) \/ p[2] \notin Known)
    <3>1. p[2] \in Byte
      BY <1>1, <2>2, ElementOfSeq
    <3>2. <<"6E", p[2]>> \in Seq(Byte) /\ Len(<<"6E", p[2]>>) = 2
      BY <1>0, <3>1
    <3>3. QED
      BY <1>1, <2>2, <3>2 DEF WriteReply, Payload, Segmentable
  <2>3. QED
    BY <2>1, <2>2
<1>5. CASE p = <<>>
  BY <1>0, <1>1, <1>5 DEF UdsReply, Segmentable
<1>6. CASE p # <<>>
  <2>1. p[1] \in Byte
    BY <1>1, <1>6, ElementOfSeq, EmptySeq
  <2>2. Negative(p[1], "11") \in Payload /\ Segmentable(Negative(p[1], "11"))
    BY <1>0, <2>1, NegativeType
  <2>3. \/ p[1] = "22" /\ UdsReply(p, st) = ReadReply(p, st)
        \/ p[1] = "2E" /\ UdsReply(p, st) = WriteReply(p)
        \/ UdsReply(p, st) = Negative(p[1], "11")
    BY <1>6 DEF UdsReply
  <2>4. QED
    BY <1>3, <1>4, <2>2, <2>3
<1>7. QED
  BY <1>5, <1>6

LEMMA S77ReplyType ==
  ASSUME NEW p \in Payload
  PROVE  S77Reply(p) \in Payload /\ Segmentable(S77Reply(p))
<1>0. /\ "77" \in Byte /\ "44" \in Byte /\ "12" \in Byte /\ "31" \in Byte
      /\ <<>> \in Payload
  BY DEF Byte, HeaderByte, Payload
<1>1. p \in Seq(Byte) /\ Len(p) \in Nat /\ MaxLen \in Nat /\ MaxLen >= 3
  BY LenProperties, IsoTpAssumption, FaultsAssumption DEF Payload
<1>2. CASE p = <<>> \/ p[1] # "77"
  BY <1>0, <1>1, <1>2 DEF S77Reply, Segmentable
<1>3. CASE ~(p = <<>> \/ p[1] # "77") /\ (Len(p) < S77Header \/ p[3] \notin Known)
  BY <1>0, <1>3, NegativeType DEF S77Reply
<1>4. CASE ~(p = <<>> \/ p[1] # "77") /\ ~(Len(p) < S77Header \/ p[3] \notin Known)
  <2>1. p[2] \in Byte
    BY <1>1, <1>4, ElementOfSeq DEF S77Header
  <2>2. <<"77", p[2], "44">> \in Seq(Byte) /\ Len(<<"77", p[2], "44">>) = 3
    BY <1>0, <2>1
  <2>3. QED
    BY <1>1, <1>4, <2>2 DEF S77Reply, Payload, Segmentable
<1>5. QED
  BY <1>2, <1>3, <1>4

\* Storing a value that fits keeps the store a store whose values fit.
LEMMA StoreWrittenType ==
  ASSUME NEW st \in Store, NEW d, NEW v \in Payload
  PROVE  /\ StoreWritten(st, d, v) \in Store
         /\ (\A e \in Known : Len(st[e]) <= MaxLen - 2) /\ Len(v) <= MaxLen - 2
              => \A e \in Known : Len(StoreWritten(st, d, v)[e]) <= MaxLen - 2
BY DEF StoreWritten, Store

\* A handler leaves a store; if the payload fits MaxLen, one whose values fit.
LEMMA UdsStoreType ==
  ASSUME NEW p \in Payload, NEW st \in Store
  PROVE  /\ UdsStore(p, st) \in Store
         /\ (\A e \in Known : Len(st[e]) <= MaxLen - 2) /\ Len(p) <= MaxLen
              => \A e \in Known : Len(UdsStore(p, st)[e]) <= MaxLen - 2
<1>0. p \in Seq(Byte) /\ Len(p) \in Nat /\ MaxLen \in Nat
  BY LenProperties, IsoTpAssumption DEF Payload
<1>1. CASE p # <<>> /\ p[1] = "2E" /\ WriteAllowed(p)
  <2>1. WriteData(p) \in Payload /\ Len(WriteData(p)) = Len(p) - 2
    BY <1>0, <1>1, SliceType DEF WriteData, WriteAllowed, Payload
  <2>2. UdsStore(p, st) = StoreWritten(st, p[2], WriteData(p))
    BY <1>1 DEF UdsStore
  <2>3. QED
    BY <1>0, <2>1, <2>2, StoreWrittenType
<1>2. CASE ~(p # <<>> /\ p[1] = "2E" /\ WriteAllowed(p))
  BY <1>2 DEF UdsStore
<1>3. QED
  BY <1>1, <1>2

LEMMA S77StoreType ==
  ASSUME NEW p \in Payload, NEW st \in Store
  PROVE  /\ S77Store(p, st) \in Store
         /\ (\A e \in Known : Len(st[e]) <= MaxLen - 2) /\ Len(p) <= MaxLen
              => \A e \in Known : Len(S77Store(p, st)[e]) <= MaxLen - 2
<1>0. p \in Seq(Byte) /\ Len(p) \in Nat /\ MaxLen \in Nat
  BY LenProperties, IsoTpAssumption DEF Payload
<1>1. CASE p # <<>> /\ p[1] = "77" /\ Len(p) >= S77Header
  <2>1. S77Data(p) \in Payload /\ Len(S77Data(p)) <= Len(p) - 3
    <3>1. SubSeq(p, 5, Len(p)) \in Seq(Byte) /\ Len(SubSeq(p, 5, Len(p))) <= Len(p) - 3
      <4>1. Len(p) >= 4
        BY <1>1 DEF S77Header
      <4>2. CASE Len(p) >= 5
        BY <1>0, <4>2, SliceType
      <4>3. CASE Len(p) < 5
        BY <1>0, <4>1, <4>3, SubSeqEmpty, EmptySeq
      <4>4. QED
        BY <1>0, <4>2, <4>3
    <3>2. SubSeq(p, 4, Len(p)) \in Seq(Byte) /\ Len(SubSeq(p, 4, Len(p))) = Len(p) - 3
      <4>1. Len(p) >= 4
        BY <1>1 DEF S77Header
      <4>2. QED
        BY <1>0, <4>1, SliceType
    <3>3. QED
      BY <1>0, <3>1, <3>2 DEF S77Data, Payload
  <2>2. S77Store(p, st) = StoreWritten(st, p[3], S77Data(p))
    BY <1>1 DEF S77Store
  <2>3. Len(S77Data(p)) \in Nat
    BY <2>1, LenProperties DEF Payload
  <2>4. QED
    BY <1>0, <2>1, <2>2, <2>3, StoreWrittenType
<1>2. CASE ~(p # <<>> /\ p[1] = "77" /\ Len(p) >= S77Header)
  BY <1>2 DEF S77Store
<1>3. QED
  BY <1>1, <1>2

\* A UDS request leaves the protected data points alone (uds.py:146).
LEMMA UdsKeepsProtected ==
  ASSUME NEW p \in Payload, NEW st \in Store, NEW d \in Protected \cap Known
  PROVE  UdsStore(p, st)[d] = st[d]
BY DEF UdsStore, StoreWritten, WriteAllowed, Store

-----------------------------------------------------------------------------
(* Fault injection *)

\* Replacing the frame at a position of a frame list.
LEMMA ReplaceFrame ==
  ASSUME NEW fs \in Seq(Frame(Byte)), NEW i \in 1 .. Len(fs), NEW g \in Frame(Byte)
  PROVE  [fs EXCEPT ![i] = g] \in Seq(Frame(Byte)) /\ [fs EXCEPT ![i] = g] # <<>>
<1>1. /\ [fs EXCEPT ![i] = g] \in Seq(Frame(Byte))
      /\ Len([fs EXCEPT ![i] = g]) = Len(fs)
  BY ExceptSeq
<1>2. QED
  BY <1>1, LenProperties, EmptySeq

\* Other data, or another number, in a frame.
LEMMA FrameParts ==
  ASSUME NEW f \in Frame(Byte)
  PROVE  /\ f.d \in Seq(Byte) /\ f.n \in Nat
         /\ \A d \in Seq(Byte) : [f EXCEPT !.d = d] \in Frame(Byte)
         /\ \A n \in Nat : [f EXCEPT !.n = n] \in Frame(Byte)
BY DEF Frame

\* Another symbol at some place of a data field.
LEMMA ReplaceSymbol ==
  ASSUME NEW d \in Seq(Byte), NEW i, NEW x \in Byte
  PROVE  [d EXCEPT ![i] = x] \in Seq(Byte)
<1>1. Len(d) \in Nat /\ d \in [1 .. Len(d) -> Byte]
  BY LenProperties
<1>2. [d EXCEPT ![i] = x] \in [1 .. Len(d) -> Byte]
  BY <1>1
<1>3. QED
  BY <1>1, <1>2, FunctionIsSeq

\* Whatever fault is drawn, what goes out is a list of one frame or more.
LEMMA InjectedType ==
  ASSUME NEW fs \in Seq(Frame(Byte)), fs # <<>>, NEW gs \in Injected(fs)
  PROVE  gs \in Seq(Frame(Byte)) /\ gs # <<>>
<1>0. /\ Len(fs) \in Nat \ {0}
      /\ \A i \in 1 .. Len(fs) :
           fs[i] \in Frame(Byte) /\ fs[i].d \in Seq(Byte) /\ fs[i].n \in Nat
  <2>1. Len(fs) \in Nat \ {0}
    BY EmptySeq
  <2>2. \A i \in 1 .. Len(fs) : fs[i] \in Frame(Byte)
    BY ElementOfSeq
  <2>3. QED
    BY <2>1, <2>2, FrameParts
<1>1. \A x \in {"??", "00", "AA", "CC"} : x \in Byte
  BY DEF Byte, HeaderByte
<1>2. CASE gs \in WrongDid(fs)
  <2>1. PICK x \in Did \cup {"??"} : gs = [fs EXCEPT ![1].d[2] = x]
    BY <1>2 DEF WrongDid
  <2>2. x \in Byte
    BY <1>1 DEF Byte
  <2>3. [fs[1].d EXCEPT ![2] = x] \in Seq(Byte)
    <3>1. fs[1].d \in Seq(Byte)
      BY <1>0
    <3>2. QED
      BY <2>2, <3>1, ReplaceSymbol
  <2>4. [fs[1] EXCEPT !.d = [fs[1].d EXCEPT ![2] = x]] \in Frame(Byte)
    <3>1. fs[1] \in Frame(Byte)
      BY <1>0
    <3>2. QED
      BY <2>3, <3>1, FrameParts
  <2>5. gs = [fs EXCEPT ![1] = [fs[1] EXCEPT !.d = [fs[1].d EXCEPT ![2] = x]]]
    BY <2>1
  <2>6. QED
    BY <1>0, <2>4, <2>5, ReplaceFrame
<1>3. CASE gs \in WrongService(fs)
  <2>1. [fs[1].d EXCEPT ![1] = "00"] \in Seq(Byte)
    BY <1>0, <1>1, ReplaceSymbol
  <2>2. [fs[1] EXCEPT !.d = [fs[1].d EXCEPT ![1] = "00"]] \in Frame(Byte)
    <3>1. fs[1] \in Frame(Byte)
      BY <1>0
    <3>2. QED
      BY <2>1, <3>1, FrameParts
  <2>3. gs = [fs EXCEPT ![1] = [fs[1] EXCEPT !.d = [fs[1].d EXCEPT ![1] = "00"]]]
    BY <1>3 DEF WrongService
  <2>4. QED
    BY <1>0, <2>2, <2>3, ReplaceFrame
<1>4. CASE gs \in ShortPayload(fs)
  <2> DEFINE last == fs[Len(fs)]
  <2>1. PICK k \in 1 .. ShortMax : gs = [fs EXCEPT ![Len(fs)].d = Blanked(@, k)]
    BY <1>4 DEF ShortPayload
  <2>2. Blanked(last.d, k) \in [1 .. Len(last.d) -> Byte] /\ Len(last.d) \in Nat
    BY <1>0, <1>1, LenProperties DEF Blanked, PadByte
  <2>3. Blanked(last.d, k) \in Seq(Byte)
    BY <2>2, FunctionIsSeq
  <2>4. [last EXCEPT !.d = Blanked(last.d, k)] \in Frame(Byte)
    BY <1>0, <2>3, FrameParts
  <2>5. gs = [fs EXCEPT ![Len(fs)] = [last EXCEPT !.d = Blanked(last.d, k)]]
    BY <2>1
  <2>6. QED
    BY <1>0, <2>4, <2>5, ReplaceFrame
<1>5. CASE gs \in WrongPadding(fs)
  <2>1. ASSUME NEW f \in Frame(Byte)
        PROVE  Repadded(f) \in Frame(Byte)
    <3> DEFINE dd == [i \in DOMAIN f.d |-> IF f.d[i] = PadByte THEN "AA" ELSE f.d[i]]
               nn == IF f.t = "FF" /\ f.n % 256 = 204 THEN f.n - 34 ELSE f.n
    <3>1. f.d \in Seq(Byte) /\ f.n \in Nat /\ Len(f.d) \in Nat
      BY LenProperties DEF Frame
    <3>2. dd \in [1 .. Len(f.d) -> Byte]
      BY <1>1, <3>1, LenProperties
    <3> HIDE DEF dd, nn
    <3>3. dd \in Seq(Byte)
      BY <3>1, <3>2, FunctionIsSeq
    <3>4. nn \in Nat
      BY <3>1 DEF nn
    <3>5. Repadded(f) = [[f EXCEPT !.d = dd] EXCEPT !.n = nn]
      BY DEF Repadded, Frame, dd, nn
    <3>6. [f EXCEPT !.d = dd] \in Frame(Byte)
      BY <3>3, FrameParts
    <3>7. QED
      BY <3>4, <3>5, <3>6, FrameParts
  <2>2. gs = [i \in 1 .. Len(fs) |-> Repadded(fs[i])]
    BY <1>5, LenProperties DEF WrongPadding
  <2>3. gs \in [1 .. Len(fs) -> Frame(Byte)]
    BY <1>0, <2>1, <2>2
  <2>4. gs \in Seq(Frame(Byte)) /\ Len(gs) = Len(fs)
    BY <1>0, <2>3, FunctionIsSeq
  <2>5. QED
    BY <1>0, <2>4, EmptySeq
<1>6. CASE Len(fs) > 1 /\ gs \in DropRandomCF(fs)
  <2>1. PICK i \in 2 .. Len(fs) : gs = SubSeq(fs, 1, i - 1) \o SubSeq(fs, i + 1, Len(fs))
    BY <1>6 DEF DropRandomCF, CFs, RemoveAt
  <2>2. /\ SubSeq(fs, 1, i - 1) \in Seq(Frame(Byte))
        /\ Len(SubSeq(fs, 1, i - 1)) = i - 1
    BY <1>0, SliceType
  <2>3. SubSeq(fs, i + 1, Len(fs)) \in Seq(Frame(Byte))
    BY <1>0, SliceType
  <2>4. gs \in Seq(Frame(Byte)) /\ Len(gs) >= i - 1
    BY <2>1, <2>2, <2>3, ConcatProperties, LenProperties
  <2>5. QED
    BY <2>4, EmptySeq
<1>7. CASE Len(fs) > 1 /\ gs \in DropLastCF(fs)
  <2>1. gs = SubSeq(fs, 1, Len(fs) - 1)
    BY <1>7 DEF DropLastCF, Front
  <2>2. gs \in Seq(Frame(Byte)) /\ Len(gs) = Len(fs) - 1
    BY <1>0, <1>7, <2>1, SliceType
  <2>3. QED
    BY <1>7, <2>2, EmptySeq
<1>8. CASE gs \in WrongSeq(fs)
  <2>1. PICK i \in 2 .. Len(fs) : gs = [fs EXCEPT ![i].n = (@ + 1) % SeqWrap]
    BY <1>8 DEF WrongSeq, CFs
  <2>2. (fs[i].n + 1) % SeqWrap \in Nat
    BY <1>0, IsoTpAssumption
  <2>3. [fs[i] EXCEPT !.n = (fs[i].n + 1) % SeqWrap] \in Frame(Byte)
    BY <1>0, <2>2, FrameParts
  <2>4. gs = [fs EXCEPT ![i] = [fs[i] EXCEPT !.n = (fs[i].n + 1) % SeqWrap]]
    BY <2>1
  <2>5. QED
    BY <1>0, <2>3, <2>4, ReplaceFrame
<1>9. CASE gs \in DuplicateCF(fs)
  <2>1. PICK i \in 2 .. Len(fs) :
          gs = SubSeq(fs, 1, i - 1) \o <<fs[i]>> \o SubSeq(fs, i, Len(fs))
    BY <1>9 DEF DuplicateCF, CFs, InsertAt
  <2>2. /\ SubSeq(fs, 1, i - 1) \in Seq(Frame(Byte))
        /\ Len(SubSeq(fs, 1, i - 1)) = i - 1
    BY <1>0, SliceType
  <2>3. SubSeq(fs, i, Len(fs)) \in Seq(Frame(Byte))
    BY <1>0, SliceType
  <2>4. <<fs[i]>> \in Seq(Frame(Byte)) /\ Len(<<fs[i]>>) = 1
    BY <1>0
  <2>5. /\ SubSeq(fs, 1, i - 1) \o <<fs[i]>> \in Seq(Frame(Byte))
        /\ Len(SubSeq(fs, 1, i - 1) \o <<fs[i]>>) = i
    BY <2>2, <2>4, ConcatProperties
  <2>6. gs \in Seq(Frame(Byte)) /\ Len(gs) >= i
    BY <2>1, <2>3, <2>5, ConcatProperties, LenProperties
  <2>7. QED
    BY <2>6, EmptySeq
<1>10. CASE gs \in TruncatedMF(fs)
  <2>1. gs = <<fs[1]>> /\ fs[1] \in Frame(Byte)
    BY <1>0, <1>10 DEF TruncatedMF
  <2>2. QED
    BY <2>1
<1>11. CASE gs \in WrongLen(fs)
  <2>1. Smaller(fs[1].n + 1, MaxLen) \in Nat
    BY <1>0, IsoTpAssumption DEF Smaller
  <2>2. [fs[1] EXCEPT !.n = Smaller(fs[1].n + 1, MaxLen)] \in Frame(Byte)
    BY <1>0, <2>1, FrameParts
  <2>3. gs = [fs EXCEPT ![1] = [fs[1] EXCEPT !.n = Smaller(fs[1].n + 1, MaxLen)]]
    BY <1>11 DEF WrongLen
  <2>4. QED
    BY <1>0, <2>2, <2>3, ReplaceFrame
<1>12. CASE gs = fs
  BY <1>12
<1>13. QED
  BY <1>2, <1>3, <1>4, <1>5, <1>6, <1>7, <1>8, <1>9, <1>10, <1>11, <1>12
  DEF Injected, SFFaults, MFFaults

-----------------------------------------------------------------------------
(* Joining frames again *)

\* The frames of a list that has several are as full as segment() makes them.
Full(fs) ==
  Len(fs) > 1 =>
    /\ Len(fs[1].d) = FFCap
    /\ \A i \in 2 .. Len(fs) : Len(fs[i].d) = CFCap

\* Padding fills a short sequence up and leaves its symbols alone.
LEMMA PaddedIs ==
  ASSUME NEW s \in Seq(Byte), NEW n \in Nat, Len(s) <= n
  PROVE  /\ Len(Padded(s, n)) = n
         /\ \A i \in 1 .. Len(s) : Padded(s, n)[i] = s[i]
<1> DEFINE pad == [i \in 1 .. n - Len(s) |-> PadByte]
<1>1. PadByte \in Byte
  BY DEF PadByte, Byte, HeaderByte
<1>2. n - Len(s) \in Nat /\ pad \in [1 .. n - Len(s) -> Byte]
  BY <1>1, LenProperties
<1> HIDE DEF pad
<1>3. pad \in Seq(Byte) /\ Len(pad) = n - Len(s)
  BY <1>2, FunctionIsSeq
<1>4. /\ Len(s \o pad) = Len(s) + Len(pad)
      /\ \A i \in 1 .. Len(s) + Len(pad) :
           (s \o pad)[i] = IF i <= Len(s) THEN s[i] ELSE pad[i - Len(s)]
  BY <1>3, ConcatProperties
<1>5. Padded(s, n) = s \o pad /\ Len(s) \in Nat
  BY LenProperties DEF Padded, pad
<1>6. QED
  BY <1>3, <1>4, <1>5

\* Division by a positive number, where it is not linear.
LEMMA DivBounds ==
  ASSUME NEW c \in Nat \ {0}, NEW m \in Nat, NEW k \in 0 .. m * c - 1
  PROVE  k \div c \in 0 .. m - 1 /\ k % c \in 0 .. c - 1
<1>1. k \in Nat /\ m * c \in Nat /\ k < m * c
  BY SMT
<1>2. k % c \in 0 .. c - 1 /\ k \div c \in Int /\ k = (c * (k \div c)) + (k % c)
  BY <1>1, SMT
<1>3. k \div c >= 0
  BY <1>1, <1>2, SMT
<1>4. k \div c < m
  BY <1>1, <1>2, SMT
<1>5. QED
  BY <1>2, <1>3, <1>4

\* Enough consecutive frames, and at least one, for what the first leaves.
LEMMA CFCountIs ==
  ASSUME NEW p \in Payload, Len(p) > SFCap
  PROVE  /\ CFCount(p) \in Nat \ {0}
         /\ FFCap + CFCount(p) * CFCap >= Len(p)
<1> DEFINE x == Len(p) - FFCap + CFCap - 1
           q == x \div CFCap
<1>1. Len(p) \in Nat /\ FFCap \in Nat /\ CFCap \in Nat \ {0} /\ Len(p) - FFCap >= 1
  BY LenProperties, IsoTpAssumption DEF Payload
<1>2. x \in Nat /\ x >= CFCap
  BY <1>1
<1> HIDE DEF x
<1>3. q \in Int /\ x = (CFCap * q) + (x % CFCap) /\ x % CFCap \in 0 .. CFCap - 1
  BY <1>1, <1>2, SMT
<1>4. CFCount(p) = q
  BY DEF CFCount, x
<1> HIDE DEF q
<1> DEFINE y == CFCap * q
<1>5. y \in Int /\ x = y + (x % CFCap)
  BY <1>1, <1>3
<1>6. q >= 1 \/ y <= 0
  BY ONLY <1>1, <1>3, SMTT(20)
<1>7. y = q * CFCap
  BY <1>1, <1>3, SMT
<1> HIDE DEF y
<1>8. y >= Len(p) - FFCap
  BY <1>1, <1>3, <1>5 DEF x
<1>9. q >= 1
  BY <1>1, <1>3, <1>5, <1>6, <1>8
<1>10. QED
  BY <1>1, <1>3, <1>4, <1>5, <1>7, <1>8, <1>9

\* The k-th consecutive frame carries the k-th piece of what the first leaves.
LEMMA ChunkIs ==
  ASSUME NEW p \in Payload, Len(p) > SFCap, NEW k \in 1 .. CFCount(p)
  PROVE  /\ Chunk(p, k) \in Seq(Byte) /\ Len(Chunk(p, k)) <= CFCap
         /\ \A r \in 1 .. CFCap :
              FFCap + ((k - 1) * CFCap) + r <= Len(p) =>
                /\ r <= Len(Chunk(p, k))
                /\ Chunk(p, k)[r] = p[FFCap + ((k - 1) * CFCap) + r]
<1> DEFINE m == FFCap + ((k - 1) * CFCap)
           n == Smaller(FFCap + (k * CFCap), Len(p))
<1>1. /\ p \in Seq(Byte) /\ Len(p) \in Nat /\ FFCap \in Nat /\ CFCap \in Nat \ {0}
      /\ k \in Nat \ {0}
  BY LenProperties, CFCountIs, IsoTpAssumption DEF Payload
<1>2. m \in Nat /\ FFCap + (k * CFCap) = m + CFCap
  <2>1. (k - 1) * CFCap \in Nat /\ k * CFCap = ((k - 1) * CFCap) + CFCap
    BY <1>1, SMT
  <2>2. QED
    BY <1>1, <2>1
<1>3. Chunk(p, k) = SubSeq(p, m + 1, n)
  BY DEF Chunk
<1> HIDE DEF m
<1>4. n \in Int /\ n <= Len(p) /\ n <= m + CFCap /\ (n = Len(p) \/ n = m + CFCap)
  BY <1>1, <1>2 DEF Smaller
<1> HIDE DEF n
<1>5. \A i \in m + 1 .. n : p[i] \in Byte
  BY <1>1, <1>2, <1>4, ElementOfSeq
<1>6. /\ SubSeq(p, m + 1, n) \in Seq(Byte)
      /\ Len(SubSeq(p, m + 1, n)) = IF m + 1 <= n THEN n - (m + 1) + 1 ELSE 0
      /\ \A i \in 1 .. n - (m + 1) + 1 : SubSeq(p, m + 1, n)[i] = p[m + 1 + i - 1]
  BY <1>2, <1>4, <1>5, SubSeqProperties
<1>7. Len(Chunk(p, k)) <= CFCap
  BY <1>1, <1>2, <1>3, <1>4, <1>6
<1>8. ASSUME NEW r \in 1 .. CFCap, m + r <= Len(p)
      PROVE  r <= Len(Chunk(p, k)) /\ Chunk(p, k)[r] = p[m + r]
  <2>1. r \in 1 .. n - (m + 1) + 1
    BY <1>1, <1>2, <1>4, <1>8
  <2>2. m + 1 + r - 1 = m + r
    BY <1>2
  <2>3. QED
    BY <1>2, <1>3, <1>4, <1>6, <2>1, <2>2
<1>9. QED
  BY <1>3, <1>6, <1>7, <1>8 DEF m

\* The frames of a segmented payload, one by one.
LEMMA SegmentParts ==
  ASSUME NEW p \in Payload, Len(p) > SFCap
  PROVE  /\ Len(Segment(p)) = 1 + CFCount(p)
         /\ Segment(p)[1] = FirstFrame(p)
         /\ \A k \in 1 .. CFCount(p) : Segment(p)[k + 1] = ConsecutiveFrame(p, k)
         /\ Full(Segment(p))
<1> DEFINE cfs == [k \in 1 .. CFCount(p) |-> ConsecutiveFrame(p, k)]
           n == CFCount(p)
<1>1. /\ p \in Seq(Byte) /\ Len(p) \in Nat /\ FFCap \in Nat \ {0}
      /\ CFCap \in Nat \ {0} /\ FFCap < Len(p) /\ n \in Nat \ {0}
  BY LenProperties, CFCountIs, IsoTpAssumption DEF Payload
<1>2. Segment(p) = <<FirstFrame(p)>> \o cfs
  BY <1>1, IsoTpAssumption DEF Segment
<1>3. /\ cfs \in Seq({ConsecutiveFrame(p, k) : k \in 1 .. n} \cup {FirstFrame(p)})
      /\ Len(cfs) = n
  <2>1. cfs \in [1 .. n -> {ConsecutiveFrame(p, k) : k \in 1 .. n} \cup {FirstFrame(p)}]
    OBVIOUS
  <2>2. QED
    BY <1>1, <2>1, FunctionIsSeq
<1>4. \A k \in 1 .. n : cfs[k] = ConsecutiveFrame(p, k)
  OBVIOUS
<1> HIDE DEF cfs, n
<1>5. /\ Len(Segment(p)) = 1 + n
      /\ \A i \in 1 .. 1 + n :
           Segment(p)[i] = IF i <= 1 THEN <<FirstFrame(p)>>[i] ELSE cfs[i - 1]
  <2> DEFINE S == {ConsecutiveFrame(p, k) : k \in 1 .. n} \cup {FirstFrame(p)}
  <2>1. <<FirstFrame(p)>> \in Seq(S) /\ Len(<<FirstFrame(p)>>) = 1
    OBVIOUS
  <2>2. cfs \in Seq(S)
    BY <1>3
  <2> HIDE DEF S
  <2>3. /\ Len(Segment(p)) = Len(<<FirstFrame(p)>>) + Len(cfs)
        /\ \A i \in 1 .. Len(<<FirstFrame(p)>>) + Len(cfs) :
             Segment(p)[i] = IF i <= Len(<<FirstFrame(p)>>) THEN <<FirstFrame(p)>>[i]
                             ELSE cfs[i - Len(<<FirstFrame(p)>>)]
    BY <1>2, <2>1, <2>2, ConcatProperties
  <2>4. QED
    BY <1>3, <2>1, <2>3
<1>6. Segment(p)[1] = FirstFrame(p)
  BY <1>1, <1>5
<1>7. \A k \in 1 .. n : Segment(p)[k + 1] = ConsecutiveFrame(p, k)
  BY <1>1, <1>4, <1>5
<1>8. Len(FirstFrame(p).d) = FFCap
  BY <1>1, SliceType DEF FirstFrame
<1>9. \A k \in 1 .. n : Len(ConsecutiveFrame(p, k).d) = CFCap
  BY <1>1, ChunkIs, PaddedIs DEF ConsecutiveFrame, n
<1>10. \A i \in 2 .. 1 + n : Len(Segment(p)[i].d) = CFCap
  <2> SUFFICES ASSUME NEW i \in 2 .. 1 + n PROVE Len(Segment(p)[i].d) = CFCap
    OBVIOUS
  <2>1. i - 1 \in 1 .. n /\ (i - 1) + 1 = i
    BY <1>1
  <2>2. Segment(p)[i] = ConsecutiveFrame(p, i - 1)
    BY <1>7, <2>1
  <2>3. QED
    BY <1>9, <2>1, <2>2
<1>11. QED
  BY <1>5, <1>6, <1>7, <1>8, <1>10 DEF Full, n

\* The beginning of a sequence that begins as another one does.
LEMMA TakePrefix ==
  ASSUME NEW s \in Seq(Byte), NEW p \in Seq(Byte), Len(p) <= Len(s),
         \A i \in 1 .. Len(p) : s[i] = p[i]
  PROVE  SubSeq(s, 1, Len(p)) = p
<1>1. Len(p) \in Nat /\ Len(s) \in Nat
  BY LenProperties
<1>2. \A i \in 1 .. Len(p) : s[i] \in Byte
  BY ElementOfSeq
<1>3. /\ SubSeq(s, 1, Len(p)) \in Seq(Byte)
      /\ Len(SubSeq(s, 1, Len(p))) = IF 1 <= Len(p) THEN Len(p) - 1 + 1 ELSE 0
      /\ \A i \in 1 .. Len(p) - 1 + 1 : SubSeq(s, 1, Len(p))[i] = s[1 + i - 1]
  BY <1>1, <1>2, SubSeqProperties
<1>4. QED
  BY <1>1, <1>3, SeqEqual

\* Where the i-th symbol of joined frames comes from.
LEMMA JoinedIndex ==
  ASSUME NEW m \in Nat, NEW i \in FFCap + 1 .. FFCap + (m * CFCap)
  PROVE  /\ (i - FFCap - 1) \div CFCap \in 0 .. m - 1
         /\ (i - FFCap - 1) % CFCap \in 0 .. CFCap - 1
         /\ i = FFCap + (((i - FFCap - 1) \div CFCap) * CFCap)
                  + (1 + ((i - FFCap - 1) % CFCap))
<1> DEFINE k == i - FFCap - 1
<1>1. FFCap \in Nat /\ CFCap \in Nat \ {0} /\ m * CFCap \in Nat
  BY IsoTpAssumption
<1>2. k \in 0 .. (m * CFCap) - 1 /\ i = FFCap + k + 1
  BY <1>1
<1> HIDE DEF k
<1>3. k \div CFCap \in 0 .. m - 1 /\ k % CFCap \in 0 .. CFCap - 1
  BY <1>1, <1>2, DivBounds
<1>4. k = ((k \div CFCap) * CFCap) + (k % CFCap)
  BY <1>1, <1>2, <1>3, SMT
<1>5. ((k \div CFCap) * CFCap) \in Int
  BY <1>1, <1>3
<1>6. i = FFCap + ((k \div CFCap) * CFCap) + (1 + (k % CFCap))
  BY <1>1, <1>2, <1>3, <1>4, <1>5
<1>7. QED
  BY <1>3, <1>6 DEF k

\* Frames that are full make a sequence of symbols.
LEMMA JoinedType ==
  ASSUME NEW fs \in Seq(Frame(Byte)), Len(fs) > 1, Full(fs)
  PROVE  /\ Joined(fs) \in Seq(Byte)
         /\ Len(Joined(fs)) = FFCap + ((Len(fs) - 1) * CFCap)
<1>0. Len(fs) \in Nat
  BY LenProperties
<1>1. Len(fs) - 1 \in Nat \ {0} /\ FFCap \in Nat /\ CFCap \in Nat \ {0}
  <2>1. \A k \in Nat : k > 1 => k - 1 \in Nat \ {0}
    OBVIOUS
  <2>2. Len(fs) - 1 \in Nat \ {0}
    BY <1>0, <2>1, Zenon
  <2>3. QED
    BY <2>2, IsoTpAssumption
<1> DEFINE n == FFCap + ((Len(fs) - 1) * CFCap)
           e(i) == IF i <= FFCap THEN fs[1].d[i]
                   ELSE fs[2 + ((i - FFCap - 1) \div CFCap)].d[1 + ((i - FFCap - 1) % CFCap)]
<1>2. n \in Nat
  <2>1. (Len(fs) - 1) * CFCap \in Nat
    BY <1>1
  <2>2. QED
    BY <1>1, <2>1
<1>3. \A i \in 1 .. Len(fs) : fs[i].d \in Seq(Byte)
  BY ElementOfSeq, FrameParts
<1>4. ASSUME NEW i \in 1 .. n
      PROVE  e(i) \in Byte
  <2>1. CASE i <= FFCap
    <3>1. fs[1].d \in Seq(Byte) /\ i \in 1 .. Len(fs[1].d)
      BY <1>1, <1>3, <2>1 DEF Full
    <3>2. QED
      BY <2>1, <3>1, ElementOfSeq
  <2>2. CASE i > FFCap
    <3> DEFINE q == (i - FFCap - 1) \div CFCap
               r == (i - FFCap - 1) % CFCap
    <3>1. i \in FFCap + 1 .. FFCap + ((Len(fs) - 1) * CFCap)
      BY <1>1, <1>2, <2>2
    <3>2. q \in 0 .. Len(fs) - 1 - 1 /\ r \in 0 .. CFCap - 1
      BY <1>1, <3>1, JoinedIndex
    <3>3. e(i) = fs[2 + q].d[1 + r]
      BY <1>1, <2>2
    <3> HIDE DEF q, r
    <3>4. 2 + q \in 2 .. Len(fs) /\ 1 + r \in 1 .. CFCap
      BY <1>1, <3>2
    <3>5. fs[2 + q].d \in Seq(Byte) /\ Len(fs[2 + q].d) = CFCap
      BY <1>1, <1>3, <3>4 DEF Full
    <3>6. QED
      BY <3>3, <3>4, <3>5, ElementOfSeq
  <2>3. QED
    BY <1>1, <2>1, <2>2
<1>5. Joined(fs) = [i \in 1 .. n |-> e(i)]
  BY DEF Joined
<1> HIDE DEF n, e
<1>6. Joined(fs) \in [1 .. n -> Byte]
  BY <1>4, <1>5
<1>7. QED
  BY <1>2, <1>6, FunctionIsSeq DEF n

\* A payload that was segmented comes out of the joining whole: with no fault
\* in between, handle_uds_payload() returns what the handler has answered,
\* whatever its length (device.py:206-233).
THEOREM UnframedSegment ==
  ASSUME NEW p \in Payload
  PROVE  Unframed(Segment(p)) = p
<1>1. /\ p \in Seq(Byte) /\ Len(p) \in Nat /\ FFCap \in Nat \ {0} /\ FFCap <= SFCap
      /\ CFCap \in Nat \ {0} /\ SFCap \in Nat
  BY LenProperties, IsoTpAssumption DEF Payload
<1>2. CASE Len(p) <= SFCap
  <2>1. Segment(p) = <<SingleFrame(p)>>
    BY <1>2 DEF Segment
  <2>2. Len(Segment(p)) = 1 /\ Segment(p)[1] = SingleFrame(p)
    BY <2>1
  <2>3. Unframed(Segment(p)) = Take(Padded(p, SFCap), Len(p))
    BY <2>2 DEF Unframed, SingleFrame
  <2>4. /\ Padded(p, SFCap) \in Seq(Byte) /\ Len(Padded(p, SFCap)) = SFCap
        /\ \A i \in 1 .. Len(p) : Padded(p, SFCap)[i] = p[i]
    BY <1>1, <1>2, PaddedType, PaddedIs
  <2>5. Take(Padded(p, SFCap), Len(p)) = SubSeq(Padded(p, SFCap), 1, Len(p))
    BY <1>1, <1>2, <2>4 DEF Take, Smaller
  <2>6. QED
    BY <1>1, <1>2, <2>3, <2>4, <2>5, TakePrefix
<1>3. CASE Len(p) > SFCap
  <2> DEFINE n == CFCount(p)
             fs == Segment(p)
  <2>1. /\ n \in Nat \ {0} /\ FFCap + (n * CFCap) >= Len(p)
        /\ Len(fs) = 1 + n /\ fs[1] = FirstFrame(p) /\ Full(fs)
        /\ \A k \in 1 .. n : fs[k + 1] = ConsecutiveFrame(p, k)
    BY <1>3, CFCountIs, SegmentParts
  <2>2. fs \in Seq(Frame(Byte))
    BY SegmentType
  <2> HIDE DEF n, fs
  <2>3. /\ Joined(fs) \in Seq(Byte) /\ Len(Joined(fs)) = FFCap + (n * CFCap)
    BY <2>1, <2>2, JoinedType
  <2>4. ASSUME NEW i \in 1 .. Len(p)
        PROVE  Joined(fs)[i] = p[i]
    <3>0. /\ i \in 1 .. FFCap + (n * CFCap) /\ n * CFCap \in Nat
      BY <1>1, <2>1
    <3>1. Joined(fs)[i] =
            IF i <= FFCap THEN fs[1].d[i]
            ELSE fs[2 + ((i - FFCap - 1) \div CFCap)].d[1 + ((i - FFCap - 1) % CFCap)]
      BY <1>1, <2>1, <3>0 DEF Joined
    <3>2. CASE i <= FFCap
      <4>1. fs[1].d = SubSeq(p, 1, FFCap)
        <5>1. fs[1] = FirstFrame(p)
          BY <2>1
        <5>2. FirstFrame(p).d = SubSeq(p, 1, FFCap)
          BY DEF FirstFrame
        <5>3. QED
          BY <5>1, <5>2
      <4>2. \A k \in 1 .. FFCap : p[k] \in Byte
        BY <1>1, <1>3, ElementOfSeq
      <4>3. SubSeq(p, 1, FFCap)[i] = p[1 + i - 1]
        BY <1>1, <3>2, <4>2, SubSeqProperties
      <4>4. QED
        BY <1>1, <3>0, <3>1, <3>2, <4>1, <4>3
    <3>3. CASE i > FFCap
      <4> DEFINE q == (i - FFCap - 1) \div CFCap
                 r == (i - FFCap - 1) % CFCap
      <4>0. n \in Nat /\ i \in FFCap + 1 .. FFCap + (n * CFCap)
        BY <1>1, <2>1, <3>0, <3>3
      <4>1. /\ q \in 0 .. n - 1 /\ r \in 0 .. CFCap - 1
            /\ i = FFCap + (q * CFCap) + (1 + r)
        BY <4>0, JoinedIndex
      <4>2. Joined(fs)[i] = fs[2 + q].d[1 + r]
        BY <1>1, <3>1, <3>3
      <4> HIDE DEF q, r
      <4>3. q + 1 \in 1 .. n /\ (q + 1) + 1 = 2 + q /\ (q + 1) - 1 = q /\ 1 + r \in 1 .. CFCap
        BY <1>1, <2>1, <4>1
      <4>4. fs[2 + q] = ConsecutiveFrame(p, q + 1)
        BY <2>1, <4>3
      <4>5. /\ Chunk(p, q + 1) \in Seq(Byte) /\ Len(Chunk(p, q + 1)) <= CFCap
            /\ 1 + r <= Len(Chunk(p, q + 1))
            /\ Chunk(p, q + 1)[1 + r] = p[i]
        BY <1>3, <4>1, <4>3, ChunkIs DEF n
      <4>6. 1 + r \in 1 .. Len(Chunk(p, q + 1))
        BY <4>3, <4>5, LenProperties
      <4>7. Padded(Chunk(p, q + 1), CFCap)[1 + r] = p[i]
        BY <1>1, <4>5, <4>6, PaddedIs
      <4>8. QED
        BY <4>2, <4>4, <4>7 DEF ConsecutiveFrame
    <3>4. QED
      BY <1>1, <3>2, <3>3
  <2>5. Unframed(fs) = Take(Joined(fs), Len(p))
    BY <2>1 DEF Unframed, FirstFrame
  <2>6. Take(Joined(fs), Len(p)) = SubSeq(Joined(fs), 1, Len(p))
    BY <1>1, <2>1, <2>3 DEF Take, Smaller
  <2>7. QED
    BY <1>1, <2>1, <2>3, <2>4, <2>5, <2>6, TakePrefix DEF fs
<1>4. QED
  BY <1>1, <1>2, <1>3

\* Another frame with as many symbols in its place.
LEMMA ReplaceKeepsFull ==
  ASSUME NEW fs \in Seq(Frame(Byte)), Full(fs), NEW i \in 1 .. Len(fs),
         NEW g \in Frame(Byte), Len(g.d) = Len(fs[i].d)
  PROVE  Full([fs EXCEPT ![i] = g])
<1>1. /\ Len([fs EXCEPT ![i] = g]) = Len(fs)
      /\ \A j \in 1 .. Len(fs) : [fs EXCEPT ![i] = g][j] = IF j = i THEN g ELSE fs[j]
  BY ExceptSeq
<1>2. \A j \in 1 .. Len(fs) : Len([fs EXCEPT ![i] = g][j].d) = Len(fs[j].d)
  BY <1>1
<1>3. Len(fs) \in Nat
  BY LenProperties
<1>4. ASSUME Len(fs) > 1
      PROVE  1 \in 1 .. Len(fs) /\ \A j \in 2 .. Len(fs) : j \in 1 .. Len(fs)
  BY <1>3, <1>4
<1>5. QED
  BY <1>1, <1>2, <1>4 DEF Full

\* A list of frames taken from a full list, the first one first.
LEMMA PickedIsFull ==
  ASSUME NEW fs, Full(fs), Len(fs) > 1, NEW gs,
         gs[1] = fs[1],
         \A j \in 2 .. Len(gs) : \E k \in 2 .. Len(fs) : gs[j] = fs[k]
  PROVE  Full(gs)
BY DEF Full

\* As many symbols, one of them changed.
LEMMA ReplaceKeepsLen ==
  ASSUME NEW d \in Seq(Byte), NEW i, NEW x \in Byte
  PROVE  Len([d EXCEPT ![i] = x]) = Len(d)
<1>1. Len(d) \in Nat /\ d \in [1 .. Len(d) -> Byte]
  BY LenProperties
<1>2. [d EXCEPT ![i] = x] \in [1 .. Len(d) -> Byte]
  BY <1>1
<1>3. QED
  BY <1>1, <1>2, FunctionIsSeq

\* The elements of a slice.
LEMMA Slice ==
  ASSUME NEW S, NEW s \in Seq(S), NEW i \in Nat \ {0}, NEW j \in Nat,
         i <= j + 1, j <= Len(s)
  PROVE  /\ SubSeq(s, i, j) \in Seq(S)
         /\ Len(SubSeq(s, i, j)) = j - i + 1
         /\ \A k \in 1 .. j - i + 1 : SubSeq(s, i, j)[k] = s[i - 1 + k]
<1>1. \A k \in i .. j : s[k] \in S
  BY ElementOfSeq
<1>2. /\ SubSeq(s, i, j) \in Seq(S)
      /\ Len(SubSeq(s, i, j)) = IF i <= j THEN j - i + 1 ELSE 0
      /\ \A k \in 1 .. j - i + 1 : SubSeq(s, i, j)[k] = s[i + k - 1]
  BY <1>1, SubSeqProperties
<1>3. \A k \in Int : i + k - 1 = i - 1 + k
  OBVIOUS
<1>4. QED
  BY <1>2, <1>3

\* The frames left when one is dropped, and when one is sent twice.
LEMMA RemovedIs ==
  ASSUME NEW fs \in Seq(Frame(Byte)), NEW i \in 2 .. Len(fs)
  PROVE  /\ Len(RemoveAt(fs, i)) = Len(fs) - 1
         /\ \A j \in 1 .. Len(fs) - 1 :
              RemoveAt(fs, i)[j] = IF j <= i - 1 THEN fs[j] ELSE fs[j + 1]
<1>0. Len(fs) \in Nat
  BY LenProperties
<1>1. /\ SubSeq(fs, 1, i - 1) \in Seq(Frame(Byte))
      /\ Len(SubSeq(fs, 1, i - 1)) = i - 1
      /\ \A k \in 1 .. i - 1 : SubSeq(fs, 1, i - 1)[k] = fs[k]
  BY <1>0, Slice
<1>2. /\ SubSeq(fs, i + 1, Len(fs)) \in Seq(Frame(Byte))
      /\ Len(SubSeq(fs, i + 1, Len(fs))) = Len(fs) - i
      /\ \A k \in 1 .. Len(fs) - i : SubSeq(fs, i + 1, Len(fs))[k] = fs[i + k]
  BY <1>0, Slice
<1>3. RemoveAt(fs, i) = SubSeq(fs, 1, i - 1) \o SubSeq(fs, i + 1, Len(fs))
  BY DEF RemoveAt
<1>4. QED
  BY <1>0, <1>1, <1>2, <1>3, ConcatProperties

LEMMA InsertedIs ==
  ASSUME NEW fs \in Seq(Frame(Byte)), NEW i \in 2 .. Len(fs)
  PROVE  /\ Len(InsertAt(fs, i, fs[i])) = Len(fs) + 1
         /\ \A j \in 1 .. Len(fs) + 1 :
              InsertAt(fs, i, fs[i])[j] = IF j <= i THEN fs[j] ELSE fs[j - 1]
<1> DEFINE hs == SubSeq(fs, 1, i - 1) \o <<fs[i]>>
           us == SubSeq(fs, i, Len(fs))
<1>0. Len(fs) \in Nat /\ i \in 1 .. Len(fs) /\ fs[i] \in Frame(Byte)
  BY LenProperties, ElementOfSeq
<1>1. /\ SubSeq(fs, 1, i - 1) \in Seq(Frame(Byte))
      /\ Len(SubSeq(fs, 1, i - 1)) = i - 1
      /\ \A k \in 1 .. i - 1 : SubSeq(fs, 1, i - 1)[k] = fs[k]
  BY <1>0, Slice
<1>2. <<fs[i]>> \in Seq(Frame(Byte)) /\ Len(<<fs[i]>>) = 1 /\ <<fs[i]>>[1] = fs[i]
  BY <1>0
<1>3. /\ hs \in Seq(Frame(Byte)) /\ Len(hs) = i
      /\ \A k \in 1 .. i : hs[k] = fs[k]
  <2> DEFINE u == SubSeq(fs, 1, i - 1)
             v == <<fs[i]>>
  <2>1. hs = u \o v
    OBVIOUS
  <2> HIDE DEF u, v, hs
  <2>2. u \in Seq(Frame(Byte)) /\ v \in Seq(Frame(Byte))
    BY <1>1, <1>2 DEF u, v
  <2>3. Len(u) = i - 1 /\ Len(v) = 1 /\ v[1] = fs[i] /\ \A k \in 1 .. i - 1 : u[k] = fs[k]
    BY <1>1, <1>2 DEF u, v
  <2>4. /\ hs \in Seq(Frame(Byte)) /\ Len(hs) = Len(u) + Len(v)
        /\ \A k \in 1 .. Len(u) + Len(v) :
             hs[k] = IF k <= Len(u) THEN u[k] ELSE v[k - Len(u)]
    BY <2>1, <2>2, ConcatProperties
  <2>5. Len(u) + Len(v) = i /\ \A k \in 1 .. i : k <= i - 1 \/ (k = i /\ k - Len(u) = 1)
    BY <1>0, <2>3
  <2>6. ASSUME NEW k \in 1 .. i PROVE hs[k] = fs[k]
    <3>1. CASE k <= i - 1
      <4>1. k \in 1 .. i - 1
        BY <1>0, <3>1
      <4>2. QED
        BY <2>3, <2>4, <2>5, <3>1, <4>1
    <3>2. CASE k = i /\ k - Len(u) = 1
      <4>1. ~(k <= Len(u))
        BY <1>0, <2>3, <3>2
      <4>2. QED
        BY <2>3, <2>4, <2>5, <3>2, <4>1
    <3>3. QED
      BY <2>5, <3>1, <3>2
  <2>7. QED
    BY <2>4, <2>5, <2>6
<1>4. /\ us \in Seq(Frame(Byte)) /\ Len(us) = Len(fs) - i + 1
      /\ \A k \in 1 .. Len(fs) - i + 1 : us[k] = fs[i - 1 + k]
  BY <1>0, Slice
<1>5. InsertAt(fs, i, fs[i]) = hs \o us
  BY DEF InsertAt
<1> HIDE DEF hs, us
<1>6. hs \in Seq(Frame(Byte)) /\ us \in Seq(Frame(Byte))
  BY <1>3, <1>4
<1>7. /\ Len(hs \o us) = Len(hs) + Len(us)
      /\ \A j \in 1 .. Len(hs) + Len(us) :
           (hs \o us)[j] = IF j <= Len(hs) THEN hs[j] ELSE us[j - Len(hs)]
  BY <1>6, ConcatProperties
<1>8. Len(hs) = i /\ Len(hs) + Len(us) = Len(fs) + 1
  BY <1>0, <1>3, <1>4
<1>9. ASSUME NEW j \in 1 .. Len(fs) + 1
       PROVE  /\ j <= i => (hs \o us)[j] = fs[j]
              /\ ~(j <= i) => (hs \o us)[j] = fs[j - 1]
  <2>1. ASSUME j <= i PROVE (hs \o us)[j] = fs[j]
    BY <1>0, <1>3, <1>7, <1>8, <2>1
  <2>2. ASSUME ~(j <= i) PROVE (hs \o us)[j] = fs[j - 1]
    <3>1. j - i \in 1 .. Len(fs) - i + 1 /\ i - 1 + (j - i) = j - 1
      BY <1>0, <2>2
    <3>2. us[j - i] = fs[j - 1]
      BY <1>4, <3>1
    <3>3. QED
      BY <1>7, <1>8, <2>2, <3>2
  <2>3. QED
    BY <2>1, <2>2
<1>10. QED
  BY <1>5, <1>7, <1>8, <1>9

\* No fault cuts a frame short: what is missing is whole frames.
LEMMA InjectedFull ==
  ASSUME NEW fs \in Seq(Frame(Byte)), fs # <<>>, Full(fs), NEW gs \in Injected(fs)
  PROVE  Full(gs)
<1>0. /\ Len(fs) \in Nat \ {0}
      /\ \A i \in 1 .. Len(fs) :
           fs[i] \in Frame(Byte) /\ fs[i].d \in Seq(Byte) /\ fs[i].n \in Nat
  <2>1. Len(fs) \in Nat \ {0}
    BY EmptySeq
  <2>2. \A i \in 1 .. Len(fs) : fs[i] \in Frame(Byte)
    BY ElementOfSeq
  <2>3. QED
    BY <2>1, <2>2, FrameParts
<1>1. \A x \in {"??", "00", "AA", "CC"} : x \in Byte
  BY DEF Byte, HeaderByte
<1>2. ASSUME NEW i \in 1 .. Len(fs), NEW d \in Seq(Byte), Len(d) = Len(fs[i].d),
             gs = [fs EXCEPT ![i] = [fs[i] EXCEPT !.d = d]]
      PROVE  Full(gs)
  <2>1. [fs[i] EXCEPT !.d = d] \in Frame(Byte) /\ [fs[i] EXCEPT !.d = d].d = d
    BY <1>0 DEF Frame
  <2>2. QED
    BY <1>2, <2>1, ReplaceKeepsFull
<1>3. ASSUME NEW i \in 1 .. Len(fs), NEW n \in Nat,
             gs = [fs EXCEPT ![i] = [fs[i] EXCEPT !.n = n]]
      PROVE  Full(gs)
  <2>1. /\ [fs[i] EXCEPT !.n = n] \in Frame(Byte)
        /\ [fs[i] EXCEPT !.n = n].d = fs[i].d
    BY <1>0 DEF Frame
  <2>2. QED
    BY <1>3, <2>1, ReplaceKeepsFull
<1>4. CASE gs \in WrongDid(fs)
  <2>1. PICK x \in Did \cup {"??"} : gs = [fs EXCEPT ![1].d[2] = x]
    BY <1>4 DEF WrongDid
  <2>2. x \in Byte /\ 1 \in 1 .. Len(fs) /\ fs[1].d \in Seq(Byte)
    BY <1>0, <1>1 DEF Byte
  <2>3. /\ [fs[1].d EXCEPT ![2] = x] \in Seq(Byte)
        /\ Len([fs[1].d EXCEPT ![2] = x]) = Len(fs[1].d)
    BY <2>2, ReplaceSymbol, ReplaceKeepsLen
  <2>4. gs = [fs EXCEPT ![1] = [fs[1] EXCEPT !.d = [fs[1].d EXCEPT ![2] = x]]]
    BY <2>1
  <2>5. QED
    BY <1>2, <2>2, <2>3, <2>4
<1>5. CASE gs \in WrongService(fs)
  <2>1. "00" \in Byte /\ 1 \in 1 .. Len(fs) /\ fs[1].d \in Seq(Byte)
    BY <1>0, <1>1
  <2>2. /\ [fs[1].d EXCEPT ![1] = "00"] \in Seq(Byte)
        /\ Len([fs[1].d EXCEPT ![1] = "00"]) = Len(fs[1].d)
    BY <2>1, ReplaceSymbol, ReplaceKeepsLen
  <2>3. gs = [fs EXCEPT ![1] = [fs[1] EXCEPT !.d = [fs[1].d EXCEPT ![1] = "00"]]]
    BY <1>5 DEF WrongService
  <2>4. QED
    BY <1>2, <2>1, <2>2, <2>3
<1>6. CASE gs \in ShortPayload(fs)
  <2> DEFINE last == fs[Len(fs)]
  <2>1. PICK k \in 1 .. ShortMax : gs = [fs EXCEPT ![Len(fs)].d = Blanked(@, k)]
    BY <1>6 DEF ShortPayload
  <2>2. Blanked(last.d, k) \in [1 .. Len(last.d) -> Byte] /\ Len(last.d) \in Nat
    BY <1>0, <1>1, LenProperties DEF Blanked, PadByte
  <2>3. Blanked(last.d, k) \in Seq(Byte) /\ Len(Blanked(last.d, k)) = Len(last.d)
    BY <2>2, FunctionIsSeq
  <2>4. gs = [fs EXCEPT ![Len(fs)] = [last EXCEPT !.d = Blanked(last.d, k)]]
    BY <2>1
  <2>5. Len(fs) \in 1 .. Len(fs)
    BY <1>0
  <2>6. QED
    BY <1>2, <2>3, <2>4, <2>5
<1>7. CASE gs \in WrongPadding(fs)
  <2>1. gs = [i \in 1 .. Len(fs) |-> Repadded(fs[i])]
    BY <1>7, LenProperties DEF WrongPadding
  <2>2. ASSUME NEW f \in Frame(Byte)
        PROVE  Len(Repadded(f).d) = Len(f.d)
    <3> DEFINE dd == [i \in DOMAIN f.d |-> IF f.d[i] = PadByte THEN "AA" ELSE f.d[i]]
    <3>1. f.d \in Seq(Byte) /\ Len(f.d) \in Nat
      BY LenProperties DEF Frame
    <3>2. dd \in [1 .. Len(f.d) -> Byte]
      BY <1>1, <3>1, LenProperties
    <3>3. Repadded(f).d = dd
      BY DEF Repadded, Frame
    <3> HIDE DEF dd
    <3>4. Len(dd) = Len(f.d)
      BY <3>1, <3>2, FunctionIsSeq
    <3>5. QED
      BY <3>3, <3>4
  <2>3. Len(gs) = Len(fs)
    <3>1. gs \in [1 .. Len(fs) -> {Repadded(fs[i]) : i \in 1 .. Len(fs)}]
      BY <2>1
    <3>2. QED
      BY <1>0, <3>1, FunctionIsSeq
  <2>4. \A j \in 1 .. Len(fs) : Len(gs[j].d) = Len(fs[j].d)
    BY <1>0, <2>1, <2>2
  <2>5. ASSUME Len(fs) > 1
        PROVE  1 \in 1 .. Len(fs) /\ \A j \in 2 .. Len(fs) : j \in 1 .. Len(fs)
    BY <1>0, <2>5
  <2>6. QED
    BY <2>3, <2>4, <2>5 DEF Full
<1>8. CASE Len(fs) > 1 /\ gs \in DropRandomCF(fs)
  <2>1. PICK i \in 2 .. Len(fs) : gs = RemoveAt(fs, i)
    BY <1>8 DEF DropRandomCF, CFs
  <2>2. /\ Len(gs) = Len(fs) - 1
        /\ \A j \in 1 .. Len(fs) - 1 : gs[j] = IF j <= i - 1 THEN fs[j] ELSE fs[j + 1]
    BY <2>1, RemovedIs
  <2>3. gs[1] = fs[1] /\ \A j \in 2 .. Len(gs) : \E k \in 2 .. Len(fs) : gs[j] = fs[k]
    BY <1>0, <1>8, <2>2
  <2>4. QED
    BY <1>8, <2>3, PickedIsFull
<1>9. CASE Len(fs) > 1 /\ gs \in DropLastCF(fs)
  <2>1. gs = SubSeq(fs, 1, Len(fs) - 1)
    BY <1>9 DEF DropLastCF, Front
  <2>2. /\ Len(gs) = Len(fs) - 1
        /\ \A k \in 1 .. Len(fs) - 1 : gs[k] = fs[k]
    BY <1>0, <1>9, <2>1, Slice
  <2>3. gs[1] = fs[1] /\ \A j \in 2 .. Len(gs) : \E k \in 2 .. Len(fs) : gs[j] = fs[k]
    BY <1>0, <1>9, <2>2
  <2>4. QED
    BY <1>9, <2>3, PickedIsFull
<1>10. CASE gs \in WrongSeq(fs)
  <2>1. PICK i \in 2 .. Len(fs) : gs = [fs EXCEPT ![i].n = (@ + 1) % SeqWrap]
    BY <1>10 DEF WrongSeq, CFs
  <2>2. i \in 1 .. Len(fs)
    BY <1>0
  <2>3. (fs[i].n + 1) % SeqWrap \in Nat
    BY <1>0, <2>2, IsoTpAssumption
  <2>4. gs = [fs EXCEPT ![i] = [fs[i] EXCEPT !.n = (fs[i].n + 1) % SeqWrap]]
    BY <2>1
  <2>5. QED
    BY <1>3, <2>2, <2>3, <2>4
<1>11. CASE Len(fs) > 1 /\ gs \in DuplicateCF(fs)
  <2>1. PICK i \in 2 .. Len(fs) : gs = InsertAt(fs, i, fs[i])
    BY <1>11 DEF DuplicateCF, CFs
  <2>2. /\ Len(gs) = Len(fs) + 1
        /\ \A j \in 1 .. Len(fs) + 1 : gs[j] = IF j <= i THEN fs[j] ELSE fs[j - 1]
    BY <2>1, InsertedIs
  <2>3. gs[1] = fs[1] /\ \A j \in 2 .. Len(gs) : \E k \in 2 .. Len(fs) : gs[j] = fs[k]
    BY <1>0, <1>11, <2>2
  <2>4. QED
    BY <1>11, <2>3, PickedIsFull
<1>12. CASE gs \in TruncatedMF(fs)
  <2>1. gs = <<fs[1]>>
    BY <1>12 DEF TruncatedMF
  <2>2. Len(gs) = 1
    BY <2>1
  <2>3. QED
    BY <2>2 DEF Full
<1>13. CASE gs \in WrongLen(fs)
  <2>1. Smaller(fs[1].n + 1, MaxLen) \in Nat /\ 1 \in 1 .. Len(fs)
    BY <1>0, IsoTpAssumption DEF Smaller
  <2>2. gs = [fs EXCEPT ![1] = [fs[1] EXCEPT !.n = Smaller(fs[1].n + 1, MaxLen)]]
    BY <1>13 DEF WrongLen
  <2>3. QED
    BY <1>3, <2>1, <2>2
<1>14. CASE gs = fs
  BY <1>14
<1>15. QED
  BY <1>4, <1>5, <1>6, <1>7, <1>8, <1>9, <1>10, <1>11, <1>12, <1>13, <1>14
  DEF Injected, SFFaults, MFFaults

\* What handle_uds_payload() returns is a payload, whatever the injector did.
LEMMA UnframedType ==
  ASSUME NEW p \in Payload, NEW gs \in Injected(Segment(p))
  PROVE  Unframed(gs) \in Payload
<1>1. Segment(p) \in Seq(Frame(Byte)) /\ Segment(p) # <<>>
  BY SegmentType
<1>2. Full(Segment(p))
  <2>1. CASE Len(p) > SFCap
    BY <2>1, SegmentParts
  <2>2. CASE ~(Len(p) > SFCap)
    <3>1. Len(Segment(p)) = 1
      BY <2>2, LenProperties, IsoTpAssumption DEF Segment, Payload
    <3>2. QED
      BY <3>1 DEF Full
  <2>3. QED
    BY <2>1, <2>2
<1>3. gs \in Seq(Frame(Byte)) /\ gs # <<>> /\ Full(gs)
  BY <1>1, <1>2, InjectedType, InjectedFull
<1>4. gs[1] \in Frame(Byte)
  <2>1. Len(gs) \in Nat \ {0}
    BY <1>3, EmptySeq
  <2>2. 1 \in 1 .. Len(gs)
    BY <2>1
  <2>3. QED
    BY <1>3, <2>2, ElementOfSeq
<1>5. gs[1].d \in Seq(Byte) /\ gs[1].n \in Nat
  BY <1>4, FrameParts
<1>6. CASE Len(gs) > 1
  <2>1. Joined(gs) \in Seq(Byte)
    BY <1>3, <1>6, JoinedType
  <2>2. Unframed(gs) = Take(Joined(gs), gs[1].n)
    BY <1>6 DEF Unframed
  <2>3. QED
    BY <1>5, <2>1, <2>2, TakeType DEF Payload
<1>7. CASE ~(Len(gs) > 1) /\ gs[1].t = "SF"
  BY <1>5, <1>7, TakeType DEF Unframed, Payload
<1>8. CASE ~(Len(gs) > 1) /\ gs[1].t # "SF"
  <2>1. "??" \in Byte
    BY DEF Byte, HeaderByte
  <2>2. <<"??">> \o gs[1].d \in Seq(Byte)
    BY <1>5, <2>1, ConcatProperties
  <2>3. gs[1].n \div 256 \in Int
    BY <1>5
  <2>4. Unframed(gs) = Take(<<"??">> \o gs[1].d, gs[1].n \div 256)
    BY <1>8 DEF Unframed
  <2> DEFINE s == <<"??">> \o gs[1].d
             k == gs[1].n \div 256
  <2> HIDE DEF s, k
  <2>5. Take(s, k) \in Seq(Byte)
    BY <2>2, <2>3, TakeType DEF s, k
  <2>6. QED
    BY <2>4, <2>5 DEF Payload, s, k
<1>9. QED
  BY <1>6, <1>7, <1>8

-----------------------------------------------------------------------------
(* Arithmetic *)

\* Quotient and remainder are unique.
LEMMA DivUnique ==
  ASSUME NEW c \in Nat \ {0}, NEW q \in Int, NEW r \in 0 .. c - 1
  PROVE  ((q * c) + r) \div c = q /\ ((q * c) + r) % c = r
<1> DEFINE x == (q * c) + r
           a == x \div c
           b == x % c
<1>1. x \in Int /\ q * c \in Int
  OBVIOUS
<1>2. a \in Int /\ b \in 0 .. c - 1 /\ x = (c * a) + b
  BY <1>1, SMT
<1>3. x = (q * c) + r
  OBVIOUS
<1> HIDE DEF a, b, x
<1> DEFINE y == c * (a - q)
<1>4. y \in Int /\ y = r - b
  BY ONLY <1>1, <1>2, <1>3, SMTT(20)
<1>5. y < c /\ y > -c
  BY <1>2, <1>4
<1>6. a - q >= 1 => y >= c
  BY ONLY <1>2, SMTT(20)
<1>7. a - q <= -1 => y <= -c
  BY ONLY <1>2, SMTT(20)
<1> HIDE DEF y
<1>8. a = q
  BY <1>2, <1>4, <1>5, <1>6, <1>7
<1>9. c * a = q * c
  BY <1>2, <1>8, SMT
<1>10. b = r
  BY <1>1, <1>2, <1>3, <1>9
<1>11. QED
  BY <1>8, <1>10 DEF a, b, x

\* The sequence number after k is the one after k's own, and another one.
LEMMA SeqNext ==
  ASSUME NEW k \in Nat
  PROVE  /\ k % SeqWrap \in Nat
         /\ ((k % SeqWrap) + 1) % SeqWrap = (k + 1) % SeqWrap
         /\ (k + 1) % SeqWrap # k % SeqWrap
<1> DEFINE a == k \div SeqWrap
           b == k % SeqWrap
<1>1. SeqWrap \in Nat \ {0} /\ SeqWrap > 1
  BY IsoTpAssumption
<1>2. a \in Int /\ b \in 0 .. SeqWrap - 1 /\ k = (a * SeqWrap) + b
  BY <1>1, SMT
<1> HIDE DEF a, b
<1> DEFINE y == a * SeqWrap
<1>3. y \in Int
  BY <1>1, <1>2
<1>4. CASE b + 1 < SeqWrap
  <2>1. b + 1 \in 0 .. SeqWrap - 1 /\ k + 1 = y + (b + 1)
    BY <1>1, <1>2, <1>3, <1>4
  <2>2. (k + 1) % SeqWrap = b + 1
    BY <1>1, <1>2, <2>1, DivUnique
  <2>3. (b + 1) % SeqWrap = b + 1
    <3>1. b + 1 = (0 * SeqWrap) + (b + 1)
      BY <1>1, <1>2
    <3>2. QED
      BY <1>1, <2>1, <3>1, DivUnique
  <2>4. QED
    BY <1>2, <2>2, <2>3 DEF b
<1>5. CASE b + 1 = SeqWrap
  <2>1. k + 1 = ((a + 1) * SeqWrap) + 0
    BY <1>1, <1>2, <1>5, SMT
  <2>2. 0 \in 0 .. SeqWrap - 1 /\ a + 1 \in Int
    BY <1>1, <1>2
  <2>3. (k + 1) % SeqWrap = 0
    BY <1>1, <2>1, <2>2, DivUnique
  <2>4. (b + 1) % SeqWrap = 0
    <3>1. b + 1 = (1 * SeqWrap) + 0
      BY <1>1, <1>5
    <3>2. QED
      BY <1>1, <2>2, <3>1, DivUnique
  <2>5. QED
    BY <1>1, <1>2, <1>5, <2>3, <2>4 DEF b
<1>6. QED
  BY <1>1, <1>2, <1>4, <1>5

-----------------------------------------------------------------------------
(* Prefixes and suffixes *)

\* The elements of a prefix.
LEMMA TakeIs ==
  ASSUME NEW s \in Seq(Byte), NEW n \in Nat, n <= Len(s)
  PROVE  /\ Take(s, n) \in Seq(Byte) /\ Len(Take(s, n)) = n
         /\ \A i \in 1 .. n : Take(s, n)[i] = s[i]
<1>1. Take(s, n) = SubSeq(s, 1, n)
  BY LenProperties DEF Take, Smaller
<1>2. /\ SubSeq(s, 1, n) \in Seq(Byte)
      /\ Len(SubSeq(s, 1, n)) = n - 1 + 1
      /\ \A i \in 1 .. n - 1 + 1 : SubSeq(s, 1, n)[i] = s[1 - 1 + i]
  BY Slice
<1>3. QED
  BY <1>1, <1>2

\* A prefix grows by what follows it.
LEMMA TakeMore ==
  ASSUME NEW s \in Seq(Byte), NEW d \in Seq(Byte), NEW h \in Nat, NEW t \in Nat,
         h + t <= Len(s), t <= Len(d), \A r \in 1 .. t : s[h + r] = d[r]
  PROVE  Take(s, h) \o Take(d, t) = Take(s, h + t)
<1> DEFINE a == Take(s, h)
           b == Take(d, t)
           c == Take(s, h + t)
<1>1. Len(s) \in Nat /\ Len(d) \in Nat /\ h + t \in Nat /\ h <= Len(s)
  BY LenProperties
<1>2. a \in Seq(Byte) /\ Len(a) = h /\ \A i \in 1 .. h : a[i] = s[i]
  BY <1>1, TakeIs
<1>3. b \in Seq(Byte) /\ Len(b) = t /\ \A i \in 1 .. t : b[i] = d[i]
  BY <1>1, TakeIs
<1>4. c \in Seq(Byte) /\ Len(c) = h + t /\ \A i \in 1 .. h + t : c[i] = s[i]
  BY <1>1, TakeIs
<1> HIDE DEF a, b, c
<1>5. /\ a \o b \in Seq(Byte)
      /\ Len(a \o b) = Len(a) + Len(b)
      /\ \A i \in 1 .. Len(a) + Len(b) :
           (a \o b)[i] = IF i <= Len(a) THEN a[i] ELSE b[i - Len(a)]
  BY <1>2, <1>3, ConcatProperties
<1>6. ASSUME NEW i \in 1 .. h + t
      PROVE  (a \o b)[i] = c[i]
  <2>0. /\ i \in Int /\ i >= 1 /\ i <= h + t
        /\ (a \o b)[i] = IF i <= h THEN a[i] ELSE b[i - h]
    BY <1>1, <1>2, <1>3, <1>5
  <2>1. CASE i <= h
    <3>1. i \in 1 .. h
      BY <2>0, <2>1
    <3>2. QED
      BY <1>2, <1>4, <2>0, <2>1, <3>1
  <2>2. CASE i > h
    <3>1. i - h \in 1 .. t /\ h + (i - h) = i
      BY <1>1, <2>0, <2>2
    <3>2. b[i - h] = s[i]
      BY <1>3, <3>1
    <3>3. ~(i <= h)
      BY <2>0, <2>2
    <3>4. QED
      BY <1>4, <2>0, <3>2, <3>3
  <2>3. QED
    BY <2>0, <2>1, <2>2
<1>7. a \o b = c
  BY <1>2, <1>3, <1>4, <1>5, <1>6, SeqEqual
<1>8. QED
  BY <1>7 DEF a, b, c

\* The first of what remains after k elements, and what remains after it.
LEMMA Suffix ==
  ASSUME NEW S, NEW s \in Seq(S), NEW k \in 0 .. Len(s)
  PROVE  /\ SubSeq(s, k + 1, Len(s)) = <<>> <=> k = Len(s)
         /\ k < Len(s) =>
              /\ Head(SubSeq(s, k + 1, Len(s))) = s[k + 1]
              /\ Tail(SubSeq(s, k + 1, Len(s))) = SubSeq(s, k + 2, Len(s))
<1> DEFINE u == SubSeq(s, k + 1, Len(s))
           v == SubSeq(s, k + 2, Len(s))
<1>1. Len(s) \in Nat /\ k \in Nat
  BY LenProperties
<1>2. /\ u \in Seq(S) /\ Len(u) = Len(s) - k
      /\ \A i \in 1 .. Len(s) - k : u[i] = s[k + i]
  BY <1>1, Slice
<1> HIDE DEF u
<1>3. u = <<>> <=> k = Len(s)
  BY <1>1, <1>2, EmptySeq
<1>4. ASSUME k < Len(s)
      PROVE  Head(u) = s[k + 1] /\ Tail(u) = v
  <2>1. u # <<>> /\ 1 \in 1 .. Len(s) - k
    BY <1>1, <1>3, <1>4
  <2>2. Head(u) = s[k + 1]
    BY <1>2, <2>1, HeadTailProperties
  <2>3. /\ Tail(u) \in Seq(S) /\ Len(Tail(u)) = Len(s) - k - 1
        /\ \A i \in 1 .. Len(s) - k - 1 : Tail(u)[i] = u[i + 1]
    BY <1>2, <2>1, HeadTailProperties
  <2>4. /\ v \in Seq(S) /\ Len(v) = Len(s) - k - 1
        /\ \A i \in 1 .. Len(s) - k - 1 : v[i] = s[k + 1 + i]
    BY <1>1, <1>4, Slice
  <2> HIDE DEF v
  <2>5. \A i \in 1 .. Len(s) - k - 1 : Tail(u)[i] = v[i]
    BY <1>1, <1>2, <2>3, <2>4
  <2>6. QED
    BY <2>2, <2>3, <2>4, <2>5, SeqEqual
<1>5. QED
  BY <1>3, <1>4 DEF u

-----------------------------------------------------------------------------
(* Frames *)

\* The symbols that k frames carry, a first frame and k - 1 consecutive ones.
Offset(k) == FFCap + ((k - 1) * CFCap)

LEMMA OffsetIs ==
  /\ Offset(1) = FFCap
  /\ \A k \in Nat \ {0} : Offset(k) \in Nat /\ Offset(k + 1) = Offset(k) + CFCap
  /\ \A k, m \in Nat \ {0} : k <= m => Offset(k) <= Offset(m)
<1>1. FFCap \in Nat /\ CFCap \in Nat \ {0}
  BY IsoTpAssumption
<1>2. (1 - 1) * CFCap = 0
  BY <1>1
<1>3. ASSUME NEW k \in Nat \ {0}
      PROVE  Offset(k) \in Nat /\ Offset(k + 1) = Offset(k) + CFCap
  <2>1. (k - 1) * CFCap \in Nat /\ ((k + 1) - 1) * CFCap = ((k - 1) * CFCap) + CFCap
    BY <1>1, SMT
  <2>2. QED
    BY <1>1, <2>1 DEF Offset
<1>4. ASSUME NEW k \in Nat \ {0}, NEW m \in Nat \ {0}, k <= m
      PROVE  Offset(k) <= Offset(m)
  <2>1. m - k \in Nat /\ (m - k) * CFCap \in Nat
    BY <1>1, <1>4
  <2>2. (m - 1) * CFCap = ((k - 1) * CFCap) + ((m - k) * CFCap)
    BY <1>1, <2>1, SMT
  <2>3. (k - 1) * CFCap \in Int
    BY <1>1
  <2>4. QED
    BY <1>1, <2>1, <2>2, <2>3 DEF Offset
<1>5. QED
  BY <1>1, <1>2, <1>3, <1>4 DEF Offset

\* No consecutive frame is sent in vain: what is left for the last one is not
\* empty (isotp.py:119-125).
LEMMA NoneInVain ==
  ASSUME NEW p \in Payload, Len(p) > SFCap
  PROVE  /\ CFCount(p) \in Nat \ {0}
         /\ Offset(CFCount(p)) < Len(p)
         /\ Len(p) <= Offset(CFCount(p) + 1)
<1> DEFINE x == Len(p) - FFCap + CFCap - 1
           q == x \div CFCap
<1>1. Len(p) \in Nat /\ FFCap \in Nat /\ CFCap \in Nat \ {0} /\ Len(p) - FFCap >= 1
  BY LenProperties, IsoTpAssumption DEF Payload
<1>2. x \in Nat
  BY <1>1
<1>3. x = Len(p) - FFCap + CFCap - 1
  OBVIOUS
<1> HIDE DEF x
<1>4. q \in Int /\ x = (CFCap * q) + (x % CFCap) /\ x % CFCap \in 0 .. CFCap - 1
  BY <1>1, <1>2, SMT
<1>5. CFCount(p) = q
  BY DEF CFCount, x
<1> HIDE DEF q
<1>6. /\ CFCap * q \in Int /\ (q - 1) * CFCap = (CFCap * q) - CFCap
      /\ ((q + 1) - 1) * CFCap = CFCap * q
  BY <1>1, <1>4, SMT
<1>7. CFCount(p) \in Nat \ {0}
  BY CFCountIs
<1>8. FFCap + ((q - 1) * CFCap) < Len(p)
  BY <1>1, <1>3, <1>4, <1>6
<1>9. Len(p) <= FFCap + (((q + 1) - 1) * CFCap)
  BY <1>1, <1>3, <1>4, <1>6
<1>10. QED
  BY <1>5, <1>7, <1>8, <1>9 DEF Offset

\* What a full frame contributes to the frames joined.
LEMMA JoinedParts ==
  ASSUME NEW gs \in Seq(Frame(Byte)), Len(gs) > 1, Full(gs)
  PROVE  /\ Joined(gs) \in Seq(Byte) /\ Len(Joined(gs)) = Offset(Len(gs))
         /\ gs[1].d \in Seq(Byte) /\ Len(gs[1].d) = FFCap
         /\ Take(gs[1].d, FFCap) = Take(Joined(gs), FFCap)
         /\ \A k \in 1 .. Len(gs) - 1 :
              /\ gs[k + 1].d \in Seq(Byte) /\ Len(gs[k + 1].d) = CFCap
              /\ \A r \in 1 .. CFCap : Joined(gs)[Offset(k) + r] = gs[k + 1].d[r]
<1>0. /\ Len(gs) \in Nat /\ Len(gs) - 1 \in Nat \ {0}
      /\ FFCap \in Nat \ {0} /\ CFCap \in Nat \ {0} /\ Offset(Len(gs)) \in Nat
  <2>1. Len(gs) \in Nat
    BY LenProperties
  <2>2. \A k \in Nat : k > 1 => k \in Nat \ {0} /\ k - 1 \in Nat \ {0}
    OBVIOUS
  <2>3. Len(gs) \in Nat \ {0} /\ Len(gs) - 1 \in Nat \ {0}
    BY <2>1, <2>2, Zenon
  <2>4. QED
    BY <2>3, OffsetIs, IsoTpAssumption
<1>1. Joined(gs) \in Seq(Byte) /\ Len(Joined(gs)) = Offset(Len(gs))
  BY JoinedType DEF Offset
<1>2. \A i \in 1 .. Len(gs) : gs[i] \in Frame(Byte) /\ gs[i].d \in Seq(Byte)
  BY ElementOfSeq, FrameParts
<1>3. gs[1].d \in Seq(Byte) /\ Len(gs[1].d) = FFCap
  BY <1>0, <1>2 DEF Full
<1>4. FFCap <= Offset(Len(gs))
  BY <1>0, OffsetIs
<1>5. ASSUME NEW i \in 1 .. Offset(Len(gs))
      PROVE  Joined(gs)[i] =
               IF i <= FFCap THEN gs[1].d[i]
               ELSE gs[2 + ((i - FFCap - 1) \div CFCap)].d[1 + ((i - FFCap - 1) % CFCap)]
  BY <1>5 DEF Joined, Offset
<1>6. Take(gs[1].d, FFCap) = Take(Joined(gs), FFCap)
  <2>1. /\ Take(gs[1].d, FFCap) \in Seq(Byte) /\ Len(Take(gs[1].d, FFCap)) = FFCap
        /\ \A i \in 1 .. FFCap : Take(gs[1].d, FFCap)[i] = gs[1].d[i]
    BY <1>0, <1>3, TakeIs
  <2>2. /\ Take(Joined(gs), FFCap) \in Seq(Byte) /\ Len(Take(Joined(gs), FFCap)) = FFCap
        /\ \A i \in 1 .. FFCap : Take(Joined(gs), FFCap)[i] = Joined(gs)[i]
    BY <1>0, <1>1, <1>4, TakeIs
  <2>3. ASSUME NEW i \in 1 .. FFCap
        PROVE  Joined(gs)[i] = gs[1].d[i]
    <3>1. i \in 1 .. Offset(Len(gs)) /\ i <= FFCap
      BY <1>0, <1>4
    <3>2. QED
      BY <1>5, <3>1
  <2>4. QED
    BY <2>1, <2>2, <2>3, SeqEqual
<1>7. ASSUME NEW k \in 1 .. Len(gs) - 1
      PROVE  /\ gs[k + 1].d \in Seq(Byte) /\ Len(gs[k + 1].d) = CFCap
             /\ \A r \in 1 .. CFCap : Joined(gs)[Offset(k) + r] = gs[k + 1].d[r]
  <2>1. k + 1 \in 2 .. Len(gs) /\ k + 1 \in 1 .. Len(gs) /\ k \in Nat \ {0}
    BY <1>0
  <2>2. gs[k + 1].d \in Seq(Byte) /\ Len(gs[k + 1].d) = CFCap
    BY <1>0, <1>2, <2>1 DEF Full
  <2>3. ASSUME NEW r \in 1 .. CFCap
        PROVE  Joined(gs)[Offset(k) + r] = gs[k + 1].d[r]
    <3> DEFINE i == Offset(k) + r
               j == ((k - 1) * CFCap) + (r - 1)
    <3>1. /\ Offset(k) \in Nat /\ Offset(k) + CFCap <= Offset(Len(gs))
          /\ FFCap <= Offset(k)
      <4>1. k + 1 \in Nat \ {0} /\ Len(gs) \in Nat \ {0} /\ 1 \in Nat \ {0} /\ 1 <= k /\ k + 1 <= Len(gs)
        BY <1>0, <2>1
      <4>2. QED
        BY <2>1, <4>1, OffsetIs
    <3>2. i \in 1 .. Offset(Len(gs)) /\ i > FFCap
      BY <1>0, <3>1
    <3>3. (k - 1) * CFCap \in Int /\ i - FFCap - 1 = j
      BY <1>0, <2>1 DEF Offset
    <3>4. k - 1 \in Int /\ r - 1 \in 0 .. CFCap - 1
      BY <1>0, <2>1
    <3>5. j \div CFCap = k - 1 /\ j % CFCap = r - 1
      BY <1>0, <3>4, DivUnique
    <3> HIDE DEF i
    <3>6. ~(i <= FFCap) /\ FFCap \in Int
      BY <1>0, <3>2
    <3> HIDE DEF j
    <3>7. Joined(gs)[i] = gs[2 + (j \div CFCap)].d[1 + (j % CFCap)]
      BY <1>5, <3>2, <3>3, <3>6
    <3>8. 2 + (k - 1) = k + 1 /\ 1 + (r - 1) = r
      BY <1>0, <2>1
    <3>9. QED
      BY <3>5, <3>7, <3>8 DEF i
  <2>4. QED
    BY <2>2, <2>3
<1>8. QED
  BY <1>1, <1>3, <1>6, <1>7

-----------------------------------------------------------------------------
(* What a receiver holds *)

\* A frame list that a receiver takes for a response: what segment() makes, and
\* what is left of it when headers and data are rewritten.  The length that is
\* announced is one that the frames can fill.
WellFormed(gs) ==
  /\ gs \in Seq(Frame(Byte)) /\ gs # <<>>
  /\ Len(gs) = 1 =>
       /\ gs[1].t = "SF" /\ gs[1].n \in 1 .. SFCap
       /\ Len(gs[1].d) = SFCap
  /\ Len(gs) > 1 =>
       /\ Full(gs)
       /\ gs[1].t = "FF" /\ gs[1].n > SFCap /\ gs[1].n <= Offset(Len(gs))
       /\ \A i \in 2 .. Len(gs) : gs[i].t = "CF" /\ gs[i].n = (i - 1) % SeqWrap

\* The state of an assembler, and what it has delivered, after k frames of gs.
Holds(gs, k, a, r) ==
  IF k = 0 THEN a = Reset /\ r = <<>>
  ELSE IF gs[1].t = "FF" /\ Offset(k) < gs[1].n
  THEN /\ a = [on |-> TRUE, want |-> gs[1].n,
               buf |-> Take(Joined(gs), Offset(k)), seq |-> k % SeqWrap]
       /\ r = <<>>
  ELSE a = Reset /\ r = <<Unframed(gs)>>

\* What a receiver has delivered after one more frame.
Delivered(a, f, r) == IF Completes(a, f) THEN Append(r, PayloadOf(a, f)) ELSE r

LEMMA ListParts ==
  ASSUME NEW gs \in Seq(Frame(Byte)), gs # <<>>
  PROVE  /\ Len(gs) \in Nat \ {0} /\ 1 \in 1 .. Len(gs)
         /\ Len(gs) = 1 \/ Len(gs) > 1
         /\ \A i \in 1 .. Len(gs) :
              gs[i] \in Frame(Byte) /\ gs[i].d \in Seq(Byte) /\ gs[i].n \in Nat
<1>1. Len(gs) \in Nat \ {0}
  BY EmptySeq
<1>2. \A i \in 1 .. Len(gs) : gs[i] \in Frame(Byte)
  BY ElementOfSeq
<1>3. \A i \in 1 .. Len(gs) : gs[i].d \in Seq(Byte) /\ gs[i].n \in Nat
  BY <1>2, FrameParts
<1>4. \A k \in Nat \ {0} : 1 \in 1 .. k /\ (k = 1 \/ k > 1)
  OBVIOUS
<1>5. QED
  BY <1>1, <1>2, <1>3, <1>4

\* A response is as long as its first frame announces, over DoIP as well.
LEMMA UnframedIs ==
  ASSUME NEW gs, WellFormed(gs)
  PROVE  /\ Unframed(gs) \in Seq(Byte) /\ Len(Unframed(gs)) = gs[1].n
         /\ Len(gs) = 1 => Unframed(gs) = Take(gs[1].d, gs[1].n)
         /\ Len(gs) > 1 => Unframed(gs) = Take(Joined(gs), gs[1].n)
<1>0. gs \in Seq(Frame(Byte)) /\ gs # <<>>
  BY DEF WellFormed
<1>1. /\ Len(gs) = 1 \/ Len(gs) > 1
      /\ gs[1] \in Frame(Byte) /\ gs[1].d \in Seq(Byte) /\ gs[1].n \in Nat
  BY <1>0, ListParts
<1>2. CASE Len(gs) = 1
  <2>1. gs[1].n <= Len(gs[1].d) /\ Unframed(gs) = Take(gs[1].d, gs[1].n)
    BY <1>2, IsoTpAssumption DEF WellFormed, Unframed
  <2>2. QED
    BY <1>1, <1>2, <2>1, TakeIs
<1>3. CASE Len(gs) > 1
  <2>1. Joined(gs) \in Seq(Byte) /\ Len(Joined(gs)) = Offset(Len(gs))
    BY <1>0, <1>3, JoinedParts DEF WellFormed
  <2>2. gs[1].n <= Offset(Len(gs)) /\ Unframed(gs) = Take(Joined(gs), gs[1].n)
    BY <1>3 DEF WellFormed, Unframed
  <2>3. /\ Take(Joined(gs), gs[1].n) \in Seq(Byte)
        /\ Len(Take(Joined(gs), gs[1].n)) = gs[1].n
    BY <1>1, <2>1, <2>2, TakeIs
  <2>4. ~(Len(gs) = 1)
    BY <1>3
  <2>5. QED
    BY <2>2, <2>3, <2>4
<1>4. QED
  BY <1>1, <1>2, <1>3

\* A consecutive frame means nothing to an assembler that waits for none.
LEMMA CFIgnored ==
  ASSUME NEW f, f.t = "CF", NEW r
  PROVE  Fed(Reset, f) = Reset /\ Delivered(Reset, f, r) = r
BY DEF Fed, Delivered, Completes, Fills, IsFirst, IsSingle, IsNext, IsMismatch, Reset

\* One out of sequence ends the assembly with nothing delivered.
LEMMA CFMismatch ==
  ASSUME NEW a, NEW f, f.t = "CF", a.on = TRUE, f.n # a.seq, NEW r
  PROVE  Fed(a, f) = Reset /\ Delivered(a, f, r) = r
BY DEF Fed, Delivered, Completes, Fills, IsFirst, IsSingle, IsNext, IsMismatch

\* The next frame of a response takes the receiver one frame further.
LEMMA HoldsStep ==
  ASSUME NEW gs, WellFormed(gs), NEW k \in 0 .. Len(gs) - 1,
         NEW a, NEW r, Holds(gs, k, a, r)
  PROVE  Holds(gs, k + 1, Fed(a, gs[k + 1]), Delivered(a, gs[k + 1], r))
<1>0. gs \in Seq(Frame(Byte)) /\ gs # <<>>
  BY DEF WellFormed
<1>1. /\ Len(gs) \in Nat \ {0} /\ (Len(gs) = 1 \/ Len(gs) > 1)
      /\ \A i \in 1 .. Len(gs) :
           gs[i] \in Frame(Byte) /\ gs[i].d \in Seq(Byte) /\ gs[i].n \in Nat
  BY <1>0, ListParts
<1>2. /\ FFCap \in Nat \ {0} /\ CFCap \in Nat \ {0} /\ SFCap \in Nat /\ FFCap <= SFCap
      /\ k \in Nat /\ k + 1 \in Nat \ {0} /\ Offset(k + 1) \in Nat /\ Offset(1) = FFCap
  <2>1. k \in Nat /\ k + 1 \in Nat \ {0}
    BY <1>1
  <2>2. Offset(k + 1) \in Nat /\ Offset(1) = FFCap
    BY <2>1, OffsetIs
  <2>3. QED
    BY <2>1, <2>2, IsoTpAssumption
<1>3. CASE Len(gs) = 1
  <2> DEFINE f == gs[1]
  <2>1. k = 0 /\ a = Reset /\ r = <<>>
    BY <1>3 DEF Holds
  <2>2. f.t = "SF" /\ f.n \in 1 .. SFCap
    BY <1>3 DEF WellFormed
  <2>3. /\ Completes(a, f) /\ PayloadOf(a, f) = Take(f.d, f.n) /\ Fed(a, f) = Reset
    BY <2>2 DEF Completes, PayloadOf, Fed, Fills, IsFirst, IsSingle, IsNext, IsMismatch
  <2>4. Unframed(gs) = Take(f.d, f.n)
    BY <1>3, UnframedIs
  <2>5. Delivered(a, f, r) = <<Unframed(gs)>>
    BY <2>1, <2>3, <2>4 DEF Delivered
  <2>6. k + 1 = 1
    BY <2>1
  <2>7. QED
    BY <2>2, <2>3, <2>5, <2>6 DEF Holds
<1>4. CASE Len(gs) > 1 /\ k = 0
  <2> DEFINE f == gs[1]
  <2>1. a = Reset /\ r = <<>> /\ k + 1 = 1
    BY <1>4 DEF Holds
  <2>2. f.t = "FF" /\ f.n > SFCap /\ f.n \in Nat
    BY <1>1, <1>4 DEF WellFormed
  <2>3. /\ Fed(a, f) = [on |-> TRUE, want |-> f.n, buf |-> Take(f.d, FFCap), seq |-> 1]
        /\ ~Completes(a, f)
    BY <2>2 DEF Completes, Fed, Fills, IsFirst, IsSingle, IsNext, IsMismatch
  <2>4. Take(f.d, FFCap) = Take(Joined(gs), FFCap)
    BY <1>0, <1>4, JoinedParts DEF WellFormed
  <2>5. 1 % SeqWrap = 1
    <3>1. 1 = (0 * SeqWrap) + 1 /\ 1 \in 0 .. SeqWrap - 1 /\ SeqWrap \in Nat \ {0}
      BY IsoTpAssumption
    <3>2. QED
      BY <3>1, DivUnique
  <2>6. Offset(1) < f.n
    BY <1>2, <2>2
  <2>7. Delivered(a, f, r) = <<>>
    BY <2>1, <2>3 DEF Delivered
  <2>8. QED
    BY <1>2, <2>1, <2>2, <2>3, <2>4, <2>5, <2>6, <2>7 DEF Holds
<1>5. CASE Len(gs) > 1 /\ k > 0
  <2> DEFINE f == gs[k + 1]
             n == gs[1].n
             J == Joined(gs)
             h == Offset(k)
             t == Smaller(CFCap, n - h)
  <2>1. /\ k \in Nat \ {0} /\ k + 1 \in 2 .. Len(gs) /\ k \in 1 .. Len(gs) - 1
        /\ k + 1 \in 1 .. Len(gs) /\ 1 \in 1 .. Len(gs)
    BY <1>1, <1>2, <1>5
  <2>2. /\ f.t = "CF" /\ f.n = k % SeqWrap /\ gs[1].t = "FF"
        /\ n \in Nat /\ n <= Offset(Len(gs))
    <3>1. (k + 1) - 1 = k
      BY <1>2
    <3>2. QED
      BY <1>1, <1>5, <2>1, <3>1 DEF WellFormed
  <2>3. h \in Nat /\ Offset(k + 1) = h + CFCap
    BY <2>1, OffsetIs
  <2>4. CASE ~(h < n)
    <3>1. a = Reset /\ r = <<Unframed(gs)>>
      BY <2>1, <2>4 DEF Holds
    <3>2. Fed(a, f) = Reset /\ Delivered(a, f, r) = r
      BY <2>2, <3>1, CFIgnored
    <3>3. ~(Offset(k + 1) < n)
      BY <1>2, <2>2, <2>3, <2>4
    <3>4. QED
      BY <1>2, <3>1, <3>2, <3>3 DEF Holds
  <2>5. CASE h < n
    <3>1. /\ a = [on |-> TRUE, want |-> n, buf |-> Take(J, h), seq |-> k % SeqWrap]
          /\ r = <<>>
      BY <2>1, <2>2, <2>5 DEF Holds
    <3>2. /\ J \in Seq(Byte) /\ Len(J) = Offset(Len(gs))
          /\ f.d \in Seq(Byte) /\ Len(f.d) = CFCap
          /\ \A i \in 1 .. CFCap : J[h + i] = f.d[i]
      BY <1>0, <1>5, <2>1, JoinedParts DEF WellFormed
    <3>3. h <= Len(J) /\ Len(J) \in Nat
      BY <2>2, <2>3, <2>5, <3>2, LenProperties
    <3> HIDE DEF f, n, J, h
    <3>4. Len(Take(J, h)) = h
      BY <2>3, <3>2, <3>3, TakeIs
    <3>5. /\ t \in Nat /\ t <= CFCap /\ h + t <= n
          /\ (h + t = n \/ (t = CFCap /\ h + CFCap < n))
      BY <1>2, <2>2, <2>3, <2>5 DEF Smaller
    <3> HIDE DEF t
    <3>6. Take(J, h) \o Take(f.d, t) = Take(J, h + t)
      <4>1. h + t <= Len(J)
        BY <2>2, <2>3, <3>2, <3>3, <3>5
      <4>2. \A i \in 1 .. t : J[h + i] = f.d[i]
        BY <1>2, <3>2, <3>5
      <4>3. QED
        BY <2>3, <3>2, <3>5, <4>1, <4>2, TakeMore
    <3>7. Grown(a, f) = Take(J, h + t)
      BY <3>1, <3>4, <3>6 DEF Grown, t
    <3>8. Len(Grown(a, f)) = h + t
      <4>1. h + t \in Nat /\ h + t <= Len(J)
        BY <2>2, <2>3, <3>2, <3>3, <3>5
      <4>2. QED
        BY <3>2, <3>7, <4>1, TakeIs
    <3>9. IsNext(a, f) /\ ~IsFirst(f) /\ ~IsSingle(f) /\ ~IsMismatch(a, f)
      BY <2>2, <3>1 DEF IsNext, IsFirst, IsSingle, IsMismatch
    <3>10. CASE h + t = n
      <4>1. Fills(a, f)
        BY <2>2, <3>1, <3>8, <3>9, <3>10 DEF Fills
      <4>2. Completes(a, f) /\ Fed(a, f) = Reset
        BY <3>9, <4>1 DEF Completes, Fed
      <4>3. PayloadOf(a, f) = Take(Grown(a, f), n)
        BY <3>1, <3>9 DEF PayloadOf
      <4>4. Take(Grown(a, f), n) = Take(J, n)
        <5>1. n <= Len(J)
          BY <2>2, <3>2
        <5>2. /\ Take(J, n) \in Seq(Byte) /\ Len(Take(J, n)) = n
          BY <2>2, <3>2, <5>1, TakeIs
        <5>3. SubSeq(Take(J, n), 1, Len(Take(J, n))) = Take(J, n)
          BY <5>2, TakePrefix
        <5>4. QED
          BY <2>2, <3>7, <3>10, <5>2, <5>3 DEF Take, Smaller
      <4>5. Unframed(gs) = Take(J, n)
        BY <1>5, UnframedIs DEF J, n
      <4>6. Delivered(a, f, r) = <<Unframed(gs)>>
        BY <3>1, <4>2, <4>3, <4>4, <4>5 DEF Delivered
      <4>7. ~(Offset(k + 1) < n)
        BY <1>2, <2>2, <2>3, <3>5, <3>10
      <4>8. QED
        BY <1>2, <4>2, <4>6, <4>7 DEF Holds, f, n
    <3>11. CASE t = CFCap /\ h + CFCap < n
      <4>1. ~Fills(a, f)
        BY <1>2, <2>2, <2>3, <3>1, <3>8, <3>11 DEF Fills
      <4>2. /\ ~Completes(a, f)
            /\ Fed(a, f) = [a EXCEPT !.buf = Grown(a, f), !.seq = (a.seq + 1) % SeqWrap]
        BY <3>9, <4>1 DEF Completes, Fed
      <4>3. ((k % SeqWrap) + 1) % SeqWrap = (k + 1) % SeqWrap
        BY <1>2, SeqNext
      <4>4. Fed(a, f) = [on |-> TRUE, want |-> n, buf |-> Take(J, Offset(k + 1)),
                         seq |-> (k + 1) % SeqWrap]
        BY <2>3, <3>1, <3>7, <3>11, <4>2, <4>3
      <4>5. Delivered(a, f, r) = <<>>
        BY <3>1, <4>2 DEF Delivered
      <4>6. Offset(k + 1) < n
        BY <2>3, <3>11
      <4>7. QED
        BY <1>2, <2>2, <4>4, <4>5, <4>6 DEF Holds, f, n, J
    <3>12. QED
      BY <3>5, <3>10, <3>11
  <2>6. QED
    BY <2>4, <2>5
<1>6. QED
  BY <1>1, <1>2, <1>3, <1>4, <1>5

\* segment() makes a well formed list, and needs each of its frames.
LEMMA SegmentWellFormed ==
  ASSUME NEW p \in Payload, p # <<>>
  PROVE  /\ WellFormed(Segment(p)) /\ Segment(p)[1].n = Len(p)
         /\ Unframed(Segment(p)) = p
         /\ Len(Segment(p)) > 1 => Offset(Len(Segment(p)) - 1) < Len(p)
<1> DEFINE S == Segment(p)
<1>1. /\ p \in Payload /\ p \in Seq(Byte) /\ Len(p) \in Nat \ {0}
      /\ SFCap \in Nat
  BY IsoTpAssumption, EmptySeq DEF Payload
<1>2. S \in Seq(Frame(Byte)) /\ S # <<>> /\ Unframed(S) = p
  BY <1>1, SegmentType, UnframedSegment
<1>3. CASE Len(p) <= SFCap
  <2>1. Len(S) = 1 /\ S[1] = SingleFrame(p)
    BY <1>3 DEF Segment
  <2>2. /\ S[1].t = "SF" /\ S[1].n = Len(p) /\ S[1].d = Padded(p, SFCap)
    BY <2>1 DEF SingleFrame
  <2>3. Len(S[1].d) = SFCap
    BY <1>1, <1>3, <2>2, PaddedIs
  <2>4. Len(p) \in 1 .. SFCap /\ ~(Len(S) > 1)
    BY <1>1, <1>3, <2>1
  <2>5. QED
    BY <1>2, <2>1, <2>2, <2>3, <2>4 DEF WellFormed
<1>4. CASE Len(p) > SFCap
  <2> DEFINE n == CFCount(p)
  <2>1. n \in Nat \ {0} /\ Offset(n) < Len(p) /\ Len(p) <= Offset(n + 1)
    BY <1>1, <1>4, NoneInVain
  <2>2. /\ Len(S) = 1 + n /\ S[1] = FirstFrame(p) /\ Full(S)
        /\ \A k \in 1 .. n : S[k + 1] = ConsecutiveFrame(p, k)
    BY <1>1, <1>4, SegmentParts
  <2> HIDE DEF n, S
  <2>3. S[1].t = "FF" /\ S[1].n = Len(p)
    BY <2>2 DEF FirstFrame
  <2>4. Len(S) > 1 /\ Len(S) # 1 /\ Len(S) = n + 1 /\ Len(S) - 1 = n
    BY <2>1, <2>2
  <2>5. ASSUME NEW i \in 2 .. Len(S)
        PROVE  S[i].t = "CF" /\ S[i].n = (i - 1) % SeqWrap
    <3>1. i - 1 \in 1 .. n /\ (i - 1) + 1 = i
      BY <2>1, <2>4
    <3>2. S[i] = ConsecutiveFrame(p, i - 1)
      BY <2>2, <3>1
    <3>3. QED
      BY <3>2 DEF ConsecutiveFrame
  <2>6. WellFormed(S)
    BY <1>2, <1>4, <2>1, <2>2, <2>3, <2>4, <2>5 DEF WellFormed
  <2>7. QED
    BY <1>2, <2>1, <2>3, <2>4, <2>6 DEF S
<1>5. QED
  BY <1>1, <1>3, <1>4

\* At the end a well formed list has been delivered, and not before its
\* announced length is there.
LEMMA HoldsAtEnd ==
  ASSUME NEW gs, WellFormed(gs), NEW a, NEW r, Holds(gs, Len(gs), a, r)
  PROVE  a = Reset /\ r = <<Unframed(gs)>>
<1>1. /\ gs \in Seq(Frame(Byte)) /\ gs # <<>>
  BY DEF WellFormed
<1>2. /\ Len(gs) \in Nat \ {0} /\ (Len(gs) = 1 \/ Len(gs) > 1)
      /\ gs[1].n \in Nat /\ Offset(Len(gs)) \in Nat
  BY <1>1, ListParts, OffsetIs
<1>3. ~(gs[1].t = "FF" /\ Offset(Len(gs)) < gs[1].n)
  <2>1. CASE Len(gs) = 1
    BY <2>1 DEF WellFormed
  <2>2. CASE Len(gs) > 1
    BY <1>2, <2>2 DEF WellFormed
  <2>3. QED
    BY <1>2, <2>1, <2>2
<1>4. Len(gs) # 0
  BY <1>2
<1>5. QED
  BY <1>3, <1>4 DEF Holds

\* Before the end of a response the receiver is waiting for more of it.
LEMMA HoldsBefore ==
  ASSUME NEW p \in Payload, p # <<>>, NEW k \in 1 .. Len(Segment(p)) - 1, NEW a, NEW r,
         Holds(Segment(p), k, a, r)
  PROVE  /\ a.on = TRUE /\ r = <<>>
         /\ a.buf = Take(p, Len(a.buf))
<1> DEFINE S == Segment(p)
<1>1. /\ WellFormed(S) /\ S[1].n = Len(p) /\ S \in Seq(Frame(Byte)) /\ S # <<>>
      /\ Len(S) > 1 => Offset(Len(S) - 1) < Len(p)
  BY SegmentWellFormed DEF WellFormed
<1>2. p \in Seq(Byte) /\ Len(p) \in Nat
  BY LenProperties DEF Payload
<1>3. Len(S) > 1 /\ k \in Nat \ {0} /\ Len(S) - 1 \in Nat \ {0} /\ k <= Len(S) - 1 /\ k # 0
  <2>1. Len(S) \in Nat
    BY <1>1, LenProperties
  <2>2. \A n \in Nat : \A i \in 1 .. n - 1 :
          n > 1 /\ i \in Nat \ {0} /\ n - 1 \in Nat \ {0} /\ i <= n - 1 /\ i # 0
    OBVIOUS
  <2>3. QED
    BY <2>1, <2>2, Zenon
<1>4. /\ Offset(k) \in Nat /\ Offset(k) < Len(p) /\ S[1].t = "FF"
  <2>1. Offset(k) <= Offset(Len(S) - 1) /\ Offset(k) \in Nat /\ Offset(Len(S) - 1) \in Nat
    BY <1>3, OffsetIs
  <2>2. QED
    BY <1>1, <1>2, <1>3, <2>1 DEF WellFormed
<1> HIDE DEF S
<1>5. /\ a = [on |-> TRUE, want |-> S[1].n,
              buf |-> Take(Joined(S), Offset(k)), seq |-> k % SeqWrap]
      /\ r = <<>>
  BY <1>1, <1>3, <1>4 DEF Holds, S
<1>6. a.buf = Take(p, Len(a.buf))
  <2>1. Joined(S) \in Seq(Byte) /\ Len(Joined(S)) = Offset(Len(S))
    BY <1>1, <1>3, JoinedParts DEF WellFormed
  <2>2. p = Take(Joined(S), Len(p)) /\ Len(p) <= Len(Joined(S))
    BY <1>1, <1>3, <2>1, SegmentWellFormed, UnframedIs DEF S, WellFormed
  <2>3. /\ Offset(k) <= Len(Joined(S)) /\ Offset(k) <= Len(p)
    BY <1>2, <1>4, <2>1, <2>2, LenProperties
  <2>4. /\ a.buf \in Seq(Byte) /\ Len(a.buf) = Offset(k)
        /\ \A i \in 1 .. Offset(k) : a.buf[i] = Joined(S)[i]
    BY <1>4, <1>5, <2>1, <2>3, TakeIs
  <2>5. \A i \in 1 .. Len(p) : p[i] = Joined(S)[i]
    BY <1>2, <2>1, <2>2, TakeIs
  <2>6. /\ Take(p, Offset(k)) \in Seq(Byte) /\ Len(Take(p, Offset(k))) = Offset(k)
        /\ \A i \in 1 .. Offset(k) : Take(p, Offset(k))[i] = p[i]
    BY <1>2, <1>4, <2>3, TakeIs
  <2>7. ASSUME NEW i \in 1 .. Offset(k)
        PROVE  Take(p, Offset(k))[i] = a.buf[i]
    <3>1. i \in 1 .. Len(p)
      BY <1>2, <1>4
    <3>2. QED
      BY <2>4, <2>5, <2>6, <3>1
  <2>8. QED
    BY <2>4, <2>6, <2>7, SeqEqual
<1>7. QED
  BY <1>5, <1>6
=============================================================================
