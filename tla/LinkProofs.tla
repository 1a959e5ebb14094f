----------------------------- MODULE LinkProofs ----------------------------
(***************************************************************************)
(* Proofs about Link, for every response, every frame size and every wrap  *)
(* of the sequence number: what a receiver holds after each frame of a     *)
(* clean response or of one that a fault has changed, and what it and a    *)
(* DoIP client have at the end.                                            *)
(***************************************************************************)
EXTENDS Link, ProtocolProofs

-----------------------------------------------------------------------------
(* What the faults make of a response *)

\* What SegmentWellFormed says, for the responses of this module.
LEMMA ResponseSegments ==
  ASSUME NEW p \in Responses
  PROVE  /\ p \in Payload /\ p # <<>>
         /\ WellFormed(Segment(p)) /\ Segment(p)[1].n = Len(p)
         /\ Unframed(Segment(p)) = p
         /\ Len(Segment(p)) > 1 => Offset(Len(Segment(p)) - 1) < Len(p)
BY LinkAssumption, SegmentWellFormed

LEMMA ApplyIs ==
  ASSUME NEW fs
  PROVE  /\ Apply("NONE", fs) = {fs}
         /\ Apply("WRONG_DID", fs) = WrongDid(fs)
         /\ Apply("WRONG_SERVICE", fs) = WrongService(fs)
         /\ Apply("SHORT_PAYLOAD", fs) = ShortPayload(fs)
         /\ Apply("WRONG_PADDING", fs) = WrongPadding(fs)
         /\ Apply("DROP_RANDOM_CF", fs) = DropRandomCF(fs)
         /\ Apply("DROP_LAST_CF", fs) = DropLastCF(fs)
         /\ Apply("WRONG_SEQ", fs) = WrongSeq(fs)
         /\ Apply("DUPLICATE_CF", fs) = DuplicateCF(fs)
         /\ Apply("TRUNCATED_MF", fs) = TruncatedMF(fs)
         /\ Apply("WRONG_LEN", fs) = WrongLen(fs)
BY DEF Apply

\* What a fault drawn from the pool makes is what the injector may make.
LEMMA ApplyIsInjected ==
  ASSUME NEW fs, NEW ft \in Pool(fs), NEW gs \in Apply(ft, fs)
  PROVE  /\ gs \in Injected(fs)
         /\ ft \in Structural \cup {"WRONG_LEN"} => Len(fs) > 1
<1>1. CASE ft = "NONE"
  BY <1>1, ApplyIs DEF Injected, Structural
<1>2. CASE ft # "NONE" /\ Len(fs) > 1
  <2>1. HasErrors /\ ft \in MFPool
    BY <1>2, FaultsAssumption DEF Pool
  <2>2. gs \in MFFaults(fs)
    BY <2>1, ApplyIs DEF MFPool, SFPool, MFFaults, SFFaults
  <2>3. QED
    BY <1>2, <2>1, <2>2 DEF Injected
<1>3. CASE ft # "NONE" /\ ~(Len(fs) > 1)
  <2>1. HasErrors /\ ft \in SFPool
    BY <1>3, FaultsAssumption DEF Pool
  <2>2. gs \in SFFaults(fs)
    BY <2>1, ApplyIs DEF SFPool, SFFaults
  <2>3. QED
    BY <1>3, <2>1, <2>2 DEF Injected, SFPool, Structural
<1>4. QED
  BY <1>1, <1>2, <1>3

\* The faults that rewrite keep frames, numbers and lengths, but for a length
\* whose low byte is the padding byte.
LEMMA RewrittenIs ==
  ASSUME NEW fs \in Seq(Frame(Byte)), fs # <<>>, NEW gs \in SFFaults(fs)
  PROVE  /\ Len(gs) = Len(fs)
         /\ \A j \in 1 .. Len(fs) :
              /\ gs[j].t = fs[j].t /\ Len(gs[j].d) = Len(fs[j].d)
              /\ \/ gs[j].n = fs[j].n
                 \/ fs[j].t = "FF" /\ fs[j].n % 256 = 204 /\ gs[j].n = fs[j].n - 34
         /\ gs \in WrongDid(fs) \cup WrongService(fs) \cup ShortPayload(fs) =>
              \A j \in 1 .. Len(fs) : gs[j].n = fs[j].n
<1>0. /\ Len(fs) \in Nat \ {0} /\ 1 \in 1 .. Len(fs) /\ Len(fs) \in 1 .. Len(fs)
      /\ \A i \in 1 .. Len(fs) :
           fs[i] \in Frame(Byte) /\ fs[i].d \in Seq(Byte) /\ fs[i].n \in Nat
  BY ListParts
<1>1. \A x \in {"??", "00", "AA", "CC"} : x \in Byte
  BY DEF Byte, HeaderByte
<1>2. ASSUME NEW i \in 1 .. Len(fs), NEW d \in Seq(Byte), Len(d) = Len(fs[i].d),
             gs = [fs EXCEPT ![i] = [fs[i] EXCEPT !.d = d]]
      PROVE  /\ Len(gs) = Len(fs)
             /\ \A j \in 1 .. Len(fs) :
                  gs[j].t = fs[j].t /\ Len(gs[j].d) = Len(fs[j].d) /\ gs[j].n = fs[j].n
  <2> DEFINE g == [fs[i] EXCEPT !.d = d]
  <2>1. g \in Frame(Byte) /\ g.d = d /\ g.t = fs[i].t /\ g.n = fs[i].n
    BY <1>0 DEF Frame
  <2> HIDE DEF g
  <2>2. gs = [fs EXCEPT ![i] = g]
    BY <1>2 DEF g
  <2>3. /\ Len(gs) = Len(fs)
        /\ \A j \in 1 .. Len(fs) : gs[j] = IF j = i THEN g ELSE fs[j]
    BY <2>1, <2>2, ExceptSeq
  <2>4. QED
    BY <1>2, <2>1, <2>3
<1> DEFINE Same == /\ Len(gs) = Len(fs)
                   /\ \A j \in 1 .. Len(fs) :
                        /\ gs[j].t = fs[j].t /\ Len(gs[j].d) = Len(fs[j].d)
                        /\ gs[j].n = fs[j].n
<1>3. ASSUME gs \in WrongDid(fs) PROVE Same
  <2>1. PICK x \in Did \cup {"??"} : gs = [fs EXCEPT ![1].d[2] = x]
    BY <1>3 DEF WrongDid
  <2>2. x \in Byte /\ fs[1].d \in Seq(Byte)
    BY <1>0, <1>1 DEF Byte
  <2>3. /\ [fs[1].d EXCEPT ![2] = x] \in Seq(Byte)
        /\ Len([fs[1].d EXCEPT ![2] = x]) = Len(fs[1].d)
    BY <2>2, ReplaceSymbol, ReplaceKeepsLen
  <2>4. gs = [fs EXCEPT ![1] = [fs[1] EXCEPT !.d = [fs[1].d EXCEPT ![2] = x]]]
    BY <2>1
  <2>5. QED
    BY <1>0, <1>2, <2>3, <2>4
<1>4. ASSUME gs \in WrongService(fs) PROVE Same
  <2>1. "00" \in Byte /\ fs[1].d \in Seq(Byte)
    BY <1>0, <1>1
  <2>2. /\ [fs[1].d EXCEPT ![1] = "00"] \in Seq(Byte)
        /\ Len([fs[1].d EXCEPT ![1] = "00"]) = Len(fs[1].d)
    BY <2>1, ReplaceSymbol, ReplaceKeepsLen
  <2>3. gs = [fs EXCEPT ![1] = [fs[1] EXCEPT !.d = [fs[1].d EXCEPT ![1] = "00"]]]
    BY <1>4 DEF WrongService
  <2>4. QED
    BY <1>0, <1>2, <2>2, <2>3
<1>5. ASSUME gs \in ShortPayload(fs) PROVE Same
  <2> DEFINE last == fs[Len(fs)]
  <2>1. PICK k \in 1 .. ShortMax : gs = [fs EXCEPT ![Len(fs)].d = Blanked(@, k)]
    BY <1>5 DEF ShortPayload
  <2>2. Blanked(last.d, k) \in [1 .. Len(last.d) -> Byte] /\ Len(last.d) \in Nat
    BY <1>0, <1>1, LenProperties DEF Blanked, PadByte
  <2>3. Blanked(last.d, k) \in Seq(Byte) /\ Len(Blanked(last.d, k)) = Len(last.d)
    BY <2>2, FunctionIsSeq
  <2>4. gs = [fs EXCEPT ![Len(fs)] = [last EXCEPT !.d = Blanked(last.d, k)]]
    BY <2>1
  <2>5. QED
    BY <1>0, <1>2, <2>3, <2>4
<1>6. ASSUME gs \in WrongPadding(fs)
      PROVE  /\ Len(gs) = Len(fs)
             /\ \A j \in 1 .. Len(fs) :
                  /\ gs[j].t = fs[j].t /\ Len(gs[j].d) = Len(fs[j].d)
                  /\ \/ gs[j].n = fs[j].n
                     \/ fs[j].t = "FF" /\ fs[j].n % 256 = 204 /\ gs[j].n = fs[j].n - 34
  <2>1. gs = [i \in 1 .. Len(fs) |-> Repadded(fs[i])]
    BY <1>6, LenProperties DEF WrongPadding
  <2>2. ASSUME NEW f \in Frame(Byte)
        PROVE  /\ Repadded(f).t = f.t /\ Len(Repadded(f).d) = Len(f.d)
               /\ \/ Repadded(f).n = f.n
                  \/ f.t = "FF" /\ f.n % 256 = 204 /\ Repadded(f).n = f.n - 34
    <3> DEFINE dd == [i \in DOMAIN f.d |-> IF f.d[i] = PadByte THEN "AA" ELSE f.d[i]]
               nn == IF f.t = "FF" /\ f.n % 256 = 204 THEN f.n - 34 ELSE f.n
    <3>1. f.d \in Seq(Byte) /\ Len(f.d) \in Nat
      BY LenProperties DEF Frame
    <3>2. dd \in [1 .. Len(f.d) -> Byte]
      BY <1>1, <3>1, LenProperties
    <3>3. Repadded(f).d = dd /\ Repadded(f).t = f.t /\ Repadded(f).n = nn
      BY DEF Repadded, Frame
    <3> HIDE DEF dd
    <3>4. Len(dd) = Len(f.d)
      BY <3>1, <3>2, FunctionIsSeq
    <3>5. QED
      BY <3>3, <3>4
  <2>3. Len(gs) = Len(fs)
    <3>1. gs \in [1 .. Len(fs) -> {Repadded(fs[i]) : i \in 1 .. Len(fs)}]
      BY <2>1
    <3>2. QED
      BY <1>0, <3>1, FunctionIsSeq
  <2>4. \A j \in 1 .. Len(fs) : gs[j] = Repadded(fs[j])
    BY <2>1
  <2>5. QED
    BY <1>0, <2>2, <2>3, <2>4
<1>7. CASE gs \in WrongDid(fs) \cup WrongService(fs) \cup ShortPayload(fs)
  BY <1>3, <1>4, <1>5, <1>7
<1>8. CASE gs \notin WrongDid(fs) \cup WrongService(fs) \cup ShortPayload(fs)
  BY <1>6, <1>8 DEF SFFaults
<1>9. QED
  BY <1>7, <1>8

\* What they make of a response is still taken for one, and for one of the
\* announced length unless that was taken for padding.
LEMMA RewrittenWellFormed ==
  ASSUME NEW p \in Responses, NEW ft \in Rewriting \cup {"NONE"},
         ft \in Pool(Segment(p)), NEW gs \in Apply(ft, Segment(p))
  PROVE  /\ WellFormed(gs)
         /\ (ft = "WRONG_PADDING" => Len(p) % 256 # 204) => gs[1].n = Len(p)
<1> DEFINE S == Segment(p)
<1>0. WellFormed(S) /\ S[1].n = Len(p) /\ S \in Seq(Frame(Byte)) /\ S # <<>>
  BY ResponseSegments DEF WellFormed
<1>1. CASE ft = "NONE"
  <2>1. gs = S
    BY <1>1, ApplyIs
  <2>2. QED
    BY <1>0, <2>1
<1>2. CASE ft # "NONE"
  <2> HIDE DEF S
  <2>1. /\ gs \in SFFaults(S) /\ gs \in Injected(S)
        /\ ft # "WRONG_PADDING" =>
             gs \in WrongDid(S) \cup WrongService(S) \cup ShortPayload(S)
    BY <1>2, ApplyIs, ApplyIsInjected DEF Rewriting, SFFaults, S
  <2>2. gs \in Seq(Frame(Byte)) /\ gs # <<>>
    BY <1>0, <2>1, InjectedType
  <2>3. /\ Len(gs) = Len(S)
        /\ \A j \in 1 .. Len(S) :
             /\ gs[j].t = S[j].t /\ Len(gs[j].d) = Len(S[j].d)
             /\ \/ gs[j].n = S[j].n
                \/ S[j].t = "FF" /\ S[j].n % 256 = 204 /\ gs[j].n = S[j].n - 34
        /\ ft # "WRONG_PADDING" => \A j \in 1 .. Len(S) : gs[j].n = S[j].n
    BY <1>0, <2>1, RewrittenIs
  <2>4. /\ Len(S) \in Nat \ {0} /\ 1 \in 1 .. Len(S)
        /\ Len(S) = 1 \/ Len(S) > 1
        /\ \A j \in 1 .. Len(S) : S[j].n \in Nat
    BY <1>0, ListParts
  <2>5. (ft = "WRONG_PADDING" => Len(p) % 256 # 204) => gs[1].n = Len(p)
    BY <1>0, <2>3, <2>4
  <2>6. CASE Len(S) = 1
    <3>1. /\ S[1].t = "SF" /\ S[1].n \in 1 .. SFCap /\ Len(S[1].d) = SFCap
      BY <1>0, <2>6 DEF WellFormed
    <3>2. gs[1].t = "SF" /\ gs[1].n = S[1].n /\ Len(gs[1].d) = SFCap /\ Len(gs) = 1
      BY <2>3, <2>4, <2>6, <3>1
    <3>3. QED
      BY <2>2, <2>5, <3>1, <3>2 DEF WellFormed
  <2>7. CASE Len(S) > 1
    <3>1. /\ Full(S) /\ S[1].t = "FF" /\ S[1].n > SFCap /\ S[1].n <= Offset(Len(S))
          /\ \A i \in 2 .. Len(S) : S[i].t = "CF" /\ S[i].n = (i - 1) % SeqWrap
      BY <1>0, <2>7 DEF WellFormed
    <3>2. ASSUME NEW i \in 2 .. Len(S)
          PROVE  /\ gs[i].t = "CF" /\ gs[i].n = (i - 1) % SeqWrap
                 /\ Len(gs[i].d) = CFCap
      <4>1. i \in 1 .. Len(S) /\ S[i].t # "FF"
        BY <2>4, <3>1
      <4>2. Len(S[i].d) = CFCap
        BY <2>7, <3>1 DEF Full
      <4>3. gs[i].t = S[i].t /\ gs[i].n = S[i].n /\ Len(gs[i].d) = Len(S[i].d)
        BY <2>3, <4>1
      <4>4. QED
        BY <3>1, <4>2, <4>3
    <3>3. Full(gs)
      <4>1. Len(S[1].d) = FFCap
        BY <2>7, <3>1 DEF Full
      <4>2. Len(gs[1].d) = FFCap
        BY <2>3, <2>4, <4>1
      <4>3. QED
        BY <2>3, <3>2, <4>2 DEF Full
    <3>4. \A i \in 2 .. Len(S) : gs[i].t = "CF" /\ gs[i].n = (i - 1) % SeqWrap
      BY <3>2
    <3>5. gs[1].t = "FF" /\ gs[1].n > SFCap /\ gs[1].n <= Offset(Len(S))
      <4>1. Offset(Len(S)) \in Nat /\ SFCap \in Nat /\ S[1].n \in Nat
        BY <2>4, OffsetIs, IsoTpAssumption
      <4>2. gs[1].n = S[1].n \/ (S[1].n % 256 = 204 /\ gs[1].n = S[1].n - 34)
        BY <2>3, <2>4
      <4>3. S[1].n % 256 = 204 => S[1].n >= 204
        BY <4>1
      <4>4. QED
        BY <2>3, <2>4, <3>1, <4>1, <4>2, <4>3, LinkAssumption
    <3>6. Len(gs) = Len(S) /\ Len(gs) # 1
      BY <2>3, <2>7
    <3>7. QED
      BY <2>2, <2>5, <3>3, <3>4, <3>5, <3>6 DEF WellFormed
  <2>8. QED
    BY <2>4, <2>6, <2>7
<1>3. QED
  BY <1>1, <1>2

\* gs begins with the first c frames of the response p, and no frame after
\* them is the one that the receiver then waits for.
Clean(p, gs, c) ==
  /\ c \in 1 .. Len(Segment(p)) /\ c <= Len(gs)
  /\ \A i \in 1 .. c : gs[i] = Segment(p)[i]
  /\ \A i \in c + 1 .. Len(gs) : gs[i].t = "CF"
  /\ c < Len(gs) /\ c < Len(Segment(p)) => gs[c + 1].n # c % SeqWrap

Cutting == {"DROP_LAST_CF", "TRUNCATED_MF"}

LEMMA StructuralIsClean ==
  ASSUME NEW p \in Responses, NEW ft \in Structural, ft \in Pool(Segment(p)),
         NEW gs \in Apply(ft, Segment(p))
  PROVE  /\ gs \in Seq(Frame(Byte)) /\ gs # <<>>
         /\ \E c \in Nat :
              /\ Clean(p, gs, c)
              /\ ft \in Cutting => c = Len(gs) /\ c < Len(Segment(p))
<1> DEFINE S == Segment(p)
<1>1. WellFormed(S) /\ S \in Seq(Frame(Byte)) /\ S # <<>> /\ Len(S) > 1 /\ gs \in Injected(S)
  BY ResponseSegments, ApplyIsInjected DEF WellFormed
<1>2. gs \in Seq(Frame(Byte)) /\ gs # <<>>
  BY <1>1, InjectedType
<1>3. /\ Len(S) \in Nat /\ 1 \in 1 .. Len(S)
      /\ \A i \in 1 .. Len(S) : S[i] \in Frame(Byte) /\ S[i].n \in Nat
  BY <1>1, ListParts
<1>4. \A i \in 2 .. Len(S) : S[i].t = "CF" /\ S[i].n = (i - 1) % SeqWrap
  BY <1>1 DEF WellFormed
<1> SUFFICES \E c \in Nat :
               /\ c \in 1 .. Len(S) /\ c <= Len(gs)
               /\ \A i \in 1 .. c : gs[i] = S[i]
               /\ \A i \in c + 1 .. Len(gs) : gs[i].t = "CF"
               /\ c < Len(gs) /\ c < Len(S) => gs[c + 1].n # c % SeqWrap
               /\ ft \in Cutting => c = Len(gs) /\ c < Len(S)
  BY <1>2 DEF Clean
<1> HIDE DEF S
<1>5. CASE ft = "DROP_RANDOM_CF"
  <2>1. PICK i \in 2 .. Len(S) : gs = RemoveAt(S, i)
    BY <1>5, ApplyIs DEF DropRandomCF, CFs, S
  <2>2. /\ Len(gs) = Len(S) - 1
        /\ \A j \in 1 .. Len(S) - 1 : gs[j] = IF j <= i - 1 THEN S[j] ELSE S[j + 1]
    BY <1>1, <2>1, RemovedIs
  <2>3. /\ i - 1 \in Nat /\ i - 1 \in 1 .. Len(S) /\ i - 1 <= Len(gs)
        /\ i - 1 < Len(S) /\ (i - 1) + 1 = i
    BY <1>3, <2>2
  <2>4. \A j \in 1 .. i - 1 : gs[j] = S[j]
    BY <1>3, <2>2
  <2>5. ASSUME NEW j \in (i - 1) + 1 .. Len(gs)
        PROVE  gs[j] = S[j + 1] /\ j + 1 \in 2 .. Len(S)
    <3>1. j \in 1 .. Len(S) - 1 /\ ~(j <= i - 1) /\ j + 1 \in 2 .. Len(S)
      BY <1>3, <2>2
    <3>2. QED
      BY <2>2, <3>1
  <2>6. \A j \in (i - 1) + 1 .. Len(gs) : gs[j].t = "CF"
    BY <1>4, <2>5
  <2>7. ASSUME i - 1 < Len(gs)
        PROVE  gs[(i - 1) + 1].n # (i - 1) % SeqWrap
    <3>1. i \in (i - 1) + 1 .. Len(gs)
      BY <1>3, <2>2, <2>7
    <3>2. gs[i] = S[i + 1] /\ i + 1 \in 2 .. Len(S)
      BY <2>5, <3>1
    <3>3. S[i + 1].n = ((i + 1) - 1) % SeqWrap /\ (i + 1) - 1 = (i - 1) + 1
      BY <1>4, <2>3, <3>2
    <3>4. ((i - 1) + 1) % SeqWrap # (i - 1) % SeqWrap
      BY <2>3, SeqNext
    <3>5. QED
      BY <2>3, <3>2, <3>3, <3>4
  <2>8. ft \notin Cutting
    BY <1>5 DEF Cutting
  <2>9. QED
    BY <2>3, <2>4, <2>6, <2>7, <2>8
<1>6. CASE ft = "DROP_LAST_CF"
  <2>1. gs = SubSeq(S, 1, Len(S) - 1)
    BY <1>6, ApplyIs DEF DropLastCF, Front, S
  <2>2. Len(S) - 1 \in Nat /\ Len(S) - 1 \in 1 .. Len(S) /\ Len(S) - 1 < Len(S)
    BY <1>1, <1>3
  <2>3. Len(gs) = Len(S) - 1 /\ \A k \in 1 .. Len(S) - 1 : gs[k] = S[k]
    <3>1. /\ Len(SubSeq(S, 1, Len(S) - 1)) = (Len(S) - 1) - 1 + 1
          /\ \A k \in 1 .. (Len(S) - 1) - 1 + 1 : SubSeq(S, 1, Len(S) - 1)[k] = S[1 - 1 + k]
      BY <1>1, <1>3, <2>2, Slice
    <3>2. QED
      BY <2>1, <2>2, <3>1
  <2>4. \A j \in (Len(S) - 1) + 1 .. Len(gs) : gs[j].t = "CF"
    BY <1>3, <2>3
  <2>5. QED
    BY <2>2, <2>3, <2>4
<1>7. CASE ft = "WRONG_SEQ"
  <2>1. PICK i \in 2 .. Len(S) : gs = [S EXCEPT ![i].n = (@ + 1) % SeqWrap]
    <3>1. gs \in WrongSeq(S)
      BY <1>7, ApplyIs DEF S
    <3>2. QED
      BY <3>1 DEF WrongSeq, CFs
  <2>2. /\ i \in 1 .. Len(S) /\ i - 1 \in Nat /\ i - 1 \in 1 .. Len(S)
        /\ i - 1 < Len(S) /\ (i - 1) + 1 = i
    BY <1>3
  <2>3. (S[i].n + 1) % SeqWrap \in Nat
    BY <1>3, <2>2, IsoTpAssumption
  <2> DEFINE g == [S[i] EXCEPT !.n = (S[i].n + 1) % SeqWrap]
  <2>4. /\ g \in Frame(Byte) /\ g.t = S[i].t /\ g.n = (S[i].n + 1) % SeqWrap
    BY <1>3, <2>2, <2>3 DEF Frame
  <2>5. gs = [S EXCEPT ![i] = g]
    BY <2>1
  <2> HIDE DEF g
  <2>6. /\ Len(gs) = Len(S)
        /\ \A j \in 1 .. Len(S) : gs[j] = IF j = i THEN g ELSE S[j]
    BY <1>1, <2>2, <2>4, <2>5, ExceptSeq
  <2>7. \A j \in 1 .. i - 1 : gs[j] = S[j]
    BY <1>3, <2>2, <2>6
  <2>8. \A j \in (i - 1) + 1 .. Len(gs) : gs[j].t = "CF"
    BY <1>3, <1>4, <2>2, <2>4, <2>6
  <2>9. gs[(i - 1) + 1].n # (i - 1) % SeqWrap
    <3>1. S[i].n = (i - 1) % SeqWrap /\ gs[(i - 1) + 1] = g
      BY <1>4, <2>2, <2>6
    <3>2. QED
      BY <2>2, <2>4, <3>1, SeqNext
  <2>10. i - 1 <= Len(gs) /\ ft \notin Cutting
    BY <1>7, <2>2, <2>6 DEF Cutting
  <2>11. QED
    BY <2>2, <2>7, <2>8, <2>9, <2>10
<1>8. CASE ft = "DUPLICATE_CF"
  <2>1. PICK i \in 2 .. Len(S) : gs = InsertAt(S, i, S[i])
    BY <1>8, ApplyIs DEF DuplicateCF, CFs, S
  <2>2. /\ Len(gs) = Len(S) + 1
        /\ \A j \in 1 .. Len(S) + 1 : gs[j] = IF j <= i THEN S[j] ELSE S[j - 1]
    BY <1>1, <2>1, InsertedIs
  <2>3. i \in Nat /\ i \in 1 .. Len(S) /\ i <= Len(gs) /\ i - 1 \in Nat
    BY <1>3, <2>2
  <2>4. \A j \in 1 .. i : gs[j] = S[j]
    BY <1>3, <2>2
  <2>5. ASSUME NEW j \in i + 1 .. Len(gs)
        PROVE  gs[j] = S[j - 1] /\ j - 1 \in 2 .. Len(S)
    <3>1. j \in 1 .. Len(S) + 1 /\ ~(j <= i) /\ j - 1 \in 2 .. Len(S)
      BY <1>3, <2>2
    <3>2. QED
      BY <2>2, <3>1
  <2>6. \A j \in i + 1 .. Len(gs) : gs[j].t = "CF"
    BY <1>4, <2>5
  <2>7. gs[i + 1].n # i % SeqWrap
    <3>1. i + 1 \in i + 1 .. Len(gs) /\ (i + 1) - 1 = i /\ (i - 1) + 1 = i
      BY <1>3, <2>2
    <3>2. gs[i + 1] = S[i] /\ S[i].n = (i - 1) % SeqWrap
      BY <1>4, <2>5, <3>1
    <3>3. ((i - 1) + 1) % SeqWrap # (i - 1) % SeqWrap
      BY <2>3, SeqNext
    <3>4. QED
      BY <3>1, <3>2, <3>3
  <2>8. ft \notin Cutting
    BY <1>8 DEF Cutting
  <2>9. QED
    BY <2>3, <2>4, <2>6, <2>7, <2>8
<1>9. CASE ft = "TRUNCATED_MF"
  <2>1. gs = <<S[1]>>
    BY <1>9, ApplyIs DEF TruncatedMF, S
  <2>2. Len(gs) = 1 /\ gs[1] = S[1] /\ 1 \in Nat /\ 1 < Len(S)
    BY <1>1, <2>1
  <2>3. /\ \A i \in 1 .. 1 : gs[i] = S[i]
        /\ \A i \in 1 + 1 .. Len(gs) : gs[i].t = "CF"
    BY <2>2
  <2>4. QED
    BY <1>3, <2>2, <2>3
<1>10. QED
  BY <1>5, <1>6, <1>7, <1>8, <1>9 DEF Structural

-----------------------------------------------------------------------------
(* The inductive invariant *)

\* What the receiver of a list that begins with c clean frames holds after k.
HoldsUpTo(p, c, k, a, r) ==
  IF k <= c THEN Holds(Segment(p), k, a, r)
  ELSE a = Reset /\ r = IF c = Len(Segment(p)) THEN <<p>> ELSE <<>>

\* The state after k of the frames gs that the fault has made of the response.
Arrived(gs, k) ==
  /\ wire = SubSeq(gs, k + 1, Len(gs))
  /\ doip = Unframed(gs)
  /\ fault \in Rewriting \cup {"NONE"} => Holds(gs, k, rx, received)
  /\ fault \in Structural =>
       \E c \in Nat :
         /\ Clean(sent, gs, c) /\ HoldsUpTo(sent, c, k, rx, received)
         /\ fault \in Cutting => c = Len(gs) /\ c < Len(Segment(sent))

LinkInv ==
  /\ sent \in Responses
  /\ fault \in Pool(Segment(sent))
  /\ \E gs \in Apply(fault, Segment(sent)) : \E k \in 0 .. Len(gs) : Arrived(gs, k)

\* What a fault makes of a response is a list of frames, and not an empty one.
LEMMA AppliedType ==
  ASSUME NEW p \in Responses, NEW ft \in Pool(Segment(p)), NEW gs \in Apply(ft, Segment(p))
  PROVE  gs \in Seq(Frame(Byte)) /\ gs # <<>> /\ Len(gs) \in Nat
<1>1. Segment(p) \in Seq(Frame(Byte)) /\ Segment(p) # <<>>
  BY ResponseSegments DEF WellFormed
<1>2. gs \in Injected(Segment(p))
  BY ApplyIsInjected
<1>3. gs \in Seq(Frame(Byte)) /\ gs # <<>>
  BY <1>1, <1>2, InjectedType
<1>4. QED
  BY <1>3, LenProperties

LEMMA LinkInit == LInit => LinkInv
<1> SUFFICES ASSUME LInit PROVE LinkInv
  OBVIOUS
<1>1. /\ sent \in Responses /\ fault \in Pool(Segment(sent))
      /\ wire \in Apply(fault, Segment(sent))
      /\ rx = Reset /\ received = <<>> /\ doip = Unframed(wire)
  BY DEF LInit
<1>2. wire \in Seq(Frame(Byte)) /\ Len(wire) \in Nat /\ 0 \in 0 .. Len(wire)
  BY <1>1, AppliedType
<1>3. wire = SubSeq(wire, 0 + 1, Len(wire))
  <2>1. /\ SubSeq(wire, 1, Len(wire)) \in Seq(Frame(Byte))
        /\ Len(SubSeq(wire, 1, Len(wire))) = Len(wire) - 1 + 1
        /\ \A k \in 1 .. Len(wire) - 1 + 1 : SubSeq(wire, 1, Len(wire))[k] = wire[1 - 1 + k]
    BY <1>2, Slice
  <2>2. /\ Len(SubSeq(wire, 1, Len(wire))) = Len(wire)
        /\ \A k \in 1 .. Len(wire) : SubSeq(wire, 1, Len(wire))[k] = wire[k]
    BY <1>2, <2>1
  <2>3. SubSeq(wire, 1, Len(wire)) = wire
    BY <1>2, <2>1, <2>2, SeqEqual
  <2>4. QED
    BY <2>3
<1>4. \A gs : Holds(gs, 0, rx, received)
  BY <1>1 DEF Holds
<1>5. ASSUME fault \in Structural
      PROVE  \E c \in Nat :
               /\ Clean(sent, wire, c) /\ HoldsUpTo(sent, c, 0, rx, received)
               /\ fault \in Cutting => c = Len(wire) /\ c < Len(Segment(sent))
  <2>1. PICK c \in Nat : /\ Clean(sent, wire, c)
                         /\ fault \in Cutting => c = Len(wire) /\ c < Len(Segment(sent))
    BY <1>1, <1>5, StructuralIsClean
  <2>2. HoldsUpTo(sent, c, 0, rx, received)
    BY <1>4 DEF HoldsUpTo
  <2>3. QED
    BY <2>1, <2>2
<1>6. Arrived(wire, 0)
  BY <1>1, <1>3, <1>4, <1>5 DEF Arrived
<1>7. QED
  BY <1>1, <1>2, <1>6 DEF LinkInv

\* One more frame of a list that begins with c clean frames.
LEMMA HoldsUpToStep ==
  ASSUME NEW p \in Responses, NEW gs \in Seq(Frame(Byte)), NEW c \in Nat, Clean(p, gs, c),
         NEW k \in 0 .. Len(gs) - 1, NEW a, NEW r, HoldsUpTo(p, c, k, a, r)
  PROVE  HoldsUpTo(p, c, k + 1, Fed(a, gs[k + 1]), Delivered(a, gs[k + 1], r))
<1> DEFINE S == Segment(p)
           f == gs[k + 1]
<1>1. WellFormed(S) /\ Unframed(S) = p /\ S[1].n = Len(p) /\ S \in Seq(Frame(Byte)) /\ S # <<>>
  BY ResponseSegments DEF WellFormed
<1>2. /\ c \in 1 .. Len(S) /\ c <= Len(gs) /\ Len(gs) \in Nat /\ Len(S) \in Nat /\ k \in Nat
      /\ \A i \in 1 .. c : gs[i] = S[i]
      /\ \A i \in c + 1 .. Len(gs) : gs[i].t = "CF"
      /\ c < Len(gs) /\ c < Len(S) => gs[c + 1].n # c % SeqWrap
  BY <1>1, LenProperties DEF Clean
<1>3. CASE k < c
  <2>1. Holds(S, k, a, r) /\ k \in 0 .. Len(S) - 1 /\ k + 1 <= c /\ f = S[k + 1]
    BY <1>2, <1>3 DEF HoldsUpTo
  <2>2. Holds(S, k + 1, Fed(a, f), Delivered(a, f, r))
    BY <1>1, <2>1, HoldsStep
  <2>3. QED
    BY <2>1, <2>2 DEF HoldsUpTo
<1>4. CASE k = c
  <2>1. Holds(S, k, a, r) /\ k \in 1 .. Len(S) /\ k # 0 /\ ~(k + 1 <= c)
    BY <1>2, <1>4 DEF HoldsUpTo
  <2>2. f.t = "CF" /\ (c < Len(S) => f.n # k % SeqWrap)
    <3>1. k + 1 \in c + 1 .. Len(gs) /\ c < Len(gs)
      BY <1>2, <1>4
    <3>2. QED
      BY <1>2, <1>4, <3>1
  <2>3. CASE c = Len(S)
    <3>1. ~(S[1].t = "FF" /\ Offset(k) < S[1].n)
      <4>1. CASE Len(S) = 1
        BY <1>1, <4>1 DEF WellFormed
      <4>2. CASE Len(S) > 1
        <5>1. S[1].n <= Offset(Len(S)) /\ k = Len(S)
          BY <1>1, <1>4, <2>3, <4>2 DEF WellFormed
        <5>2. Len(S) \in Nat \ {0} /\ Offset(Len(S)) \in Nat /\ S[1].n \in Nat
          BY <1>1, ListParts, OffsetIs
        <5>3. QED
          BY <5>1, <5>2
      <4>3. QED
        BY <1>1, <4>1, <4>2, ListParts
    <3>2. a = Reset /\ r = <<p>>
      BY <1>1, <2>1, <3>1 DEF Holds
    <3>3. Fed(a, f) = Reset /\ Delivered(a, f, r) = r
      BY <2>2, <3>2, CFIgnored
    <3>4. QED
      BY <2>1, <2>3, <3>2, <3>3 DEF HoldsUpTo
  <2>4. CASE c # Len(S)
    <3>1. c < Len(S) /\ Len(S) > 1 /\ k \in Nat \ {0} /\ Len(S) - 1 \in Nat \ {0} /\ k <= Len(S) - 1
      <4>1. c \in 1 .. Len(S) /\ Len(S) \in Nat /\ c # Len(S) /\ k = c
        BY <1>2, <1>4, <2>4
      <4>2. \A n \in Nat : \A i \in 1 .. n :
              i # n => /\ i < n /\ n > 1 /\ i \in Nat \ {0}
                       /\ n - 1 \in Nat \ {0} /\ i <= n - 1
        OBVIOUS
      <4>3. QED
        BY <4>1, <4>2, Zenon
    <3>2. Offset(k) < S[1].n /\ S[1].t = "FF"
      <4>1. Offset(Len(S) - 1) < Len(p)
        BY <3>1, ResponseSegments
      <4>2. Offset(k) <= Offset(Len(S) - 1) /\ Offset(k) \in Nat /\ Offset(Len(S) - 1) \in Nat
        BY <3>1, OffsetIs
      <4>3. Len(p) \in Nat
        BY LinkAssumption, LenProperties DEF Payload
      <4>4. QED
        BY <1>1, <3>1, <4>1, <4>2, <4>3 DEF WellFormed
    <3>3. /\ a = [on |-> TRUE, want |-> S[1].n,
                  buf |-> Take(Joined(S), Offset(k)), seq |-> k % SeqWrap]
          /\ r = <<>>
      BY <2>1, <3>2 DEF Holds
    <3>4. f.n # a.seq /\ a.on = TRUE
      BY <2>2, <3>1, <3>3
    <3>5. Fed(a, f) = Reset /\ Delivered(a, f, r) = r
      BY <2>2, <3>4, CFMismatch
    <3>6. QED
      BY <2>1, <2>4, <3>3, <3>5 DEF HoldsUpTo
  <2>5. QED
    BY <2>3, <2>4
<1>5. CASE k > c
  <2>1. ~(k <= c) /\ ~(k + 1 <= c)
    BY <1>2, <1>5
  <2>2. a = Reset /\ r = IF c = Len(S) THEN <<p>> ELSE <<>>
    BY <2>1 DEF HoldsUpTo
  <2>3. f.t = "CF"
    <3>1. k + 1 \in c + 1 .. Len(gs)
      BY <1>2, <1>5
    <3>2. QED
      BY <1>2, <3>1
  <2>4. Fed(a, f) = Reset /\ Delivered(a, f, r) = r
    BY <2>2, <2>3, CFIgnored
  <2>5. QED
    BY <2>1, <2>2, <2>4 DEF HoldsUpTo
<1>6. QED
  BY <1>2, <1>3, <1>4, <1>5

LEMMA LinkStep == LinkInv /\ [Arrive]_lvars => LinkInv'
<1> SUFFICES ASSUME LinkInv, [Arrive]_lvars PROVE LinkInv'
  OBVIOUS
<1>1. CASE UNCHANGED lvars
  BY <1>1 DEF lvars, LinkInv, Arrived
<1>2. CASE Arrive
  <2>0. sent \in Responses /\ fault \in Pool(Segment(sent))
    BY DEF LinkInv
  <2>gs. PICK gs \in Apply(fault, Segment(sent)) : \E k \in 0 .. Len(gs) : Arrived(gs, k)
    BY DEF LinkInv
  <2>1. PICK k \in 0 .. Len(gs) : Arrived(gs, k)
    BY <2>gs
  <2>2. gs \in Seq(Frame(Byte)) /\ gs # <<>> /\ Len(gs) \in Nat
    BY <2>0, <2>1, AppliedType
  <2>3. wire = SubSeq(gs, k + 1, Len(gs)) /\ doip = Unframed(gs)
    BY <2>1 DEF Arrived
  <2>4. /\ wire # <<>> /\ wire' = Tail(wire) /\ rx' = Fed(rx, Head(wire))
        /\ received' = Delivered(rx, Head(wire), received)
        /\ UNCHANGED <<sent, fault, doip>>
    BY <1>2 DEF Arrive, Delivered
  <2>5. k < Len(gs)
    BY <2>2, <2>3, <2>4, Suffix
  <2>6. Head(wire) = gs[k + 1] /\ wire' = SubSeq(gs, k + 2, Len(gs))
    BY <2>2, <2>3, <2>4, <2>5, Suffix
  <2>7. k + 1 \in 0 .. Len(gs) /\ k \in 0 .. Len(gs) - 1 /\ (k + 1) + 1 = k + 2
    BY <2>2, <2>5
  <2>8. ASSUME fault \in Rewriting \cup {"NONE"}
        PROVE  Holds(gs, k + 1, rx', received')
    <3>1. WellFormed(gs)
      BY <2>0, <2>1, <2>8, RewrittenWellFormed
    <3>2. Holds(gs, k, rx, received)
      BY <2>1, <2>8 DEF Arrived
    <3>3. QED
      BY <2>4, <2>6, <2>7, <3>1, <3>2, HoldsStep
  <2>9. ASSUME fault \in Structural
        PROVE  \E c \in Nat :
                 /\ Clean(sent, gs, c) /\ HoldsUpTo(sent, c, k + 1, rx', received')
                 /\ fault \in Cutting => c = Len(gs) /\ c < Len(Segment(sent))
    <3>1. PICK c \in Nat :
            /\ Clean(sent, gs, c) /\ HoldsUpTo(sent, c, k, rx, received)
            /\ fault \in Cutting => c = Len(gs) /\ c < Len(Segment(sent))
      BY <2>1, <2>9 DEF Arrived
    <3>2. HoldsUpTo(sent, c, k + 1, rx', received')
      BY <2>0, <2>2, <2>4, <2>6, <2>7, <3>1, HoldsUpToStep
    <3>3. QED
      BY <3>1, <3>2
  <2>10. Arrived(gs, k + 1)'
    <3>1. wire' = SubSeq(gs, (k + 1) + 1, Len(gs)) /\ doip' = Unframed(gs)
      BY <2>3, <2>4, <2>6, <2>7
    <3>2. QED
      BY <2>4, <2>8, <2>9, <3>1 DEF Arrived
  <2>11. QED
    BY <2>0, <2>1, <2>4, <2>7, <2>10 DEF LinkInv
<1>3. QED
  BY <1>1, <1>2

LEMMA LinkHolds == LSpec => []LinkInv
BY LinkInit, LinkStep, PTL DEF LSpec

-----------------------------------------------------------------------------
(* The properties *)

\* The end of the wire is the end of the list.
LEMMA AtTheEnd ==
  ASSUME LinkInv
  PROVE  \E gs \in Apply(fault, Segment(sent)) : \E k \in 0 .. Len(gs) :
           /\ Arrived(gs, k)
           /\ gs \in Seq(Frame(Byte)) /\ gs # <<>>
           /\ wire = <<>> <=> k = Len(gs)
<1>1. PICK gs \in Apply(fault, Segment(sent)) : \E k \in 0 .. Len(gs) : Arrived(gs, k)
  BY DEF LinkInv
<1>2. PICK k \in 0 .. Len(gs) : Arrived(gs, k)
  BY <1>1
<1>3. gs \in Seq(Frame(Byte)) /\ gs # <<>>
  BY AppliedType DEF LinkInv
<1>4. wire = SubSeq(gs, k + 1, Len(gs))
  BY <1>2 DEF Arrived
<1>5. wire = <<>> <=> k = Len(gs)
  BY <1>3, <1>4, Suffix
<1>6. QED
  BY <1>2, <1>3, <1>5

\* A clean response reaches its receiver whole and once, whatever its length
\* and wherever the sequence number wraps, and what the receiver holds on the
\* way is a prefix of it (isotp.py:84-127, 186-250).
THEOREM CleanResponsesArrive == LSpec => []RoundTrip
<1>1. LinkInv => RoundTrip
  <2> SUFFICES ASSUME LinkInv, fault = "NONE"
               PROVE  /\ rx.buf = Take(sent, Len(rx.buf))
                      /\ received = IF wire = <<>> THEN <<sent>> ELSE <<>>
    BY DEF RoundTrip
  <2>1. PICK gs \in Apply(fault, Segment(sent)) : \E k \in 0 .. Len(gs) :
               /\ Arrived(gs, k)
               /\ gs \in Seq(Frame(Byte)) /\ gs # <<>>
               /\ wire = <<>> <=> k = Len(gs)
    BY AtTheEnd
  <2>2. PICK k \in 0 .. Len(gs) :
               /\ Arrived(gs, k)
               /\ gs \in Seq(Frame(Byte)) /\ gs # <<>>
               /\ wire = <<>> <=> k = Len(gs)
    BY <2>1
  <2>3. gs = Segment(sent) /\ sent \in Responses
    BY ApplyIs DEF LinkInv
  <2>4. Holds(gs, k, rx, received)
    BY <2>2 DEF Arrived
  <2>5. sent \in Seq(Byte) /\ Take(sent, 0) = <<>>
    <3>1. sent \in Seq(Byte) /\ Len(sent) \in Nat
      BY <2>3, LinkAssumption, LenProperties DEF Payload
    <3>2. Take(sent, 0) \in Seq(Byte) /\ Len(Take(sent, 0)) = 0
      BY <3>1, TakeIs
    <3>3. QED
      BY <3>1, <3>2, EmptySeq
  <2>6. Reset.buf = Take(sent, Len(Reset.buf))
    BY <2>5 DEF Reset
  <2>7. Len(gs) \in Nat \ {0}
    BY <2>2, ListParts
  <2>8. CASE k = 0
    <3>1. rx = Reset /\ received = <<>> /\ wire # <<>>
      BY <2>2, <2>4, <2>7, <2>8 DEF Holds
    <3>2. QED
      BY <2>6, <3>1
  <2>9. CASE k = Len(gs)
    <3>1. rx = Reset /\ received = <<sent>>
      BY <2>3, <2>4, <2>9, ResponseSegments, HoldsAtEnd
    <3>2. QED
      BY <2>2, <2>6, <2>9, <3>1
  <2>10. CASE k # 0 /\ k # Len(gs)
    <3>1. k \in 1 .. Len(gs) - 1 /\ wire # <<>>
      BY <2>2, <2>7, <2>10
    <3>2. QED
      BY <2>3, <2>4, <3>1, HoldsBefore, ResponseSegments
  <2>11. QED
    BY <2>8, <2>9, <2>10
<1>2. QED
  BY <1>1, LinkHolds, PTL

LEMMA RewrittenArrives == LinkInv => RewritingFaultsDeliver /\ SameOverDoIP
<1> SUFFICES ASSUME LinkInv, fault \in Rewriting \cup {"NONE"}, wire = <<>>
             PROVE  /\ received = <<doip>>
                    /\ LengthSpared => Len(received) = 1 /\ Len(received[1]) = Len(sent)
  BY DEF RewritingFaultsDeliver, SameOverDoIP
<1>1. PICK gs \in Apply(fault, Segment(sent)) : \E k \in 0 .. Len(gs) :
             Arrived(gs, k) /\ k = Len(gs)
  BY AtTheEnd
<1>2. Arrived(gs, Len(gs))
  BY <1>1
<1>3. Holds(gs, Len(gs), rx, received) /\ doip = Unframed(gs)
  BY <1>2 DEF Arrived
<1>4. /\ WellFormed(gs)
      /\ (fault = "WRONG_PADDING" => Len(sent) % 256 # 204) => gs[1].n = Len(sent)
  BY RewrittenWellFormed DEF LinkInv
<1>5. received = <<doip>>
  BY <1>3, <1>4, HoldsAtEnd
<1>6. Len(doip) = gs[1].n
  BY <1>3, <1>4, UnframedIs
<1>7. QED
  BY <1>4, <1>5, <1>6 DEF LengthSpared

\* A response that a fault has rewritten is delivered once, and as long as it
\* was (faults.py:327-393).
THEOREM RewritesDeliver == LSpec => []RewritingFaultsDeliver
BY RewrittenArrives, LinkHolds, PTL

\* What is delivered of it, or of a clean response, is the same on CAN and over
\* DoIP (doip.py:57-58).
THEOREM SameDelivery == LSpec => []SameOverDoIP
BY RewrittenArrives, LinkHolds, PTL

\* A fault that drops, repeats or renumbers frames never makes a receiver
\* deliver anything but the response, and without its end nothing at all.
THEOREM StructuralFaultsSeen == LSpec => []StructuralFaultsAreSeen
<1>1. LinkInv => StructuralFaultsAreSeen
  <2> SUFFICES ASSUME LinkInv, fault \in Structural
               PROVE  /\ received \in {<<>>, <<sent>>}
                      /\ fault \in Cutting /\ wire = <<>> => rx.on /\ received = <<>>
    BY DEF StructuralFaultsAreSeen, Structural, Cutting
  <2> DEFINE S == Segment(sent)
  <2>1. PICK gs \in Apply(fault, S) : \E k \in 0 .. Len(gs) :
               /\ Arrived(gs, k)
               /\ gs \in Seq(Frame(Byte)) /\ gs # <<>>
               /\ wire = <<>> <=> k = Len(gs)
    BY AtTheEnd
  <2>2. PICK k \in 0 .. Len(gs) :
               /\ Arrived(gs, k)
               /\ gs \in Seq(Frame(Byte)) /\ gs # <<>>
               /\ wire = <<>> <=> k = Len(gs)
    BY <2>1
  <2>3. PICK c \in Nat :
          /\ Clean(sent, gs, c) /\ HoldsUpTo(sent, c, k, rx, received)
          /\ fault \in Cutting => c = Len(gs) /\ c < Len(S)
    BY <2>2 DEF Arrived
  <2>4. sent \in Responses /\ Unframed(S) = sent
    BY ResponseSegments DEF LinkInv
  <2>5. received \in {<<>>, <<sent>>}
    BY <2>3, <2>4 DEF HoldsUpTo, Holds
  <2>6. ASSUME fault \in Cutting, wire = <<>>
        PROVE  rx.on /\ received = <<>>
    <3>1. k = c /\ c \in 1 .. Len(S) /\ c < Len(S) /\ Len(S) \in Nat
      <4>1. S \in Seq(Frame(Byte))
        BY <2>4, ResponseSegments DEF WellFormed
      <4>2. QED
        BY <2>2, <2>3, <2>6, <4>1, LenProperties DEF Clean
    <3>2. Holds(S, k, rx, received) /\ k \in 1 .. Len(S) - 1
      BY <2>3, <3>1 DEF HoldsUpTo
    <3> HIDE DEF S
    <3>3. rx.on = TRUE
      BY <2>4, <3>2, HoldsBefore, ResponseSegments DEF S
    <3>4. received = <<>>
      BY <3>2, <3>3 DEF Holds, Reset
    <3>5. QED
      BY <3>3, <3>4
  <2>7. QED
    BY <2>5, <2>6
<1>2. QED
  BY <1>1, LinkHolds, PTL

-----------------------------------------------------------------------------
(* What a DoIP client makes of the same faults *)

\* A list that has lost frames after its first is read as a shorter response.
LEMMA LossIsShort ==
  ASSUME NEW p \in Responses, Len(Segment(p)) > 1,
         NEW gs \in Seq(Frame(Byte)), gs # <<>>, Full(gs),
         gs[1] = Segment(p)[1], Len(gs) < Len(Segment(p))
  PROVE  Len(Unframed(gs)) < Len(p)
<1> DEFINE S == Segment(p)
<1>1. /\ S \in Seq(Frame(Byte)) /\ S # <<>> /\ S[1].n = Len(p) /\ S[1].t = "FF"
      /\ Offset(Len(S) - 1) < Len(p)
  BY ResponseSegments DEF WellFormed
<1>2. /\ Len(gs) \in Nat \ {0} /\ (Len(gs) = 1 \/ Len(gs) > 1) /\ gs[1].d \in Seq(Byte)
  BY ListParts
<1>3. Len(p) \in Nat \ {0}
  BY LinkAssumption, EmptySeq DEF Payload
<1>4. CASE Len(gs) = 1
  <2>1. Unframed(gs) = Take(<<"??">> \o gs[1].d, Len(p) \div 256)
    BY <1>1, <1>4 DEF Unframed
  <2>2. <<"??">> \o gs[1].d \in Seq(Byte)
    <3>1. "??" \in Byte
      BY DEF Byte, HeaderByte
    <3>2. QED
      BY <1>2, <3>1, ConcatProperties
  <2>3. Len(p) \div 256 \in Nat /\ Len(p) \div 256 < Len(p)
    BY <1>3
  <2> DEFINE s == <<"??">> \o gs[1].d
             n == Len(p) \div 256
  <2>3a. s \in Seq(Byte) /\ n \in Int /\ n >= 0
    BY <2>2, <2>3
  <2> HIDE DEF s, n
  <2>4. Take(s, n) \in Seq(Byte) /\ Len(Take(s, n)) <= n
    BY <2>3a, TakeType
  <2>5. Len(Take(s, n)) \in Nat
    BY <2>4, LenProperties
  <2>6. QED
    BY <1>3, <2>1, <2>3, <2>4, <2>5 DEF s, n
<1>5. CASE Len(gs) > 1
  <2>1. Joined(gs) \in Seq(Byte) /\ Len(Joined(gs)) = Offset(Len(gs))
    BY <1>5, JoinedParts
  <2>2. Len(S) \in Nat \ {0}
    BY <1>1, ListParts
  <2>3. Len(gs) <= Len(S) - 1 /\ Len(S) - 1 \in Nat \ {0}
    <3>1. \A m, n \in Nat \ {0} : m < n => m <= n - 1 /\ n - 1 \in Nat \ {0}
      OBVIOUS
    <3>2. QED
      BY <1>2, <2>2, <3>1, Zenon
  <2>4. Offset(Len(gs)) \in Nat /\ Offset(Len(gs)) < Len(p)
    <3>1. /\ Offset(Len(gs)) <= Offset(Len(S) - 1)
          /\ Offset(Len(gs)) \in Nat /\ Offset(Len(S) - 1) \in Nat
      BY <1>2, <2>3, OffsetIs
    <3>2. QED
      BY <1>1, <1>3, <3>1
  <2>5. Unframed(gs) = Take(Joined(gs), Len(p))
    BY <1>1, <1>5 DEF Unframed
  <2>6. Take(Joined(gs), Len(p)) = Take(Joined(gs), Offset(Len(gs)))
    BY <1>3, <2>1, <2>4 DEF Take, Smaller
  <2>7. Len(Take(Joined(gs), Offset(Len(gs)))) = Offset(Len(gs))
    BY <2>1, <2>4, TakeIs
  <2>8. QED
    BY <2>4, <2>5, <2>6, <2>7
<1>6. QED
  BY <1>2, <1>4, <1>5

\* Joining looks at the data alone.
LEMMA JoinedData ==
  ASSUME NEW fs, NEW gs, Len(fs) \in Nat \ {0}, Len(gs) = Len(fs),
         \A j \in 1 .. Len(fs) : gs[j].d = fs[j].d
  PROVE  Joined(gs) = Joined(fs)
<1> DEFINE n == FFCap + ((Len(fs) - 1) * CFCap)
           e(hs, i) == IF i <= FFCap THEN hs[1].d[i]
                       ELSE hs[2 + ((i - FFCap - 1) \div CFCap)].d[1 + ((i - FFCap - 1) % CFCap)]
<1>1. Len(fs) - 1 \in Nat /\ FFCap \in Nat /\ CFCap \in Nat \ {0} /\ n \in Nat
  BY IsoTpAssumption
<1>2. ASSUME NEW i \in 1 .. n
      PROVE  e(gs, i) = e(fs, i)
  <2>1. CASE i <= FFCap
    BY <2>1
  <2>2. CASE ~(i <= FFCap)
    <3> DEFINE q == (i - FFCap - 1) \div CFCap
    <3>1. i \in FFCap + 1 .. FFCap + ((Len(fs) - 1) * CFCap)
      BY <1>1, <2>2
    <3>2. q \in 0 .. Len(fs) - 1 - 1
      BY <1>1, <3>1, JoinedIndex
    <3> HIDE DEF q
    <3>3. 2 + q \in 1 .. Len(fs)
      BY <3>2
    <3>4. gs[2 + q].d = fs[2 + q].d
      BY <3>3
    <3>5. QED
      BY <2>2, <3>4 DEF q
  <2>3. QED
    BY <2>1, <2>2
<1>3. Joined(fs) = [i \in 1 .. n |-> e(fs, i)]
  BY DEF Joined
<1>4. Joined(gs) = [i \in 1 .. n |-> e(gs, i)]
  BY DEF Joined
<1> HIDE DEF n, e
<1>5. QED
  BY <1>2, <1>3, <1>4

LEMMA StructuralOverDoIP ==
  ASSUME NEW p \in Responses, NEW ft \in Structural, ft \in Pool(Segment(p)),
         NEW gs \in Apply(ft, Segment(p))
  PROVE  /\ ft = "WRONG_SEQ" => Unframed(gs) = p
         /\ ft = "DUPLICATE_CF" => Len(Unframed(gs)) = Len(p)
         /\ ft \in {"DROP_RANDOM_CF", "DROP_LAST_CF", "TRUNCATED_MF"} =>
              Len(Unframed(gs)) < Len(p)
<1> DEFINE S == Segment(p)
<1>1. WellFormed(S) /\ S \in Seq(Frame(Byte)) /\ S # <<>> /\ Len(S) > 1 /\ gs \in Injected(S)
  BY ResponseSegments, ApplyIsInjected DEF WellFormed
<1>2. gs \in Seq(Frame(Byte)) /\ gs # <<>> /\ Full(gs)
  BY <1>1, InjectedType, InjectedFull DEF WellFormed
<1>3. Len(S) \in Nat \ {0} /\ \A i \in 1 .. Len(S) : S[i] \in Frame(Byte)
  BY <1>1, ListParts
<1>4. gs[1] = S[1]
  <2>1. PICK c \in Nat : Clean(p, gs, c)
    BY StructuralIsClean
  <2>2. c \in 1 .. Len(S) /\ \A i \in 1 .. c : gs[i] = S[i]
    BY <2>1 DEF Clean
  <2>3. 1 \in 1 .. c
    BY <1>3, <2>2
  <2>4. QED
    BY <2>2, <2>3
<1>5. S[1].n = Len(p) /\ Len(p) \in Nat /\ Unframed(S) = p
  BY ResponseSegments, LinkAssumption, LenProperties DEF Payload
<1> HIDE DEF S
<1>6. ASSUME ft = "WRONG_SEQ"
      PROVE  Unframed(gs) = p
  <2>1. gs \in WrongSeq(S)
    BY <1>6, ApplyIs DEF S
  <2>2. PICK i \in 2 .. Len(S) : gs = [S EXCEPT ![i].n = (@ + 1) % SeqWrap]
    BY <2>1 DEF WrongSeq, CFs
  <2> DEFINE g == [S[i] EXCEPT !.n = (S[i].n + 1) % SeqWrap]
  <2>3. S[i] \in Frame(Byte) /\ g.d = S[i].d
    BY <1>3, <2>2 DEF Frame
  <2>4. gs = [S EXCEPT ![i] = g] /\ DOMAIN S = 1 .. Len(S)
    BY <1>1, <2>2, LenProperties
  <2> HIDE DEF g
  <2>5. \A j \in 1 .. Len(S) : gs[j].d = S[j].d
    BY <2>3, <2>4
  <2>6. Len(gs) = Len(S)
    <3>1. DOMAIN gs = 1 .. Len(S)
      BY <2>4
    <3>2. DOMAIN gs = 1 .. Len(gs) /\ Len(gs) \in Nat \ {0}
      BY <1>2, LenProperties, ListParts
    <3>3. \A m, n \in Nat \ {0} : 1 .. m = 1 .. n => m = n
      <4> SUFFICES ASSUME NEW m \in Nat \ {0}, NEW n \in Nat \ {0}, 1 .. m = 1 .. n
                   PROVE  m = n
        OBVIOUS
      <4>1. m \in 1 .. n /\ n \in 1 .. m
        OBVIOUS
      <4>2. QED
        BY <4>1
    <3>4. QED
      BY <1>3, <3>1, <3>2, <3>3, Zenon
  <2>7. Joined(gs) = Joined(S)
    BY <1>3, <2>5, <2>6, JoinedData
  <2>8. Unframed(gs) = Unframed(S)
    BY <1>1, <1>4, <2>6, <2>7 DEF Unframed
  <2>9. QED
    BY <1>5, <2>8
<1>7. ASSUME ft = "DUPLICATE_CF"
      PROVE  Len(Unframed(gs)) = Len(p)
  <2>1. PICK i \in 2 .. Len(S) : gs = InsertAt(S, i, S[i])
    BY <1>7, ApplyIs DEF DuplicateCF, CFs, S
  <2>2. Len(gs) = Len(S) + 1 /\ Len(gs) > 1
    BY <1>1, <1>3, <2>1, InsertedIs
  <2>3. Joined(gs) \in Seq(Byte) /\ Len(Joined(gs)) = Offset(Len(S)) + CFCap
    BY <1>2, <1>3, <2>2, JoinedParts, OffsetIs
  <2>4. Len(p) <= Offset(Len(S)) /\ Offset(Len(S)) \in Nat /\ CFCap \in Nat
    BY <1>1, <1>3, <1>5, OffsetIs, IsoTpAssumption DEF WellFormed
  <2>5. Unframed(gs) = Take(Joined(gs), Len(p))
    BY <1>4, <1>5, <2>2 DEF Unframed
  <2>6. QED
    BY <1>5, <2>3, <2>4, <2>5, TakeIs
<1>8. ASSUME ft \in {"DROP_RANDOM_CF", "DROP_LAST_CF", "TRUNCATED_MF"}
      PROVE  Len(Unframed(gs)) < Len(p)
  <2>1. Len(gs) < Len(S)
    <3>1. CASE ft = "DROP_RANDOM_CF"
      <4>1. PICK i \in 2 .. Len(S) : gs = RemoveAt(S, i)
        BY <3>1, ApplyIs DEF DropRandomCF, CFs, S
      <4>2. QED
        BY <1>1, <1>3, <4>1, RemovedIs
    <3>2. CASE ft \in Cutting
      BY <3>2, StructuralIsClean DEF S
    <3>3. QED
      BY <1>8, <3>1, <3>2 DEF Cutting
  <2>2. QED
    BY <1>1, <1>2, <1>4, <2>1, LossIsShort DEF S
<1>9. QED
  BY <1>6, <1>7, <1>8

\* Over DoIP a renumbered response passes for a clean one, a repeated frame
\* leaves the length alone and a lost one shortens the response
\* (device.py:226-233).
THEOREM DoIPSeesLoss == LSpec => []DoIPSeesLossOnly
<1>1. LinkInv => DoIPSeesLossOnly
  <2> SUFFICES ASSUME LinkInv PROVE DoIPSeesLossOnly
    OBVIOUS
  <2>1. PICK gs \in Apply(fault, Segment(sent)) : doip = Unframed(gs)
    BY DEF LinkInv, Arrived
  <2>2. sent \in Responses /\ fault \in Pool(Segment(sent))
    BY DEF LinkInv
  <2>3. CASE fault = "NONE"
    <3>1. doip = sent
      BY <2>1, <2>2, <2>3, ApplyIs, ResponseSegments
    <3>2. QED
      BY <2>3, <3>1 DEF DoIPSeesLossOnly
  <2>4. CASE fault \in Structural
    BY <2>1, <2>2, <2>4, StructuralOverDoIP DEF DoIPSeesLossOnly, Structural
  <2>5. CASE fault \notin Structural \cup {"NONE"}
    BY <2>5 DEF DoIPSeesLossOnly, Structural
  <2>6. QED
    BY <2>3, <2>4, <2>5
<1>2. QED
  BY <1>1, LinkHolds, PTL
=============================================================================
