--------------------------- MODULE PatientProofs ----------------------------
(***************************************************************************)
(* Proofs about Session with timeouts that outlast everything in progress: *)
(* what is under way belongs to the current call, so that no fault spoils  *)
(* a later response; and a device is one atomic store to its UDS and       *)
(* Service 77 testers, where a lost frame costs one call at most.  For the *)
(* latter the calls are told apart that end by themselves unless one more  *)
(* frame is lost, and each step is mapped to one of RegisterService.       *)
(***************************************************************************)
EXTENDS DeviceProofs

-----------------------------------------------------------------------------
(* Patient sessions: what is under way belongs to the current call *)

\* A first or a single frame, and consecutive frames after a first frame.
Kinds(fs) ==
  /\ fs[1].t \in {"SF", "FF"} /\ (fs[1].t = "SF" => Len(fs) = 1)
  /\ \A j \in 2 .. Len(fs) : fs[j].t = "CF"

LEMMA SameKinds ==
  ASSUME NEW fs \in Seq(Frame(Byte)), fs # <<>>, Kinds(fs), NEW gs,
         Len(gs) = Len(fs), \A j \in 1 .. Len(fs) : gs[j].t = fs[j].t
  PROVE  Kinds(gs)
<1>1. Len(fs) \in Nat \ {0}
  BY EmptySeq
<1>2. 1 \in 1 .. Len(fs) /\ \A j \in 2 .. Len(fs) : j \in 1 .. Len(fs)
  BY <1>1
<1>3. QED
  BY <1>2 DEF Kinds

LEMMA PickedKinds ==
  ASSUME NEW fs, Kinds(fs), Len(fs) # 1, NEW gs, gs[1] = fs[1],
         \A j \in 2 .. Len(gs) : \E k \in 2 .. Len(fs) : gs[j] = fs[k]
  PROVE  Kinds(gs)
BY DEF Kinds

\* Faults change no frame's type, and add frames to no single frame.
LEMMA InjectedKinds ==
  ASSUME NEW p \in Payload, p # <<>>, NEW gs \in Injected(Segment(p))
  PROVE  Kinds(gs)
<1> DEFINE fs == Segment(p)
<1>0. /\ fs \in Seq(Frame(Byte)) /\ fs # <<>> /\ Len(fs) \in Nat \ {0} /\ Kinds(fs)
      /\ gs \in Injected(fs)
      /\ \A i \in 1 .. Len(fs) : fs[i] \in Frame(Byte)
  <2>1. \A n \in Nat \ {0} : n = 1 \/ n > 1
    OBVIOUS
  <2>2. Len(fs) \in Nat \ {0}
    BY SegmentFrames
  <2>3. Len(fs) = 1 \/ Len(fs) > 1
    BY <2>1, <2>2, Zenon
  <2>4. Kinds(fs)
    BY <2>3, SegmentFrames DEF Kinds
  <2>5. QED
    BY <2>4, SegmentFrames
<1> HIDE DEF fs
<1>1. ASSUME NEW i \in 1 .. Len(fs), NEW d, gs = [fs EXCEPT ![i] = [fs[i] EXCEPT !.d = d]]
      PROVE  Kinds(gs)
  <2>1. Len(gs) = Len(fs) /\ \A j \in 1 .. Len(fs) : gs[j] = IF j = i THEN [fs[i] EXCEPT !.d = d] ELSE fs[j]
    <3>1. fs \in [1 .. Len(fs) -> Frame(Byte)] /\ DOMAIN fs = 1 .. Len(fs)
      BY <1>0, LenProperties
    <3>2. gs \in [1 .. Len(fs) -> {fs[j] : j \in 1 .. Len(fs)} \cup {[fs[i] EXCEPT !.d = d]}]
      BY <1>1, <3>1
    <3>3. Len(gs) = Len(fs)
      BY <1>0, <3>2, FunctionIsSeq
    <3>4. QED
      BY <1>1, <3>1, <3>3
  <2>2. \A j \in 1 .. Len(fs) : gs[j].t = fs[j].t
    BY <1>0, <2>1 DEF Frame
  <2>3. QED
    BY <1>0, <2>1, <2>2, SameKinds
<1>2. ASSUME NEW i \in 1 .. Len(fs), NEW n, gs = [fs EXCEPT ![i] = [fs[i] EXCEPT !.n = n]]
      PROVE  Kinds(gs)
  <2>1. Len(gs) = Len(fs) /\ \A j \in 1 .. Len(fs) : gs[j] = IF j = i THEN [fs[i] EXCEPT !.n = n] ELSE fs[j]
    <3>1. fs \in [1 .. Len(fs) -> Frame(Byte)] /\ DOMAIN fs = 1 .. Len(fs)
      BY <1>0, LenProperties
    <3>2. gs \in [1 .. Len(fs) -> {fs[j] : j \in 1 .. Len(fs)} \cup {[fs[i] EXCEPT !.n = n]}]
      BY <1>2, <3>1
    <3>3. Len(gs) = Len(fs)
      BY <1>0, <3>2, FunctionIsSeq
    <3>4. QED
      BY <1>2, <3>1, <3>3
  <2>2. \A j \in 1 .. Len(fs) : gs[j].t = fs[j].t
    BY <1>0, <2>1 DEF Frame
  <2>3. QED
    BY <1>0, <2>1, <2>2, SameKinds
<1>3. 1 \in 1 .. Len(fs) /\ Len(fs) \in 1 .. Len(fs)
      /\ \A j \in 2 .. Len(fs) : j \in 1 .. Len(fs)
  BY <1>0
<1>4. CASE gs \in WrongDid(fs)
  <2>1. PICK x : gs = [fs EXCEPT ![1].d[2] = x]
    BY <1>4 DEF WrongDid
  <2>2. gs = [fs EXCEPT ![1] = [fs[1] EXCEPT !.d = [fs[1].d EXCEPT ![2] = x]]]
    BY <2>1
  <2>3. QED
    BY <1>1, <1>3, <2>2
<1>5. CASE gs \in WrongService(fs)
  <2>1. gs = [fs EXCEPT ![1] = [fs[1] EXCEPT !.d = [fs[1].d EXCEPT ![1] = "00"]]]
    BY <1>5 DEF WrongService
  <2>2. QED
    BY <1>1, <1>3, <2>1
<1>6. CASE gs \in ShortPayload(fs)
  <2>1. PICK k : gs = [fs EXCEPT ![Len(fs)].d = Blanked(@, k)]
    BY <1>6 DEF ShortPayload
  <2> DEFINE last == Len(fs)
  <2>2. gs = [fs EXCEPT ![last] = [fs[last] EXCEPT !.d = Blanked(fs[last].d, k)]]
    BY <2>1
  <2>3. QED
    BY <1>1, <1>3, <2>2
<1>7. CASE gs \in WrongPadding(fs)
  <2>1. gs = [i \in 1 .. Len(fs) |-> Repadded(fs[i])]
    BY <1>0, <1>7, LenProperties DEF WrongPadding
  <2>2. Len(gs) = Len(fs)
    <3>1. gs \in [1 .. Len(fs) -> {Repadded(fs[i]) : i \in 1 .. Len(fs)}]
      BY <2>1
    <3>2. QED
      BY <1>0, <3>1, FunctionIsSeq
  <2>3. \A f \in Frame(Byte) : Repadded(f).t = f.t
    BY DEF Repadded, Frame
  <2>4. \A j \in 1 .. Len(fs) : gs[j].t = fs[j].t
    BY <1>0, <2>1, <2>3
  <2>5. QED
    BY <1>0, <2>2, <2>4, SameKinds
<1>8. CASE Len(fs) > 1 /\ gs \in DropRandomCF(fs)
  <2>1. PICK i \in 2 .. Len(fs) : gs = RemoveAt(fs, i)
    BY <1>8 DEF DropRandomCF, CFs
  <2>2. /\ Len(gs) = Len(fs) - 1
        /\ \A j \in 1 .. Len(fs) - 1 : gs[j] = IF j <= i - 1 THEN fs[j] ELSE fs[j + 1]
    BY <1>0, <2>1, RemovedIs
  <2>3. gs[1] = fs[1] /\ (\A j \in 2 .. Len(gs) : \E k \in 2 .. Len(fs) : gs[j] = fs[k])
        /\ Len(fs) # 1
    BY <1>0, <1>8, <2>2
  <2>4. QED
    BY <1>0, <2>3, PickedKinds
<1>9. CASE Len(fs) > 1 /\ gs \in DropLastCF(fs)
  <2>1. gs = SubSeq(fs, 1, Len(fs) - 1)
    BY <1>9 DEF DropLastCF, Front
  <2>2. /\ Len(gs) = Len(fs) - 1
        /\ \A k \in 1 .. Len(fs) - 1 : gs[k] = fs[k]
    BY <1>0, <1>9, <2>1, Slice
  <2>3. gs[1] = fs[1] /\ (\A j \in 2 .. Len(gs) : \E k \in 2 .. Len(fs) : gs[j] = fs[k])
        /\ Len(fs) # 1
    BY <1>0, <1>9, <2>2
  <2>4. QED
    BY <1>0, <2>3, PickedKinds
<1>10. CASE gs \in WrongSeq(fs)
  <2>1. PICK i \in 2 .. Len(fs) : gs = [fs EXCEPT ![i].n = (@ + 1) % SeqWrap]
    BY <1>10 DEF WrongSeq, CFs
  <2>2. gs = [fs EXCEPT ![i] = [fs[i] EXCEPT !.n = (fs[i].n + 1) % SeqWrap]]
    BY <2>1
  <2>3. QED
    BY <1>2, <1>3, <2>2
<1>11. CASE Len(fs) > 1 /\ gs \in DuplicateCF(fs)
  <2>1. PICK i \in 2 .. Len(fs) : gs = InsertAt(fs, i, fs[i])
    BY <1>11 DEF DuplicateCF, CFs
  <2>2. /\ Len(gs) = Len(fs) + 1
        /\ \A j \in 1 .. Len(fs) + 1 : gs[j] = IF j <= i THEN fs[j] ELSE fs[j - 1]
    BY <1>0, <2>1, InsertedIs
  <2>3. gs[1] = fs[1] /\ Len(fs) # 1
    BY <1>0, <1>11, <2>2
  <2>4. ASSUME NEW j \in 2 .. Len(gs)
        PROVE  \E k \in 2 .. Len(fs) : gs[j] = fs[k]
    <3> DEFINE k == IF j <= i THEN j ELSE j - 1
    <3>1. k \in 2 .. Len(fs) /\ gs[j] = fs[k]
      BY <1>0, <2>2
    <3>2. QED
      BY <3>1
  <2>5. QED
    BY <1>0, <2>3, <2>4, PickedKinds
<1>12. CASE gs \in TruncatedMF(fs)
  <2>1. gs = <<fs[1]>>
    BY <1>12 DEF TruncatedMF
  <2>2. Len(gs) = 1 /\ gs[1] = fs[1]
    BY <2>1
  <2>3. QED
    BY <1>0, <2>2 DEF Kinds
<1>13. CASE gs \in WrongLen(fs)
  <2>1. gs = [fs EXCEPT ![1] = [fs[1] EXCEPT !.n = Smaller(fs[1].n + 1, MaxLen)]]
    BY <1>13 DEF WrongLen
  <2>2. QED
    BY <1>2, <1>3, <2>1
<1>14. CASE gs = fs
  BY <1>0, <1>14
<1>15. QED
  BY <1>0, <1>4, <1>5, <1>6, <1>7, <1>8, <1>9, <1>10, <1>11, <1>12, <1>13, <1>14
  DEF Injected, SFFaults, MFFaults

\* All frames of a list are of certain types.
Only(m, K) == \A j \in 1 .. Len(m) : m[j].t \in K

\* What may be left on its way of the response before.
Late == {"CF", "empty"}

NotCF == {"SF", "FF", "FC", "other", "FFcut", "empty"}

\* The last frame that is not blank is the i-th; before it such leftovers.
Ends(m, i) ==
  /\ i \in 1 .. Len(m)
  /\ \A j \in 1 .. Len(m) : j < i => m[j].t \in Late
  /\ \A j \in 1 .. Len(m) : j > i => m[j].t = "empty"

LEMMA OnlyConcat ==
  ASSUME NEW m \in Seq(Frame(Byte)), NEW bs \in Seq(Frame(Byte)), NEW K,
         Only(m, K), Only(bs, K)
  PROVE  Only(m \o bs, K)
<1> DEFINE n == Len(m)  k == Len(bs)  u == m \o bs
<1>1. n \in Nat /\ k \in Nat
  BY LenProperties
<1>2. /\ Len(u) = n + k
      /\ \A i \in 1 .. n + k : u[i] = IF i <= n THEN m[i] ELSE bs[i - n]
  BY ConcatProperties
<1>3. (\A j \in 1 .. n : m[j].t \in K) /\ (\A j \in 1 .. k : bs[j].t \in K)
  BY DEF Only
<1> HIDE DEF n, k, u
<1>4. ASSUME NEW i \in 1 .. n + k
      PROVE  u[i].t \in K
  <2>1. CASE i <= n
    <3>1. i \in 1 .. n /\ u[i] = m[i]
      BY <1>1, <1>2, <2>1
    <3>2. QED
      BY <1>3, <3>1
  <2>2. CASE i > n
    <3>1. i - n \in 1 .. k /\ u[i] = bs[i - n]
      BY <1>1, <1>2, <2>2
    <3>2. QED
      BY <1>3, <3>1
  <2>3. QED
    BY <1>1, <2>1, <2>2
<1>5. QED
  BY <1>2, <1>4 DEF Only, u

LEMMA OnlyTail ==
  ASSUME NEW m \in Seq(Frame(Byte)), m # <<>>, NEW K, Only(m, K)
  PROVE  Only(Tail(m), K) /\ Head(m).t \in K
<1> DEFINE n == Len(m)  u == Tail(m)
<1>1. n \in Nat \ {0} /\ Head(m) = m[1]
  BY EmptySeq
<1>2. Len(u) = n - 1 /\ \A i \in 1 .. n - 1 : u[i] = m[i + 1]
  BY HeadTailProperties
<1>3. \A j \in 1 .. n : m[j].t \in K
  BY DEF Only
<1> HIDE DEF n, u
<1>4. 1 \in 1 .. n /\ \A i \in 1 .. n - 1 : i + 1 \in 1 .. n
  BY <1>1
<1>5. QED
  BY <1>1, <1>2, <1>3, <1>4 DEF Only, u

LEMMA OnlyMore ==
  ASSUME NEW m, NEW K, NEW L, K \subseteq L, Only(m, K)
  PROVE  Only(m, L)
BY DEF Only

LEMMA OnlyType ==
  ASSUME NEW m \in Seq(Frame(Byte))
  PROVE  Only(m, FrameType)
<1>1. \A j \in 1 .. Len(m) : m[j] \in Frame(Byte)
  BY ElementOfSeq
<1>2. QED
  BY <1>1 DEF Only, Frame

LEMMA EndsBlank ==
  ASSUME NEW m \in Seq(Frame(Byte)), NEW bs \in Seq(Frame(Byte)), NEW i,
         Ends(m, i), Only(bs, {"empty"})
  PROVE  Ends(m \o bs, i) /\ (m \o bs)[i] = m[i]
<1> DEFINE n == Len(m)  k == Len(bs)  u == m \o bs
<1>1. n \in Nat /\ k \in Nat
  BY LenProperties
<1>2. /\ Len(u) = n + k
      /\ \A j \in 1 .. n + k : u[j] = IF j <= n THEN m[j] ELSE bs[j - n]
  BY ConcatProperties
<1>3. /\ i \in 1 .. n /\ \A j \in 1 .. k : bs[j].t = "empty"
      /\ \A j \in 1 .. n : j < i => m[j].t \in Late
      /\ \A j \in 1 .. n : j > i => m[j].t = "empty"
  BY DEF Only, Ends
<1> HIDE DEF n, k, u
<1>4. ASSUME NEW j \in 1 .. n + k
      PROVE  /\ j < i => u[j].t \in Late
             /\ j > i => u[j].t = "empty"
  <2>1. CASE j <= n
    <3>1. j \in 1 .. n /\ u[j] = m[j]
      BY <1>1, <1>2, <2>1
    <3>2. QED
      BY <1>3, <3>1
  <2>2. CASE j > n
    <3>1. j - n \in 1 .. k /\ u[j] = bs[j - n] /\ ~(j < i)
      BY <1>1, <1>2, <1>3, <2>2
    <3>2. QED
      BY <1>3, <3>1
  <2>3. QED
    BY <1>1, <2>1, <2>2
<1>5. i \in 1 .. n + k /\ u[i] = m[i]
  BY <1>1, <1>2, <1>3
<1>6. QED
  BY <1>2, <1>4, <1>5 DEF Ends, u

LEMMA EndsAppend ==
  ASSUME NEW m \in Seq(Frame(Byte)), NEW f \in Frame(Byte), Only(m, Late)
  PROVE  \E i : Ends(m \o <<f>>, i) /\ (m \o <<f>>)[i] = f
<1> DEFINE n == Len(m)  u == m \o <<f>>
<1>1. n \in Nat /\ <<f>> \in Seq(Frame(Byte)) /\ Len(<<f>>) = 1 /\ <<f>>[1] = f
  BY LenProperties
<1>2. /\ Len(u) = n + 1
      /\ \A j \in 1 .. n + 1 : u[j] = IF j <= n THEN m[j] ELSE <<f>>[j - n]
  BY <1>1, ConcatProperties
<1>3. \A j \in 1 .. n : m[j].t \in Late
  BY DEF Only
<1> HIDE DEF n, u
<1>4. u[n + 1] = f /\ n + 1 \in 1 .. n + 1
  BY <1>1, <1>2
<1>5. \A j \in 1 .. n + 1 : /\ j < n + 1 => j \in 1 .. n /\ u[j] = m[j]
                            /\ ~(j > n + 1)
  BY <1>1, <1>2
<1>6. Ends(u, n + 1)
  BY <1>2, <1>3, <1>4, <1>5 DEF Ends
<1>7. QED
  BY <1>4, <1>6 DEF u

LEMMA EndsTail ==
  ASSUME NEW m \in Seq(Frame(Byte)), NEW i, Ends(m, i)
  PROVE  /\ m # <<>>
         /\ \/ i = 1 /\ Head(m) = m[i] /\ Only(Tail(m), {"empty"})
            \/ /\ Ends(Tail(m), i - 1) /\ Tail(m)[i - 1] = m[i]
               /\ Head(m).t \in Late
<1> DEFINE n == Len(m)  u == Tail(m)
<1>1. /\ i \in 1 .. n
      /\ \A j \in 1 .. n : j < i => m[j].t \in Late
      /\ \A j \in 1 .. n : j > i => m[j].t = "empty"
  BY DEF Ends
<1>2. n \in Nat /\ (m = <<>> => n = 0) /\ (m # <<>> => Head(m) = m[1])
  BY EmptySeq, LenProperties
<1>3. m # <<>> /\ n \in Nat \ {0} /\ Head(m) = m[1]
  BY <1>1, <1>2
<1>4. Len(u) = n - 1 /\ \A j \in 1 .. n - 1 : u[j] = m[j + 1]
  BY <1>3, HeadTailProperties
<1> HIDE DEF n, u
<1>5. \A j \in 1 .. n - 1 : j + 1 \in 1 .. n
  BY <1>3
<1>6. CASE i = 1
  <2>1. \A j \in 1 .. n - 1 : j + 1 > i
    BY <1>3, <1>6
  <2>2. Only(u, {"empty"})
    BY <1>1, <1>4, <1>5, <2>1 DEF Only
  <2>3. QED
    BY <1>3, <1>6, <2>2 DEF u
<1>7. CASE i # 1
  <2>1. i - 1 \in 1 .. n - 1 /\ (i - 1) + 1 = i /\ 1 < i /\ 1 \in 1 .. n
    BY <1>1, <1>3, <1>7
  <2>2. \A j \in 1 .. n - 1 : /\ j < i - 1 => j + 1 < i
                              /\ j > i - 1 => j + 1 > i
    BY <1>1, <1>3
  <2>3. Ends(u, i - 1)
    BY <1>1, <1>4, <1>5, <2>1, <2>2 DEF Ends
  <2>4. u[i - 1] = m[i] /\ Head(m).t \in Late
    BY <1>1, <1>3, <1>4, <2>1
  <2>5. QED
    BY <1>3, <2>3, <2>4 DEF u
<1>8. QED
  BY <1>6, <1>7

\* An assembler in the middle of a payload may miss consecutive frames of it.
LEMMA RunsDrop ==
  ASSUME NEW P, Whole(P), NEW a, NEW q \in Seq(Frame(Byte)), q # <<>>,
         Head(q).t \notin {"SF", "FF"}, NEW l, Runs(P, a, q, l)
  PROVE  Runs(P, a, Tail(q), l)
<1>1. PICK x, y \in Labels(P) :
        /\ Follows(a, x) /\ Comes(x, Head(q), y)
        /\ \A b : Follows(b, y) => Runs(P, b, Tail(q), l)
  BY RunsHead
<1>2. Follows(a, y)
  <2>1. CASE y = x
    BY <1>1, <2>1
  <2>2. CASE y.i = 1 /\ Head(q) = Segment(y.p)[1]
    <3>1. y.p \in Payload /\ y.p # <<>>
      BY <2>2, LabelParts
    <3>2. Head(q).t \in {"SF", "FF"}
      <4>1. \A n \in Nat \ {0} : n = 1 \/ n > 1
        OBVIOUS
      <4>2. Len(Segment(y.p)) \in Nat \ {0}
        BY <3>1, SegmentFrames
      <4>3. Len(Segment(y.p)) = 1 \/ Len(Segment(y.p)) > 1
        BY <4>1, <4>2, Zenon
      <4>4. QED
        BY <2>2, <3>1, <4>3, SegmentFrames
    <3>3. QED
      BY <3>2
  <2>3. CASE y.p = x.p /\ x.i >= 1 /\ y.i \in x.i + 1 .. Len(Segment(x.p))
    <3>1. x.i \in Nat /\ x.i # 0 /\ y.i \in Nat /\ x.i <= y.i - 1
      BY <2>3, LabelParts
    <3>2. x.p \in Payload /\ x.p # <<>>
      BY <3>1, LabelParts
    <3>3. InStep(a, x.p, x.i) => Behind(a, y.p, y.i)
      <4>1. x.i \in 1 .. y.i - 1
        BY <3>1
      <4>2. QED
        BY <2>3, <3>1, <3>2, <4>1, InStepHasGot DEF Behind
    <3>4. Behind(a, x.p, x.i) => Behind(a, y.p, y.i)
      <4>1. \A j \in 1 .. x.i - 1 : j \in 1 .. y.i - 1
        BY <3>1
      <4>2. QED
        BY <2>3, <4>1 DEF Behind
    <3>5. QED
      BY <1>1, <3>3, <3>4 DEF Follows
  <2>4. QED
    BY <1>1, <2>1, <2>2, <2>3 DEF Comes
<1>3. QED
  BY <1>1, <1>2

\* What of the transmit queue tester w will see.
Own(w) == Mine(w, txq)

\* The frames of the request of worker w.
Asks(w) == Segment(Encoded(w, req[w]))

\* The response in progress is not of this call: consecutive frames that are
\* left of it reach an assembler that waits for nothing.
Quiet(w) ==
  /\ pc[w] \notin {"first", "fc"}
  /\ tasm[w].on = TRUE => Only(Own(w), NotCF) /\ (pc[w] = "cf" => out[w] = <<>>)

\* What a response promises when no fault changed it: its first frame under
\* way, and later its consecutive frames.
CleanFirst(w, f) ==
  ~faulted[w] =>
    \E p \in Payload \ {<<>>} :
      /\ Decoded(p) = ans[w] /\ f = Segment(p)[1]
      /\ pc[w] \in {"first", "fc"} => out[w] = Tail(Segment(p))

CleanRest(w) ==
  ~faulted[w] =>
    \E p \in Payload \ {<<>>} :
      Decoded(p) = ans[w] /\ SentRuns({p}, tasm[w], Own(w), out[w])

\* The stages of a call: none, then the request on its way,
IdleStage(w) ==
  /\ phase[w] = "idle" /\ queue[w] = <<>> /\ Quiet(w) /\ Only(Own(w), Late)
  /\ got[w] # NoAnswer /\ ~faulted[w] => got[w] = ans[w]

OfferStage(w) ==
  /\ phase[w] = "offer" /\ ans[w] = NoAnswer /\ Quiet(w) /\ req[w] \in Requests[w]
  /\ Len(Asks(w)) > 1 /\ todo[w] = Tail(Asks(w))
  /\ \/ queue[w] = <<Asks(w)[1]>> /\ Only(Own(w), Late)
     \/ /\ queue[w] = <<>> /\ InStep(asm[w], Encoded(w, req[w]), 1)
        /\ \/ Only(Own(w), Late)
           \/ pc[w] # "cf" /\ \E i : Ends(Own(w), i) /\ Own(w)[i].t = "FC"

AskedStage(w) ==
  /\ phase[w] = "await" /\ ans[w] = NoAnswer /\ Quiet(w) /\ req[w] \in Requests[w]
  /\ Only(Own(w), Late)
  /\ \E k \in Nat :
       /\ k < Len(Asks(w)) /\ queue[w] = SubSeq(Asks(w), k + 1, Len(Asks(w)))
       /\ k = 0 => Len(Asks(w)) = 1
       /\ k # 0 => InStep(asm[w], Encoded(w, req[w]), k)

\* the first frame of the response sent, and perhaps lost,
OpenedStage(w) ==
  /\ phase[w] = "await" /\ ans[w] # NoAnswer /\ queue[w] = <<>> /\ pc[w] # "cf"
  /\ tasm[w].on = TRUE => Only(Own(w), NotCF)
  /\ \/ Only(Own(w), Late)
     \/ \E i : /\ Ends(Own(w), i) /\ Own(w)[i].t \in {"SF", "FF"}
               /\ Own(w)[i].t = "SF" => pc[w] \notin {"first", "fc"}
               /\ CleanFirst(w, Own(w)[i])

\* flow control for the rest in the queue of the worker,
GrantedStage(w) ==
  /\ phase[w] = "await" /\ ans[w] # NoAnswer /\ queue[w] = <<FlowControl>>
  /\ pc[w] # "cf" /\ Only(Own(w), {"empty"})
  /\ pc[w] \in {"first", "fc"} => CleanRest(w)

\* and the rest on its way.
FlowingStage(w) ==
  /\ phase[w] = "await" /\ ans[w] # NoAnswer /\ queue[w] = <<>>
  /\ pc[w] \notin {"first", "fc"} /\ Only(Own(w), Late) /\ CleanRest(w)

InOrder(w) ==
  /\ Only(out[w], {"CF"})
  /\ \/ IdleStage(w) \/ OfferStage(w) \/ AskedStage(w)
     \/ OpenedStage(w) \/ GrantedStage(w) \/ FlowingStage(w)

PatientInv == STypeInv /\ \A w \in Worker : InOrder(w)

\* What a step of worker w may do.
Rests(w) == queue'[w] = queue[w] /\ asm'[w] = asm[w]

Takes(w) == queue[w] # <<>> /\ queue'[w] = Tail(queue[w])

Woken(w) ==
  /\ pc[w] \in {"single", "first"} /\ Rests(w) /\ Own(w)' = Own(w)
  /\ out'[w] = out[w] /\ pc'[w] = IF pc[w] = "single" THEN "get" ELSE "fc"

SendsOn(w) ==
  /\ pc[w] = "cf" /\ out[w] # <<>> /\ Rests(w)
  /\ Own(w)' = Own(w) \o <<Head(out[w])>> /\ out'[w] = Tail(out[w]) /\ pc'[w] = "cf"

HasSent(w) ==
  /\ pc[w] = "cf" /\ out[w] = <<>> /\ Rests(w) /\ Own(w)' = Own(w)
  /\ out'[w] = out[w] /\ pc'[w] = "get"

TimesOut(w) ==
  /\ pc[w] = "fc" /\ Rests(w) /\ Own(w)' = Own(w)
  /\ out'[w] = <<>> /\ pc'[w] = "get"

Feeds(w) ==
  /\ pc[w] = "get" /\ Takes(w) /\ ~Completes(asm[w], Taken(w))
  /\ asm'[w] = Fed(asm[w], Taken(w)) /\ pc'[w] = "get" /\ out'[w] = out[w]
  /\ Own(w)' = IF IsFirst(Taken(w)) THEN Own(w) \o <<FlowControl>> ELSE Own(w)

Replies(w, p) ==
  \/ p = <<>>
  \/ ~Segmentable(p) /\ pc'[w] = "dead" /\ out'[w] = <<>> /\ Own(w)' = Own(w)
  \/ \E fs \in Injected(Segment(p)) :
       /\ Own(w)' = Own(w) \o <<fs[1]>> /\ txq'[Len(txq')].f = fs[1]
       /\ out'[w] = Tail(fs)
       /\ IF Len(fs) = 1 THEN pc'[w] \in {"single", "get"} ELSE pc'[w] \in {"first", "fc"}

Answers(w) ==
  /\ Handling(w) /\ Takes(w) /\ asm'[w] = Fed(asm[w], Taken(w))
  /\ store' = Stored(w, Got(w)) /\ Replies(w, Reply(w, Got(w)))

Grants(w) ==
  /\ pc[w] = "fc" /\ Takes(w) /\ Taken(w).t = "FC" /\ asm'[w] = asm[w]
  /\ \/ /\ Own(w)' = Own(w) \o <<Head(out[w])>> /\ out'[w] = Tail(out[w])
        /\ pc'[w] = "cf"
     \/ Own(w)' = Own(w) \o out[w] /\ out'[w] = <<>> /\ pc'[w] = "get"

\* It takes a frame other than it expects.
Puzzled(w) ==
  /\ queue[w] # <<>>
  /\ \/ pc[w] = "fc" /\ Taken(w).t # "FC"
     \/ pc[w] = "get" /\ Taken(w).t = "FFcut"

LEMMA LastSent ==
  ASSUME txq \in Seq(Sent), NEW w \in Worker, NEW f \in Frame(Byte), Send(w, f)
  PROVE  txq'[Len(txq')].f = f
<1> DEFINE g == [w |-> w, f |-> f]
<1>1. g \in Sent /\ g.f = f /\ txq' = Append(txq, g)
  BY DEF Sent, Send
<1> HIDE DEF g
<1>2. Len(Append(txq, g)) = Len(txq) + 1 /\ Append(txq, g)[Len(txq) + 1] = g
  BY <1>1, AppendProperties
<1>3. QED
  BY <1>1, <1>2

LEMMA WorkEffects ==
  ASSUME STypeInv, NEW w \in Worker, Work(w)
  PROVE  \/ /\ ~Handling(w) /\ store' = store
            /\ \/ Woken(w) \/ SendsOn(w) \/ HasSent(w)
               \/ Feeds(w) \/ Grants(w) \/ Puzzled(w)
         \/ Answers(w)
<1>0. /\ txq \in Seq(Sent) /\ TypeInv /\ pc \in [Worker -> PC]
      /\ queue \in [Worker -> Seq(Frame(Byte))] /\ asm \in [Worker -> Assembler(Byte)]
      /\ out \in [Worker -> Seq(Frame(Byte))] /\ store \in Store
  BY DEF STypeInv, TypeInv, TypeOK
<1>1. \A fs \in Seq(Frame(Byte)) : Sees(w, fs) => Own(w)' = Own(w) \o fs
  BY DEF Sees, Own
<1>2. txq' = txq => Own(w)' = Own(w)
  BY DEF Own
<1>3. ASSUME NEW f \in Frame(Byte), Send(w, f)
      PROVE  Own(w)' = Own(w) \o <<f>>
  <2>1. Sees(w, <<f>>)
    BY <1>0, <1>3, SeesSend
  <2>2. <<f>> \in Seq(Frame(Byte))
    OBVIOUS
  <2>3. QED
    BY <1>1, <2>1, <2>2
<1>4. TakeNext(w) => Takes(w)
  BY <1>0 DEF TakeNext, Takes
<1>5. CASE FeedOnly(w)
  <2>1. /\ Feed(w) /\ ~Completes(asm[w], Taken(w)) /\ pc' = pc /\ out' = out
        /\ store' = store
        /\ IF IsFirst(Taken(w)) THEN Send(w, FlowControl) ELSE txq' = txq
    BY <1>5 DEF FeedOnly
  <2>2. pc[w] = "get" /\ TakeNext(w) /\ asm'[w] = Fed(asm[w], Taken(w))
    BY <1>0, <2>1 DEF Feed
  <2>3. Own(w)' = IF IsFirst(Taken(w)) THEN Own(w) \o <<FlowControl>> ELSE Own(w)
    BY <1>2, <1>3, <2>1, FlowControlType
  <2>4. Feeds(w) /\ ~Handling(w)
    BY <1>4, <2>1, <2>2, <2>3 DEF Feeds, Handling
  <2>5. QED
    BY <2>1, <2>4
<1>6. CASE FeedFails(w)
  <2>1. pc[w] = "get" /\ queue[w] # <<>> /\ Taken(w).t = "FFcut" /\ store' = store
    BY <1>6 DEF FeedFails, FeedRaises, TakeNext
  <2>2. ~Completes(asm[w], Taken(w))
    BY <2>1, IgnoresOther DEF Ignores
  <2>3. QED
    BY <2>1, <2>2 DEF Puzzled, Handling
<1>7. CASE Handle(w) \/ HandleSilently(w) \/ HandleFails(w)
  <2> DEFINE p == Reply(w, Got(w))
  <2>1. Feed(w) /\ Completes(asm[w], Taken(w)) /\ store' = Stored(w, Got(w))
    BY <1>7 DEF Handle, HandleSilently, HandleFails
  <2>2. pc[w] = "get" /\ TakeNext(w) /\ asm'[w] = Fed(asm[w], Taken(w))
    BY <1>0, <2>1 DEF Feed
  <2>3. Handling(w) /\ Takes(w)
    BY <1>4, <2>1, <2>2 DEF Handling, Takes
  <2>4. CASE HandleSilently(w)
    BY <2>1, <2>2, <2>3, <2>4 DEF HandleSilently, Answers, Replies
  <2>5. CASE HandleFails(w)
    <3>1. ~Segmentable(p) /\ pc'[w] = "dead" /\ out'[w] = <<>> /\ txq' = txq
      BY <1>0, <2>5 DEF HandleFails, Die, Goto
    <3>2. QED
      BY <1>2, <2>1, <2>2, <2>3, <3>1 DEF Answers, Replies
  <2>6. CASE Handle(w)
    <3>1. PICK fs \in Injected(Segment(p)) : Respond(w, fs)
      BY <2>6 DEF Handle
    <3>2. p \in Payload
      <4>1. Taken(w) \in Frame(Byte)
        BY <1>0, <2>2, TakeNextType
      <4>2. Got(w) \in Payload
        BY <1>0, <2>1, <4>1, PayloadType DEF Got
      <4>3. QED
        BY <1>0, <4>2, UdsReplyType, S77ReplyType DEF Reply
    <3>3. fs \in Seq(Frame(Byte)) /\ fs # <<>>
      BY <3>1, <3>2, SegmentType, InjectedType
    <3>4. fs[1] \in Frame(Byte)
      BY <3>3, RestType
    <3>5. /\ Send(w, fs[1]) /\ out'[w] = Tail(fs)
          /\ IF Len(fs) = 1 THEN pc'[w] \in {"single", "get"}
                            ELSE pc'[w] \in {"first", "fc"}
      BY <1>0, <3>1 DEF Respond, Goto
    <3>6. txq'[Len(txq')].f = fs[1]
      BY <1>0, <3>4, <3>5, LastSent
    <3>7. Replies(w, p)
      BY <1>3, <3>1, <3>4, <3>5, <3>6 DEF Replies
    <3>8. QED
      BY <2>1, <2>2, <2>3, <3>7 DEF Answers
  <2>7. QED
    BY <1>7, <2>4, <2>5, <2>6
<1>8. CASE Wake(w)
  <2>1. /\ pc[w] \in {"single", "first"} /\ UNCHANGED <<store, queue, asm, out, txq>>
        /\ pc'[w] = IF pc[w] = "single" THEN "get" ELSE "fc"
    BY <1>0, <1>8 DEF Wake, Goto
  <2>2. QED
    BY <1>2, <2>1 DEF Woken, Rests, Handling
<1>9. CASE NextCF(w)
  <2>1. pc[w] = "cf" /\ UNCHANGED <<store, queue, asm>>
    BY <1>9 DEF NextCF
  <2>2. CASE out[w] = <<>>
    <3>1. pc'[w] = "get" /\ out' = out /\ txq' = txq
      BY <1>0, <1>9, <2>2 DEF NextCF, Goto
    <3>2. QED
      BY <1>2, <2>1, <2>2, <3>1 DEF HasSent, Rests, Handling
  <2>3. CASE out[w] # <<>>
    <3>1. Send(w, Head(out[w])) /\ out'[w] = Tail(out[w]) /\ pc' = pc
      BY <1>0, <1>9, <2>3 DEF NextCF
    <3>2. Head(out[w]) \in Frame(Byte)
      BY <1>0, <2>3, RestType
    <3>3. QED
      BY <1>3, <2>1, <2>3, <3>1, <3>2 DEF SendsOn, Rests, Handling
  <2>4. QED
    BY <2>2, <2>3
<1>10. CASE TakeOther(w) \/ TakeFails(w)
  <2>1. /\ pc[w] = "fc" /\ queue[w] # <<>> /\ Taken(w).t # "FC" /\ store' = store
    BY <1>10 DEF TakeOther, TakeFails, TakeNext
  <2>2. QED
    BY <2>1 DEF Puzzled, Handling
<1>11. CASE TakeFC(w)
  <2>1. /\ pc[w] = "fc" /\ TakeNext(w) /\ Taken(w).t = "FC" /\ UNCHANGED <<store, asm>>
        /\ IF HasDelay
           THEN Send(w, Head(out[w])) /\ out'[w] = Tail(out[w]) /\ pc'[w] = "cf"
           ELSE SendAll(w, out[w]) /\ out'[w] = <<>> /\ pc'[w] = "get"
    BY <1>0, <1>11 DEF TakeFC, Goto
  <2>2. out[w] # <<>>
    BY <2>1 DEF STypeInv, TypeInv, PendingOK
  <2>3. Head(out[w]) \in Frame(Byte) /\ out[w] \in Seq(Frame(Byte))
    BY <1>0, <2>2, RestType
  <2>4. SendAll(w, out[w]) => Own(w)' = Own(w) \o out[w]
    BY <1>0, <1>1, <2>3, SeesAll
  <2>5. Grants(w)
    BY <1>3, <1>4, <2>1, <2>3, <2>4 DEF Grants
  <2>6. QED
    BY <2>1, <2>5 DEF Handling
<1>12. QED
  BY <1>5, <1>6, <1>7, <1>8, <1>9, <1>10, <1>11 DEF Work

LEMMA TimeoutEffects ==
  ASSUME STypeInv, NEW w \in Worker, TimeoutFC(w)
  PROVE  TimesOut(w) /\ store' = store
<1>1. /\ pc[w] = "fc" /\ UNCHANGED <<store, queue, asm, txq>>
      /\ pc'[w] = "get" /\ out'[w] = <<>>
  BY DEF STypeInv, TypeInv, TypeOK, TimeoutFC, Goto
<1>2. QED
  BY <1>1 DEF TimesOut, Rests, Own

\* The reply to a whole request is understood.
LEMMA AnswerGiven ==
  ASSUME STypeInv, NEW w \in Worker, NEW r \in Requests[w],
         NEW p, p = Reply(w, Encoded(w, r))
  PROVE  p \in Payload \ {<<>>} /\ Decoded(p) # NoAnswer
<1>1. p \in Payload
  <2>1. Encoded(w, r) \in Payload
    BY EncodedIs
  <2>2. QED
    BY <2>1, UdsReplyType, S77ReplyType DEF Reply, STypeInv, TypeInv, TypeOK
<1>2. CASE r.did \in Known /\ p = <<"62", r.did>> \o store[r.did]
  <2> DEFINE h == <<"62", r.did>>  v == store[r.did]
  <2>1. r.did \in Byte /\ "62" \in Byte
    BY RequestKinds DEF Byte, HeaderByte
  <2>2. v \in Seq(Byte)
    BY <1>2 DEF STypeInv, TypeInv, TypeOK, Store, Payload
  <2>3. h \in Seq(Byte) /\ Len(h) = 2 /\ h[1] = "62" /\ h # <<>>
    BY <2>1
  <2> HIDE DEF h, v
  <2>4. p # <<>> /\ p[1] = "62"
    <3>1. h \o v # <<>> /\ \A i \in 1 .. Len(h) : (h \o v)[i] = h[i]
      BY <2>2, <2>3, HeaderThen
    <3>2. QED
      BY <1>2, <2>3, <3>1 DEF h, v
  <2>5. QED
    BY <1>1, <2>4 DEF Decoded, NoAnswer
<1>3. CASE p = <<"6E", r.did>> \/ p = <<"77", r.ctr, "44">>
  <2>1. ASSUME p = <<"6E", r.did>>
        PROVE  p # <<>> /\ p[1] \in {"6E", "77"}
    <3>1. p # <<>> /\ p[1] = "6E"
      BY <2>1
    <3>2. QED
      BY <3>1
  <2>2. ASSUME p = <<"77", r.ctr, "44">>
        PROVE  p # <<>> /\ p[1] \in {"6E", "77"}
    <3>1. p # <<>> /\ p[1] = "77"
      BY <2>2
    <3>2. QED
      BY <3>1
  <2>3. p # <<>> /\ p[1] \in {"6E", "77"}
    BY <1>3, <2>1, <2>2
  <2>4. QED
    BY <1>1, <2>3 DEF Decoded, NoAnswer
<1>4. CASE \E sid, nrc \in Byte : p = Negative(sid, nrc)
  <2>1. p # <<>> /\ p[1] = "7F"
    BY <1>4 DEF Negative
  <2>2. QED
    BY <1>1, <2>1 DEF Decoded, NoAnswer
<1>5. QED
  BY <1>2, <1>3, <1>4, RequestAnswered

-----------------------------------------------------------------------------
\* What happens on the way to a tester in a step that is none of its call's:
\* nothing, blanks are added, or a frame of a certain type goes: a blank, in a
\* step of the other session, or a leftover.
Shifts(m, n, K) ==
  \/ n = m
  \/ \E bs \in Seq(Frame(Byte)) : Only(bs, {"empty"}) /\ n = m \o bs
  \/ m # <<>> /\ n = Tail(m) /\ Head(m).t \in K

BlankStep(m, n) == Shifts(m, n, {"empty"})

LateStep(m, n) == Shifts(m, n, Late)

LEMMA BlankIsLate ==
  ASSUME NEW m, NEW n, BlankStep(m, n)
  PROVE  LateStep(m, n)
BY DEF BlankStep, LateStep, Shifts, Late

LEMMA LateStepKeeps ==
  ASSUME NEW m \in Seq(Frame(Byte)), NEW n, LateStep(m, n)
  PROVE  /\ n \in Seq(Frame(Byte))
         /\ \A K : "empty" \in K /\ Only(m, K) => Only(n, K)
         /\ \A i : Ends(m, i) /\ m[i].t \notin Late =>
              \E j : Ends(n, j) /\ n[j] = m[i]
         /\ \A P, a, o : Whole(P) /\ SentRuns(P, a, m, o) => SentRuns(P, a, n, o)
<1>1. CASE n = m
  BY <1>1, Zenon
<1>2. CASE \E bs \in Seq(Frame(Byte)) : Only(bs, {"empty"}) /\ n = m \o bs
  <2>1. PICK bs \in Seq(Frame(Byte)) : Only(bs, {"empty"}) /\ n = m \o bs
    BY <1>2
  <2>2. n \in Seq(Frame(Byte))
    BY <2>1, ConcatProperties
  <2>3. ASSUME NEW K, "empty" \in K, Only(m, K)
        PROVE  Only(n, K)
    <3>1. Only(bs, K)
      BY <2>1, <2>3, OnlyMore
    <3>2. QED
      BY <2>1, <2>3, <3>1, OnlyConcat
  <2>4. ASSUME NEW i, Ends(m, i)
        PROVE  Ends(n, i) /\ n[i] = m[i]
    BY <2>1, <2>4, EndsBlank
  <2>5. ASSUME NEW P, NEW a, NEW o, Whole(P), SentRuns(P, a, m, o)
        PROVE  SentRuns(P, a, n, o)
    <3>1. \A j \in 1 .. Len(bs) : bs[j].t \notin {"SF", "FF", "CF"}
      BY <2>1 DEF Only
    <3>2. QED
      BY <2>1, <2>5, <3>1, SendsOther
  <2>6. QED
    BY <2>2, <2>3, <2>4, <2>5
<1>3. CASE m # <<>> /\ n = Tail(m) /\ Head(m).t \in Late
  <2>1. n \in Seq(Frame(Byte))
    BY <1>3, HeadTailProperties
  <2>2. ASSUME NEW K, Only(m, K)
        PROVE  Only(n, K)
    BY <1>3, <2>2, OnlyTail
  <2>3. ASSUME NEW i, Ends(m, i), m[i].t \notin Late
        PROVE  Ends(n, i - 1) /\ n[i - 1] = m[i]
    BY <1>3, <2>3, EndsTail
  <2>4. ASSUME NEW P, NEW a, NEW o, Whole(P), SentRuns(P, a, m, o)
        PROVE  SentRuns(P, a, n, o)
    <3>1. Head(m).t \notin {"SF", "FF"}
      BY <1>3 DEF Late
    <3>2. QED
      BY <1>3, <2>4, <3>1, RunsDrop DEF SentRuns
  <2>5. QED
    BY <2>1, <2>2, <2>3, <2>4
<1>4. QED
  BY <1>1, <1>2, <1>3 DEF LateStep, Shifts

\* Nothing else changes in the session of w.
Stays(w) ==
  /\ queue'[w] = queue[w] /\ asm'[w] = asm[w] /\ pc'[w] = pc[w] /\ out'[w] = out[w]
  /\ phase'[w] = phase[w] /\ req'[w] = req[w] /\ todo'[w] = todo[w]
  /\ tasm'[w] = tasm[w] /\ got'[w] = got[w]
  /\ ans'[w] = ans[w] /\ faulted'[w] = faulted[w]

LEMMA PayloadWhole ==
  ASSUME NEW p \in Payload \ {<<>>}
  PROVE  Whole({p})
BY DEF Whole

LEMMA StaysInOrder ==
  ASSUME STypeInv, NEW w \in Worker, InOrder(w), Stays(w), LateStep(Own(w), Own(w)')
  PROVE  InOrder(w)'
<1> DEFINE m == Own(w)  n == Own(w)'
<1>1. m \in Seq(Frame(Byte))
  BY MineIs DEF Own, STypeInv, TypeInv, TypeOK
<1>2. /\ \A K : "empty" \in K /\ Only(m, K) => Only(n, K)
      /\ \A i : Ends(m, i) /\ m[i].t \notin Late =>
           \E j : Ends(n, j) /\ n[j] = m[i]
      /\ \A P, a, o : Whole(P) /\ SentRuns(P, a, m, o) => SentRuns(P, a, n, o)
  BY <1>1, LateStepKeeps
<1>3. /\ Only(m, Late) => Only(n, Late)
      /\ Only(m, NotCF) => Only(n, NotCF)
      /\ Only(m, {"empty"}) => Only(n, {"empty"})
  <2>1. "empty" \in Late /\ "empty" \in NotCF
    BY DEF Late, NotCF
  <2>2. QED
    BY <1>2, <2>1
<1>4. CleanRest(w) => CleanRest(w)'
  BY <1>2, PayloadWhole DEF CleanRest, Stays
<1>5. Quiet(w) => Quiet(w)'
  BY <1>3 DEF Quiet, Stays
<1> HIDE DEF m, n
<1>6. CASE IdleStage(w)
  BY <1>3, <1>5, <1>6 DEF InOrder, IdleStage, Stays, m, n
<1>7. CASE OfferStage(w)
  <2>1. (\E i : Ends(m, i) /\ m[i].t = "FC") => \E i : Ends(n, i) /\ n[i].t = "FC"
    BY <1>2 DEF Late
  <2>2. QED
    BY <1>3, <1>5, <1>7, <2>1 DEF InOrder, OfferStage, Stays, Asks, m, n
<1>8. CASE AskedStage(w)
  BY <1>3, <1>5, <1>8 DEF InOrder, AskedStage, Stays, Asks, m, n
<1>9. CASE OpenedStage(w)
  <2>1. ASSUME NEW i, Ends(m, i), m[i].t \in {"SF", "FF"},
               m[i].t = "SF" => pc[w] \notin {"first", "fc"}, CleanFirst(w, m[i])
        PROVE  \E j : /\ Ends(n, j) /\ n[j].t \in {"SF", "FF"}
                      /\ n[j].t = "SF" => pc'[w] \notin {"first", "fc"}
                      /\ ~faulted'[w] =>
                           \E p \in Payload \ {<<>>} :
                             /\ Decoded(p) = ans'[w] /\ n[j] = Segment(p)[1]
                             /\ pc'[w] \in {"first", "fc"} => out'[w] = Tail(Segment(p))
    <3>1. PICK j : Ends(n, j) /\ n[j] = m[i]
      BY <1>2, <2>1 DEF Late
    <3>2. QED
      BY <2>1, <3>1 DEF CleanFirst, Stays
  <2>2. QED
    BY <1>3, <1>9, <2>1 DEF InOrder, OpenedStage, CleanFirst, Stays, m, n
<1>10. CASE GrantedStage(w)
  BY <1>3, <1>4, <1>10 DEF InOrder, GrantedStage, Stays, m, n
<1>11. CASE FlowingStage(w)
  BY <1>3, <1>4, <1>11 DEF InOrder, FlowingStage, Stays, m, n
<1>12. QED
  BY <1>6, <1>7, <1>8, <1>9, <1>10, <1>11 DEF InOrder

\* A first frame arrives, and blanks only after it: the rest can follow.
LEMMA FirstArrives ==
  ASSUME NEW p \in Payload \ {<<>>}, Segment(p)[1].t = "FF", NEW a,
         NEW n \in Seq(Frame(Byte)), Only(n, {"empty"})
  PROVE  SentRuns({p}, Fed(a, Segment(p)[1]), n, Tail(Segment(p)))
<1> DEFINE S == Segment(p)  b == Fed(a, S[1])  l == [p |-> p, i |-> 1]
<1>1. S \in Seq(Frame(Byte)) /\ S # <<>> /\ Len(S) \in Nat \ {0} /\ S[1].t # "SF"
  BY SegmentFrames
<1>2. Len(S) > 1
  <2>1. \A k \in Nat \ {0} : k = 1 \/ k > 1
    OBVIOUS
  <2>2. Len(S) = 1 \/ Len(S) > 1
    BY <1>1, <2>1, Zenon
  <2>3. QED
    BY <1>1, <2>2, SegmentFrames
<1>3. InStep(b, p, 1)
  BY <1>2, FirstStarts
<1>4. l \in Labels({p}) /\ l.p = p /\ l.i = 1
  BY DEF Labels
<1>5. Tail(S) = SubSeq(S, 2, Len(S))
  BY <1>1, TailIsSubSeq
<1> HIDE DEF b, l
<1>6. Runs({p}, b, <<>>, l)
  <2> DEFINE L == [j \in 0 .. 0 |-> l]
  <2>1. L \in [0 .. 0 -> Labels({p})] /\ L[0] = l
    BY <1>4
  <2>2. Len(<<>>) = 0 /\ Follows(b, L[0])
    BY <1>3, <1>4, <2>1, EmptySeq DEF Follows
  <2> HIDE DEF L
  <2>3. \A j \in 1 .. 0 : Comes(L[j - 1], <<>>[j], L[j])
    OBVIOUS
  <2>4. QED
    BY <2>1, <2>2, <2>3 DEF Runs
<1>7. Runs({p}, b, n, l)
  <2> DEFINE e == <<>>
  <2>1. e \in Seq(Frame(Byte)) /\ \A j \in 1 .. Len(n) : n[j].t \notin {"SF", "FF", "CF"}
    BY DEF Only
  <2>2. Runs({p}, b, e, l)
    BY <1>6
  <2>3. e \o n = n
    BY ConcatEmptySeq
  <2> HIDE DEF e
  <2>4. Runs({p}, b, e \o n, l)
    BY <2>1, <2>2, RunsOthers
  <2>5. QED
    BY <2>3, <2>4
<1>8. l.i >= 1 /\ l.i < Len(Segment(l.p)) /\ l.i + 1 = 2
      /\ Tail(S) = SubSeq(Segment(l.p), 2, Len(Segment(l.p)))
  BY <1>2, <1>4, <1>5
<1>9. SentRuns({p}, b, n, Tail(S))
  BY <1>4, <1>7, <1>8 DEF SentRuns
<1>10. QED
  BY <1>9 DEF b

\* The tester of w does nothing, and nothing new is answered.
Hushed(w) ==
  /\ phase'[w] = phase[w] /\ req'[w] = req[w] /\ todo'[w] = todo[w]
  /\ tasm'[w] = tasm[w] /\ got'[w] = got[w]

Unheard(w) == Hushed(w) /\ ans'[w] = ans[w] /\ faulted'[w] = faulted[w]

LEMMA OwnType ==
  ASSUME STypeInv, NEW w \in Worker
  PROVE  /\ Own(w) \in Seq(Frame(Byte)) /\ out[w] \in Seq(Frame(Byte))
         /\ queue[w] \in Seq(Frame(Byte)) /\ tasm[w] \in Assembler(Byte)
         /\ asm[w] \in Assembler(Byte)
BY MineIs DEF Own, STypeInv, TypeInv, TypeOK, TesterOK

LEMMA WokenInOrder ==
  ASSUME STypeInv, NEW w \in Worker, InOrder(w), Unheard(w), Woken(w) \/ HasSent(w)
  PROVE  InOrder(w)'
<1>1. /\ Own(w)' = Own(w) /\ queue'[w] = queue[w] /\ asm'[w] = asm[w] /\ out'[w] = out[w]
      /\ pc'[w] # "cf" /\ (pc'[w] \in {"first", "fc"} => pc[w] \in {"first", "fc"})
  BY DEF Woken, HasSent, Rests
<1>2. Quiet(w) => Quiet(w)'
  BY <1>1 DEF Quiet, Unheard, Hushed
<1>3. CleanRest(w) => CleanRest(w)'
  BY <1>1 DEF CleanRest, Unheard, Hushed
<1>4. CASE IdleStage(w)
  BY <1>1, <1>2, <1>4 DEF InOrder, IdleStage, Unheard, Hushed
<1>5. CASE OfferStage(w)
  BY <1>1, <1>2, <1>5 DEF InOrder, OfferStage, Asks, Unheard, Hushed
<1>6. CASE AskedStage(w)
  BY <1>1, <1>2, <1>6 DEF InOrder, AskedStage, Asks, Unheard, Hushed
<1>7. CASE OpenedStage(w)
  <2>1. \A i : CleanFirst(w, Own(w)[i]) => CleanFirst(w, Own(w)[i])'
    BY <1>1 DEF CleanFirst, Unheard, Hushed
  <2>2. QED
    BY <1>1, <1>7, <2>1 DEF InOrder, OpenedStage, Unheard, Hushed
<1>8. CASE GrantedStage(w)
  BY <1>1, <1>3, <1>8 DEF InOrder, GrantedStage, Unheard, Hushed
<1>9. CASE FlowingStage(w)
  <2>1. pc[w] \notin {"first", "fc"}
    BY <1>9 DEF FlowingStage
  <2>2. QED
    BY <1>1, <1>3, <1>9, <2>1 DEF InOrder, FlowingStage, Unheard, Hushed
<1>10. QED
  BY <1>4, <1>5, <1>6, <1>7, <1>8, <1>9 DEF InOrder

LEMMA OnlyOne ==
  ASSUME NEW m \in Seq(Frame(Byte)), NEW f \in Frame(Byte), NEW K,
         f.t \in K, Only(m, K)
  PROVE  Only(m \o <<f>>, K)
<1>1. <<f>> \in Seq(Frame(Byte)) /\ Only(<<f>>, K)
  BY DEF Only
<1>2. QED
  BY <1>1, OnlyConcat

\* The sets of types that the stages speak of.
LEMMA TypeSets ==
  /\ "CF" \in Late /\ "empty" \in Late /\ "CF" \notin NotCF /\ {"empty"} \subseteq Late
  /\ {"SF", "FF", "FC", "empty"} \subseteq NotCF /\ {"empty"} \subseteq NotCF
  /\ Late = {"CF", "empty"}
BY DEF Late, NotCF

LEMMA SendsOnInOrder ==
  ASSUME STypeInv, NEW w \in Worker, InOrder(w), Unheard(w), SendsOn(w)
  PROVE  InOrder(w)'
<1> DEFINE m == Own(w)  f == Head(out[w])  n == m \o <<f>>
<1>1. /\ pc[w] = "cf" /\ pc'[w] = "cf" /\ queue'[w] = queue[w] /\ asm'[w] = asm[w]
      /\ Own(w)' = n /\ out'[w] = Tail(out[w]) /\ out[w] # <<>>
  BY DEF SendsOn, Rests
<1>2. m \in Seq(Frame(Byte)) /\ out[w] \in Seq(Frame(Byte)) /\ f \in Frame(Byte)
  BY <1>1, OwnType, RestType
<1>3. Only(out'[w], {"CF"}) /\ f.t = "CF"
  BY <1>1, <1>2, OnlyTail DEF InOrder
<1>4. Only(m, Late) => Only(n, Late)
  BY <1>2, <1>3, OnlyOne, TypeSets
<1>5. Quiet(w) => tasm[w].on # TRUE /\ Quiet(w)'
  BY <1>1 DEF Quiet, Unheard, Hushed
<1>6. CleanRest(w) => CleanRest(w)'
  <2>1. ASSUME NEW p \in Payload \ {<<>>}, SentRuns({p}, tasm[w], m, out[w])
        PROVE  SentRuns({p}, tasm[w], n, out'[w])
    BY <1>1, <1>2, <2>1, PayloadWhole, SendsNext
  <2>2. QED
    BY <1>1, <2>1 DEF CleanRest, Unheard, Hushed
<1> HIDE DEF m, n
<1>7. CASE IdleStage(w)
  BY <1>1, <1>3, <1>4, <1>5, <1>7 DEF InOrder, IdleStage, Unheard, Hushed, m
<1>8. CASE OfferStage(w)
  BY <1>1, <1>3, <1>4, <1>5, <1>8 DEF InOrder, OfferStage, Asks, Unheard, Hushed, m
<1>9. CASE AskedStage(w)
  BY <1>1, <1>3, <1>4, <1>5, <1>9 DEF InOrder, AskedStage, Asks, Unheard, Hushed, m
<1>10. CASE OpenedStage(w) \/ GrantedStage(w)
  BY <1>1, <1>10 DEF OpenedStage, GrantedStage
<1>11. CASE FlowingStage(w)
  BY <1>1, <1>3, <1>4, <1>6, <1>11 DEF InOrder, FlowingStage, Unheard, Hushed, m
<1>12. QED
  BY <1>7, <1>8, <1>9, <1>10, <1>11 DEF InOrder

\* The request as the worker takes it from its queue.
LEMMA AskedParts ==
  ASSUME STypeInv, NEW w \in Worker, req[w] \in Requests[w],
         NEW k \in Nat, k < Len(Asks(w)),
         queue[w] = SubSeq(Asks(w), k + 1, Len(Asks(w))),
         k = 0 => Len(Asks(w)) = 1,
         k # 0 => InStep(asm[w], Encoded(w, req[w]), k)
  PROVE  /\ queue[w] # <<>> /\ Taken(w) = Asks(w)[k + 1]
         /\ Tail(queue[w]) = SubSeq(Asks(w), (k + 1) + 1, Len(Asks(w)))
         /\ Taken(w).t \in {"SF", "CF"}
         /\ Completes(asm[w], Taken(w)) =>
              Got(w) = Encoded(w, req[w]) /\ Tail(queue[w]) = <<>>
         /\ ~Completes(asm[w], Taken(w)) =>
              /\ k + 1 < Len(Asks(w)) /\ ~IsFirst(Taken(w))
              /\ InStep(Fed(asm[w], Taken(w)), Encoded(w, req[w]), k + 1)
<1> DEFINE p == Encoded(w, req[w])  S == Asks(w)  n == Len(S)
<1>1. p \in Payload /\ p # <<>>
  BY EncodedIs
<1>2. S = Segment(p) /\ S \in Seq(Frame(Byte)) /\ n \in Nat \ {0}
  BY <1>1, SegmentFrames DEF Asks
<1>3. k \in 0 .. n /\ k < n /\ k + 1 \in 0 .. n /\ (k + 1) + 1 = k + 2
      /\ (k + 1 = n \/ k + 1 < n)
  <2> HIDE DEF n
  <2>1. k < n
    BY DEF n
  <2>2. QED
    BY <1>2, <2>1
<1>4. /\ queue[w] # <<>> /\ Taken(w) = S[k + 1]
      /\ Tail(queue[w]) = SubSeq(S, k + 2, n)
  <2>1. queue[w] = SubSeq(S, k + 1, n)
    OBVIOUS
  <2> HIDE DEF S
  <2>2. /\ SubSeq(S, k + 1, n) = <<>> <=> k = n
        /\ Head(SubSeq(S, k + 1, n)) = S[k + 1]
        /\ Tail(SubSeq(S, k + 1, n)) = SubSeq(S, k + 2, n)
    BY <1>2, <1>3, Suffix
  <2>3. k # n
    BY <1>2, <1>3
  <2>4. QED
    BY <2>1, <2>2, <2>3 DEF Taken
<1>5. k + 1 = n => SubSeq(S, k + 2, n) = <<>>
  BY <1>2, <1>3, Suffix
<1>6. CASE k = 0
  <2>1. n = 1 /\ k + 1 = n /\ k + 1 = 1
    BY <1>6
  <2>2. Completes(asm[w], S[1]) /\ PayloadOf(asm[w], S[1]) = p /\ S[1].t = "SF"
    BY <1>1, <1>2, <2>1, SingleCompletes, SegmentFrames
  <2>3. QED
    BY <1>3, <1>4, <1>5, <2>1, <2>2 DEF Got
<1>7. CASE k # 0
  <2>1. InStep(asm[w], p, k)
    BY <1>7
  <2>2. /\ k + 1 < n =>
             ~Completes(asm[w], S[k + 1]) /\ InStep(Fed(asm[w], S[k + 1]), p, k + 1)
        /\ k + 1 = n => Completes(asm[w], S[k + 1]) /\ PayloadOf(asm[w], S[k + 1]) = p
        /\ S[k + 1].t = "CF"
    BY <1>1, <1>2, <2>1, NextInStep
  <2>3. ~IsFirst(S[k + 1])
    BY <2>2 DEF IsFirst
  <2>4. QED
    BY <1>3, <1>4, <1>5, <2>2, <2>3 DEF Got
<1>8. QED
  BY <1>6, <1>7

LEMMA FirstAsked ==
  ASSUME NEW w \in Worker, req[w] \in Requests[w],
         Len(Asks(w)) > 1, queue[w] = <<Asks(w)[1]>>
  PROVE  /\ Taken(w) = Asks(w)[1] /\ Tail(queue[w]) = <<>> /\ Taken(w).t = "FF"
         /\ IsFirst(Taken(w)) /\ ~Completes(asm[w], Taken(w))
         /\ InStep(Fed(asm[w], Taken(w)), Encoded(w, req[w]), 1)
<1> DEFINE p == Encoded(w, req[w])
<1>1. p \in Payload /\ p # <<>>
  BY EncodedIs
<1>2. Len(Segment(p)) > 1 /\ Asks(w) = Segment(p)
  BY DEF Asks
<1>3. Taken(w) = Asks(w)[1] /\ Tail(queue[w]) = <<>>
  BY DEF Taken
<1>4. Segment(p)[1].t = "FF"
  BY <1>1, <1>2, SegmentFrames
<1>5. /\ IsFirst(Segment(p)[1]) /\ ~Completes(asm[w], Segment(p)[1])
      /\ InStep(Fed(asm[w], Segment(p)[1]), p, 1)
  BY <1>1, <1>2, FirstStarts
<1>6. Taken(w) = Segment(p)[1]
  BY <1>2, <1>3
<1>7. QED
  BY <1>3, <1>4, <1>5, <1>6, Zenon

LEMMA GrantTaken ==
  ASSUME NEW w \in Worker, queue[w] = <<FlowControl>>
  PROVE  /\ Taken(w).t = "FC" /\ Tail(queue[w]) = <<>>
         /\ Ignores(asm[w], Taken(w)) /\ ~IsFirst(Taken(w))
<1>1. Taken(w) = FlowControl /\ FlowControl.t = "FC" /\ Tail(queue[w]) = <<>>
  BY DEF Taken, FlowControl
<1>2. QED
  BY <1>1, IgnoresOther

LEMMA FeedsInOrder ==
  ASSUME STypeInv, NEW w \in Worker, InOrder(w), Unheard(w), Feeds(w)
  PROVE  InOrder(w)'
<1> DEFINE m == Own(w)  n == Own(w)'  t == Taken(w)
<1>1. /\ pc[w] = "get" /\ pc'[w] = "get" /\ queue[w] # <<>> /\ queue'[w] = Tail(queue[w])
      /\ ~Completes(asm[w], t) /\ asm'[w] = Fed(asm[w], t) /\ out'[w] = out[w]
      /\ n = IF IsFirst(t) THEN m \o <<FlowControl>> ELSE m
  BY DEF Feeds, Takes
<1>2. m \in Seq(Frame(Byte)) /\ FlowControl \in Frame(Byte) /\ FlowControl.t = "FC"
  BY OwnType, FlowControlType DEF FlowControl
<1>3. Only(m, NotCF) => Only(n, NotCF)
  BY <1>1, <1>2, OnlyOne, TypeSets
<1>4. Quiet(w) => Quiet(w)'
  BY <1>1, <1>3 DEF Quiet, Unheard, Hushed
<1> HIDE DEF m, n, t
<1>5. CASE OfferStage(w)
  <2>1. /\ phase[w] = "offer" /\ ans[w] = NoAnswer /\ Quiet(w) /\ req[w] \in Requests[w]
        /\ Len(Asks(w)) > 1 /\ todo[w] = Tail(Asks(w)) /\ Only(m, Late)
        /\ queue[w] = <<Asks(w)[1]>>
    BY <1>1, <1>5 DEF OfferStage, m
  <2>2. /\ queue'[w] = <<>> /\ IsFirst(t)
        /\ InStep(asm'[w], Encoded(w, req[w]), 1)
    BY <1>1, <2>1, FirstAsked DEF t
  <2>3. \E i : Ends(n, i) /\ n[i].t = "FC"
    <3>1. n = m \o <<FlowControl>> /\ m \in Seq(Frame(Byte))
      BY <1>1, <1>2, <2>2
    <3>2. \E i : Ends(m \o <<FlowControl>>, i) /\ (m \o <<FlowControl>>)[i] = FlowControl
      BY <1>2, <2>1, <3>1, EndsAppend
    <3>3. QED
      BY <1>2, <3>1, <3>2
  <2>4. OfferStage(w)'
    BY <1>1, <1>4, <2>1, <2>2, <2>3 DEF OfferStage, Asks, Unheard, Hushed, n
  <2>5. QED
    BY <1>1, <2>4 DEF InOrder
<1>6. CASE AskedStage(w)
  <2>1. /\ phase[w] = "await" /\ ans[w] = NoAnswer /\ Quiet(w) /\ req[w] \in Requests[w]
        /\ Only(m, Late)
    BY <1>6 DEF AskedStage, m
  <2>2. PICK k \in Nat :
          /\ k < Len(Asks(w)) /\ queue[w] = SubSeq(Asks(w), k + 1, Len(Asks(w)))
          /\ k = 0 => Len(Asks(w)) = 1
          /\ k # 0 => InStep(asm[w], Encoded(w, req[w]), k)
    BY <1>6 DEF AskedStage
  <2>3. /\ queue'[w] = SubSeq(Asks(w), (k + 1) + 1, Len(Asks(w)))
        /\ k + 1 < Len(Asks(w)) /\ ~IsFirst(t)
        /\ InStep(asm'[w], Encoded(w, req[w]), k + 1)
    BY <1>1, <2>1, <2>2, AskedParts DEF t
  <2>4. k + 1 \in Nat /\ k + 1 # 0 /\ n = m
    BY <1>1, <2>3
  <2>5. AskedStage(w)'
    BY <1>1, <1>4, <2>1, <2>3, <2>4 DEF AskedStage, Asks, Unheard, Hushed, m, n
  <2>6. QED
    BY <1>1, <2>5 DEF InOrder
<1>7. CASE GrantedStage(w)
  <2>1. /\ phase[w] = "await" /\ ans[w] # NoAnswer /\ queue[w] = <<FlowControl>>
        /\ Only(m, {"empty"})
    BY <1>7 DEF GrantedStage, m
  <2>2. queue'[w] = <<>> /\ n = m
    BY <1>1, <2>1, GrantTaken DEF t
  <2>3. Only(m, Late) /\ Only(m, NotCF)
    BY <2>1, TypeSets, OnlyMore
  <2>4. OpenedStage(w)'
    BY <1>1, <2>1, <2>2, <2>3 DEF OpenedStage, Unheard, Hushed, m, n
  <2>5. QED
    BY <1>1, <2>4 DEF InOrder
<1>8. CASE IdleStage(w) \/ OpenedStage(w) \/ FlowingStage(w)
  BY <1>1, <1>8 DEF IdleStage, OpenedStage, FlowingStage
<1>9. QED
  BY <1>5, <1>6, <1>7, <1>8 DEF InOrder

LEMMA GrantsInOrder ==
  ASSUME STypeInv, NEW w \in Worker, InOrder(w), Unheard(w), Grants(w)
  PROVE  InOrder(w)'
<1> DEFINE m == Own(w)  n == Own(w)'  o == out[w]
<1>1. /\ pc[w] = "fc" /\ queue[w] # <<>> /\ queue'[w] = Tail(queue[w])
      /\ pc'[w] \in {"cf", "get"}
      /\ \/ n = m \o <<Head(o)>> /\ out'[w] = Tail(o)
         \/ n = m \o o /\ out'[w] = <<>>
  BY DEF Grants, Takes
<1>2. GrantedStage(w)
  BY <1>1 DEF InOrder, IdleStage, OfferStage, AskedStage, OpenedStage, FlowingStage, Quiet
<1>3. /\ phase[w] = "await" /\ ans[w] # NoAnswer /\ queue[w] = <<FlowControl>>
      /\ Only(m, {"empty"}) /\ CleanRest(w) /\ Only(o, {"CF"})
  BY <1>1, <1>2 DEF GrantedStage, InOrder
<1>4. o # <<>>
  BY <1>1 DEF STypeInv, TypeInv, PendingOK
<1>5. m \in Seq(Frame(Byte)) /\ o \in Seq(Frame(Byte)) /\ Head(o) \in Frame(Byte)
  BY <1>4, OwnType, RestType
<1>6. queue'[w] = <<>>
  BY <1>1, <1>3, GrantTaken
<1>7. Only(m, Late) /\ Only(o, Late) /\ Head(o).t = "CF" /\ Only(Tail(o), {"CF"})
  <2>1. {"CF"} \subseteq Late
    BY TypeSets
  <2>2. QED
    BY <1>3, <1>4, <1>5, <2>1, TypeSets, OnlyMore, OnlyTail
<1>8. Only(out'[w], {"CF"})
  <2>1. Only(<<>>, {"CF"})
    BY DEF Only
  <2>2. QED
    BY <1>1, <1>7, <2>1
<1>9. Only(n, Late)
  <2>1. Only(m \o o, Late)
    BY <1>5, <1>7, OnlyConcat
  <2>2. Only(m \o <<Head(o)>>, Late)
    BY <1>5, <1>7, OnlyOne, TypeSets
  <2>3. QED
    BY <1>1, <2>1, <2>2
<1>10. ASSUME NEW p \in Payload \ {<<>>}, SentRuns({p}, tasm[w], m, o)
       PROVE  SentRuns({p}, tasm[w], n, out'[w])
  <2>1. Whole({p})
    BY PayloadWhole
  <2>2. SentRuns({p}, tasm[w], m \o <<Head(o)>>, Tail(o))
    BY <1>4, <1>5, <1>10, <2>1, SendsNext
  <2>3. SentRuns({p}, tasm[w], m \o o, <<>>)
    BY <1>4, <1>5, <1>10, <2>1, SendsRest
  <2>4. QED
    BY <1>1, <2>2, <2>3
<1>11. CleanRest(w)'
  BY <1>3, <1>10 DEF CleanRest, Unheard, Hushed
<1> HIDE DEF m, n, o
<1>12. FlowingStage(w)'
  BY <1>1, <1>3, <1>6, <1>9, <1>11 DEF FlowingStage, Unheard, Hushed, n
<1>13. QED
  BY <1>8, <1>12 DEF InOrder

\* Flow control fails to come only when nothing is under way any more.
LEMMA TimesOutInOrder ==
  ASSUME STypeInv, NEW w \in Worker, InOrder(w), Unheard(w), TimesOut(w),
         queue[w] = <<>>, Only(Own(w), {"empty"})
  PROVE  InOrder(w)'
<1>1. /\ pc[w] = "fc" /\ pc'[w] = "get" /\ queue'[w] = <<>> /\ Own(w)' = Own(w)
      /\ out'[w] = <<>>
  BY DEF TimesOut, Rests
<1>2. phase[w] = "await" /\ ans[w] # NoAnswer
  BY <1>1
  DEF InOrder, IdleStage, OfferStage, AskedStage, OpenedStage, GrantedStage, FlowingStage, Quiet
<1>3. Only(Own(w), Late) /\ Only(Own(w), NotCF)
  BY TypeSets, OnlyMore
<1>4. OpenedStage(w)'
  BY <1>1, <1>2, <1>3 DEF OpenedStage, Unheard, Hushed
<1>5. Only(<<>>, {"CF"})
  BY DEF Only
<1>6. QED
  BY <1>1, <1>4, <1>5 DEF InOrder

\* No worker ever takes a frame that it does not expect.
LEMMA NeverPuzzled ==
  ASSUME STypeInv, NEW w \in Worker, InOrder(w)
  PROVE  ~Puzzled(w)
<1> SUFFICES ASSUME Puzzled(w) PROVE FALSE
  OBVIOUS
<1>1. /\ queue[w] # <<>>
      /\ \/ pc[w] = "fc" /\ Taken(w).t # "FC"
         \/ pc[w] = "get" /\ Taken(w).t = "FFcut"
  BY DEF Puzzled
<1>2. CASE OfferStage(w)
  BY <1>1, <1>2, FirstAsked DEF OfferStage, Quiet
<1>3. CASE AskedStage(w)
  <2>1. Taken(w).t \in {"SF", "CF"} /\ pc[w] # "fc"
    BY <1>3, AskedParts DEF AskedStage, Quiet
  <2>2. QED
    BY <1>1, <2>1
<1>4. CASE GrantedStage(w)
  BY <1>1, <1>4, GrantTaken DEF GrantedStage
<1>5. CASE IdleStage(w) \/ OpenedStage(w) \/ FlowingStage(w)
  BY <1>1, <1>5 DEF IdleStage, OpenedStage, FlowingStage
<1>6. QED
  BY <1>2, <1>3, <1>4, <1>5 DEF InOrder

\* The handler gets the request of the current call, and its response opens.
LEMMA AnswersWhat ==
  ASSUME STypeInv, NEW w \in Worker, InOrder(w), Answers(w)
  PROVE  /\ phase[w] = "await" /\ ans[w] = NoAnswer /\ Quiet(w) /\ Only(Own(w), Late)
         /\ req[w] \in Requests[w] /\ Got(w) = Encoded(w, req[w]) /\ queue'[w] = <<>>
<1>1. /\ pc[w] = "get" /\ queue[w] # <<>> /\ Completes(asm[w], Taken(w))
      /\ queue'[w] = Tail(queue[w])
  BY DEF Answers, Handling, Takes
<1>2. CASE OfferStage(w)
  BY <1>1, <1>2, FirstAsked DEF OfferStage
<1>3. CASE AskedStage(w)
  <2>1. /\ phase[w] = "await" /\ ans[w] = NoAnswer /\ Quiet(w) /\ Only(Own(w), Late)
        /\ req[w] \in Requests[w]
    BY <1>3 DEF AskedStage
  <2>2. Got(w) = Encoded(w, req[w]) /\ Tail(queue[w]) = <<>>
    BY <1>1, <1>3, AskedParts DEF AskedStage
  <2>3. QED
    BY <1>1, <2>1, <2>2
<1>4. CASE GrantedStage(w)
  BY <1>1, <1>4, GrantTaken DEF GrantedStage, Ignores
<1>5. CASE IdleStage(w) \/ OpenedStage(w) \/ FlowingStage(w)
  BY <1>1, <1>5 DEF IdleStage, OpenedStage, FlowingStage
<1>6. QED
  BY <1>2, <1>3, <1>4, <1>5 DEF InOrder

LEMMA AnswersInOrder ==
  ASSUME STypeInv, NEW w \in Worker, InOrder(w), Answers(w), Hushed(w),
         ans'[w] = Decoded(Reply(w, Got(w))),
         faulted'[w] = ~SentClean(w, Reply(w, Got(w)))
  PROVE  InOrder(w)'
<1> DEFINE m == Own(w)  n == Own(w)'  p == Reply(w, Got(w))
<1>1. /\ phase[w] = "await" /\ ans[w] = NoAnswer /\ Quiet(w) /\ Only(m, Late)
      /\ req[w] \in Requests[w] /\ Got(w) = Encoded(w, req[w]) /\ queue'[w] = <<>>
  BY AnswersWhat
<1>2. p \in Payload \ {<<>>} /\ Decoded(p) # NoAnswer
  BY <1>1, AnswerGiven
<1>3. m \in Seq(Frame(Byte))
  BY OwnType
<1>4. Replies(w, p) /\ pc[w] = "get"
  BY DEF Answers, Handling
<1>5. /\ phase'[w] = "await" /\ ans'[w] # NoAnswer
      /\ tasm'[w].on = TRUE => Only(m, NotCF)
      /\ ans'[w] = Decoded(p)
  BY <1>1, <1>2 DEF Hushed, Quiet
<1>6. CASE pc'[w] = "dead" /\ out'[w] = <<>> /\ n = m
  <2>1. OpenedStage(w)'
    BY <1>1, <1>5, <1>6 DEF OpenedStage
  <2>2. Only(out'[w], {"CF"})
    BY <1>6 DEF Only
  <2>3. QED
    BY <2>1, <2>2 DEF InOrder
<1>7. ASSUME NEW fs \in Injected(Segment(p)), n = m \o <<fs[1]>>,
             txq'[Len(txq')].f = fs[1], out'[w] = Tail(fs),
             IF Len(fs) = 1 THEN pc'[w] \in {"single", "get"} ELSE pc'[w] \in {"first", "fc"}
      PROVE  InOrder(w)'
  <2>1. fs \in Seq(Frame(Byte)) /\ fs # <<>> /\ Kinds(fs)
    BY <1>2, SegmentType, InjectedType, InjectedKinds
  <2>2. fs[1] \in Frame(Byte) /\ fs[1].t \in {"SF", "FF"} /\ (fs[1].t = "SF" => Len(fs) = 1)
    BY <2>1, RestType DEF Kinds
  <2>3. PICK i : Ends(n, i) /\ n[i] = fs[1]
    <3> DEFINE f == fs[1]
    <3>1. f \in Frame(Byte) /\ n = m \o <<f>>
      BY <1>7, <2>2
    <3> HIDE DEF f, m, n
    <3>2. \E i : Ends(m \o <<f>>, i) /\ (m \o <<f>>)[i] = f
      BY <1>1, <1>3, <3>1, EndsAppend
    <3>3. \E i : Ends(n, i) /\ n[i] = f
      BY <3>1, <3>2
    <3>4. QED
      BY <3>3 DEF f
  <2>4. Only(m, NotCF) => Only(n, NotCF)
    BY <1>3, <1>7, <2>2, OnlyOne, TypeSets
  <2>5. ~faulted'[w] => fs[1] = Segment(p)[1] /\ out'[w] = Tail(Segment(p))
    BY <1>7 DEF SentClean
  <2>6. Only(out'[w], {"CF"})
    <3> DEFINE u == Tail(fs)  k == Len(fs)
    <3>1. k \in Nat \ {0} /\ Len(u) = k - 1 /\ \A j \in 1 .. k - 1 : u[j] = fs[j + 1]
      BY <2>1, EmptySeq, HeadTailProperties
    <3>2. \A j \in 2 .. k : fs[j].t = "CF"
      BY <2>1 DEF Kinds
    <3> HIDE DEF u, k
    <3>3. \A j \in 1 .. k - 1 : j + 1 \in 2 .. k
      BY <3>1
    <3>4. Only(u, {"CF"})
      BY <3>1, <3>2, <3>3 DEF Only
    <3>5. QED
      BY <1>7, <3>4 DEF u
  <2>7. pc'[w] # "cf" /\ (fs[1].t = "SF" => pc'[w] \notin {"first", "fc"})
    BY <1>7, <2>2
  <2>8. ~faulted'[w] =>
          \E x \in Payload \ {<<>>} :
            /\ Decoded(x) = ans'[w] /\ n[i] = Segment(x)[1]
            /\ pc'[w] \in {"first", "fc"} => out'[w] = Tail(Segment(x))
    BY <1>2, <1>5, <2>3, <2>5
  <2> HIDE DEF m, n, p
  <2>9. OpenedStage(w)'
    BY <1>1, <1>5, <2>2, <2>3, <2>4, <2>7, <2>8 DEF OpenedStage, CleanFirst, n
  <2>10. QED
    BY <2>6, <2>9 DEF InOrder
<1>8. QED
  BY <1>2, <1>4, <1>6, <1>7 DEF Replies

-----------------------------------------------------------------------------
\* The next frame leaves the bus: that of one tester, blank for the other.
LEMMA PopsOwn ==
  ASSUME STypeInv, txq # <<>>, txq' = Tail(txq), NEW v \in Worker
  PROVE  /\ Own(v) # <<>> /\ Own(v)' = Tail(Own(v))
         /\ Head(txq).w = v => Head(Own(v)) = Arriving
         /\ Head(txq).w # v => BlankStep(Own(v), Own(v)')
<1>1. txq \in Seq(Sent)
  BY DEF STypeInv, TypeInv, TypeOK
<1>2. /\ Mine(v, txq) # <<>>
      /\ Head(txq).w = v => Head(Mine(v, txq)) = Head(txq).f
      /\ Head(txq).w # v => Head(Mine(v, txq)) = Blank
      /\ Tail(Mine(v, txq)) = Mine(v, Tail(txq))
  BY <1>1, MineTail
<1>3. Blank.t = "empty"
  BY DEF Blank
<1>4. QED
  BY <1>2, <1>3 DEF Own, Arriving, BlankStep, Shifts

\* A leftover or a blank makes no difference to the tester.
LEMMA LateIgnored ==
  ASSUME STypeInv, NEW w \in Worker, Own(w) # <<>>, Head(Own(w)).t \in Late,
         tasm[w].on = TRUE => Only(Own(w), NotCF)
  PROVE  Ignores(tasm[w], Head(Own(w))) /\ ~IsFirst(Head(Own(w)))
<1>1. Own(w) \in Seq(Frame(Byte)) /\ tasm[w].on \in BOOLEAN
  BY OwnType DEF Assembler
<1>2. CASE Head(Own(w)).t = "CF"
  <2>1. ~Only(Own(w), NotCF)
    BY <1>1, <1>2, OnlyTail, TypeSets
  <2>2. tasm[w].on = FALSE
    BY <1>1, <2>1
  <2>3. QED
    BY <1>2, <2>2, IdleIgnores
<1>3. CASE Head(Own(w)).t = "empty"
  BY <1>3, IgnoresOther
<1>4. QED
  BY <1>2, <1>3, TypeSets

\* What the head of the queue is when it is no leftover.
LEMMA HeadCases ==
  ASSUME STypeInv, NEW w \in Worker, InOrder(w), Own(w) # <<>>
  PROVE  \/ Head(Own(w)).t \in Late
         \/ /\ OfferStage(w) /\ queue[w] = <<>> /\ InStep(asm[w], Encoded(w, req[w]), 1)
            /\ pc[w] # "cf" /\ Head(Own(w)).t = "FC" /\ Only(Tail(Own(w)), {"empty"})
         \/ /\ OpenedStage(w) /\ Head(Own(w)).t \in {"SF", "FF"}
            /\ Head(Own(w)).t = "SF" => pc[w] \notin {"first", "fc"}
            /\ CleanFirst(w, Head(Own(w))) /\ Only(Tail(Own(w)), {"empty"})
<1> DEFINE m == Own(w)
<1>1. m \in Seq(Frame(Byte))
  BY OwnType
<1>2. Only(m, Late) \/ Only(m, {"empty"}) => Head(m).t \in Late
  BY <1>1, OnlyTail, TypeSets
<1>3. ASSUME NEW i, Ends(m, i)
      PROVE  \/ Head(m) = m[i] /\ Only(Tail(m), {"empty"})
             \/ Head(m).t \in Late
  BY <1>1, <1>3, EndsTail
<1> HIDE DEF m
<1>4. CASE IdleStage(w) \/ AskedStage(w) \/ GrantedStage(w) \/ FlowingStage(w)
  BY <1>2, <1>4 DEF IdleStage, AskedStage, GrantedStage, FlowingStage, m
<1>5. CASE OfferStage(w)
  <2>1. CASE Only(m, Late)
    BY <1>2, <2>1 DEF m
  <2>2. CASE ~Only(m, Late)
    <3>1. /\ queue[w] = <<>> /\ InStep(asm[w], Encoded(w, req[w]), 1) /\ pc[w] # "cf"
          /\ \E i : Ends(m, i) /\ m[i].t = "FC"
      BY <1>5, <2>2 DEF OfferStage, m
    <3>2. PICK i : Ends(m, i) /\ m[i].t = "FC"
      BY <3>1
    <3>3. QED
      BY <1>3, <1>5, <3>1, <3>2 DEF m
  <2>3. QED
    BY <2>1, <2>2
<1>6. CASE OpenedStage(w)
  <2>1. CASE Only(m, Late)
    BY <1>2, <2>1 DEF m
  <2>2. CASE ~Only(m, Late)
    <3>1. PICK i : /\ Ends(m, i) /\ m[i].t \in {"SF", "FF"}
                   /\ m[i].t = "SF" => pc[w] \notin {"first", "fc"}
                   /\ CleanFirst(w, m[i])
      BY <1>6, <2>2 DEF OpenedStage, m
    <3>2. QED
      BY <1>3, <1>6, <3>1 DEF m
  <2>3. QED
    BY <2>1, <2>2
<1>7. QED
  BY <1>4, <1>5, <1>6 DEF InOrder

\* Its tester's frame is lost.
LEMMA LoseInOrder ==
  ASSUME STypeInv, NEW w \in Worker, InOrder(w), Stays(w),
         Own(w) # <<>>, Own(w)' = Tail(Own(w))
  PROVE  InOrder(w)'
<1>0. Only(out'[w], {"CF"}) /\ Own(w) \in Seq(Frame(Byte))
  BY OwnType DEF InOrder, Stays
<1>1. CASE Head(Own(w)).t \in Late
  <2>1. LateStep(Own(w), Own(w)')
    BY <1>1 DEF LateStep, Shifts
  <2>2. QED
    BY <2>1, StaysInOrder
<1>2. ASSUME Only(Tail(Own(w)), {"empty"})
      PROVE  Only(Own(w)', Late) /\ Only(Own(w)', NotCF)
  BY <1>2, TypeSets, OnlyMore
<1>3. CASE /\ OfferStage(w) /\ queue[w] = <<>> /\ InStep(asm[w], Encoded(w, req[w]), 1)
           /\ Only(Tail(Own(w)), {"empty"})
  <2>1. OfferStage(w)'
    BY <1>2, <1>3 DEF OfferStage, Quiet, Asks, Stays
  <2>2. QED
    BY <1>0, <2>1 DEF InOrder
<1>4. CASE OpenedStage(w) /\ Only(Tail(Own(w)), {"empty"})
  <2>1. OpenedStage(w)'
    BY <1>2, <1>4 DEF OpenedStage, Stays
  <2>2. QED
    BY <1>0, <2>1 DEF InOrder
<1>5. QED
  BY <1>1, <1>3, <1>4, HeadCases

\* The device does nothing.
Idles(w) ==
  /\ asm'[w] = asm[w] /\ pc'[w] = pc[w] /\ out'[w] = out[w]
  /\ req'[w] = req[w] /\ ans'[w] = ans[w] /\ faulted'[w] = faulted[w]

\* Its tester gets flow control,
LEMMA ContinueInOrder ==
  ASSUME STypeInv, NEW w \in Worker, InOrder(w), Idles(w),
         Own(w) # <<>>, Own(w)' = Tail(Own(w)),
         phase[w] = "offer", Head(Own(w)).t = "FC",
         queue'[w] = queue[w] \o todo[w], phase'[w] = "await",
         tasm'[w] = tasm[w]
  PROVE  InOrder(w)'
<1>1. /\ OfferStage(w) /\ queue[w] = <<>> /\ InStep(asm[w], Encoded(w, req[w]), 1)
      /\ pc[w] # "cf" /\ Only(Tail(Own(w)), {"empty"})
  BY HeadCases, TypeSets
<1>2. /\ ans[w] = NoAnswer /\ Quiet(w) /\ req[w] \in Requests[w]
      /\ Len(Asks(w)) > 1 /\ todo[w] = Tail(Asks(w))
  BY <1>1 DEF OfferStage
<1>3. Only(Own(w)', Late) /\ Only(Own(w)', NotCF)
  BY <1>1, TypeSets, OnlyMore
<1>4. Quiet(w)'
  BY <1>2, <1>3 DEF Quiet, Idles
<1>5. Asks(w) \in Seq(Frame(Byte)) /\ Asks(w) # <<>> /\ Len(Asks(w)) \in Nat \ {0}
  <2>1. Encoded(w, req[w]) \in Payload /\ Encoded(w, req[w]) # <<>>
    BY <1>2, EncodedIs
  <2>2. QED
    BY <2>1, SegmentFrames DEF Asks
<1>6. queue'[w] = SubSeq(Asks(w), 2, Len(Asks(w)))
  <2> DEFINE u == todo[w]
  <2>1. u \in Seq(Frame(Byte)) /\ u = SubSeq(Asks(w), 2, Len(Asks(w)))
    BY <1>2, <1>5, TailIsSubSeq DEF STypeInv, TesterOK
  <2> HIDE DEF u
  <2>2. <<>> \o u = u
    BY <2>1, ConcatEmptySeq
  <2>3. QED
    BY <1>1, <2>1, <2>2 DEF u
<1>7. 1 \in Nat /\ 1 < Len(Asks(w)) /\ 1 + 1 = 2 /\ 1 # 0
  BY <1>2, <1>5
<1>8. AskedStage(w)'
  BY <1>1, <1>2, <1>3, <1>4, <1>6, <1>7 DEF AskedStage, Asks, Idles
<1>9. Only(out'[w], {"CF"})
  BY DEF InOrder, Idles
<1>10. QED
  BY <1>8, <1>9 DEF InOrder

\* a frame that was left over, which changes nothing,
LEMMA LeftoverStays ==
  ASSUME STypeInv, NEW w \in Worker, InOrder(w), Idles(w), ~FlowingStage(w),
         Own(w) # <<>>, Own(w)' = Tail(Own(w)), NEW h, h = Head(Own(w)), h.t \in Late,
         phase'[w] = phase[w], todo'[w] = todo[w], got'[w] = got[w],
         tasm'[w] = Fed(tasm[w], h),
         queue'[w] = IF IsFirst(h) THEN Append(queue[w], FlowControl) ELSE queue[w]
  PROVE  Stays(w) /\ LateStep(Own(w), Own(w)')
<1>1. (tasm[w].on = TRUE => Only(Own(w), NotCF)) \/ Only(Own(w), {"empty"})
  BY DEF InOrder, IdleStage, OfferStage, AskedStage, OpenedStage, GrantedStage, Quiet
<1>2. tasm[w].on = TRUE => Only(Own(w), NotCF)
  BY <1>1, TypeSets, OnlyMore
<1>3. Ignores(tasm[w], h) /\ ~IsFirst(h)
  BY <1>2, LateIgnored
<1>4. Stays(w)
  BY <1>3 DEF Stays, Idles, Ignores
<1>5. QED
  BY <1>4 DEF LateStep, Shifts

\* a frame that ends nothing,
LEMMA CollectInOrder ==
  ASSUME STypeInv, NEW w \in Worker, InOrder(w), Idles(w),
         Own(w) # <<>>, Own(w)' = Tail(Own(w)), NEW h, h = Head(Own(w)),
         phase[w] # "offer" \/ h.t # "FC", phase[w] # "await" \/ ~Completes(tasm[w], h),
         phase'[w] = phase[w], todo'[w] = todo[w], got'[w] = got[w],
         tasm'[w] = Fed(tasm[w], h),
         queue'[w] = IF IsFirst(h) THEN Append(queue[w], FlowControl) ELSE queue[w]
  PROVE  InOrder(w)'
<1>0. Only(out'[w], {"CF"}) /\ Own(w) \in Seq(Frame(Byte)) /\ out'[w] = out[w]
  BY OwnType DEF InOrder, Idles
<1>2. CASE h.t \in Late /\ ~FlowingStage(w)
  BY <1>2, LeftoverStays, StaysInOrder
<1>3. CASE FlowingStage(w)
  <2>1. /\ phase[w] = "await" /\ ans[w] # NoAnswer /\ queue[w] = <<>>
        /\ pc[w] \notin {"first", "fc"} /\ Only(Own(w), Late) /\ CleanRest(w)
    BY <1>3 DEF FlowingStage
  <2>2. Only(Own(w)', Late) /\ ~IsFirst(h)
    <3>1. Only(Tail(Own(w)), Late) /\ h.t \in Late
      BY <1>0, <2>1, OnlyTail
    <3>2. QED
      BY <3>1, TypeSets DEF IsFirst
  <2>3. ASSUME NEW p \in Payload \ {<<>>}, SentRuns({p}, tasm[w], Own(w), out[w])
        PROVE  SentRuns({p}, tasm'[w], Own(w)', out[w])
    BY <1>0, <2>3, PayloadWhole, OwnType, RunsTake DEF SentRuns
  <2>4. CleanRest(w)'
    BY <1>0, <2>1, <2>3 DEF CleanRest, Idles
  <2>5. FlowingStage(w)'
    BY <2>1, <2>2, <2>4 DEF FlowingStage, Idles
  <2>6. QED
    BY <1>0, <2>5 DEF InOrder
<1>4. CASE OpenedStage(w) /\ h.t \in {"SF", "FF"}
  <2>1. /\ phase[w] = "await" /\ ans[w] # NoAnswer /\ queue[w] = <<>> /\ pc[w] # "cf"
    BY <1>4 DEF OpenedStage
  <2>2. CleanFirst(w, h) /\ Only(Tail(Own(w)), {"empty"})
    BY <1>4, HeadCases, TypeSets
  <2>3. Only(Own(w)', Late) /\ Only(Own(w)', NotCF)
    BY <2>2, TypeSets, OnlyMore
  <2>4. CASE ~IsFirst(h)
    <3>1. OpenedStage(w)'
      BY <2>1, <2>3, <2>4 DEF OpenedStage, Idles
    <3>2. QED
      BY <1>0, <3>1 DEF InOrder
  <2>5. CASE IsFirst(h)
    <3>1. queue'[w] = <<FlowControl>>
      BY <2>1, <2>5
    <3>2. h.t = "FF" /\ Own(w)' \in Seq(Frame(Byte))
      BY <1>0, <2>5, HeadTailProperties DEF IsFirst
    <3>3. ASSUME pc[w] \in {"first", "fc"}
          PROVE  CleanRest(w)'
      <4>1. ASSUME NEW p \in Payload \ {<<>>}, h = Segment(p)[1], out[w] = Tail(Segment(p))
            PROVE  SentRuns({p}, tasm'[w], Own(w)', out'[w])
        BY <1>0, <2>2, <3>2, <4>1, FirstArrives
      <4>2. QED
        BY <2>2, <3>3, <4>1 DEF CleanFirst, CleanRest, Idles
    <3>4. GrantedStage(w)'
      BY <2>1, <2>2, <3>1, <3>3 DEF GrantedStage, Idles
    <3>5. QED
      BY <1>0, <3>4 DEF InOrder
  <2>6. QED
    BY <2>4, <2>5
<1>5. QED
  BY <1>2, <1>3, <1>4, HeadCases DEF OfferStage

\* the frame that ends its wait,
LEMMA ReturnInOrder ==
  ASSUME STypeInv, NEW w \in Worker, InOrder(w), Idles(w),
         Own(w) # <<>>, Own(w)' = Tail(Own(w)), NEW h, h = Head(Own(w)),
         phase[w] = "await", Completes(tasm[w], h),
         phase'[w] = "idle", queue'[w] = queue[w], tasm'[w] = Fed(tasm[w], h),
         got'[w] = Decoded(PayloadOf(tasm[w], h))
  PROVE  InOrder(w)' /\ ans[w] # NoAnswer /\ (~faulted[w] => got'[w] = ans[w])
<1>0. Only(out'[w], {"CF"}) /\ Own(w) \in Seq(Frame(Byte)) /\ out'[w] = out[w]
  BY OwnType DEF InOrder, Idles
<1>1. ~IsFirst(h) /\ Fed(tasm[w], h) = Reset /\ Reset.on = FALSE /\ h.t \in {"SF", "CF"}
  BY DEF Completes, Fed, Fills, IsFirst, IsSingle, IsNext, Reset
<1>2. ASSUME pc[w] \notin {"first", "fc"}, queue[w] = <<>>, Only(Own(w)', Late),
             ~faulted[w] => got'[w] = ans[w]
      PROVE  InOrder(w)'
  <2>1. IdleStage(w)'
    BY <1>1, <1>2 DEF IdleStage, Quiet, Idles
  <2>2. QED
    BY <1>0, <2>1 DEF InOrder
<1>3. CASE FlowingStage(w)
  <2>1. /\ queue[w] = <<>> /\ pc[w] \notin {"first", "fc"} /\ ans[w] # NoAnswer
        /\ Only(Own(w), Late) /\ CleanRest(w)
    BY <1>3 DEF FlowingStage
  <2>2. Only(Own(w)', Late)
    BY <1>0, <2>1, OnlyTail
  <2>3. ASSUME NEW p \in Payload \ {<<>>}, SentRuns({p}, tasm[w], Own(w), out[w])
        PROVE  PayloadOf(tasm[w], h) = p
    <3>1. PayloadOf(tasm[w], h) \in {p}
      BY <1>0, <2>3, PayloadWhole, OwnType, RunsTake DEF SentRuns
    <3>2. QED
      BY <3>1
  <2>4. ~faulted[w] => got'[w] = ans[w]
    BY <2>1, <2>3 DEF CleanRest
  <2>5. QED
    BY <1>2, <2>1, <2>2, <2>4
<1>4. CASE OpenedStage(w) /\ h.t \notin Late
  <2>1. /\ queue[w] = <<>> /\ h.t = "SF" /\ pc[w] \notin {"first", "fc"}
        /\ ans[w] # NoAnswer /\ CleanFirst(w, h) /\ Only(Tail(Own(w)), {"empty"})
    BY <1>1, <1>4, HeadCases DEF OpenedStage
  <2>2. Only(Own(w)', Late)
    BY <2>1, TypeSets, OnlyMore
  <2>3. ASSUME NEW p \in Payload \ {<<>>}, h = Segment(p)[1]
        PROVE  PayloadOf(tasm[w], h) = p
    <3>1. \A n \in Nat \ {0} : n = 1 \/ n > 1
      OBVIOUS
    <3>2. Len(Segment(p)) \in Nat \ {0}
      BY SegmentFrames
    <3>3. Len(Segment(p)) = 1 \/ Len(Segment(p)) > 1
      BY <3>1, <3>2, Zenon
    <3>4. Len(Segment(p)) = 1
      BY <2>1, <2>3, <3>3, SegmentFrames
    <3>5. QED
      BY <2>3, <3>4, SingleCompletes
  <2>4. ~faulted[w] => got'[w] = ans[w]
    BY <2>1, <2>3 DEF CleanFirst
  <2>5. QED
    BY <1>2, <2>1, <2>2, <2>4
<1>5. CASE h.t \in Late /\ ~FlowingStage(w)
  <2>1. (tasm[w].on = TRUE => Only(Own(w), NotCF)) \/ Only(Own(w), {"empty"})
    BY <1>5
    DEF InOrder, IdleStage, OfferStage, AskedStage, OpenedStage, GrantedStage, Quiet
  <2>2. tasm[w].on = TRUE => Only(Own(w), NotCF)
    BY <2>1, TypeSets, OnlyMore
  <2>3. QED
    BY <1>5, <2>2, LateIgnored DEF Ignores
<1>6. QED
  BY <1>3, <1>4, <1>5, HeadCases DEF OfferStage

\* or nothing any more, and gives up.
LEMMA GiveUpInOrder ==
  ASSUME STypeInv, NEW w \in Worker, InOrder(w), Idles(w), Own(w)' = Own(w),
         queue[w] = <<>>, queue'[w] = <<>>, Only(Own(w), {"empty"}),
         pc[w] \in {"get"} \cup Ended,
         phase'[w] = "idle", got'[w] = NoAnswer, tasm'[w] = tasm[w]
  PROVE  InOrder(w)'
<1>1. Only(Own(w), Late) /\ Only(Own(w), NotCF)
  BY TypeSets, OnlyMore
<1>2. pc[w] \notin {"first", "fc", "cf"}
  BY DEF Ended
<1>3. IdleStage(w)'
  BY <1>1, <1>2 DEF IdleStage, Quiet, Idles
<1>4. Only(out'[w], {"CF"})
  BY DEF InOrder, Idles
<1>5. QED
  BY <1>3, <1>4 DEF InOrder

LEMMA OneFrame ==
  ASSUME NEW S \in Seq(Frame(Byte)), Len(S) = 1
  PROVE  S = <<S[1]>> /\ SubSeq(S, 1, 1) = S
<1>1. S[1] \in Frame(Byte)
  BY ElementOfSeq
<1> DEFINE u == <<S[1]>>  v == SubSeq(S, 1, 1)
<1>2. u \in Seq(Frame(Byte)) /\ Len(u) = 1 /\ u[1] = S[1]
  BY <1>1
<1>3. v \in Seq(Frame(Byte)) /\ Len(v) = 1 /\ v[1] = S[1]
  <2>1. 1 \in Nat \ {0} /\ 1 <= 1 + 1 /\ 1 <= Len(S) /\ 1 - 1 + 1 = 1 /\ 1 \in 1 .. 1
    OBVIOUS
  <2>2. /\ v \in Seq(Frame(Byte)) /\ Len(v) = 1 - 1 + 1
        /\ \A k \in 1 .. 1 - 1 + 1 : v[k] = S[1 - 1 + k]
    BY <2>1, Slice
  <2>3. QED
    BY <2>1, <2>2
<1> HIDE DEF u, v
<1>4. S = u /\ v = S
  BY <1>2, <1>3, SeqEqual
<1>5. QED
  BY <1>4 DEF u, v

\* The device starts.
LEMMA StartsInOrder ==
  ASSUME NEW w \in Worker, InOrder(w), pc'[w] = "get",
         UNCHANGED <<txq, queue, asm, out, phase, req, todo, tasm, got, ans, faulted>>
  PROVE  InOrder(w)'
<1>1. Own(w)' = Own(w)
  BY DEF Own
<1>2. Quiet(w) => Quiet(w)'
  BY <1>1 DEF Quiet
<1>3. CASE IdleStage(w)
  BY <1>1, <1>2, <1>3 DEF InOrder, IdleStage
<1>4. CASE OfferStage(w)
  BY <1>1, <1>2, <1>4 DEF InOrder, OfferStage, Asks
<1>5. CASE AskedStage(w)
  BY <1>1, <1>2, <1>5 DEF InOrder, AskedStage, Asks
<1>6. CASE OpenedStage(w)
  BY <1>1, <1>6 DEF InOrder, OpenedStage, CleanFirst
<1>7. CASE GrantedStage(w)
  BY <1>1, <1>7 DEF InOrder, GrantedStage
<1>8. CASE FlowingStage(w)
  <2>1. CleanRest(w)'
    BY <1>1, <1>8 DEF FlowingStage, CleanRest
  <2>2. QED
    BY <1>1, <1>8, <2>1 DEF InOrder, FlowingStage
<1>9. QED
  BY <1>3, <1>4, <1>5, <1>6, <1>7, <1>8 DEF InOrder

\* It calls.
LEMMA CallInOrder ==
  ASSUME STypeInv, NEW w \in Worker, InOrder(w), NEW r \in Requests[w],
         Own(w)' = Own(w), asm'[w] = asm[w], pc'[w] = pc[w], out'[w] = out[w],
         tasm'[w] = tasm[w], phase[w] = "idle", req'[w] = r, ans'[w] = NoAnswer,
         NEW S, S = Segment(Encoded(w, r)),
         queue'[w] = Append(queue[w], S[1]), todo'[w] = Tail(S),
         phase'[w] = IF Len(S) = 1 THEN "await" ELSE "offer"
  PROVE  InOrder(w)'
<1>1. queue[w] = <<>> /\ Quiet(w) /\ Only(Own(w), Late) /\ Only(out'[w], {"CF"})
  BY DEF InOrder, IdleStage, OfferStage, AskedStage, OpenedStage, GrantedStage, FlowingStage
<1>2. S \in Seq(Frame(Byte)) /\ S # <<>> /\ Len(S) \in Nat \ {0}
  <2>1. Encoded(w, r) \in Payload /\ Encoded(w, r) # <<>>
    BY EncodedIs
  <2>2. QED
    BY <2>1, SegmentFrames
<1>3. Asks(w)' = S /\ Quiet(w)' /\ req'[w] \in Requests[w] /\ queue'[w] = <<S[1]>>
  BY <1>1 DEF Asks, Quiet
<1>4. CASE Len(S) = 1
  <2>1. S = <<S[1]>> /\ SubSeq(S, 1, 1) = S /\ 0 + 1 = 1
    BY <1>2, <1>4, OneFrame
  <2>2. SubSeq(S, 0 + 1, Len(S)) = S
    BY <1>4, <2>1
  <2>3. 0 \in Nat /\ 0 < 1
    OBVIOUS
  <2>4. AskedStage(w)'
    BY <1>1, <1>3, <1>4, <2>1, <2>2, <2>3 DEF AskedStage
  <2>5. QED
    BY <1>1, <2>4 DEF InOrder
<1>5. CASE Len(S) # 1
  <2>1. Len(S) > 1
    <3>1. \A n \in Nat \ {0} : n # 1 => n > 1
      OBVIOUS
    <3>2. QED
      BY <1>2, <1>5, <3>1, Zenon
  <2>2. OfferStage(w)'
    BY <1>1, <1>3, <1>5, <2>1 DEF OfferStage
  <2>3. QED
    BY <1>1, <2>2 DEF InOrder
<1>6. QED
  BY <1>4, <1>5

\* Nothing of w is under way.
LEMMA SettledOwn ==
  ASSUME STypeInv, NEW w \in Worker, Settled(w)
  PROVE  queue[w] = <<>> /\ Only(Own(w), {"empty"})
<1>1. txq \in Seq(Sent) /\ queue[w] = <<>> /\ \A i \in 1 .. Len(txq) : txq[i].w # w
  BY LenProperties DEF STypeInv, TypeInv, TypeOK, Settled
<1>2. Len(Mine(w, txq)) = Len(txq) /\ \A j \in 1 .. Len(txq) : Mine(w, txq)[j] = Blank
  BY <1>1, MineIs
<1>3. QED
  BY <1>1, <1>2 DEF Own, Only, Blank

\* What a step of worker w sends is blank to the other tester.
LEMMA OtherSees ==
  ASSUME STypeInv, NEW w \in Worker, Work(w) \/ TimeoutFC(w), NEW v \in Worker, v # w
  PROVE  BlankStep(Own(v), Own(v)')
<1>0. /\ txq \in Seq(Sent) /\ TypeInv /\ out \in [Worker -> Seq(Frame(Byte))]
      /\ queue \in [Worker -> Seq(Frame(Byte))]
      /\ pc[w] = "fc" => out[w] # <<>>
  BY DEF STypeInv, TypeInv, TypeOK, PendingOK
<1>1. ASSUME NEW fs, Sees(w, fs)
      PROVE  BlankStep(Own(v), Own(v)')
  <2>1. PICK bs \in Seq(Frame(Byte)) :
          (\A j \in 1 .. Len(bs) : bs[j] = Blank) /\ Mine(v, txq') = Mine(v, txq) \o bs
    BY <1>1 DEF Sees
  <2>2. Only(bs, {"empty"})
    BY <2>1 DEF Only, Blank
  <2>3. QED
    BY <2>1, <2>2 DEF BlankStep, Shifts, Own
<1>2. txq' = txq => BlankStep(Own(v), Own(v)')
  BY DEF BlankStep, Shifts, Own
<1>3. ASSUME NEW f \in Frame(Byte), Send(w, f)
      PROVE  BlankStep(Own(v), Own(v)')
  <2>1. Sees(w, <<f>>)
    BY <1>0, <1>3, SeesSend
  <2>2. QED
    BY <1>1, <2>1
<1>4. CASE FeedOnly(w)
  BY <1>2, <1>3, <1>4, FlowControlType DEF FeedOnly
<1>5. CASE \/ FeedFails(w) \/ TakeOther(w) \/ TakeFails(w) \/ TimeoutFC(w)
           \/ HandleFails(w) \/ HandleSilently(w) \/ Wake(w)
  <2>1. txq' = txq
    BY <1>5
    DEF FeedFails, TakeOther, TakeFails, TimeoutFC, HandleFails, HandleSilently, Wake
  <2>2. QED
    BY <1>2, <2>1
<1>6. CASE Handle(w)
  <2>1. PICK fs \in Injected(Segment(Reply(w, Got(w)))) : Respond(w, fs)
    BY <1>6 DEF Handle
  <2>2. Feed(w) /\ Completes(asm[w], Taken(w))
    BY <1>6 DEF Handle
  <2>3. Taken(w) \in Frame(Byte)
    BY <1>0, <2>2, TakeNextType DEF Feed
  <2>4. Got(w) \in Payload
    BY <1>0, <2>2, <2>3, PayloadType DEF Got, TypeInv, TypeOK
  <2>5. Reply(w, Got(w)) \in Payload
    BY <1>0, <2>4, UdsReplyType, S77ReplyType DEF Reply, TypeInv, TypeOK
  <2>6. fs \in Seq(Frame(Byte)) /\ fs # <<>>
    BY <2>1, <2>5, SegmentType, InjectedType
  <2>7. fs[1] \in Frame(Byte) /\ Send(w, fs[1])
    BY <2>1, <2>6, RestType DEF Respond
  <2>8. QED
    BY <1>3, <2>7
<1>7. CASE TakeFC(w)
  <2>1. /\ pc[w] = "fc"
        /\ Send(w, Head(out[w])) \/ SendAll(w, out[w])
    BY <1>7 DEF TakeFC
  <2>2. Head(out[w]) \in Frame(Byte) /\ out[w] \in Seq(Frame(Byte))
    BY <1>0, <2>1, RestType
  <2>3. SendAll(w, out[w]) => Sees(w, out[w])
    BY <1>0, <2>2, SeesAll
  <2>4. QED
    BY <1>1, <1>3, <2>1, <2>2, <2>3
<1>8. CASE NextCF(w)
  <2>1. txq' = txq \/ (out[w] # <<>> /\ Send(w, Head(out[w])))
    BY <1>8 DEF NextCF
  <2>2. out[w] # <<>> => Head(out[w]) \in Frame(Byte)
    BY <1>0, RestType
  <2>3. QED
    BY <1>2, <1>3, <2>1, <2>2
<1>9. QED
  BY <1>4, <1>5, <1>6, <1>7, <1>8 DEF Work

LEMMA PatientInit == SInit => PatientInv
<1> SUFFICES ASSUME SInit, NEW w \in Worker PROVE InOrder(w)
  BY SessionTypeInit DEF PatientInv
<1>1. /\ phase[w] = "idle" /\ queue[w] = <<>> /\ tasm[w].on = FALSE /\ pc[w] = "new"
      /\ txq = <<>> /\ got[w] = NoAnswer /\ out[w] = <<>>
  BY DEF SInit, Init, Reset
<1>2. Own(w) = <<>>
  BY <1>1 DEF Own, Mine
<1>3. Only(<<>>, Late) /\ Only(<<>>, {"CF"})
  BY DEF Only
<1>4. IdleStage(w)
  BY <1>1, <1>2, <1>3 DEF IdleStage, Quiet
<1>5. QED
  BY <1>1, <1>3, <1>4 DEF InOrder

\* A step of worker w.
LEMMA WorksInOrder ==
  ASSUME Patient, PatientInv, NEW w \in Worker, Works(w) \/ Expires(w), NEW v \in Worker
  PROVE  InOrder(v)'
<1>0. /\ STypeInv /\ InOrder(w) /\ InOrder(v) /\ (Work(w) \/ TimeoutFC(w))
      /\ ans \in [Worker -> Outcomes] /\ faulted \in [Worker -> BOOLEAN]
      /\ UNCHANGED <<phase, req, todo, tasm, got>>
  BY DEF PatientInv, STypeInv, TesterOK, Works, Expires, testers
<1>1. CASE v # w
  <2>1. queue'[v] = queue[v] /\ asm'[v] = asm[v] /\ pc'[v] = pc[v] /\ out'[v] = out[v]
    BY <1>0, <1>1, WorkLocal
  <2>2. ans'[v] = ans[v] /\ faulted'[v] = faulted[v]
    BY <1>0, <1>1 DEF Works, Expires, testers
  <2>3. Stays(v)
    BY <1>0, <2>1, <2>2 DEF Stays
  <2>4. LateStep(Own(v), Own(v)')
    BY <1>0, <1>1, OtherSees, BlankIsLate
  <2>5. QED
    BY <1>0, <2>3, <2>4, StaysInOrder
<1>2. Hushed(w)
  BY <1>0 DEF Hushed
<1>3. ASSUME Works(w)
      PROVE  InOrder(w)'
  <2>1. Work(w)
    BY <1>3 DEF Works
  <2>2. CASE ~Handling(w)
    <3>1. Unheard(w)
      BY <1>2, <1>3, <2>2 DEF Works, Unheard
    <3>2. Woken(w) \/ SendsOn(w) \/ HasSent(w) \/ Feeds(w) \/ Grants(w)
      BY <1>0, <2>1, <2>2, WorkEffects, NeverPuzzled DEF Answers
    <3>3. QED
      BY <1>0, <3>1, <3>2, WokenInOrder, SendsOnInOrder, FeedsInOrder, GrantsInOrder
  <2>3. CASE Handling(w)
    <3>1. /\ ans'[w] = Decoded(Reply(w, Got(w)))
          /\ faulted'[w] = ~SentClean(w, Reply(w, Got(w)))
      BY <1>0, <1>3, <2>3 DEF Works
    <3>2. Answers(w)
      BY <1>0, <2>1, <2>3, WorkEffects
    <3>3. QED
      BY <1>0, <1>2, <3>1, <3>2, AnswersInOrder
  <2>4. QED
    BY <2>2, <2>3
<1>4. ASSUME Expires(w)
      PROVE  InOrder(w)'
  <2>1. Settled(w) /\ TimeoutFC(w) /\ Unheard(w)
    BY <1>2, <1>4 DEF Expires, Unheard, testers
  <2>2. QED
    BY <1>0, <2>1, SettledOwn, TimeoutEffects, TimesOutInOrder
<1>5. QED
  BY <1>1, <1>3, <1>4

\* A step of tester w, or the loss of a frame.
LEMMA TestsInOrder ==
  ASSUME PatientInv, NEW w \in Worker, Tests(w), NEW v \in Worker
  PROVE  InOrder(v)'
<1>0. /\ STypeInv /\ InOrder(w) /\ InOrder(v)
      /\ queue \in [Worker -> Seq(Frame(Byte))]
      /\ phase \in [Worker -> {"idle", "offer", "await"}]
      /\ todo \in [Worker -> Seq(Frame(Byte))] /\ tasm \in [Worker -> Assembler(Byte)]
      /\ got \in [Worker -> Outcomes]
  BY DEF PatientInv, STypeInv, TypeInv, TypeOK, TesterOK
<1>1. txq # <<>> /\ Head(txq).w = w /\ txq' = Tail(txq)
  BY DEF Tests, Continue, Collect, Return, Arrives
<1>2. /\ UNCHANGED <<asm, pc, out, req, ans, faulted>>
      /\ phase' = phase \/ phase' = [phase EXCEPT ![w] = phase'[w]]
      /\ todo' = todo \/ todo' = [todo EXCEPT ![w] = todo'[w]]
      /\ tasm' = tasm \/ tasm' = [tasm EXCEPT ![w] = tasm'[w]]
      /\ got' = got \/ got' = [got EXCEPT ![w] = got'[w]]
      /\ queue' = queue \/ queue' = [queue EXCEPT ![w] = queue'[w]]
  BY <1>0 DEF Tests, Continue, Collect, Return, DeviceIdle, Deliver
<1>3. CASE v # w
  <2>1. Stays(v)
    BY <1>0, <1>2, <1>3 DEF Stays
  <2>2. LateStep(Own(v), Own(v)')
    BY <1>0, <1>1, <1>3, PopsOwn, BlankIsLate
  <2>3. QED
    BY <1>0, <2>1, <2>2, StaysInOrder
<1>4. /\ Own(w) # <<>> /\ Own(w)' = Tail(Own(w)) /\ Head(Own(w)) = Arriving /\ Idles(w)
  BY <1>0, <1>1, <1>2, PopsOwn DEF Idles
<1>5. ASSUME Continue(w)
      PROVE  InOrder(w)'
  <2>1. /\ phase[w] = "offer" /\ Arriving.t = "FC"
        /\ queue'[w] = queue[w] \o todo[w] /\ phase'[w] = "await" /\ tasm'[w] = tasm[w]
    BY <1>0, <1>5 DEF Continue
  <2>2. QED
    BY <1>0, <1>4, <2>1, ContinueInOrder
<1>6. ASSUME Collect(w)
      PROVE  InOrder(w)'
  <2>1. /\ phase[w] # "offer" \/ Arriving.t # "FC"
        /\ phase[w] # "await" \/ ~Completes(tasm[w], Arriving)
        /\ phase'[w] = phase[w] /\ todo'[w] = todo[w] /\ got'[w] = got[w]
        /\ tasm'[w] = Fed(tasm[w], Arriving)
        /\ queue'[w] = IF IsFirst(Arriving) THEN Append(queue[w], FlowControl) ELSE queue[w]
    BY <1>0, <1>6 DEF Collect, Deliver
  <2>2. QED
    BY <1>0, <1>4, <2>1, CollectInOrder
<1>7. ASSUME Return(w)
      PROVE  InOrder(w)'
  <2>1. /\ phase[w] = "await" /\ Completes(tasm[w], Arriving)
        /\ phase'[w] = "idle" /\ queue'[w] = queue[w]
        /\ tasm'[w] = Fed(tasm[w], Arriving)
        /\ got'[w] = Decoded(PayloadOf(tasm[w], Arriving))
    BY <1>0, <1>7 DEF Return
  <2>2. QED
    BY <1>0, <1>4, <2>1, ReturnInOrder
<1>8. QED
  BY <1>3, <1>5, <1>6, <1>7 DEF Tests

LEMMA PatientStep ==
  ASSUME Patient
  PROVE  PatientInv /\ [SNext]_svars => PatientInv'
<1> SUFFICES ASSUME PatientInv, [SNext]_svars, NEW v \in Worker PROVE InOrder(v)'
  BY SessionTypeStep DEF PatientInv
<1>0. /\ STypeInv /\ InOrder(v) /\ \A w \in Worker : InOrder(w)
      /\ queue \in [Worker -> Seq(Frame(Byte))]
      /\ phase \in [Worker -> {"idle", "offer", "await"}]
      /\ todo \in [Worker -> Seq(Frame(Byte))]
      /\ got \in [Worker -> Outcomes] /\ ans \in [Worker -> Outcomes]
      /\ DOMAIN req = Worker
  BY DEF PatientInv, STypeInv, TypeInv, TypeOK, TesterOK
<1>1. ASSUME NEW w \in Worker, Works(w) \/ Expires(w)
      PROVE  InOrder(v)'
  BY <1>1, WorksInOrder
<1>2. ASSUME NEW w \in Worker, Tests(w)
      PROVE  InOrder(v)'
  BY <1>2, TestsInOrder
<1>3. ASSUME UNCHANGED <<txq, queue, asm, pc, out, phase, req, todo, tasm, got, ans, faulted>>
      PROVE  InOrder(v)'
  <2>1. Stays(v) /\ LateStep(Own(v), Own(v)')
    BY <1>3 DEF Stays, LateStep, Shifts, Own
  <2>2. QED
    BY <1>0, <2>1, StaysInOrder
<1>4. ASSUME NEW w \in Worker, GiveUp(w)
      PROVE  InOrder(v)'
  <2>1. /\ Settled(w) /\ pc[w] \in {"get"} \cup Ended /\ DeviceIdle
        /\ UNCHANGED <<queue, txq, req, tasm, ans, faulted>>
        /\ phase' = [phase EXCEPT ![w] = "idle"]
        /\ todo' = [todo EXCEPT ![w] = <<>>]
        /\ got' = [got EXCEPT ![w] = NoAnswer]
    BY <1>4 DEF GiveUp
  <2>2. Own(v)' = Own(v) /\ Idles(v)
    BY <2>1 DEF Own, Idles, DeviceIdle
  <2>3. CASE v = w
    BY <1>0, <2>1, <2>2, <2>3, SettledOwn, GiveUpInOrder
  <2>4. CASE v # w
    <3>1. Stays(v) /\ LateStep(Own(v), Own(v)')
      BY <1>0, <2>1, <2>2, <2>4 DEF Stays, Idles, LateStep, Shifts
    <3>2. QED
      BY <1>0, <3>1, StaysInOrder
  <2>5. QED
    BY <2>3, <2>4
<1>5. ASSUME NEW w \in Worker, NEW r \in Requests[w], Call(w, r)
      PROVE  InOrder(v)'
  <2> DEFINE S == Segment(Encoded(w, r))
  <2>1. /\ phase[w] = "idle" /\ Deliver(w, S[1]) /\ DeviceIdle
        /\ UNCHANGED <<tasm, got, faulted, txq>>
        /\ phase' = [phase EXCEPT ![w] = IF Len(S) = 1 THEN "await" ELSE "offer"]
        /\ todo' = [todo EXCEPT ![w] = Tail(S)]
        /\ req' = [req EXCEPT ![w] = r] /\ ans' = [ans EXCEPT ![w] = NoAnswer]
    BY <1>5 DEF Call
  <2> HIDE DEF S
  <2>2. Own(v)' = Own(v)
    BY <2>1 DEF Own
  <2>3. CASE v = w
    <3>1. /\ asm'[w] = asm[w] /\ pc'[w] = pc[w] /\ out'[w] = out[w]
          /\ tasm'[w] = tasm[w] /\ req'[w] = r /\ ans'[w] = NoAnswer
          /\ queue'[w] = Append(queue[w], S[1]) /\ todo'[w] = Tail(S)
          /\ phase'[w] = IF Len(S) = 1 THEN "await" ELSE "offer"
      BY <1>0, <2>1 DEF Deliver, DeviceIdle
    <3>2. S = Segment(Encoded(w, r))
      BY DEF S
    <3>3. QED
      BY <1>0, <2>1, <2>2, <2>3, <3>1, <3>2, CallInOrder
  <2>4. CASE v # w
    <3>1. Stays(v) /\ LateStep(Own(v), Own(v)')
      BY <1>0, <2>1, <2>2, <2>4 DEF Stays, Deliver, DeviceIdle, LateStep, Shifts
    <3>2. QED
      BY <1>0, <3>1, StaysInOrder
  <2>5. QED
    BY <2>3, <2>4
<1>6. ASSUME Lose
      PROVE  InOrder(v)'
  <2>1. /\ txq # <<>> /\ txq' = Tail(txq) /\ DeviceIdle
        /\ UNCHANGED <<queue, phase, req, todo, tasm, got, ans, faulted>>
    BY <1>6 DEF Lose
  <2>2. Stays(v)
    BY <2>1 DEF Stays, DeviceIdle
  <2>3. Own(v) # <<>> /\ Own(v)' = Tail(Own(v))
    BY <1>0, <2>1, PopsOwn
  <2>4. QED
    BY <1>0, <2>2, <2>3, LoseInOrder
<1>7. ASSUME Starts
      PROVE  InOrder(v)'
  <2>1. /\ pc'[v] = "get"
        /\ UNCHANGED <<txq, queue, asm, out, phase, req, todo, tasm, got, ans, faulted>>
    BY <1>7 DEF Starts, Start, testers
  <2>2. QED
    BY <1>0, <2>1, StartsInOrder
<1>8. QED
  BY <1>1, <1>2, <1>3, <1>4, <1>5, <1>6, <1>7 DEF SNext, svars, vars, testers

\* A fault spoils the one response it was injected into, if timeouts outlast
\* everything in progress: what else is under way when the next response goes
\* out is ignored at both ends, so that a response sent as segment() made it is
\* received as the handler computed it, for any request, any fault and any
\* frames lost (faults.py:216-266, device.py:300-358).
THEOREM FaultsEndWithTheirResponse ==
  ASSUME Patient
  PROVE  SSpec => []FaultsDoNotLinger
<1>1. PatientInv /\ [SNext]_svars => PatientInv'
  BY PatientStep
<1>2. SSpec => []PatientInv
  BY <1>1, PatientInit, PTL DEF SSpec
<1>3. PatientInv => FaultsDoNotLinger
  <2> SUFFICES ASSUME PatientInv, NEW w \in Worker, phase[w] = "idle",
                      got[w] # NoAnswer, ~faulted[w]
               PROVE  got[w] = ans[w]
    BY DEF FaultsDoNotLinger
  <2>1. IdleStage(w)
    BY DEF PatientInv, InOrder, OfferStage, AskedStage, OpenedStage, GrantedStage, FlowingStage
  <2>2. QED
    BY <2>1 DEF IdleStage
<1>4. QED
  BY <1>2, <1>3, PTL

-----------------------------------------------------------------------------
(* Frames without a gap: what is needed for a call to end by itself        *)

\* Of a response that an assembler has got k frames of, exactly the next, up
\* to the e-th, are on their way, each at a place of its own.
Places(S, k, m, e, pos) ==
  /\ pos \in [k + 1 .. e -> 1 .. Len(m)]
  /\ \A x, y \in k + 1 .. e : x < y => pos[x] < pos[y]
  /\ \A x \in k + 1 .. e : m[pos[x]] = S[x]
  /\ \A j \in 1 .. Len(m) : m[j].t = "empty" \/ \E x \in k + 1 .. e : pos[x] = j

Carries(S, k, m, e) == \E pos : Places(S, k, m, e, pos)

\* The elements of two lists put together.
LEMMA ConcatParts ==
  ASSUME NEW m \in Seq(Frame(Byte)), NEW fs \in Seq(Frame(Byte)),
         NEW n, n = Len(m), NEW d, d = Len(fs)
  PROVE  /\ n \in Nat /\ d \in Nat /\ Len(m \o fs) = n + d
         /\ \A j \in 1 .. n : (m \o fs)[j] = m[j]
         /\ \A j \in 1 .. d : (m \o fs)[n + j] = fs[j]
<1> DEFINE u == m \o fs
<1>1. n \in Nat /\ d \in Nat
  BY LenProperties
<1>2. /\ Len(u) = n + d
      /\ \A j \in 1 .. n + d : u[j] = IF j <= n THEN m[j] ELSE fs[j - n]
  BY ConcatProperties
<1> HIDE DEF u
<1>3. ASSUME NEW j \in 1 .. n
      PROVE  u[j] = m[j]
  <2>1. j \in 1 .. n + d /\ j <= n
    BY <1>1
  <2>2. QED
    BY <1>2, <2>1
<1>4. ASSUME NEW j \in 1 .. d
      PROVE  u[n + j] = fs[j]
  <2> DEFINE i == n + j
  <2>1. i \in 1 .. n + d /\ ~(i <= n) /\ i - n = j
    BY <1>1
  <2> HIDE DEF i
  <2>2. u[i] = fs[j]
    BY <1>2, <2>1
  <2>3. QED
    BY <2>2 DEF i
<1>5. QED
  BY <1>1, <1>2, <1>3, <1>4 DEF u

LEMMA CarriesMore ==
  ASSUME NEW S, NEW k \in Nat, NEW e \in Nat, k <= e, NEW m \in Seq(Frame(Byte)),
         Carries(S, k, m, e), NEW fs \in Seq(Frame(Byte)),
         NEW d \in Nat, d = Len(fs), \A i \in 1 .. d : fs[i] = S[e + i]
  PROVE  Carries(S, k, m \o fs, e + d)
<1> DEFINE n == Len(m)  u == m \o fs
<1>1. n \in Nat
  BY LenProperties
<1>2. /\ Len(u) = n + d
      /\ \A j \in 1 .. n : u[j] = m[j]
      /\ \A j \in 1 .. d : u[n + j] = fs[j]
  BY ConcatParts
<1>0. PICK pos : Places(S, k, m, e, pos)
  BY DEF Carries
<1>3. /\ pos \in [k + 1 .. e -> 1 .. n]
      /\ \A x, y \in k + 1 .. e : x < y => pos[x] < pos[y]
      /\ \A x \in k + 1 .. e : m[pos[x]] = S[x]
      /\ \A j \in 1 .. n : m[j].t = "empty" \/ \E x \in k + 1 .. e : pos[x] = j
  BY <1>0 DEF Places
<1> HIDE DEF n, u
<1> DEFINE A == k + 1 .. e  B == k + 1 .. e + d
           new == [x \in B |-> IF x <= e THEN pos[x] ELSE n + (x - e)]
<1>4. ASSUME NEW x \in B
      PROVE  \/ x <= e /\ x \in A /\ new[x] = pos[x] /\ pos[x] \in 1 .. n
             \/ x > e /\ x - e \in 1 .. d /\ new[x] = n + (x - e)
  <2>1. \/ x <= e /\ x \in A
        \/ x > e /\ x - e \in 1 .. d /\ ~(x <= e)
    OBVIOUS
  <2>2. \A y \in A : pos[y] \in 1 .. n
    <3> HIDE DEF B
    <3>1. QED
      BY <1>3
  <2>3. new[x] = IF x <= e THEN pos[x] ELSE n + (x - e)
    <3> HIDE DEF B
    <3>1. QED
      OBVIOUS
  <2> HIDE DEF new, A, B
  <2>4. QED
    BY <2>1, <2>2, <2>3
<1>5. new \in [B -> 1 .. n + d]
  <2>1. \A x \in B : new[x] \in 1 .. n + d
    BY <1>1, <1>4
  <2>2. QED
    BY <2>1
<1>6. \A x, y \in B : x < y => new[x] < new[y]
  BY <1>1, <1>3, <1>4
<1>7. \A x \in B : u[new[x]] = S[x]
  <2>1. ASSUME NEW x \in B, x <= e
        PROVE  u[new[x]] = S[x]
    <3>1. x \in A /\ new[x] = pos[x] /\ pos[x] \in 1 .. n
      BY <1>4, <2>1
    <3>2. u[pos[x]] = m[pos[x]]
      BY <1>1, <1>2, <3>1
    <3>3. QED
      BY <1>3, <3>1, <3>2
  <2>2. ASSUME NEW x \in B, x > e
        PROVE  u[new[x]] = S[x]
    <3>1. x - e \in 1 .. d /\ new[x] = n + (x - e) /\ e + (x - e) = x
      BY <1>4, <2>2
    <3> DEFINE i == x - e
    <3>2. i \in 1 .. d /\ new[x] = n + i /\ e + i = x
      BY <3>1
    <3> HIDE DEF i, new
    <3>3. u[n + i] = fs[i] /\ fs[i] = S[e + i]
      BY <1>2, <3>2
    <3>4. QED
      BY <3>2, <3>3
  <2>3. \A x \in B : x <= e \/ x > e
    OBVIOUS
  <2> HIDE DEF new, B
  <2>4. QED
    BY <2>1, <2>2, <2>3
<1>8. \A j \in 1 .. n + d : u[j].t = "empty" \/ \E x \in B : new[x] = j
  <2>1. ASSUME NEW j \in 1 .. n + d, j <= n, u[j].t # "empty"
        PROVE  \E x \in B : new[x] = j
    <3>1. j \in 1 .. n /\ u[j] = m[j]
      BY <1>1, <1>2, <2>1
    <3>2. PICK x \in A : pos[x] = j
      BY <1>3, <2>1, <3>1
    <3>3. x \in B /\ x <= e
      OBVIOUS
    <3>4. QED
      BY <3>2, <3>3
  <2>2. ASSUME NEW j \in 1 .. n + d, j > n
        PROVE  \E x \in B : new[x] = j
    <3>1. e + (j - n) \in B /\ ~(e + (j - n) <= e) /\ n + ((e + (j - n)) - e) = j
      BY <1>1, <2>2
    <3>2. QED
      BY <3>1
  <2>3. QED
    BY <1>1, <2>1, <2>2
<1> HIDE DEF new
<1>9. Places(S, k, u, e + d, new)
  BY <1>2, <1>5, <1>6, <1>7, <1>8 DEF Places
<1>10. QED
  BY <1>9 DEF Carries, u

LEMMA CarriesBlank ==
  ASSUME NEW S, NEW k \in Nat, NEW e \in Nat, NEW m \in Seq(Frame(Byte)),
         Carries(S, k, m, e), NEW bs \in Seq(Frame(Byte)), Only(bs, {"empty"})
  PROVE  Carries(S, k, m \o bs, e)
<1> DEFINE n == Len(m)  d == Len(bs)  u == m \o bs
<1>1. n \in Nat /\ d \in Nat
  BY LenProperties
<1>2. /\ Len(u) = n + d
      /\ \A j \in 1 .. n : u[j] = m[j]
      /\ \A j \in 1 .. d : u[n + j] = bs[j]
  BY ConcatParts
<1>0. PICK pos : Places(S, k, m, e, pos)
  BY DEF Carries
<1>3. /\ pos \in [k + 1 .. e -> 1 .. n]
      /\ \A x, y \in k + 1 .. e : x < y => pos[x] < pos[y]
      /\ \A x \in k + 1 .. e : m[pos[x]] = S[x]
      /\ \A j \in 1 .. n : m[j].t = "empty" \/ \E x \in k + 1 .. e : pos[x] = j
  BY <1>0 DEF Places
<1>4. \A j \in 1 .. d : bs[j].t = "empty"
  BY DEF Only
<1> HIDE DEF n, d, u
<1>5. pos \in [k + 1 .. e -> 1 .. n + d]
  <2>1. 1 .. n \subseteq 1 .. n + d
    BY <1>1
  <2> DEFINE X == k + 1 .. e  Y == 1 .. n  Z == 1 .. n + d
  <2>2. pos \in [X -> Y] /\ Y \subseteq Z
    BY <1>3, <2>1
  <2> HIDE DEF X, Y, Z
  <2>3. pos \in [X -> Z]
    BY <2>2
  <2>4. QED
    BY <2>3 DEF X, Z
<1>6. \A x \in k + 1 .. e : u[pos[x]] = S[x]
  <2>1. \A x \in k + 1 .. e : u[pos[x]] = m[pos[x]]
    BY <1>1, <1>2, <1>3
  <2>2. QED
    BY <1>3, <2>1
<1>7. \A j \in 1 .. n + d : u[j].t = "empty" \/ \E x \in k + 1 .. e : pos[x] = j
  <2>1. ASSUME NEW j \in 1 .. n
        PROVE  u[j].t = "empty" \/ \E x \in k + 1 .. e : pos[x] = j
    BY <1>2, <1>3
  <2>2. ASSUME NEW j \in 1 .. d
        PROVE  u[n + j].t = "empty"
    BY <1>2, <1>4
  <2>3. \A j \in 1 .. n + d : j \in 1 .. n \/ (j - n \in 1 .. d /\ n + (j - n) = j)
    BY <1>1
  <2>4. QED
    BY <2>1, <2>2, <2>3
<1>8. Places(S, k, u, e, pos)
  BY <1>2, <1>3, <1>5, <1>6, <1>7 DEF Places
<1>9. QED
  BY <1>8 DEF Carries, u

LEMMA CarriesTail ==
  ASSUME NEW S, NEW k \in Nat, NEW e \in Nat, NEW m \in Seq(Frame(Byte)), m # <<>>,
         Carries(S, k, m, e), \A x \in k + 1 .. e : S[x].t # "empty"
  PROVE  /\ Head(m).t = "empty" => Carries(S, k, Tail(m), e)
         /\ Head(m).t # "empty" =>
              k < e /\ Head(m) = S[k + 1] /\ Carries(S, k + 1, Tail(m), e)
<1> DEFINE n == Len(m)  u == Tail(m)
<1>1. n \in Nat \ {0} /\ Head(m) = m[1]
  BY EmptySeq
<1>2. Len(u) = n - 1 /\ \A j \in 1 .. n - 1 : u[j] = m[j + 1]
  BY HeadTailProperties
<1>0. PICK pos : Places(S, k, m, e, pos)
  BY DEF Carries
<1>3. /\ pos \in [k + 1 .. e -> 1 .. n]
      /\ \A x, y \in k + 1 .. e : x < y => pos[x] < pos[y]
      /\ \A x \in k + 1 .. e : m[pos[x]] = S[x]
      /\ \A j \in 1 .. n : m[j].t = "empty" \/ \E x \in k + 1 .. e : pos[x] = j
  BY <1>0 DEF Places
<1> HIDE DEF n, u
\* All places but the first move one forward.
<1>4. ASSUME NEW i \in {k, k + 1}, \A x \in i + 1 .. e : pos[x] # 1,
             m[1].t = "empty" \/ (i = k + 1 /\ k + 1 \in k + 1 .. e /\ pos[k + 1] = 1),
             i = k \/ pos[k + 1] = 1
      PROVE  Carries(S, i, u, e)
  <2> DEFINE B == i + 1 .. e  new == [x \in B |-> pos[x] - 1]
  <2>1. \A x \in B : x \in k + 1 .. e /\ pos[x] \in 2 .. n /\ new[x] = pos[x] - 1
    BY <1>1, <1>3, <1>4
  <2>2. new \in [B -> 1 .. n - 1]
    <3>1. \A x \in B : new[x] \in 1 .. n - 1
      BY <1>1, <2>1
    <3>2. QED
      BY <3>1
  <2>3. \A x, y \in B : x < y => new[x] < new[y]
    <3>1. \A x, y \in B : x < y => pos[x] < pos[y]
      BY <1>3, <2>1
    <3>2. QED
      BY <1>1, <2>1, <3>1
  <2>4. \A x \in B : u[new[x]] = S[x]
    <3>1. \A x \in B : u[new[x]] = m[pos[x]]
      BY <1>1, <1>2, <2>1
    <3>2. QED
      BY <1>3, <2>1, <3>1
  <2>5. ASSUME NEW j \in 1 .. n - 1, u[j].t # "empty"
        PROVE  \E x \in B : new[x] = j
    <3>1. j + 1 \in 1 .. n /\ u[j] = m[j + 1] /\ j + 1 # 1
      BY <1>1, <1>2
    <3>2. PICK x \in k + 1 .. e : pos[x] = j + 1
      BY <1>3, <2>5, <3>1
    <3>3. x \in B
      <4>1. CASE i = k
        BY <4>1
      <4>2. CASE i = k + 1 /\ pos[k + 1] = 1
        <5>1. x # k + 1
          BY <3>1, <3>2, <4>2
        <5>2. QED
          BY <4>2, <5>1
      <4>3. QED
        BY <1>4, <4>1, <4>2
    <3>4. new[x] = j
      BY <3>2, <3>3
    <3>5. QED
      BY <3>3, <3>4
  <2> HIDE DEF new
  <2>6. Places(S, i, u, e, new)
    BY <1>2, <2>2, <2>3, <2>4, <2>5 DEF Places
  <2>7. QED
    BY <2>6 DEF Carries
<1>5. CASE m[1].t = "empty"
  <2>1. \A x \in k + 1 .. e : pos[x] # 1
    BY <1>3, <1>5
  <2>2. Carries(S, k, u, e)
    BY <1>4, <1>5, <2>1
  <2>3. QED
    BY <1>1, <1>5, <2>2 DEF u
<1>6. CASE m[1].t # "empty"
  <2>1. PICK x \in k + 1 .. e : pos[x] = 1
    <3>1. 1 \in 1 .. n
      BY <1>1
    <3>2. QED
      BY <1>3, <1>6, <3>1
  <2>2. k < e /\ k + 1 \in k + 1 .. e
    OBVIOUS
  <2>3. x = k + 1
    <3>1. ~(k + 1 < x)
      <4>1. k + 1 < x => pos[k + 1] < 1 /\ pos[k + 1] \in 1 .. n
        BY <1>3, <2>1, <2>2
      <4>2. QED
        BY <1>1, <4>1
    <3>2. QED
      BY <3>1
  <2>4. \A y \in (k + 1) + 1 .. e : pos[y] # 1
    <3>1. \A y \in (k + 1) + 1 .. e : y \in k + 1 .. e /\ k + 1 < y
      OBVIOUS
    <3>2. \A y \in (k + 1) + 1 .. e : 1 < pos[y] /\ pos[y] \in 1 .. n
      BY <1>3, <2>1, <2>2, <2>3, <3>1
    <3>3. QED
      BY <1>1, <3>2
  <2>5. Carries(S, k + 1, u, e)
    BY <1>4, <2>1, <2>2, <2>3, <2>4
  <2>6. m[1] = S[k + 1]
    BY <1>3, <2>1, <2>3
  <2>7. QED
    BY <1>1, <1>6, <2>2, <2>5, <2>6 DEF u
<1>7. QED
  BY <1>5, <1>6

\* The tester has got so many frames of a response, the rest is on its way or
\* has still to be sent.
Carried(a, m, o) ==
  \E p \in Payload \ {<<>>} : \E k, e \in Nat :
    /\ InStep(a, p, k) /\ k <= e /\ e <= Len(Segment(p))
    /\ Carries(Segment(p), k, m, e)
    /\ o = SubSeq(Segment(p), e + 1, Len(Segment(p)))

\* The tester has got the first frame, and nothing else is on its way.
LEMMA CarriedNone ==
  ASSUME NEW p \in Payload \ {<<>>}, NEW a, InStep(a, p, 1),
         NEW m \in Seq(Frame(Byte)), Only(m, {"empty"})
  PROVE  Carried(a, m, Tail(Segment(p)))
<1> DEFINE S == Segment(p)
<1>1. S \in Seq(Frame(Byte)) /\ S # <<>> /\ Len(S) \in Nat \ {0}
  BY SegmentFrames
<1>2. Tail(S) = SubSeq(S, 1 + 1, Len(S))
  <2>1. Tail(S) = SubSeq(S, 2, Len(S)) /\ 1 + 1 = 2
    BY <1>1, TailIsSubSeq
  <2>2. QED
    BY <2>1
<1>3. Carries(S, 1, m, 1)
  <2> DEFINE A == 1 + 1 .. 1  pos == [x \in A |-> x]
  <2>1. A = {}
    OBVIOUS
  <2>2. \A j \in 1 .. Len(m) : m[j].t = "empty"
    BY DEF Only
  <2>3. pos \in [A -> 1 .. Len(m)]
    BY <2>1
  <2> HIDE DEF pos
  <2>4. Places(S, 1, m, 1, pos)
    BY <2>1, <2>2, <2>3 DEF Places
  <2>5. QED
    BY <2>4 DEF Carries
<1>4. 1 \in Nat /\ 1 <= 1 /\ 1 <= Len(S)
  BY <1>1
<1>5. QED
  BY <1>2, <1>3, <1>4 DEF Carried

\* The worker sends the next frame, or all that are left.
LEMMA CarriedGrows ==
  ASSUME NEW a, NEW m \in Seq(Frame(Byte)), NEW o \in Seq(Frame(Byte)), o # <<>>,
         Carried(a, m, o)
  PROVE  Carried(a, m \o <<Head(o)>>, Tail(o)) /\ Carried(a, m \o o, <<>>)
<1>1. PICK p \in Payload \ {<<>>}, k, e \in Nat :
        /\ InStep(a, p, k) /\ k <= e /\ e <= Len(Segment(p))
        /\ Carries(Segment(p), k, m, e)
        /\ o = SubSeq(Segment(p), e + 1, Len(Segment(p)))
  BY DEF Carried
<1> DEFINE S == Segment(p)  n == Len(S)
<1>2. S \in Seq(Frame(Byte)) /\ n \in Nat \ {0}
  BY SegmentFrames
<1> HIDE DEF S
<1>3. e \in 0 .. n /\ o = SubSeq(S, e + 1, n) /\ Carries(S, k, m, e)
  BY <1>1, <1>2 DEF S
<1>4. e # n
  BY <1>2, <1>3, Suffix
<1>5. e < n /\ e + 1 \in Nat /\ e + 1 <= n /\ k <= e + 1 /\ (e + 1) + 1 = e + 2
      /\ n <= n /\ k <= n /\ n \in Nat
  BY <1>1, <1>2, <1>3, <1>4
<1>6. Head(o) = S[e + 1] /\ Tail(o) = SubSeq(S, e + 2, n)
  BY <1>2, <1>3, <1>5, Suffix
<1>7. Carries(S, k, m \o <<Head(o)>>, e + 1)
  <2> DEFINE f == Head(o)
  <2>1. f \in Frame(Byte) /\ f = S[e + 1]
    BY <1>6, RestType
  <2> HIDE DEF f
  <2>2. <<f>> \in Seq(Frame(Byte)) /\ 1 \in Nat /\ 1 = Len(<<f>>) /\ <<f>>[1] = S[e + 1]
    BY <2>1
  <2>3. \A i \in 1 .. 1 : <<f>>[i] = S[e + i]
    BY <2>2
  <2>4. Carries(S, k, m \o <<f>>, e + 1)
    BY <1>1, <1>3, <2>2, <2>3, CarriesMore
  <2>5. QED
    BY <2>4 DEF f
<1>8. Carries(S, k, m \o o, n)
  <2> DEFINE d == n - e
  <2>1. d \in Nat /\ e + d = n /\ e + 1 \in Nat \ {0} /\ e + 1 <= n + 1
        /\ n - (e + 1) + 1 = d /\ (e + 1) - 1 = e
    BY <1>2, <1>5
  <2>2. Len(o) = d /\ \A i \in 1 .. d : o[i] = S[e + i]
    <3>1. /\ Len(o) = n - (e + 1) + 1
          /\ \A i \in 1 .. n - (e + 1) + 1 : o[i] = S[(e + 1) - 1 + i]
      BY <1>2, <1>3, <1>5, <2>1, Slice
    <3>2. QED
      BY <2>1, <3>1
  <2> HIDE DEF d, n
  <2>3. Carries(S, k, m \o o, e + d)
    BY <1>1, <1>3, <2>1, <2>2, CarriesMore
  <2>4. QED
    BY <2>1, <2>3
<1>9. SubSeq(S, n + 1, n) = <<>>
  BY <1>2, Suffix
<1>10. Carried(a, m \o <<Head(o)>>, Tail(o))
  BY <1>1, <1>5, <1>6, <1>7 DEF Carried, S
<1>11. Carried(a, m \o o, <<>>)
  <2>1. /\ InStep(a, p, k) /\ k <= n /\ n <= n /\ n \in Nat
        /\ Carries(S, k, m \o o, n) /\ <<>> = SubSeq(S, n + 1, n)
    BY <1>1, <1>5, <1>8, <1>9
  <2>2. QED
    BY <2>1 DEF Carried, S
<1>12. QED
  BY <1>10, <1>11

LEMMA CarriedBlank ==
  ASSUME NEW a, NEW m \in Seq(Frame(Byte)), NEW o, Carried(a, m, o),
         NEW bs \in Seq(Frame(Byte)), Only(bs, {"empty"})
  PROVE  Carried(a, m \o bs, o)
<1>1. PICK p \in Payload \ {<<>>}, k, e \in Nat :
        /\ InStep(a, p, k) /\ k <= e /\ e <= Len(Segment(p))
        /\ Carries(Segment(p), k, m, e)
        /\ o = SubSeq(Segment(p), e + 1, Len(Segment(p)))
  BY DEF Carried
<1>2. Carries(Segment(p), k, m \o bs, e)
  BY <1>1, CarriesBlank
<1>3. QED
  BY <1>1, <1>2 DEF Carried

\* A frame reaches the tester: a blank, or the next of the response.
LEMMA CarriedTail ==
  ASSUME NEW a, NEW m \in Seq(Frame(Byte)), m # <<>>, NEW o, Carried(a, m, o)
  PROVE  /\ Head(m).t = "empty" => Carried(a, Tail(m), o)
         /\ Head(m).t # "empty" =>
              Completes(a, Head(m)) \/ Carried(Fed(a, Head(m)), Tail(m), o)
<1>1. PICK p \in Payload \ {<<>>}, k, e \in Nat :
        /\ InStep(a, p, k) /\ k <= e /\ e <= Len(Segment(p))
        /\ Carries(Segment(p), k, m, e)
        /\ o = SubSeq(Segment(p), e + 1, Len(Segment(p)))
  BY DEF Carried
<1> DEFINE S == Segment(p)  n == Len(S)
<1>2. n \in Nat \ {0} /\ \A x \in 2 .. n : S[x].t = "CF"
  BY SegmentFrames
<1>3. k \in 1 .. n - 1
  BY <1>1 DEF InStep
<1>4. \A x \in k + 1 .. e : S[x].t # "empty"
  <2>1. \A x \in k + 1 .. e : x \in 2 .. n
    BY <1>1, <1>2, <1>3
  <2>2. QED
    BY <1>2, <2>1
<1>5. /\ Head(m).t = "empty" => Carries(S, k, Tail(m), e)
      /\ Head(m).t # "empty" =>
           k < e /\ Head(m) = S[k + 1] /\ Carries(S, k + 1, Tail(m), e)
  BY <1>1, <1>4, CarriesTail
<1>6. CASE Head(m).t = "empty"
  BY <1>1, <1>5, <1>6 DEF Carried
<1>7. CASE Head(m).t # "empty"
  <2>1. k < e /\ Head(m) = S[k + 1] /\ Carries(S, k + 1, Tail(m), e)
    BY <1>5, <1>7
  <2>2. k + 1 \in Nat /\ k + 1 <= e
    BY <2>1
  <2>3. k + 1 < n \/ k + 1 = n
    BY <1>2, <1>3
  <2>4. CASE k + 1 < n
    <3>1. InStep(Fed(a, S[k + 1]), p, k + 1)
      BY <1>1, <2>4, NextInStep
    <3>2. QED
      BY <1>1, <1>7, <2>1, <2>2, <3>1 DEF Carried
  <2>5. CASE k + 1 = n
    BY <1>1, <1>7, <2>1, <2>5, NextInStep
  <2>6. QED
    BY <2>3, <2>4, <2>5
<1>8. QED
  BY <1>6, <1>7

\* If nothing of it is on its way, there is something to be sent.
LEMMA CarriedRest ==
  ASSUME NEW a, NEW m \in Seq(Frame(Byte)), NEW o, Carried(a, m, o)
  PROVE  /\ a.on = TRUE /\ Only(m, Late)
         /\ Only(m, {"empty"}) => o # <<>>
<1>1. PICK p \in Payload \ {<<>>}, k, e \in Nat :
        /\ InStep(a, p, k) /\ k <= e /\ e <= Len(Segment(p))
        /\ Carries(Segment(p), k, m, e)
        /\ o = SubSeq(Segment(p), e + 1, Len(Segment(p)))
  BY DEF Carried
<1> DEFINE S == Segment(p)  n == Len(S)
<1>2. /\ n \in Nat \ {0} /\ S \in Seq(Frame(Byte))
      /\ \A x \in 2 .. n : S[x].t = "CF"
  BY SegmentFrames
<1>3. k \in 1 .. n - 1
  BY <1>1 DEF InStep
<1>4. a.on = TRUE
  BY <1>1, InStepHasGot DEF HasGot
<1>5. PICK pos : Places(S, k, m, e, pos)
  BY <1>1 DEF Carries
<1>6. /\ pos \in [k + 1 .. e -> 1 .. Len(m)]
      /\ \A x \in k + 1 .. e : m[pos[x]] = S[x]
      /\ \A j \in 1 .. Len(m) : m[j].t = "empty" \/ \E x \in k + 1 .. e : pos[x] = j
  BY <1>5 DEF Places
<1>7. \A x \in k + 1 .. e : S[x].t = "CF"
  <2>1. \A x \in k + 1 .. e : x \in 2 .. n
    BY <1>1, <1>2, <1>3
  <2>2. QED
    BY <1>2, <2>1
<1>8. Only(m, Late)
  BY <1>6, <1>7, TypeSets DEF Only
<1>9. ASSUME Only(m, {"empty"})
      PROVE  o # <<>>
  <2>1. ~(k < e)
    <3>1. SUFFICES ASSUME k < e PROVE FALSE
      OBVIOUS
    <3>2. k + 1 \in k + 1 .. e
      BY <3>1
    <3>3. pos[k + 1] \in 1 .. Len(m) /\ m[pos[k + 1]].t = "CF"
      BY <1>6, <1>7, <3>2
    <3>4. QED
      BY <1>9, <3>3 DEF Only
  <2>2. e = k /\ e \in 0 .. n /\ e # n
    BY <1>1, <1>2, <1>3, <2>1
  <2>3. QED
    BY <1>1, <1>2, <2>2, Suffix
<1>10. QED
  BY <1>4, <1>8, <1>9

-----------------------------------------------------------------------------
(* Calls that end by themselves unless another frame is lost *)

\* The first frame of the response is on its way, and the worker waits for
\* flow control if there are more.
Opens(w) ==
  /\ phase[w] = "await" /\ ans[w] # NoAnswer
  /\ \E i : /\ Ends(Own(w), i)
            /\ \/ Own(w)[i].t = "SF"
               \/ Own(w)[i].t = "FF" /\ pc[w] \in {"first", "fc"}

\* It has flow control in its queue,
MayGo(w) ==
  /\ phase[w] = "await" /\ ans[w] # NoAnswer /\ queue[w] # <<>>
  /\ pc[w] \in {"first", "fc"}
  /\ \E p \in Payload \ {<<>>} : InStep(tasm[w], p, 1) /\ out[w] = Tail(Segment(p))

\* or has had it, and sends the rest.
Flows(w) ==
  /\ phase[w] = "await" /\ ans[w] # NoAnswer /\ queue[w] = <<>>
  /\ pc[w] \notin {"first", "fc"} /\ Carried(tasm[w], Own(w), out[w])
  /\ out[w] # <<>> => pc[w] = "cf"

OnTrack(w) ==
  \/ phase[w] = "idle"
  \/ /\ phase[w] = "offer"
     /\ queue[w] # <<>> \/ \E i : Ends(Own(w), i) /\ Own(w)[i].t = "FC"
  \/ phase[w] = "await" /\ ans[w] = NoAnswer
  \/ Opens(w) \/ MayGo(w) \/ Flows(w)

\* In which stages a call is that is on track.
LEMMA EndsNotLate ==
  ASSUME NEW m, NEW i, Ends(m, i), m[i].t \notin Late
  PROVE  ~Only(m, Late) /\ ~Only(m, {"empty"})
BY TypeSets DEF Ends, Only

LEMMA TrackStages ==
  ASSUME STypeInv, NEW w \in Worker, InOrder(w)
  PROVE  /\ Opens(w) => OpenedStage(w)
         /\ MayGo(w) => GrantedStage(w)
         /\ Flows(w) => FlowingStage(w)
<1>1. ASSUME Opens(w)
      PROVE  OpenedStage(w)
  <2>1. PICK i : Ends(Own(w), i) /\ Own(w)[i].t \in {"SF", "FF"}
    BY <1>1 DEF Opens
  <2>2. ~Only(Own(w), Late) /\ ~Only(Own(w), {"empty"})
    BY <2>1, EndsNotLate, TypeSets
  <2>3. QED
    BY <1>1, <2>2
    DEF Opens, InOrder, IdleStage, OfferStage, AskedStage, GrantedStage, FlowingStage
<1>2. ASSUME MayGo(w)
      PROVE  GrantedStage(w)
  BY <1>2
  DEF MayGo, InOrder, IdleStage, OfferStage, AskedStage, OpenedStage, FlowingStage
<1>3. ASSUME Flows(w)
      PROVE  FlowingStage(w)
  <2>1. /\ phase[w] = "await" /\ ans[w] # NoAnswer /\ queue[w] = <<>>
        /\ Carried(tasm[w], Own(w), out[w]) /\ (out[w] # <<>> => pc[w] = "cf")
    BY <1>3 DEF Flows
  <2>2. /\ tasm[w].on = TRUE /\ Only(Own(w), Late)
        /\ Only(Own(w), {"empty"}) => out[w] # <<>>
    BY <2>1, OwnType, CarriedRest
  <2>3. ~OpenedStage(w)
    <3>1. SUFFICES ASSUME OpenedStage(w) PROVE FALSE
      OBVIOUS
    <3>2. Only(Own(w), NotCF) /\ pc[w] # "cf"
      BY <2>2, <3>1 DEF OpenedStage
    <3>3. Only(Own(w), {"empty"})
      BY <2>2, <3>2 DEF Only, Late, NotCF
    <3>4. QED
      BY <2>1, <2>2, <3>2, <3>3
  <2>4. QED
    BY <2>1, <2>3 DEF InOrder, IdleStage, OfferStage, AskedStage, GrantedStage
<1>4. QED
  BY <1>1, <1>2, <1>3

\* When nothing is under way for a call on track, its worker sends.
LEMMA TrackMoves ==
  ASSUME STypeInv, NEW w \in Worker, InOrder(w), OnTrack(w), phase[w] # "idle",
         queue[w] = <<>>, Only(Own(w), {"empty"})
  PROVE  pc[w] = "cf"
<1>1. \A i : Ends(Own(w), i) => Own(w)[i].t = "empty"
  BY DEF Ends, Only
<1>2. ~(phase[w] = "offer")
  BY <1>1 DEF OnTrack, Opens, MayGo, Flows
<1>3. ans[w] # NoAnswer
  <2>1. SUFFICES ASSUME ans[w] = NoAnswer PROVE FALSE
    OBVIOUS
  <2>2. AskedStage(w)
    BY <1>2, <2>1
    DEF InOrder, IdleStage, OfferStage, OpenedStage, GrantedStage, FlowingStage
  <2>3. QED
    BY <2>2, AskedParts DEF AskedStage
<1>4. Flows(w)
  BY <1>1, <1>2, <1>3 DEF OnTrack, Opens, MayGo
<1>5. QED
  BY <1>4, OwnType, CarriedRest DEF Flows

\* The steps of the other session, and leftovers that arrive, change nothing.
LEMMA StaysOnTrack ==
  ASSUME STypeInv, NEW w \in Worker, InOrder(w), OnTrack(w), Stays(w),
         LateStep(Own(w), Own(w)'),
         BlankStep(Own(w), Own(w)') \/ ~FlowingStage(w)
  PROVE  OnTrack(w)'
<1> DEFINE m == Own(w)  n == Own(w)'
<1>1. m \in Seq(Frame(Byte))
  BY OwnType
<1>2. \A i : Ends(m, i) /\ m[i].t \notin Late => \E j : Ends(n, j) /\ n[j] = m[i]
  BY <1>1, LateStepKeeps
<1> HIDE DEF m, n
<1>3. CASE phase[w] = "idle" \/ (phase[w] = "await" /\ ans[w] = NoAnswer)
  BY <1>3 DEF OnTrack, Stays
<1>4. CASE phase[w] = "offer" /\ queue[w] # <<>>
  BY <1>4 DEF OnTrack, Stays
<1>5. CASE phase[w] = "offer" /\ \E i : Ends(m, i) /\ m[i].t = "FC"
  <2>1. \E j : Ends(n, j) /\ n[j].t = "FC"
    BY <1>2, <1>5 DEF Late
  <2>2. QED
    BY <1>5, <2>1 DEF OnTrack, Stays, n
<1>6. CASE Opens(w)
  <2>1. PICK i : /\ Ends(m, i)
                 /\ \/ m[i].t = "SF"
                    \/ m[i].t = "FF" /\ pc[w] \in {"first", "fc"}
    BY <1>6 DEF Opens, m
  <2>2. PICK j : Ends(n, j) /\ n[j] = m[i]
    BY <1>2, <2>1 DEF Late
  <2>3. Opens(w)'
    BY <1>6, <2>1, <2>2 DEF Opens, Stays, n
  <2>4. QED
    BY <2>3 DEF OnTrack
<1>7. CASE MayGo(w)
  <2>1. MayGo(w)'
    BY <1>7 DEF MayGo, Stays
  <2>2. QED
    BY <2>1 DEF OnTrack
<1>8. CASE Flows(w)
  <2>1. BlankStep(m, n) /\ Carried(tasm[w], m, out[w])
    BY <1>8, TrackStages DEF Flows, m, n
  <2>2. Carried(tasm[w], n, out[w])
    <3>1. CASE n = m
      BY <2>1, <3>1
    <3>2. CASE \E bs \in Seq(Frame(Byte)) : Only(bs, {"empty"}) /\ n = m \o bs
      BY <1>1, <2>1, <3>2, CarriedBlank
    <3>3. CASE m # <<>> /\ n = Tail(m) /\ Head(m).t \in {"empty"}
      BY <1>1, <2>1, <3>3, CarriedTail
    <3>4. QED
      BY <2>1, <3>1, <3>2, <3>3 DEF BlankStep, Shifts
  <2>3. Flows(w)'
    BY <1>8, <2>2 DEF Flows, Stays, n
  <2>4. QED
    BY <2>3 DEF OnTrack
<1>9. QED
  BY <1>3, <1>4, <1>5, <1>6, <1>7, <1>8 DEF OnTrack, m

\* Steps of the worker.
LEMMA WokenOnTrack ==
  ASSUME STypeInv, NEW w \in Worker, OnTrack(w), Unheard(w), Woken(w) \/ HasSent(w)
  PROVE  OnTrack(w)'
<1>1. /\ Own(w)' = Own(w) /\ queue'[w] = queue[w] /\ out'[w] = out[w]
      /\ pc[w] \in {"first", "fc"} => pc'[w] \in {"first", "fc"}
      /\ pc[w] \notin {"first", "fc"} => pc'[w] = "get"
      /\ pc[w] = "cf" => out[w] = <<>>
  BY DEF Woken, HasSent, Rests
<1>2. Opens(w) => Opens(w)'
  BY <1>1 DEF Opens, Unheard, Hushed
<1>3. MayGo(w) => MayGo(w)'
  BY <1>1 DEF MayGo, Unheard, Hushed
<1>4. Flows(w) => Flows(w)'
  BY <1>1 DEF Flows, Unheard, Hushed
<1>5. QED
  BY <1>1, <1>2, <1>3, <1>4 DEF OnTrack, Unheard, Hushed

LEMMA SendsOnOnTrack ==
  ASSUME STypeInv, NEW w \in Worker, InOrder(w), OnTrack(w), Unheard(w), SendsOn(w)
  PROVE  OnTrack(w)'
<1> DEFINE m == Own(w)  f == Head(out[w])  n == m \o <<f>>
<1>1. /\ pc[w] = "cf" /\ pc'[w] = "cf" /\ queue'[w] = queue[w]
      /\ Own(w)' = n /\ out'[w] = Tail(out[w]) /\ out[w] # <<>>
  BY DEF SendsOn, Rests
<1>2. m \in Seq(Frame(Byte)) /\ out[w] \in Seq(Frame(Byte))
  BY OwnType
<1>3. ~Opens(w) /\ ~MayGo(w)
  BY <1>1, TrackStages DEF OpenedStage, MayGo
<1>4. phase[w] = "offer" => queue[w] # <<>>
  <2>1. SUFFICES ASSUME phase[w] = "offer", queue[w] = <<>> PROVE FALSE
    OBVIOUS
  <2>2. PICK i : Ends(m, i) /\ m[i].t = "FC"
    BY <1>3, <2>1 DEF OnTrack, Flows
  <2>3. ~Only(m, Late)
    BY <2>2, EndsNotLate DEF Late
  <2>4. QED
    BY <1>1, <2>1, <2>3
    DEF InOrder, IdleStage, OfferStage, AskedStage, OpenedStage, GrantedStage, FlowingStage
<1>5. Carried(tasm[w], m, out[w]) => Carried(tasm[w], n, Tail(out[w]))
  BY <1>1, <1>2, CarriedGrows
<1> HIDE DEF m, n
<1>6. Flows(w) => Flows(w)'
  BY <1>1, <1>5 DEF Flows, Unheard, Hushed, m
<1>7. QED
  BY <1>1, <1>3, <1>4, <1>6 DEF OnTrack, Unheard, Hushed

LEMMA FeedsOnTrack ==
  ASSUME STypeInv, NEW w \in Worker, InOrder(w), OnTrack(w), Unheard(w), Feeds(w)
  PROVE  OnTrack(w)'
<1> DEFINE m == Own(w)  n == Own(w)'  t == Taken(w)
<1>1. /\ pc[w] = "get" /\ queue[w] # <<>> /\ queue'[w] = Tail(queue[w])
      /\ n = IF IsFirst(t) THEN m \o <<FlowControl>> ELSE m
  BY DEF Feeds, Takes
<1>2. m \in Seq(Frame(Byte)) /\ FlowControl \in Frame(Byte) /\ FlowControl.t = "FC"
  BY OwnType, FlowControlType DEF FlowControl
<1>3. ~Opens(w) /\ ~MayGo(w) /\ ~Flows(w)
  BY <1>1, TrackStages DEF OpenedStage, MayGo, Flows
<1> HIDE DEF m, n, t
<1>4. CASE phase[w] = "offer"
  <2>1. OfferStage(w)
    BY <1>4 DEF InOrder, IdleStage, AskedStage, OpenedStage, GrantedStage, FlowingStage
  <2>2. /\ req[w] \in Requests[w] /\ Len(Asks(w)) > 1 /\ Only(m, Late)
        /\ queue[w] = <<Asks(w)[1]>>
    BY <1>1, <2>1 DEF OfferStage, m
  <2>3. IsFirst(t)
    BY <2>2, FirstAsked DEF t
  <2>4. \E i : Ends(n, i) /\ n[i].t = "FC"
    <3>1. n = m \o <<FlowControl>>
      BY <1>1, <2>3
    <3>2. \E i : Ends(m \o <<FlowControl>>, i) /\ (m \o <<FlowControl>>)[i] = FlowControl
      BY <1>2, <2>2, EndsAppend
    <3>3. QED
      BY <1>2, <3>1, <3>2
  <2>5. QED
    BY <1>4, <2>4 DEF OnTrack, Unheard, Hushed, n
<1>5. CASE phase[w] # "offer"
  BY <1>3, <1>5 DEF OnTrack, Unheard, Hushed
<1>6. QED
  BY <1>4, <1>5

LEMMA GrantsOnTrack ==
  ASSUME STypeInv, NEW w \in Worker, InOrder(w), OnTrack(w), Unheard(w), Grants(w)
  PROVE  OnTrack(w)'
<1> DEFINE m == Own(w)  n == Own(w)'  o == out[w]
<1>1. /\ pc[w] = "fc" /\ queue[w] # <<>> /\ queue'[w] = Tail(queue[w])
      /\ \/ n = m \o <<Head(o)>> /\ out'[w] = Tail(o) /\ pc'[w] = "cf"
         \/ n = m \o o /\ out'[w] = <<>> /\ pc'[w] = "get"
  BY DEF Grants, Takes
<1>2. GrantedStage(w)
  BY <1>1 DEF InOrder, IdleStage, OfferStage, AskedStage, OpenedStage, FlowingStage, Quiet
<1>3. /\ phase[w] = "await" /\ ans[w] # NoAnswer /\ queue[w] = <<FlowControl>>
      /\ Only(m, {"empty"})
  BY <1>2 DEF GrantedStage
<1>4. MayGo(w)
  <2>1. ~Opens(w)
    BY <1>1, TrackStages DEF OpenedStage
  <2>2. QED
    BY <1>1, <1>3, <2>1 DEF OnTrack, Flows
<1>5. PICK p \in Payload \ {<<>>} : InStep(tasm[w], p, 1) /\ o = Tail(Segment(p))
  BY <1>4 DEF MayGo
<1>6. m \in Seq(Frame(Byte)) /\ o \in Seq(Frame(Byte))
  BY OwnType
<1>7. o # <<>>
  BY <1>1 DEF STypeInv, TypeInv, PendingOK
<1>8. Carried(tasm[w], m, o)
  BY <1>3, <1>5, <1>6, CarriedNone
<1>9. Carried(tasm[w], m \o <<Head(o)>>, Tail(o)) /\ Carried(tasm[w], m \o o, <<>>)
  BY <1>6, <1>7, <1>8, CarriedGrows
<1>10. Carried(tasm[w], n, out'[w]) /\ (out'[w] # <<>> => pc'[w] = "cf")
       /\ pc'[w] \notin {"first", "fc"}
  BY <1>1, <1>9
<1>11. queue'[w] = <<>>
  BY <1>1, <1>3, GrantTaken
<1> HIDE DEF m, n, o
<1>12. Flows(w)'
  BY <1>3, <1>10, <1>11 DEF Flows, Unheard, Hushed, n
<1>13. QED
  BY <1>12 DEF OnTrack

\* The handler's response opens, if no fault is injected into it and it is not
\* too long for segment().
LEMMA AnswersOnTrack ==
  ASSUME STypeInv, ~HasErrors, NEW w \in Worker, InOrder(w), Answers(w), Hushed(w),
         Segmentable(Reply(w, Got(w))), ans'[w] = Decoded(Reply(w, Got(w)))
  PROVE  OnTrack(w)' /\ ans'[w] # NoAnswer /\ SentClean(w, Reply(w, Got(w)))
<1> DEFINE m == Own(w)  n == Own(w)'  p == Reply(w, Got(w))  S == Segment(p)
<1>1. /\ phase[w] = "await" /\ Only(m, Late) /\ req[w] \in Requests[w]
      /\ Got(w) = Encoded(w, req[w])
  BY AnswersWhat
<1>2. p \in Payload \ {<<>>} /\ ans'[w] # NoAnswer
  BY <1>1, AnswerGiven
<1>3. m \in Seq(Frame(Byte))
  BY OwnType
<1>4. Injected(S) = {S}
  BY DEF Injected
<1>5. Replies(w, p)
  BY DEF Answers
<1>6. /\ n = m \o <<S[1]>> /\ txq'[Len(txq')].f = S[1] /\ out'[w] = Tail(S)
      /\ IF Len(S) = 1 THEN pc'[w] \in {"single", "get"} ELSE pc'[w] \in {"first", "fc"}
  <2> HIDE DEF m, n, p, S
  <2>1. \E fs \in {S} :
          /\ n = m \o <<fs[1]>> /\ txq'[Len(txq')].f = fs[1]
          /\ out'[w] = Tail(fs)
          /\ IF Len(fs) = 1 THEN pc'[w] \in {"single", "get"} ELSE pc'[w] \in {"first", "fc"}
    BY <1>2, <1>4, <1>5 DEF Replies, m, n, p, S
  <2>2. QED
    BY <2>1
<1>7. /\ S[1] \in Frame(Byte)
      /\ S[1].t = "SF" \/ (S[1].t = "FF" /\ Len(S) # 1)
  <2>1. S \in Seq(Frame(Byte)) /\ S # <<>> /\ (Len(S) = 1 \/ Len(S) > 1)
    BY <1>2, SegmentFrames, ListParts
  <2>2. QED
    BY <1>2, <2>1, SegmentFrames, RestType
<1> DEFINE f == S[1]
<1>8. PICK i : Ends(n, i) /\ n[i] = f
  <2>1. f \in Frame(Byte) /\ n = m \o <<f>>
    BY <1>6, <1>7
  <2> HIDE DEF f, m, n
  <2>2. \E i : Ends(m \o <<f>>, i) /\ (m \o <<f>>)[i] = f
    BY <1>1, <1>3, <2>1, EndsAppend DEF m
  <2>3. QED
    BY <2>1, <2>2
<1>9. SentClean(w, p)
  BY <1>6 DEF SentClean
<1>10. n[i].t = "SF" \/ (n[i].t = "FF" /\ pc'[w] \in {"first", "fc"})
  BY <1>6, <1>7, <1>8
<1> HIDE DEF m, n, p, S, f
<1>11. Opens(w)'
  BY <1>1, <1>2, <1>8, <1>10 DEF Opens, Hushed, n
<1>12. QED
  BY <1>2, <1>9, <1>11 DEF OnTrack, p

\* The timeout for flow control does not expire.
LEMMA NeverTimesOut ==
  ASSUME STypeInv, NEW w \in Worker, InOrder(w), OnTrack(w),
         queue[w] = <<>>, Only(Own(w), {"empty"})
  PROVE  pc[w] # "fc"
<1>1. phase[w] = "idle" => pc[w] # "fc"
  BY DEF InOrder, IdleStage, OfferStage, AskedStage, OpenedStage, GrantedStage, FlowingStage,
         Quiet
<1>2. QED
  BY <1>1, TrackMoves

\* Steps of the tester: a frame arrives that ends nothing.
LEMMA CollectOnTrack ==
  ASSUME STypeInv, NEW w \in Worker, InOrder(w), OnTrack(w), ~faulted[w], Idles(w),
         Own(w) # <<>>, Own(w)' = Tail(Own(w)), NEW h, h = Head(Own(w)),
         phase[w] # "offer" \/ h.t # "FC", phase[w] # "await" \/ ~Completes(tasm[w], h),
         phase'[w] = phase[w], todo'[w] = todo[w], got'[w] = got[w],
         tasm'[w] = Fed(tasm[w], h),
         queue'[w] = IF IsFirst(h) THEN Append(queue[w], FlowControl) ELSE queue[w]
  PROVE  OnTrack(w)'
<1> DEFINE m == Own(w)
<1>0. m \in Seq(Frame(Byte))
  BY OwnType
<1>1. CASE h.t \in Late /\ ~FlowingStage(w)
  BY <1>1, LeftoverStays, StaysOnTrack
<1>2. CASE FlowingStage(w)
  <2>1. /\ phase[w] = "await" /\ ans[w] # NoAnswer /\ queue[w] = <<>>
        /\ Only(m, Late) /\ ~Completes(tasm[w], h)
    BY <1>2 DEF FlowingStage
  <2>2. Flows(w)
    <3>1. ~Opens(w)
      BY <2>1, EndsNotLate, TypeSets DEF Opens
    <3>2. QED
      BY <2>1, <3>1 DEF OnTrack, MayGo
  <2>3. h.t \in Late
    BY <1>0, <2>1, OnlyTail
  <2>4. ~IsFirst(h)
    BY <2>3, TypeSets DEF IsFirst
  <2>5. Carried(tasm'[w], Tail(m), out[w])
    <3>1. Carried(tasm[w], m, out[w])
      BY <2>2 DEF Flows
    <3>2. CASE h.t = "empty"
      BY <1>0, <3>1, <3>2, CarriedTail, IgnoresOther DEF Ignores
    <3>3. CASE h.t # "empty"
      BY <1>0, <2>1, <3>1, <3>3, CarriedTail
    <3>4. QED
      BY <3>2, <3>3
  <2>6. Flows(w)'
    BY <2>1, <2>2, <2>4, <2>5 DEF Flows, Idles
  <2>7. QED
    BY <2>6 DEF OnTrack
<1>3. CASE OpenedStage(w) /\ h.t \in {"SF", "FF"}
  <2>1. /\ phase[w] = "await" /\ ans[w] # NoAnswer /\ queue[w] = <<>>
        /\ ~Completes(tasm[w], h)
    BY <1>3 DEF OpenedStage
  <2>2. CleanFirst(w, h)
    BY <1>3, HeadCases, TypeSets
  <2>3. PICK p \in Payload \ {<<>>} :
          /\ h = Segment(p)[1]
          /\ pc[w] \in {"first", "fc"} => out[w] = Tail(Segment(p))
    BY <2>2 DEF CleanFirst
  <2>4. Len(Segment(p)) > 1
    <3>1. Segment(p) \in Seq(Frame(Byte)) /\ Segment(p) # <<>>
      BY SegmentFrames
    <3>2. Len(Segment(p)) = 1 \/ Len(Segment(p)) > 1
      BY <3>1, ListParts
    <3>3. QED
      BY <2>1, <2>3, <3>2, SingleCompletes
  <2>5. h.t = "FF" /\ IsFirst(h) /\ InStep(tasm'[w], p, 1)
    <3>1. Segment(p)[1].t = "FF"
      BY <2>4, SegmentFrames
    <3>2. IsFirst(Segment(p)[1]) /\ InStep(Fed(tasm[w], Segment(p)[1]), p, 1)
      BY <2>4, FirstStarts
    <3>3. QED
      BY <2>3, <3>1, <3>2
  <2>6. Opens(w)
    <3>1. ~Only(m, Late)
      BY <1>0, <2>5, OnlyTail DEF Late
    <3>2. ~Flows(w)
      BY <3>1, TrackStages DEF FlowingStage
    <3>3. QED
      BY <2>1, <3>2 DEF OnTrack, MayGo
  <2>7. pc[w] \in {"first", "fc"}
    <3>1. PICK i : /\ Ends(m, i)
                   /\ \/ m[i].t = "SF"
                      \/ m[i].t = "FF" /\ pc[w] \in {"first", "fc"}
      BY <2>6 DEF Opens
    <3>2. m[i] = h
      BY <1>0, <2>5, <3>1, EndsTail DEF Late
    <3>3. QED
      BY <2>5, <3>1, <3>2
  <2>8. queue'[w] # <<>>
    <3>1. queue'[w] = <<FlowControl>>
      BY <2>1, <2>5
    <3>2. \A x : <<x>> # <<>>
      OBVIOUS
    <3>3. QED
      BY <3>1, <3>2
  <2>9. MayGo(w)'
    BY <2>1, <2>3, <2>5, <2>7, <2>8 DEF MayGo, Idles
  <2>10. QED
    BY <2>9 DEF OnTrack
<1>4. QED
  BY <1>1, <1>2, <1>3, HeadCases DEF OfferStage

\* The device starts before anything is answered.
LEMMA StartsOnTrack ==
  ASSUME NEW w \in Worker, OnTrack(w), pc[w] = "new", pc'[w] = "get",
         UNCHANGED <<txq, queue, out, phase, tasm, ans>>
  PROVE  OnTrack(w)'
<1>1. Own(w)' = Own(w) /\ ~MayGo(w)
  BY DEF Own, MayGo
<1>2. Opens(w) => Opens(w)'
  BY <1>1 DEF Opens
<1>3. Flows(w) => Flows(w)'
  BY <1>1 DEF Flows
<1>4. QED
  BY <1>1, <1>2, <1>3 DEF OnTrack

-----------------------------------------------------------------------------
(* Every call but those that a lost frame spoils comes to an answer *)

\* The timeouts outlast everything in progress, no faults are injected, and
\* every value that is loaded or written has at least one byte where UDS
\* writes it and fits into the response to a read.
Calm ==
  /\ Patient /\ ~HasErrors
  /\ \A d \in Known : \A v \in Written(d) : Len(v) <= MaxLen - 2
  /\ \A r \in Requests["UDS"] : r.op = "write" => r.val # <<>>

\* The device has not answered before it starts, and no response was changed.
CalmInv ==
  /\ ValuesInv /\ PatientInv
  /\ life = "new" => \A w \in Worker : pc[w] = "new"
  /\ \A w \in Worker : faulted[w] = FALSE

LEMMA ReplyFits ==
  ASSUME Calm, ValuesInv, NEW w \in Worker, NEW r \in Requests[w]
  PROVE  Segmentable(Reply(w, Encoded(w, r)))
<1>1. \A d \in Known : Len(store[d]) <= MaxLen - 2
  BY DEF Calm, ValuesInv, WholeValues
<1>2. Encoded(w, r) \in Payload /\ store \in Store
  BY EncodedIs DEF ValuesInv, STypeInv, TypeInv, TypeOK
<1>3. QED
  BY <1>1, <1>2, UdsReplyType, S77ReplyType DEF Reply

\* A step of worker w.
LEMMA WorksOnTrack ==
  ASSUME Calm, CalmInv, NEW w \in Worker, Works(w) \/ Expires(w),
         NEW v \in Worker, OnTrack(v)
  PROVE  OnTrack(v)'
<1>0. /\ STypeInv /\ InOrder(w) /\ InOrder(v) /\ (Work(w) \/ TimeoutFC(w))
      /\ ans \in [Worker -> Outcomes] /\ faulted \in [Worker -> BOOLEAN]
      /\ UNCHANGED <<phase, req, todo, tasm, got>>
  BY DEF CalmInv, PatientInv, STypeInv, TesterOK, Works, Expires, testers
<1>1. CASE v # w
  <2>1. queue'[v] = queue[v] /\ asm'[v] = asm[v] /\ pc'[v] = pc[v] /\ out'[v] = out[v]
    BY <1>0, <1>1, WorkLocal
  <2>2. ans'[v] = ans[v] /\ faulted'[v] = faulted[v]
    BY <1>0, <1>1 DEF Works, Expires, testers
  <2>3. Stays(v)
    BY <1>0, <2>1, <2>2 DEF Stays
  <2>4. BlankStep(Own(v), Own(v)') /\ LateStep(Own(v), Own(v)')
    BY <1>0, <1>1, OtherSees, BlankIsLate
  <2>5. QED
    BY <1>0, <2>3, <2>4, StaysOnTrack
<1>2. Hushed(w)
  BY <1>0 DEF Hushed
<1>3. ASSUME Works(w), OnTrack(w)
      PROVE  OnTrack(w)'
  <2>1. Work(w)
    BY <1>3 DEF Works
  <2>2. CASE ~Handling(w)
    <3>1. Unheard(w)
      BY <1>2, <1>3, <2>2 DEF Works, Unheard
    <3>2. Woken(w) \/ SendsOn(w) \/ HasSent(w) \/ Feeds(w) \/ Grants(w)
      BY <1>0, <2>1, <2>2, WorkEffects, NeverPuzzled DEF Answers
    <3>3. QED
      BY <1>0, <1>3, <3>1, <3>2, WokenOnTrack, SendsOnOnTrack, FeedsOnTrack, GrantsOnTrack
  <2>3. CASE Handling(w)
    <3>1. ans'[w] = Decoded(Reply(w, Got(w)))
      BY <1>0, <1>3, <2>3 DEF Works
    <3>2. Answers(w)
      BY <1>0, <2>1, <2>3, WorkEffects
    <3>3. Segmentable(Reply(w, Got(w)))
      BY <1>0, <3>2, AnswersWhat, ReplyFits DEF CalmInv
    <3>4. QED
      BY <1>0, <1>2, <3>1, <3>2, <3>3, AnswersOnTrack DEF Calm
  <2>4. QED
    BY <2>2, <2>3
<1>4. ASSUME Expires(w), OnTrack(w)
      PROVE  OnTrack(w)'
  <2>1. Settled(w) /\ TimeoutFC(w)
    BY <1>4 DEF Expires, Calm
  <2>2. pc[w] = "fc"
    BY <2>1 DEF TimeoutFC
  <2>3. QED
    BY <1>0, <1>4, <2>1, <2>2, SettledOwn, NeverTimesOut
<1>5. QED
  BY <1>1, <1>3, <1>4

\* A step of tester w.
LEMMA TestsOnTrack ==
  ASSUME CalmInv, NEW w \in Worker, Tests(w), NEW v \in Worker, OnTrack(v)
  PROVE  OnTrack(v)'
<1>0. /\ STypeInv /\ InOrder(w) /\ InOrder(v) /\ ~faulted[w]
      /\ queue \in [Worker -> Seq(Frame(Byte))]
      /\ phase \in [Worker -> {"idle", "offer", "await"}]
      /\ todo \in [Worker -> Seq(Frame(Byte))] /\ tasm \in [Worker -> Assembler(Byte)]
      /\ got \in [Worker -> Outcomes]
  BY DEF CalmInv, PatientInv, STypeInv, TypeInv, TypeOK, TesterOK
<1>1. txq # <<>> /\ Head(txq).w = w /\ txq' = Tail(txq)
  BY DEF Tests, Continue, Collect, Return, Arrives
<1>2. /\ UNCHANGED <<asm, pc, out, req, ans, faulted>>
      /\ phase' = phase \/ phase' = [phase EXCEPT ![w] = phase'[w]]
      /\ todo' = todo \/ todo' = [todo EXCEPT ![w] = todo'[w]]
      /\ tasm' = tasm \/ tasm' = [tasm EXCEPT ![w] = tasm'[w]]
      /\ got' = got \/ got' = [got EXCEPT ![w] = got'[w]]
      /\ queue' = queue \/ queue' = [queue EXCEPT ![w] = queue'[w]]
  BY <1>0 DEF Tests, Continue, Collect, Return, DeviceIdle, Deliver
<1>3. CASE v # w
  <2>1. Stays(v)
    BY <1>0, <1>2, <1>3 DEF Stays
  <2>2. BlankStep(Own(v), Own(v)') /\ LateStep(Own(v), Own(v)')
    BY <1>0, <1>1, <1>3, PopsOwn, BlankIsLate
  <2>3. QED
    BY <1>0, <2>1, <2>2, StaysOnTrack
<1>4. /\ Own(w) # <<>> /\ Own(w)' = Tail(Own(w)) /\ Head(Own(w)) = Arriving /\ Idles(w)
  BY <1>0, <1>1, <1>2, PopsOwn DEF Idles
<1>5. ASSUME Continue(w)
      PROVE  OnTrack(w)'
  <2>1. phase[w] = "offer" /\ phase'[w] = "await"
    BY <1>0, <1>5 DEF Continue
  <2>2. ans[w] = NoAnswer
    BY <1>0, <2>1
    DEF InOrder, IdleStage, OfferStage, AskedStage, OpenedStage, GrantedStage, FlowingStage
  <2>3. QED
    BY <1>2, <2>1, <2>2 DEF OnTrack
<1>6. ASSUME Collect(w), OnTrack(w)
      PROVE  OnTrack(w)'
  <2>1. /\ phase[w] # "offer" \/ Arriving.t # "FC"
        /\ phase[w] # "await" \/ ~Completes(tasm[w], Arriving)
        /\ phase'[w] = phase[w] /\ todo'[w] = todo[w] /\ got'[w] = got[w]
        /\ tasm'[w] = Fed(tasm[w], Arriving)
        /\ queue'[w] = IF IsFirst(Arriving) THEN Append(queue[w], FlowControl) ELSE queue[w]
    BY <1>0, <1>6 DEF Collect, Deliver
  <2>2. QED
    BY <1>0, <1>4, <1>6, <2>1, CollectOnTrack
<1>7. ASSUME Return(w)
      PROVE  OnTrack(w)'
  <2>1. phase'[w] = "idle"
    BY <1>0, <1>7 DEF Return
  <2>2. QED
    BY <2>1 DEF OnTrack
<1>8. QED
  BY <1>3, <1>5, <1>6, <1>7 DEF Tests

\* A call leaves its track only if a frame of its own is lost.
LEMMA OnTrackStep ==
  ASSUME Calm, CalmInv, [SNext]_svars, NEW v \in Worker, OnTrack(v),
         ~(Lose /\ Head(txq).w = v)
  PROVE  OnTrack(v)'
<1>0. /\ STypeInv /\ InOrder(v)
      /\ queue \in [Worker -> Seq(Frame(Byte))]
      /\ phase \in [Worker -> {"idle", "offer", "await"}]
      /\ todo \in [Worker -> Seq(Frame(Byte))]
      /\ got \in [Worker -> Outcomes] /\ ans \in [Worker -> Outcomes]
      /\ DOMAIN req = Worker
  BY DEF CalmInv, PatientInv, STypeInv, TypeInv, TypeOK, TesterOK
<1>1. ASSUME UNCHANGED <<txq, queue, asm, pc, out>>,
             phase'[v] = phase[v], req'[v] = req[v], todo'[v] = todo[v],
             got'[v] = got[v], ans'[v] = ans[v], UNCHANGED <<tasm, faulted>>
      PROVE  OnTrack(v)'
  <2>1. Stays(v) /\ LateStep(Own(v), Own(v)') /\ BlankStep(Own(v), Own(v)')
    BY <1>1 DEF Stays, LateStep, BlankStep, Shifts, Own
  <2>2. QED
    BY <1>0, <2>1, StaysOnTrack
<1>2. ASSUME NEW w \in Worker, GiveUp(w)
      PROVE  OnTrack(v)'
  <2>1. /\ UNCHANGED <<queue, txq, req, tasm, ans, faulted, asm, pc, out>>
        /\ phase' = [phase EXCEPT ![w] = "idle"]
        /\ todo' = [todo EXCEPT ![w] = <<>>]
        /\ got' = [got EXCEPT ![w] = NoAnswer]
    BY <1>2 DEF GiveUp, DeviceIdle
  <2>2. CASE v = w
    <3>1. phase'[v] = "idle"
      BY <1>0, <2>1, <2>2
    <3>2. QED
      BY <3>1 DEF OnTrack
  <2>3. CASE v # w
    BY <1>0, <1>1, <2>1, <2>3
  <2>4. QED
    BY <2>2, <2>3
<1>3. ASSUME NEW w \in Worker, NEW r \in Requests[w], Call(w, r)
      PROVE  OnTrack(v)'
  <2> DEFINE S == Segment(Encoded(w, r))
  <2>1. /\ Deliver(w, S[1]) /\ DeviceIdle /\ UNCHANGED <<tasm, got, faulted, txq>>
        /\ phase' = [phase EXCEPT ![w] = IF Len(S) = 1 THEN "await" ELSE "offer"]
        /\ todo' = [todo EXCEPT ![w] = Tail(S)]
        /\ req' = [req EXCEPT ![w] = r] /\ ans' = [ans EXCEPT ![w] = NoAnswer]
    BY <1>3 DEF Call
  <2> HIDE DEF S
  <2>2. queue' = [queue EXCEPT ![w] = Append(queue[w], S[1])]
    BY <1>0, <2>1 DEF Deliver
  <2>3. CASE v = w
    <3>1. /\ phase'[v] \in {"await", "offer"} /\ ans'[v] = NoAnswer
          /\ queue'[v] = Append(queue[v], S[1])
      BY <1>0, <2>1, <2>2, <2>3
    <3>2. queue'[v] # <<>>
      <4>1. Len(Append(queue[v], S[1])) = Len(queue[v]) + 1 /\ Len(queue[v]) \in Nat
        BY <1>0
      <4>2. Len(queue'[v]) # 0
        BY <3>1, <4>1
      <4>3. QED
        BY <4>2, EmptySeq
    <3>3. QED
      BY <3>1, <3>2 DEF OnTrack
  <2>4. CASE v # w
    <3>1. /\ queue'[v] = queue[v] /\ asm'[v] = asm[v] /\ pc'[v] = pc[v]
          /\ out'[v] = out[v] /\ Own(v)' = Own(v) /\ Stays(v)
      BY <1>0, <2>1, <2>2, <2>4 DEF Stays, DeviceIdle, Own
    <3>2. LateStep(Own(v), Own(v)') /\ BlankStep(Own(v), Own(v)')
      BY <3>1 DEF LateStep, BlankStep, Shifts
    <3>3. QED
      BY <1>0, <3>1, <3>2, StaysOnTrack
  <2>5. QED
    BY <2>3, <2>4
<1>4. ASSUME Lose
      PROVE  OnTrack(v)'
  <2>1. /\ txq # <<>> /\ txq' = Tail(txq) /\ DeviceIdle /\ Head(txq).w # v
        /\ UNCHANGED <<queue, phase, req, todo, tasm, got, ans, faulted>>
    BY <1>4 DEF Lose
  <2>2. Stays(v)
    BY <2>1 DEF Stays, DeviceIdle
  <2>3. BlankStep(Own(v), Own(v)') /\ LateStep(Own(v), Own(v)')
    BY <1>0, <2>1, PopsOwn, BlankIsLate
  <2>4. QED
    BY <1>0, <2>2, <2>3, StaysOnTrack
<1>5. ASSUME Starts
      PROVE  OnTrack(v)'
  <2>1. /\ pc'[v] = "get" /\ life = "new"
        /\ UNCHANGED <<txq, queue, out, phase, tasm, ans>>
    BY <1>5 DEF Starts, Start, testers
  <2>2. pc[v] = "new"
    BY <2>1 DEF CalmInv
  <2>3. QED
    BY <2>1, <2>2, StartsOnTrack
<1>6. ASSUME NEW w \in Worker, Works(w) \/ Expires(w) \/ Tests(w)
      PROVE  OnTrack(v)'
  BY <1>6, WorksOnTrack, TestsOnTrack
<1>7. CASE UNCHANGED svars
  BY <1>1, <1>7 DEF svars, vars, testers
<1>8. QED
  BY <1>2, <1>3, <1>4, <1>5, <1>6, <1>7 DEF SNext

\* A call is given up only when it has left its track.
LEMMA GivesUpSpoilt ==
  ASSUME Calm, CalmInv, NEW w \in Worker, GiveUp(w)
  PROVE  ~OnTrack(w)
<1>1. phase[w] # "idle" /\ Settled(w) /\ pc[w] # "cf"
  BY DEF GiveUp, Calm, Ended
<1>2. STypeInv /\ InOrder(w)
  BY DEF CalmInv, PatientInv
<1>3. QED
  BY <1>1, <1>2, SettledOwn, TrackMoves

LEMMA CalmStep ==
  ASSUME Calm, CalmInv, [SNext]_svars
  PROVE  CalmInv'
<1>0. /\ STypeInv /\ faulted \in [Worker -> BOOLEAN]
      /\ \A w \in Worker : InOrder(w) /\ faulted[w] = FALSE
      /\ life = "new" => \A w \in Worker : pc[w] = "new"
  BY DEF CalmInv, PatientInv, STypeInv, TesterOK
<1>1. ValuesInv' /\ PatientInv'
  BY ValuesStep, PatientStep DEF CalmInv, Calm
<1>2. ASSUME NEW w \in Worker, Works(w)
      PROVE  life' = life /\ life # "new" /\ \A v \in Worker : faulted'[v] = FALSE
  <2>1. Work(w)
    BY <1>2 DEF Works
  <2>2. pc[w] # "new"
    BY <1>0, <2>1, WorkEffects
    DEF Woken, SendsOn, HasSent, Feeds, Grants, Puzzled, Answers, Handling
  <2>3. life' = life
    BY <2>1
    DEF Work, FeedOnly, FeedFails, Handle, HandleSilently, HandleFails, Wake, TakeFC,
        TakeOther, TakeFails, NextCF, Feed, TakeNext
  <2>4. CASE Handling(w)
    <3>1. Answers(w) /\ Hushed(w)
      BY <1>0, <1>2, <2>1, <2>4, WorkEffects DEF Works, Hushed
    <3>2. ans'[w] = Decoded(Reply(w, Got(w)))
      BY <1>0, <1>2, <2>4 DEF Works, STypeInv, TesterOK
    <3>3. Segmentable(Reply(w, Got(w)))
      BY <1>0, <3>1, AnswersWhat, ReplyFits DEF CalmInv
    <3>4. SentClean(w, Reply(w, Got(w)))
      BY <1>0, <3>1, <3>2, <3>3, AnswersOnTrack DEF Calm
    <3>5. faulted' = [faulted EXCEPT ![w] = FALSE]
      <4>1. faulted' = [faulted EXCEPT ![w] = ~SentClean(w, Reply(w, Got(w)))]
        BY <1>2, <2>4 DEF Works
      <4>2. (~SentClean(w, Reply(w, Got(w)))) = FALSE
        BY <3>4
      <4>3. QED
        BY <4>1, <4>2
    <3>6. \A v \in Worker : faulted'[v] = FALSE
      BY <1>0, <3>5
    <3>7. QED
      BY <1>0, <2>2, <2>3, <3>6
  <2>5. CASE ~Handling(w)
    <3>1. faulted' = faulted
      BY <1>2, <2>5 DEF Works
    <3>2. QED
      BY <1>0, <2>2, <2>3, <3>1
  <2>6. QED
    BY <2>4, <2>5
<1>3. ASSUME NEW w \in Worker, Expires(w)
      PROVE  life' = life /\ life # "new" /\ faulted' = faulted
  BY <1>0, <1>3 DEF Expires, TimeoutFC, testers
<1>4. ASSUME Starts
      PROVE  life' = "up" /\ faulted' = faulted
  BY <1>4 DEF Starts, Start, testers
<1>5. ASSUME \/ Lose \/ UNCHANGED svars
             \/ \E w \in Worker : Tests(w) \/ GiveUp(w)
             \/ \E w \in Worker : \E r \in Requests[w] : Call(w, r)
      PROVE  life' = life /\ pc' = pc /\ faulted' = faulted
  BY <1>5
  DEF Lose, Tests, Continue, Collect, Return, GiveUp, Call, DeviceIdle, svars, vars, testers
<1>6. life' = "new" => \A w \in Worker : pc'[w] = "new"
  BY <1>0, <1>2, <1>3, <1>4, <1>5 DEF SNext
<1>7. \A w \in Worker : faulted'[w] = FALSE
  BY <1>0, <1>2, <1>3, <1>4, <1>5 DEF SNext
<1>8. QED
  BY <1>1, <1>6, <1>7 DEF CalmInv

\* Each lost frame accounts for one call that was given up or that will be.
Spoilt(w) == IF OnTrack(w) THEN 0 ELSE 1

Accounted == failed + Spoilt("UDS") + Spoilt("S77") <= drops

StoreInv == CalmInv /\ Accounted

LEMMA StoreInit == SInit => StoreInv
<1> SUFFICES ASSUME SInit PROVE StoreInv
  OBVIOUS
<1>1. ValuesInv /\ PatientInv
  BY ValuesInit, PatientInit
<1>2. CalmInv
  BY <1>1 DEF CalmInv, SInit, Init
<1>3. \A w \in Worker : OnTrack(w)
  BY DEF OnTrack, SInit
<1>4. Spoilt("UDS") = 0 /\ Spoilt("S77") = 0 /\ failed = 0 /\ drops = 0
  BY <1>3 DEF Spoilt, Worker, SInit
<1>5. QED
  BY <1>2, <1>4 DEF StoreInv, Accounted

LEMMA StoreStep ==
  ASSUME Calm
  PROVE  StoreInv /\ [SNext]_svars => StoreInv'
<1> SUFFICES ASSUME StoreInv, [SNext]_svars PROVE StoreInv'
  OBVIOUS
<1>0. CalmInv /\ Accounted /\ drops \in Nat /\ failed \in Nat
  BY DEF StoreInv, CalmInv, PatientInv, STypeInv, TesterOK
<1>1. CalmInv'
  BY <1>0, CalmStep
<1>2. \A w \in Worker : Spoilt(w) \in {0, 1} /\ Spoilt(w)' \in {0, 1}
  BY DEF Spoilt
<1>3. \A w \in Worker : ~(Lose /\ Head(txq).w = w) => Spoilt(w)' <= Spoilt(w)
  <2>1. SUFFICES ASSUME NEW w \in Worker, ~(Lose /\ Head(txq).w = w)
                 PROVE  Spoilt(w)' <= Spoilt(w)
    OBVIOUS
  <2>2. OnTrack(w) => OnTrack(w)'
    BY <1>0, <2>1, OnTrackStep
  <2>3. QED
    BY <2>2 DEF Spoilt
<1>4. Worker = {"UDS", "S77"}
  BY DEF Worker
<1>5. CASE Lose
  <2>1. drops' = drops + 1 /\ failed' = failed
    BY <1>5 DEF Lose
  <2>2. Spoilt("UDS")' + Spoilt("S77")' <= Spoilt("UDS") + Spoilt("S77") + 1
    <3>1. CASE Head(txq).w = "UDS"
      <4>1. Spoilt("S77")' <= Spoilt("S77")
        BY <1>3, <1>4, <3>1
      <4>2. QED
        BY <1>2, <1>4, <4>1
    <3>2. CASE Head(txq).w # "UDS"
      <4>1. Spoilt("UDS")' <= Spoilt("UDS")
        BY <1>3, <1>4, <3>2
      <4>2. QED
        BY <1>2, <1>4, <4>1
    <3>3. QED
      BY <3>1, <3>2
  <2>3. QED
    BY <1>0, <1>1, <1>2, <1>4, <2>1, <2>2 DEF StoreInv, Accounted
<1>6. CASE ~Lose /\ \E w \in Worker : GiveUp(w)
  <2>1. PICK w \in Worker : GiveUp(w)
    BY <1>6
  <2>2. drops' = drops /\ failed' = failed + 1 /\ ~OnTrack(w) /\ OnTrack(w)'
    <3>1. /\ phase' = [phase EXCEPT ![w] = "idle"]
          /\ phase \in [Worker -> {"idle", "offer", "await"}]
      BY <1>0, <2>1 DEF GiveUp, CalmInv, PatientInv, STypeInv, TesterOK
    <3>2. OnTrack(w)'
      BY <3>1 DEF OnTrack
    <3>3. QED
      BY <1>0, <2>1, <3>2, GivesUpSpoilt DEF GiveUp
  <2>3. Spoilt(w) = 1 /\ Spoilt(w)' = 0
    BY <2>2 DEF Spoilt
  <2>4. Spoilt("UDS")' + Spoilt("S77")' + 1 <= Spoilt("UDS") + Spoilt("S77")
    <3>1. /\ Spoilt("UDS")' <= Spoilt("UDS") /\ Spoilt("S77")' <= Spoilt("S77")
          /\ w = "UDS" \/ w = "S77"
      BY <1>3, <1>4, <1>6
    <3>2. QED
      BY <1>2, <1>4, <2>3, <3>1
  <2>5. QED
    BY <1>0, <1>1, <1>2, <1>4, <2>2, <2>4 DEF StoreInv, Accounted
<1>7. CASE ~Lose /\ ~\E w \in Worker : GiveUp(w)
  <2>1. drops' = drops /\ failed' = failed
    BY <1>7
    DEF SNext, Starts, Works, Expires, Tests, Continue, Collect, Return, Call, svars, testers
  <2>2. Spoilt("UDS")' <= Spoilt("UDS") /\ Spoilt("S77")' <= Spoilt("S77")
    BY <1>3, <1>4, <1>7
  <2>3. QED
    BY <1>0, <1>1, <1>2, <1>4, <2>1, <2>2 DEF StoreInv, Accounted
<1>8. QED
  BY <1>5, <1>6, <1>7

-----------------------------------------------------------------------------
(* Each step is one of the abstract store, or none *)

Status ==
  [w \in Worker |->
     IF phase[w] = "idle" THEN "idle"
     ELSE IF ans[w] = NoAnswer THEN "pending" ELSE "done"]

LEMMA StatusOf ==
  ASSUME NEW w \in Worker, NEW s, Status'[w] = s,
         \A v \in Worker \ {w} : phase'[v] = phase[v] /\ ans'[v] = ans[v]
  PROVE  Status' = [Status EXCEPT ![w] = s]
<1>1. \A v \in Worker \ {w} : Status'[v] = Status[v]
  BY DEF Status
<1>2. Status' = [v \in Worker |-> Status'[v]] /\ Status = [v \in Worker |-> Status[v]]
  BY DEF Status
<1>3. QED
  BY <1>1, <1>2

LEMMA StillMaps ==
  ASSUME UNCHANGED <<store, req, got, ans, drops, failed>>,
         \A w \in Worker : phase'[w] = "idle" <=> phase[w] = "idle"
  PROVE  UNCHANGED Service!avars
<1>1. Status' = Status
  BY DEF Status
<1>2. QED
  BY <1>1 DEF Service!avars, Status

\* What the handler makes of a request is what the abstract store makes of it.
LEMMA AsRefused ==
  ASSUME Calm, NEW w \in Worker, NEW r \in Requests[w]
  PROVE  /\ r.op = "write" => (Service!Refused(w, r) <=> ~Accepted(w, r))
         /\ r.op = "read" => (Service!Refused(w, r) <=> r.did \notin Known)
<1>1. w = "UDS" /\ r.op = "write" => r.val # <<>>
  BY DEF Calm
<1>2. QED
  BY <1>1 DEF Service!Refused, Accepted

LEMMA EffectMaps ==
  ASSUME Calm, NEW w \in Worker, NEW r \in Requests[w], store \in Store
  PROVE  Stored(w, Encoded(w, r)) = Service!Effect(w, r)
BY AsRefused, RequestStored DEF Service!Effect

LEMMA ResultMaps ==
  ASSUME Calm, NEW w \in Worker, NEW r \in Requests[w], store \in Store
  PROVE  Decoded(Reply(w, Encoded(w, r))) = Service!Result(w, r)
<1> DEFINE p == Reply(w, Encoded(w, r))
<1>1. r.did \in Did /\ r.op \in {"read", "write"}
  BY RequestKinds
<1>2. CASE /\ r.op = "read" /\ r.did \in Known
           /\ p = <<"62", r.did>> \o store[r.did]
  <2> DEFINE h == <<"62", r.did>>  v == store[r.did]
  <2>1. h \in Seq(Byte) /\ Len(h) = 2 /\ h[1] = "62" /\ h[2] = r.did /\ h # <<>>
    BY <1>1 DEF Byte, HeaderByte
  <2>2. v \in Seq(Byte)
    BY <1>2 DEF Store, Payload
  <2> HIDE DEF h, v
  <2>3. /\ h \o v # <<>> /\ (h \o v)[1] = "62" /\ (h \o v)[2] = r.did
        /\ SubSeq(h \o v, 3, Len(h \o v)) = v
    <3>1. /\ h \o v # <<>> /\ \A i \in 1 .. Len(h) : (h \o v)[i] = h[i]
          /\ SubSeq(h \o v, Len(h) + 1, Len(h \o v)) = v
      BY <2>1, <2>2, HeaderThen
    <3>2. Len(h) + 1 = 3 /\ 1 \in 1 .. Len(h) /\ 2 \in 1 .. Len(h)
      BY <2>1
    <3>3. QED
      BY <2>1, <3>1, <3>2
  <2>4. Decoded(h \o v) = [kind |-> "value", did |-> r.did, val |-> v]
    BY <2>3 DEF Decoded
  <2>5. p = h \o v
    BY <1>2 DEF h, v
  <2>6. ~Service!Refused(w, r)
    BY <1>2, AsRefused
  <2>7. Service!Result(w, r) = [kind |-> "value", did |-> r.did, val |-> v]
    BY <1>2, <2>6 DEF Service!Result, v
  <2>8. QED
    BY <2>4, <2>5, <2>7
<1>3. CASE /\ r.op = "write" /\ Accepted(w, r)
           /\ p = <<"6E", r.did>> \/ p = <<"77", r.ctr, "44">>
  <2>1. p # <<>> /\ p[1] \in {"6E", "77"}
    <3>1. ASSUME p = <<"6E", r.did>>
          PROVE  p # <<>> /\ p[1] = "6E"
      BY <3>1
    <3>2. ASSUME p = <<"77", r.ctr, "44">>
          PROVE  p # <<>> /\ p[1] = "77"
      BY <3>2
    <3>3. QED
      BY <1>3, <3>1, <3>2
  <2>2. Decoded(p) = [kind |-> "written"]
    BY <2>1 DEF Decoded
  <2>3. Service!Result(w, r) = [kind |-> "written"]
    BY <1>3, AsRefused DEF Service!Result
  <2>4. QED
    BY <2>2, <2>3
<1>4. CASE /\ r.op = "write" => ~Accepted(w, r)
           /\ r.op = "read" => r.did \notin Known
           /\ \E sid, nrc \in Byte : p = Negative(sid, nrc)
  <2>1. p # <<>> /\ p[1] = "7F"
    BY <1>4 DEF Negative
  <2>2. Decoded(p) = [kind |-> "refused"]
    BY <2>1 DEF Decoded
  <2>3. Service!Refused(w, r)
    BY <1>1, <1>4, AsRefused
  <2>4. QED
    BY <2>2, <2>3 DEF Service!Result
<1>5. QED
  BY <1>2, <1>3, <1>4, RequestAnswered

LEMMA CallMaps ==
  ASSUME STypeInv, NEW w \in Worker, NEW r \in Requests[w], Call(w, r)
  PROVE  Service!Call(w)
<1>1. /\ phase[w] = "idle" /\ UNCHANGED <<store, got, drops, failed>>
      /\ phase' = [phase EXCEPT ![w] = phase'[w]] /\ phase'[w] # "idle"
      /\ req' = [req EXCEPT ![w] = r] /\ ans' = [ans EXCEPT ![w] = NoAnswer]
  BY DEF Call, DeviceIdle, STypeInv, TesterOK
<1>2. Status[w] = "idle" /\ Status' = [Status EXCEPT ![w] = "pending"]
  <2>1. ans'[w] = NoAnswer
    BY <1>1 DEF STypeInv, TesterOK
  <2>2. Status[w] = "idle" /\ Status'[w] = "pending"
    BY <1>1, <2>1 DEF Status
  <2>3. \A v \in Worker \ {w} : phase'[v] = phase[v] /\ ans'[v] = ans[v]
    BY <1>1 DEF STypeInv, TesterOK
  <2>4. QED
    BY <2>2, <2>3, StatusOf
<1>3. QED
  BY <1>1, <1>2 DEF Service!Call, Service!Lost, NoAnswer, Status

\* A request takes effect when its handler is called.
LEMMA WorkMaps ==
  ASSUME Calm, CalmInv, NEW w \in Worker, Works(w)
  PROVE  Service!Execute(w) \/ UNCHANGED Service!avars
<1>0. /\ STypeInv /\ InOrder(w) /\ Work(w) /\ store \in Store
      /\ ans \in [Worker -> Outcomes]
      /\ UNCHANGED <<phase, req, todo, tasm, got, drops, failed>>
  BY DEF CalmInv, PatientInv, Works, STypeInv, TypeInv, TypeOK, TesterOK
<1>1. CASE ~Handling(w)
  <2>1. store' = store
    BY <1>0, <1>1, WorkEffects DEF Answers
  <2>2. ans' = ans
    BY <1>1 DEF Works
  <2>3. QED
    BY <1>0, <2>1, <2>2, StillMaps
<1>2. CASE Handling(w)
  <2>1. Answers(w)
    BY <1>0, <1>2, WorkEffects
  <2>2. /\ phase[w] = "await" /\ ans[w] = NoAnswer /\ req[w] \in Requests[w]
        /\ Got(w) = Encoded(w, req[w])
    BY <1>0, <2>1, AnswersWhat
  <2>3. store' = Service!Effect(w, req[w])
    BY <1>0, <2>1, <2>2, EffectMaps DEF Answers
  <2>4. ans' = [ans EXCEPT ![w] = Service!Result(w, req[w])]
    BY <1>0, <1>2, <2>2, ResultMaps DEF Works
  <2>5. ans'[w] # NoAnswer
    <3>1. ans'[w] = Decoded(Reply(w, Got(w)))
      BY <1>0, <1>2 DEF Works
    <3>2. QED
      BY <1>0, <2>2, <3>1, AnswerGiven
  <2>6. Status[w] = "pending" /\ Status' = [Status EXCEPT ![w] = "done"]
    <3>1. Status[w] = "pending" /\ Status'[w] = "done"
      BY <1>0, <2>2, <2>5 DEF Status
    <3>2. \A v \in Worker \ {w} : phase'[v] = phase[v] /\ ans'[v] = ans[v]
      BY <1>0, <2>4
    <3>3. QED
      BY <3>1, <3>2, StatusOf
  <2>7. Service!Execute(w)
    BY <1>0, <2>3, <2>4, <2>6 DEF Service!Execute, Status
  <2>8. QED
    BY <2>7
<1>3. QED
  BY <1>1, <1>2

\* What a tester takes for the answer is the outcome of its request.
LEMMA ReturnMaps ==
  ASSUME CalmInv, NEW w \in Worker, Return(w)
  PROVE  Service!Return(w)
<1>0. /\ STypeInv /\ InOrder(w) /\ ~faulted[w]
      /\ phase \in [Worker -> {"idle", "offer", "await"}]
      /\ got \in [Worker -> Outcomes] /\ tasm \in [Worker -> Assembler(Byte)]
  BY DEF CalmInv, PatientInv, STypeInv, TesterOK
<1>1. /\ txq # <<>> /\ Head(txq).w = w /\ txq' = Tail(txq)
      /\ phase[w] = "await" /\ Completes(tasm[w], Arriving)
      /\ phase' = [phase EXCEPT ![w] = "idle"]
      /\ tasm' = [tasm EXCEPT ![w] = Fed(tasm[w], Arriving)]
      /\ got' = [got EXCEPT ![w] = Decoded(PayloadOf(tasm[w], Arriving))]
      /\ UNCHANGED <<queue, req, ans, faulted, store, asm, pc, out, drops, failed>>
  BY <1>0 DEF Return, Arrives, DeviceIdle
<1>2. /\ Own(w) # <<>> /\ Own(w)' = Tail(Own(w)) /\ Head(Own(w)) = Arriving /\ Idles(w)
  BY <1>0, <1>1, PopsOwn DEF Idles
<1>3. /\ phase'[w] = "idle" /\ queue'[w] = queue[w]
      /\ tasm'[w] = Fed(tasm[w], Arriving)
      /\ got'[w] = Decoded(PayloadOf(tasm[w], Arriving))
  BY <1>0, <1>1
<1>4. ans[w] # NoAnswer /\ got'[w] = ans[w]
  BY <1>0, <1>1, <1>2, <1>3, ReturnInOrder
<1>5. got' = [got EXCEPT ![w] = ans[w]]
  BY <1>1, <1>3, <1>4
<1>6. Status[w] = "done" /\ Status' = [Status EXCEPT ![w] = "idle"]
  <2>1. Status[w] = "done" /\ Status'[w] = "idle"
    BY <1>1, <1>3, <1>4 DEF Status
  <2>2. \A v \in Worker \ {w} : phase'[v] = phase[v] /\ ans'[v] = ans[v]
    BY <1>0, <1>1
  <2>3. QED
    BY <2>1, <2>2, StatusOf
<1>7. QED
  BY <1>1, <1>5, <1>6 DEF Service!Return, Status

\* A call that is given up uses up one lost frame.
LEMMA FailMaps ==
  ASSUME Calm, StoreInv, NEW w \in Worker, GiveUp(w)
  PROVE  Service!Fail(w)
<1>0. /\ phase \in [Worker -> {"idle", "offer", "await"}]
      /\ drops \in Nat /\ failed \in Nat /\ CalmInv /\ Accounted
  BY DEF StoreInv, CalmInv, PatientInv, STypeInv, TesterOK
<1>1. /\ phase[w] # "idle" /\ phase' = [phase EXCEPT ![w] = "idle"]
      /\ got' = [got EXCEPT ![w] = NoAnswer] /\ failed' = failed + 1
      /\ UNCHANGED <<req, ans, store, drops>>
  BY DEF GiveUp, DeviceIdle
<1>2. drops - failed > 0 /\ (drops - failed)' = (drops - failed) - 1
  <2>1. Spoilt(w) = 1
    BY <1>0, GivesUpSpoilt DEF Spoilt
  <2>2. /\ Spoilt("UDS") \in {0, 1} /\ Spoilt("S77") \in {0, 1}
        /\ w = "UDS" \/ w = "S77"
    BY DEF Spoilt, Worker
  <2>3. failed + 1 <= drops
    BY <1>0, <2>1, <2>2 DEF Accounted
  <2>4. QED
    BY <1>0, <1>1, <2>3
<1>3. Status[w] \in {"pending", "done"} /\ Status' = [Status EXCEPT ![w] = "idle"]
  <2>1. Status[w] \in {"pending", "done"} /\ Status'[w] = "idle"
    BY <1>0, <1>1 DEF Status
  <2>2. \A v \in Worker \ {w} : phase'[v] = phase[v] /\ ans'[v] = ans[v]
    BY <1>0, <1>1
  <2>3. QED
    BY <2>1, <2>2, StatusOf
<1>4. QED
  BY <1>1, <1>2, <1>3 DEF Service!Fail, Service!Lost, NoAnswer, Status

LEMMA LoseMaps ==
  ASSUME StoreInv, Lose
  PROVE  Service!Mishap
<1>1. /\ drops' = drops + 1 /\ failed' = failed
      /\ UNCHANGED <<store, phase, req, got, ans>>
  BY DEF Lose, DeviceIdle
<1>2. /\ drops \in Nat /\ failed \in Nat /\ failed <= drops
  <2>1. drops \in Nat /\ failed \in Nat /\ Accounted
    BY DEF StoreInv, CalmInv, PatientInv, STypeInv, TesterOK
  <2>2. Spoilt("UDS") \in {0, 1} /\ Spoilt("S77") \in {0, 1}
    BY DEF Spoilt
  <2>3. QED
    BY <2>1, <2>2 DEF Accounted
<1>3. (drops - failed)' \in Nat /\ (drops - failed)' > drops - failed
  BY <1>1, <1>2
<1>4. Status' = Status
  BY <1>1 DEF Status
<1>5. QED
  BY <1>1, <1>3, <1>4 DEF Service!Mishap, Status

LEMMA ServiceStep ==
  ASSUME Calm, StoreInv, [SNext]_svars
  PROVE  [Service!ANext]_Service!avars
<1>0. CalmInv /\ STypeInv /\ phase \in [Worker -> {"idle", "offer", "await"}]
  BY DEF StoreInv, CalmInv, PatientInv, STypeInv, TesterOK
<1>1. ASSUME NEW w \in Worker, NEW r \in Requests[w], Call(w, r)
      PROVE  Service!ANext
  BY <1>0, <1>1, CallMaps DEF Service!ANext
<1>2. ASSUME NEW w \in Worker, Works(w)
      PROVE  [Service!ANext]_Service!avars
  BY <1>0, <1>2, WorkMaps DEF Service!ANext
<1>3. ASSUME NEW w \in Worker, Return(w)
      PROVE  Service!ANext
  BY <1>0, <1>3, ReturnMaps DEF Service!ANext
<1>4. ASSUME NEW w \in Worker, GiveUp(w)
      PROVE  Service!ANext
  BY <1>4, FailMaps DEF Service!ANext
<1>5. ASSUME Lose
      PROVE  Service!ANext
  BY <1>5, LoseMaps DEF Service!ANext
<1>6. ASSUME NEW w \in Worker, Continue(w) \/ Collect(w)
      PROVE  UNCHANGED Service!avars
  <2>1. /\ UNCHANGED <<store, req, got, ans, drops, failed>>
        /\ phase' = phase \/ (phase[w] = "offer" /\ phase' = [phase EXCEPT ![w] = "await"])
    BY <1>6 DEF Continue, Collect, DeviceIdle
  <2>2. \A v \in Worker : phase'[v] = "idle" <=> phase[v] = "idle"
    BY <1>0, <2>1
  <2>3. QED
    BY <2>1, <2>2, StillMaps
<1>7. ASSUME Starts \/ UNCHANGED svars \/ \E w \in Worker : Expires(w)
      PROVE  UNCHANGED Service!avars
  <2>1. UNCHANGED <<store, req, got, ans, drops, failed, phase>>
    BY <1>7 DEF Starts, Start, Expires, TimeoutFC, svars, vars, testers
  <2>2. QED
    BY <2>1, StillMaps
<1>8. QED
  BY <1>1, <1>2, <1>3, <1>4, <1>5, <1>6, <1>7 DEF SNext, Tests

LEMMA ServiceInit == SInit => Service!AInit
<1> SUFFICES ASSUME SInit PROVE Service!AInit
  OBVIOUS
<1>1. Status = [w \in Worker |-> "idle"]
  BY DEF SInit, Status
<1>2. drops - failed = 0
  BY DEF SInit
<1>3. QED
  BY <1>1, <1>2
  DEF SInit, Init, Service!AInit, Service!Lost, Service!NoRequest, NoAnswer, NoRequest, Status

\* A device is an atomic store to its testers: for any number of data points,
\* requests and calls and any frame sizes, each call takes effect once and
\* returns the outcome of that instant, whether UDS or Service 77 carries it
\* (device.py:19), and no more calls come to nothing than frames are lost on
\* the way (bus.py:191).
THEOREM DeviceServesAtomically ==
  ASSUME Calm
  PROVE  SSpec => IsAtomicStore
<1>1. StoreInv /\ [SNext]_svars => StoreInv'
  BY StoreStep
<1>2. SSpec => []StoreInv
  BY <1>1, StoreInit, PTL DEF SSpec
<1>3. StoreInv /\ [SNext]_svars => [Service!ANext]_Service!avars
  BY ServiceStep
<1>4. QED
  BY <1>2, <1>3, ServiceInit, PTL DEF SSpec, IsAtomicStore, Service!ASpec
=============================================================================
