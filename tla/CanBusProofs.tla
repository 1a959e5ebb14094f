---------------------------- MODULE CanBusProofs ---------------------------
(***************************************************************************)
(* Proofs about CanBus, for every number of frames, of retries and of      *)
(* callbacks: type correctness, that the TX side implements LossyFifo,     *)
(* that no frame is lost to an interface that is busy for a while, that    *)
(* the interface is open whenever it is sent to, and that received frames  *)
(* reach the callbacks in order, each once.                                *)
(***************************************************************************)
EXTENDS CanBus, SequenceTheorems, TLAPS

Puts == 1 .. MaxPuts

-----------------------------------------------------------------------------
(* Sequences *)

LEMMA HeadTailConcat ==
  ASSUME NEW S, NEW s \in Seq(S), s # <<>>
  PROVE  /\ Head(s) \in S /\ Tail(s) \in Seq(S)
         /\ <<Head(s)>> \o Tail(s) = s
<1>1. /\ Head(s) \in S /\ Tail(s) \in Seq(S) /\ Len(Tail(s)) = Len(s) - 1
      /\ \A i \in 1 .. Len(Tail(s)) : Tail(s)[i] = s[i + 1]
      /\ Len(s) \in Nat \ {0}
  BY HeadTailProperties, EmptySeq
<1>2. /\ <<Head(s)>> \in Seq(S) /\ Len(<<Head(s)>>) = 1 /\ <<Head(s)>>[1] = s[1]
  BY <1>1
<1> DEFINE t == <<Head(s)>> \o Tail(s)
<1>3. /\ t \in Seq(S) /\ Len(t) = 1 + Len(Tail(s))
      /\ \A i \in 1 .. 1 + Len(Tail(s)) :
           t[i] = IF i <= 1 THEN <<Head(s)>>[i] ELSE Tail(s)[i - 1]
  BY <1>1, <1>2, ConcatProperties
<1> HIDE DEF t
<1>4. \A i \in 1 .. Len(t) : t[i] = s[i]
  BY <1>1, <1>2, <1>3
<1>5. t = s
  BY <1>1, <1>3, <1>4, SeqEqual
<1>6. QED
  BY <1>1, <1>5 DEF t

LEMMA ConcatHeadTail ==
  ASSUME NEW S, NEW h \in Seq(S), NEW s \in Seq(S), Len(h) = 1
  PROVE  /\ h \o s # <<>> /\ Head(h \o s) = h[1] /\ Tail(h \o s) = s
         /\ h[1] \in S
<1>1. h[1] \in S /\ Len(s) \in Nat
  <2>1. 1 \in 1 .. Len(h)
    OBVIOUS
  <2>2. QED
    BY <2>1, ElementOfSeq, LenProperties
<1>2. /\ h \o s \in Seq(S) /\ Len(h \o s) = 1 + Len(s)
      /\ \A i \in 1 .. 1 + Len(s) : (h \o s)[i] = IF i <= 1 THEN h[i] ELSE s[i - 1]
  <2>1. /\ h \o s \in Seq(S) /\ Len(h \o s) = Len(h) + Len(s)
        /\ \A i \in 1 .. Len(h) + Len(s) :
             (h \o s)[i] = IF i <= Len(h) THEN h[i] ELSE s[i - Len(h)]
    BY ConcatProperties
  <2>2. QED
    BY <1>1, <2>1
<1>3. h \o s # <<>>
  BY <1>1, <1>2, EmptySeq
<1>4. /\ Tail(h \o s) \in Seq(S) /\ Len(Tail(h \o s)) = Len(s)
      /\ \A i \in 1 .. Len(s) : Tail(h \o s)[i] = (h \o s)[i + 1]
  BY <1>1, <1>2, <1>3, HeadTailProperties
<1>5. \A i \in 1 .. Len(s) : Tail(h \o s)[i] = s[i]
  BY <1>1, <1>2, <1>4
<1>6. Tail(h \o s) = s
  BY <1>4, <1>5, SeqEqual
<1>7. Head(h \o s) = h[1]
  BY <1>1, <1>2
<1>8. QED
  BY <1>1, <1>3, <1>6, <1>7

LEMMA ConcatAppend ==
  ASSUME NEW S, NEW s \in Seq(S), NEW t \in Seq(S), NEW m \in S
  PROVE  /\ s \o Append(t, m) = Append(s \o t, m)
         /\ Append(t, m) \in Seq(S)
         /\ Append(t, m) = t \o <<m>>
<1>1. <<m>> \in Seq(S)
  OBVIOUS
<1>2. s \o t \in Seq(S)
  BY ConcatProperties
<1>3. Append(t, m) = t \o <<m>> /\ Append(t, m) \in Seq(S)
  BY AppendProperties, AppendIsConcat
<1>4. Append(s \o t, m) = (s \o t) \o <<m>>
  BY <1>2, AppendIsConcat
<1>5. QED
  BY <1>1, <1>3, <1>4, ConcatAssociative

-----------------------------------------------------------------------------
(* Type correctness *)

\* The TX task holds a frame exactly while it backs off, and no more than one
\* when it is cancelled; while it can run, the interface is open.
HandOK ==
  /\ tx = "backoff" => Len(hand) = 1
  /\ tx \notin {"backoff", "cancelling"} => hand = <<>> /\ tries = 0
  /\ Len(hand) <= 1
  /\ life = "new" => tx = "new"
  /\ tx \in {"get", "backoff"} => life = "up" /\ bus = "open"

\* The RX thread holds a frame when recv() has returned one.
RxOK == rx = "got" => Len(rmsg) = 1

TypeInv == TypeOK /\ HandOK /\ RxOK

LEMMA TypeInit == Init => TypeInv
<1> SUFFICES ASSUME Init PROVE TypeInv
  OBVIOUS
<1>1. Len(Registrations) \in Nat
  BY LenProperties, CanBusAssumption
<1>2. Len(<<>>) = 0 /\ <<>> \in Seq(1 .. MaxPuts) /\ <<>> \in Seq(RxFrames)
  OBVIOUS
<1>3. TypeOK
  <2>1. /\ cbs \in [Id -> SUBSET Owner] /\ got \in [Owner -> Seq(RxFrames)]
        /\ running \in BOOLEAN
    BY <1>2 DEF Init
  <2>2. /\ loaded \in 0 .. Len(Registrations) /\ tries \in 0 .. MaxRetry
        /\ puts \in 0 .. MaxPuts /\ busy \in 0 .. MaxBusy
    BY <1>1, CanBusAssumption DEF Init
  <2>3. QED
    BY <1>2, <2>1, <2>2 DEF Init, TypeOK
<1>4. HandOK
  BY <1>2 DEF Init, HandOK
<1>5. RxOK
  BY DEF Init, RxOK
<1>6. QED
  BY <1>3, <1>4, <1>5 DEF TypeInv

\* start(), stop() and what main.py does around them.
LEMMA LifecycleType ==
  ASSUME TypeInv, Lifecycle
  PROVE  TypeInv'
<1> USE CanBusAssumption DEF TypeInv, TypeOK, HandOK, RxOK
<1>1. CASE RegisterRx
  <2>1. Len(Registrations) \in Nat /\ loaded + 1 \in 1 .. Len(Registrations)
    BY <1>1, LenProperties DEF RegisterRx
  <2>2. Registrations[loaded + 1] \in Id \X Owner
    BY <2>1, ElementOfSeq
  <2>3. cbs' \in [Id -> SUBSET Owner]
    BY <1>1, <2>2 DEF RegisterRx
  <2>4. loaded' \in 0 .. Len(Registrations)
    BY <1>1, <2>1 DEF RegisterRx
  <2>5. UNCHANGED <<life, running, bus, txVars, rxVars>>
    BY <1>1 DEF RegisterRx
  <2>6. HandOK' /\ RxOK'
    BY <2>5 DEF txVars, rxVars
  <2>7. TypeOK'
    BY <2>3, <2>4, <2>5 DEF txVars, rxVars
  <2>8. QED
    BY <2>6, <2>7
<1>2. CASE Start
  BY <1>2 DEF Start
<1>3. CASE StartFails
  BY <1>3 DEF StartFails, txVars, rxVars
<1>4. CASE Shutdown
  BY <1>4 DEF Shutdown, txVars, rxVars
<1>5. CASE ForgetBus
  BY <1>5 DEF ForgetBus, txVars, rxVars
<1>6. CASE StopRaises
  BY <1>6 DEF StopRaises, txVars, rxVars
<1>7. CASE CloseLoop
  BY <1>7 DEF CloseLoop, txVars, rxVars
<1>8. CASE Stop
  BY <1>8 DEF Stop, rxVars
<1>9. CASE CancelTx
  BY <1>9 DEF CancelTx, lifeVars, rxVars
<1>10. CASE Abort
  BY <1>10 DEF Abort, rxVars
<1>11. QED
  BY <1>1, <1>2, <1>3, <1>4, <1>5, <1>6, <1>7, <1>8, <1>9, <1>10 DEF Lifecycle

\* One attempt to send, from the head of the queue or from the hand.
LEMMA AttemptType ==
  ASSUME TypeInv, NEW m \in Puts, NEW k \in 0 .. MaxRetry, NEW o \in Outcomes,
         Attempt(m, k, o), CanAnswer(o), tx \in {"get", "backoff"}, UNCHANGED <<life, bus>>
  PROVE  /\ wire' \in Seq(Puts) /\ hand' \in Seq(Puts)
         /\ busy' \in 0 .. MaxBusy /\ calm' \in BOOLEAN /\ tries' \in 0 .. MaxRetry
         /\ tx' \in {"get", "backoff", "dead"}
         /\ HandOK'
<1>1. /\ wire \in Seq(Puts) /\ busy \in 0 .. MaxBusy
      /\ life = "up" /\ bus = "open"
  BY DEF TypeInv, TypeOK, HandOK, Puts
<1>2. wire' \in Seq(Puts)
  BY <1>1, AppendProperties DEF Attempt, Answered
<1>3. busy' \in 0 .. MaxBusy /\ calm' \in BOOLEAN
  BY <1>1, CanBusAssumption DEF Attempt, Answered, CanAnswer, TypeInv, TypeOK
<1>4. \/ o = "busy" /\ k < MaxRetry /\ tx' = "backoff" /\ hand' = <<m>> /\ tries' = k + 1
      \/ tx' \in {"get", "dead"} /\ hand' = <<>> /\ tries' = 0
  BY DEF Attempt, Answered
<1>5. /\ <<m>> \in Seq(Puts) /\ Len(<<m>>) = 1
      /\ <<>> \in Seq(Puts) /\ Len(<<>>) = 0
  OBVIOUS
<1>6. hand' \in Seq(Puts) /\ tries' \in 0 .. MaxRetry /\ tx' \in {"get", "backoff", "dead"}
  <2>1. k < MaxRetry => k + 1 \in 0 .. MaxRetry
    BY CanBusAssumption
  <2>2. 0 \in 0 .. MaxRetry
    BY CanBusAssumption
  <2>3. QED
    BY <1>4, <1>5, <2>1, <2>2
<1>7. HandOK'
  <2>1. CASE hand' = <<m>> /\ tx' = "backoff"
    BY <1>1, <1>5, <2>1 DEF HandOK
  <2>2. CASE hand' = <<>> /\ tries' = 0 /\ tx' \in {"get", "dead"}
    BY <1>1, <1>5, <2>2 DEF HandOK
  <2>3. QED
    BY <1>4, <2>1, <2>2
<1>8. QED
  BY <1>2, <1>3, <1>6, <1>7

\* What the TX task takes from the queue, or has in hand.
LEMMA SendFirstType ==
  ASSUME TypeInv, NEW o \in Outcomes, SendFirst(o)
  PROVE  /\ Head(txq) \in Puts /\ Tail(txq) \in Seq(Puts) /\ hand = <<>>
         /\ TypeInv'
<1>1. txq \in Seq(Puts) /\ txq # <<>> /\ tx = "get" /\ hand = <<>>
  BY DEF TypeInv, TypeOK, HandOK, SendFirst, Puts
<1>2. Head(txq) \in Puts /\ Tail(txq) \in Seq(Puts)
  BY <1>1, HeadTailConcat
<1>3. UNCHANGED <<lifeVars, puts, rxVars>> /\ txq' = Tail(txq)
  BY DEF SendFirst
<1>4. 0 \in 0 .. MaxRetry
  BY CanBusAssumption
<1>5. /\ wire' \in Seq(Puts) /\ hand' \in Seq(Puts)
      /\ busy' \in 0 .. MaxBusy /\ calm' \in BOOLEAN /\ tries' \in 0 .. MaxRetry
      /\ tx' \in {"get", "backoff", "dead"} /\ HandOK'
  BY <1>1, <1>2, <1>3, <1>4, AttemptType DEF SendFirst, lifeVars
<1>6. RxOK'
  BY <1>3 DEF TypeInv, RxOK, rxVars
<1>7. TypeOK'
  <2>1. txq' \in Seq(Puts)
    BY <1>1, <1>2, <1>3
  <2>2. TypeOK /\ UNCHANGED <<lifeVars, puts, rxVars>>
    BY <1>3 DEF TypeInv
  <2>3. /\ wire' \in Seq(1 .. MaxPuts) /\ hand' \in Seq(1 .. MaxPuts)
        /\ txq' \in Seq(1 .. MaxPuts)
    BY <1>5, <2>1 DEF Puts
  <2>4. /\ busy' \in 0 .. MaxBusy /\ calm' \in BOOLEAN /\ tries' \in 0 .. MaxRetry
        /\ tx' \in {"get", "backoff", "dead"}
    BY <1>5
  <2>5. QED
    BY <2>2, <2>3, <2>4 DEF TypeOK, lifeVars, rxVars
<1>8. QED
  BY <1>1, <1>2, <1>3, <1>5, <1>6, <1>7 DEF TypeInv

LEMMA SendAgainType ==
  ASSUME TypeInv, NEW o \in Outcomes, SendAgain(o)
  PROVE  hand[1] \in Puts /\ Len(hand) = 1 /\ TypeInv'
<1>1. hand \in Seq(Puts) /\ Len(hand) = 1 /\ tries \in 0 .. MaxRetry /\ tx = "backoff"
  BY DEF TypeInv, TypeOK, HandOK, SendAgain, Puts
<1>2. hand[1] \in Puts
  BY <1>1, ElementOfSeq
<1>3. UNCHANGED <<lifeVars, txq, puts, rxVars>>
  BY DEF SendAgain
<1>5. /\ wire' \in Seq(Puts) /\ hand' \in Seq(Puts)
      /\ busy' \in 0 .. MaxBusy /\ calm' \in BOOLEAN /\ tries' \in 0 .. MaxRetry
      /\ tx' \in {"get", "backoff", "dead"} /\ HandOK'
  BY <1>1, <1>2, <1>3, AttemptType DEF SendAgain, lifeVars
<1>6. RxOK'
  BY <1>3 DEF TypeInv, RxOK, rxVars
<1>7. TypeOK'
  <2>1. txq' \in Seq(Puts)
    BY <1>3 DEF TypeInv, TypeOK, Puts
  <2>2. TypeOK /\ UNCHANGED <<lifeVars, puts, rxVars>>
    BY <1>3 DEF TypeInv
  <2>3. /\ wire' \in Seq(1 .. MaxPuts) /\ hand' \in Seq(1 .. MaxPuts)
        /\ txq' \in Seq(1 .. MaxPuts)
    BY <1>5, <2>1 DEF Puts
  <2>4. /\ busy' \in 0 .. MaxBusy /\ calm' \in BOOLEAN /\ tries' \in 0 .. MaxRetry
        /\ tx' \in {"get", "backoff", "dead"}
    BY <1>5
  <2>5. QED
    BY <2>2, <2>3, <2>4 DEF TypeOK, lifeVars, rxVars
<1>8. QED
  BY <1>1, <1>2, <1>3, <1>5, <1>6, <1>7 DEF TypeInv

LEMMA PutType ==
  ASSUME TypeInv, Put
  PROVE  /\ puts' = puts + 1 /\ puts' \in Puts /\ txq' = Append(txq, puts')
         /\ TypeInv'
<1>1. puts' = puts + 1 /\ puts' \in Puts /\ txq' = Append(txq, puts') /\ txq \in Seq(Puts)
  BY CanBusAssumption DEF Put, TypeInv, TypeOK, Puts
<1>2. txq' \in Seq(Puts)
  BY <1>1, AppendProperties
<1>3. QED
  BY <1>1, <1>2, CanBusAssumption
  DEF Put, TypeInv, TypeOK, HandOK, RxOK, lifeVars, rxVars, Puts

\* The RX thread, its callbacks and the frames that arrive.
LEMMA ReceiveType ==
  ASSUME TypeInv, RxThread \/ RunCallback \/ \E i \in Id : Arrive(i)
  PROVE  TypeInv'
<1> USE CanBusAssumption DEF TypeInv, TypeOK, HandOK, RxOK
<1>1. CASE RxCheck \/ RxCall \/ RxNothing \/ RxRaises
  <2>1. /\ rx' \in {"check", "recv", "wait", "ended", "failed", "crashed"}
        /\ UNCHANGED <<life, running, bus, loaded, cbs>>
        /\ UNCHANGED <<txq, tx, hand, tries, puts, wire, busy, calm>>
        /\ UNCHANGED <<rmsg, ready, got, inbox, arrived>>
    BY <1>1 DEF RxCheck, RxCall, RxNothing, RxRaises, lifeVars, txVars
  <2>2. HandOK' /\ RxOK'
    BY <2>1
  <2>3. TypeOK'
    BY <2>1
  <2>4. QED
    BY <2>2, <2>3
<1>2. CASE RxReturns
  <2>1. Head(inbox) \in RxFrames /\ Tail(inbox) \in Seq(RxFrames)
    BY <1>2, HeadTailProperties DEF RxReturns
  <2>2. rmsg' \in Seq(RxFrames) /\ Len(rmsg') = 1
    BY <1>2, <2>1 DEF RxReturns
  <2>3. inbox' \in Seq(RxFrames) /\ rx' = "got"
    BY <1>2, <2>1 DEF RxReturns
  <2>4. UNCHANGED <<lifeVars, txVars, ready, got, arrived>>
    BY <1>2 DEF RxReturns
  <2>5. HandOK' /\ RxOK'
    BY <2>2, <2>4 DEF lifeVars, txVars
  <2>6. TypeOK'
    BY <2>2, <2>3, <2>4 DEF lifeVars, txVars
  <2>7. QED
    BY <2>5, <2>6
<1>3. CASE RxDispatch
  <2>1. ready \o rmsg \in Seq(RxFrames) /\ <<>> \in Seq(RxFrames)
    BY ConcatProperties
  <2>2. /\ ready' \in Seq(RxFrames) /\ rmsg' \in Seq(RxFrames)
        /\ rx' \in {"crashed", "check"}
    BY <1>3, <2>1 DEF RxDispatch
  <2>3. UNCHANGED <<lifeVars, txVars, got, inbox, arrived>>
    BY <1>3 DEF RxDispatch
  <2>4. HandOK' /\ RxOK'
    BY <2>2, <2>3 DEF lifeVars, txVars
  <2>5. TypeOK'
    BY <2>2, <2>3 DEF lifeVars, txVars
  <2>6. QED
    BY <2>4, <2>5
<1>4. CASE RunCallback
  <2>1. Head(ready) \in RxFrames /\ Tail(ready) \in Seq(RxFrames)
    BY <1>4, HeadTailProperties DEF RunCallback
  <2>2. \A o \in Owner : Append(got[o], Head(ready)) \in Seq(RxFrames)
    BY <2>1, AppendProperties
  <2>3. got' \in [Owner -> Seq(RxFrames)]
    BY <1>4, <2>2 DEF RunCallback
  <2>4. QED
    BY <1>4, <2>1, <2>3 DEF RunCallback, lifeVars, txVars
<1>5. CASE \E i \in Id : Arrive(i)
  <2>1. PICK i \in Id : Arrive(i)
    BY <1>5
  <2>2. Len(arrived) + 1 \in 1 .. MaxArrivals
    BY <2>1, LenProperties DEF Arrive
  <2>3. [id |-> i, n |-> Len(arrived) + 1] \in RxFrames
    BY <2>2 DEF RxFrames
  <2>4. arrived' \in Seq(RxFrames) /\ inbox' \in Seq(RxFrames)
    BY <2>1, <2>3, AppendProperties DEF Arrive
  <2>5. UNCHANGED <<lifeVars, txVars, rx, rmsg, ready, got>>
    BY <2>1 DEF Arrive
  <2>6. HandOK' /\ RxOK'
    BY <2>5 DEF lifeVars, txVars
  <2>7. TypeOK'
    BY <2>4, <2>5 DEF lifeVars, txVars
  <2>8. QED
    BY <2>6, <2>7
<1>6. QED
  BY <1>1, <1>2, <1>3, <1>4, <1>5 DEF RxThread

LEMMA TypeStep == TypeInv /\ [Next]_vars => TypeInv'
<1> SUFFICES ASSUME TypeInv, [Next]_vars PROVE TypeInv'
  OBVIOUS
<1>1. CASE Lifecycle
  BY <1>1, LifecycleType
<1>2. CASE Put
  BY <1>2, PutType
<1>3. CASE TxTask
  BY <1>3, SendFirstType, SendAgainType DEF TxTask
<1>4. CASE RxThread \/ RunCallback \/ \E i \in Id : Arrive(i)
  BY <1>4, ReceiveType
<1>5. CASE UNCHANGED vars
  BY <1>5 DEF vars, lifeVars, txVars, rxVars, TypeInv, TypeOK, HandOK, RxOK
<1>6. QED
  BY <1>1, <1>2, <1>3, <1>4, <1>5 DEF Next

LEMMA TypeAlways == Spec => []TypeInv
BY TypeInit, TypeStep, PTL DEF Spec

\* The queues, the hand of the TX task and the frame of the RX thread hold what
\* they should in every state, up to the last retry (bus.py:184).
THEOREM TypeCorrect == Spec => []TypeOK
BY TypeAlways, PTL DEF TypeInv

-----------------------------------------------------------------------------
(* The TX side keeps the order *)

LEMMA OrderInit == Init => Fifo!FInit
<1> SUFFICES ASSUME Init PROVE Fifo!FInit
  OBVIOUS
<1>1. <<>> \o <<>> = <<>>
  BY ConcatEmptySeq, EmptySeq
<1>2. QED
  BY <1>1 DEF Init, Fifo!FInit

\* An attempt passes the frame on, drops it, or leaves it to the next attempt.
LEMMA AttemptMaps ==
  ASSUME TypeInv, NEW m \in Puts, NEW k \in 0 .. MaxRetry, NEW o \in Outcomes,
         NEW rest \in Seq(Puts), Attempt(m, k, o),
         hand \o txq # <<>>, Head(hand \o txq) = m, Tail(hand \o txq) = rest,
         hand \o txq \in Seq(Puts),
         txq' = rest
  PROVE  [Fifo!FNext]_Fifo!fifoVars
<1>1. <<>> \o rest = rest
  BY ConcatEmptySeq
<1>2. CASE o = "busy" /\ k < MaxRetry
  <2>1. hand' = <<m>> /\ wire' = wire
    BY <1>2 DEF Attempt, Answered
  <2>2. <<m>> \o rest = hand \o txq
    BY HeadTailConcat
  <2>3. hand' \o txq' = hand \o txq
    BY <2>1, <2>2
  <2>4. QED
    BY <2>1, <2>3 DEF Fifo!fifoVars
<1>3. CASE ~(o = "busy" /\ k < MaxRetry)
  <2>1. hand' = <<>> /\ wire' = IF o = "sent" THEN Append(wire, m) ELSE wire
    BY <1>3 DEF Attempt, Answered
  <2>2. hand' \o txq' = rest
    BY <1>1, <2>1
  <2>3. QED
    BY <2>1, <2>2 DEF Fifo!FNext, Fifo!Pass, Fifo!Drop
<1>4. QED
  BY <1>2, <1>3

LEMMA OrderStep == TypeInv /\ [Next]_vars => [Fifo!FNext]_Fifo!fifoVars
<1> SUFFICES ASSUME TypeInv, [Next]_vars PROVE [Fifo!FNext]_Fifo!fifoVars
  OBVIOUS
<1>0. /\ txq \in Seq(Puts) /\ hand \in Seq(Puts) /\ tries \in 0 .. MaxRetry
      /\ 0 \in 0 .. MaxRetry
  BY CanBusAssumption DEF TypeInv, TypeOK, Puts
<1>1. ASSUME UNCHANGED <<txq, hand, wire>> PROVE [Fifo!FNext]_Fifo!fifoVars
  BY <1>1 DEF Fifo!fifoVars
<1>2. CASE Put
  <2>1. puts' \in Puts /\ txq' = Append(txq, puts')
    BY <1>2, PutType
  <2>2. hand' = hand /\ wire' = wire
    BY <1>2 DEF Put
  <2>3. hand' \o txq' = Append(hand \o txq, puts')
    BY <1>0, <2>1, <2>2, ConcatAppend
  <2>4. Fifo!Enqueue(puts')
    BY <2>2, <2>3 DEF Fifo!Enqueue
  <2>5. QED
    BY <2>1, <2>4 DEF Fifo!FNext, Puts
<1>3. ASSUME NEW o \in Outcomes, SendFirst(o) PROVE [Fifo!FNext]_Fifo!fifoVars
  <2>1. hand = <<>> /\ Head(txq) \in Puts /\ Tail(txq) \in Seq(Puts)
    BY <1>3, SendFirstType
  <2>2. txq # <<>> /\ txq' = Tail(txq) /\ Attempt(Head(txq), 0, o)
    BY <1>3 DEF SendFirst
  <2>3. hand \o txq = txq
    BY <1>0, <2>1, ConcatEmptySeq
  <2>4. QED
    BY <1>0, <2>1, <2>2, <2>3, AttemptMaps
<1>4. ASSUME NEW o \in Outcomes, SendAgain(o) PROVE [Fifo!FNext]_Fifo!fifoVars
  <2>1. hand[1] \in Puts /\ Len(hand) = 1
    BY <1>4, SendAgainType
  <2>2. txq' = txq /\ Attempt(hand[1], tries, o)
    BY <1>4 DEF SendAgain
  <2>3. /\ hand \o txq # <<>> /\ Head(hand \o txq) = hand[1]
        /\ Tail(hand \o txq) = txq
    BY <1>0, <2>1, ConcatHeadTail
  <2>4. hand \o txq \in Seq(Puts)
    BY <1>0, ConcatProperties
  <2>5. QED
    BY <1>0, <2>1, <2>2, <2>3, <2>4, AttemptMaps
<1>5. CASE CancelTx
  <2>1. hand' = <<>> /\ txq' = txq /\ wire' = wire
    BY <1>5 DEF CancelTx
  <2>2. hand' \o txq' = txq
    BY <1>0, <2>1, ConcatEmptySeq
  <2>3. CASE hand = <<>>
    BY <1>1, <2>1, <2>3
  <2>4. CASE hand # <<>>
    <3>1. Len(hand) = 1
      <4>1. Len(hand) \in Nat \ {0}
        BY <1>0, <2>4, EmptySeq
      <4>2. Len(hand) <= 1
        BY DEF TypeInv, HandOK
      <4>3. QED
        BY <4>1, <4>2
    <3>2. hand \o txq # <<>> /\ Tail(hand \o txq) = txq
      BY <1>0, <3>1, ConcatHeadTail
    <3>3. Fifo!Drop
      BY <2>1, <2>2, <3>2 DEF Fifo!Drop
    <3>4. QED
      BY <3>3 DEF Fifo!FNext
  <2>5. QED
    BY <2>3, <2>4
<1>6. CASE Lifecycle /\ ~CancelTx
  <2>1. UNCHANGED <<txq, hand, wire>>
    BY <1>6 DEF Lifecycle, RegisterRx, Start, StartFails, Stop, Shutdown, ForgetBus,
                StopRaises, Abort, CloseLoop, txVars
  <2>2. QED
    BY <1>1, <2>1
<1>7. CASE RxThread \/ RunCallback \/ \E i \in Id : Arrive(i)
  <2>1. UNCHANGED <<txq, hand, wire>>
    BY <1>7 DEF RxThread, RxCheck, RxCall, RxReturns, RxNothing, RxRaises, RxDispatch,
                RunCallback, Arrive, txVars
  <2>2. QED
    BY <1>1, <2>1
<1>8. CASE UNCHANGED vars
  BY <1>1, <1>8 DEF vars, txVars
<1>9. QED
  BY <1>2, <1>3, <1>4, <1>5, <1>6, <1>7, <1>8 DEF Next, TxTask

\* The TX task implements a FIFO that may drop: whatever the interface answers
\* and however often a frame is retried, the frames on the interface are in
\* the order of the calls of send() (bus.py:179).
THEOREM OrderKept == Spec => KeepsOrder
<1>1. Spec => []TypeInv
  BY TypeAlways
<1>2. QED
  BY <1>1, OrderInit, OrderStep, PTL DEF Spec, KeepsOrder, Fifo!FSpec

-----------------------------------------------------------------------------
(* An interface that is busy for a while costs no frame *)

Counting(n) == [k \in 1 .. n |-> k]

All == wire \o hand \o txq

\* Until stop() every frame is accounted for, as long as the interface is calm,
\* and the attempt number is the number of busy answers in a row, which is why
\* no frame runs out of retries.
AllThere ==
  calm /\ life \in {"new", "up"} =>
    /\ All = Counting(puts)
    /\ busy = tries

KeepInv == TypeInv /\ AllThere

LEMMA CountingAppend ==
  ASSUME NEW n \in Nat
  PROVE  Append(Counting(n), n + 1) = Counting(n + 1)
<1>1. /\ Counting(n) \in Seq(Nat) /\ Len(Counting(n)) = n
      /\ \A k \in 1 .. n : Counting(n)[k] = k
  BY DEF Counting
<1>2. /\ Counting(n + 1) \in Seq(Nat) /\ Len(Counting(n + 1)) = n + 1
      /\ \A k \in 1 .. n + 1 : Counting(n + 1)[k] = k
  BY DEF Counting
<1>3. /\ Append(Counting(n), n + 1) \in Seq(Nat)
      /\ Len(Append(Counting(n), n + 1)) = n + 1
      /\ \A k \in 1 .. n : Append(Counting(n), n + 1)[k] = k
      /\ Append(Counting(n), n + 1)[n + 1] = n + 1
  BY <1>1, AppendProperties
<1>4. \A k \in 1 .. n + 1 : Append(Counting(n), n + 1)[k] = Counting(n + 1)[k]
  BY <1>2, <1>3
<1>5. QED
  BY <1>2, <1>3, <1>4, SeqEqual

LEMMA AllInit == Init => AllThere
<1> SUFFICES ASSUME Init PROVE AllThere
  OBVIOUS
<1>1. <<>> \o <<>> \o <<>> = <<>>
  BY ConcatEmptySeq, EmptySeq
<1>2. Counting(0) = <<>>
  BY DEF Counting
<1>3. QED
  BY <1>1, <1>2 DEF Init, AllThere, All

\* An attempt that sends, or that has a retry left, loses nothing.
LEMMA AttemptKeeps ==
  ASSUME TypeInv, NEW m \in Puts, NEW rest \in Seq(Puts),
         NEW k \in 0 .. MaxRetry, NEW o \in Outcomes,
         Attempt(m, k, o), CanAnswer(o), busy = k, calm',
         txq' = rest, All = wire \o <<m>> \o rest
  PROVE  All' = All /\ busy' = tries'
<1>0. /\ wire \in Seq(Puts) /\ <<m>> \in Seq(Puts) /\ busy \in 0 .. MaxBusy
      /\ o \in {"sent", "busy"} /\ busy' <= MaxRetry
  <2>1. wire \in Seq(Puts) /\ <<m>> \in Seq(Puts) /\ busy \in 0 .. MaxBusy
    BY DEF TypeInv, TypeOK, Puts
  <2>2. calm' = (calm /\ o \in {"sent", "busy"} /\ busy' <= MaxRetry)
    BY DEF Attempt, Answered
  <2>3. QED
    BY <2>1, <2>2, Zenon
<1>1. CASE o = "sent"
  <2>1. wire' = Append(wire, m) /\ hand' = <<>> /\ busy' = 0 /\ tries' = 0
    BY <1>1 DEF Attempt, Answered
  <2>2. Append(wire, m) = wire \o <<m>>
    BY <1>0, AppendIsConcat
  <2>3. (wire \o <<m>>) \o <<>> = wire \o <<m>>
    <3>1. wire \o <<m>> \in Seq(Puts)
      BY <1>0, ConcatProperties
    <3>2. QED
      BY <3>1, ConcatEmptySeq
  <2>4. QED
    BY <2>1, <2>2, <2>3 DEF All
<1>2. CASE o = "busy"
  <2>1. busy < MaxBusy
    BY <1>0, <1>2, CanBusAssumption DEF CanAnswer
  <2>2. k < MaxRetry
    BY <1>0, <1>2, <2>1, CanBusAssumption DEF Attempt, Answered
  <2>3. wire' = wire /\ hand' = <<m>> /\ busy' = busy + 1 /\ tries' = k + 1
    BY <1>2, <2>1, <2>2 DEF Attempt, Answered
  <2>4. QED
    BY <2>3 DEF All
<1>3. QED
  BY <1>0, <1>1, <1>2

LEMMA AllStep == KeepInv /\ [Next]_vars => KeepInv'
<1> SUFFICES ASSUME KeepInv, [Next]_vars, calm', life' \in {"new", "up"}
             PROVE  All' = Counting(puts') /\ busy' = tries'
  BY TypeStep DEF KeepInv, AllThere
<1>0. /\ TypeInv /\ puts \in Nat /\ tries \in 0 .. MaxRetry /\ 0 \in 0 .. MaxRetry
      /\ wire \in Seq(Puts) /\ hand \in Seq(Puts) /\ txq \in Seq(Puts)
  BY CanBusAssumption DEF KeepInv, TypeInv, TypeOK, Puts
<1>1. life \in {"new", "up"} /\ calm
  BY DEF Next, Lifecycle, RegisterRx, Start, StartFails, Stop, CancelTx, Shutdown,
         ForgetBus, StopRaises, Abort, CloseLoop, Put, TxTask, SendFirst, SendAgain,
         RxThread, RxCheck, RxCall, RxReturns, RxNothing, RxRaises, RxDispatch, RunCallback,
         Arrive, Attempt, Answered, vars, lifeVars, txVars
<1>2. All = Counting(puts) /\ busy = tries
  BY <1>1 DEF KeepInv, AllThere
<1>3. ASSUME UNCHANGED <<wire, hand, txq, puts, busy, tries>>
      PROVE  All' = Counting(puts') /\ busy' = tries'
  BY <1>2, <1>3 DEF All
<1>4. CASE Put
  <2>1. puts' = puts + 1 /\ puts' \in Puts /\ txq' = Append(txq, puts')
    BY <1>0, <1>4, PutType
  <2>2. UNCHANGED <<wire, hand, busy, tries>>
    BY <1>4 DEF Put
  <2>3. wire \o hand \in Seq(Puts)
    BY <1>0, ConcatProperties
  <2>4. All' = Append(All, puts')
    <3>1. txq \in Seq(Puts) /\ puts' \in Puts
      BY <1>0, <2>1
    <3>2. (wire \o hand) \o Append(txq, puts') = Append((wire \o hand) \o txq, puts')
      BY ONLY <2>3, <3>1, ConcatAppend
    <3>3. QED
      BY <2>1, <2>2, <3>2 DEF All
  <2>5. Append(Counting(puts), puts + 1) = Counting(puts + 1)
    BY <1>0, CountingAppend
  <2>6. QED
    BY <1>2, <2>1, <2>2, <2>4, <2>5
<1>5. ASSUME NEW o \in Outcomes, SendFirst(o)
      PROVE  All' = Counting(puts') /\ busy' = tries'
  <2>1. hand = <<>> /\ Head(txq) \in Puts /\ Tail(txq) \in Seq(Puts)
    BY <1>0, <1>5, SendFirstType
  <2>2. /\ txq # <<>> /\ txq' = Tail(txq) /\ Attempt(Head(txq), 0, o) /\ CanAnswer(o)
        /\ puts' = puts /\ tx = "get"
    BY <1>5 DEF SendFirst
  <2>3. busy = 0
    BY <1>0, <1>2, <2>2 DEF TypeInv, HandOK
  <2>4. All = wire \o <<Head(txq)>> \o Tail(txq)
    <3>1. wire \o hand = wire
      BY <1>0, <2>1, ConcatEmptySeq
    <3>2. <<Head(txq)>> \o Tail(txq) = txq /\ <<Head(txq)>> \in Seq(Puts)
      BY <1>0, <2>1, <2>2, HeadTailConcat
    <3>3. (wire \o <<Head(txq)>>) \o Tail(txq) = wire \o (<<Head(txq)>> \o Tail(txq))
      BY <1>0, <2>1, <3>2, ConcatAssociative
    <3>4. QED
      BY <3>1, <3>2, <3>3 DEF All
  <2>5. All' = All /\ busy' = tries'
    BY <1>0, <2>1, <2>2, <2>3, <2>4, AttemptKeeps
  <2>6. QED
    BY <1>2, <2>2, <2>5
<1>6. ASSUME NEW o \in Outcomes, SendAgain(o)
      PROVE  All' = Counting(puts') /\ busy' = tries'
  <2>1. hand[1] \in Puts /\ Len(hand) = 1
    BY <1>0, <1>6, SendAgainType
  <2>2. /\ txq' = txq /\ Attempt(hand[1], tries, o) /\ CanAnswer(o)
        /\ puts' = puts
    BY <1>6 DEF SendAgain
  <2>3. hand = <<hand[1]>>
    <3>1. <<hand[1]>> \in Seq(Puts) /\ Len(<<hand[1]>>) = 1
      BY <2>1
    <3>2. \A i \in 1 .. 1 : hand[i] = <<hand[1]>>[i]
      OBVIOUS
    <3>3. QED
      BY <1>0, <2>1, <3>1, <3>2, SeqEqual
  <2>4. All = wire \o <<hand[1]>> \o txq
    BY <2>3 DEF All
  <2>5. All' = All /\ busy' = tries'
    BY <1>0, <1>2, <2>1, <2>2, <2>4, AttemptKeeps
  <2>6. QED
    BY <1>2, <2>2, <2>5
<1>7. CASE Lifecycle
  <2>1. ~CancelTx
    BY <1>1, <1>7 DEF CancelTx
  <2>2. UNCHANGED <<wire, hand, txq, puts, busy, tries>>
    BY <1>7, <2>1 DEF Lifecycle, RegisterRx, Start, StartFails, Stop, Shutdown,
                      ForgetBus, StopRaises, Abort, CloseLoop, txVars
  <2>3. QED
    BY <1>3, <2>2
<1>8. CASE RxThread \/ RunCallback \/ (\E i \in Id : Arrive(i)) \/ UNCHANGED vars
  <2>1. UNCHANGED <<wire, hand, txq, puts, busy, tries>>
    BY <1>8 DEF RxThread, RxCheck, RxCall, RxReturns, RxNothing, RxRaises, RxDispatch,
                RunCallback, Arrive, txVars, vars
  <2>2. QED
    BY <1>3, <2>1
<1>9. QED
  BY <1>4, <1>5, <1>6, <1>7, <1>8 DEF Next, TxTask

\* Retrying TX_RETRY_MAX times is enough: as long as the interface is never busy
\* more often than that in a row, no frame is lost, however many are queued and
\* however often it is busy (bus.py:178-191).
THEOREM BusyLosesNothing == Spec => []NothingLost
<1>1. Init => KeepInv
  BY TypeInit, AllInit DEF KeepInv
<1>2. KeepInv => NothingLost
  BY DEF KeepInv, AllThere, NothingLost, All, Counting
<1>3. QED
  BY <1>1, <1>2, AllStep, PTL DEF Spec

-----------------------------------------------------------------------------
(* The interface is open whenever it is sent to *)

\* Only the TX task sends, and stop() lets go of the interface only after it
\* has awaited the cancelled task (bus.py:125-132).
THEOREM SendsToOpenBus == Spec => NeverSendsToClosed
<1> DEFINE Safe == wire' # wire \/ busy' # busy \/ tries' > tries => bus = "open"
<1>1. TypeInv /\ [Next]_vars => [Safe]_vars
  <2> SUFFICES ASSUME TypeInv, [Next]_vars,
                      wire' # wire \/ busy' # busy \/ tries' > tries
               PROVE  bus = "open"
    OBVIOUS
  <2>1. CASE TxTask
    BY <2>1 DEF TxTask, SendFirst, SendAgain, TypeInv, HandOK
  <2>2. tries \in Nat
    BY CanBusAssumption DEF TypeInv, TypeOK
  <2>3. CASE CancelTx
    BY <2>2, <2>3 DEF CancelTx
  <2>4. CASE Lifecycle /\ ~CancelTx
    BY <2>2, <2>4 DEF Lifecycle, RegisterRx, Start, StartFails, Stop, Shutdown,
                ForgetBus, StopRaises, Abort, CloseLoop, txVars
  <2>5. CASE Put
    BY <2>2, <2>5 DEF Put
  <2>6. CASE RxThread \/ RunCallback \/ (\E i \in Id : Arrive(i)) \/ UNCHANGED vars
    <3>1. UNCHANGED <<wire, busy, tries>>
      BY <2>6 DEF RxThread, RxCheck, RxCall, RxReturns, RxNothing, RxRaises, RxDispatch,
                  RunCallback, Arrive, txVars, vars
    <3>2. QED
      BY <2>2, <3>1
  <2>7. QED
    BY <2>1, <2>3, <2>4, <2>5, <2>6 DEF Next
<1>2. Spec => [][Safe]_vars
  BY <1>1, TypeAlways, PTL DEF Spec
<1>3. QED
  BY <1>2 DEF NeverSendsToClosed

-----------------------------------------------------------------------------
(* What can end the RX thread *)

\* While the bus is up the two conditions of the loop hold, and up to the
\* shutdown() of the interface it is there for recv(): the thread is in its
\* loop, or has failed in recv() itself.
RxInv ==
  /\ life \in {"up", "aborting"} =>
       running /\ bus = "open" /\ rx \notin {"new", "ended", "crashed"}
  /\ life \in {"new", "failed", "cancelling", "raised"} => rx # "crashed"
  /\ life \in {"cancelling", "raised"} => bus = "open"
  /\ life = "closing" => bus = "shut"
  /\ life \in {"new", "failed"} => rx = "new"

\* Two things can end the RX thread.  One is an exception of recv() on the open
\* interface, at any time; the other is the shutdown itself, and that only from
\* the step on in which stop() shuts the interface down, or asyncio.run()
\* closes the loop (bus.py:130-132, 222-241).
THEOREM RxEndsLast == Spec => []RxOutlivesBus
<1>1. Init => RxInv
  BY DEF Init, RxInv
<1>2. RxInv /\ [Next]_vars => RxInv'
  <2> SUFFICES ASSUME RxInv, [Next]_vars
               PROVE  RxInv'
    OBVIOUS
  <2>1. CASE RegisterRx \/ Start \/ StartFails \/ Stop \/ CancelTx
    BY <2>1 DEF RxInv, RegisterRx, Start, StartFails, Stop, CancelTx, lifeVars, rxVars
  <2>2. CASE Shutdown \/ ForgetBus \/ StopRaises \/ Abort \/ CloseLoop
    BY <2>2 DEF RxInv, Shutdown, ForgetBus, StopRaises, Abort, CloseLoop, rxVars
  <2>3. CASE Put \/ TxTask \/ RunCallback \/ (\E i \in Id : Arrive(i)) \/ UNCHANGED vars
    <3>1. UNCHANGED <<life, running, bus, rx>>
      BY <2>3 DEF Put, TxTask, SendFirst, SendAgain, RunCallback, Arrive, lifeVars,
                  rxVars, vars
    <3>2. QED
      BY <3>1 DEF RxInv
  <2>4. CASE RxThread
    <3>1. UNCHANGED <<life, running, bus>>
      BY <2>4 DEF RxThread, RxCheck, RxCall, RxReturns, RxNothing, RxRaises, RxDispatch, lifeVars
    <3>2. CASE RxCheck \/ RxCall
      BY <3>1, <3>2 DEF RxInv, RxCheck, RxCall
    <3>3. CASE RxReturns \/ RxNothing \/ RxRaises \/ RxDispatch
      BY <3>1, <3>3 DEF RxInv, RxReturns, RxNothing, RxRaises, RxDispatch
    <3>4. QED
      BY <2>4, <3>2, <3>3 DEF RxThread
  <2>5. QED
    BY <2>1, <2>2, <2>3, <2>4 DEF Next, Lifecycle
<1>3. Spec => [](TypeInv /\ RxInv)
  BY <1>1, <1>2, TypeAlways, PTL DEF Spec
<1>4. TypeInv /\ RxInv => RxOutlivesBus
  BY DEF TypeInv, TypeOK, RxInv, RxOutlivesBus
<1>5. QED
  BY <1>3, <1>4, PTL

-----------------------------------------------------------------------------
(* The RX side: thread, event loop and callbacks                           *)

\* The frames of a queue are in the order of reception.
Ordered(s) == \A k, l \in DOMAIN s : k < l => s[k].n < s[l].n

\* The frames of A were received before those of B.
Before(A, B) == \A f \in A, g \in B : f.n < g.n

\* Between reception and callback a frame is in one of three places.
OnTheWay == Range(ready) \cup Range(rmsg) \cup Range(inbox)

\* The owner of an identifier is the last that has registered it.
LastOwner(n) ==
  [i \in Id |->
     {o \in Owner : \E k \in 1 .. n :
        /\ Registrations[k] = <<i, o>>
        /\ \A l \in 1 .. n : l > k => Registrations[l][1] # i}]

Registered ==
  /\ cbs = LastOwner(loaded)
  /\ life \notin {"new", "failed"} => loaded = Len(Registrations)

\* Nothing is received before start().
Quiet ==
  life \in {"new", "failed"} =>
    /\ bus = "none" /\ rx = "new"
    /\ ready = <<>> /\ rmsg = <<>> /\ inbox = <<>> /\ arrived = <<>>
    /\ got = [o \in Owner |-> <<>>]

\* Each queue is in order, and whatever is in one was received before whatever
\* is in the queue it came from.
Queued ==
  /\ \A k \in DOMAIN arrived : arrived[k].n = k
  /\ rx \notin {"got", "crashed"} => rmsg = <<>>
  /\ Ordered(ready) /\ Ordered(rmsg) /\ Ordered(inbox)
  /\ Before(Range(ready), Range(rmsg)) /\ Before(Range(ready), Range(inbox))
  /\ Before(Range(rmsg), Range(inbox))
  /\ OnTheWay \subseteq Range(arrived)

Given(o) ==
  /\ Ordered(got[o]) /\ Before(Range(got[o]), OnTheWay)
  /\ Range(got[o]) \subseteq Range(arrived)
  /\ \A f \in Range(got[o]) : o \in cbs[f.id]
  /\ \A f \in Range(arrived) : o \in cbs[f.id] => f \in Range(got[o]) \cup OnTheWay

DeliveryInv ==
  /\ TypeInv
  /\ Registered /\ Quiet /\ Queued
  /\ life \notin {"new", "failed"} => \A o \in Owner : Given(o)

LEMMA ConcatSplit ==
  ASSUME NEW a \in Seq(RxFrames), NEW b \in Seq(RxFrames)
  PROVE  /\ a \o b \in Seq(RxFrames)
         /\ Range(a \o b) = Range(a) \cup Range(b)
         /\ Ordered(a \o b) <=>
              Ordered(a) /\ Ordered(b) /\ Before(Range(a), Range(b))
<1> DEFINE c == a \o b
<1>1. /\ Len(a) \in Nat /\ Len(b) \in Nat
      /\ DOMAIN a = 1 .. Len(a) /\ DOMAIN b = 1 .. Len(b)
  BY LenProperties
<1>2. /\ c \in Seq(RxFrames) /\ Len(c) = Len(a) + Len(b)
      /\ \A i \in 1 .. Len(a) + Len(b) : c[i] = IF i <= Len(a) THEN a[i] ELSE b[i - Len(a)]
  BY ConcatProperties
<1>3. DOMAIN c = 1 .. Len(a) + Len(b)
  BY <1>2, LenProperties
<1> HIDE DEF c
<1>4. \A i \in DOMAIN a : i \in DOMAIN c /\ c[i] = a[i]
  BY <1>1, <1>2, <1>3
<1>5. \A i \in DOMAIN b : Len(a) + i \in DOMAIN c /\ c[Len(a) + i] = b[i]
  BY <1>1, <1>2, <1>3
<1>6. \A i \in DOMAIN c : \/ i \in DOMAIN a
                          \/ i > Len(a) /\ i - Len(a) \in DOMAIN b /\ c[i] = b[i - Len(a)]
  BY <1>1, <1>2, <1>3
<1>7. Range(c) = Range(a) \cup Range(b)
  <2>1. \A i \in DOMAIN c : c[i] \in Range(a) \cup Range(b)
    BY <1>4, <1>6 DEF Range
  <2>2. \A i \in DOMAIN a : a[i] \in Range(c)
    BY <1>4 DEF Range
  <2>3. \A i \in DOMAIN b : b[i] \in Range(c)
    BY <1>5 DEF Range
  <2>4. Range(c) \subseteq Range(a) \cup Range(b)
    BY <2>1 DEF Range
  <2>5. Range(a) \subseteq Range(c) /\ Range(b) \subseteq Range(c)
    BY <2>2, <2>3 DEF Range
  <2>6. QED
    BY <2>4, <2>5
<1>8. ASSUME Ordered(c) PROVE Ordered(a) /\ Ordered(b) /\ Before(Range(a), Range(b))
  <2>1. Ordered(a)
    BY <1>4, <1>8 DEF Ordered
  <2>2. ASSUME NEW k \in DOMAIN b, NEW l \in DOMAIN b, k < l PROVE b[k].n < b[l].n
    <3>1. Len(a) + k < Len(a) + l
      BY <1>1, <2>2
    <3>2. QED
      BY <1>5, <1>8, <3>1 DEF Ordered
  <2>3. ASSUME NEW k \in DOMAIN a, NEW l \in DOMAIN b PROVE a[k].n < b[l].n
    <3>1. k < Len(a) + l
      BY <1>1, <2>3
    <3>2. QED
      BY <1>4, <1>5, <1>8, <3>1 DEF Ordered
  <2>4. QED
    BY <2>1, <2>2, <2>3 DEF Ordered, Before, Range
<1>9. ASSUME Ordered(a), Ordered(b), Before(Range(a), Range(b)),
             NEW k \in DOMAIN c, NEW l \in DOMAIN c, k < l
      PROVE  c[k].n < c[l].n
  <2>1. CASE l \in DOMAIN a
    <3>1. k \in DOMAIN a
      BY <1>1, <1>3, <1>9, <2>1
    <3>2. QED
      BY <1>4, <1>9, <2>1, <3>1 DEF Ordered
  <2>2. CASE k \in DOMAIN a /\ l \notin DOMAIN a
    <3>1. l - Len(a) \in DOMAIN b /\ c[l] = b[l - Len(a)] /\ c[k] = a[k]
      BY <1>4, <1>6, <2>2
    <3>2. c[k] \in Range(a) /\ c[l] \in Range(b)
      BY <2>2, <3>1 DEF Range
    <3>3. QED
      BY <1>9, <3>2 DEF Before
  <2>3. CASE k \notin DOMAIN a /\ l \notin DOMAIN a
    <3>1. /\ k - Len(a) \in DOMAIN b /\ c[k] = b[k - Len(a)]
          /\ l - Len(a) \in DOMAIN b /\ c[l] = b[l - Len(a)]
      BY <1>6, <2>3
    <3>2. k - Len(a) < l - Len(a)
      BY <1>1, <1>3, <1>9
    <3>3. QED
      BY <1>9, <3>1, <3>2 DEF Ordered
  <2>4. QED
    BY <2>1, <2>2, <2>3
<1>10. Ordered(c) <=> Ordered(a) /\ Ordered(b) /\ Before(Range(a), Range(b))
  BY <1>8, <1>9 DEF Ordered
<1>11. QED
  BY <1>2, <1>7, <1>10 DEF c

LEMMA SmallQueues ==
  /\ Range(<<>>) = {} /\ Ordered(<<>>)
  /\ \A m : Range(<<m>>) = {m} /\ Ordered(<<m>>)
BY DEF Range, Ordered

LEMMA HeadApart ==
  ASSUME NEW s \in Seq(RxFrames), s # <<>>
  PROVE  /\ Range(s) = {Head(s)} \cup Range(Tail(s))
         /\ Ordered(s) => Ordered(Tail(s)) /\ Before({Head(s)}, Range(Tail(s)))
<1> DEFINE h == <<Head(s)>>  t == Tail(s)
<1>1. t \in Seq(RxFrames) /\ h \in Seq(RxFrames) /\ h \o t = s
  BY HeadTailConcat
<1>2. Range(h) = {Head(s)}
  BY SmallQueues
<1> HIDE DEF h, t
<1>3. /\ Range(h \o t) = Range(h) \cup Range(t)
      /\ Ordered(h \o t) => Ordered(t) /\ Before(Range(h), Range(t))
  BY <1>1, ConcatSplit
<1>4. QED
  BY <1>1, <1>2, <1>3 DEF t

LEMMA LastApart ==
  ASSUME NEW s \in Seq(RxFrames), NEW m \in RxFrames
  PROVE  /\ Range(Append(s, m)) = Range(s) \cup {m}
         /\ Ordered(s) /\ Before(Range(s), {m}) => Ordered(Append(s, m))
<1> DEFINE t == <<m>>
<1>1. t \in Seq(RxFrames) /\ Append(s, m) = s \o t
  BY AppendIsConcat
<1>2. Range(t) = {m} /\ Ordered(t)
  BY SmallQueues
<1> HIDE DEF t
<1>3. /\ Range(s \o t) = Range(s) \cup Range(t)
      /\ Ordered(s) /\ Ordered(t) /\ Before(Range(s), Range(t)) => Ordered(s \o t)
  BY <1>1, ConcatSplit
<1>4. QED
  BY <1>1, <1>2, <1>3

LEMMA DeliveryInit == Init => DeliveryInv
<1> SUFFICES ASSUME Init PROVE DeliveryInv
  OBVIOUS
<1>1. Registered
  BY DEF Init, Registered, LastOwner
<1>2. Quiet
  BY DEF Init, Quiet
<1>3. Queued
  BY SmallQueues DEF Init, Queued, Before, OnTheWay
<1>4. QED
  BY <1>1, <1>2, <1>3, TypeInit DEF DeliveryInv, Init

\* Registering a callback.
LEMMA RegisterDelivery ==
  ASSUME DeliveryInv, RegisterRx
  PROVE  DeliveryInv'
<1>0. TypeInv' /\ loaded \in Nat
  <2>1. TypeInv'
    BY TypeStep DEF DeliveryInv, Next, Lifecycle
  <2>2. loaded \in 0 .. Len(Registrations) /\ Len(Registrations) \in Nat
    BY LenProperties, CanBusAssumption DEF DeliveryInv, TypeInv, TypeOK
  <2>3. QED
    BY <2>1, <2>2
<1>1. /\ life = "new" /\ loaded' = loaded + 1 /\ loaded < Len(Registrations)
      /\ cbs' = [cbs EXCEPT ![Registrations[loaded'][1]] = {Registrations[loaded'][2]}]
      /\ UNCHANGED <<life, running, bus, txVars, rxVars>>
  BY DEF RegisterRx
<1>2. PICK j \in Id, p \in Owner : Registrations[loaded + 1] = <<j, p>>
  <2>1. loaded + 1 \in 1 .. Len(Registrations)
    BY <1>0, <1>1, LenProperties, CanBusAssumption
  <2>2. Registrations[loaded + 1] \in Id \X Owner
    BY <2>1, ElementOfSeq, CanBusAssumption
  <2>3. QED
    BY <2>2
<1>3. Registered'
  <2>1. cbs = LastOwner(loaded)
    BY DEF DeliveryInv, Registered
  <2>2. cbs' = [cbs EXCEPT ![j] = {p}]
    BY <1>1, <1>2
  <2>3. ASSUME NEW i \in Id PROVE cbs'[i] = LastOwner(loaded + 1)[i]
    <3>1. CASE i = j
      <4>1. cbs'[i] = {p}
        BY <2>1, <2>2, <3>1 DEF LastOwner
      <4>2. p \in LastOwner(loaded + 1)[i]
        BY <1>0, <1>2, <3>1 DEF LastOwner
      <4>3. ASSUME NEW o \in LastOwner(loaded + 1)[i] PROVE o = p
        <5>1. PICK k \in 1 .. loaded + 1 :
                /\ Registrations[k] = <<i, o>>
                /\ \A l \in 1 .. loaded + 1 : l > k => Registrations[l][1] # i
          BY <4>3 DEF LastOwner
        <5>2. ~ (loaded + 1 > k)
          BY <1>0, <1>2, <3>1, <5>1
        <5>3. k = loaded + 1
          BY <1>0, <5>2
        <5>4. QED
          BY <1>2, <5>1, <5>3
      <4>4. QED
        BY <4>1, <4>2, <4>3
    <3>2. CASE i # j
      <4>1. cbs'[i] = LastOwner(loaded)[i]
        BY <2>1, <2>2, <3>2 DEF LastOwner
      <4>2. ASSUME NEW o \in LastOwner(loaded)[i] PROVE o \in LastOwner(loaded + 1)[i]
        <5>1. PICK k \in 1 .. loaded :
                /\ Registrations[k] = <<i, o>>
                /\ \A l \in 1 .. loaded : l > k => Registrations[l][1] # i
          BY <4>2 DEF LastOwner
        <5>2. \A l \in 1 .. loaded + 1 : l > k => Registrations[l][1] # i
          BY <1>0, <1>2, <3>2, <5>1
        <5>3. k \in 1 .. loaded + 1
          BY <1>0
        <5>4. QED
          BY <4>2, <5>1, <5>2, <5>3 DEF LastOwner
      <4>3. ASSUME NEW o \in LastOwner(loaded + 1)[i] PROVE o \in LastOwner(loaded)[i]
        <5>1. PICK k \in 1 .. loaded + 1 :
                /\ Registrations[k] = <<i, o>>
                /\ \A l \in 1 .. loaded + 1 : l > k => Registrations[l][1] # i
          BY <4>3 DEF LastOwner
        <5>2. k # loaded + 1
          BY <1>2, <3>2, <5>1
        <5>3. k \in 1 .. loaded /\ \A l \in 1 .. loaded : l \in 1 .. loaded + 1
          BY <1>0, <5>2
        <5>4. QED
          BY <4>3, <5>1, <5>3 DEF LastOwner
      <4>4. QED
        BY <4>1, <4>2, <4>3
    <3>3. QED
      BY <3>1, <3>2
  <2>4. cbs' = LastOwner(loaded + 1)
    <3>1. cbs' = [i \in Id |-> cbs'[i]]
      BY <2>1, <2>2 DEF LastOwner
    <3>2. LastOwner(loaded + 1) = [i \in Id |-> LastOwner(loaded + 1)[i]]
      BY DEF LastOwner
    <3>3. QED
      BY <2>3, <3>1, <3>2
  <2>5. cbs' = LastOwner(loaded')
    BY <1>1, <2>4
  <2>6. life' = "new"
    BY <1>1
  <2>7. QED
    BY <2>5, <2>6 DEF Registered
<1>4. Quiet' /\ Queued'
  BY <1>1 DEF DeliveryInv, Quiet, Queued, OnTheWay, rxVars
<1>5. QED
  BY <1>0, <1>1, <1>3, <1>4 DEF DeliveryInv

\* Steps that leave queues and callbacks alone.
LEMMA ElsewhereDelivery ==
  ASSUME DeliveryInv, [Next]_vars, UNCHANGED <<cbs, loaded, rmsg, ready, got, inbox, arrived>>,
         life' \notin {"new", "failed"} => life \notin {"new", "failed"} \/ Start,
         life' \in {"new", "failed"} =>
           life \in {"new", "failed"} /\ UNCHANGED <<bus, rx>>,
         rx' \in {"got", "crashed"} \/ rmsg = <<>>
  PROVE  DeliveryInv'
<1>1. TypeInv'
  BY TypeStep DEF DeliveryInv
<1>2. Registered'
  BY DEF DeliveryInv, Registered, Start
<1>3. Quiet'
  BY DEF DeliveryInv, Quiet
<1>4. Queued'
  BY DEF DeliveryInv, Queued, OnTheWay
<1>5. ASSUME life' \notin {"new", "failed"}, NEW o \in Owner PROVE Given(o)'
  <2>1. CASE life \notin {"new", "failed"}
    BY <2>1 DEF DeliveryInv, Given, OnTheWay
  <2>2. CASE life \in {"new", "failed"}
    <3>1. ready = <<>> /\ rmsg = <<>> /\ inbox = <<>> /\ arrived = <<>> /\ got[o] = <<>>
      BY <2>2 DEF DeliveryInv, Quiet
    <3>2. QED
      BY <3>1, SmallQueues DEF Given, OnTheWay, Before
  <2>3. QED
    BY <2>1, <2>2
<1>6. QED
  BY <1>1, <1>2, <1>3, <1>4, <1>5 DEF DeliveryInv

\* The four steps that move a frame.
LEMMA MovesDelivery ==
  ASSUME DeliveryInv, life \notin {"new", "failed"}, UNCHANGED <<life, loaded, cbs>>,
         TypeInv', Queued', \A o \in Owner : Given(o)'
  PROVE  DeliveryInv'
<1>1. Registered' /\ Quiet'
  BY DEF DeliveryInv, Registered, Quiet
<1>2. QED
  BY <1>1 DEF DeliveryInv

LEMMA ArriveDelivery ==
  ASSUME DeliveryInv, NEW i \in Id, Arrive(i)
  PROVE  DeliveryInv'
<1> DEFINE m == [id |-> i, n |-> Len(arrived) + 1]
<1>0. /\ arrived \in Seq(RxFrames) /\ inbox \in Seq(RxFrames) /\ TypeInv'
      /\ DOMAIN arrived = 1 .. Len(arrived) /\ Len(arrived) \in Nat
  BY TypeStep, LenProperties DEF DeliveryInv, TypeInv, TypeOK, Next
<1>1. /\ arrived' = Append(arrived, m) /\ inbox' = Append(inbox, m)
      /\ UNCHANGED <<life, loaded, cbs, rx, rmsg, ready, got>>
      /\ life \notin {"new", "failed"} /\ m \in RxFrames
  BY <1>0, CanBusAssumption DEF Arrive, lifeVars, DeliveryInv, Quiet, RxFrames
<1> HIDE DEF m
<1>2. m.n = Len(arrived) + 1
  BY DEF m
<1>3. /\ Range(arrived') = Range(arrived) \cup {m}
      /\ Range(inbox') = Range(inbox) \cup {m}
  BY <1>0, <1>1, LastApart
<1>4. \A f \in Range(arrived) : f.n < m.n
  <2>1. \A k \in DOMAIN arrived : arrived[k].n < m.n
    BY <1>0, <1>2 DEF DeliveryInv, Queued
  <2>2. QED
    BY <2>1 DEF Range
<1>5. OnTheWay' = OnTheWay \cup {m}
  BY <1>1, <1>3 DEF OnTheWay
<1>6. Queued'
  <2>1. \A k \in DOMAIN arrived' : arrived'[k].n = k
    <3>1. /\ DOMAIN arrived' = 1 .. Len(arrived) + 1 /\ arrived'[Len(arrived) + 1] = m
          /\ \A k \in 1 .. Len(arrived) : arrived'[k] = arrived[k]
      BY <1>0, <1>1, AppendProperties
    <3>2. QED
      BY <1>0, <1>2, <3>1 DEF DeliveryInv, Queued
  <2>2. Range(inbox) \subseteq Range(arrived) /\ Range(ready) \subseteq Range(arrived)
        /\ Range(rmsg) \subseteq Range(arrived)
    BY DEF DeliveryInv, Queued, OnTheWay
  <2>3. Ordered(inbox')
    <3>1. Ordered(inbox) /\ Before(Range(inbox), {m})
      BY <1>4, <2>2 DEF DeliveryInv, Queued, Before
    <3>2. QED
      BY <1>0, <1>1, <3>1, LastApart
  <2>4. Before(Range(ready'), Range(inbox')) /\ Before(Range(rmsg'), Range(inbox'))
    BY <1>1, <1>3, <1>4, <2>2 DEF DeliveryInv, Queued, Before
  <2>5. OnTheWay' \subseteq Range(arrived')
    BY <1>3, <1>5 DEF DeliveryInv, Queued
  <2>6. QED
    BY <1>1, <2>1, <2>3, <2>4, <2>5 DEF DeliveryInv, Queued
<1>7. ASSUME NEW o \in Owner PROVE Given(o)'
  <2>1. Given(o)
    BY <1>1 DEF DeliveryInv
  <2>2. Before(Range(got[o]), OnTheWay \cup {m})
    BY <1>4, <2>1 DEF Given, Before
  <2>3. QED
    BY <1>1, <1>3, <1>5, <2>1, <2>2 DEF Given
<1>8. QED
  BY <1>0, <1>1, <1>6, <1>7, MovesDelivery

LEMMA RxReturnsDelivery ==
  ASSUME DeliveryInv, RxReturns
  PROVE  DeliveryInv'
<1>0. inbox \in Seq(RxFrames) /\ inbox # <<>> /\ TypeInv'
  BY TypeStep DEF DeliveryInv, TypeInv, TypeOK, Next, RxThread, RxReturns
<1>1. /\ rmsg = <<>> /\ rmsg' = <<Head(inbox)>> /\ inbox' = Tail(inbox) /\ rx' = "got"
      /\ UNCHANGED <<life, loaded, cbs, ready, got, arrived>>
      /\ life \notin {"new", "failed"}
  BY DEF DeliveryInv, Queued, Quiet, RxReturns, lifeVars
<1>2. /\ Range(rmsg) = {} /\ Range(rmsg') = {Head(inbox)} /\ Ordered(rmsg')
      /\ Range(inbox) = {Head(inbox)} \cup Range(inbox') /\ Ordered(inbox')
      /\ Before(Range(rmsg'), Range(inbox'))
  BY <1>0, <1>1, SmallQueues, HeadApart DEF DeliveryInv, Queued
<1>3. OnTheWay' = OnTheWay
  BY <1>1, <1>2 DEF OnTheWay
<1>4. Queued'
  <2>1. Before(Range(ready'), Range(rmsg')) /\ Before(Range(ready'), Range(inbox'))
    BY <1>1, <1>2 DEF DeliveryInv, Queued, Before
  <2>2. QED
    BY <1>1, <1>2, <1>3, <2>1 DEF DeliveryInv, Queued
<1>5. ASSUME NEW o \in Owner PROVE Given(o)'
  BY <1>1, <1>3 DEF DeliveryInv, Given
<1>6. QED
  BY <1>0, <1>1, <1>4, <1>5, MovesDelivery

LEMMA RxDispatchDelivery ==
  ASSUME DeliveryInv, RxDispatch
  PROVE  DeliveryInv'
<1>0. /\ rmsg \in Seq(RxFrames) /\ ready \in Seq(RxFrames) /\ Len(rmsg) = 1 /\ TypeInv'
      /\ rx = "got"
  BY TypeStep DEF DeliveryInv, TypeInv, TypeOK, RxOK, Next, RxThread, RxDispatch
<1>1. /\ UNCHANGED <<life, loaded, cbs, got, inbox, arrived>>
      /\ life \notin {"new", "failed"}
  BY <1>0 DEF DeliveryInv, Quiet, RxDispatch, lifeVars
<1>2. rmsg[1] \in Range(rmsg) /\ \A f \in Range(rmsg) : f = rmsg[1]
  BY <1>0, LenProperties DEF Range
<1>3. CASE rx' = "crashed" /\ UNCHANGED <<rmsg, ready>>
  BY <1>0, <1>1, <1>3 DEF DeliveryInv, Queued, Given, OnTheWay, Quiet, Registered
<1>4. CASE cbs[rmsg[1].id] # {} /\ rx' = "check" /\ rmsg' = <<>> /\ ready' = ready \o rmsg
  <2>1. /\ Range(ready') = Range(ready) \cup Range(rmsg) /\ Range(rmsg') = {}
        /\ Ordered(ready') /\ Ordered(rmsg')
    BY <1>0, <1>4, ConcatSplit, SmallQueues DEF DeliveryInv, Queued
  <2>2. OnTheWay' = OnTheWay
    BY <1>1, <2>1 DEF OnTheWay
  <2>3. Queued'
    <3>1. /\ Before(Range(ready'), Range(rmsg')) /\ Before(Range(ready'), Range(inbox'))
          /\ Before(Range(rmsg'), Range(inbox'))
      BY <1>1, <2>1 DEF DeliveryInv, Queued, Before
    <3>2. QED
      BY <1>1, <1>4, <2>1, <2>2, <3>1 DEF DeliveryInv, Queued
  <2>4. ASSUME NEW o \in Owner PROVE Given(o)'
    BY <1>1, <2>2 DEF DeliveryInv, Given
  <2>5. QED
    BY <1>0, <1>1, <2>3, <2>4, MovesDelivery
<1>5. CASE cbs[rmsg[1].id] = {} /\ rx' = "check" /\ rmsg' = <<>> /\ ready' = ready
  <2>1. Range(rmsg') = {} /\ Ordered(rmsg')
    BY <1>5, SmallQueues
  <2>2. OnTheWay' \subseteq OnTheWay /\ OnTheWay \subseteq OnTheWay' \cup Range(rmsg)
    BY <1>1, <1>5, <2>1 DEF OnTheWay
  <2>3. Queued'
    <3>1. Before(Range(ready'), Range(rmsg')) /\ Before(Range(rmsg'), Range(inbox'))
      BY <2>1 DEF Before
    <3>2. OnTheWay' \subseteq Range(arrived')
      BY <1>1, <2>2 DEF DeliveryInv, Queued
    <3>3. QED
      BY <1>1, <1>5, <2>1, <3>1, <3>2 DEF DeliveryInv, Queued
  <2>4. ASSUME NEW o \in Owner PROVE Given(o)'
    <3>1. Given(o)
      BY <1>1 DEF DeliveryInv
    <3>2. Before(Range(got[o]), OnTheWay')
      BY <2>2, <3>1 DEF Given, Before
    <3>3. \A f \in Range(arrived) : o \in cbs[f.id] => f \in Range(got[o]) \cup OnTheWay'
      BY <1>2, <1>5, <2>2, <3>1 DEF Given
    <3>4. QED
      BY <1>1, <3>1, <3>2, <3>3 DEF Given
  <2>5. QED
    BY <1>0, <1>1, <2>3, <2>4, MovesDelivery
<1>6. QED
  BY <1>3, <1>4, <1>5 DEF RxDispatch

LEMMA CallbackDelivery ==
  ASSUME DeliveryInv, RunCallback
  PROVE  DeliveryInv'
<1> DEFINE h == Head(ready)
<1>0. /\ ready \in Seq(RxFrames) /\ ready # <<>> /\ h \in RxFrames /\ TypeInv'
      /\ got \in [Owner -> Seq(RxFrames)]
  BY TypeStep, HeadTailProperties DEF DeliveryInv, TypeInv, TypeOK, Next, RunCallback
<1>1. /\ ready' = Tail(ready) /\ UNCHANGED <<life, loaded, cbs, rx, rmsg, inbox, arrived>>
      /\ got' = [o \in Owner |-> IF o \in cbs[h.id] THEN Append(got[o], h) ELSE got[o]]
      /\ life \notin {"new", "failed"}
  BY DEF DeliveryInv, Quiet, RunCallback, lifeVars
<1> HIDE DEF h
<1>2. /\ Range(ready) = {h} \cup Range(ready') /\ Ordered(ready')
      /\ Before({h}, Range(ready'))
  BY <1>0, <1>1, HeadApart DEF DeliveryInv, Queued, h
<1>3. OnTheWay = {h} \cup OnTheWay' /\ h \in OnTheWay
  BY <1>1, <1>2 DEF OnTheWay
<1>4. Before({h}, OnTheWay')
  BY <1>1, <1>2 DEF DeliveryInv, Queued, Before, OnTheWay
<1>5. Queued'
  <2>1. Before(Range(ready'), Range(rmsg')) /\ Before(Range(ready'), Range(inbox'))
    BY <1>1, <1>2 DEF DeliveryInv, Queued, Before
  <2>2. OnTheWay' \subseteq Range(arrived')
    BY <1>1, <1>3 DEF DeliveryInv, Queued
  <2>3. QED
    BY <1>1, <1>2, <2>1, <2>2 DEF DeliveryInv, Queued
<1>6. ASSUME NEW o \in Owner PROVE Given(o)'
  <2>1. Given(o) /\ h \in Range(arrived)
    BY <1>1, <1>3 DEF DeliveryInv, Queued
  <2>2. CASE o \in cbs[h.id]
    <3>1. got'[o] = Append(got[o], h) /\ got[o] \in Seq(RxFrames)
      BY <1>0, <1>1, <2>2
    <3>2. Before(Range(got[o]), {h})
      BY <1>3, <2>1 DEF Given, Before
    <3>3. Range(got'[o]) = Range(got[o]) \cup {h} /\ Ordered(got'[o])
      BY <1>0, <2>1, <3>1, <3>2, LastApart DEF Given
    <3>4. Before(Range(got'[o]), OnTheWay')
      BY <1>3, <1>4, <2>1, <3>3 DEF Given, Before
    <3>5. QED
      BY <1>1, <1>3, <2>1, <2>2, <3>3, <3>4 DEF Given
  <2>3. CASE o \notin cbs[h.id]
    <3>1. got'[o] = got[o]
      BY <1>1, <2>3
    <3>2. Before(Range(got[o]), OnTheWay')
      BY <1>3, <2>1 DEF Given, Before
    <3>3. \A f \in Range(arrived) : o \in cbs[f.id] => f \in Range(got[o]) \cup OnTheWay'
      BY <1>3, <2>1, <2>3 DEF Given
    <3>4. QED
      BY <1>1, <2>1, <3>1, <3>2, <3>3 DEF Given
  <2>4. QED
    BY <2>2, <2>3
<1>7. QED
  BY <1>0, <1>1, <1>5, <1>6, MovesDelivery

LEMMA DeliveryStep == DeliveryInv /\ [Next]_vars => DeliveryInv'
<1> SUFFICES ASSUME DeliveryInv, [Next]_vars PROVE DeliveryInv'
  OBVIOUS
<1>1. CASE RegisterRx
  BY <1>1, RegisterDelivery
<1>2. CASE Lifecycle /\ ~RegisterRx
  <2>1. UNCHANGED <<cbs, loaded, rmsg, ready, got, inbox, arrived>>
    BY <1>2 DEF Lifecycle, Start, StartFails, Stop, CancelTx, Shutdown, ForgetBus,
                StopRaises, Abort, CloseLoop, lifeVars, rxVars
  <2>2. /\ life' \notin {"new", "failed"} => life \notin {"new", "failed"} \/ Start
        /\ life' \in {"new", "failed"} =>
             life \in {"new", "failed"} /\ UNCHANGED <<bus, rx>>
    BY <1>2 DEF Lifecycle, StartFails, Stop, CancelTx, Shutdown, ForgetBus,
                StopRaises, Abort, CloseLoop, lifeVars, rxVars, Start
  <2>3. rx' \in {"got", "crashed"} \/ rmsg = <<>>
    BY <1>2 DEF DeliveryInv, Queued, Quiet, Lifecycle, Start, StartFails, Stop, CancelTx,
                Shutdown, ForgetBus, StopRaises, Abort, CloseLoop, lifeVars, rxVars
  <2>4. QED
    BY <2>1, <2>2, <2>3, ElsewhereDelivery
<1>3. CASE Put \/ TxTask \/ RxCheck \/ RxCall \/ RxNothing \/ RxRaises \/ UNCHANGED vars
  <2>1. UNCHANGED <<life, bus, cbs, loaded, rmsg, ready, got, inbox, arrived>>
    BY <1>3 DEF Put, TxTask, SendFirst, SendAgain, RxCheck, RxCall, RxNothing, RxRaises,
                lifeVars, rxVars, vars
  <2>2. rx' \in {"got", "crashed"} \/ rmsg = <<>>
    BY <1>3 DEF DeliveryInv, Queued, Put, TxTask, SendFirst, SendAgain, RxCheck, RxCall,
                RxNothing, RxRaises, rxVars, vars
  <2>3. life \in {"new", "failed"} => UNCHANGED rx
    BY <1>3 DEF DeliveryInv, Quiet, Put, TxTask, SendFirst, SendAgain, RxCheck, RxCall,
                RxNothing, RxRaises, rxVars, vars
  <2>4. QED
    BY <2>1, <2>2, <2>3, ElsewhereDelivery
<1>4. CASE RxReturns \/ RxDispatch \/ RunCallback \/ \E i \in Id : Arrive(i)
  BY <1>4, RxReturnsDelivery, RxDispatchDelivery, CallbackDelivery, ArriveDelivery
<1>5. QED
  BY <1>1, <1>2, <1>3, <1>4 DEF Next, RxThread

LEMMA OwnerLast ==
  ASSUME Registered, life \notin {"new", "failed"}, NEW i \in Id, NEW o \in Owner
  PROVE  o \in cbs[i] <=> i \in OwnedBy(o)
<1>1. DOMAIN Registrations = 1 .. Len(Registrations) /\ loaded = Len(Registrations)
  BY LenProperties, CanBusAssumption DEF Registered
<1>2. cbs[i] = {p \in Owner : \E k \in 1 .. loaded :
                  /\ Registrations[k] = <<i, p>>
                  /\ \A l \in 1 .. loaded : l > k => Registrations[l][1] # i}
  BY DEF Registered, LastOwner
<1>3. QED
  BY <1>1, <1>2 DEF OwnedBy

\* Thread, loop and stop() neither lose, repeat nor reorder a frame on its way
\* to the callback that was registered last for its identifier, for any number
\* of devices, identifiers and frames (bus.py:139-146, 222-241).
THEOREM ReceivedInOrder == Spec => []DeliversInOrder
<1>1. DeliveryInv => DeliversInOrder
  <2> SUFFICES ASSUME DeliveryInv, life # "new", NEW o \in Owner
               PROVE  LET flow == got[o] \o ready \o rmsg \o inbox
                      IN  /\ \A k, l \in DOMAIN flow : k < l => flow[k].n < flow[l].n
                          /\ Range(flow) \subseteq Range(arrived)
                          /\ {f \in Range(arrived) : f.id \in OwnedBy(o)}
                               \subseteq Range(flow)
                          /\ \A f \in Range(got[o]) : f.id \in OwnedBy(o)
    BY DEF DeliversInOrder
  <2> DEFINE g == got[o]  flow == g \o ready \o rmsg \o inbox
  <2>1. /\ g \in Seq(RxFrames) /\ ready \in Seq(RxFrames) /\ rmsg \in Seq(RxFrames)
        /\ inbox \in Seq(RxFrames) /\ arrived \in Seq(RxFrames)
    BY DEF DeliveryInv, TypeInv, TypeOK
  <2>2. Given(o)
    <3>1. CASE life = "failed"
      <4>1. /\ ready = <<>> /\ rmsg = <<>> /\ inbox = <<>> /\ arrived = <<>>
            /\ got[o] = <<>>
        BY <3>1 DEF DeliveryInv, Quiet
      <4>2. QED
        BY <4>1, SmallQueues DEF Given, OnTheWay, Before
    <3>2. QED
      BY <3>1 DEF DeliveryInv
  <2> HIDE DEF g
  <2>3. /\ g \o ready \in Seq(RxFrames)
        /\ Range(g \o ready) = Range(g) \cup Range(ready)
        /\ Ordered(g \o ready) <=>
             Ordered(g) /\ Ordered(ready) /\ Before(Range(g), Range(ready))
    BY <2>1, ConcatSplit
  <2> DEFINE gr == g \o ready
  <2> HIDE DEF gr
  <2>4. /\ gr \o rmsg \in Seq(RxFrames)
        /\ Range(gr \o rmsg) = Range(gr) \cup Range(rmsg)
        /\ Ordered(gr \o rmsg) <=>
             Ordered(gr) /\ Ordered(rmsg) /\ Before(Range(gr), Range(rmsg))
    BY <2>1, <2>3, ConcatSplit DEF gr
  <2> DEFINE grm == gr \o rmsg
  <2> HIDE DEF grm
  <2>5. /\ Range(grm \o inbox) = Range(grm) \cup Range(inbox)
        /\ Ordered(grm \o inbox) <=>
             Ordered(grm) /\ Ordered(inbox) /\ Before(Range(grm), Range(inbox))
    BY <2>1, <2>4, ConcatSplit DEF grm
  <2>6. flow = grm \o inbox
    BY DEF grm, gr
  <2> HIDE DEF flow
  <2>7. Range(flow) = Range(g) \cup OnTheWay
    BY <2>3, <2>4, <2>5, <2>6 DEF gr, grm, OnTheWay
  <2>8. Ordered(flow)
    <3>1. Ordered(g) /\ Before(Range(g), OnTheWay)
      BY <2>2 DEF Given, g
    <3>2. Ordered(gr)
      BY <2>3, <3>1 DEF gr, DeliveryInv, Queued, Before, OnTheWay
    <3>3. Ordered(grm)
      BY <2>3, <2>4, <3>1, <3>2 DEF gr, grm, DeliveryInv, Queued, Before, OnTheWay
    <3>4. QED
      BY <2>3, <2>4, <2>5, <2>6, <3>1, <3>3
      DEF gr, grm, DeliveryInv, Queued, Before, OnTheWay
  <2>9. \A f \in Range(arrived) : f.id \in Id
    <3>1. \A k \in DOMAIN arrived : arrived[k] \in RxFrames
      BY <2>1, ElementOfSeq, LenProperties
    <3>2. \A k \in DOMAIN arrived : arrived[k].id \in Id
      BY <3>1 DEF RxFrames
    <3>3. QED
      BY <3>2 DEF Range
  <2>10. \A f \in Range(arrived) : o \in cbs[f.id] <=> f.id \in OwnedBy(o)
    <3>1. CASE life = "failed"
      <4>1. Range(arrived) = {}
        BY <3>1, SmallQueues DEF DeliveryInv, Quiet
      <4>2. QED
        BY <4>1
    <3>2. CASE life # "failed"
      BY <2>9, <3>2, OwnerLast DEF DeliveryInv
    <3>3. QED
      BY <3>1, <3>2
  <2>11. Range(g) \subseteq Range(arrived) /\ OnTheWay \subseteq Range(arrived)
    BY <2>2 DEF Given, g, DeliveryInv, Queued
  <2>12. {f \in Range(arrived) : f.id \in OwnedBy(o)} \subseteq Range(g) \cup OnTheWay
    BY <2>2, <2>10 DEF Given, g
  <2>13. \A f \in Range(g) : f.id \in OwnedBy(o)
    BY <2>2, <2>10, <2>11 DEF Given, g
  <2>14. \A k, l \in DOMAIN flow : k < l => flow[k].n < flow[l].n
    BY <2>8 DEF Ordered
  <2>15. /\ Range(flow) \subseteq Range(arrived)
         /\ {f \in Range(arrived) : f.id \in OwnedBy(o)} \subseteq Range(flow)
    BY <2>7, <2>11, <2>12
  <2>16. QED
    BY <2>13, <2>14, <2>15 DEF flow, g
<1>2. QED
  BY <1>1, DeliveryInit, DeliveryStep, PTL DEF Spec
=============================================================================
