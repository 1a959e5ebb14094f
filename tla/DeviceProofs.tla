---------------------------- MODULE DeviceProofs ----------------------------
(***************************************************************************)
(* Proofs about Device and about Session, which is Device with testers,    *)
(* for every set of data points, values and frames and for every frame     *)
(* size.  Of Device: type correctness, that no sequence of full frames     *)
(* ends a worker by an exception, and that UDS requests never change a     *)
(* protected data point.  Of Session: what the assemblers at both ends     *)
(* make of the frames under way, and what testers can rely on that may     *)
(* give up at any moment.                                                  *)
(***************************************************************************)
EXTENDS Session, ProtocolProofs

-----------------------------------------------------------------------------
(* Type correctness *)

\* A worker that has sent a first frame holds consecutive frames to send: with
\* TypeOK, what a step of the worker can rely on (device.py:332-347).
PendingOK == \A w \in Worker : pc[w] \in {"first", "fc"} => out[w] # <<>>

TypeInv == TypeOK /\ PendingOK

\* The queue of a worker after it has taken a frame, and the frame.
LEMMA TakeNextType ==
  ASSUME TypeInv, NEW w \in Worker, TakeNext(w)
  PROVE  /\ Taken(w) \in Frame(Byte)
         /\ queue' \in [Worker -> Seq(Frame(Byte))]
         /\ life' = life
<1>1. queue \in [Worker -> Seq(Frame(Byte))]
  BY DEF TypeInv, TypeOK
<1>2. queue[w] # <<>> /\ queue' = [queue EXCEPT ![w] = Tail(queue[w])]
  BY DEF TakeNext
<1>3. Head(queue[w]) \in Frame(Byte) /\ Tail(queue[w]) \in Seq(Frame(Byte))
  BY <1>1, <1>2, HeadTailProperties
<1>4. QED
  BY <1>1, <1>2, <1>3 DEF Taken, TakeNext

\* The same for feeding the frame to the assembler, with the payload that a
\* frame completes and what the handler makes of it.
LEMMA FeedType ==
  ASSUME TypeInv, NEW w \in Worker, Feed(w)
  PROVE  /\ asm[w] \in Assembler(Byte)
         /\ asm' \in [Worker -> Assembler(Byte)]
         /\ Completes(asm[w], Taken(w)) =>
              /\ Got(w) \in Payload
              /\ Reply(w, Got(w)) \in Payload
              /\ Stored(w, Got(w)) \in Store
<1>1. Taken(w) \in Frame(Byte)
  BY TakeNextType DEF Feed
<1>2. asm \in [Worker -> Assembler(Byte)] /\ store \in Store
  BY DEF TypeInv, TypeOK
<1>3. asm' = [asm EXCEPT ![w] = Fed(asm[w], Taken(w))]
  BY DEF Feed
<1>4. Fed(asm[w], Taken(w)) \in Assembler(Byte)
  BY <1>1, <1>2, FedType
<1>5. ASSUME Completes(asm[w], Taken(w))
      PROVE  /\ Got(w) \in Payload
             /\ Reply(w, Got(w)) \in Payload
             /\ Stored(w, Got(w)) \in Store
  <2>1. Got(w) \in Payload
    BY <1>1, <1>2, <1>5, PayloadType DEF Got
  <2>2. QED
    BY <1>2, <2>1, UdsReplyType, UdsStoreType, S77ReplyType, S77StoreType
    DEF Reply, Stored
<1>6. QED
  BY <1>2, <1>3, <1>4, <1>5

LEMMA SendType ==
  ASSUME NEW w \in Worker, NEW f \in Frame(Byte), txq \in Seq(Sent), Send(w, f)
  PROVE  txq' \in Seq(Sent)
<1>1. [w |-> w, f |-> f] \in Sent
  BY DEF Sent
<1>2. QED
  BY <1>1, AppendProperties DEF Send

LEMMA SendAllType ==
  ASSUME NEW w \in Worker, NEW fs \in Seq(Frame(Byte)), txq \in Seq(Sent), SendAll(w, fs)
  PROVE  txq' \in Seq(Sent)
<1> DEFINE ms == [i \in 1 .. Len(fs) |-> [w |-> w, f |-> fs[i]]]
<1>1. \A i \in 1 .. Len(fs) : [w |-> w, f |-> fs[i]] \in Sent
  BY ElementOfSeq DEF Sent
<1>2. ms \in [1 .. Len(fs) -> Sent] /\ Len(fs) \in Int
  BY <1>1, LenProperties
<1>3. ms \in Seq(Sent)
  BY <1>2, FunctionIsSeq
<1>4. txq' = txq \o ms
  BY LenProperties DEF SendAll
<1>5. QED
  BY <1>3, <1>4, ConcatProperties

LEMMA TypeInit == Init => TypeInv
<1> SUFFICES ASSUME Init PROVE TypeInv
  OBVIOUS
<1>1. Reset \in Assembler(Byte)
  BY DEF Reset, Assembler
<1>2. TypeOK
  BY <1>1, DeviceAssumption DEF Init, TypeOK, PC, Life
<1>3. PendingOK
  BY DEF Init, PendingOK
<1>4. QED
  BY <1>2, <1>3 DEF TypeInv

\* A worker that moves to l with the frames o left to send, the other staying.
LEMMA MoveType ==
  ASSUME TypeInv, NEW w \in Worker, NEW l \in PC, NEW o \in Seq(Frame(Byte)),
         l \in {"first", "fc"} => o # <<>>,
         pc' = [pc EXCEPT ![w] = l], out' = [out EXCEPT ![w] = o]
  PROVE  /\ pc' \in [Worker -> PC] /\ out' \in [Worker -> Seq(Frame(Byte))]
         /\ \A v \in Worker : pc'[v] \in {"first", "fc"} => out'[v] # <<>>
BY DEF TypeInv, TypeOK, PendingOK

\* Frames left to send, without the first.
LEMMA RestType ==
  ASSUME NEW fs \in Seq(Frame(Byte)), fs # <<>>
  PROVE  /\ Head(fs) \in Frame(Byte) /\ fs[1] \in Frame(Byte)
         /\ Tail(fs) \in Seq(Frame(Byte))
         /\ Len(fs) # 1 => Tail(fs) # <<>>
<1>1. /\ Head(fs) \in Frame(Byte) /\ Head(fs) = fs[1]
      /\ Tail(fs) \in Seq(Frame(Byte)) /\ Len(Tail(fs)) = Len(fs) - 1
  BY HeadTailProperties
<1>2. Len(fs) \in Nat
  BY LenProperties
<1>3. QED
  BY <1>1, <1>2

\* A step of a worker keeps the types.
LEMMA WorkType ==
  ASSUME TypeInv, NEW w \in Worker, Work(w)
  PROVE  TypeInv'
<1>0. /\ store \in Store
      /\ queue \in [Worker -> Seq(Frame(Byte))]
      /\ asm \in [Worker -> Assembler(Byte)]
      /\ pc \in [Worker -> PC]
      /\ out \in [Worker -> Seq(Frame(Byte))]
      /\ txq \in Seq(Sent)
      /\ life \in Life
      /\ \A v \in Worker : pc[v] \in {"first", "fc"} => out[v] # <<>>
      /\ out[w] \in Seq(Frame(Byte)) /\ <<>> \in Seq(Frame(Byte))
  BY DEF TypeInv, TypeOK, PendingOK
<1>1. CASE FeedOnly(w)
  <2>1. Feed(w) /\ TakeNext(w) /\ UNCHANGED <<store, pc, out>>
    BY <1>1 DEF FeedOnly, Feed
  <2>2. txq' \in Seq(Sent)
    BY <1>0, <1>1, FlowControlType, SendType DEF FeedOnly
  <2>3. QED
    BY <1>0, <2>1, <2>2, TakeNextType, FeedType DEF TypeInv, TypeOK, PendingOK
<1>2. CASE FeedFails(w)
  <2>1. TakeNext(w) /\ UNCHANGED <<store, asm, txq>>
    BY <1>2 DEF FeedFails
  <2>2. pc' = [pc EXCEPT ![w] = "dead"] /\ out' = [out EXCEPT ![w] = <<>>]
    BY <1>2 DEF FeedFails, Die, Goto
  <2>3. "dead" \in PC
    BY DEF PC
  <2>4. QED
    BY <1>0, <2>1, <2>2, <2>3, TakeNextType, MoveType DEF TypeInv, TypeOK, PendingOK
<1>3. CASE Handle(w)
  <2>1. Feed(w) /\ TakeNext(w) /\ Completes(asm[w], Taken(w)) /\ store' = Stored(w, Got(w))
    BY <1>3 DEF Handle, Feed
  <2>2. PICK fs \in Injected(Segment(Reply(w, Got(w)))) : Respond(w, fs)
    BY <1>3 DEF Handle
  <2>3. fs \in Seq(Frame(Byte)) /\ fs # <<>>
    BY <2>1, <2>2, FeedType, SegmentType, InjectedType
  <2>4. txq' \in Seq(Sent)
    BY <1>0, <2>2, <2>3, RestType, SendType DEF Respond
  <2>5. PICK l \in {"single", "get", "first", "fc"} :
          /\ pc' = [pc EXCEPT ![w] = l]
          /\ Len(fs) = 1 => l \in {"single", "get"}
    BY <2>2 DEF Respond, Goto
  <2>6. l \in PC /\ (l \in {"first", "fc"} => Tail(fs) # <<>>)
    BY <2>3, <2>5, RestType DEF PC
  <2>7. out' = [out EXCEPT ![w] = Tail(fs)] /\ Tail(fs) \in Seq(Frame(Byte))
    BY <2>2, <2>3, RestType DEF Respond
  <2>8. /\ pc' \in [Worker -> PC] /\ out' \in [Worker -> Seq(Frame(Byte))]
        /\ \A v \in Worker : pc'[v] \in {"first", "fc"} => out'[v] # <<>>
    BY <2>5, <2>6, <2>7, MoveType
  <2>9. QED
    BY <1>0, <2>1, <2>4, <2>8, TakeNextType, FeedType DEF TypeInv, TypeOK, PendingOK
<1>4. CASE HandleSilently(w)
  <2>1. /\ Feed(w) /\ TakeNext(w) /\ Completes(asm[w], Taken(w))
        /\ store' = Stored(w, Got(w)) /\ UNCHANGED <<pc, out, txq>>
    BY <1>4 DEF HandleSilently, Feed
  <2>2. QED
    BY <1>0, <2>1, TakeNextType, FeedType DEF TypeInv, TypeOK, PendingOK
<1>5. CASE HandleFails(w)
  <2>1. /\ Feed(w) /\ TakeNext(w) /\ Completes(asm[w], Taken(w))
        /\ store' = Stored(w, Got(w)) /\ UNCHANGED txq
    BY <1>5 DEF HandleFails, Feed
  <2>2. pc' = [pc EXCEPT ![w] = "dead"] /\ out' = [out EXCEPT ![w] = <<>>]
    BY <1>5 DEF HandleFails, Die, Goto
  <2>3. "dead" \in PC
    BY DEF PC
  <2>4. QED
    BY <1>0, <2>1, <2>2, <2>3, TakeNextType, FeedType, MoveType
    DEF TypeInv, TypeOK, PendingOK
<1>6. CASE Wake(w)
  <2>1. UNCHANGED <<store, queue, asm, out, txq, life>>
    BY <1>6 DEF Wake
  <2>2. pc' \in [Worker -> PC]
    BY <1>0, <1>6 DEF Wake, Goto, PC
  <2>3. \A v \in Worker : pc'[v] \in {"first", "fc"} => out[v] # <<>>
    BY <1>0, <1>6 DEF Wake, Goto
  <2>4. QED
    BY <1>0, <2>1, <2>2, <2>3 DEF TypeInv, TypeOK, PendingOK
<1>7. CASE TakeFC(w)
  <2>1. TakeNext(w) /\ UNCHANGED <<store, asm>> /\ out[w] # <<>>
    BY <1>0, <1>7 DEF TakeFC
  <2>2. txq' \in Seq(Sent)
    BY <1>0, <1>7, <2>1, RestType, SendType, SendAllType DEF TakeFC
  <2>3. PICK l \in {"cf", "get"}, o \in {Tail(out[w]), <<>>} :
          pc' = [pc EXCEPT ![w] = l] /\ out' = [out EXCEPT ![w] = o]
    BY <1>7 DEF TakeFC, Goto
  <2>4. l \in PC /\ o \in Seq(Frame(Byte))
    BY <1>0, <2>1, <2>3, RestType DEF PC
  <2>5. QED
    BY <1>0, <2>1, <2>2, <2>3, <2>4, TakeNextType, MoveType DEF TypeInv, TypeOK, PendingOK
<1>8. CASE TakeOther(w)
  <2>1. TakeNext(w) /\ UNCHANGED <<store, asm, txq>>
    BY <1>8 DEF TakeOther
  <2>2. pc' = [pc EXCEPT ![w] = "get"] /\ out' = [out EXCEPT ![w] = <<>>]
    BY <1>8 DEF TakeOther, Goto
  <2>3. "get" \in PC
    BY DEF PC
  <2>4. QED
    BY <1>0, <2>1, <2>2, <2>3, TakeNextType, MoveType DEF TypeInv, TypeOK, PendingOK
<1>9. CASE TakeFails(w)
  <2>1. TakeNext(w) /\ UNCHANGED <<store, asm, txq>>
    BY <1>9 DEF TakeFails
  <2>2. pc' = [pc EXCEPT ![w] = "dead"] /\ out' = [out EXCEPT ![w] = <<>>]
    BY <1>9 DEF TakeFails, Die, Goto
  <2>3. "dead" \in PC
    BY DEF PC
  <2>4. QED
    BY <1>0, <2>1, <2>2, <2>3, TakeNextType, MoveType DEF TypeInv, TypeOK, PendingOK
<1>10. CASE NextCF(w)
  <2>1. UNCHANGED <<store, queue, asm, life>> /\ pc[w] = "cf"
    BY <1>10 DEF NextCF
  <2>2. CASE out[w] = <<>>
    <3>1. UNCHANGED <<out, txq>> /\ pc' = [pc EXCEPT ![w] = "get"]
      BY <1>10, <2>2 DEF NextCF, Goto
    <3>2. QED
      BY <1>0, <2>1, <3>1 DEF TypeInv, TypeOK, PendingOK, PC
  <2>3. CASE out[w] # <<>>
    <3>1. /\ Send(w, Head(out[w])) /\ pc' = pc
          /\ out' = [out EXCEPT ![w] = Tail(out[w])]
      BY <1>10, <2>3 DEF NextCF
    <3>2. txq' \in Seq(Sent)
      BY <1>0, <2>3, <3>1, RestType, SendType
    <3>3. out' \in [Worker -> Seq(Frame(Byte))]
      BY <1>0, <2>3, <3>1, RestType
    <3>4. QED
      BY <1>0, <2>1, <3>1, <3>2, <3>3 DEF TypeInv, TypeOK, PendingOK
  <2>4. QED
    BY <2>2, <2>3
<1>11. QED
  BY <1>1, <1>2, <1>3, <1>4, <1>5, <1>6, <1>7, <1>8, <1>9, <1>10 DEF Work

\* Every step keeps the types: those of the workers above, and those of the
\* bus, of start() and of stop().
LEMMA TypeStep == TypeInv /\ [Next]_vars => TypeInv'
<1> SUFFICES ASSUME TypeInv, [Next]_vars PROVE TypeInv'
  OBVIOUS
<1>0. /\ store \in Store
      /\ queue \in [Worker -> Seq(Frame(Byte))]
      /\ asm \in [Worker -> Assembler(Byte)]
      /\ pc \in [Worker -> PC]
      /\ out \in [Worker -> Seq(Frame(Byte))]
      /\ txq \in Seq(Sent)
      /\ life \in Life
      /\ \A v \in Worker : pc[v] \in {"first", "fc"} => out[v] # <<>>
      /\ <<>> \in Seq(Frame(Byte))
  BY DEF TypeInv, TypeOK, PendingOK
<1>1. CASE Start
  BY <1>0, <1>1 DEF Start, TypeInv, TypeOK, PendingOK, PC, Life
<1>2. CASE Stop
  BY <1>0, <1>2 DEF Stop, TypeInv, TypeOK, PendingOK, Life
<1>3. CASE Stopping
  <2>1. ASSUME NEW w \in Worker, NEW stage, NEW next \in {"stopS77", "stopped"},
               Cancel(w, stage, next)
        PROVE  TypeInv'
    <3>1. /\ pc' = [pc EXCEPT ![w] = "cancelled"] /\ out' = [out EXCEPT ![w] = <<>>]
          /\ life' = next /\ UNCHANGED <<store, queue, asm, txq>>
      BY <2>1 DEF Cancel
    <3>2. "cancelled" \in PC
      BY DEF PC
    <3>3. /\ pc' \in [Worker -> PC] /\ out' \in [Worker -> Seq(Frame(Byte))]
          /\ \A v \in Worker : pc'[v] \in {"first", "fc"} => out'[v] # <<>>
      BY <1>0, <3>1, <3>2, MoveType
    <3>4. QED
      BY <1>0, <2>1, <3>1, <3>3 DEF TypeInv, TypeOK, PendingOK, Life
  <2>2. ASSUME NEW w \in Worker, CancelLost(w) \/ CancelRaises(w)
        PROVE  TypeInv'
    BY <1>0, <2>2
    DEF CancelLost, CancelRaises, HangAt, TypeInv, TypeOK, PendingOK, Life
  <2>3. QED
    BY <1>3, <2>1, <2>2 DEF Stopping, Worker
<1>4. CASE Transmit
  BY <1>0, <1>4, HeadTailProperties DEF Transmit, TypeInv, TypeOK, PendingOK
<1>5. ASSUME NEW w \in Worker, Work(w)
      PROVE  TypeInv'
  BY <1>5, WorkType
<1>6. ASSUME NEW w \in Worker, TimeoutFC(w)
      PROVE  TypeInv'
  <2>1. /\ pc' = [pc EXCEPT ![w] = "get"] /\ out' = [out EXCEPT ![w] = <<>>]
        /\ UNCHANGED <<store, queue, asm, txq, life>>
    BY <1>6 DEF TimeoutFC, Goto
  <2>2. "get" \in PC
    BY DEF PC
  <2>3. QED
    BY <1>0, <2>1, <2>2, MoveType DEF TypeInv, TypeOK, PendingOK
<1>7. ASSUME NEW w \in Worker, NEW f \in RxFrame[w], Receive(w, f)
      PROVE  TypeInv'
  <2>1. /\ queue' = [queue EXCEPT ![w] = Append(queue[w], f)]
        /\ UNCHANGED <<store, asm, pc, out, txq, life>>
    BY <1>7 DEF Receive, Deliver
  <2>2. f \in Frame(Byte)
    BY DeviceAssumption
  <2>3. Append(queue[w], f) \in Seq(Frame(Byte))
    BY <1>0, <2>2, AppendProperties
  <2>4. QED
    BY <1>0, <2>1, <2>3 DEF TypeInv, TypeOK, PendingOK
<1>8. CASE UNCHANGED vars
  BY <1>0, <1>8 DEF vars, TypeInv, TypeOK, PendingOK
<1>9. QED
  BY <1>1, <1>2, <1>3, <1>4, <1>5, <1>6, <1>7, <1>8 DEF Next

\* In every state of the device the queues, assemblers and responses hold what
\* the next step relies on, faults injected or not, whatever frames arrive.
THEOREM TypeCorrect == Spec => []TypeOK
<1>1. Spec => []TypeInv
  BY TypeInit, TypeStep, PTL DEF Spec
<1>2. QED
  BY <1>1, PTL DEF TypeInv

-----------------------------------------------------------------------------
(* No sequence of full frames ends a worker *)

\* The bus delivers full frames only, and the values loaded from the file
\* leave room for the header of a read reply.
OnlyFullFrames ==
  /\ \A w \in Worker : RxFrame[w] \subseteq FullFrame
  /\ \A d \in Known : Len(InitStore[d]) <= MaxLen - 2

\* The queue of a worker holds what the bus delivered to it.
FromBus == \A w \in Worker : queue[w] \in Seq(RxFrame[w])

AliveInv == TypeInv /\ LengthsOK /\ NoWorkerDies

BusInv == AliveInv /\ FromBus

LEMMA AliveInit == OnlyFullFrames /\ Init => BusInv
<1> SUFFICES ASSUME OnlyFullFrames, Init PROVE BusInv
  OBVIOUS
<1>1. TypeInv
  BY TypeInit
<1>2. LengthsOK
  BY IsoTpAssumption DEF Init, LengthsOK, OnlyFullFrames, Reset
<1>3. NoWorkerDies
  BY DEF Init, NoWorkerDies
<1>4. FromBus
  BY DEF Init, FromBus
<1>5. QED
  BY <1>1, <1>2, <1>3, <1>4 DEF AliveInv, BusInv

\* A full frame taken from the queue raises nothing, and feeding it keeps the
\* lengths of the assembler and of the payload it completes in bounds.
LEMMA FeedBounds ==
  ASSUME AliveInv, NEW w \in Worker, TakeNext(w), Taken(w) \in FullFrame
  PROVE  /\ Taken(w).t # "empty" /\ ~FeedRaises(Taken(w))
         /\ Fed(asm[w], Taken(w)).want <= MaxLen
         /\ Fed(asm[w], Taken(w)).on =>
              Len(Fed(asm[w], Taken(w)).buf) < Fed(asm[w], Taken(w)).want
         /\ Completes(asm[w], Taken(w)) =>
              /\ Got(w) \in Payload /\ Len(Got(w)) <= MaxLen
              /\ Segmentable(Reply(w, Got(w)))
              /\ \A d \in Known : Len(Stored(w, Got(w))[d]) <= MaxLen - 2
<1>1. TypeInv /\ asm[w] \in Assembler(Byte) /\ store \in Store
  BY DEF AliveInv, TypeInv, TypeOK
<1>2. Taken(w) \in Frame(Byte) /\ Taken(w) \in FullFrame
  BY <1>1, TakeNextType
<1>3. /\ Taken(w).t \notin {"FFcut", "empty"}
      /\ Taken(w).t = "FF" => Taken(w).n <= MaxLen
  BY <1>2 DEF FullFrame
<1>4. /\ asm[w].want <= MaxLen /\ (asm[w].on => Len(asm[w].buf) < asm[w].want)
      /\ \A d \in Known : Len(store[d]) <= MaxLen - 2
  BY DEF AliveInv, LengthsOK
<1>5. /\ Fed(asm[w], Taken(w)).want <= MaxLen
      /\ Fed(asm[w], Taken(w)).on =>
           Len(Fed(asm[w], Taken(w)).buf) < Fed(asm[w], Taken(w)).want
  BY <1>1, <1>2, <1>3, <1>4, FedType
<1>6. ASSUME Completes(asm[w], Taken(w))
      PROVE  /\ Got(w) \in Payload /\ Len(Got(w)) <= MaxLen
             /\ Segmentable(Reply(w, Got(w)))
             /\ \A d \in Known : Len(Stored(w, Got(w))[d]) <= MaxLen - 2
  <2>1. Got(w) \in Payload /\ Len(Got(w)) <= MaxLen
    BY <1>1, <1>2, <1>4, <1>6, PayloadType DEF Got
  <2>2. QED
    BY <1>1, <1>4, <2>1, UdsReplyType, UdsStoreType, S77ReplyType, S77StoreType
    DEF Reply, Stored
<1>7. QED
  BY <1>3, <1>5, <1>6 DEF FeedRaises

\* A step of a worker keeps the lengths in bounds and no worker dies in it.
LEMMA AliveWork ==
  ASSUME AliveInv, NEW w \in Worker, Work(w),
         queue[w] # <<>> => Taken(w) \in FullFrame
  PROVE  LengthsOK' /\ NoWorkerDies'
<1>0. /\ asm \in [Worker -> Assembler(Byte)] /\ pc \in [Worker -> PC]
      /\ \A d \in Known : Len(store[d]) <= MaxLen - 2
      /\ \A v \in Worker : asm[v].want <= MaxLen
      /\ \A v \in Worker : asm[v].on => Len(asm[v].buf) < asm[v].want
      /\ \A v \in Worker : pc[v] # "dead"
  BY DEF AliveInv, TypeInv, TypeOK, LengthsOK, NoWorkerDies
<1>1. ASSUME Feed(w)
      PROVE  /\ TakeNext(w) /\ Taken(w) \in FullFrame
             /\ \A v \in Worker : asm'[v].want <= MaxLen
             /\ \A v \in Worker : asm'[v].on => Len(asm'[v].buf) < asm'[v].want
  <2>1. TakeNext(w) /\ Taken(w) \in FullFrame
    BY <1>1 DEF Feed, TakeNext
  <2>2. QED
    BY <1>0, <1>1, <2>1, FeedBounds DEF Feed
<1>2. CASE FeedOnly(w)
  BY <1>0, <1>1, <1>2 DEF FeedOnly, LengthsOK, NoWorkerDies
<1>3. CASE FeedFails(w)
  BY <1>3, FeedBounds DEF FeedFails, TakeNext
<1>4. CASE Handle(w)
  <2>1. Feed(w) /\ Completes(asm[w], Taken(w)) /\ store' = Stored(w, Got(w))
    BY <1>4 DEF Handle
  <2>2. \A v \in Worker : pc'[v] # "dead"
    BY <1>0, <1>4 DEF Handle, Respond, Goto
  <2>3. QED
    BY <1>1, <2>1, <2>2, FeedBounds DEF LengthsOK, NoWorkerDies
<1>5. CASE HandleSilently(w)
  <2>1. /\ Feed(w) /\ Completes(asm[w], Taken(w)) /\ store' = Stored(w, Got(w))
        /\ pc' = pc
    BY <1>5 DEF HandleSilently
  <2>2. QED
    BY <1>0, <1>1, <2>1, FeedBounds DEF LengthsOK, NoWorkerDies
<1>6. CASE HandleFails(w)
  BY <1>1, <1>6, FeedBounds DEF HandleFails
<1>7. CASE Wake(w)
  BY <1>0, <1>7 DEF Wake, Goto, LengthsOK, NoWorkerDies
<1>8. CASE TakeFC(w)
  BY <1>0, <1>8 DEF TakeFC, Goto, LengthsOK, NoWorkerDies
<1>9. CASE TakeOther(w)
  BY <1>0, <1>9 DEF TakeOther, Goto, LengthsOK, NoWorkerDies
<1>10. CASE TakeFails(w)
  BY <1>10, FeedBounds DEF TakeFails, TakeNext
<1>11. CASE NextCF(w)
  BY <1>0, <1>11 DEF NextCF, Goto, LengthsOK, NoWorkerDies
<1>12. QED
  BY <1>2, <1>3, <1>4, <1>5, <1>6, <1>7, <1>8, <1>9, <1>10, <1>11 DEF Work

\* A worker takes from its queue, and only the bus adds to it.
LEMMA FromBusStep == TypeInv /\ FromBus /\ [Next]_vars => FromBus'
<1> SUFFICES ASSUME TypeInv, FromBus, [Next]_vars PROVE FromBus'
  OBVIOUS
<1>0. /\ queue \in [Worker -> Seq(Frame(Byte))]
      /\ \A v \in Worker : queue[v] \in Seq(RxFrame[v])
  BY DEF TypeInv, TypeOK, FromBus
<1>1. ASSUME NEW w \in Worker, TakeNext(w)
      PROVE  FromBus'
  <2>1. queue[w] # <<>> /\ queue' = [queue EXCEPT ![w] = Tail(queue[w])]
    BY <1>1 DEF TakeNext
  <2>2. Tail(queue[w]) \in Seq(RxFrame[w])
    BY <1>0, <2>1, HeadTailProperties
  <2>3. QED
    BY <1>0, <2>1, <2>2 DEF FromBus
<1>2. ASSUME queue' = queue
      PROVE  FromBus'
  BY <1>0, <1>2 DEF FromBus
<1>3. ASSUME NEW w \in Worker, Work(w)
      PROVE  FromBus'
  BY <1>1, <1>2, <1>3
  DEF Work, FeedOnly, FeedFails, Feed, Handle, HandleSilently, HandleFails, Wake,
      TakeFC, TakeOther, TakeFails, NextCF
<1>4. ASSUME NEW w \in Worker, NEW f \in RxFrame[w], Receive(w, f)
      PROVE  FromBus'
  <2>1. queue' = [queue EXCEPT ![w] = Append(queue[w], f)]
    BY <1>4 DEF Receive, Deliver
  <2>2. Append(queue[w], f) \in Seq(RxFrame[w])
    BY <1>0, AppendProperties
  <2>3. QED
    BY <1>0, <2>1, <2>2 DEF FromBus
<1>5. QED
  BY <1>2, <1>3, <1>4
  DEF Next, Start, Stop, Stopping, Cancel, CancelLost, CancelRaises, Transmit,
      TimeoutFC, vars

LEMMA AliveStep == OnlyFullFrames /\ BusInv /\ [Next]_vars => BusInv'
<1> SUFFICES ASSUME OnlyFullFrames, BusInv, [Next]_vars PROVE BusInv'
  OBVIOUS
<1> USE DEF BusInv
<1>0. TypeInv' /\ FromBus'
  BY TypeStep, FromBusStep DEF AliveInv
<1>1. ASSUME NEW w \in Worker, Work(w)
      PROVE  LengthsOK' /\ NoWorkerDies'
  <2>1. queue[w] # <<>> => Taken(w) \in FullFrame
    BY HeadTailProperties DEF FromBus, OnlyFullFrames, Taken
  <2>2. QED
    BY <1>1, <2>1, AliveWork
<1>2. ASSUME store' = store, asm' = asm,
             \A v \in Worker : pc'[v] # "dead"
      PROVE  LengthsOK' /\ NoWorkerDies'
  BY <1>2 DEF AliveInv, LengthsOK, NoWorkerDies
<1>3. pc \in [Worker -> PC] /\ \A v \in Worker : pc[v] # "dead"
  BY DEF AliveInv, TypeInv, TypeOK, NoWorkerDies
<1>4. ASSUME Start \/ Stop \/ Transmit \/ UNCHANGED vars
      PROVE  LengthsOK' /\ NoWorkerDies'
  BY <1>2, <1>3, <1>4 DEF Start, Stop, Transmit, vars
<1>5. ASSUME Stopping
      PROVE  LengthsOK' /\ NoWorkerDies'
  BY <1>2, <1>3, <1>5 DEF Stopping, Cancel, CancelLost, CancelRaises
<1>6. ASSUME NEW w \in Worker, TimeoutFC(w)
      PROVE  LengthsOK' /\ NoWorkerDies'
  BY <1>2, <1>3, <1>6 DEF TimeoutFC, Goto
<1>7. ASSUME NEW w \in Worker, NEW f \in RxFrame[w], Receive(w, f)
      PROVE  LengthsOK' /\ NoWorkerDies'
  BY <1>2, <1>3, <1>7 DEF Receive
<1>8. QED
  BY <1>0, <1>1, <1>4, <1>5, <1>6, <1>7 DEF Next, AliveInv

\* No exception ever ends a worker task (device.py:275-282), whatever full
\* frames arrive in whatever order, faults and delays or not: no index error
\* on a short frame, and no reply too long for segment() (isotp.py:106).
THEOREM WorkersSurvive ==
  ASSUME OnlyFullFrames
  PROVE  Spec => [](LengthsOK /\ NoWorkerDies)
<1>1. Init => BusInv
  BY AliveInit
<1>2. BusInv /\ [Next]_vars => BusInv'
  BY AliveStep
<1>3. BusInv => LengthsOK /\ NoWorkerDies
  BY DEF BusInv, AliveInv
<1>4. QED
  BY <1>1, <1>2, <1>3, PTL DEF Spec

\* The lengths that the theorem above rests on, as a result of its own: values
\* written by requests leave room for the header of a read reply, and no
\* assembly waits for more than a first frame can announce (isotp.py:199).
THEOREM LengthsHold ==
  ASSUME OnlyFullFrames
  PROVE  Spec => []LengthsOK
<1>1. Spec => [](LengthsOK /\ NoWorkerDies)
  BY WorkersSurvive
<1>2. QED
  BY <1>1, PTL

-----------------------------------------------------------------------------
(* stop() leaves no worker running *)

\* What stop() has achieved at each of its stages (device.py:155-164).  That it
\* never raises needs NoWorkerDies: awaiting a dead task would end it early.
\* A stop() that awaits a worker for ever has got no further than that worker.
StagesOK ==
  /\ life \in {"stopS77", "hangS77"} => pc["UDS"] \in Ended
  /\ life = "stopped" => \A w \in Worker : pc[w] \in Ended
  /\ life # "raised"

StopInv == BusInv /\ StagesOK

\* A task that has ended takes no further step.
LEMMA EndedStays ==
  ASSUME TypeInv, NEW w \in Worker, Work(w) \/ TimeoutFC(w)
  PROVE  /\ pc[w] \notin Ended /\ life' = life
         /\ \A v \in Worker \ {w} : pc'[v] = pc[v]
<1>0. pc \in [Worker -> PC]
  BY DEF TypeInv, TypeOK
<1>1. CASE FeedOnly(w)
  BY <1>0, <1>1 DEF FeedOnly, Feed, TakeNext, Ended
<1>2. CASE FeedFails(w)
  BY <1>0, <1>2 DEF FeedFails, TakeNext, Die, Goto, Ended
<1>3. CASE Handle(w)
  BY <1>0, <1>3 DEF Handle, Feed, TakeNext, Respond, Goto, Ended
<1>4. CASE HandleSilently(w)
  BY <1>0, <1>4 DEF HandleSilently, Feed, TakeNext, Ended
<1>5. CASE HandleFails(w)
  BY <1>0, <1>5 DEF HandleFails, Feed, TakeNext, Die, Goto, Ended
<1>6. CASE Wake(w)
  BY <1>0, <1>6 DEF Wake, Goto, Ended
<1>7. CASE TakeFC(w)
  BY <1>0, <1>7 DEF TakeFC, TakeNext, Goto, Ended
<1>8. CASE TakeOther(w)
  BY <1>0, <1>8 DEF TakeOther, TakeNext, Goto, Ended
<1>9. CASE TakeFails(w)
  BY <1>0, <1>9 DEF TakeFails, TakeNext, Die, Goto, Ended
<1>10. CASE NextCF(w)
  BY <1>0, <1>10 DEF NextCF, Goto, Ended
<1>11. CASE TimeoutFC(w)
  BY <1>0, <1>11 DEF TimeoutFC, Goto, Ended
<1>12. QED
  BY <1>1, <1>2, <1>3, <1>4, <1>5, <1>6, <1>7, <1>8, <1>9, <1>10, <1>11 DEF Work

LEMMA StopStep == OnlyFullFrames /\ StopInv /\ [Next]_vars => StopInv'
<1> SUFFICES ASSUME OnlyFullFrames, StopInv, [Next]_vars PROVE StopInv'
  OBVIOUS
<1>0. /\ pc \in [Worker -> PC] /\ \A w \in Worker : pc[w] # "dead"
      /\ life \in {"stopS77", "hangS77"} => pc["UDS"] \in Ended
      /\ life = "stopped" => \A w \in Worker : pc[w] \in Ended
      /\ life # "raised"
  BY DEF StopInv, BusInv, AliveInv, TypeInv, TypeOK, NoWorkerDies, StagesOK
<1>1. BusInv'
  BY AliveStep DEF StopInv
<1>2. ASSUME NEW w \in Worker, Work(w) \/ TimeoutFC(w)
      PROVE  StagesOK'
  <2>1. /\ pc[w] \notin Ended /\ life' = life
        /\ \A v \in Worker \ {w} : pc'[v] = pc[v]
    BY <1>2, EndedStays DEF StopInv, BusInv, AliveInv
  <2>2. "UDS" \in Worker
    BY DEF Worker
  <2>3. QED
    BY <1>0, <2>1, <2>2 DEF StagesOK
<1>3. ASSUME Start \/ Stop \/ Transmit \/ UNCHANGED vars
      PROVE  StagesOK'
  BY <1>0, <1>3 DEF Start, Stop, Transmit, vars, StagesOK
<1>4. ASSUME Cancel("UDS", "stopUDS", "stopS77")
      PROVE  StagesOK'
  BY <1>0, <1>4 DEF Cancel, StagesOK, Ended, Worker
<1>5. ASSUME Cancel("S77", "stopS77", "stopped")
      PROVE  StagesOK'
  BY <1>0, <1>5 DEF Cancel, StagesOK, Ended, Worker
<1>6. ASSUME NEW w \in Worker, CancelLost(w) \/ CancelRaises(w)
      PROVE  StagesOK'
  BY <1>0, <1>6 DEF CancelLost, CancelRaises, StopAt, HangAt, StagesOK, Worker
<1>7. ASSUME Stopping
      PROVE  StagesOK'
  BY <1>4, <1>5, <1>6, <1>7 DEF Stopping, Worker
<1>8. ASSUME NEW w \in Worker, NEW f \in RxFrame[w], Receive(w, f)
      PROVE  StagesOK'
  BY <1>0, <1>8 DEF Receive, StagesOK
<1>9. StagesOK'
  BY <1>2, <1>3, <1>7, <1>8 DEF Next
<1>10. QED
  BY <1>1, <1>9 DEF StopInv

\* Once stop() has returned no worker is left running, whatever each of them
\* was doing when it was cancelled (device.py:155-164): none has died before,
\* whose exception would have ended stop() after the first task.  (A stop()
\* that awaits a worker for ever, its cancellation swallowed, does not return.)
THEOREM StopCancels ==
  ASSUME OnlyFullFrames
  PROVE  Spec => []StopCancelsAll
<1>1. OnlyFullFrames /\ Init => StopInv
  BY AliveInit DEF Init, StopInv, StagesOK
<1>2. OnlyFullFrames /\ StopInv /\ [Next]_vars => StopInv'
  BY StopStep
<1>3. StopInv => StopCancelsAll
  BY DEF StopInv, StagesOK, StopCancelsAll
<1>4. QED
  BY <1>1, <1>2, <1>3, PTL DEF Spec

-----------------------------------------------------------------------------
(* Protected data points *)

\* Nothing but a Service 77 request taken from its queue ever changes a
\* protected data point (uds.py:146, service77.py:148).
THEOREM ProtectedHolds == Spec => ProtectedFromUds
<1> DEFINE Kept == queue'["S77"] = queue["S77"] =>
                     \A d \in Protected \cap Known : store'[d] = store[d]
<1>1. TypeInv /\ [Next]_vars => [Kept]_vars
  <2> SUFFICES ASSUME TypeInv, [Next]_vars,
                      queue'["S77"] = queue["S77"],
                      NEW d \in Protected \cap Known
               PROVE  store'[d] = store[d]
    OBVIOUS
  <2>1. store \in Store /\ queue \in [Worker -> Seq(Frame(Byte))]
    BY DEF TypeInv, TypeOK
  <2>2. ASSUME NEW w \in Worker, Feed(w), Completes(asm[w], Taken(w)),
               store' = Stored(w, Got(w))
        PROVE  store'[d] = store[d]
    <3>1. w # "S77"
      <4>1. queue[w] # <<>> /\ queue[w] \in Seq(Frame(Byte))
        BY <2>1, <2>2 DEF Feed, TakeNext
      <4>2. queue'[w] = Tail(queue[w])
        BY <2>1, <2>2 DEF Feed, TakeNext
      <4>3. Len(Tail(queue[w])) # Len(queue[w])
        BY <4>1, HeadTailProperties, LenProperties
      <4>4. Tail(queue[w]) # queue[w]
        BY <4>3
      <4>5. QED
        BY <4>2, <4>4
    <3>2. Got(w) \in Payload
      BY <2>2, FeedType
    <3>3. store' = UdsStore(Got(w), store)
      BY <2>2, <3>1 DEF Stored, Worker
    <3>4. QED
      BY <2>1, <3>2, <3>3, UdsKeepsProtected
  <2>3. ASSUME NEW w \in Worker, Work(w)
        PROVE  store'[d] = store[d]
    <3>1. CASE Handle(w) \/ HandleSilently(w) \/ HandleFails(w)
      BY <2>2, <3>1 DEF Handle, HandleSilently, HandleFails
    <3>2. CASE ~(Handle(w) \/ HandleSilently(w) \/ HandleFails(w))
      BY <2>3, <3>2
      DEF Work, FeedOnly, FeedFails, Wake, TakeFC, TakeOther, TakeFails, NextCF
    <3>3. QED
      BY <3>1, <3>2
  <2>4. CASE Start \/ Stop \/ Stopping \/ Transmit \/ UNCHANGED vars
    BY <2>4 DEF Start, Stop, Stopping, Cancel, CancelLost, CancelRaises, Transmit, vars
  <2>5. ASSUME NEW w \in Worker, TimeoutFC(w)
        PROVE  store'[d] = store[d]
    BY <2>5 DEF TimeoutFC
  <2>6. ASSUME NEW w \in Worker, NEW f \in RxFrame[w], Receive(w, f)
        PROVE  store'[d] = store[d]
    BY <2>6 DEF Receive
  <2>7. QED
    BY <2>3, <2>4, <2>5, <2>6 DEF Next
<1>2. Spec => []TypeInv
  BY TypeInit, TypeStep, PTL DEF Spec
<1>3. Spec => [][Kept]_vars
  BY <1>1, <1>2, PTL DEF Spec
<1>4. QED
  BY <1>3 DEF ProtectedFromUds

-----------------------------------------------------------------------------
(* One frame and an assembler that has some frames of a payload *)

\* The assembler has got the first m frames of p, and waits for more.
InStep(a, p, m) ==
  m \in 1 .. Len(Segment(p)) - 1 /\ Holds(Segment(p), m, a, <<>>)

\* It has got m frames that look like those of p, some from later in p.
HasGot(a, p, m) ==
  /\ m \in 1 .. Len(Segment(p)) - 1
  /\ a.on = TRUE /\ a.want = Len(p)
  /\ Len(a.buf) = Offset(m) /\ a.seq = m % SeqWrap

\* It has missed a frame of the first k of p.
Behind(a, p, k) == \E m \in 1 .. k - 1 : HasGot(a, p, m)

Ignores(a, f) == Fed(a, f) = a /\ ~Completes(a, f)

LEMMA IgnoresOther ==
  ASSUME NEW a, NEW f, f.t \notin {"SF", "FF", "CF"}
  PROVE  Ignores(a, f) /\ ~IsFirst(f)
BY DEF Ignores, Fed, Completes, Fills, IsFirst, IsSingle, IsNext, IsMismatch

LEMMA IdleIgnores ==
  ASSUME NEW a, NEW f, f.t = "CF", a.on = FALSE
  PROVE  Ignores(a, f) /\ ~IsFirst(f)
BY DEF Ignores, Fed, Completes, Fills, IsFirst, IsSingle, IsNext, IsMismatch

\* The frames of a payload.
LEMMA SegmentFrames ==
  ASSUME NEW p \in Payload, p # <<>>
  PROVE  /\ Segment(p) \in Seq(Frame(Byte)) /\ Segment(p) # <<>>
         /\ Len(Segment(p)) \in Nat \ {0}
         /\ Len(Segment(p)) = 1 =>
              Segment(p)[1].t = "SF" /\ Segment(p)[1].n \in 1 .. SFCap
         /\ Len(Segment(p)) > 1 =>
              Segment(p)[1].t = "FF" /\ Segment(p)[1].n > SFCap
         /\ Segment(p)[1].n = Len(p)
         /\ \A i \in 1 .. Len(Segment(p)) : Segment(p)[i] \in Frame(Byte)
         /\ \A i \in 2 .. Len(Segment(p)) :
              Segment(p)[i].t = "CF" /\ Segment(p)[i].n = (i - 1) % SeqWrap
<1> DEFINE S == Segment(p)
<1>1. WellFormed(S) /\ S[1].n = Len(p) /\ S \in Seq(Frame(Byte)) /\ S # <<>>
  BY SegmentWellFormed DEF WellFormed
<1>2. Len(S) \in Nat \ {0} /\ (Len(S) = 1 \/ Len(S) > 1)
  BY <1>1, ListParts
<1>3. \A i \in 1 .. Len(S) : S[i] \in Frame(Byte)
  BY <1>1, ElementOfSeq
<1> HIDE DEF S
<1>4. \A i \in 2 .. Len(S) : S[i].t = "CF" /\ S[i].n = (i - 1) % SeqWrap
  BY <1>1, <1>2 DEF WellFormed
<1>5. /\ Len(S) = 1 => S[1].t = "SF" /\ S[1].n \in 1 .. SFCap
      /\ Len(S) > 1 => S[1].t = "FF" /\ S[1].n > SFCap
  BY <1>1 DEF WellFormed
<1>6. QED
  BY <1>1, <1>2, <1>3, <1>4, <1>5 DEF S

\* A first frame takes an assembler in step, whatever it had before.
LEMMA FirstStarts ==
  ASSUME NEW p \in Payload, p # <<>>, Len(Segment(p)) > 1, NEW a
  PROVE  /\ IsFirst(Segment(p)[1]) /\ ~Completes(a, Segment(p)[1])
         /\ InStep(Fed(a, Segment(p)[1]), p, 1)
<1> DEFINE S == Segment(p)  f == S[1]
<1>1. f.t = "FF" /\ f.n > SFCap /\ Len(S) \in Nat \ {0}
  BY SegmentFrames
<1>2. \A b : /\ IsFirst(f) /\ ~Completes(b, f)
             /\ Fed(b, f) = [on |-> TRUE, want |-> f.n, buf |-> Take(f.d, FFCap), seq |-> 1]
  BY <1>1 DEF IsFirst, Completes, Fills, IsSingle, IsNext, IsMismatch, Fed
<1>3. Fed(a, f) = Fed(Reset, f) /\ Delivered(Reset, f, <<>>) = <<>>
  BY <1>2, Zenon DEF Delivered
<1>4. WellFormed(S) /\ 0 \in 0 .. Len(S) - 1 /\ 0 + 1 = 1 /\ 1 \in 1 .. Len(S) - 1
  BY <1>1, SegmentWellFormed
<1>5. Holds(S, 0, Reset, <<>>)
  BY DEF Holds
<1>6. Holds(S, 1, Fed(Reset, f), <<>>)
  BY <1>3, <1>4, <1>5, HoldsStep
<1>7. QED
  BY <1>2, <1>3, <1>4, <1>6 DEF InStep

\* A single frame is a payload of its own, whatever came before.
LEMMA SingleCompletes ==
  ASSUME NEW p \in Payload, p # <<>>, Len(Segment(p)) = 1, NEW a
  PROVE  /\ Completes(a, Segment(p)[1]) /\ PayloadOf(a, Segment(p)[1]) = p
         /\ Fed(a, Segment(p)[1]) = Reset /\ ~IsFirst(Segment(p)[1])
<1> DEFINE S == Segment(p)  f == S[1]
<1>1. f.t = "SF" /\ f.n \in 1 .. SFCap
  BY SegmentFrames
<1>2. /\ Completes(a, f) /\ Fed(a, f) = Reset /\ ~IsFirst(f)
      /\ PayloadOf(a, f) = Take(f.d, f.n)
  BY <1>1 DEF Completes, PayloadOf, Fed, Fills, IsFirst, IsSingle, IsNext, IsMismatch
<1>3. Take(f.d, f.n) = p
  BY SegmentWellFormed, UnframedIs
<1>4. QED
  BY <1>2, <1>3

\* The next frame keeps an assembler in step, and the last one completes p.
LEMMA NextInStep ==
  ASSUME NEW p \in Payload, p # <<>>, NEW a, NEW m, InStep(a, p, m)
  PROVE  /\ m + 1 < Len(Segment(p)) =>
              /\ ~Completes(a, Segment(p)[m + 1])
              /\ InStep(Fed(a, Segment(p)[m + 1]), p, m + 1)
         /\ m + 1 = Len(Segment(p)) =>
              /\ Completes(a, Segment(p)[m + 1])
              /\ PayloadOf(a, Segment(p)[m + 1]) = p
              /\ Fed(a, Segment(p)[m + 1]) = Reset
         /\ m + 1 <= Len(Segment(p)) /\ Segment(p)[m + 1].t = "CF"
<1> DEFINE S == Segment(p)  f == S[m + 1]  n == Len(S)
           b == Fed(a, f)  r == Delivered(a, f, <<>>)
<1>1. n \in Nat \ {0} /\ m \in 1 .. n - 1 /\ Holds(S, m, a, <<>>)
  BY SegmentFrames DEF InStep
<1>2. WellFormed(S) /\ Unframed(S) = p
  BY SegmentWellFormed
<1>3. /\ m \in 0 .. n - 1 /\ m + 1 \in 2 .. n /\ m + 1 <= n
      /\ m + 1 < n => m + 1 \in 1 .. n - 1
  BY <1>1
<1>4. f.t = "CF"
  BY <1>3, SegmentFrames
<1>5. Holds(S, m + 1, b, r)
  BY <1>1, <1>2, <1>3, HoldsStep
<1>6. /\ Completes(a, f) => r = <<PayloadOf(a, f)>>
      /\ ~Completes(a, f) => r = <<>>
  BY DEF Delivered
<1> HIDE DEF b, r
<1>7. ASSUME m + 1 < n
      PROVE  ~Completes(a, f) /\ InStep(b, p, m + 1)
  <2>1. m + 1 \in 1 .. n - 1
    BY <1>3, <1>7
  <2>2. r = <<>>
    BY <1>5, <2>1, HoldsBefore
  <2>3. QED
    BY <1>5, <1>6, <2>1, <2>2 DEF InStep
<1>8. ASSUME m + 1 = n
      PROVE  Completes(a, f) /\ PayloadOf(a, f) = p /\ b = Reset
  <2>1. b = Reset /\ r = <<Unframed(S)>>
    BY <1>2, <1>5, <1>8, HoldsAtEnd
  <2>2. QED
    BY <1>2, <1>6, <2>1
<1>9. QED
  BY <1>3, <1>4, <1>7, <1>8 DEF b

\* An assembler in step has got so many frames, and is switched on.
LEMMA InStepHasGot ==
  ASSUME NEW p \in Payload, p # <<>>, NEW a, NEW m, InStep(a, p, m)
  PROVE  HasGot(a, p, m)
<1> DEFINE S == Segment(p)  n == Len(S)
<1>1. n \in Nat \ {0} /\ m \in 1 .. n - 1 /\ Holds(S, m, a, <<>>)
  BY SegmentFrames DEF InStep
<1>2. /\ WellFormed(S) /\ S[1].n = Len(p) /\ Unframed(S) = p
      /\ n > 1 => Offset(n - 1) < Len(p)
  BY SegmentWellFormed
<1>3. a.on = TRUE
  BY <1>1, HoldsBefore
<1> HIDE DEF n
<1>4. n > 1 /\ m \in Nat \ {0} /\ n - 1 \in Nat \ {0} /\ m <= n - 1 /\ m # 0
      /\ m <= n /\ n \in Nat \ {0}
  BY <1>1
<1> USE DEF n
<1>5. /\ a = [on |-> TRUE, want |-> S[1].n, buf |-> Take(Joined(S), Offset(m)),
              seq |-> m % SeqWrap]
  <2>1. Reset.on = FALSE
    BY DEF Reset
  <2>2. QED
    BY <1>1, <1>3, <1>4, <2>1 DEF Holds
<1>6. Len(Take(Joined(S), Offset(m))) = Offset(m)
  <2>1. S \in Seq(Frame(Byte)) /\ Full(S) /\ Len(S) > 1
    BY <1>2, <1>4 DEF WellFormed
  <2>2. Joined(S) \in Seq(Byte) /\ Len(Joined(S)) = Offset(n)
    BY <2>1, JoinedParts
  <2>3. Offset(m) \in Nat /\ Offset(m) <= Offset(n)
    BY <1>1, <1>4, OffsetIs
  <2>4. QED
    BY <2>2, <2>3, TakeIs
<1>7. QED
  BY <1>1, <1>2, <1>5, <1>6 DEF HasGot

\* A frame from later in p than the assembler waits for never completes it,
\* not even when the sequence number has come round to the same value.
LEMMA BehindStep ==
  ASSUME NEW p \in Payload, p # <<>>, NEW a \in Assembler(Byte), NEW m,
         HasGot(a, p, m), NEW k \in m + 2 .. Len(Segment(p))
  PROVE  /\ ~Completes(a, Segment(p)[k]) /\ ~IsFirst(Segment(p)[k])
         /\ \/ Fed(a, Segment(p)[k]).on = FALSE
            \/ HasGot(Fed(a, Segment(p)[k]), p, m + 1) /\ m + 1 \in 1 .. k - 1
<1> DEFINE S == Segment(p)  f == S[k]  n == Len(S)
<1>1. n \in Nat \ {0} /\ m \in 1 .. n - 1
  BY SegmentFrames DEF HasGot
<1>2. /\ k \in 2 .. n /\ k \in 1 .. n /\ m \in Nat \ {0} /\ m + 1 \in Nat \ {0}
      /\ m + 1 \in 1 .. n - 1 /\ m + 1 \in 1 .. k - 1 /\ n > 1 /\ n - 1 \in Nat \ {0}
      /\ m + 1 <= n - 1
  <2>1. k \in m + 2 .. n
    OBVIOUS
  <2> HIDE DEF n
  <2>2. QED
    BY <1>1, <2>1
<1>3. f.t = "CF" /\ f \in Frame(Byte)
  BY <1>2, SegmentFrames
<1>4. /\ f.d \in Seq(Byte) /\ a.buf \in Seq(Byte) /\ a.want \in Nat
      /\ a.on = TRUE /\ a.want = Len(p) /\ Len(a.buf) = Offset(m) /\ a.seq = m % SeqWrap
  BY <1>3, FrameParts DEF HasGot, Assembler
<1>5. /\ Offset(m) \in Nat /\ Offset(m + 1) = Offset(m) + CFCap
      /\ Offset(m + 1) < Len(p) /\ CFCap \in Nat
  <2>1. Offset(n - 1) < Len(p)
    BY <1>2, SegmentWellFormed
  <2>2. Offset(m + 1) <= Offset(n - 1) /\ Offset(n - 1) \in Nat
    BY <1>2, OffsetIs
  <2>3. Offset(m) \in Nat /\ Offset(m + 1) = Offset(m) + CFCap
    BY <1>2, OffsetIs
  <2>4. Len(p) \in Nat /\ CFCap \in Nat
    BY LenProperties, IsoTpAssumption DEF Payload
  <2>5. QED
    BY <2>1, <2>2, <2>3, <2>4
<1>6. Len(f.d) = CFCap
  <2>1. Full(S)
    BY <1>2, SegmentWellFormed DEF WellFormed
  <2>2. QED
    BY <1>2, <2>1 DEF Full
<1> HIDE DEF f
<1>7. ~IsFirst(f) /\ ~IsSingle(f)
  BY <1>3 DEF IsFirst, IsSingle
<1>8. CASE f.n # a.seq
  BY <1>3, <1>4, <1>7, <1>8 DEF Completes, Fills, Fed, IsNext, IsMismatch, Reset, f
<1>9. CASE f.n = a.seq
  <2>1. IsNext(a, f) /\ ~IsMismatch(a, f)
    BY <1>3, <1>4, <1>9 DEF IsNext, IsMismatch
  <2>2. Smaller(CFCap, a.want - Len(a.buf)) = CFCap
    BY <1>4, <1>5 DEF Smaller
  <2>3. Take(f.d, CFCap) \in Seq(Byte) /\ Len(Take(f.d, CFCap)) = CFCap
    BY <1>4, <1>5, <1>6, TakeIs
  <2>4. Grown(a, f) \in Seq(Byte) /\ Len(Grown(a, f)) = Offset(m + 1)
    <3>1. Grown(a, f) = a.buf \o Take(f.d, CFCap)
      BY <2>2 DEF Grown
    <3> DEFINE u == a.buf  v == Take(f.d, CFCap)
    <3>2. u \in Seq(Byte) /\ v \in Seq(Byte) /\ Len(u) = Offset(m) /\ Len(v) = CFCap
      BY <1>4, <2>3
    <3> HIDE DEF u, v
    <3>3. u \o v \in Seq(Byte) /\ Len(u \o v) = Len(u) + Len(v)
      BY <3>2, ConcatProperties
    <3>4. QED
      BY <1>5, <3>1, <3>2, <3>3 DEF u, v
  <2>5. ~Fills(a, f)
    BY <1>4, <1>5, <2>4 DEF Fills
  <2>6. /\ ~Completes(a, f)
        /\ Fed(a, f) = [a EXCEPT !.buf = Grown(a, f), !.seq = (a.seq + 1) % SeqWrap]
    BY <1>7, <2>1, <2>5 DEF Completes, Fed
  <2>7. ((m % SeqWrap) + 1) % SeqWrap = (m + 1) % SeqWrap
    BY <1>2, SeqNext
  <2>8. HasGot(Fed(a, f), p, m + 1)
    BY <1>2, <1>4, <2>4, <2>6, <2>7 DEF HasGot, Assembler
  <2>9. QED
    BY <1>2, <1>7, <2>6, <2>8 DEF f
<1>10. QED
  BY <1>8, <1>9

-----------------------------------------------------------------------------
(* The frames under way, and how far each of them is in its payload *)

\* A label says which payload the last data frame belongs to and which of its
\* frames it was; NoLabel that there has been none.
NoLabel == [p |-> <<>>, i |-> 0]

Labels(P) == {NoLabel} \cup [p : P, i : Nat \ {0}]

Follows(a, l) == a.on = TRUE => InStep(a, l.p, l.i) \/ Behind(a, l.p, l.i)

\* After a frame of label l comes f of label m: flow control, the first frame
\* of some payload, or a later frame of the same.
Comes(l, f, m) ==
  \/ f.t \notin {"SF", "FF", "CF"} /\ m = l
  \/ m.i = 1 /\ f = Segment(m.p)[1]
  \/ /\ m.p = l.p /\ l.i >= 1 /\ m.i \in l.i + 1 .. Len(Segment(l.p))
     /\ f = Segment(m.p)[m.i]

\* The assembler a, fed q, gets whole payloads of P only, and q ends at l.
Runs(P, a, q, l) ==
  \E L \in [0 .. Len(q) -> Labels(P)] :
    /\ Follows(a, L[0]) /\ L[Len(q)] = l
    /\ \A j \in 1 .. Len(q) : Comes(L[j - 1], q[j], L[j])

Whole(P) == P \subseteq Payload \ {<<>>}

LEMMA LabelParts ==
  ASSUME NEW P, Whole(P), NEW l \in Labels(P)
  PROVE  /\ l.i \in Nat
         /\ l.i # 0 => l.p \in P /\ l.p \in Payload /\ l.p # <<>>
BY DEF Labels, NoLabel, Whole

\* What any frame does to an assembler that follows.
LEMMA FollowsStep ==
  ASSUME NEW P, Whole(P), NEW a \in Assembler(Byte), NEW f,
         NEW l \in Labels(P), NEW m \in Labels(P), Follows(a, l), Comes(l, f, m)
  PROVE  /\ Follows(Fed(a, f), m)
         /\ Completes(a, f) => m.p \in P /\ PayloadOf(a, f) = m.p
<1>0. a.on \in BOOLEAN /\ Reset.on = FALSE
  BY DEF Assembler, Reset
<1>1. CASE f.t \notin {"SF", "FF", "CF"} /\ m = l
  BY <1>1, IgnoresOther DEF Ignores
<1>2. CASE m.i = 1 /\ f = Segment(m.p)[1]
  <2>1. m.p \in P /\ m.p \in Payload /\ m.p # <<>>
    BY <1>2, LabelParts
  <2>2. Len(Segment(m.p)) \in Nat \ {0}
    BY <2>1, SegmentFrames
  <2>3. CASE Len(Segment(m.p)) = 1
    BY <1>0, <1>2, <2>1, <2>3, SingleCompletes DEF Follows
  <2>4. CASE Len(Segment(m.p)) > 1
    BY <1>2, <2>1, <2>4, FirstStarts DEF Follows
  <2>5. \A n \in Nat \ {0} : n = 1 \/ n > 1
    OBVIOUS
  <2>6. QED
    BY <2>2, <2>3, <2>4, <2>5, Zenon
<1>3. CASE /\ m.p = l.p /\ l.i >= 1 /\ m.i \in l.i + 1 .. Len(Segment(l.p))
           /\ f = Segment(m.p)[m.i]
  <2> DEFINE p == l.p  k == m.i  n == Len(Segment(l.p))
  <2>1. /\ l.i \in Nat /\ k \in Nat /\ l.i # 0 /\ k \in l.i + 1 .. n /\ m.p = p
        /\ f = Segment(p)[k]
    BY <1>3, LabelParts
  <2>2. p \in P /\ p \in Payload /\ p # <<>>
    BY <2>1, LabelParts
  <2>3. n \in Nat \ {0}
    BY <2>2, SegmentFrames
  <2>4. CASE a.on = FALSE
    <3>1. k \in 2 .. n
      BY <2>1, <2>3
    <3>2. f.t = "CF"
      BY <2>1, <2>2, <3>1, SegmentFrames
    <3>3. Fed(a, f) = a /\ ~Completes(a, f)
      BY <2>4, <3>2, IdleIgnores DEF Ignores
    <3>4. QED
      BY <2>4, <3>3 DEF Follows
  <2>5. CASE InStep(a, p, l.i) /\ k = l.i + 1
    <3>1. k < n \/ k = n
      BY <2>1, <2>3
    <3>2. QED
      BY <1>0, <2>1, <2>2, <2>5, <3>1, NextInStep DEF Follows
  <2>6. ASSUME NEW j \in Nat \ {0}, HasGot(a, p, j), j + 1 < k
        PROVE  Follows(Fed(a, f), m) /\ ~Completes(a, f)
    <3>1. k \in j + 2 .. n
      BY <2>1, <2>3, <2>6
    <3>2. /\ ~Completes(a, f)
          /\ Fed(a, f).on = FALSE \/ (HasGot(Fed(a, f), p, j + 1) /\ j + 1 \in 1 .. k - 1)
      BY <2>1, <2>2, <2>6, <3>1, BehindStep
    <3>3. QED
      BY <2>1, <3>2 DEF Follows, Behind
  <2>7. CASE a.on = TRUE /\ InStep(a, p, l.i) /\ k # l.i + 1
    <3>1. HasGot(a, p, l.i) /\ l.i + 1 < k /\ l.i \in Nat \ {0}
      BY <2>1, <2>2, <2>7, InStepHasGot
    <3>2. QED
      BY <2>6, <3>1
  <2>8. CASE a.on = TRUE /\ Behind(a, p, l.i)
    <3>1. PICK j \in 1 .. l.i - 1 : HasGot(a, p, j)
      BY <2>8 DEF Behind
    <3>2. j \in Nat \ {0} /\ j + 1 < k
      BY <2>1, <3>1
    <3>3. QED
      BY <2>6, <3>1, <3>2
  <2>9. QED
    BY <1>0, <2>4, <2>5, <2>7, <2>8 DEF Follows
<1>4. QED
  BY <1>1, <1>2, <1>3 DEF Comes

\* The labels that remain when the first frame of a queue is taken.
LEMMA RunsHead ==
  ASSUME NEW P, NEW a, NEW q \in Seq(Frame(Byte)), q # <<>>, NEW l, Runs(P, a, q, l)
  PROVE  \E x, y \in Labels(P) :
           /\ Follows(a, x) /\ Comes(x, Head(q), y)
           /\ \A b : Follows(b, y) => Runs(P, b, Tail(q), l)
<1> DEFINE n == Len(q)
<1>1. PICK L \in [0 .. n -> Labels(P)] :
        /\ Follows(a, L[0]) /\ L[n] = l
        /\ \A j \in 1 .. n : Comes(L[j - 1], q[j], L[j])
  BY DEF Runs
<1>2. n \in Nat \ {0} /\ Head(q) = q[1]
  BY EmptySeq
<1>3. /\ Tail(q) \in Seq(Frame(Byte)) /\ Len(Tail(q)) = n - 1
      /\ \A i \in 1 .. n - 1 : Tail(q)[i] = q[i + 1]
  BY HeadTailProperties
<1> HIDE DEF n
<1> DEFINE K == [j \in 0 .. n - 1 |-> L[j + 1]]
<1>4. K \in [0 .. n - 1 -> Labels(P)] /\ K[0] = L[1] /\ K[n - 1] = l
  BY <1>1, <1>2
<1>5. L[0] \in Labels(P) /\ L[1] \in Labels(P) /\ Comes(L[0], Head(q), L[1])
  <2>1. 0 \in 0 .. n /\ 1 \in 0 .. n /\ 1 \in 1 .. n /\ 1 - 1 = 0
    BY <1>2
  <2>2. QED
    BY <1>1, <1>2, <2>1
<1>6. ASSUME NEW j \in 1 .. n - 1
      PROVE  Comes(K[j - 1], Tail(q)[j], K[j])
  <2>1. j + 1 \in 1 .. n /\ (j + 1) - 1 = j /\ j \in 0 .. n - 1 /\ j - 1 \in 0 .. n - 1
        /\ (j - 1) + 1 = j
    BY <1>2
  <2>2. K[j] = L[j + 1] /\ K[j - 1] = L[j] /\ Tail(q)[j] = q[j + 1]
    BY <1>3, <2>1
  <2>3. QED
    BY <1>1, <2>1, <2>2
<1>7. ASSUME NEW b, Follows(b, L[1])
      PROVE  Runs(P, b, Tail(q), l)
  <2> HIDE DEF K
  <2>1. K \in [0 .. Len(Tail(q)) -> Labels(P)] /\ K[Len(Tail(q))] = l
    BY <1>3, <1>4
  <2>2. QED
    BY <1>3, <1>4, <1>6, <1>7, <2>1 DEF Runs
<1>8. QED
  BY <1>1, <1>5, <1>7

\* Feeding the first frame of a queue.
LEMMA RunsTake ==
  ASSUME NEW P, Whole(P), NEW a \in Assembler(Byte),
         NEW q \in Seq(Frame(Byte)), q # <<>>, NEW l, Runs(P, a, q, l)
  PROVE  /\ Runs(P, Fed(a, Head(q)), Tail(q), l)
         /\ Completes(a, Head(q)) => PayloadOf(a, Head(q)) \in P
<1>1. PICK x, y \in Labels(P) :
        /\ Follows(a, x) /\ Comes(x, Head(q), y)
        /\ \A b : Follows(b, y) => Runs(P, b, Tail(q), l)
  BY RunsHead
<1>2. QED
  BY <1>1, FollowsStep

\* An assembler that waits for nothing may miss frames.
LEMMA RunsSkip ==
  ASSUME NEW P, NEW a, a.on = FALSE,
         NEW q \in Seq(Frame(Byte)), q # <<>>, NEW l, Runs(P, a, q, l)
  PROVE  Runs(P, a, Tail(q), l)
<1>1. \A y : Follows(a, y)
  BY DEF Follows
<1>2. QED
  BY <1>1, RunsHead

\* More frames at the end of a queue.
LEMMA RunsMany ==
  ASSUME NEW P, NEW a, NEW q \in Seq(Frame(Byte)), NEW l, Runs(P, a, q, l),
         NEW fs \in Seq(Frame(Byte)), NEW M \in [0 .. Len(fs) -> Labels(P)],
         M[0] = l, \A j \in 1 .. Len(fs) : Comes(M[j - 1], fs[j], M[j])
  PROVE  Runs(P, a, q \o fs, M[Len(fs)])
<1> DEFINE n == Len(q)  k == Len(fs)  u == q \o fs
<1>1. PICK L \in [0 .. n -> Labels(P)] :
        /\ Follows(a, L[0]) /\ L[n] = l
        /\ \A j \in 1 .. n : Comes(L[j - 1], q[j], L[j])
  BY DEF Runs
<1>2. /\ u \in Seq(Frame(Byte)) /\ Len(u) = n + k
      /\ \A i \in 1 .. n + k : u[i] = IF i <= n THEN q[i] ELSE fs[i - n]
  BY ConcatProperties
<1>3. n \in Nat /\ k \in Nat
  BY LenProperties
<1>4. /\ M \in [0 .. k -> Labels(P)] /\ M[0] = l
      /\ \A j \in 1 .. k : Comes(M[j - 1], fs[j], M[j])
  OBVIOUS
<1> HIDE DEF n, k, u
<1> DEFINE K == [j \in 0 .. n + k |-> IF j <= n THEN L[j] ELSE M[j - n]]
<1>5. K \in [0 .. n + k -> Labels(P)] /\ K[0] = L[0]
  BY <1>1, <1>3, <1>4
<1>6. K[n + k] = M[k]
  BY <1>1, <1>3, <1>4
<1>7. ASSUME NEW j \in 1 .. n + k
      PROVE  Comes(K[j - 1], u[j], K[j])
  <2>1. CASE j <= n
    <3>1. j \in 1 .. n /\ K[j] = L[j] /\ K[j - 1] = L[j - 1] /\ u[j] = q[j]
      BY <1>2, <1>3, <2>1
    <3>2. QED
      BY <1>1, <3>1
  <2>2. CASE j > n
    <3> DEFINE i == j - n
    <3>1. i \in 1 .. k /\ K[j] = M[i] /\ u[j] = fs[i]
      BY <1>2, <1>3, <2>2
    <3>2. K[j - 1] = M[i - 1]
      <4>1. CASE j - 1 = n
        BY <1>1, <1>3, <1>4, <4>1
      <4>2. CASE j - 1 > n
        BY <1>3, <2>2, <4>2
      <4>3. QED
        BY <1>3, <2>2, <4>1, <4>2
    <3>3. QED
      BY <1>4, <3>1, <3>2
  <2>3. QED
    BY <1>3, <2>1, <2>2
<1> HIDE DEF K
<1>8. QED
  BY <1>1, <1>2, <1>5, <1>6, <1>7 DEF Runs, k, u

LEMMA RunsMore ==
  ASSUME NEW P, NEW a, NEW q \in Seq(Frame(Byte)), NEW l, Runs(P, a, q, l),
         NEW f \in Frame(Byte), NEW m \in Labels(P), Comes(l, f, m)
  PROVE  Runs(P, a, Append(q, f), m)
<1> DEFINE M == [j \in 0 .. 1 |-> IF j = 0 THEN l ELSE m]
<1>1. l \in Labels(P)
  <2>1. Len(q) \in 0 .. Len(q)
    BY LenProperties
  <2>2. QED
    BY <2>1 DEF Runs
<1>2. M \in [0 .. 1 -> Labels(P)] /\ M[0] = l /\ M[1] = m
  BY <1>1
<1>3. <<f>> \in Seq(Frame(Byte)) /\ Len(<<f>>) = 1 /\ <<f>>[1] = f
  OBVIOUS
<1>4. \A j \in 1 .. 1 : Comes(M[j - 1], <<f>>[j], M[j])
  BY <1>2, <1>3
<1> HIDE DEF M
<1>5. Runs(P, a, q \o <<f>>, M[1])
  BY <1>2, <1>3, <1>4, RunsMany
<1>6. QED
  BY <1>2, <1>5, AppendIsConcat

\* The end of a queue has a label.
LEMMA RunsLabel ==
  ASSUME NEW P, NEW a, NEW q \in Seq(Frame(Byte)), NEW l, Runs(P, a, q, l)
  PROVE  l \in Labels(P)
<1>1. Len(q) \in 0 .. Len(q)
  BY LenProperties
<1>2. QED
  BY <1>1 DEF Runs

\* Nothing under way.
LEMMA RunsNothing ==
  ASSUME NEW P, NEW a, a.on = FALSE
  PROVE  Runs(P, a, <<>>, NoLabel)
<1> DEFINE L == [j \in 0 .. 0 |-> NoLabel]
<1>1. L \in [0 .. 0 -> Labels(P)] /\ L[0] = NoLabel
  BY DEF Labels
<1>2. Len(<<>>) = 0 /\ Follows(a, L[0])
  BY EmptySeq DEF Follows
<1> HIDE DEF L
<1>3. \A j \in 1 .. 0 : Comes(L[j - 1], <<>>[j], L[j])
  OBVIOUS
<1>4. QED
  BY <1>1, <1>2, <1>3 DEF Runs

\* All that is left of a payload, sent at once.
LEMMA RunsRest ==
  ASSUME NEW P, Whole(P), NEW a, NEW q \in Seq(Frame(Byte)), NEW l,
         Runs(P, a, q, l), l.i >= 1, l.i <= Len(Segment(l.p)),
         NEW fs, fs = SubSeq(Segment(l.p), l.i + 1, Len(Segment(l.p)))
  PROVE  /\ fs \in Seq(Frame(Byte))
         /\ Runs(P, a, q \o fs, [p |-> l.p, i |-> Len(Segment(l.p))])
<1> DEFINE p == l.p  i == l.i  S == Segment(l.p)  n == Len(S)
           M == [j \in 0 .. n - i |-> [p |-> p, i |-> i + j]]
<1>1. l \in Labels(P) /\ i \in Nat /\ i >= 1 /\ p \in P /\ p \in Payload /\ p # <<>>
  BY RunsLabel, LabelParts
<1>2. S \in Seq(Frame(Byte)) /\ n \in Nat \ {0}
  BY <1>1, SegmentFrames
<1>3. l = [p |-> p, i |-> i]
  BY <1>1 DEF Labels, NoLabel
<1>4. i <= n
  OBVIOUS
<1> HIDE DEF p, i, n, S
<1>5. /\ fs \in Seq(Frame(Byte)) /\ Len(fs) = n - i
      /\ \A j \in 1 .. n - i : fs[j] = S[i + j]
  <2>1. fs = SubSeq(S, i + 1, n)
    BY DEF p, i, n, S
  <2>2. i + 1 \in Nat \ {0} /\ n \in Nat /\ i + 1 <= n + 1 /\ n <= Len(S)
        /\ n - (i + 1) + 1 = n - i
    BY <1>1, <1>2, <1>4 DEF n
  <2> DEFINE k == i + 1
  <2> HIDE DEF k
  <2>k. k \in Nat \ {0} /\ k <= n + 1
    BY <2>2 DEF k
  <2>3. /\ SubSeq(S, k, n) \in Seq(Frame(Byte)) /\ Len(SubSeq(S, k, n)) = n - k + 1
        /\ \A j \in 1 .. n - k + 1 : SubSeq(S, k, n)[j] = S[k - 1 + j]
    BY <1>2, <2>2, <2>k, Slice
  <2>4. n - k + 1 = n - i /\ k - 1 = i
    BY <1>1, <1>2 DEF k
  <2>5. fs = SubSeq(S, k, n)
    BY <2>1 DEF k
  <2>6. QED
    BY <2>3, <2>4, <2>5
<1>6. M \in [0 .. n - i -> Labels(P)] /\ M[0] = l /\ M[n - i] = [p |-> p, i |-> n]
  <2>1. \A j \in 0 .. n - i : i + j \in Nat \ {0}
    BY <1>1, <1>2
  <2>2. 0 \in 0 .. n - i /\ n - i \in 0 .. n - i /\ i + 0 = i /\ i + (n - i) = n
    BY <1>1, <1>2, <1>4
  <2>3. QED
    BY <1>1, <1>3, <2>1, <2>2 DEF Labels
<1>7. ASSUME NEW j \in 1 .. n - i
      PROVE  Comes(M[j - 1], fs[j], M[j])
  <2>1. j \in 0 .. n - i /\ j - 1 \in 0 .. n - i /\ i + (j - 1) >= 1
        /\ i + j \in (i + (j - 1)) + 1 .. n
    BY <1>1, <1>2
  <2>2. M[j] = [p |-> p, i |-> i + j] /\ M[j - 1] = [p |-> p, i |-> i + (j - 1)]
    BY <2>1
  <2>3. Segment(p) = S /\ Len(Segment(p)) = n
    BY DEF S, n, p
  <2> HIDE DEF M
  <2>4. fs[j] = Segment(p)[i + j]
    BY <1>5, <2>3
  <2> DEFINE x == M[j - 1]  y == M[j]
  <2>5. x.p = p /\ x.i = i + (j - 1) /\ y.p = p /\ y.i = i + j
    BY <2>2
  <2> HIDE DEF x, y
  <2>6. Len(Segment(x.p)) = n /\ Segment(y.p) = Segment(p)
    BY <2>3, <2>5
  <2>7. /\ y.p = x.p /\ x.i >= 1 /\ y.i \in x.i + 1 .. Len(Segment(x.p))
        /\ fs[j] = Segment(y.p)[y.i]
    BY <2>1, <2>4, <2>5, <2>6
  <2>8. Comes(x, fs[j], y)
    BY <2>7 DEF Comes
  <2>9. QED
    BY <2>8 DEF x, y
<1> HIDE DEF M
<1>8. Runs(P, a, q \o fs, M[Len(fs)])
  BY <1>5, <1>6, <1>7, RunsMany
<1>9. QED
  BY <1>5, <1>6, <1>8 DEF p, n, S

\* Any number of frames that the assembler ignores.
LEMMA RunsOthers ==
  ASSUME NEW P, NEW a, NEW q \in Seq(Frame(Byte)), NEW l, Runs(P, a, q, l),
         NEW fs \in Seq(Frame(Byte)),
         \A j \in 1 .. Len(fs) : fs[j].t \notin {"SF", "FF", "CF"}
  PROVE  Runs(P, a, q \o fs, l)
<1> DEFINE M == [j \in 0 .. Len(fs) |-> l]
<1>1. l \in Labels(P) /\ Len(fs) \in Nat
  BY RunsLabel, LenProperties
<1>2. M \in [0 .. Len(fs) -> Labels(P)] /\ M[0] = l /\ M[Len(fs)] = l
  BY <1>1
<1>3. \A j \in 1 .. Len(fs) : M[j] = l /\ M[j - 1] = l
  BY <1>1
<1>4. \A j \in 1 .. Len(fs) : Comes(M[j - 1], fs[j], M[j])
  BY <1>3 DEF Comes
<1> HIDE DEF M
<1>5. QED
  BY <1>2, <1>4, RunsMany

-----------------------------------------------------------------------------
(* Requests, and the types of the testers *)

Outcomes == {Decoded(p) : p \in Payload}

TesterOK ==
  /\ phase \in [Worker -> {"idle", "offer", "await"}]
  /\ req \in [Worker -> {NoRequest} \cup UdsRequest \cup S77Request]
  /\ todo \in [Worker -> Seq(Frame(Byte))]
  /\ tasm \in [Worker -> Assembler(Byte)]
  /\ calls \in [Worker -> Nat]
  /\ got \in [Worker -> Outcomes]
  /\ drops \in Nat /\ failed \in Nat
  /\ ans \in [Worker -> Outcomes]
  /\ faulted \in [Worker -> BOOLEAN]

STypeInv == TypeInv /\ TesterOK

\* What a tester asks for: a UDS read, a UDS write or a Service 77 write.
LEMMA RequestKinds ==
  ASSUME NEW w \in Worker, NEW r \in Requests[w]
  PROVE  /\ r \in UdsRequest \cup S77Request
         /\ r.did \in Did /\ r.op \in {"read", "write"}
         /\ r.op = "write" => r.val \in Payload
         /\ w = "UDS" \/ (w = "S77" /\ r.op = "write" /\ r.ctr \in Ctr)
BY SessionAssumption DEF Worker, UdsRequest, S77Request

\* A header and what follows it.
LEMMA HeaderThen ==
  ASSUME NEW h \in Seq(Byte), NEW v \in Seq(Byte), h # <<>>
  PROVE  /\ h \o v \in Seq(Byte) /\ h \o v # <<>>
         /\ Len(h \o v) = Len(h) + Len(v)
         /\ \A i \in 1 .. Len(h) : (h \o v)[i] = h[i]
         /\ SubSeq(h \o v, Len(h) + 1, Len(h \o v)) = v
<1> DEFINE x == h \o v  n == Len(h)  k == Len(v)
<1>1. n \in Nat \ {0} /\ k \in Nat
  BY EmptySeq, LenProperties
<1>2. /\ x \in Seq(Byte) /\ Len(x) = n + k
      /\ \A i \in 1 .. n + k : x[i] = IF i <= n THEN h[i] ELSE v[i - n]
  BY ConcatProperties
<1>3. v \in Seq(Byte) /\ Len(v) = k
  OBVIOUS
<1> HIDE DEF x, n, k
<1>4. x # <<>>
  BY <1>1, <1>2, EmptySeq
<1> DEFINE a == n + 1  b == n + k  y == SubSeq(x, a, b)
<1>5. a \in Nat \ {0} /\ b \in Nat /\ a <= b + 1 /\ b <= Len(x) /\ b - a + 1 = k /\ a - 1 = n
  BY <1>1, <1>2
<1>6. b = Len(x)
  BY <1>2
<1> HIDE DEF a, b
<1>7. y \in Seq(Byte) /\ Len(y) = b - a + 1 /\ \A i \in 1 .. b - a + 1 : y[i] = x[a - 1 + i]
  BY <1>2, <1>5, Slice
<1> HIDE DEF y
<1>8. \A i \in 1 .. k : y[i] = v[i]
  BY <1>1, <1>2, <1>5, <1>7
<1>9. y = v
  BY <1>3, <1>5, <1>7, <1>8, SeqEqual
<1>10. \A i \in 1 .. n : x[i] = h[i]
  BY <1>1, <1>2
<1>11. QED
  BY <1>2, <1>4, <1>6, <1>9, <1>10 DEF x, n, k, y, a

\* Its payload, symbol by symbol.
LEMMA EncodedIs ==
  ASSUME NEW w \in Worker, NEW r \in Requests[w]
  PROVE  /\ Encoded(w, r) \in Payload /\ Encoded(w, r) # <<>>
         /\ w = "UDS" /\ r.op = "read" =>
              /\ Len(Encoded(w, r)) = 2
              /\ Encoded(w, r)[1] = "22" /\ Encoded(w, r)[2] = r.did
         /\ w = "UDS" /\ r.op = "write" =>
              /\ Len(Encoded(w, r)) = 2 + Len(r.val)
              /\ Encoded(w, r)[1] = "2E" /\ Encoded(w, r)[2] = r.did
              /\ SubSeq(Encoded(w, r), 3, Len(Encoded(w, r))) = r.val
         /\ w = "S77" =>
              /\ Len(Encoded(w, r)) = 4 + Len(r.val)
              /\ Encoded(w, r)[1] = "77" /\ Encoded(w, r)[2] = r.ctr
              /\ Encoded(w, r)[3] = r.did /\ Encoded(w, r)[4] = LenCode
              /\ SubSeq(Encoded(w, r), 5, Len(Encoded(w, r))) = r.val
<1>1. /\ r.did \in Byte /\ "22" \in Byte /\ "2E" \in Byte /\ "77" \in Byte
      /\ LenCode \in Byte
      /\ r.op \in {"read", "write"} /\ (r.op = "write" => r.val \in Seq(Byte))
      /\ w = "UDS" \/ (w = "S77" /\ r.op = "write" /\ r.ctr \in Byte)
  BY RequestKinds, SessionAssumption DEF Byte, HeaderByte, Payload
<1>3. CASE w = "UDS" /\ r.op = "read"
  <2>1. Encoded(w, r) = <<"22", r.did>>
    BY <1>3 DEF Encoded
  <2> DEFINE h == <<"22", r.did>>
  <2>2. h \in Seq(Byte) /\ h # <<>> /\ Len(h) = 2 /\ h[1] = "22" /\ h[2] = r.did
    BY <1>1
  <2>3. w # "S77" /\ r.op # "write"
    BY <1>3
  <2> HIDE DEF h
  <2>4. Encoded(w, r) = h
    BY <2>1 DEF h
  <2>5. QED
    BY <2>2, <2>3, <2>4 DEF Payload
<1>4. CASE w = "UDS" /\ r.op = "write"
  <2> DEFINE h == <<"2E", r.did>>
  <2>1. Encoded(w, r) = h \o r.val
    BY <1>4 DEF Encoded
  <2>2. h \in Seq(Byte) /\ Len(h) = 2 /\ h[1] = "2E" /\ h[2] = r.did
    BY <1>1
  <2> DEFINE v == r.val  e == h \o v
  <2>3. v \in Seq(Byte) /\ h # <<>>
    BY <1>1, <1>4, <2>2
  <2> HIDE DEF h, v
  <2>4. /\ e \in Seq(Byte) /\ e # <<>> /\ Len(e) = Len(h) + Len(v)
        /\ \A i \in 1 .. Len(h) : e[i] = h[i]
        /\ SubSeq(e, Len(h) + 1, Len(e)) = v
    BY <2>2, <2>3, HeaderThen
  <2> HIDE DEF e
  <2>5. w # "S77" /\ r.op # "read" /\ Encoded(w, r) = e
    BY <1>4, <2>1 DEF e, v
  <2>6. Len(e) = 2 + Len(v) /\ SubSeq(e, 3, Len(e)) = v
    BY <2>2, <2>4
  <2>7. e[1] = h[1] /\ e[2] = h[2]
    BY <2>2, <2>4
  <2>8. QED
    BY <1>4, <2>2, <2>4, <2>5, <2>6, <2>7 DEF Payload, v
<1>5. CASE w = "S77"
  <2> DEFINE h == <<"77", r.ctr, r.did, LenCode>>
  <2>1. Encoded(w, r) = h \o r.val
    BY <1>5 DEF Encoded
  <2>2. /\ h \in Seq(Byte) /\ Len(h) = 4 /\ h[1] = "77" /\ h[2] = r.ctr
        /\ h[3] = r.did /\ h[4] = LenCode
    BY <1>1, <1>5
  <2> DEFINE v == r.val  e == h \o v
  <2>3. v \in Seq(Byte) /\ h # <<>>
    BY <1>1, <1>5, <2>2
  <2> HIDE DEF h, v
  <2>4. /\ e \in Seq(Byte) /\ e # <<>> /\ Len(e) = Len(h) + Len(v)
        /\ \A i \in 1 .. Len(h) : e[i] = h[i]
        /\ SubSeq(e, Len(h) + 1, Len(e)) = v
    BY <2>2, <2>3, HeaderThen
  <2> HIDE DEF e
  <2>5. w # "UDS" /\ Encoded(w, r) = e
    BY <1>5, <2>1 DEF e, v
  <2>6. Len(e) = 4 + Len(v) /\ SubSeq(e, 5, Len(e)) = v
    BY <2>2, <2>4
  <2>7. e[1] = h[1] /\ e[2] = h[2] /\ e[3] = h[3] /\ e[4] = h[4]
    BY <2>2, <2>4
  <2>8. QED
    BY <1>5, <2>2, <2>4, <2>5, <2>6, <2>7 DEF Payload, v
<1>6. QED
  BY <1>1, <1>3, <1>4, <1>5

LEMMA SessionTypeInit == SInit => STypeInv
<1> SUFFICES ASSUME SInit PROVE STypeInv
  OBVIOUS
<1>1. TypeInv
  BY TypeInit DEF SInit
<1>2. Reset \in Assembler(Byte) /\ <<>> \in Seq(Frame(Byte))
  BY DEF Reset, Assembler
<1>3. NoAnswer \in Outcomes
  <2>1. <<>> \in Payload /\ Decoded(<<>>) = NoAnswer
    BY DEF Payload, Decoded
  <2>2. QED
    BY <2>1 DEF Outcomes
<1>4. TesterOK
  BY <1>2, <1>3 DEF SInit, TesterOK
<1>5. QED
  BY <1>1, <1>4 DEF STypeInv

\* The frame that leaves the bus, and what it is to the tester.
LEMMA ArrivesType ==
  ASSUME STypeInv, NEW w \in Worker, Arrives(w)
  PROVE  /\ Arriving \in Frame(Byte) /\ txq' \in Seq(Sent)
         /\ Fed(tasm[w], Arriving) \in Assembler(Byte)
         /\ Completes(tasm[w], Arriving) =>
              PayloadOf(tasm[w], Arriving) \in Payload
<1>1. txq \in Seq(Sent) /\ tasm[w] \in Assembler(Byte)
  BY DEF STypeInv, TypeInv, TypeOK, TesterOK
<1>2. Head(txq) \in Sent /\ Tail(txq) \in Seq(Sent) /\ txq' = Tail(txq)
  BY <1>1, HeadTailProperties DEF Arrives
<1>3. Arriving \in Frame(Byte)
  BY <1>2 DEF Arriving, Sent
<1>4. QED
  BY <1>1, <1>2, <1>3, FedType, PayloadType

\* A step of a tester or of the bus leaves the worker as it is.
LEMMA QuietType ==
  ASSUME TypeInv, DeviceIdle, queue' \in [Worker -> Seq(Frame(Byte))], txq' \in Seq(Sent)
  PROVE  TypeInv'
BY DEF TypeInv, TypeOK, PendingOK, DeviceIdle

LEMMA DeliverType ==
  ASSUME TypeInv, NEW w \in Worker, NEW f \in Frame(Byte), Deliver(w, f)
  PROVE  queue' \in [Worker -> Seq(Frame(Byte))]
<1>1. queue \in [Worker -> Seq(Frame(Byte))]
  BY DEF TypeInv, TypeOK
<1>2. Append(queue[w], f) \in Seq(Frame(Byte))
  BY <1>1, AppendProperties
<1>3. QED
  BY <1>1, <1>2 DEF Deliver

\* Every step of device, bus or tester keeps the types.
LEMMA SessionTypeStep == STypeInv /\ [SNext]_svars => STypeInv'
<1> SUFFICES ASSUME STypeInv, [SNext]_svars PROVE STypeInv'
  OBVIOUS
<1>0. /\ TypeInv
      /\ queue \in [Worker -> Seq(Frame(Byte))] /\ txq \in Seq(Sent)
      /\ <<>> \in Seq(Frame(Byte))
  BY DEF STypeInv, TypeInv, TypeOK
<1>1. CASE Starts
  <2>1. TypeInv'
    BY <1>0, <1>1, TypeStep DEF Starts, Next
  <2>2. QED
    BY <1>1, <2>1 DEF STypeInv, TesterOK, Starts, testers
<1>2. CASE Lose
  <2>1. TypeInv'
    BY <1>0, <1>2, QuietType, HeadTailProperties DEF Lose
  <2>2. QED
    BY <1>2, <2>1 DEF STypeInv, TesterOK, Lose
<1>3. ASSUME NEW w \in Worker, Works(w)
      PROVE  STypeInv'
  <2>1. TypeInv'
    BY <1>0, <1>3, WorkType DEF Works
  <2>2. ASSUME Handling(w)
        PROVE  Decoded(Reply(w, Got(w))) \in Outcomes
    <3>1. asm[w] \in Assembler(Byte) /\ store \in Store /\ Completes(asm[w], Taken(w))
      BY <1>0, <2>2 DEF Handling, TypeInv, TypeOK
    <3>2. Taken(w) \in Frame(Byte)
      BY <1>0, <2>2, HeadTailProperties DEF Handling, Taken
    <3>3. Got(w) \in Payload
      BY <3>1, <3>2, PayloadType DEF Got
    <3>4. Reply(w, Got(w)) \in Payload
      BY <3>1, <3>3, UdsReplyType, S77ReplyType DEF Reply
    <3>5. QED
      BY <3>4 DEF Outcomes
  <2>3. /\ ans' \in [Worker -> Outcomes]
        /\ faulted' \in [Worker -> BOOLEAN]
    <3>1. ans \in [Worker -> Outcomes] /\ faulted \in [Worker -> BOOLEAN]
      BY DEF STypeInv, TesterOK
    <3>2. SentClean(w, Reply(w, Got(w))) \in BOOLEAN
      BY DEF SentClean
    <3>3. CASE Handling(w)
      <4>1. /\ ans' = [ans EXCEPT ![w] = Decoded(Reply(w, Got(w)))]
            /\ faulted' = [faulted EXCEPT ![w] = ~SentClean(w, Reply(w, Got(w)))]
        BY <1>3, <3>3 DEF Works
      <4>2. Decoded(Reply(w, Got(w))) \in Outcomes
        BY <2>2, <3>3
      <4>3. ans' \in [Worker -> Outcomes]
        BY <3>1, <4>1, <4>2
      <4>4. (~SentClean(w, Reply(w, Got(w)))) \in BOOLEAN
        OBVIOUS
      <4>5. QED
        BY <3>1, <4>1, <4>3, <4>4
    <3>4. CASE ~Handling(w)
      BY <1>3, <3>1, <3>4 DEF Works
    <3>5. QED
      BY <3>3, <3>4
  <2>4. QED
    BY <1>3, <2>1, <2>3 DEF STypeInv, TesterOK, Works
<1>4. ASSUME NEW w \in Worker, Expires(w)
      PROVE  STypeInv'
  <2>1. TypeInv'
    BY <1>0, <1>4, TypeStep DEF Expires, Next
  <2>2. QED
    BY <1>4, <2>1 DEF STypeInv, TesterOK, Expires, testers
<1>5. ASSUME NEW w \in Worker, Continue(w)
      PROVE  STypeInv'
  <2>1. todo \in [Worker -> Seq(Frame(Byte))]
    BY DEF STypeInv, TesterOK
  <2>2. queue[w] \o todo[w] \in Seq(Frame(Byte))
    BY <1>0, <2>1, ConcatProperties
  <2>3. queue' \in [Worker -> Seq(Frame(Byte))]
    BY <1>0, <1>5, <2>2 DEF Continue
  <2>4. TypeInv'
    BY <1>0, <1>5, <2>3, ArrivesType, QuietType DEF Continue
  <2>5. QED
    BY <1>0, <1>5, <2>4 DEF STypeInv, TesterOK, Continue
<1>6. ASSUME NEW w \in Worker, Collect(w)
      PROVE  STypeInv'
  <2>1. queue' \in [Worker -> Seq(Frame(Byte))]
    BY <1>0, <1>6, DeliverType, FlowControlType DEF Collect
  <2>2. TypeInv'
    BY <1>0, <1>6, <2>1, ArrivesType, QuietType DEF Collect
  <2>3. tasm' = [tasm EXCEPT ![w] = Fed(tasm[w], Arriving)] /\ Arrives(w)
    BY <1>6 DEF Collect
  <2>4. Fed(tasm[w], Arriving) \in Assembler(Byte)
    BY <2>3, ArrivesType
  <2>5. QED
    BY <1>6, <2>2, <2>3, <2>4 DEF STypeInv, TesterOK, Collect
<1>7. ASSUME NEW w \in Worker, Return(w)
      PROVE  STypeInv'
  <2>1. TypeInv'
    BY <1>0, <1>7, ArrivesType, QuietType DEF Return
  <2>2. /\ tasm' = [tasm EXCEPT ![w] = Fed(tasm[w], Arriving)] /\ Arrives(w)
        /\ got' = [got EXCEPT ![w] = Decoded(PayloadOf(tasm[w], Arriving))]
        /\ phase' = [phase EXCEPT ![w] = "idle"]
        /\ Completes(tasm[w], Arriving)
    BY <1>7 DEF Return
  <2>3. /\ Fed(tasm[w], Arriving) \in Assembler(Byte)
        /\ Decoded(PayloadOf(tasm[w], Arriving)) \in Outcomes
    BY <2>2, ArrivesType DEF Outcomes
  <2>4. QED
    BY <1>7, <2>1, <2>2, <2>3 DEF STypeInv, TesterOK, Return
<1>8. ASSUME NEW w \in Worker, GiveUp(w)
      PROVE  STypeInv'
  <2>1. TypeInv'
    BY <1>0, <1>8, QuietType DEF GiveUp
  <2>2. NoAnswer \in Outcomes
    <3>1. <<>> \in Payload /\ Decoded(<<>>) = NoAnswer
      BY DEF Payload, Decoded
    <3>2. QED
      BY <3>1 DEF Outcomes
  <2>3. QED
    BY <1>0, <1>8, <2>1, <2>2 DEF STypeInv, TesterOK, GiveUp
<1>9. ASSUME NEW w \in Worker, NEW r \in Requests[w], Call(w, r)
      PROVE  STypeInv'
  <2> DEFINE fs == Segment(Encoded(w, r))
  <2>1. fs \in Seq(Frame(Byte)) /\ fs # <<>>
    BY EncodedIs, SegmentType
  <2>2. fs[1] \in Frame(Byte) /\ Tail(fs) \in Seq(Frame(Byte))
    BY <2>1, RestType
  <2>3. /\ Deliver(w, fs[1]) /\ todo' = [todo EXCEPT ![w] = Tail(fs)]
        /\ phase' = [phase EXCEPT ![w] = IF Len(fs) = 1 THEN "await" ELSE "offer"]
        /\ req' = [req EXCEPT ![w] = r]
        /\ calls' = [calls EXCEPT ![w] = calls[w] + 1]
        /\ ans' = [ans EXCEPT ![w] = NoAnswer]
        /\ UNCHANGED <<tasm, got, drops, failed, faulted, txq>> /\ DeviceIdle
    BY <1>9 DEF Call
  <2> HIDE DEF fs
  <2>4. TypeInv'
    BY <1>0, <2>2, <2>3, DeliverType, QuietType
  <2>5. NoAnswer \in Outcomes
    <3>1. <<>> \in Payload /\ Decoded(<<>>) = NoAnswer
      BY DEF Payload, Decoded
    <3>2. QED
      BY <3>1 DEF Outcomes
  <2>6. r \in {NoRequest} \cup UdsRequest \cup S77Request
    BY RequestKinds
  <2>7. QED
    BY <2>2, <2>3, <2>4, <2>5, <2>6 DEF STypeInv, TesterOK
<1>10. CASE UNCHANGED svars
  <2>1. TypeInv'
    BY <1>0, <1>10, TypeStep DEF svars
  <2>2. QED
    BY <1>10, <2>1 DEF STypeInv, TesterOK, svars, testers
<1>11. QED
  BY <1>1, <1>2, <1>3, <1>4, <1>5, <1>6, <1>7, <1>8, <1>9, <1>10 DEF SNext, Tests

LEMMA SessionTypes == SSpec => []STypeInv
BY SessionTypeInit, SessionTypeStep, PTL DEF SSpec

-----------------------------------------------------------------------------
(* What the handlers make of a whole request *)

Accepted(w, r) ==
  /\ r.did \in Known
  /\ w = "UDS" => r.did \notin Protected /\ r.val # <<>>

\* A whole request stores the value that it carries, or nothing.
LEMMA RequestStored ==
  ASSUME NEW w \in Worker, NEW r \in Requests[w], store \in Store
  PROVE  Stored(w, Encoded(w, r)) =
           IF r.op = "write" /\ Accepted(w, r)
           THEN [store EXCEPT ![r.did] = r.val] ELSE store
<1> DEFINE p == Encoded(w, r)
<1>1. /\ r.op \in {"read", "write"} /\ (r.op = "write" => r.val \in Payload)
      /\ w = "UDS" \/ (w = "S77" /\ r.op = "write")
  BY RequestKinds
<1>2. p # <<>>
  BY EncodedIs
<1>3. CASE w = "UDS" /\ r.op = "read"
  <2>1. p[1] = "22"
    BY <1>3, EncodedIs
  <2>2. QED
    BY <1>3, <2>1 DEF Stored, UdsStore
<1>4. CASE w = "UDS" /\ r.op = "write"
  <2>1. /\ Len(p) = 2 + Len(r.val) /\ p[1] = "2E" /\ p[2] = r.did
        /\ SubSeq(p, 3, Len(p)) = r.val
    BY <1>4, EncodedIs
  <2>2. Len(r.val) \in Nat /\ (r.val # <<>> <=> Len(r.val) >= 1)
    <3>1. r.val \in Seq(Byte)
      BY <1>1, <1>4 DEF Payload
    <3> DEFINE v == r.val
    <3> HIDE DEF v
    <3>2. Len(v) \in Nat /\ (v # <<>> => Len(v) \in Nat \ {0}) /\ (v = <<>> => Len(v) = 0)
      BY <3>1, EmptySeq, LenProperties DEF v
    <3>3. QED
      BY <3>2 DEF v
  <2>3. WriteAllowed(p) <=> r.val # <<>> /\ r.did \notin Protected
    <3>1. Len(p) >= 3 <=> r.val # <<>>
      BY <2>1, <2>2
    <3>2. QED
      BY <2>1, <3>1 DEF WriteAllowed
  <2>4. Stored(w, p) = IF WriteAllowed(p) THEN StoreWritten(store, r.did, r.val) ELSE store
    BY <1>2, <1>4, <2>1 DEF Stored, UdsStore, WriteData
  <2>5. QED
    BY <1>4, <2>3, <2>4 DEF StoreWritten, Accepted
<1>5. CASE w = "S77"
  <2>1. /\ Len(p) = 4 + Len(r.val) /\ p[1] = "77" /\ p[3] = r.did /\ p[4] = LenCode
        /\ SubSeq(p, 5, Len(p)) = r.val
    BY <1>5, EncodedIs
  <2>2. Len(p) >= S77Header
    <3>1. r.val \in Seq(Byte)
      BY <1>1, <1>5 DEF Payload
    <3>2. Len(r.val) \in Nat
      BY <3>1, LenProperties
    <3>3. QED
      BY <2>1, <3>2 DEF S77Header
  <2>3. S77Data(p) = r.val
    BY <2>1, SessionAssumption DEF S77Data
  <2>4. Stored(w, p) = StoreWritten(store, r.did, r.val)
    BY <1>2, <1>5, <2>1, <2>2, <2>3 DEF Stored, S77Store
  <2>5. QED
    BY <1>1, <1>5, <2>4 DEF StoreWritten, Accepted
<1>6. QED
  BY <1>1, <1>3, <1>4, <1>5

\* Its reply: the value that it asks for, an acknowledgement or a refusal.
LEMMA RequestAnswered ==
  ASSUME NEW w \in Worker, NEW r \in Requests[w]
  PROVE  \/ /\ r.op = "read" /\ r.did \in Known
            /\ Reply(w, Encoded(w, r)) = <<"62", r.did>> \o store[r.did]
         \/ /\ r.op = "write" /\ Accepted(w, r)
            /\ \/ Reply(w, Encoded(w, r)) = <<"6E", r.did>>
               \/ r.ctr \in Byte /\ Reply(w, Encoded(w, r)) = <<"77", r.ctr, "44">>
         \/ /\ r.op = "write" => ~Accepted(w, r)
            /\ r.op = "read" => r.did \notin Known
            /\ \E sid, nrc \in Byte : Reply(w, Encoded(w, r)) = Negative(sid, nrc)
<1> DEFINE p == Encoded(w, r)
<1>1. /\ r.op \in {"read", "write"} /\ (r.op = "write" => r.val \in Payload)
      /\ w = "UDS" \/ (w = "S77" /\ r.op = "write" /\ r.ctr \in Ctr)
      /\ \A x \in {"22", "2E", "77", "12", "31"} : x \in Byte
  BY RequestKinds DEF Byte, HeaderByte
<1>2. p # <<>> /\ "22" \in Byte /\ "2E" \in Byte /\ "31" \in Byte /\ "12" \in Byte
  BY <1>1, EncodedIs
<1>3. CASE w = "UDS" /\ r.op = "read"
  <2>1. p[1] = "22" /\ p[2] = r.did /\ Len(p) = 2
    BY <1>3, EncodedIs
  <2>2. Reply(w, p) = ReadReply(p, store)
    BY <1>2, <1>3, <2>1 DEF Reply, UdsReply
  <2>3. ReadReply(p, store) = IF r.did \notin Known THEN Negative("22", "31")
                              ELSE <<"62", r.did>> \o store[r.did]
    BY <2>1 DEF ReadReply
  <2>4. QED
    BY <1>1, <1>2, <1>3, <2>2, <2>3
<1>4. CASE w = "UDS" /\ r.op = "write"
  <2>1. /\ Len(p) = 2 + Len(r.val) /\ p[1] = "2E" /\ p[2] = r.did
    BY <1>4, EncodedIs
  <2>2. Reply(w, p) = WriteReply(p)
    BY <1>2, <1>4, <2>1 DEF Reply, UdsReply
  <2>3. Len(p) >= 3 <=> r.val # <<>>
    <3>1. r.val \in Seq(Byte)
      BY <1>1, <1>4 DEF Payload
    <3> DEFINE v == r.val
    <3> HIDE DEF v
    <3>2. Len(v) \in Nat /\ (v # <<>> => Len(v) \in Nat \ {0}) /\ (v = <<>> => Len(v) = 0)
      BY <3>1, EmptySeq, LenProperties DEF v
    <3>3. QED
      BY <2>1, <3>2 DEF v
  <2>4. Len(p) \in Nat
    <3>1. p \in Seq(Byte)
      BY EncodedIs DEF Payload
    <3>2. QED
      BY <3>1, LenProperties
  <2>5. \/ Accepted(w, r) /\ WriteReply(p) = <<"6E", r.did>>
        \/ ~Accepted(w, r) /\ \E nrc \in {"12", "22", "31"} : WriteReply(p) = Negative("2E", nrc)
    BY <1>4, <2>1, <2>3, <2>4 DEF WriteReply, WriteAllowed, Accepted
  <2>6. QED
    BY <1>1, <1>4, <2>2, <2>5
<1>5. CASE w = "S77"
  <2>1. /\ Len(p) = 4 + Len(r.val) /\ p[1] = "77" /\ p[2] = r.ctr /\ p[3] = r.did
    BY <1>5, EncodedIs
  <2>2. ~(Len(p) < S77Header)
    <3>1. r.val \in Seq(Byte)
      BY <1>1, <1>5 DEF Payload
    <3>2. Len(r.val) \in Nat
      BY <3>1, LenProperties
    <3>3. QED
      BY <2>1, <3>2 DEF S77Header
  <2>3. Reply(w, p) = IF r.did \notin Known THEN Negative("77", "31")
                      ELSE <<"77", r.ctr, "44">>
    BY <1>2, <1>5, <2>1, <2>2 DEF Reply, S77Reply
  <2>4. r.ctr \in Byte
    BY <1>1, <1>5 DEF Byte
  <2>5. QED
    BY <1>1, <1>5, <2>3, <2>4 DEF Accepted
<1>6. QED
  BY <1>1, <1>3, <1>4, <1>5

-----------------------------------------------------------------------------
(* Only whole requests are carried out *)

RequestP(w) == {Encoded(w, r) : r \in Requests[w]}

\* What is on its way to worker w, and how the tester goes on with it.
RequestRuns(w, a, q, ph, td) ==
  \E l \in Labels(RequestP(w)) :
    /\ Runs(RequestP(w), a, q, l)
    /\ ph = "offer" => l.i = 1 /\ td = Tail(Segment(l.p))

\* While a worker sends a response its assembler waits for nothing, so that
\* the frames that the wait for flow control takes are missed by nobody.
Sending == {"single", "first", "fc", "cf"}

RequestsOK ==
  \A w \in Worker :
    /\ RequestRuns(w, asm[w], queue[w], phase[w], todo[w])
    /\ pc[w] \in Sending => asm[w].on = FALSE

ValuesInv == STypeInv /\ RequestsOK /\ WholeValues

LEMMA RequestPType ==
  ASSUME NEW w \in Worker
  PROVE  Whole(RequestP(w))
BY EncodedIs DEF Whole, RequestP

\* A worker takes a frame and feeds it.
LEMMA FeedRuns ==
  ASSUME STypeInv, RequestsOK, NEW w \in Worker, queue[w] # <<>>
  PROVE  /\ RequestRuns(w, Fed(asm[w], Taken(w)), Tail(queue[w]), phase[w], todo[w])
         /\ Completes(asm[w], Taken(w)) => \E r \in Requests[w] : Got(w) = Encoded(w, r)
         /\ Completes(asm[w], Taken(w)) => Fed(asm[w], Taken(w)) = Reset
<1>1. queue[w] \in Seq(Frame(Byte)) /\ asm[w] \in Assembler(Byte)
  BY DEF STypeInv, TypeInv, TypeOK
<1>2. PICK l \in Labels(RequestP(w)) :
        /\ Runs(RequestP(w), asm[w], queue[w], l)
        /\ phase[w] = "offer" => l.i = 1 /\ todo[w] = Tail(Segment(l.p))
  BY DEF RequestsOK, RequestRuns
<1>3. /\ Runs(RequestP(w), Fed(asm[w], Taken(w)), Tail(queue[w]), l)
      /\ Completes(asm[w], Taken(w)) => Got(w) \in RequestP(w)
  BY <1>1, <1>2, RequestPType, RunsTake DEF Taken, Got
<1>4. Completes(asm[w], Taken(w)) => Fed(asm[w], Taken(w)) = Reset
  BY DEF Completes, Fed, Fills, IsFirst, IsSingle, IsNext, IsMismatch
<1>5. QED
  BY <1>2, <1>3, <1>4 DEF RequestRuns, RequestP

\* A worker that sends takes a frame and drops it, or acts on it.
LEMMA SkipRuns ==
  ASSUME STypeInv, RequestsOK, NEW w \in Worker, queue[w] # <<>>, asm[w].on = FALSE
  PROVE  RequestRuns(w, asm[w], Tail(queue[w]), phase[w], todo[w])
<1>1. queue[w] \in Seq(Frame(Byte))
  BY DEF STypeInv, TypeInv, TypeOK
<1>2. PICK l \in Labels(RequestP(w)) :
        /\ Runs(RequestP(w), asm[w], queue[w], l)
        /\ phase[w] = "offer" => l.i = 1 /\ todo[w] = Tail(Segment(l.p))
  BY DEF RequestsOK, RequestRuns
<1>3. Runs(RequestP(w), asm[w], Tail(queue[w]), l)
  BY <1>1, <1>2, RunsSkip
<1>4. QED
  BY <1>2, <1>3 DEF RequestRuns

\* A step of worker w leaves the other worker alone.
LEMMA WorkLocal ==
  ASSUME STypeInv, NEW w \in Worker, Work(w) \/ TimeoutFC(w), NEW v \in Worker, v # w
  PROVE  queue'[v] = queue[v] /\ asm'[v] = asm[v] /\ pc'[v] = pc[v] /\ out'[v] = out[v]
<1>0. /\ queue \in [Worker -> Seq(Frame(Byte))] /\ asm \in [Worker -> Assembler(Byte)]
      /\ pc \in [Worker -> PC] /\ out \in [Worker -> Seq(Frame(Byte))]
  BY DEF STypeInv, TypeInv, TypeOK
<1>1. CASE FeedOnly(w) \/ FeedFails(w) \/ HandleSilently(w) \/ HandleFails(w)
  BY <1>0, <1>1
  DEF FeedOnly, FeedFails, HandleSilently, HandleFails, Feed, TakeNext, Die, Goto
<1>2. CASE Handle(w)
  BY <1>0, <1>2 DEF Handle, Feed, TakeNext, Respond, Goto
<1>3. CASE Wake(w) \/ NextCF(w) \/ TimeoutFC(w)
  BY <1>0, <1>3 DEF Wake, NextCF, TimeoutFC, Goto
<1>4. CASE TakeFC(w) \/ TakeOther(w) \/ TakeFails(w)
  BY <1>0, <1>4 DEF TakeFC, TakeOther, TakeFails, TakeNext, Die, Goto
<1>5. QED
  BY <1>1, <1>2, <1>3, <1>4 DEF Work

\* What a step of worker w does to its queue, its assembler and the store.
LEMMA WorkRequests ==
  ASSUME ValuesInv, NEW w \in Worker, Work(w) \/ TimeoutFC(w)
  PROVE  /\ RequestRuns(w, asm'[w], queue'[w], phase[w], todo[w])
         /\ pc'[w] \in Sending => asm'[w].on = FALSE
         /\ \/ store' = store
            \/ Handling(w) /\ \E r \in Requests[w] :
                                Got(w) = Encoded(w, r) /\ store' = Stored(w, Encoded(w, r))
<1>0. /\ queue \in [Worker -> Seq(Frame(Byte))] /\ asm \in [Worker -> Assembler(Byte)]
      /\ pc \in [Worker -> PC]
      /\ RequestRuns(w, asm[w], queue[w], phase[w], todo[w])
      /\ pc[w] \in Sending => asm[w].on = FALSE
      /\ STypeInv /\ RequestsOK /\ Reset.on = FALSE
  BY DEF ValuesInv, STypeInv, TypeInv, TypeOK, RequestsOK, Reset
<1>1. ASSUME TakeNext(w)
      PROVE  /\ queue[w] # <<>> /\ queue'[w] = Tail(queue[w])
             /\ RequestRuns(w, Fed(asm[w], Taken(w)), Tail(queue[w]), phase[w], todo[w])
             /\ Completes(asm[w], Taken(w)) => \E r \in Requests[w] : Got(w) = Encoded(w, r)
             /\ Completes(asm[w], Taken(w)) => Fed(asm[w], Taken(w)) = Reset
  <2>1. queue[w] # <<>> /\ queue'[w] = Tail(queue[w])
    BY <1>0, <1>1 DEF TakeNext
  <2>2. QED
    BY <1>0, <2>1, FeedRuns
<1>2. ASSUME Feed(w)
      PROVE  TakeNext(w) /\ asm'[w] = Fed(asm[w], Taken(w)) /\ pc[w] = "get"
  BY <1>0, <1>2 DEF Feed
<1>3. CASE FeedOnly(w)
  <2>1. Feed(w) /\ pc' = pc /\ store' = store
    BY <1>3 DEF FeedOnly
  <2>2. QED
    BY <1>1, <1>2, <2>1 DEF Sending
<1>4. CASE FeedFails(w)
  <2>1. /\ TakeNext(w) /\ Taken(w).t = "FFcut" /\ store' = store /\ asm' = asm
        /\ pc'[w] = "dead"
    BY <1>0, <1>4 DEF FeedFails, FeedRaises, Die, Goto
  <2>2. Fed(asm[w], Taken(w)) = asm[w]
    BY <2>1, IgnoresOther DEF Ignores
  <2>3. QED
    BY <1>1, <2>1, <2>2 DEF Sending
<1>5. CASE Handle(w) \/ HandleSilently(w) \/ HandleFails(w)
  <2>1. Feed(w) /\ Completes(asm[w], Taken(w)) /\ store' = Stored(w, Got(w))
    BY <1>5 DEF Handle, HandleSilently, HandleFails
  <2>2. /\ TakeNext(w) /\ pc[w] = "get" /\ queue'[w] = Tail(queue[w]) /\ queue[w] # <<>>
        /\ asm'[w] = Reset
        /\ RequestRuns(w, asm'[w], Tail(queue[w]), phase[w], todo[w])
        /\ \E r \in Requests[w] : Got(w) = Encoded(w, r)
    BY <1>1, <1>2, <2>1
  <2>3. Handling(w)
    BY <2>1, <2>2 DEF Handling
  <2>4. QED
    BY <1>0, <2>1, <2>2, <2>3
<1>6. CASE Wake(w) \/ NextCF(w) \/ TimeoutFC(w)
  <2>1. queue' = queue /\ asm' = asm /\ store' = store /\ pc[w] \in Sending
    BY <1>6 DEF Wake, NextCF, TimeoutFC, Sending
  <2>2. QED
    BY <1>0, <2>1
<1>7. CASE TakeFC(w) \/ TakeOther(w) \/ TakeFails(w)
  <2>1. TakeNext(w) /\ asm' = asm /\ store' = store /\ pc[w] \in Sending
    BY <1>7 DEF TakeFC, TakeOther, TakeFails, Sending
  <2>2. RequestRuns(w, asm[w], Tail(queue[w]), phase[w], todo[w])
    BY <1>0, <1>1, <2>1, SkipRuns
  <2>3. QED
    BY <1>0, <1>1, <2>1, <2>2
<1>8. QED
  BY <1>3, <1>4, <1>5, <1>6, <1>7 DEF Work

\* The store holds written values when a whole request has been carried out.
LEMMA StoredWritten ==
  ASSUME store \in Store, WholeValues, NEW w \in Worker, NEW r \in Requests[w],
         store' = Stored(w, Encoded(w, r))
  PROVE  WholeValues'
<1>1. store' = IF r.op = "write" /\ Accepted(w, r)
               THEN [store EXCEPT ![r.did] = r.val] ELSE store
  BY RequestStored
<1>2. CASE r.op = "write" /\ Accepted(w, r)
  <2>1. r \in Requests["UDS"] \cup Requests["S77"]
    BY DEF Worker
  <2>2. r.val \in Written(r.did)
    BY <1>2, <2>1 DEF Written
  <2>3. ASSUME NEW d \in Known
        PROVE  store'[d] \in Written(d)
    <3>1. store'[d] = IF d = r.did THEN r.val ELSE store[d]
      BY <1>1, <1>2 DEF Store
    <3>2. QED
      BY <2>2, <3>1 DEF WholeValues
  <2>4. QED
    BY <2>3 DEF WholeValues, Written
<1>3. CASE ~(r.op = "write" /\ Accepted(w, r))
  BY <1>1, <1>3 DEF WholeValues, Written
<1>4. QED
  BY <1>2, <1>3

\* What the testers' steps add to the queue of worker w.
LEMMA TesterRequests ==
  ASSUME STypeInv, RequestsOK, NEW w \in Worker,
         \/ Continue(w) \/ Collect(w) \/ Return(w) \/ GiveUp(w)
         \/ \E r \in Requests[w] : Call(w, r)
  PROVE  /\ RequestRuns(w, asm[w], queue'[w], phase'[w], todo'[w])
         /\ \A v \in Worker : v # w =>
              queue'[v] = queue[v] /\ phase'[v] = phase[v] /\ todo'[v] = todo[v]
         /\ asm' = asm /\ pc' = pc /\ store' = store
<1> DEFINE P == RequestP(w)  a == asm[w]  q == queue[w]
<1>0. /\ queue \in [Worker -> Seq(Frame(Byte))] /\ phase \in [Worker -> {"idle", "offer", "await"}]
      /\ todo \in [Worker -> Seq(Frame(Byte))] /\ q \in Seq(Frame(Byte))
  BY DEF STypeInv, TypeInv, TypeOK, TesterOK
<1>1. PICK l \in Labels(P) :
        Runs(P, a, q, l) /\ (phase[w] = "offer" => l.i = 1 /\ todo[w] = Tail(Segment(l.p)))
  BY DEF RequestsOK, RequestRuns
<1>2. Whole(P)
  BY RequestPType
<1>3. CASE Continue(w)
  <2>1. /\ phase[w] = "offer" /\ queue' = [queue EXCEPT ![w] = q \o todo[w]]
        /\ phase' = [phase EXCEPT ![w] = "await"] /\ todo' = [todo EXCEPT ![w] = <<>>]
        /\ DeviceIdle
    BY <1>3 DEF Continue
  <2>2. l.i = 1 /\ todo[w] = Tail(Segment(l.p)) /\ l.p \in Payload /\ l.p # <<>>
    BY <1>1, <1>2, <2>1, LabelParts
  <2>3. /\ Segment(l.p) \in Seq(Frame(Byte)) /\ Segment(l.p) # <<>>
        /\ Len(Segment(l.p)) \in Nat \ {0}
    BY <2>2, SegmentFrames
  <2>4. l.i >= 1 /\ l.i <= Len(Segment(l.p)) /\ l.i + 1 = 2
    BY <2>2, <2>3
  <2>5. todo[w] = SubSeq(Segment(l.p), l.i + 1, Len(Segment(l.p)))
    BY <2>2, <2>3, <2>4, TailIsSubSeq
  <2> DEFINE m == [p |-> l.p, i |-> Len(Segment(l.p))]
  <2>6. Runs(P, a, q \o todo[w], m)
    BY <1>0, <1>1, <1>2, <2>4, <2>5, RunsRest
  <2>7. q \o todo[w] \in Seq(Frame(Byte))
    BY <1>0, ConcatProperties
  <2>8. m \in Labels(P)
    BY <2>6, <2>7, RunsLabel
  <2> HIDE DEF m, P, a, q
  <2>9. /\ queue'[w] = q \o todo[w] /\ phase'[w] = "await"
        /\ \A v \in Worker : v # w =>
             queue'[v] = queue[v] /\ phase'[v] = phase[v] /\ todo'[v] = todo[v]
    BY <1>0, <2>1
  <2>10. RequestRuns(w, asm[w], queue'[w], phase'[w], todo'[w])
    BY <2>6, <2>8, <2>9 DEF RequestRuns, P, a
  <2>11. QED
    BY <2>1, <2>9, <2>10 DEF DeviceIdle
<1>4. CASE Collect(w)
  <2>1. /\ IF IsFirst(Arriving) THEN Deliver(w, FlowControl) ELSE UNCHANGED queue
        /\ UNCHANGED <<phase, todo>> /\ DeviceIdle
    BY <1>4 DEF Collect
  <2>2. Comes(l, FlowControl, l) /\ FlowControl \in Frame(Byte)
    BY FlowControlType DEF Comes, FlowControl
  <2>3. Runs(P, a, Append(q, FlowControl), l)
    BY <1>0, <1>1, <2>2, RunsMore
  <2>4. queue'[w] = Append(q, FlowControl) \/ queue'[w] = q
    BY <1>0, <2>1 DEF Deliver
  <2>5. \A v \in Worker : v # w => queue'[v] = queue[v]
    BY <1>0, <2>1 DEF Deliver
  <2>6. RequestRuns(w, asm[w], queue'[w], phase[w], todo[w])
    BY <1>1, <2>3, <2>4 DEF RequestRuns
  <2>7. QED
    BY <2>1, <2>5, <2>6 DEF DeviceIdle
<1>5. CASE Return(w) \/ GiveUp(w)
  <2>1. /\ phase' = [phase EXCEPT ![w] = "idle"] /\ queue' = queue
        /\ todo' = todo \/ todo' = [todo EXCEPT ![w] = <<>>]
        /\ DeviceIdle
    BY <1>5 DEF Return, GiveUp
  <2>2. /\ phase'[w] = "idle"
        /\ \A v \in Worker : v # w => phase'[v] = phase[v] /\ todo'[v] = todo[v]
    BY <1>0, <2>1
  <2>3. QED
    BY <1>1, <2>1, <2>2 DEF RequestRuns, DeviceIdle
<1>6. CASE \E r \in Requests[w] : Call(w, r)
  <2>1. PICK r \in Requests[w] : Call(w, r)
    BY <1>6
  <2> DEFINE p == Encoded(w, r)  S == Segment(p)  m == [p |-> p, i |-> 1]
  <2>2. p \in P /\ p \in Payload /\ p # <<>>
    BY EncodedIs DEF RequestP
  <2>3. S \in Seq(Frame(Byte)) /\ S # <<>> /\ S[1] \in Frame(Byte)
    BY <2>2, SegmentType, RestType
  <2>4. m \in Labels(P) /\ m.i = 1 /\ m.p = p
    BY <2>2 DEF Labels
  <2>5. /\ Deliver(w, S[1]) /\ todo' = [todo EXCEPT ![w] = Tail(S)]
        /\ phase' = [phase EXCEPT ![w] = IF Len(S) = 1 THEN "await" ELSE "offer"]
        /\ DeviceIdle
    BY <2>1 DEF Call
  <2> HIDE DEF m, P, a, q
  <2>6. Comes(l, S[1], m)
    BY <2>4 DEF Comes
  <2>7. Runs(P, a, Append(q, S[1]), m)
    BY <1>0, <1>1, <2>3, <2>4, <2>6, RunsMore
  <2>8. queue'[w] = Append(q, S[1]) /\ todo'[w] = Tail(S)
    BY <1>0, <2>5 DEF Deliver, q
  <2>9. \A v \in Worker : v # w =>
          queue'[v] = queue[v] /\ phase'[v] = phase[v] /\ todo'[v] = todo[v]
    BY <1>0, <2>5 DEF Deliver
  <2>10. RequestRuns(w, asm[w], queue'[w], phase'[w], todo'[w])
    BY <2>4, <2>7, <2>8 DEF RequestRuns, P, a
  <2>11. QED
    BY <2>5, <2>9, <2>10 DEF DeviceIdle
<1>7. QED
  BY <1>3, <1>4, <1>5, <1>6

LEMMA ValuesInit == SInit => ValuesInv
<1> SUFFICES ASSUME SInit PROVE ValuesInv
  OBVIOUS
<1>1. STypeInv
  BY SessionTypeInit
<1>2. RequestsOK
  <2> SUFFICES ASSUME NEW w \in Worker
               PROVE  /\ RequestRuns(w, asm[w], queue[w], phase[w], todo[w])
                      /\ pc[w] \in Sending => asm[w].on = FALSE
    BY DEF RequestsOK
  <2>1. /\ asm[w] = Reset /\ queue[w] = <<>> /\ phase[w] = "idle" /\ Reset.on = FALSE
    BY DEF SInit, Init, Reset
  <2>2. Runs(RequestP(w), Reset, <<>>, NoLabel) /\ NoLabel \in Labels(RequestP(w))
    BY <2>1, RunsNothing DEF Labels
  <2>3. QED
    BY <2>1, <2>2 DEF RequestRuns
<1>3. WholeValues
  BY DEF SInit, Init, WholeValues, Written
<1>4. QED
  BY <1>1, <1>2, <1>3 DEF ValuesInv

LEMMA ValuesStep == ValuesInv /\ [SNext]_svars => ValuesInv'
<1> SUFFICES ASSUME ValuesInv, [SNext]_svars PROVE ValuesInv'
  OBVIOUS
<1>0. STypeInv /\ RequestsOK /\ WholeValues /\ STypeInv' /\ store \in Store
  BY SessionTypeStep DEF ValuesInv, STypeInv, TypeInv, TypeOK
<1>1. ASSUME NEW w \in Worker, Works(w) \/ Expires(w)
      PROVE  RequestsOK' /\ WholeValues'
  <2>1. (Work(w) \/ TimeoutFC(w)) /\ phase' = phase /\ todo' = todo
    BY <1>1 DEF Works, Expires, testers
  <2>2. /\ RequestRuns(w, asm'[w], queue'[w], phase[w], todo[w])
        /\ pc'[w] \in Sending => asm'[w].on = FALSE
        /\ \/ store' = store
           \/ \E r \in Requests[w] : store' = Stored(w, Encoded(w, r))
    BY <2>1, WorkRequests
  <2>3. ASSUME NEW v \in Worker, v # w
        PROVE  queue'[v] = queue[v] /\ asm'[v] = asm[v] /\ pc'[v] = pc[v]
    BY <1>0, <2>1, <2>3, WorkLocal
  <2>4. RequestsOK'
    BY <1>0, <2>1, <2>2, <2>3 DEF RequestsOK
  <2>5. WholeValues'
    <3>1. CASE store' = store
      BY <1>0, <3>1 DEF WholeValues, Written
    <3>2. QED
      BY <1>0, <2>2, <3>1, StoredWritten
  <2>6. QED
    BY <2>4, <2>5
<1>2. ASSUME NEW w \in Worker,
             \/ Continue(w) \/ Collect(w) \/ Return(w) \/ GiveUp(w)
             \/ \E r \in Requests[w] : Call(w, r)
      PROVE  RequestsOK' /\ WholeValues'
  <2>1. /\ RequestRuns(w, asm[w], queue'[w], phase'[w], todo'[w])
        /\ \A v \in Worker : v # w =>
             queue'[v] = queue[v] /\ phase'[v] = phase[v] /\ todo'[v] = todo[v]
        /\ asm' = asm /\ pc' = pc /\ store' = store
    BY <1>0, <1>2, TesterRequests
  <2>2. QED
    BY <1>0, <2>1 DEF RequestsOK, WholeValues, Written
<1>3. ASSUME Starts
      PROVE  RequestsOK' /\ WholeValues'
  <2>1. /\ UNCHANGED <<store, queue, asm, phase, todo>>
        /\ pc' = [v \in Worker |-> "get"]
    BY <1>3 DEF Starts, Start, testers
  <2>2. \A v \in Worker : pc'[v] \notin Sending
    BY <2>1 DEF Sending
  <2>3. QED
    BY <1>0, <2>1, <2>2 DEF RequestsOK, WholeValues, Written
<1>4. ASSUME Lose \/ UNCHANGED svars
      PROVE  RequestsOK' /\ WholeValues'
  <2>1. UNCHANGED <<store, queue, asm, pc, phase, todo>>
    BY <1>4 DEF Lose, DeviceIdle, svars, vars, testers
  <2>2. QED
    BY <1>0, <2>1 DEF RequestsOK, WholeValues, Written
<1>5. QED
  BY <1>0, <1>1, <1>2, <1>3, <1>4 DEF SNext, Tests, ValuesInv

\* A value is stored only as some request carried it as a whole, whatever the
\* testers give up and whenever they call again, faults injected or not and
\* frames lost or not: what is left of one request in queue and assembler
\* never completes another (isotp.py:212-239, device.py:275-300).
THEOREM StoresWholeValues == SSpec => []WholeValues
<1>1. SSpec => []ValuesInv
  BY ValuesInit, ValuesStep, PTL DEF SSpec
<1>2. ValuesInv => WholeValues
  BY DEF ValuesInv
<1>3. QED
  BY <1>1, <1>2, PTL

-----------------------------------------------------------------------------
(* What is on its way to a tester *)

\* The transmit queue as tester w sees it: frames of the other worker are blank.
Blank == [t |-> "empty", n |-> 0, d |-> <<>>]

Mine(w, q) == [j \in 1 .. Len(q) |-> IF q[j].w = w THEN q[j].f ELSE Blank]

LEMMA MineIs ==
  ASSUME NEW w, NEW q \in Seq(Sent)
  PROVE  /\ Mine(w, q) \in Seq(Frame(Byte)) /\ Len(Mine(w, q)) = Len(q)
         /\ \A j \in 1 .. Len(q) :
              /\ q[j].w = w => Mine(w, q)[j] = q[j].f
              /\ q[j].w # w => Mine(w, q)[j] = Blank
<1> DEFINE n == Len(q)
<1>1. n \in Nat /\ \A j \in 1 .. n : q[j] \in Sent
  BY LenProperties, ElementOfSeq
<1>2. Blank \in Frame(Byte)
  BY DEF Blank, Frame, FrameType
<1>3. Mine(w, q) \in [1 .. n -> Frame(Byte)]
  BY <1>1, <1>2 DEF Mine, Sent
<1> HIDE DEF n
<1>4. Mine(w, q) \in Seq(Frame(Byte)) /\ Len(Mine(w, q)) = n
  BY <1>1, <1>3, FunctionIsSeq
<1>5. QED
  BY <1>4 DEF Mine, n

LEMMA MineTail ==
  ASSUME NEW w, NEW q \in Seq(Sent), q # <<>>
  PROVE  /\ Mine(w, q) # <<>> /\ Tail(q) \in Seq(Sent)
         /\ Head(q).w = w => Head(Mine(w, q)) = Head(q).f
         /\ Head(q).w # w => Head(Mine(w, q)) = Blank
         /\ Tail(Mine(w, q)) = Mine(w, Tail(q))
<1> DEFINE n == Len(q)  m == Mine(w, q)  u == Tail(q)
<1>1. n \in Nat \ {0} /\ Head(q) = q[1]
  BY EmptySeq
<1>2. /\ m \in Seq(Frame(Byte)) /\ Len(m) = n
      /\ \A j \in 1 .. n : /\ q[j].w = w => m[j] = q[j].f
                           /\ q[j].w # w => m[j] = Blank
  BY MineIs
<1>3. /\ u \in Seq(Sent) /\ Len(u) = n - 1
      /\ \A i \in 1 .. n - 1 : u[i] = q[i + 1]
  BY HeadTailProperties
<1> HIDE DEF n, u
<1> DEFINE v == Mine(w, u)
<1>4. /\ v \in Seq(Frame(Byte)) /\ Len(v) = n - 1
      /\ \A j \in 1 .. n - 1 : /\ u[j].w = w => v[j] = u[j].f
                               /\ u[j].w # w => v[j] = Blank
  BY <1>3, MineIs
<1> HIDE DEF m, v
<1>5. m # <<>> /\ Head(m) = m[1]
  BY <1>1, <1>2, EmptySeq
<1>6. /\ Tail(m) \in Seq(Frame(Byte)) /\ Len(Tail(m)) = n - 1
      /\ \A i \in 1 .. n - 1 : Tail(m)[i] = m[i + 1]
  BY <1>2, <1>5, HeadTailProperties
<1>7. \A i \in 1 .. n - 1 : Tail(m)[i] = v[i]
  <2> SUFFICES ASSUME NEW i \in 1 .. n - 1 PROVE Tail(m)[i] = v[i]
    OBVIOUS
  <2>1. i + 1 \in 1 .. n
    BY <1>1
  <2>2. u[i] = q[i + 1] /\ Tail(m)[i] = m[i + 1]
    BY <1>3, <1>6
  <2>3. QED
    BY <1>2, <1>4, <2>1, <2>2
<1>8. Tail(m) = v
  BY <1>4, <1>6, <1>7, SeqEqual
<1>9. 1 \in 1 .. n
  BY <1>1
<1>10. QED
  BY <1>1, <1>2, <1>3, <1>5, <1>8, <1>9 DEF m, u, v

LEMMA MineConcat ==
  ASSUME NEW w, NEW q \in Seq(Sent), NEW r \in Seq(Sent)
  PROVE  q \o r \in Seq(Sent) /\ Mine(w, q \o r) = Mine(w, q) \o Mine(w, r)
<1> DEFINE n == Len(q)  k == Len(r)  u == q \o r
           a == Mine(w, q)  b == Mine(w, r)
<1>1. n \in Nat /\ k \in Nat
  BY LenProperties
<1>2. /\ u \in Seq(Sent) /\ Len(u) = n + k
      /\ \A i \in 1 .. n + k : u[i] = IF i <= n THEN q[i] ELSE r[i - n]
  BY ConcatProperties
<1>3. /\ a \in Seq(Frame(Byte)) /\ Len(a) = n
      /\ \A j \in 1 .. n : /\ q[j].w = w => a[j] = q[j].f
                           /\ q[j].w # w => a[j] = Blank
  BY MineIs
<1>4. /\ b \in Seq(Frame(Byte)) /\ Len(b) = k
      /\ \A j \in 1 .. k : /\ r[j].w = w => b[j] = r[j].f
                           /\ r[j].w # w => b[j] = Blank
  BY MineIs
<1> HIDE DEF n, k, u, a, b
<1> DEFINE c == Mine(w, u)  d == a \o b
<1>5. /\ c \in Seq(Frame(Byte)) /\ Len(c) = n + k
      /\ \A j \in 1 .. n + k : /\ u[j].w = w => c[j] = u[j].f
                               /\ u[j].w # w => c[j] = Blank
  BY <1>2, MineIs
<1> HIDE DEF c
<1>6. /\ d \in Seq(Frame(Byte)) /\ Len(d) = n + k
      /\ \A i \in 1 .. n + k : d[i] = IF i <= n THEN a[i] ELSE b[i - n]
  BY <1>3, <1>4, ConcatProperties
<1> HIDE DEF d
<1>7. ASSUME NEW i \in 1 .. n + k
      PROVE  c[i] = d[i]
  <2>1. CASE i <= n
    <3>1. i \in 1 .. n /\ u[i] = q[i] /\ d[i] = a[i]
      BY <1>1, <1>2, <1>6, <2>1
    <3>2. QED
      BY <1>3, <1>5, <3>1
  <2>2. CASE i > n
    <3>1. i - n \in 1 .. k /\ u[i] = r[i - n] /\ d[i] = b[i - n]
      BY <1>1, <1>2, <1>6, <2>2
    <3>2. QED
      BY <1>4, <1>5, <3>1
  <2>3. QED
    BY <1>1, <2>1, <2>2
<1>8. c = d
  BY <1>5, <1>6, <1>7, SeqEqual
<1>9. QED
  BY <1>2, <1>8 DEF u, a, b, c, d

\* Frames that worker w sends, seen by its own tester and by the other.
LEMMA MineSent ==
  ASSUME NEW w \in Worker, NEW fs \in Seq(Frame(Byte)), NEW v \in Worker,
         NEW r, r = [i \in DOMAIN fs |-> [w |-> w, f |-> fs[i]]]
  PROVE  /\ r \in Seq(Sent) /\ Mine(v, r) \in Seq(Frame(Byte))
         /\ Len(Mine(v, r)) = Len(fs)
         /\ v = w => Mine(v, r) = fs
         /\ v # w => \A j \in 1 .. Len(fs) : Mine(v, r)[j] = Blank
<1> DEFINE n == Len(fs)
<1>1. n \in Nat /\ DOMAIN fs = 1 .. n /\ \A j \in 1 .. n : fs[j] \in Frame(Byte)
  BY LenProperties, ElementOfSeq
<1>2. r \in [1 .. n -> Sent]
  BY <1>1 DEF Sent
<1> HIDE DEF n
<1>3. r \in Seq(Sent) /\ Len(r) = n
  BY <1>1, <1>2, FunctionIsSeq
<1>4. \A j \in 1 .. n : r[j].w = w /\ r[j].f = fs[j]
  BY <1>1
<1>5. /\ Mine(v, r) \in Seq(Frame(Byte)) /\ Len(Mine(v, r)) = n
      /\ \A j \in 1 .. n : /\ r[j].w = v => Mine(v, r)[j] = r[j].f
                           /\ r[j].w # v => Mine(v, r)[j] = Blank
  BY <1>3, MineIs
<1>6. ASSUME v = w
      PROVE  Mine(v, r) = fs
  <2> DEFINE m == Mine(v, r)
  <2>1. m \in Seq(Frame(Byte)) /\ Len(m) = n /\ \A j \in 1 .. n : m[j] = fs[j]
    BY <1>4, <1>5, <1>6
  <2>2. fs \in Seq(Frame(Byte)) /\ Len(fs) = n
    BY DEF n
  <2> HIDE DEF m
  <2>3. m = fs
    BY <2>1, <2>2, SeqEqual
  <2>4. QED
    BY <2>3 DEF m
<1>7. QED
  BY <1>3, <1>4, <1>5, <1>6 DEF n

\* One frame.
LEMMA MineOne ==
  ASSUME NEW w \in Worker, NEW f \in Frame(Byte), NEW v \in Worker,
         NEW q \in Seq(Sent)
  PROVE  /\ v = w => Mine(v, Append(q, [w |-> w, f |-> f])) = Append(Mine(v, q), f)
         /\ v # w => Mine(v, Append(q, [w |-> w, f |-> f])) = Append(Mine(v, q), Blank)
<1> DEFINE g == [w |-> w, f |-> f]
<1>1. g \in Sent /\ <<g>> \in Seq(Sent) /\ <<g>>[1] = g /\ Len(<<g>>) = 1
  BY DEF Sent
<1>2. /\ g.w = v => Mine(v, <<g>>) = <<f>>
      /\ g.w # v => Mine(v, <<g>>) = <<Blank>>
  BY <1>1 DEF Mine
<1>3. Mine(v, q) \in Seq(Frame(Byte)) /\ Blank \in Frame(Byte)
  <2>1. Mine(v, q) \in Seq(Frame(Byte))
    BY MineIs
  <2>2. Blank \in Frame(Byte)
    BY DEF Blank, Frame, FrameType
  <2>3. QED
    BY <2>1, <2>2
<1>4. Mine(v, q \o <<g>>) = Mine(v, q) \o Mine(v, <<g>>)
  BY <1>1, MineConcat
<1>5. Append(q, g) = q \o <<g>> /\ g.w = w
  BY <1>1, AppendIsConcat
<1>6. /\ Append(Mine(v, q), f) = Mine(v, q) \o <<f>>
      /\ Append(Mine(v, q), Blank) = Mine(v, q) \o <<Blank>>
  BY <1>3, AppendIsConcat
<1>7. QED
  BY <1>2, <1>4, <1>5, <1>6

\* A step of worker w that sends fs: its own tester sees them, the other blanks.
Sees(w, fs) ==
  /\ Mine(w, txq') = Mine(w, txq) \o fs
  /\ \A v \in Worker : v # w =>
       \E bs \in Seq(Frame(Byte)) :
         /\ \A j \in 1 .. Len(bs) : bs[j] = Blank
         /\ Mine(v, txq') = Mine(v, txq) \o bs

LEMMA SeesAll ==
  ASSUME txq \in Seq(Sent), NEW w \in Worker, NEW fs \in Seq(Frame(Byte)), SendAll(w, fs)
  PROVE  Sees(w, fs)
<1> DEFINE r == [i \in DOMAIN fs |-> [w |-> w, f |-> fs[i]]]
<1>1. txq' = txq \o r
  BY DEF SendAll
<1>2. ASSUME NEW v \in Worker
      PROVE  /\ r \in Seq(Sent) /\ Mine(v, r) \in Seq(Frame(Byte))
             /\ Len(Mine(v, r)) = Len(fs)
             /\ v = w => Mine(v, r) = fs
             /\ v # w => \A j \in 1 .. Len(fs) : Mine(v, r)[j] = Blank
  BY MineSent
<1> HIDE DEF r
<1>3. r \in Seq(Sent)
  BY <1>2
<1>4. \A v \in Worker : Mine(v, txq') = Mine(v, txq) \o Mine(v, r)
  BY <1>1, <1>3, MineConcat
<1>5. QED
  BY <1>2, <1>4 DEF Sees

LEMMA SeesSend ==
  ASSUME txq \in Seq(Sent), NEW w \in Worker, NEW f \in Frame(Byte), Send(w, f)
  PROVE  Sees(w, <<f>>)
<1>1. /\ Mine(w, txq') = Append(Mine(w, txq), f)
      /\ \A v \in Worker : v # w => Mine(v, txq') = Append(Mine(v, txq), Blank)
  BY MineOne DEF Send
<1>2. Blank \in Frame(Byte)
  BY DEF Blank, Frame, FrameType
<1>3. \A v \in Worker : Mine(v, txq) \in Seq(Frame(Byte))
  BY MineIs
<1> DEFINE bs == <<Blank>>
<1>4. /\ \A v \in Worker : Append(Mine(v, txq), Blank) = Mine(v, txq) \o bs
      /\ Append(Mine(w, txq), f) = Mine(w, txq) \o <<f>>
  BY <1>2, <1>3, AppendIsConcat
<1>5. bs \in Seq(Frame(Byte)) /\ \A j \in 1 .. Len(bs) : bs[j] = Blank
  BY <1>2
<1> HIDE DEF bs
<1>6. QED
  BY <1>1, <1>4, <1>5 DEF Sees

LEMMA SeesNone ==
  ASSUME txq \in Seq(Sent), NEW w \in Worker, txq' = txq
  PROVE  Sees(w, <<>>)
<1>1. \A v \in Worker : Mine(v, txq) \in Seq(Frame(Byte))
  BY MineIs
<1>2. \A v \in Worker : Mine(v, txq) = Mine(v, txq) \o <<>>
  BY <1>1, ConcatEmptySeq
<1>3. <<>> \in Seq(Frame(Byte)) /\ \A j \in 1 .. Len(<<>>) : <<>>[j] = Blank
  OBVIOUS
<1>4. QED
  BY <1>2, <1>3 DEF Sees

-----------------------------------------------------------------------------
(* Answers in one piece, on a bus that loses nothing *)

\* What an answer may be: a value in it is one that was written.
AnswerP ==
  {p \in Payload : /\ p # <<>>
                   /\ p[1] = "62" => SubSeq(p, 3, Len(p)) \in Written(p[2])}

\* What is on its way to tester w, and what the worker has yet to send.
SentRuns(P, a, q, o) ==
  \E l \in Labels(P) :
    /\ Runs(P, a, q, l)
    /\ o # <<>> => /\ l.i >= 1 /\ l.i < Len(Segment(l.p))
                   /\ o = SubSeq(Segment(l.p), l.i + 1, Len(Segment(l.p)))

AnswersOK == \A w \in Worker : SentRuns(AnswerP, tasm[w], Mine(w, txq), out[w])

AnswersInv == ValuesInv /\ AnswersOK /\ WholeAnswers

LEMMA AnswerWhole == Whole(AnswerP)
BY DEF Whole, AnswerP

\* The reply to a whole request is one.
LEMMA ReplyIsAnswer ==
  ASSUME store \in Store, WholeValues, NEW w \in Worker, NEW r \in Requests[w]
  PROVE  Reply(w, Encoded(w, r)) \in AnswerP
<1> DEFINE p == Reply(w, Encoded(w, r))
<1>0. /\ r.did \in Byte /\ "62" \in Byte /\ "6E" \in Byte /\ "77" \in Byte
      /\ "44" \in Byte /\ "7F" \in Byte
  BY RequestKinds DEF Byte, HeaderByte
<1>1. CASE r.op = "read" /\ r.did \in Known /\ p = <<"62", r.did>> \o store[r.did]
  <2> DEFINE h == <<"62", r.did>>  v == store[r.did]
  <2>1. h \in Seq(Byte) /\ Len(h) = 2 /\ h[1] = "62" /\ h[2] = r.did /\ h # <<>>
    BY <1>0
  <2>2. v \in Seq(Byte)
    BY <1>1 DEF Store, Payload
  <2>3. p = h \o v
    BY <1>1
  <2>4. v \in Written(r.did)
    BY <1>1 DEF WholeValues
  <2> HIDE DEF h, v, p
  <2>5. /\ p \in Seq(Byte) /\ p # <<>>
        /\ \A i \in 1 .. Len(h) : p[i] = h[i]
        /\ SubSeq(p, Len(h) + 1, Len(p)) = v
    BY <2>1, <2>2, <2>3, HeaderThen
  <2>6. p[1] = h[1] /\ p[2] = h[2] /\ SubSeq(p, 3, Len(p)) = v
    BY <2>1, <2>5
  <2>7. p \in AnswerP
    BY <2>1, <2>4, <2>5, <2>6 DEF AnswerP, Payload
  <2>8. QED
    BY <2>7 DEF p
<1>2. CASE p = <<"6E", r.did>>
  <2>1. p \in Seq(Byte) /\ p # <<>> /\ p[1] = "6E"
    BY <1>0, <1>2
  <2>2. QED
    BY <2>1 DEF AnswerP, Payload
<1>3. CASE r.ctr \in Byte /\ p = <<"77", r.ctr, "44">>
  <2>1. p \in Seq(Byte) /\ p # <<>> /\ p[1] = "77"
    BY <1>0, <1>3
  <2>2. QED
    BY <2>1 DEF AnswerP, Payload
<1>4. CASE \E sid, nrc \in Byte : p = Negative(sid, nrc)
  <2>1. p \in Seq(Byte) /\ p # <<>> /\ p[1] = "7F"
    BY <1>0, <1>4 DEF Negative
  <2>2. QED
    BY <2>1 DEF AnswerP, Payload
<1>5. QED
  BY <1>1, <1>2, <1>3, <1>4, RequestAnswered

\* What a worker may send next: frames that are no data, and no more of the
\* response if it gives it up,
LEMMA SendsOther ==
  ASSUME NEW P, Whole(P), NEW a, NEW q \in Seq(Frame(Byte)), NEW o, SentRuns(P, a, q, o),
         NEW fs \in Seq(Frame(Byte)),
         \A j \in 1 .. Len(fs) : fs[j].t \notin {"SF", "FF", "CF"},
         NEW oo, oo = o \/ oo = <<>>
  PROVE  SentRuns(P, a, q \o fs, oo)
BY RunsOthers DEF SentRuns

\* the first frame of an answer,
LEMMA SendsFirst ==
  ASSUME NEW P, Whole(P), NEW a, NEW q \in Seq(Frame(Byte)), NEW o, SentRuns(P, a, q, o),
         NEW p \in P
  PROVE  SentRuns(P, a, q \o <<Segment(p)[1]>>, Tail(Segment(p)))
<1> DEFINE S == Segment(p)  n == Len(S)  m == [p |-> p, i |-> 1]
<1>1. PICK l \in Labels(P) : Runs(P, a, q, l)
  BY DEF SentRuns
<1>2. p \in Payload /\ p # <<>>
  BY DEF Whole
<1>3. S \in Seq(Frame(Byte)) /\ S # <<>> /\ n \in Nat \ {0} /\ S[1] \in Frame(Byte)
  <2>1. S \in Seq(Frame(Byte)) /\ S # <<>> /\ n \in Nat \ {0}
    BY <1>2, SegmentFrames
  <2>2. QED
    BY <2>1, RestType
<1>4. m \in Labels(P) /\ m.i = 1 /\ m.p = p
  BY DEF Labels
<1>5. Comes(l, S[1], m)
  BY <1>4 DEF Comes
<1>6. Runs(P, a, Append(q, S[1]), m)
  BY <1>1, <1>3, <1>4, <1>5, RunsMore
<1>7. Append(q, S[1]) = q \o <<S[1]>>
  BY <1>3, AppendIsConcat
<1>8. Tail(S) = SubSeq(S, 2, n)
  BY <1>3, TailIsSubSeq
<1>9. Tail(S) # <<>> => n > 1
  <2>1. n = 1 => SubSeq(S, 2, n) = <<>>
    BY <1>3, Suffix
  <2>2. \A k \in Nat \ {0} : k = 1 \/ k > 1
    OBVIOUS
  <2>3. n = 1 \/ n > 1
    BY <1>3, <2>2, Zenon
  <2>4. QED
    BY <1>8, <2>1, <2>3
<1> HIDE DEF m
<1>10. Tail(S) # <<>> => /\ m.i >= 1 /\ m.i < Len(Segment(m.p))
                         /\ Tail(S) = SubSeq(Segment(m.p), m.i + 1, Len(Segment(m.p)))
  BY <1>4, <1>8, <1>9
<1>11. QED
  BY <1>4, <1>6, <1>7, <1>10 DEF SentRuns

\* its next frame,
LEMMA SendsNext ==
  ASSUME NEW P, Whole(P), NEW a, NEW q \in Seq(Frame(Byte)), NEW o, SentRuns(P, a, q, o), o # <<>>
  PROVE  SentRuns(P, a, q \o <<Head(o)>>, Tail(o))
<1>1. PICK l \in Labels(P) :
        /\ Runs(P, a, q, l)
        /\ l.i >= 1 /\ l.i < Len(Segment(l.p))
        /\ o = SubSeq(Segment(l.p), l.i + 1, Len(Segment(l.p)))
  BY DEF SentRuns
<1> DEFINE p == l.p  i == l.i  S == Segment(p)  n == Len(S)
           m == [p |-> p, i |-> i + 1]
<1>2. i \in Nat /\ i # 0 /\ p \in P /\ p \in Payload /\ p # <<>>
  BY <1>1, LabelParts
<1>3. S \in Seq(Frame(Byte)) /\ n \in Nat \ {0} /\ i >= 1 /\ i < n
  BY <1>1, <1>2, SegmentFrames
<1>4. /\ i \in 0 .. n /\ i + 1 \in 2 .. n /\ i + 1 \in 1 .. n /\ i + 1 >= 1
      /\ i + 1 \in Nat \ {0} /\ (i + 1) + 1 = i + 2 /\ i + 1 \in 0 .. n
      /\ i + 1 \in i + 1 .. n /\ (i + 1 = n \/ i + 1 < n)
  <2> HIDE DEF i, n
  <2>1. QED
    BY <1>2, <1>3
<1>5. S[i + 1] \in Frame(Byte)
  BY <1>2, <1>4, SegmentFrames
<1>6. Head(o) = S[i + 1] /\ Tail(o) = SubSeq(S, i + 2, n)
  BY <1>1, <1>3, <1>4, Suffix
<1>7. i + 1 = n => SubSeq(S, i + 2, n) = <<>>
  BY <1>3, <1>4, Suffix
<1>8. m \in Labels(P) /\ m.p = p /\ m.i = i + 1
  BY <1>2, <1>4 DEF Labels
<1> HIDE DEF m
<1>9. Comes(l, S[i + 1], m)
  BY <1>3, <1>4, <1>8 DEF Comes
<1>10. Runs(P, a, Append(q, S[i + 1]), m)
  BY <1>1, <1>5, <1>8, <1>9, RunsMore
<1>11. Append(q, S[i + 1]) = q \o <<Head(o)>>
  BY <1>5, <1>6, AppendIsConcat
<1>12. Tail(o) # <<>> => /\ m.i >= 1 /\ m.i < Len(Segment(m.p))
                         /\ Tail(o) = SubSeq(Segment(m.p), m.i + 1, Len(Segment(m.p)))
  BY <1>4, <1>6, <1>7, <1>8
<1>13. QED
  BY <1>8, <1>10, <1>11, <1>12 DEF SentRuns

\* or all that is left of it.
LEMMA SendsRest ==
  ASSUME NEW P, Whole(P), NEW a, NEW q \in Seq(Frame(Byte)), NEW o \in Seq(Frame(Byte)),
         SentRuns(P, a, q, o), o # <<>>
  PROVE  SentRuns(P, a, q \o o, <<>>)
<1>1. PICK l \in Labels(P) :
        /\ Runs(P, a, q, l)
        /\ l.i >= 1 /\ l.i < Len(Segment(l.p))
        /\ o = SubSeq(Segment(l.p), l.i + 1, Len(Segment(l.p)))
  BY DEF SentRuns
<1> DEFINE m == [p |-> l.p, i |-> Len(Segment(l.p))]
<1>2. l.i \in Nat /\ l.p \in Payload /\ l.p # <<>>
  BY <1>1, LabelParts
<1>3. Len(Segment(l.p)) \in Nat \ {0}
  BY <1>2, SegmentFrames
<1>4. l.i <= Len(Segment(l.p))
  BY <1>1, <1>2, <1>3
<1>5. Runs(P, a, q \o o, m)
  BY <1>1, <1>4, RunsRest
<1>6. q \o o \in Seq(Frame(Byte))
  BY ConcatProperties
<1>7. m \in Labels(P)
  BY <1>5, <1>6, RunsLabel
<1> HIDE DEF m
<1>8. QED
  BY <1>5, <1>7 DEF SentRuns

\* A step of worker w: what the testers will see is still in one piece.
LEMMA WorkAnswers ==
  ASSUME ~HasErrors, AnswersInv, NEW w \in Worker, Work(w) \/ TimeoutFC(w),
         NEW v \in Worker
  PROVE  SentRuns(AnswerP, tasm[v], Mine(v, txq'), out'[v])
<1> DEFINE Same(fs) == /\ Sees(w, fs) /\ fs \in Seq(Frame(Byte))
                       /\ SentRuns(AnswerP, tasm[w], Mine(w, txq) \o fs, out'[w])
<1>0. /\ STypeInv /\ txq \in Seq(Sent) /\ store \in Store /\ WholeValues /\ TypeInv
      /\ queue \in [Worker -> Seq(Frame(Byte))]
      /\ out \in [Worker -> Seq(Frame(Byte))] /\ out[w] \in Seq(Frame(Byte))
      /\ pc \in [Worker -> PC]
      /\ \A u \in Worker : SentRuns(AnswerP, tasm[u], Mine(u, txq), out[u])
      /\ \A u \in Worker : Mine(u, txq) \in Seq(Frame(Byte))
      /\ pc[w] \in {"first", "fc"} => out[w] # <<>>
  <2>1. /\ STypeInv /\ txq \in Seq(Sent) /\ store \in Store /\ WholeValues /\ TypeInv
        /\ queue \in [Worker -> Seq(Frame(Byte))]
        /\ out \in [Worker -> Seq(Frame(Byte))]
        /\ pc \in [Worker -> PC] /\ AnswersOK
        /\ pc[w] \in {"first", "fc"} => out[w] # <<>>
    BY DEF AnswersInv, ValuesInv, STypeInv, TypeInv, TypeOK, PendingOK
  <2>2. QED
    BY <2>1, MineIs DEF AnswersOK
<1>1. ASSUME txq' = txq, out'[w] = out[w] \/ out'[w] = <<>>
      PROVE  Same(<<>>)
  <2>1. Sees(w, <<>>)
    BY <1>0, <1>1, SeesNone
  <2> DEFINE e == <<>>
  <2>2. e \in Seq(Frame(Byte)) /\ \A j \in 1 .. Len(e) : e[j].t \notin {"SF", "FF", "CF"}
    OBVIOUS
  <2> HIDE DEF e
  <2>3. SentRuns(AnswerP, tasm[w], Mine(w, txq) \o e, out'[w])
    BY <1>0, <1>1, <2>2, AnswerWhole, SendsOther
  <2>4. QED
    BY <2>1, <2>2, <2>3 DEF e
<1>2. ASSUME Send(w, FlowControl), out'[w] = out[w]
      PROVE  Same(<<FlowControl>>)
  <2>1. FlowControl \in Frame(Byte) /\ FlowControl.t \notin {"SF", "FF", "CF"}
    BY FlowControlType DEF FlowControl
  <2> DEFINE f == FlowControl
  <2> HIDE DEF f
  <2>2. Sees(w, <<f>>)
    BY <1>0, <1>2, <2>1, SeesSend DEF f
  <2>3. <<f>> \in Seq(Frame(Byte)) /\ \A j \in 1 .. Len(<<f>>) : <<f>>[j].t \notin {"SF", "FF", "CF"}
    BY <2>1 DEF f
  <2>4. SentRuns(AnswerP, tasm[w], Mine(w, txq) \o <<f>>, out'[w])
    BY <1>0, <1>2, <2>3, AnswerWhole, SendsOther
  <2>5. QED
    BY <2>2, <2>3, <2>4 DEF f
<1>3. ASSUME NEW p \in AnswerP, Respond(w, Segment(p))
      PROVE  \E fs : Same(fs)
  <2> DEFINE S == Segment(p)
  <2>1. S \in Seq(Frame(Byte)) /\ S # <<>>
    BY SegmentType DEF AnswerP
  <2>2. S[1] \in Frame(Byte) /\ Tail(S) \in Seq(Frame(Byte))
    BY <2>1, RestType
  <2>3. Send(w, S[1]) /\ out'[w] = Tail(S)
    BY <1>0, <1>3 DEF Respond
  <2>4. Sees(w, <<S[1]>>)
    BY <1>0, <2>2, <2>3, SeesSend
  <2>5. SentRuns(AnswerP, tasm[w], Mine(w, txq) \o <<S[1]>>, out'[w])
    BY <1>0, <2>3, AnswerWhole, SendsFirst
  <2>6. <<S[1]>> \in Seq(Frame(Byte))
    BY <2>2
  <2>7. QED
    BY <2>4, <2>5, <2>6
<1>4. ASSUME out[w] # <<>>, Send(w, Head(out[w])), out'[w] = Tail(out[w])
      PROVE  \E fs : Same(fs)
  <2>1. Head(out[w]) \in Frame(Byte) /\ <<Head(out[w])>> \in Seq(Frame(Byte))
    BY <1>0, <1>4, RestType
  <2>2. Sees(w, <<Head(out[w])>>)
    BY <1>0, <1>4, <2>1, SeesSend
  <2>3. SentRuns(AnswerP, tasm[w], Mine(w, txq) \o <<Head(out[w])>>, out'[w])
    BY <1>0, <1>4, AnswerWhole, SendsNext
  <2>4. QED
    BY <2>1, <2>2, <2>3
<1>5. ASSUME out[w] # <<>>, SendAll(w, out[w]), out'[w] = <<>>
      PROVE  \E fs : Same(fs)
  <2>1. Sees(w, out[w])
    BY <1>0, <1>5, SeesAll
  <2>2. SentRuns(AnswerP, tasm[w], Mine(w, txq) \o out[w], out'[w])
    BY <1>0, <1>5, AnswerWhole, SendsRest
  <2>3. QED
    BY <1>0, <2>1, <2>2
<1>6. \E fs : Same(fs)
  <2>1. CASE FeedOnly(w)
    <3>1. /\ IF IsFirst(Taken(w)) THEN Send(w, FlowControl) ELSE txq' = txq
          /\ out' = out
      BY <2>1 DEF FeedOnly
    <3>2. QED
      BY <1>1, <1>2, <3>1
  <2>2. CASE \/ FeedFails(w) \/ TakeOther(w) \/ TakeFails(w) \/ TimeoutFC(w)
             \/ HandleFails(w) \/ HandleSilently(w) \/ Wake(w)
    <3>1. txq' = txq /\ (out'[w] = <<>> \/ out' = out)
      BY <1>0, <2>2
      DEF FeedFails, TakeOther, TakeFails, TimeoutFC, HandleFails, HandleSilently, Wake, Die
    <3>2. QED
      BY <1>1, <3>1
  <2>3. CASE Handle(w)
    <3>1. /\ Feed(w) /\ Completes(asm[w], Taken(w))
          /\ \E fs \in Injected(Segment(Reply(w, Got(w)))) : Respond(w, fs)
      BY <2>3 DEF Handle
    <3>2. queue[w] # <<>>
      BY <3>1 DEF Feed, TakeNext
    <3>3. PICK r \in Requests[w] : Got(w) = Encoded(w, r)
      BY <3>1, <3>2, FeedRuns DEF AnswersInv, ValuesInv
    <3>4. Reply(w, Got(w)) \in AnswerP
      BY <1>0, <3>3, ReplyIsAnswer
    <3>5. Respond(w, Segment(Reply(w, Got(w))))
      BY <3>1 DEF Injected
    <3>6. QED
      BY <1>3, <3>4, <3>5
  <2>4. CASE TakeFC(w)
    <3>1. /\ pc[w] = "fc"
          /\ IF HasDelay THEN Send(w, Head(out[w])) /\ out' = [out EXCEPT ![w] = Tail(out[w])]
                         ELSE SendAll(w, out[w]) /\ out' = [out EXCEPT ![w] = <<>>]
      BY <2>4 DEF TakeFC
    <3>2. out[w] # <<>>
      BY <1>0, <3>1
    <3>3. CASE HasDelay
      BY <1>0, <1>4, <3>1, <3>2, <3>3
    <3>4. CASE ~HasDelay
      BY <1>0, <1>5, <3>1, <3>2, <3>4
    <3>5. QED
      BY <3>3, <3>4
  <2>5. CASE NextCF(w)
    <3>1. IF out[w] = <<>> THEN out' = out /\ txq' = txq
          ELSE Send(w, Head(out[w])) /\ out' = [out EXCEPT ![w] = Tail(out[w])]
      BY <2>5 DEF NextCF
    <3>2. QED
      BY <1>0, <1>1, <1>4, <3>1
  <2>6. QED
    BY <2>1, <2>2, <2>3, <2>4, <2>5 DEF Work
<1>7. PICK fs : Same(fs)
  BY <1>6
<1>8. CASE v = w
  BY <1>7, <1>8 DEF Sees
<1>9. CASE v # w
  <2>1. PICK bs \in Seq(Frame(Byte)) :
          (\A j \in 1 .. Len(bs) : bs[j] = Blank) /\ Mine(v, txq') = Mine(v, txq) \o bs
    BY <1>7, <1>9 DEF Sees
  <2>2. \A j \in 1 .. Len(bs) : bs[j].t \notin {"SF", "FF", "CF"}
    BY <2>1 DEF Blank
  <2>3. SentRuns(AnswerP, tasm[v], Mine(v, txq) \o bs, out[v])
    BY <1>0, <2>2, AnswerWhole, SendsOther
  <2>4. out'[v] = out[v]
    BY <1>0, <1>9, WorkLocal
  <2>5. QED
    BY <2>1, <2>3, <2>4
<1>10. QED
  BY <1>8, <1>9

\* A frame of worker w reaches its tester.
LEMMA ArrivesAnswers ==
  ASSUME AnswersInv, NEW w \in Worker, Arrives(w)
  PROVE  /\ SentRuns(AnswerP, Fed(tasm[w], Arriving), Mine(w, txq'), out[w])
         /\ \A v \in Worker : v # w => SentRuns(AnswerP, tasm[v], Mine(v, txq'), out[v])
         /\ Completes(tasm[w], Arriving) => PayloadOf(tasm[w], Arriving) \in AnswerP
<1>0. /\ txq \in Seq(Sent) /\ txq # <<>> /\ Head(txq).w = w /\ txq' = Tail(txq)
      /\ tasm \in [Worker -> Assembler(Byte)]
      /\ \A u \in Worker : SentRuns(AnswerP, tasm[u], Mine(u, txq), out[u])
  BY DEF AnswersInv, ValuesInv, STypeInv, TypeInv, TypeOK, TesterOK, AnswersOK, Arrives
<1>1. ASSUME NEW v \in Worker
      PROVE  /\ Mine(v, txq) \in Seq(Frame(Byte)) /\ Mine(v, txq) # <<>>
             /\ Tail(Mine(v, txq)) = Mine(v, txq')
             /\ v = w => Head(Mine(v, txq)) = Arriving
             /\ v # w => Head(Mine(v, txq)) = Blank
  BY <1>0, MineTail, MineIs DEF Arriving
<1>2. ASSUME NEW v \in Worker
      PROVE  /\ SentRuns(AnswerP, Fed(tasm[v], Head(Mine(v, txq))), Mine(v, txq'), out[v])
             /\ Completes(tasm[v], Head(Mine(v, txq)))
                  => PayloadOf(tasm[v], Head(Mine(v, txq))) \in AnswerP
  <2>1. PICK l \in Labels(AnswerP) :
          /\ Runs(AnswerP, tasm[v], Mine(v, txq), l)
          /\ out[v] # <<>> => /\ l.i >= 1 /\ l.i < Len(Segment(l.p))
                              /\ out[v] = SubSeq(Segment(l.p), l.i + 1, Len(Segment(l.p)))
    BY <1>0 DEF SentRuns
  <2>2. /\ Runs(AnswerP, Fed(tasm[v], Head(Mine(v, txq))), Tail(Mine(v, txq)), l)
        /\ Completes(tasm[v], Head(Mine(v, txq)))
             => PayloadOf(tasm[v], Head(Mine(v, txq))) \in AnswerP
    BY <1>0, <1>1, <2>1, AnswerWhole, RunsTake
  <2>3. QED
    BY <1>1, <2>1, <2>2 DEF SentRuns
<1>3. ASSUME NEW v \in Worker, v # w
      PROVE  SentRuns(AnswerP, tasm[v], Mine(v, txq'), out[v])
  <2>1. Fed(tasm[v], Blank) = tasm[v]
    BY IgnoresOther DEF Ignores, Blank
  <2>2. QED
    BY <1>1, <1>2, <1>3, <2>1
<1>4. QED
  BY <1>1, <1>2, <1>3

\* A payload that may be an answer is understood as a written value, or none.
LEMMA AnswerDecoded ==
  ASSUME NEW p \in AnswerP, Decoded(p).kind = "value"
  PROVE  Decoded(p).val \in Written(Decoded(p).did)
<1>1. p # <<>> /\ (p[1] = "62" => SubSeq(p, 3, Len(p)) \in Written(p[2]))
  BY DEF AnswerP
<1>2. CASE p[1] = "62"
  <2>1. Decoded(p) = [kind |-> "value", did |-> p[2], val |-> SubSeq(p, 3, Len(p))]
    BY <1>1, <1>2 DEF Decoded
  <2>2. QED
    BY <1>1, <1>2, <2>1
<1>3. CASE p[1] # "62"
  <2>1. Decoded(p).kind # "value"
    BY <1>1, <1>3 DEF Decoded, NoAnswer
  <2>2. QED
    BY <2>1
<1>4. QED
  BY <1>2, <1>3

LEMMA AnswersInit == SInit => AnswersInv
<1> SUFFICES ASSUME SInit PROVE AnswersInv
  OBVIOUS
<1>1. AnswersOK
  <2> SUFFICES ASSUME NEW w \in Worker
               PROVE  SentRuns(AnswerP, tasm[w], Mine(w, txq), out[w])
    BY DEF AnswersOK
  <2>1. tasm[w] = Reset /\ out[w] = <<>> /\ txq = <<>> /\ Reset.on = FALSE
    BY DEF SInit, Init, Reset
  <2>2. Mine(w, <<>>) = <<>>
    BY DEF Mine
  <2>3. Runs(AnswerP, Reset, <<>>, NoLabel) /\ NoLabel \in Labels(AnswerP)
    BY <2>1, RunsNothing DEF Labels
  <2>4. QED
    BY <2>1, <2>2, <2>3 DEF SentRuns
<1>2. WholeAnswers
  BY DEF SInit, WholeAnswers, NoAnswer
<1>3. QED
  BY <1>1, <1>2, ValuesInit DEF AnswersInv

LEMMA AnswersStep ==
  ASSUME MaxDrop = 0, ~HasErrors
  PROVE  AnswersInv /\ [SNext]_svars => AnswersInv'
<1> SUFFICES ASSUME AnswersInv, [SNext]_svars PROVE AnswersInv'
  OBVIOUS
<1>0. /\ ValuesInv /\ ValuesInv' /\ AnswersOK /\ WholeAnswers /\ STypeInv
      /\ got \in [Worker -> Outcomes] /\ drops \in Nat
      /\ tasm \in [Worker -> Assembler(Byte)]
  BY ValuesStep DEF AnswersInv, ValuesInv, STypeInv, TesterOK
<1>1. ASSUME NEW w \in Worker, Works(w) \/ Expires(w)
      PROVE  AnswersOK' /\ WholeAnswers'
  <2>1. (Work(w) \/ TimeoutFC(w)) /\ tasm' = tasm /\ got' = got
    BY <1>1 DEF Works, Expires, testers
  <2>2. \A v \in Worker : SentRuns(AnswerP, tasm[v], Mine(v, txq'), out'[v])
    BY <2>1, WorkAnswers
  <2>3. QED
    BY <1>0, <2>1, <2>2 DEF AnswersOK, WholeAnswers, Written
<1>2. ASSUME NEW w \in Worker, Continue(w) \/ Collect(w) \/ Return(w)
      PROVE  AnswersOK' /\ WholeAnswers'
  <2>1. Arrives(w) /\ out' = out
    BY <1>2 DEF Continue, Collect, Return, DeviceIdle
  <2>2. tasm' = [tasm EXCEPT ![w] = Fed(tasm[w], Arriving)]
    <3>1. CASE Continue(w)
      <4>1. Arriving.t = "FC" /\ tasm' = tasm
        BY <3>1 DEF Continue
      <4>2. Fed(tasm[w], Arriving) = tasm[w]
        BY <4>1, IgnoresOther DEF Ignores
      <4>3. QED
        BY <1>0, <4>1, <4>2
    <3>2. QED
      BY <1>2, <3>1 DEF Collect, Return
  <2>3. /\ SentRuns(AnswerP, Fed(tasm[w], Arriving), Mine(w, txq'), out[w])
        /\ \A v \in Worker : v # w => SentRuns(AnswerP, tasm[v], Mine(v, txq'), out[v])
        /\ Completes(tasm[w], Arriving) => PayloadOf(tasm[w], Arriving) \in AnswerP
    BY <2>1, ArrivesAnswers
  <2>4. AnswersOK'
    BY <1>0, <2>1, <2>2, <2>3 DEF AnswersOK
  <2>5. CASE got' = got
    BY <1>0, <2>4, <2>5 DEF WholeAnswers, Written
  <2>6. CASE Return(w)
    <3>1. /\ got' = [got EXCEPT ![w] = Decoded(PayloadOf(tasm[w], Arriving))]
          /\ Completes(tasm[w], Arriving)
      BY <2>6 DEF Return
    <3> DEFINE g == Decoded(PayloadOf(tasm[w], Arriving))
    <3>2. g.kind = "value" => g.val \in Written(g.did)
      BY <2>3, <3>1, AnswerDecoded
    <3> HIDE DEF g
    <3>3. \A v \in Worker : got'[v] = IF v = w THEN g ELSE got[v]
      BY <1>0, <3>1 DEF g
    <3>4. WholeAnswers'
      BY <1>0, <3>2, <3>3 DEF WholeAnswers, Written
    <3>5. QED
      BY <2>4, <3>4
  <2>7. QED
    BY <1>2, <2>5, <2>6 DEF Continue, Collect
<1>3. ASSUME NEW w \in Worker, GiveUp(w) \/ (\E r \in Requests[w] : Call(w, r))
      PROVE  AnswersOK' /\ WholeAnswers'
  <2>1. /\ UNCHANGED <<tasm, txq, out>>
        /\ got' = got \/ got' = [got EXCEPT ![w] = NoAnswer]
    BY <1>3 DEF GiveUp, Call, DeviceIdle
  <2>2. \A v \in Worker : got'[v] = got[v] \/ got'[v].kind = "lost"
    BY <1>0, <2>1 DEF NoAnswer
  <2>3. QED
    BY <1>0, <2>1, <2>2 DEF AnswersOK, WholeAnswers, Written
<1>4. ASSUME Starts \/ UNCHANGED svars
      PROVE  AnswersOK' /\ WholeAnswers'
  <2>1. UNCHANGED <<tasm, txq, out, got>>
    BY <1>4 DEF Starts, Start, svars, vars, testers
  <2>2. QED
    BY <1>0, <2>1 DEF AnswersOK, WholeAnswers, Written
<1>5. ~Lose
  BY <1>0 DEF Lose
<1>6. QED
  BY <1>0, <1>1, <1>2, <1>3, <1>4, <1>5 DEF SNext, Tests, AnswersInv

\* On a bus that loses no frame, with no faults injected, no tester ever takes
\* a value for an answer that was never written, whenever it gives up and
\* calls again: a response cut short by the next is dropped by its assembler,
\* never completed by it (device.py:300-358, isotp.py:212-239).
THEOREM AnswersAreWhole ==
  ASSUME MaxDrop = 0, ~HasErrors
  PROVE  SSpec => []WholeAnswers
<1>1. AnswersInv /\ [SNext]_svars => AnswersInv'
  BY AnswersStep
<1>2. SSpec => []AnswersInv
  BY <1>1, AnswersInit, PTL DEF SSpec
<1>3. AnswersInv => WholeAnswers
  BY DEF AnswersInv
<1>4. QED
  BY <1>2, <1>3, PTL
=============================================================================
