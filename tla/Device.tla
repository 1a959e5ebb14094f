------------------------------- MODULE Device ------------------------------
(***************************************************************************)
(* A simulated device on the CAN bus (simulator/device.py): the UDS worker *)
(* and the Service 77 worker, two asyncio tasks that run the same loop     *)
(* over a queue and an assembler of their own and share the data store,    *)
(* the fault injector and the transmit queue of the bus.                   *)
(*                                                                         *)
(* An action is what a task does between two points where it can lose the  *)
(* event loop: queue.get() on an empty queue, asyncio.sleep() and          *)
(* wait_for().  CANBus.send() never suspends, its queue being unbounded,   *)
(* so with no delay all the consecutive frames of a response go out in one *)
(* step.  A worker that finds its queue filled goes on without a pause in  *)
(* the code and frame by frame here, which only adds interleavings.        *)
(*                                                                         *)
(* The environment of this module may deliver any of RxFrame[w] to worker  *)
(* w at any time.  Session.tla puts a tester in its place.                 *)
(***************************************************************************)
EXTENDS Faults

CONSTANTS
  HasDelay,   \* the device's delay_ms is positive
  InitStore,  \* the data store as loaded from the values file
  RxFrame,    \* for each worker, the frames the bus may deliver to it
  Swallows,   \* asyncio.wait_for() may swallow a cancellation (Python 3.10, 3.11)
  MaxQueue,   \* bound: frames delivered to a worker and not yet taken
  MaxTx       \* bound: nothing is delivered while more frames wait for the bus

Worker == {"UDS", "S77"}

ASSUME DeviceAssumption ==
  /\ HasDelay \in BOOLEAN /\ Swallows \in BOOLEAN
  /\ InitStore \in Store
  /\ RxFrame \in [Worker -> SUBSET Frame(Byte)]
  /\ MaxQueue \in Nat /\ MaxTx \in Nat

\* What the CAN driver hands over for frames of the full eight bytes, the
\* length of a first frame being twelve bits wide.
FullFrame ==
  {f \in Frame(Byte) : /\ f.t \notin {"FFcut", "empty"}
                       /\ f.t = "FF" => f.n <= MaxLen}

VARIABLES
  store,  \* DatapointStore._data
  queue,  \* _uds_queue and _s77_queue
  asm,    \* _uds_assembler and _s77_assembler
  pc,     \* where each worker task is suspended
  out,    \* frames of its response a worker has yet to send
  txq,    \* CANBus._tx_queue, each frame with the worker that sent it
  life    \* how far start() and stop() have got

vars == <<store, queue, asm, pc, out, txq, life>>

(* "get"    in _run, at queue.get()                                        *)
(* "single" asleep after a single frame                                    *)
(* "first"  asleep after a first frame                                     *)
(* "fc"     in the waiter for flow control                                 *)
(* "cf"     asleep between consecutive frames                              *)
(* "dead"   ended by an exception, "cancelled" ended by stop()             *)
PC == {"new", "get", "single", "first", "fc", "cf", "dead", "cancelled"}

Ended == {"dead", "cancelled"}

\* "hangUDS": stop() awaits a UDS worker that goes on as if never cancelled.
Life == {"new", "up", "stopUDS", "hangUDS", "stopS77", "hangS77", "stopped", "raised"}

Sent == [w : Worker, f : Frame(Byte)]

TypeOK ==
  /\ store \in Store
  /\ queue \in [Worker -> Seq(Frame(Byte))]
  /\ asm \in [Worker -> Assembler(Byte)]
  /\ pc \in [Worker -> PC]
  /\ out \in [Worker -> Seq(Frame(Byte))]
  /\ txq \in Seq(Sent)
  /\ life \in Life

Init ==
  /\ store = InitStore
  /\ queue = [w \in Worker |-> <<>>]
  /\ asm = [w \in Worker |-> Reset]
  /\ pc = [w \in Worker |-> "new"]
  /\ out = [w \in Worker |-> <<>>]
  /\ txq = <<>>
  /\ life = "new"

-----------------------------------------------------------------------------
(* start(), stop() and the bus on either side *)

Start ==
  /\ life = "new"
  /\ life' = "up"
  /\ pc' = [w \in Worker |-> "get"]
  /\ UNCHANGED <<store, queue, asm, out, txq>>

Stop ==
  /\ life = "up"
  /\ life' = "stopUDS"
  /\ UNCHANGED <<store, queue, asm, pc, out, txq>>

StopAt(w) == IF w = "UDS" THEN "stopUDS" ELSE "stopS77"

HangAt(w) == IF w = "UDS" THEN "hangUDS" ELSE "hangS77"

\* The frame that worker w waits for is there, but w has not run since: up to
\* Python 3.11 wait_for() then returns it, and the CancelledError is dropped.
Swallowed(w) == Swallows /\ pc[w] = "fc" /\ queue[w] # <<>>

\* Mutant of Cancel: the task is not cancelled.
Forgets(w, stage, next) ==
  /\ life = stage /\ pc[w] # "dead"
  /\ life' = next
  /\ UNCHANGED <<store, queue, asm, pc, out, txq>>

\* task.cancel(); await task, for a task that is still alive: it gets its
\* CancelledError before it runs again.
Cancel(w, stage, next) ==
  /\ life = stage /\ pc[w] # "dead" /\ ~Swallowed(w)
  /\ life' = next
  /\ pc' = [pc EXCEPT ![w] = "cancelled"]
  /\ out' = [out EXCEPT ![w] = <<>>]
  /\ UNCHANGED <<store, queue, asm, txq>>

\* The same, but the cancellation is swallowed: the worker goes on with the
\* frame it has got, and stop() awaits it without cancelling it again.
CancelLost(w) ==
  /\ life = StopAt(w) /\ Swallowed(w)
  /\ life' = HangAt(w)
  /\ UNCHANGED <<store, queue, asm, pc, out, txq>>

\* await task raises again what ended the task, and stop() with it.
CancelRaises(w) ==
  /\ life \in {StopAt(w), HangAt(w)} /\ pc[w] = "dead"
  /\ life' = "raised"
  /\ UNCHANGED <<store, queue, asm, pc, out, txq>>

Stopping ==
  \/ Cancel("UDS", "stopUDS", "stopS77")
  \/ Cancel("S77", "stopS77", "stopped")
  \/ \E w \in Worker : CancelLost(w) \/ CancelRaises(w)

\* The RX callback of worker w.
Deliver(w, f) == queue' = [queue EXCEPT ![w] = Append(@, f)]

Receive(w, f) ==
  /\ Len(queue[w]) < MaxQueue /\ Len(txq) <= MaxTx
  /\ Deliver(w, f)
  /\ UNCHANGED <<store, asm, pc, out, txq, life>>

\* The bus takes a frame from the transmit queue.
Transmit ==
  /\ txq # <<>>
  /\ txq' = Tail(txq)
  /\ UNCHANGED <<store, queue, asm, pc, out, life>>

-----------------------------------------------------------------------------
(* The worker *)

Goto(w, l) == pc' = [pc EXCEPT ![w] = l]

Send(w, f) == txq' = Append(txq, [w |-> w, f |-> f])

SendAll(w, fs) == txq' = txq \o [i \in DOMAIN fs |-> [w |-> w, f |-> fs[i]]]

Die(w) ==
  /\ Goto(w, "dead")
  /\ out' = [out EXCEPT ![w] = <<>>]

Reply(w, p) == IF w = "UDS" THEN UdsReply(p, store) ELSE S77Reply(p)

Stored(w, p) == IF w = "UDS" THEN UdsStore(p, store) ELSE S77Store(p, store)

Taken(w) == Head(queue[w])

Got(w) == PayloadOf(asm[w], Taken(w))

\* Worker w takes the next frame from its queue.
TakeNext(w) ==
  /\ queue[w] # <<>>
  /\ queue' = [queue EXCEPT ![w] = Tail(@)]
  /\ UNCHANGED life

Feed(w) ==
  /\ pc[w] = "get"
  /\ TakeNext(w)
  /\ ~FeedRaises(Taken(w))
  /\ asm' = [asm EXCEPT ![w] = Fed(asm[w], Taken(w))]

FeedFails(w) ==
  /\ pc[w] = "get"
  /\ TakeNext(w)
  /\ FeedRaises(Taken(w))
  /\ Die(w)
  /\ UNCHANGED <<store, asm, txq>>

\* The frame completes no request; a first frame is answered by flow control.
FeedOnly(w) ==
  /\ Feed(w)
  /\ ~Completes(asm[w], Taken(w))
  /\ IF IsFirst(Taken(w)) THEN Send(w, FlowControl) ELSE UNCHANGED txq
  /\ UNCHANGED <<store, pc, out>>

\* The handler returns None.
HandleSilently(w) ==
  /\ Feed(w)
  /\ Completes(asm[w], Taken(w))
  /\ Reply(w, Got(w)) = <<>>
  /\ store' = Stored(w, Got(w))
  /\ UNCHANGED <<pc, out, txq>>

\* The handler's reply is too long for segment().
HandleFails(w) ==
  /\ Feed(w)
  /\ Completes(asm[w], Taken(w))
  /\ ~Segmentable(Reply(w, Got(w)))
  /\ store' = Stored(w, Got(w))
  /\ Die(w)
  /\ UNCHANGED txq

\* send_frames() up to its first suspension, for the frames fs.
Respond(w, fs) ==
  /\ Send(w, fs[1])
  /\ out' = [out EXCEPT ![w] = Tail(fs)]
  /\ Goto(w, IF Len(fs) = 1 THEN IF HasDelay THEN "single" ELSE "get"
                            ELSE IF HasDelay THEN "first" ELSE "fc")

Handle(w) ==
  /\ Feed(w)
  /\ Completes(asm[w], Taken(w))
  /\ Reply(w, Got(w)) # <<>>
  /\ Segmentable(Reply(w, Got(w)))
  /\ store' = Stored(w, Got(w))
  /\ \E fs \in Injected(Segment(Reply(w, Got(w)))) : Respond(w, fs)

\* The sleep after a single frame or a first frame ends.
Wake(w) ==
  /\ pc[w] \in {"single", "first"}
  /\ Goto(w, IF pc[w] = "single" THEN "get" ELSE "fc")
  /\ UNCHANGED <<store, queue, asm, out, txq, life>>

\* The waiter takes flow control; with no delay the rest goes out at once.
TakeFC(w) ==
  /\ pc[w] = "fc"
  /\ TakeNext(w)
  /\ Taken(w).t = "FC"
  /\ IF HasDelay
     THEN /\ Send(w, Head(out[w]))
          /\ out' = [out EXCEPT ![w] = Tail(@)]
          /\ Goto(w, "cf")
     ELSE /\ SendAll(w, out[w])
          /\ out' = [out EXCEPT ![w] = <<>>]
          /\ Goto(w, "get")
  /\ UNCHANGED <<store, asm>>

\* The waiter takes any other frame, drops it and gives the response up.
TakeOther(w) ==
  /\ pc[w] = "fc"
  /\ TakeNext(w)
  /\ Taken(w).t \notin {"FC", "empty"}
  /\ out' = [out EXCEPT ![w] = <<>>]
  /\ Goto(w, "get")
  /\ UNCHANGED <<store, asm, txq>>

\* The waiter indexes data[0] of a frame that has none.
TakeFails(w) ==
  /\ pc[w] = "fc"
  /\ TakeNext(w)
  /\ Taken(w).t = "empty"
  /\ Die(w)
  /\ UNCHANGED <<store, asm, txq>>

\* Mutant of TimeoutFC: the wait for flow control has no timeout.
WaitsForever(w) == pc[w] = "fc" /\ out[w] = <<>> /\ UNCHANGED vars

TimeoutFC(w) ==
  /\ pc[w] = "fc"
  /\ out' = [out EXCEPT ![w] = <<>>]
  /\ Goto(w, "get")
  /\ UNCHANGED <<store, queue, asm, txq, life>>

\* Mutant of NextCF: having sent the last frame the worker goes on waiting.
NeverDone(w) ==
  /\ pc[w] = "cf" /\ out[w] # <<>>
  /\ Send(w, Head(out[w]))
  /\ out' = [out EXCEPT ![w] = Tail(@)]
  /\ UNCHANGED <<store, queue, asm, pc, life>>

\* The sleep after a consecutive frame ends.
NextCF(w) ==
  /\ pc[w] = "cf"
  /\ IF out[w] = <<>>
     THEN Goto(w, "get") /\ UNCHANGED <<out, txq>>
     ELSE /\ Send(w, Head(out[w]))
          /\ out' = [out EXCEPT ![w] = Tail(@)]
          /\ UNCHANGED pc
  /\ UNCHANGED <<store, queue, asm, life>>

\* A step in which worker w runs, other than the timeout.
Work(w) ==
  \/ FeedOnly(w) \/ FeedFails(w)
  \/ Handle(w) \/ HandleSilently(w) \/ HandleFails(w)
  \/ Wake(w) \/ TakeFC(w) \/ TakeOther(w) \/ TakeFails(w) \/ NextCF(w)

Next ==
  \/ Start \/ Stop \/ Stopping \/ Transmit
  \/ \E w \in Worker : Work(w) \/ TimeoutFC(w)
  \/ \E w \in Worker : \E f \in RxFrame[w] : Receive(w, f)

\* The event loop runs every task that can run, timers fire, and the bus
\* drains its queue.  Nothing obliges anyone to send requests or to stop.
Fairness ==
  /\ WF_vars(Start) /\ WF_vars(Stopping) /\ WF_vars(Transmit)
  /\ \A w \in Worker : WF_vars(Work(w) \/ TimeoutFC(w))

Spec == Init /\ [][Next]_vars

FairSpec == Spec /\ Fairness

-----------------------------------------------------------------------------
(* What the device promises *)

\* No exception ends a worker, whatever sequence of whole frames arrives: in
\* particular no reply ever outgrows what segment() accepts (isotp.py:106),
\* however the values were written.
NoWorkerDies == \A w \in Worker : pc[w] # "dead"

\* Why NoWorkerDies holds: an assembly in progress is short of a length that
\* a first frame can announce, and every stored value leaves room for the
\* header of a read reply within MaxLen.
LengthsOK ==
  /\ \A d \in Known : Len(store[d]) <= MaxLen - 2
  /\ \A w \in Worker : asm[w].want <= MaxLen
  /\ \A w \in Worker : asm[w].on => Len(asm[w].buf) < asm[w].want

\* A step that takes nothing from the Service 77 queue leaves every protected
\* data point alone: UDS writes reach none of them (uds.py:146), even while
\* the Service 77 worker is in the middle of a response.
ProtectedFromUds ==
  [][queue'["S77"] = queue["S77"] =>
       \A d \in Protected \cap Known : store'[d] = store[d]]_vars

\* stop() is documented to cancel all worker tasks (device.py:155): once it
\* has returned or raised, no worker is left running, whatever each was doing.
\* (It need not get so far: in "hangUDS" it awaits a worker that goes on.)
StopCancelsAll ==
  life \in {"stopped", "raised"} => \A w \in Worker : pc[w] \in Ended

\* A worker that lives gets round to every frame in its queue: no response
\* in progress, missing flow control or failure of the other worker keeps it
\* from its loop for ever (with MaxQueue = 1, so that the queue empties).
Serves ==
  \A w \in Worker :
    (queue[w] # <<>>) ~> (queue[w] = <<>> \/ pc[w] \in Ended)
=============================================================================
