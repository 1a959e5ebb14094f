------------------------------ MODULE Cyclic -------------------------------
(***************************************************************************)
(* The cyclic messages of a device (simulator/cyclic.py), an energy meter  *)
(* beside it (simulator/energy_meter.py), and a listener on the bus.       *)
(*                                                                         *)
(* Every message has a task that sleeps, encodes its value and hands all   *)
(* frames to CANBus.send().  send() puts them into an unbounded queue and  *)
(* so never suspends: from the end of the sleep to the start of the next   *)
(* one is one action.  What becomes of the queue is CanBus.tla; what is    *)
(* needed here is what it was proved to promise there, LossyFifo.tla.      *)
(***************************************************************************)
EXTENDS Collect

CONSTANTS
  Message,    \* the cyclic messages of the device, as configured
  DidOf,      \* the data identifier of each
  Encoder,    \* of each: "store", "fixed" or "localtime"
  Fixed,      \* the value of those with a fixed one
  Known,      \* data points in the store
  Loaded,     \* values that may have been loaded
  Written,    \* values that clients write
  Times,      \* what the clock may show
  MeterFrame, \* what the energy meter sends, on an identifier of its own
  MaxChanges, \* bound: times a value is written or the clock moves on
  Room,       \* bound: no task wakes with more frames than this in the queue
  MaxDrop     \* bound: frames lost

\* Data identifiers have two bytes.
Identifier == {d \in Nat : d < 65536}

ASSUME CyclicAssumption ==
  /\ DidOf \in [Message -> Identifier]
  /\ Encoder \in [Message -> {"store", "fixed", "localtime"}]
  /\ Known \subseteq Identifier
  /\ Loaded \cup Written \subseteq Seq(0 .. 255)
  /\ Fixed \in [Message -> Seq(0 .. 255)]
  /\ Times \subseteq [1 .. 3 -> 0 .. 59]
  /\ MeterFrame \in Frame
  /\ MaxChanges \in Nat /\ Room \in Nat /\ MaxDrop \in Nat

VARIABLES
  life,   \* "new", "running", "stopping" or "stopped"
  tasks,  \* the messages whose tasks have not ended; "meter" for the meter
  store,  \* the device's store
  now,    \* the local time
  queue,  \* frames on their way, each with the identifier it is sent on
  lst,    \* the listener
  heard,  \* the last message it has heard
  changes, \* how often a value has changed
  drops,  \* frames lost
  air     \* history: messages on their way, with the frames left in queue

vars == <<life, tasks, store, now, queue, lst, heard, changes, drops, air>>

Task == Message \cup {"meter"}

Init ==
  /\ life = "new"
  /\ tasks = {}
  /\ store \in [Known -> Loaded]
  /\ now \in Times
  /\ queue = <<>>
  /\ lst = NotListening
  /\ heard = <<>>
  /\ changes = 0
  /\ drops = 0
  /\ air = <<>>

-----------------------------------------------------------------------------
(* Tasks *)

\* start(): a task for every message, and that of the meter.
Start ==
  /\ life = "new"
  /\ life' = "running"
  /\ tasks' = Task
  /\ UNCHANGED <<store, now, queue, lst, heard, changes, drops, air>>

\* encode(): the value a message would be sent with, <<>> for None as well.
Encoded(m) ==
  CASE Encoder[m] = "fixed" -> Fixed[m]
    [] Encoder[m] = "localtime" -> now
    [] OTHER -> IF DidOf[m] \in Known THEN store[DidOf[m]] ELSE <<>>

\* A task can wake: it has not been cancelled.
Wakes(t) == life = "running" /\ t \in tasks /\ Len(queue) <= Room

\* The frames of every message that can be sent.
Frames ==
  [d \in {DidOf[m] : m \in Message} |->
     [p \in {v \in Loaded \cup Written \cup Times \cup {Fixed[m] : m \in Message} :
               Sendable(v)} |-> SegmentCollect(d, p)]]

\* _send(): a value that cannot be segmented is skipped, the task goes on.
Send(m) ==
  /\ Wakes(m)
  /\ Sendable(Encoded(m))
  /\ LET frames == Frames[DidOf[m]][Encoded(m)]
     IN /\ queue' = queue \o [k \in DOMAIN frames |->
                                [id |-> "cyclic", b |-> frames[k]]]
        /\ air' = Append(air, [did |-> DidOf[m], value |-> Encoded(m),
                               left |-> Len(frames)])
  /\ UNCHANGED <<life, tasks, store, now, lst, heard, changes, drops>>

\* Mutant of Skip: the exception of segment_collect() ends the task.
Dies(m) ==
  /\ Wakes(m)
  /\ ~Sendable(Encoded(m))
  /\ tasks' = tasks \ {m}
  /\ UNCHANGED <<life, store, now, queue, lst, heard, changes, drops, air>>

Skip(m) ==
  /\ Wakes(m)
  /\ ~Sendable(Encoded(m))
  /\ UNCHANGED vars

MeterSend ==
  /\ Wakes("meter")
  /\ queue' = Append(queue, [id |-> "meter", b |-> MeterFrame])
  /\ UNCHANGED <<life, tasks, store, now, lst, heard, changes, drops, air>>

\* stop() cancels every task; a cancelled task does not get past the sleep it
\* is in.  (main.py stops the meter first, and starts it last.)
Stop ==
  /\ life = "running"
  /\ life' = "stopping"
  /\ UNCHANGED <<tasks, store, now, queue, lst, heard, changes, drops, air>>

\* gather() returns once all have ended, whatever ended them.
StopReturns ==
  /\ life = "stopping"
  /\ life' = "stopped"
  /\ tasks' = {}
  /\ UNCHANGED <<store, now, queue, lst, heard, changes, drops, air>>

-----------------------------------------------------------------------------
(* The rest of the device, the bus and the listener *)

\* A client writes a data point.
Write ==
  /\ changes < MaxChanges
  /\ changes' = changes + 1
  /\ \E d \in Known, v \in Written : store' = [store EXCEPT ![d] = v]
  /\ UNCHANGED <<life, tasks, now, queue, lst, heard, drops, air>>

ClockTicks ==
  /\ changes < MaxChanges
  /\ changes' = changes + 1
  /\ now' \in Times \ {now}
  /\ UNCHANGED <<life, tasks, store, queue, lst, heard, drops, air>>

\* The first frame of the queue has left it.
Gone ==
  /\ queue' = Tail(queue)
  /\ air' = IF Head(queue).id = "meter" THEN air
            ELSE IF Head(air).left = 1 THEN Tail(air)
            ELSE [air EXCEPT ![1].left = @ - 1]

\* The bus takes a frame, and the listener hears it if it is on the
\* identifier it listens to.
Pass ==
  /\ queue # <<>>
  /\ Gone
  /\ IF Head(queue).id = "meter" THEN UNCHANGED <<lst, heard>>
     ELSE LET l == Heeded(lst, Head(queue).b)
          IN /\ lst' = IF Complete(l) THEN NotListening ELSE l
             /\ heard' = IF Complete(l) THEN MessageOf(l) ELSE heard
  /\ UNCHANGED <<life, tasks, store, now, changes, drops>>

\* The bus drops a frame (simulator/bus.py:191).  Assumed not to happen to a
\* message that repeats the first sequence byte: neither a gap of sixteen
\* frames nor a first frame in its middle can be told by any listener.
Drop ==
  /\ queue # <<>> /\ drops < MaxDrop
  /\ Head(queue).id = "cyclic" => ~Repeats(Frames[Head(air).did][Head(air).value])
  /\ drops' = drops + 1
  /\ Gone
  /\ UNCHANGED <<life, tasks, store, now, lst, heard, changes>>

Next ==
  \/ Start \/ Stop \/ StopReturns
  \/ MeterSend \/ Write \/ ClockTicks \/ Pass \/ Drop
  \/ \E m \in Message : Send(m) \/ Skip(m)

Spec == Init /\ [][Next]_vars

\* Every sleep ends, however full the queue: Room bounds the model, not the
\* code, hence strong fairness.  The bus gets every frame off the queue.
Fairness ==
  /\ WF_vars(Start) /\ WF_vars(Pass)
  /\ \A m \in Message : SF_vars(Send(m) \/ Skip(m))

FairSpec == Spec /\ Fairness

-----------------------------------------------------------------------------
(* Properties *)

\* Types; sequence bytes stay in the range of the protocol, from which a
\* listener tells frames of collect messages (collect.py:86-91).
TypeOK ==
  /\ life \in {"new", "running", "stopping", "stopped"}
  /\ tasks \subseteq Task
  /\ DOMAIN store = Known /\ now \in Times
  /\ \A i \in DOMAIN queue :
       /\ queue[i].id \in {"cyclic", "meter"} /\ queue[i].b \in Frame
       /\ queue[i].id = "cyclic" => queue[i].b[1] \in SeqMin .. SeqMax
  /\ \A i \in DOMAIN air :
       Sendable(air[i].value) /\ air[i].left \in 1 .. 37
  /\ lst.len \in 0 .. 255 /\ lst.want \in {0} \cup SeqMin .. SeqMax
  /\ changes \in 0 .. MaxChanges /\ drops \in 0 .. MaxDrop

\* The messages of a device implement Broadcast: whatever is written while
\* frames are under way, whatever other tasks send in between and whatever is
\* lost, a listener hears values of one instant, whole and in order, or
\* nothing.  This is about cyclic.py:162-163, whose frames must not be
\* interleaved with those of another message on the same identifier, and about
\* the length codes and sequence bytes of collect.py.
Spoken == INSTANCE Broadcast WITH
  current <- [m \in Message |-> Encoded(m)],
  air <- [i \in DOMAIN air |-> <<air[i].did, air[i].value>>]

IsBroadcast == Spoken!BSpec

\* As long as the device runs, every message is again and again up to date
\* with the listener, unless its value cannot be sent just then; in
\* particular a value that could not be sent, or a lost frame, silences
\* nothing for good (cyclic.py:145-160).
UpToDate ==
  \A m \in Message :
    []<>(\/ heard = <<DidOf[m], Encoded(m)>>
         \/ ~Sendable(Encoded(m))
         \/ life # "running")
=============================================================================
