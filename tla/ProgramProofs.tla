--------------------------- MODULE ProgramProofs ---------------------------
(***************************************************************************)
(* Proofs about Program, for every devices file: type correctness, that    *)
(* both transports reach the same device under an identifier, the order of *)
(* the shutdown, and what the end of the program leaves.                   *)
(***************************************************************************)
EXTENDS Program, SequenceTheorems, TLAPS

-----------------------------------------------------------------------------
(* Loading *)

\* Every step of the program up to Start leaves the list of devices as it is,
\* or adds the next entry of the file to it.
LEMMA StepDevices ==
  ASSUME [Next]_pvars
  PROVE  LoadDevice \/ UNCHANGED <<file, devices, table>>
BY DEF Next, LoadFails, InterruptEarly, Start, StartFails, Signal, Shutdown, Interrupted,
       Stop, Resume, Raises, Return, CancelAll, Exit, Dies, Ends, Swallow, pvars

LEMMA WithinType ==
  ASSUME NEW x \in Int
  PROVE  Within(x, DelayMax) \in 0 .. DelayMax
BY ProgramAssumption DEF Within

\* Where things stand with the devices: all of them are typed, as many are
\* loaded as there are entries at most, and the callbacks are theirs.
DevicesOK ==
  /\ file \in Files
  /\ devices \in Seq(Device) /\ Len(devices) <= Len(file.devices)
  /\ \A r \in table : r[2] \in DOMAIN devices /\ r[3] \in {"UDS", "S77"}

\* The entry that LoadDevice reads, and what it appends.
LEMMA LoadedType ==
  ASSUME DevicesOK, LoadDevice
  PROVE  LET d == Len(devices) + 1
             e == file.devices[d]
             v == [tx |-> e.tx, delay |-> DelayOf(e), cyclic |-> e.cyclic = "good"]
         IN  /\ e.tx \in Nat /\ v \in Device
             /\ devices' = Append(devices, v)
             /\ devices' \in Seq(Device) /\ Len(devices') = d
             /\ devices'[d] = v
             /\ \A k \in 1 .. Len(devices) : devices'[k] = devices[k]
             /\ DOMAIN devices = 1 .. Len(devices) /\ DOMAIN devices' = 1 .. d
             /\ d \in Nat \ {0} /\ d <= Len(file.devices)
<1> DEFINE d == Len(devices) + 1
           e == file.devices[d]
           v == [tx |-> e.tx, delay |-> DelayOf(e), cyclic |-> e.cyclic = "good"]
<1>1. devices \in Seq(Device) /\ Len(devices) \in Nat /\ DOMAIN devices = 1 .. Len(devices)
  BY LenProperties DEF DevicesOK
<1>2. /\ file.devices \in Seq(Entry) /\ Len(file.devices) \in Nat
      /\ Len(devices) < Len(file.devices)
  BY ProgramAssumption, LenProperties DEF DevicesOK, LoadDevice
<1>3. d \in 1 .. Len(file.devices)
  BY <1>1, <1>2
<1>4. e \in Entry
  BY <1>2, <1>3, ElementOfSeq
<1>5. DelayOf(e) \in 0 .. DelayMax
  <2>1. (IF e.delay = Unset THEN CliDelay ELSE e.delay) \in Int
    BY <1>4, ProgramAssumption DEF Entry
  <2>2. QED
    BY <2>1, WithinType DEF DelayOf
<1>6. e.tx \in Nat /\ v \in Device
  BY <1>4, <1>5 DEF Entry, Device
<1>7. devices' = Append(devices, v)
  BY DEF LoadDevice
<1> HIDE DEF v, e
<1>8. /\ devices' \in Seq(Device) /\ Len(devices') = d /\ devices'[d] = v
      /\ \A k \in 1 .. Len(devices) : devices'[k] = devices[k]
  BY <1>1, <1>6, <1>7, AppendProperties
<1>9. DOMAIN devices' = 1 .. d
  BY <1>8, LenProperties
<1>10. QED
  BY <1>1, <1>3, <1>6, <1>7, <1>8, <1>9 DEF v, e

LEMMA LoadedTable ==
  ASSUME LoadDevice
  PROVE  LET d == Len(devices) + 1
             i == file.devices[d].tx
         IN  table' = Registered(Registered(table, i, d, "UDS"), i + S77Offset, d, "S77")
BY DEF LoadDevice

LEMMA DevicesStep ==
  ASSUME DevicesOK, [Next]_pvars
  PROVE  DevicesOK'
<1>1. CASE LoadDevice
  <2> DEFINE d == Len(devices) + 1
             i == file.devices[d].tx
  <2>1. file' = file /\ file \in Files
    BY <1>1 DEF LoadDevice, DevicesOK
  <2>2. /\ devices' \in Seq(Device) /\ Len(devices') <= Len(file.devices)
        /\ DOMAIN devices \subseteq DOMAIN devices' /\ d \in DOMAIN devices'
    BY <1>1, LoadedType
  <2>3. \A r \in table' : r \in table \/ r = <<i, d, "UDS">> \/ r = <<i + S77Offset, d, "S77">>
    BY <1>1, LoadedTable DEF Registered
  <2>4. \A r \in table' : r[2] \in DOMAIN devices' /\ r[3] \in {"UDS", "S77"}
    BY <2>2, <2>3 DEF DevicesOK
  <2>5. QED
    BY <2>1, <2>2, <2>4 DEF DevicesOK
<1>2. CASE UNCHANGED <<file, devices, table>>
  BY <1>2 DEF DevicesOK
<1>3. QED
  BY <1>1, <1>2, StepDevices

\* What registering does to the entry of an identifier.
LEMMA RegisteredKeeps ==
  ASSUME NEW tab, NEW i, NEW d, NEW w, NEW r \in tab, r[1] # i
  PROVE  r \in Registered(tab, i, d, w)
BY DEF Registered

\* One step keeps what CAN mode and DoIP mode agree on: a device that the new
\* entry does not replace keeps its callback, or loses it to the Service 77
\* identifier of the new one.
LEMMA SameStep ==
  ASSUME DevicesOK, SameDeviceEitherWay, [Next]_pvars
  PROVE  SameDeviceEitherWay'
<1>1. CASE LoadDevice
  <2> DEFINE n == Len(devices) + 1
             i == file.devices[n].tx
             j == i + S77Offset
             mid == Registered(table, i, n, "UDS")
  <2>1. /\ i \in Nat /\ i # j /\ n \in Nat \ {0}
        /\ DOMAIN devices = 1 .. n - 1 /\ DOMAIN devices' = 1 .. n
        /\ devices'[n].tx = i /\ \A k \in 1 .. n - 1 : devices'[k] = devices[k]
    BY <1>1, LoadedType, ProgramAssumption
  <2>2. table' = Registered(mid, j, n, "S77")
    BY <1>1, LoadedTable
  <2>3. <<i, n, "UDS">> \in mid /\ <<j, n, "S77">> \in table'
    BY <2>2 DEF Registered
  <2> HIDE DEF i, j, mid, n
  <2>4. SUFFICES ASSUME NEW d \in DOMAIN devices',
                        \A l \in DOMAIN devices' : l > d => devices'[l].tx # devices'[d].tx
                 PROVE  \E r \in table' :
                          /\ r[1] = devices'[d].tx
                          /\ \/ r[2] = d /\ r[3] = "UDS"
                             \/ r[2] > d /\ r[3] = "S77"
    BY DEF SameDeviceEitherWay
  <2>5. CASE d = n
    <3>1. <<i, n, "UDS">> \in table'
      BY <2>1, <2>2, <2>3, RegisteredKeeps
    <3>2. QED
      BY <2>1, <2>5, <3>1
  <2>6. CASE d # n
    <3>1. d \in 1 .. n - 1 /\ n > d /\ devices'[d] = devices[d] /\ devices[d].tx # i
      BY <2>1, <2>4, <2>6
    <3>2. \A l \in DOMAIN devices : l > d => devices[l].tx # devices[d].tx
      BY <2>1, <2>4, <3>1
    <3>3. PICK r \in table : /\ r[1] = devices[d].tx
                             /\ \/ r[2] = d /\ r[3] = "UDS"
                                \/ r[2] > d /\ r[3] = "S77"
      BY <2>1, <3>1, <3>2 DEF SameDeviceEitherWay
    <3>4. CASE devices[d].tx = j
      BY <2>3, <3>1, <3>4
    <3>5. CASE devices[d].tx # j
      <4>1. r \in mid
        BY <3>1, <3>3, RegisteredKeeps DEF mid
      <4>2. r \in table'
        BY <2>2, <3>3, <3>5, <4>1, RegisteredKeeps
      <4>3. QED
        BY <3>1, <3>3, <4>2
    <3>6. QED
      BY <3>4, <3>5
  <2>7. QED
    BY <2>5, <2>6
<1>2. CASE UNCHANGED <<file, devices, table>>
  BY <1>2 DEF SameDeviceEitherWay
<1>3. QED
  BY <1>1, <1>2, StepDevices

-----------------------------------------------------------------------------
(* The tasks *)

\* Why a task may be left alone at the end, and the interface open.
Excused == early \/ \E t \in DOMAIN task : task[t] = "dead"

\* A task in one of these states has been told to stop.
Asked == {"cancelled", "deaf", "ended"}

\* With TypeOK's part about the tasks, what each place of the main coroutine
\* says about them: none before Start; in the shutdown, those stopped already
\* have ended, a task is cancelled at its turn and not before, and the
\* interface is open as long as the TX task, the last, has still to be stopped.
TasksOK ==
  /\ main \in Main /\ bus \in {"none", "open", "shut"} /\ early \in BOOLEAN
  /\ \A t \in DOMAIN task : task[t] \in TaskState
  /\ left \subseteq DOMAIN task
  /\ main = "load" => DOMAIN task = {} /\ bus = "none"
  /\ main \in {"wait", "stop", "await", "returned"} => TX \in DOMAIN task
  /\ main = "wait" =>
       left = DOMAIN task /\ \A t \in left : task[t] \in {"alive", "dead"}
  /\ main \in {"stop", "await", "returned"} =>
       /\ \A t \in DOMAIN task \ left : task[t] = "ended"
       /\ \A t \in left : task[t] \in Asked => main = "await" /\ Foremost(t)
       /\ \A t, u \in left : task[t] \in Asked /\ task[u] \in Asked => t = u
       /\ TX \notin left => left = {} /\ bus # "open"
  /\ main = "returned" => left = {}
  /\ main \in {"raised", "ending", "over"} /\ bus = "open" => Excused
  /\ main \in {"ending", "over"} => \A t \in DOMAIN task : task[t] # "alive"
  /\ main = "over" => \A t \in DOMAIN task : task[t] \notin {"cancelled", "deaf"}

\* The TX task comes last.
LEMMA TXIsLast ==
  ASSUME NEW S, TX \in S, \A u \in S : ~Before(u, TX)
  PROVE  S = {TX}
<1>1. Stage(TX) = 2
  BY DEF Stage, TX
<1>2. \A u : u # TX => Stage(u) \in {0, 1}
  BY DEF Stage
<1>3. \A u \in S : u = TX
  BY <1>1, <1>2 DEF Before
<1>4. QED
  BY <1>3

LEMMA LifeStep ==
  ASSUME TasksOK,
         \/ LoadDevice \/ LoadFails \/ InterruptEarly \/ StartFails \/ Signal
         \/ Interrupted \/ Raises \/ Return \/ Exit \/ UNCHANGED pvars
  PROVE  TasksOK'
<1> USE DEF TasksOK, Main, TaskState, Asked, Foremost, Excused
<1>1. CASE LoadDevice \/ LoadFails \/ StartFails
  BY <1>1 DEF LoadDevice, LoadFails, StartFails
<1>2. CASE InterruptEarly
  BY <1>2 DEF InterruptEarly
<1>3. CASE Signal
  BY <1>3 DEF Signal
<1>4. CASE Interrupted
  BY <1>4 DEF Interrupted
<1>5. CASE Raises
  BY <1>5 DEF Raises
<1>6. CASE Return
  BY <1>6 DEF Return
<1>7. CASE Exit
  BY <1>7 DEF Exit
<1>8. CASE UNCHANGED pvars
  BY <1>8 DEF pvars
<1>9. QED
  BY <1>1, <1>2, <1>3, <1>4, <1>5, <1>6, <1>7, <1>8

LEMMA StartStep ==
  ASSUME TasksOK, Start
  PROVE  TasksOK'
<1>1. /\ main' = "wait" /\ bus' = "open" /\ early' = early
      /\ task' = [t \in Tasks |-> "alive"] /\ left' = Tasks
  BY DEF Start, Stopped
<1>2. TX \in Tasks
  BY DEF Tasks
<1>3. QED
  BY <1>1, <1>2 DEF TasksOK, Main, TaskState

\* A task dies, ends or swallows its cancellation.
LEMMA TaskStep ==
  ASSUME TasksOK, NEW t \in DOMAIN task, Dies(t) \/ Ends(t) \/ Swallow(t)
  PROVE  TasksOK'
<1>1. UNCHANGED <<main, bus, left, early>>
  BY DEF Dies, Ends, Swallow
<1>2. CASE Dies(t)
  <2>1. /\ DOMAIN task' = DOMAIN task
        /\ task[t] \in {"alive", "deaf"} /\ task'[t] = "dead"
        /\ \A u \in DOMAIN task : u # t => task'[u] = task[u]
    BY <1>2 DEF Dies
  <2>2. QED
    BY <1>1, <2>1 DEF TasksOK, Main, TaskState, Asked, Foremost, Excused
<1>3. CASE Ends(t) \/ Swallow(t)
  <2>1. /\ DOMAIN task' = DOMAIN task
        /\ task[t] = "cancelled" /\ task'[t] \in {"ended", "deaf"}
        /\ task'[t] = "deaf" => Swallow(t)
        /\ \A u \in DOMAIN task : u # t => task'[u] = task[u]
    BY <1>3 DEF Ends, Swallow
  <2>2. main \in {"stop", "await", "returned"} => t \in left
    BY <2>1 DEF TasksOK
  <2>3. QED
    BY <1>1, <2>1, <2>2 DEF TasksOK, Main, TaskState, Asked, Foremost, Excused
<1>4. QED
  BY <1>2, <1>3

LEMMA CancelStep ==
  ASSUME TasksOK, Stop \/ CancelAll
  PROVE  TasksOK'
<1>1. CASE Stop
  <2>1. PICK t \in left : Foremost(t) /\ task' = Cancelled({t})
    BY <1>1 DEF Stop
  <2>2. DOMAIN task' = DOMAIN task
        /\ \A u \in DOMAIN task :
             task'[u] = IF u = t /\ task[u] \in {"alive", "deaf"} THEN "cancelled" ELSE task[u]
    BY <2>1 DEF Cancelled
  <2>3. main = "stop" /\ main' = "await" /\ UNCHANGED <<bus, left, early>>
    BY <1>1 DEF Stop
  <2>4. QED
    BY <2>1, <2>2, <2>3 DEF TasksOK, Main, TaskState, Asked, Foremost, Excused
<1>2. CASE CancelAll
  <2>1. DOMAIN task' = DOMAIN task
        /\ \A u \in DOMAIN task :
             task'[u] = IF task[u] \in {"alive", "deaf"} THEN "cancelled" ELSE task[u]
    BY <1>2 DEF CancelAll, Cancelled
  <2>2. main \in {"returned", "raised"} /\ main' = "ending" /\ UNCHANGED <<bus, left, early>>
    BY <1>2 DEF CancelAll
  <2>3. bus = "open" => Excused
    BY <2>2 DEF TasksOK
  <2>4. QED
    BY <2>1, <2>2, <2>3 DEF TasksOK, Main, TaskState, Asked, Excused
<1>3. QED
  BY <1>1, <1>2

LEMMA ResumeStep ==
  ASSUME TasksOK, Resume
  PROVE  TasksOK'
<1>1. PICK t \in left : /\ Foremost(t) /\ task[t] = "ended"
                        /\ left' = left \ {t}
                        /\ bus' = IF t = TX THEN "shut" ELSE bus
  BY DEF Resume
<1>2. main = "await" /\ main' = "stop" /\ UNCHANGED <<task, early>>
  BY DEF Resume
<1>3. \A u \in left' : task[u] \notin Asked
  <2>1. ASSUME NEW u \in left, u # t, task[u] \in Asked
        PROVE  FALSE
    BY <1>1, <1>2, <2>1 DEF TasksOK, Asked, Foremost
  <2>2. QED
    BY <1>1, <2>1
<1>4. t = TX => left' = {}
  BY <1>1, TXIsLast DEF Foremost
<1>5. QED
  BY <1>1, <1>2, <1>3, <1>4 DEF TasksOK, Main, Asked, Excused

-----------------------------------------------------------------------------
(* The inductive invariant *)

IInv == DevicesOK /\ TasksOK /\ SameDeviceEitherWay

LEMMA InvInit == Init => IInv
<1> SUFFICES ASSUME Init PROVE IInv
  OBVIOUS
<1>1. DevicesOK
  <2>1. <<>> \in Seq(Device) /\ Len(<<>>) = 0 /\ Len(file.devices) \in Nat
    BY EmptySeq, LenProperties, ProgramAssumption DEF Init
  <2>2. QED
    BY <2>1 DEF Init, DevicesOK
<1>2. TasksOK
  <2>1. <<>> \in Seq({}) /\ Len(<<>>) = 0
    BY EmptySeq
  <2>2. DOMAIN task = {}
    BY <2>1, LenProperties DEF Init
  <2>3. QED
    BY <2>2 DEF Init, TasksOK, Main
<1>3. SameDeviceEitherWay
  BY DEF Init, SameDeviceEitherWay
<1>4. QED
  BY <1>1, <1>2, <1>3 DEF IInv

LEMMA InvStep == IInv /\ [Next]_pvars => IInv'
<1> SUFFICES ASSUME IInv, [Next]_pvars PROVE IInv'
  OBVIOUS
<1>1. DevicesOK' /\ SameDeviceEitherWay'
  BY DevicesStep, SameStep DEF IInv
<1>2. TasksOK'
  BY LifeStep, StartStep, TaskStep, CancelStep, ResumeStep DEF IInv, Next, Shutdown
<1>3. QED
  BY <1>1, <1>2 DEF IInv

LEMMA InvAlways == Spec => []IInv
BY InvInit, InvStep, PTL DEF Spec

\* The delay of every device is within its limits, its callbacks are of loaded
\* devices, and the shutdown stops no task but those started (faults.py:117).
THEOREM TypeCorrect == Spec => []TypeOK
<1>1. IInv => TypeOK
  BY DEF IInv, DevicesOK, TasksOK, TypeOK
<1>2. QED
  BY <1>1, InvAlways, PTL

\* For every devices file, identifiers used twice included, CAN mode and DoIP
\* mode reach the same device (bus.py:146, main.py:410).
THEOREM SameDevice == Spec => []SameDeviceEitherWay
<1>1. IInv => SameDeviceEitherWay
  BY DEF IInv
<1>2. QED
  BY <1>1, InvAlways, PTL

\* Whatever the devices and meters, and whatever tasks have died, none that
\* sends frames is alive once the TX task is told to stop (main.py:382-386).
THEOREM TXEndsLast == Spec => []ConsumerLast
<1>1. IInv => ConsumerLast
  <2> SUFFICES ASSUME TasksOK, main \in {"stop", "await", "returned"},
                      task[TX] \in {"cancelled", "ended"},
                      NEW t \in DOMAIN task \ {TX}
               PROVE  task[t] = "ended"
    BY DEF IInv, ConsumerLast
  <2>1. TX \in left => left = {TX}
    BY TXIsLast DEF TasksOK, Asked, Foremost
  <2>2. t \notin left
    BY <2>1 DEF TasksOK
  <2>3. QED
    BY <2>2 DEF TasksOK
<1>2. QED
  BY <1>1, InvAlways, PTL

\* At the end no task is left running, and the interface is open only if a task
\* had died or the interrupt came before the handlers (main.py:369-387).
THEOREM NothingIsLeft == Spec => []LeavesNothing
<1>1. IInv => LeavesNothing
  BY DEF IInv, TasksOK, TaskState, Excused, LeavesNothing
<1>2. QED
  BY <1>1, InvAlways, PTL
=============================================================================
