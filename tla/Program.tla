------------------------------- MODULE Program ------------------------------
(***************************************************************************)
(* main.py in CAN mode: load_devices() and load_energy_meters(), the start *)
(* of everything, the wait for a signal and the shutdown in its order,     *)
(* with asyncio.run() around them.  (DoIP.tla has the other mode.)         *)
(*                                                                         *)
(* Up to the wait for a signal nothing suspends, so no task runs before    *)
(* all are started.  From then on each task may end by itself while main   *)
(* waits, and the shutdown meets tasks that are alive, dead, or still busy *)
(* being cancelled, and workers that have swallowed their cancellation.    *)
(* What the tasks do is in Device, Cyclic and CanBus.                      *)
(***************************************************************************)
EXTENDS Integers, Sequences

CONSTANTS
  Files,      \* devices files: the entries of devices, the meters, and whether
              \* those can be read
  S77Offset,  \* S77_REQUEST_ID_OFFSET
  CliDelay,   \* --delay
  DelayMax,   \* DELAY_MAX_MS
  Swallows,   \* asyncio.wait_for() may swallow a cancellation (Python 3.10, 3.11)
  Unset       \* an option that an entry does not have

\* An entry: its identifier, its delay, its cyclic block, and whether the rest
\* of it, the values file included, can be read.  The error rate is treated as
\* the delay is.
Entry ==
  [tx : Nat, delay : Int \cup {Unset}, sound : BOOLEAN,
   cyclic : {"absent", "empty", "bad", "good"}]

ASSUME ProgramAssumption ==
  /\ \A f \in Files :
       f.devices \in Seq(Entry) /\ f.meters \in Seq(STRING) /\ f.sound \in BOOLEAN
  /\ S77Offset \in Nat \ {0} /\ DelayMax \in Nat /\ CliDelay \in Int
  /\ Swallows \in BOOLEAN

VARIABLES
  file,     \* the devices file
  main,     \* where the main coroutine is
  devices,  \* the devices loaded
  table,    \* _rx_callbacks, as a set of <<identifier, device, service>>
  bus,      \* the interface: "none", "open" or "shut"
  task,     \* the state of each task that has been started
  left,     \* the tasks that the shutdown has still to stop, a set
  early     \* SIGINT came before the wait for a signal

pvars == <<file, main, devices, table, bus, task, left, early>>

TX == <<0, "TX">>

Workers(d) == {<<d, "UDS">>, <<d, "S77">>}

Device == [tx : Nat, delay : 0 .. DelayMax, cyclic : BOOLEAN]

Main == {"load", "wait", "stop", "await", "returned", "raised", "ending", "over"}

\* "cancelled": cancel() has been called and the task has not run since.
\* "deaf": it has, and goes on as if it had never been cancelled.
TaskState == {"alive", "dead", "cancelled", "deaf", "ended"}

TypeOK ==
  /\ file \in Files /\ main \in Main
  /\ devices \in Seq(Device) /\ Len(devices) <= Len(file.devices)
  /\ \A r \in table : r[2] \in DOMAIN devices /\ r[3] \in {"UDS", "S77"}
  /\ bus \in {"none", "open", "shut"}
  /\ \A t \in DOMAIN task : task[t] \in TaskState
  /\ left \subseteq DOMAIN task
  /\ early \in BOOLEAN

Init ==
  /\ file \in Files
  /\ main = "load"
  /\ devices = <<>> /\ table = {} /\ bus = "none"
  /\ task = <<>> /\ left = {}
  /\ early = FALSE

-----------------------------------------------------------------------------
(* Loading *)

Within(x, limit) == IF x < 0 THEN 0 ELSE IF x > limit THEN limit ELSE x

\* Mutant of DelayOf: the device's own value is taken as it is.
AsGiven(e) == IF e.delay = Unset THEN Within(CliDelay, DelayMax) ELSE e.delay

\* FaultConfig: the device's value wins over the command line.
DelayOf(e) == Within(IF e.delay = Unset THEN CliDelay ELSE e.delay, DelayMax)

\* Mutant of Registered: an identifier keeps its first callback.
KeepsFirst(tab, i, d, w) ==
  IF \E r \in tab : r[1] = i THEN tab ELSE tab \cup {<<i, d, w>>}

Registered(tab, i, d, w) == {r \in tab : r[1] # i} \cup {<<i, d, w>>}

\* A device; a cyclic block that is empty or makes no sense is left out.
LoadDevice ==
  /\ main = "load" /\ Len(devices) < Len(file.devices)
  /\ LET d == Len(devices) + 1
         e == file.devices[d]
     IN  /\ e.sound
         /\ devices' = Append(devices, [tx |-> e.tx, delay |-> DelayOf(e),
                                        cyclic |-> e.cyclic = "good"])
         /\ table' = Registered(Registered(table, e.tx, d, "UDS"),
                                e.tx + S77Offset, d, "S77")
  /\ UNCHANGED <<file, main, bus, task, left, early>>

AllLoaded == Len(devices) = Len(file.devices)

\* Any other mistake in any entry is the end of the program.
LoadFails ==
  /\ main = "load"
  /\ IF AllLoaded THEN ~file.sound ELSE ~file.devices[Len(devices) + 1].sound
  /\ main' = "raised"
  /\ UNCHANGED <<file, devices, table, bus, task, left, early>>

\* SIGINT before _wait_for_signal(): asyncio.run() will cancel the main
\* coroutine where it suspends first (Python from 3.11).
InterruptEarly ==
  /\ main = "load"
  /\ early' = TRUE
  /\ UNCHANGED <<file, main, devices, table, bus, task, left>>

Cyclics(d) == IF devices[d].cyclic THEN {<<d, "CYC">>} ELSE {}

Meters == {<<k, "METER">> : k \in DOMAIN file.meters}

Tasks ==
  {TX} \cup Meters \cup (UNION {Cyclics(d) \cup Workers(d) : d \in DOMAIN devices})

\* Mutant of Stopped: nobody stops the bus.
NoBus == Tasks \ {TX}

\* Those that the shutdown stops.
Stopped == Tasks

\* Mutant of Stage: the bus first.
BusFirst(t) == IF t = TX THEN 0 ELSE IF t[2] = "METER" THEN 1 ELSE 2

\* The shutdown stops the meters, then the devices, then the bus,
Stage(t) == IF t[2] = "METER" THEN 0 ELSE IF t = TX THEN 2 ELSE 1

\* and of each device the cyclic messages before the workers.
Place(t) == IF t[2] = "CYC" THEN 0 ELSE IF t[2] = "UDS" THEN 1 ELSE 2

Before(s, t) ==
  \/ Stage(s) < Stage(t)
  \/ Stage(s) = Stage(t) /\ (s[1] < t[1] \/ (s[1] = t[1] /\ Place(s) < Place(t)))

\* The task whose turn it is.
Foremost(t) == t \in left /\ \A u \in left : ~Before(u, t)

\* Everything starts.
Start ==
  /\ main = "load" /\ AllLoaded /\ file.sound
  /\ main' = "wait"
  /\ bus' = "open"
  /\ task' = [t \in Tasks |-> "alive"]
  /\ left' = Stopped
  /\ UNCHANGED <<file, devices, table, early>>

\* can.Bus() raises.
StartFails ==
  /\ main = "load" /\ AllLoaded /\ file.sound
  /\ main' = "raised"
  /\ UNCHANGED <<file, devices, table, bus, task, left, early>>

-----------------------------------------------------------------------------
(* Running *)

\* An exception ends a worker or the TX task; cyclic messages and meters have
\* none to expect.
Dies(t) ==
  /\ task[t] \in {"alive", "deaf"} /\ t[2] \in {"UDS", "S77", "TX"}
  /\ task' = [task EXCEPT ![t] = "dead"]
  /\ UNCHANGED <<file, main, devices, table, bus, left, early>>

\* A cancelled task gets its CancelledError.
Ends(t) ==
  /\ task[t] = "cancelled"
  /\ task' = [task EXCEPT ![t] = "ended"]
  /\ UNCHANGED <<file, main, devices, table, bus, left, early>>

\* A UDS worker is cancelled when the flow control it waits for has just come:
\* wait_for() returns it, and nothing is left of the cancellation (Device.tla,
\* CancelLost).
Swallow(t) ==
  /\ Swallows /\ task[t] = "cancelled" /\ t[2] = "UDS"
  /\ task' = [task EXCEPT ![t] = "deaf"]
  /\ UNCHANGED <<file, main, devices, table, bus, left, early>>

-----------------------------------------------------------------------------
(* Shutdown *)

\* SIGINT or SIGTERM.
Signal ==
  /\ main = "wait" /\ ~early
  /\ main' = "stop"
  /\ UNCHANGED <<file, devices, table, bus, task, left, early>>

\* The main coroutine is cancelled in its wait.
Interrupted ==
  /\ main = "wait" /\ early
  /\ main' = "raised"
  /\ UNCHANGED <<file, devices, table, bus, task, left, early>>

Cancelled(ts) ==
  [t \in DOMAIN task |->
     IF t \in ts /\ task[t] \in {"alive", "deaf"} THEN "cancelled" ELSE task[t]]

\* Mutant of Stop: the next task is awaited without being cancelled.
OnlyAwaits ==
  /\ main = "stop" /\ left # {}
  /\ main' = "await"
  /\ UNCHANGED <<file, devices, table, bus, task, left, early>>

\* The next task is cancelled and awaited.
Stop ==
  /\ main = "stop" /\ left # {}
  /\ main' = "await"
  /\ \E t \in left : Foremost(t) /\ task' = Cancelled({t})
  /\ UNCHANGED <<file, devices, table, bus, left, early>>

\* The task has ended; stop() of the bus goes on to shut the interface down.
Resume ==
  /\ main = "await"
  /\ main' = "stop"
  /\ \E t \in left :
       /\ Foremost(t) /\ task[t] = "ended"
       /\ left' = left \ {t}
       /\ bus' = IF t = TX THEN "shut" ELSE bus
  /\ UNCHANGED <<file, devices, table, task, early>>

\* Awaiting a task that an exception has ended raises it again: whatever was
\* still to be stopped is not.
Raises ==
  /\ main = "await" /\ \E t \in left : Foremost(t) /\ task[t] = "dead"
  /\ main' = "raised"
  /\ UNCHANGED <<file, devices, table, bus, task, left, early>>

\* run() returns.
Return ==
  /\ main = "stop" /\ left = {}
  /\ main' = "returned"
  /\ UNCHANGED <<file, devices, table, bus, task, left, early>>

\* asyncio.run() cancels the tasks that are left, and waits for them.
CancelAll ==
  /\ main \in {"returned", "raised"}
  /\ main' = "ending"
  /\ task' = Cancelled(DOMAIN task)
  /\ UNCHANGED <<file, devices, table, bus, left, early>>

Exit ==
  /\ main = "ending" /\ \A t \in DOMAIN task : task[t] \notin {"cancelled", "deaf"}
  /\ main' = "over"
  /\ UNCHANGED <<file, devices, table, bus, task, left, early>>

Shutdown == Interrupted \/ Stop \/ Resume \/ Raises \/ Return \/ CancelAll \/ Exit

Next ==
  \/ LoadDevice \/ LoadFails \/ InterruptEarly \/ Start \/ StartFails
  \/ Signal \/ Shutdown
  \/ \E t \in DOMAIN task : Dies(t) \/ Ends(t) \/ Swallow(t)

\* The event loop runs what can run.  No task has to die, no signal to come.
Spec ==
  /\ Init /\ [][Next]_pvars
  /\ WF_pvars(Shutdown) /\ WF_pvars(\E t \in DOMAIN task : Ends(t) \/ Swallow(t))

-----------------------------------------------------------------------------
(* What the program promises *)

\* The device that a client reaches under an identifier in CAN mode is the one
\* it reaches in DoIP mode, where the last entry with this address is taken
\* (main.py:410), unless a later device listens to Service 77 there.
SameDeviceEitherWay ==
  \A d \in DOMAIN devices :
    (\A l \in DOMAIN devices : l > d => devices[l].tx # devices[d].tx) =>
      \E r \in table :
        /\ r[1] = devices[d].tx
        /\ \/ r[2] = d /\ r[3] = "UDS"
           \/ r[2] > d /\ r[3] = "S77"

\* As long as a device, a cyclic message or a meter may send a frame, the
\* shutdown leaves the TX task alone, which would have to send it
\* (main.py:382-386).
ConsumerLast ==
  main \in {"stop", "await", "returned"} /\ task[TX] \in {"cancelled", "ended"} =>
    \A t \in DOMAIN task \ {TX} : task[t] = "ended"

\* A program that has ended without a failed task and without an early
\* interrupt has shut its interface down; after it nothing runs, failure or not.
LeavesNothing ==
  main = "over" =>
    /\ \A t \in DOMAIN task : task[t] \in {"dead", "ended"}
    /\ (bus = "open" => early \/ \E t \in DOMAIN task : task[t] = "dead")

\* main() or asyncio.run() awaits a worker that has swallowed its cancellation.
Hangs ==
  main \in {"await", "ending"} /\ \E t \in DOMAIN task : task[t] = "deaf"

\* A signal ends the program, whatever tasks have died before or die meanwhile,
\* unless it waits for ever for a worker that has swallowed its cancellation:
\* nothing else can hold the shutdown up (main.py:382-386).
SignalEnds ==
  (main = "stop" \/ (early /\ main = "wait")) ~> (main = "over" \/ []Hangs)
=============================================================================
