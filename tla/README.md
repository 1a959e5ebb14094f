# A verification project for E3onCANserver

E3onCANserver simulates heating devices ("E3" devices) on a CAN bus, or behind
DoIP. It is one Python process: an asyncio event loop, plus one thread that
receives CAN frames. This directory holds TLA+ modules that model it, TLC
configurations that check them on small instances, and proofs that TLAPS checks
for every value of the constants. Paths below are relative to `src/`.

## 1. Inventory of the system

| Component | Source | State | Operations |
|---|---|---|---|
| ISO-TP transport | `simulator/protocol/isotp.py` | per assembler: active, expected length, buffer, next sequence number | `segment`, `feed` |
| UDS handler | `simulator/protocol/uds.py` | the set of protected data points (constant) | `handle`: read (22), write (2E), refusals |
| Service 77 handler | `simulator/protocol/service77.py` | none | `handle`: write, refusals, silence |
| Data point store | `simulator/datastore.py` | the value of each known data point | `from_file`, `read`, `write` |
| Fault injection | `simulator/faults.py` | configuration (constant) | `send_frames` with delay, one of ten faults, and the flow control handshake |
| Simulated device | `simulator/device.py` | two queues, two assemblers, two worker tasks, a store | `register`, `start`, `stop`, `_run`, RX callbacks, `handle_uds_payload` (DoIP) |
| CAN bus handle | `simulator/bus.py` | callback table, transmit queue, TX task, RX thread, the interface, `_running` | `register_rx`, `start`, `stop`, `send` |
| Cyclic transmission | `simulator/cyclic.py` | a task per message | `start`, `stop`, periodic `_send` |
| Collect protocol | `simulator/protocol/collect.py` | none | `segment_collect` |
| Encoders | `simulator/protocol/encoders.py` | none (they read the store) | `encode` |
| Energy meter | `simulator/energy_meter.py` | one task | periodic send of a constant frame |
| DoIP server | `simulator/doip.py` | one coroutine per connection, `activated` | `start`, `stop`, `_session` |
| Program | `main.py` | the lists of devices and meters, the stop event | `load_devices`, `load_energy_meters`, `_run_can`, `_run_doip`, shutdown on a signal |

How they interact:

- The RX thread of the bus looks up a callback by CAN identifier and posts it to
  the event loop; the callback puts the frame into the queue of one worker. Both
  kinds of identifier (UDS, Service 77) of all devices share one table.
- A worker takes frames from its queue, feeds its assembler, answers a first
  frame with flow control, and calls its handler with a complete payload. The
  two workers of a device share the store.
- A response is segmented, handed to the fault injector, and sent frame by
  frame to the transmit queue that all devices share. During a multi-frame
  response the worker waits for flow control **on its own queue**.
- The TX task takes frames from the transmit queue and retries those that the
  interface is too busy for.
- In DoIP mode there are no workers and no bus: each session of the server
  acknowledges a request and calls `handle_uds_payload()` of the device it names,
  which runs the handler, sends the response through the fault injector and joins
  the frames that come out of it.
- `main.py` builds all of this from a devices file, waits for a signal, and stops
  meters, devices and bus one after the other; `asyncio.run()` cancels what is
  left.

What is hard about it, and hard to test:

- two tasks and a thread interleave at every `await` and, for the thread, at
  every attribute access;
- the queue of a worker is read in two places, so that a request may be taken
  for missing flow control, and late flow control for the start of something;
- nothing has a timeout except the wait for flow control (1 s): an assembly
  that a client gave up stays open;
- frames may be lost on the way out (retries exhausted), truncated, repeated or
  renumbered (on purpose, by fault injection);
- an uncaught exception ends a task silently, and is raised again where that task
  is awaited, in the middle of the shutdown; one of `recv()` that is no `CanError`
  ends the RX thread as silently;
- a cancelled task need not end: up to Python 3.11 `asyncio.wait_for()` returns a
  frame that is already there and drops the cancellation;
- sessions of the DoIP server interleave at the delays of `send_frames()` and at
  every `drain()`, between an acknowledgement and what it acknowledges;
- `stop()` may come at any moment.

What makes each component correct: ISO-TP returns every payload whole, once,
past the wrap of the sequence number, and never joins pieces of two. The
handlers change the store exactly when they confirm a write, keep UDS from the
protected data points, and never store what cannot be read again. The device is
an atomic store to its clients, gets back to its queue from every situation, and
once its `stop()` has returned runs no worker (section 3 says when it does not
return). Fault injection spoils one response, visibly where it says so.
The bus keeps the order of what it is handed, loses nothing to a short
congestion, delivers each received frame once and in order, and shuts down
cleanly. The DoIP server makes all devices together one atomic store, whoever
connects, leaves or stops reading. The program ends when told to, unless
a worker swallows its cancellation, in an order
that leaves no producer of frames without a bus. The list of hazards with their lines is in `PROJECT.json`.

## 2. Modules

| Module | Models | Composes |
|---|---|---|
| `IsoTp` | segmentation and the assembler, as operators | |
| `Services` | store, UDS and Service 77 handlers, as operators | |
| `Faults` | the ten faults as sets of possible frame lists, and what a DoIP client is given of them | `IsoTp`, `Services` |
| `Device` | the two workers of a device, its start and stop | `Faults` |
| `Session` | a device with a tester at each worker and a wire between them | `Device` |
| `DoIP` | the DoIP server, the devices behind it and its clients | `Faults` |
| `RegisterService` | abstract: what a device, or the DoIP server, promises its clients | |
| `Link` | one response through the fault injector to a receiver on CAN and to one over DoIP | `Faults` |
| `CanBus` | the bus handle: TX task, RX thread, start, stop | |
| `LossyFifo` | abstract: what `send()` promises its callers | |
| `Collect` | segmentation of the collect protocol and a listener, as operators | |
| `Cyclic` | the cyclic messages of a device, an energy meter, and a listener | `Collect` |
| `Broadcast` | abstract: what cyclic messages promise a listener | |
| `Program` | `main.py` in CAN mode: loading, start, signal, shutdown | |
| `MCDevice`, `MCSession`, `MCLink`, `MCCanBus`, `MCCyclic`, `MCDoIP`, `MCProgram` | instances for TLC | |
| `ProtocolProofs` | lemmas on the operators of `IsoTp`, `Services` and `Faults` | `Faults` |
| `DeviceProofs`, `LinkProofs`, `DoIPProofs` | theorems and proofs about the module each is named after; `DeviceProofs` also about `Session`, whatever gives up when | `ProtocolProofs` |
| `CanBusProofs`, `CyclicProofs`, `ProgramProofs` | theorems and proofs about the module each is named after | |
| `PatientProofs` | theorems about `Session` with timeouts that outlast what is in progress, and that it implements `RegisterService` | `DeviceProofs` |

### State and actions

**IsoTp.** A payload is a sequence of symbols, a frame a record of its type, the
number in its header (a length or a sequence number) and its data, with padding.
`Segment` is `segment()`, `Fed` the assembler after `feed()`, `Completes` and
`PayloadOf` what `feed()` returns. All sizes are constants, so that small
instances reach a wrap and an overlong payload within two frames; `Link` uses
the sizes of the code. A frame with fewer data than eight bytes is a record with
a shorter `d`; frames of no byte at all, and first frames of one byte, have
types of their own because the code raises on them.

**Services.** Each handler call is atomic (it contains no `await`), so it is two
operators: the reply and the store it leaves. A data identifier is one symbol
instead of two bytes, and the CTR and client id of Service 77 one symbol instead
of five bytes. The length checks are the code's less the bytes saved.

**Device.** An action is what a task does between two points where it can lose
the event loop. `pc[w]` says where worker `w` is suspended: at `queue.get()` in
its loop (`get`), in the wait for flow control (`fc`), or in one of the three
sleeps of `send_frames()` (`single`, `first`, `cf`). `FeedOnly`, `Handle`,
`HandleSilently`, `HandleFails` and `FeedFails` are one turn of `_run` up to its
next suspension, by the outcome of `feed()`, `handle()` and `segment()`;
`TakeFC`, `TakeOther`, `TakeFails` and `TimeoutFC` are the four ends of the wait
for flow control; `Wake` and `NextCF` end the sleeps. `Cancel`, `CancelLost` and
`CancelRaises` are `task.cancel(); await task` in `stop()`, by what becomes of
the task. Between `cancel()` and the CancelledError the task does not run, so the
two are one step; but up to Python 3.11 (`Swallows`; `pyproject.toml:11` asks for
3.10) a worker in `wait_for(queue.get())` (`device.py:336`) whose frame was there
before gets the frame instead of the CancelledError (`Swallowed`). It goes on as
before, and `stop()` awaits it (`life` is `hangUDS`) until something else ends it.
`queue.get()` on a queue that is not empty does not suspend in the code; here a
worker pauses after each frame it takes, which adds interleavings and removes
none. The contents of a flow control frame (wait, overflow, block size,
separation time) are ignored by the code, so the model has one such frame.

**Session.** The testers and the wire are outside the repository. A tester sends
the request's first frame, answers flow control with the rest of it, reassembles
what it receives with a stack that behaves like the code's, answers first frames
with flow control, and takes the first complete payload for the answer. The wire
delivers in order. `Lose` is the bus dropping a frame of the device
(`bus.py:191-196`). `Patient` says that timeouts of both sides outlast what is
under way; without it both sides may give up at any moment.

**CanBus.** Everything the event loop does between two awaits is one action;
each access of the RX thread to `_running`, `_bus` and the loop is an action of
its own (`RxCheck`, `RxCall`, `RxReturns`/`RxNothing`/`RxRaises`, `RxDispatch`). `stop()` is
four: up to the await of the TX task (`Stop`), the task's end (`CancelTx`),
`shutdown()` and `_bus = None` (`Shutdown`, `ForgetBus`), the last two apart
since the thread may run between them. `Abort` is a shutdown that an exception
cuts short before `bus.stop()`: the loop cancels the TX task and closes, and the
thread, which nobody told, goes on (`CloseLoop`). The interface answers a call of `send()`
with any of `Outcomes`: sent, a retryable error, another `CanError`, or an
exception that is none. The history `calm` says that the interface has done
nothing yet but send or be busy, `MaxRetry` times in a row at most. `recv()` returns a frame, or
nothing or a `CanError` (`RxNothing`), or ends the thread by any other exception
(`RxRaises`): on an open interface the thread has `failed`, on one that is shut
down it has `crashed`. What a driver makes of `recv()` after `shutdown()` is its
own matter: python-can's socketcan selects on a closed socket, a `ValueError`;
others raise `CanError`. The model has both.

**Collect.** Frames are the eight bytes of the code, for length codes, sequence
bytes and data share one range and are told apart by their place only.
`SegmentCollect` is `segment_collect()`; `Heeded` is a listener that follows the
checklist of `docs/protocols.md` and, where a frame is not the one expected,
looks at it again as the start of a message.

**Cyclic.** `send()` puts a frame into an unbounded queue and never suspends, so
a task goes from the end of one sleep to the start of the next in one action:
`Send`, or `Skip` where the encoder has no value or `segment_collect()` raises.
`queue` holds what all tasks have handed to `send()`; `Pass` and `Drop` are the
two things that `LossyFifo`, and so by `OrderKept` the bus, does with it. `air`
is a history of the messages under way, of which only the refinement speaks.

**DoIP.** A session is suspended in `readexactly()` (`read`), in `drain()` after
the acknowledgement (`acked`), in a sleep of `send_frames()` (`delay`) or in
`wait_closed()` (`closing`); an action is what it does from one to the next.
`drain()` suspends only above the high water mark: `Drained`, in terms of the
messages that the client has not read. `Ack` and `Dispatch` are apart because of
that `drain()`, `Dispatch` and `Respond` because of the delay, and other sessions
run in between. `DispatchFails` is `segment()` raising inside
`handle_uds_payload()`, `Lost` a client that has left. The loop of
`send_frames()` sleeps several times and does nothing in between that others
could see (its frames go to a list), so one `delay` stands for all of them. Messages are
records, header and length included: what the session would drop is one of three
kinds (`Disturb`). The two TCP streams keep the order. The clients are outside
the repository; they activate routing, make one call at a time, may leave or stop
reading at any moment. `Waits` is what `Server.wait_closed()` does: up to Python
3.11 it returns at once, from 3.12.1 on (the Dockerfile takes `python:3.12-slim`)
it waits for the clients.

**Program.** Nothing from the start of `_run_can()` to the wait for a signal
suspends, so no task runs before everything is started, and `LoadDevice` (one
entry of the file), `Start`, `StartFails` are steps only for SIGINT to fall
between them (`InterruptEarly`): then the handlers are not installed yet, and
`asyncio.run()` cancels the main coroutine in its first await, without the
shutdown. `Stop`, `Resume` and `Raises` are `task.cancel(); await task` for each
task in the order of the code (`Before`: meters, devices, bus; of a device the
cyclic messages, then the two workers), by what the task does meanwhile; `left`
is the set of those not yet stopped, of which `Foremost` is the next. The tasks
of a device's cyclic messages are one, which `stop()` gathers. What the
tasks themselves do is in the other modules; here they live, die (`Dies`), are
cancelled and end (`Ends`) or, a UDS worker up to Python 3.11, swallow the
cancellation and go on (`Swallow`, state `deaf`). A devices file is a list of entries, each with what
may go wrong in it: `sound` is everything whose failure ends the program
(identifier, values file, delay), `cyclic` the one block whose failure does not.

## 3. Checks

Device, Session, DoIP: SF and CF carry 3 symbols, FF 2, sequence numbers wrap at 2, no
payload is longer than 6. So a value of 4 symbols makes a response of the
greatest length, in two consecutive frames, the second of which wraps.

| Run | Question | Bounds |
|---|---|---|
| `Device_uds` | Can any sequence of full frames kill a worker, store a value that cannot be read back, or let UDS write a protected data point? Has a `stop()` that returns, called at any moment, ended both workers? | 2 frames queued for each worker |
| `Device_live` | With delay, every fault, short CAN frames and an overlong stored value: does a live worker always come back to its queue? | 1 queued frame |
| `Session_atomic` | Is a device an atomic store to patient testers, does each lost frame cost one call at most, does every call end? | 2 calls of each tester, 2 losses |
| `Session_hasty` | Testers give up and call again at any moment: is a value ever pieced together? | 4 calls, two data points, no loss |
| `Session_faulty` | Does a fault affect any response after the one it was injected into? | 3 calls, any fault each, 2 losses |
| `Link` | What does a receiver make of each fault and of the wrap, with the real sizes, on CAN and over DoIP? | lengths from 3 to 300 |
| `CanBus_any` | Order, at most once, exactly once, nothing lost while the interface is calm, and no use of a closed interface, across `stop()`, a shutdown cut short and every error; does the queue drain, is every frame delivered, does `stop()` end, what ends the RX thread? | 3 frames out, 2 in, 2 retries, endless congestion |
| `Cyclic` | Does a listener hear whole values, in order, and every message again and again? | 4 messages and a meter, 6 lengths from 0 to 256 at the changes of the length code, 2 changes of value, 1 loss |
| `DoIP` | Are all devices together one atomic store to all clients, does every call of a client that reads end, does `stop()` end when the clients have left? | 2 connections with 2 calls and 1, 1 message to be dropped; 2 devices, one with delay |
| `Program` | Which device answers under an identifier used twice, is the order of the shutdown right, what alone can keep a signal from ending the program, with everything shut? | 5 devices files, tasks that die at any moment |
| `Device_stop`, `DoIP_session` | what the code's own comments say and the code does not do, below | |

Why the bounds are enough: a response that goes wrong needs at most one other
response to be mixed with and one to show it, so three or four calls of one
tester; what a lost frame leaves behind shows in the call after it, so two; a
splice needs two values whose symbols all differ; the wait for flow control is
affected by at most the frames of one other exchange. `Device_uds` needs queues
of two to have flow control and a request waiting together. The two workers of a
device share only the store and the transmit queue. Order on the bus needs a
frame in retry, one behind it and one before; a retry count of two has a first,
a middle and a last attempt. The lengths of `Link` lie around 7/8 (single or
multi-frame), around full last frames (13), around 16 consecutive frames (111
to 118) and 32 (230), and at 204, whose low byte is the padding byte.

A cyclic message is at risk from the one before it and the one after it, which
`Room` of one leaves in the queue together; `EveryLength` adds the lengths
between those that `Cyclic` sends.

In `DoIP` one client reads and the other need not: its socket holds nothing
(`SockRoom` 0), so that it blocks its session in `drain()` after the first
message. Two calls of one client show what the first leaves behind; a device with
delay and one without give both orders of writing the response; one client asks
for a third device that does not exist, and one writes a value that is too long
to be read. The faults are off in this run, since a call would then have any
outcome; `Link` looks at them. In `Program` identifiers two apart are a
device's UDS identifier and another's Service 77
identifier (`S77Offset` 2).

Deadlock is not checked: each of these systems stops when it has been stopped,
or when the environment sends nothing more.

### Properties

- `NoWorkerDies`, `LengthsOK`: the reply to a read is three bytes longer than
  the value, and `segment()` raises beyond 4095 bytes. A write of 2E carries at
  most 4092 bytes and one of Service 77 at most 4087, so no write can store a
  value that a later read would die of; this is a fact about three files
  together (`isotp.py:106`, `uds.py:143`, `service77.py:157`). A values file may
  hold a longer one (`Device_live`).
- `ProtectedFromUds`: whatever the UDS worker, the fault injector and `stop()`
  do, a protected data point changes only when the Service 77 worker takes a
  frame.
- `Serves`, `CallsEnd`: no live worker, and no tester, waits for ever.
  A worker whose cancellation has been swallowed is a live one to `Serves`. `StopCancelsAll`: once `stop()` has returned both workers have
  ended; it need not return, see below.
- `IsAtomicStore`: refinement of `RegisterService`. A call takes effect at the
  instant its handler runs, and no call fails but for a lost frame of its own:
  the assembly, the wait or the frames that a failed call leaves behind never
  cost the next one. In particular a response that is being sent frame by
  frame while the other worker writes the value is the value of one instant, and
  a request that was swallowed by the wait for flow control has no effect.
- `WholeValues`, `WholeAnswers`: no splices.
- `FaultsDoNotLinger`: flow control that nobody waits for (a truncated response
  is sent as if it were a single frame), an assembly left open and frames left
  over do no harm to the next exchange.
- `KeepsOrder`: refinement of `LossyFifo`; `NothingLost` (while the interface is
  calm), `Drains`, `Delivers`, `NeverSendsToClosed`: the bus. `DeliversInOrder`:
  what a callback has been given and what is on its way to it, through the
  thread, the event loop and the queue, is in the order of reception without
  repetition, lacks no frame received for its owner, and what it has been given
  is for its owner only.
  Frames that are held by a thread that has ended, or posted to a loop that is
  closed, count as on their way: no frame is overtaken or repeated, but those
  last ones are never delivered.
  `RxOutlivesBus`: nothing ends the RX thread before `stop()`, not even a shutdown
  that an exception cuts short, but an exception of `recv()` itself that is no
  `CanError`; the shutdown ends it with an exception only once the interface is
  shut down, or the loop closed, in the races described below. `Delivers` has
  the same exception. `StopEnds`: `stop()` of the bus ends, and the thread after
  it.
- `SameOverDoIP`, `DoIPSeesLossOnly` (`Link`): what a client is given of a fault
  depends on the transport. A DoIP client gets the same payload of a response that
  is rewritten, takes one that is renumbered for a clean one, and notices a missing
  frame by the length of the payload only.
- `IsAtomicStore` of `DoIP`: the same abstract service, with all data points of
  all devices as its registers and each broken connection as a mishap that costs
  one call at most. `ProtectedKeepTheirValue`: there is no Service 77 over DoIP,
  so a protected data point is constant. `CallsEnd`, `StopEnds`.
- `SameDeviceEitherWay`: CAN mode resolves identifiers by the callback table,
  DoIP mode by a dictionary; both take the later of two entries, unless a later
  device's Service 77 identifier takes a device's UDS identifier over, which it
  does on CAN only.
- `ConsumerLast`, `LeavesNothing`, `SignalEnds` (`Program`): the TX task is the last
  to be cancelled; an interface stays open only if a task had died or SIGINT came
  early; a signal ends the program whatever has died, unless a worker swallows its
  cancellation and the shutdown awaits it for ever. The consequent of `SignalEnds`
  names that state, so that nothing else can hold the shutdown up.
- `IsBroadcast`: refinement of `Broadcast`. It depends on `send()` never
  suspending (`cyclic.py:162`), on the length codes and on the sequence bytes.
  `UpToDate`: a lost frame, or a value that could not be sent for a while, does
  not silence a message. `EveryLength`: round trip.

Every property has a mutant of the code, in the module it mutates, that violates
it (`PROJECT.json`, "mutants").

### Fairness

`Device`: weak fairness for each worker (the event loop runs what can run, a
timer fires), for `start()`, for each step of `stop()` and for the bus taking
frames. Nothing obliges a client to send. The timeout of the flow control wait
is part of the worker's fairness, so that a worker may leave the wait in either
way. `Session` adds that testers react to frames and stop waiting in the end.
`CanBus`: weak fairness for the TX task, the callbacks, the steps of `stop()` and
the RX thread, strong fairness for `recv()` returning a frame when there is one
again and again: python-can returns a frame that is there, and the model's
timeout is always possible. `Cyclic`: strong fairness for each task, since every sleep ends whatever is
queued (`Room` bounds the model, not the code), weak fairness for the bus. Every
change of a value counts towards `MaxChanges`, so that values come to rest. No
run assumes that frames are lost or that
anybody stops the system. `DoIP`: weak fairness for each session (the event loop
runs what can run, a delay ends), for a client noticing that its connection is
closed, and for reading by those clients only that are `Eager`; `stop()` returns
only once every connection is over. Nobody has to connect, call or leave.
`Program`: weak fairness for the main coroutine once it is in the shutdown and
for cancelled tasks to run, so that each ends or swallows its cancellation; one
that has swallowed it need never end. A signal need not come, a task need not
die.

### What the checks found

1. `Device_stop`: `SimulatedDevice.stop()` raises again whatever ended its first
   worker, and never cancels the second (`device.py:158-164`; the docstring says
   "Cancel all worker tasks"). In `main.py:384-386` the remaining devices and the
   bus are then not stopped either.
2. `DoIP_session`: `handle_uds_payload()` passes each response through
   `segment()` (`device.py:209`), which raises beyond 4095 bytes, and a write over
   DoIP has no such bound. Once a longer value is stored, a read of it is
   acknowledged, and then ends its session and that of everyone else who reads
   it; `doip.py:244` has the session "read frames until connection closes".

Seen in the models, and not stated as a run of its own:

- WRONG_PADDING rewrites data bytes of the value CC, and the low byte of an
  announced length of 204 (`faults.py:385`; the comment at `faults.py:324` says no
  data bytes are touched).
- A worker waits for flow control in `asyncio.wait_for()` (`device.py:336`). If
  `stop()` cancels it after the frame has arrived and before the worker has run,
  `wait_for()` of Python 3.10 and 3.11 returns the frame and the CancelledError is
  gone: the worker goes on, and `stop()`, which cancels once, awaits it for ever
  (`device.py:160-162`) and never gets to the second worker, to the other devices
  or to the bus. A second signal only sets the event again (`main.py:337-339`).
  `hangUDS` is a reachable state of `Device_uds`, and `SignalEnds` without its last
  disjunct is violated in `Program`. With `Swallows` FALSE (Python 3.12, which the
  Dockerfile takes) neither happens.
- `stop()` of the bus does not join the RX thread: it may call `recv()` of an
  interface that is already shut down (`bus.py:131`, `bus.py:224`: a `ValueError`
  with socketcan), may find `_bus` set to None between its check and its use
  (`bus.py:222-224`), and may post to a closed loop (`bus.py:241`).
- `recv()` may fail at any time with an exception that is no `CanError`
  (`bus.py:225`): the RX thread ends without a word, and the devices hear nothing
  any more. `RxOutlivesBus` shows that this and the three races above are all that
  can end it, other than its own loop condition after `stop()`.
- A duplicated consecutive frame (DUPLICATE_CF) reaches a DoIP client as a
  payload of the right length with a piece repeated: joined without looking at
  sequence numbers, and cut to the announced length (`device.py:226-232`). On CAN
  the assembler notices.
- The fault injector works on ISO-TP frames in DoIP mode too, though
  `doip.py:57-59` speaks of the UDS payload, and connections are served
  concurrently, though `doip.py:52-53` speaks of one at a time.
- From Python 3.12.1 on, `stop()` of the DoIP server waits as long as one client
  stays connected, which nobody asks to leave; a second signal only sets the
  event again. `StopEnds` is therefore conditional on the clients having left.
- SIGINT before `_wait_for_signal()` skips the shutdown altogether: the interface
  is not shut down (`Interrupted`).

A limit worth knowing, seen while modelling and not a defect of the device
alone: if testers give up early *and* frames are lost, a tester can take a
value pieced together from two responses for an answer, since a late first frame
of one response and the consecutive frames of the next fit together when the
second first frame is lost. ISO-TP has nothing to tell them apart. Hence
`WholeAnswers` is checked without losses and `IsAtomicStore` with patience.

Likewise for collect messages, which carry no number at all: a message of more
than 16 frames repeats the sequence byte 0x21, so a loss inside it, or a
listener that joins in its middle, may take data for the start of a message; and
when a continuation frame of one message and the first frame of the next are
both lost, the two merge. `IsBroadcast` therefore assumes one loss at most, and
none in a message of more than 16 frames (108 bytes).

## 4. Proofs

The `...Proofs` modules prove what follows for every value of the constants
allowed by the assumption that each model states of its own constants
(`IsoTpAssumption`, `ServicesAssumption`, `FaultsAssumption`,
`DeviceAssumption`, `SessionAssumption`, `LinkAssumption`, `CanBusAssumption`,
`CyclicAssumption`, `DoIPAssumption`, `ProgramAssumption`). `SessionAssumption`
says of the testers only what kind of requests each makes: UDS reads and writes,
Service 77 writes. What a theorem assumes beyond that is in its statement:

- `OnlyFullFrames` (`Device`): the bus delivers frames of eight bytes, and the
  values file holds nothing longer than 4092 bytes. `Device_live` and
  `Device_stop` show what happens otherwise.
- `~HasErrors`, `Answerable` (`DoIP`): no faults, which answer differently on
  purpose, and no write of an empty value, which the handler refuses
  (`uds.py:138`) and `RegisterService` would take.
- `MaxDrop = 0` and `~HasErrors` for `AnswersAreWhole` (`Session`), where testers
  and the device give up at any moment. With a lost frame, or one that the fault
  injector drops or renumbers, `WholeAnswers` is false: the consecutive frames
  of one response complete the first frame of another (section 3).
- `Patient` for `FaultsEndWithTheirResponse` (`Session`): a tester that gives up
  before the device is through with its response takes what is left of it for
  the answer to its next request, with or without a fault. Any number of frames
  may be lost, and any fault injected into any response.
- `Calm` for `DeviceServesAtomically` (`Session`): `Patient`, since a tester
  that gives up in the middle of its call leaves a call without an outcome and
  no lost frame to account for it; `~HasErrors`, since a fault changes answers on
  purpose; every value loaded or written, over UDS or Service 77, fits the response to a
  read (`MaxLen - 2`; `Device_live` shows that a longer one cannot be read
  back); and no UDS write
  of an empty value, which the handler refuses (`uds.py:138`). Any number of
  frames may be lost. `Session_atomic` meets these assumptions, with values of
  the greatest length they allow.
- `MaxDrop <= 1` (`Cyclic`): one frame is lost at most. With two, `IsBroadcast` is
  false (section 3): TLC finds two messages merged into one.

| Theorem | Statement | Inductive invariant |
|---|---|---|
| `ProtocolProofs!UnframedSegment` | `Unframed(Segment(p)) = p` for every payload `p` | none: the number of consecutive frames is a quotient rounded up, and each byte is found again by quotient and remainder of its place (`DivBounds`, `CFCountIs`, `JoinedIndex`) |
| `DeviceProofs!TypeCorrect` | `Spec => []TypeOK` | `TypeInv == TypeOK /\ PendingOK`; in the wait for flow control of a device with delay there is a frame left to send, without which `Head(out[w])` has no type |
| `DeviceProofs!WorkersSurvive`, `LengthsHold` | `OnlyFullFrames` implies `Spec => [](LengthsOK /\ NoWorkerDies)` | `BusInv`: `TypeInv`, `LengthsOK`, `NoWorkerDies`, none of which is inductive alone, and that the queues hold frames of the bus (`FromBus`). A step of a worker needs that of the one frame it takes, so that `Session`, whose frames are the testers', uses the same lemmas |
| `DeviceProofs!StopCancels` | `OnlyFullFrames` implies `Spec => []StopCancelsAll` | `StopInv == BusInv /\ StagesOK`: what `stop()` has achieved at each of its awaits. That it never raises needs `NoWorkerDies`. Whether it returns is no matter of this theorem: a `stop()` that hangs has got no further than the worker it awaits |
| `DeviceProofs!ProtectedHolds` | `Spec => ProtectedFromUds` | `TypeInv` |
| `DeviceProofs!StoresWholeValues` | `SSpec => []WholeValues` | `ValuesInv == STypeInv /\ RequestsOK /\ WholeValues`: before and after each frame in the queue of a worker one can say which request, and how many of its frames, have come (`Runs`); a frame starts a request or comes later in the one before it, and the assembler is in step with it or has missed one. Holds whatever is lost, injected or given up |
| `DeviceProofs!AnswersAreWhole` | `MaxDrop = 0`, `~HasErrors` imply `SSpec => []WholeAnswers` | `AnswersInv == ValuesInv /\ AnswersOK /\ WholeAnswers`: the same of the frames under way to a tester, where the last response has exactly those frames to come that its worker has still to send |
| `PatientProofs!FaultsEndWithTheirResponse` | `Patient` implies `SSpec => []FaultsDoNotLinger` | `PatientInv == STypeInv /\ \A w : InOrder(w)`: a call is in one of six stages (`Idle`, `Offer`, `Asked`, `Opened`, `Granted`, `Flowing`), each of which says what may still be in the queue of the worker and on the way to the tester, leftovers of earlier exchanges included, and that no leftover can open or complete anything |
| `PatientProofs!DeviceServesAtomically` | `Calm` implies `SSpec => IsAtomicStore` | `StoreInv == CalmInv /\ Accounted`, see below |
| `LinkProofs!CleanResponsesArrive` | `LSpec => []RoundTrip` | `LinkInv`: the frames that have arrived are the first `k` of a list that the fault can make of the response, and the assembler is where `Fed` has taken it with those |
| `LinkProofs!RewritesDeliver`, `SameDelivery` | `LSpec => []RewritingFaultsDeliver`, `LSpec => []SameOverDoIP` | `LinkInv`, with `RewrittenWellFormed`: a rewritten response is still one whose numbers follow each other, with room for its length |
| `LinkProofs!StructuralFaultsSeen` | `LSpec => []StructuralFaultsAreSeen` | `LinkInv`, with `StructuralIsClean`: such a list is that of the response up to a place where the assembler meets a wrong number, or where it ends early |
| `LinkProofs!DoIPSeesLoss` | `LSpec => []DoIPSeesLossOnly` | `LinkInv` |
| `CanBusProofs!TypeCorrect` | `Spec => []TypeOK` | `TypeInv == TypeOK /\ HandOK /\ RxOK`; the TX task has a frame in hand exactly while it backs off, the thread one while it dispatches |
| `CanBusProofs!OrderKept` | `Spec => KeepsOrder` | `TypeInv`; each action maps to `Enqueue`, `Pass`, `Drop` or a stutter of `LossyFifo` |
| `CanBusProofs!BusyLosesNothing` | `Spec => []NothingLost` | adds `AllThere`: as long as the interface is calm, every frame accepted is sent, in hand or queued, and as many tries of the one in hand are spent as the interface has answered busy |
| `CanBusProofs!ReceivedInOrder` | `Spec => []DeliversInOrder` | `DeliveryInv`: the callback table holds the owner registered last for each identifier, and what has been given to an owner, with what is on its way, is in order and complete |
| `CanBusProofs!SendsToOpenBus` | `Spec => NeverSendsToClosed` | `TypeInv` with the part of it that ties the TX task to an open interface |
| `CanBusProofs!RxEndsLast` | `Spec => []RxOutlivesBus` | `RxInv`, with `TypeInv`: up to `stop()` the thread finds the flag set and the interface there, so that only `recv()` itself can end it, and the same holds while a shutdown that an exception cuts short has not closed the loop; up to `shutdown()` the interface is open, so that what ends the thread is not the shutdown |
| `CyclicProofs!TypeCorrect` | `Spec => []TypeOK` | `QInv == TypeInv /\ QueueInv`: what remains of each message in `air` stands in the queue in one piece, the pieces in the order of `air`, and no other frame has the messages' identifier (`Laid`) |
| `CyclicProofs!HearsWholeValues` | `MaxDrop <= 1` implies `Spec => IsBroadcast` | `IInv == QInv /\ LstInv`: the listener holds exactly the frames of the first message that have left the queue, or, after the one loss, is behind by that frame or not listening |
| `DoIPProofs!TypeCorrect` | `Spec => []TypeOK` | `TypeOK`, of which the conjunct that only an address the server knows is ever acknowledged lets `Dispatch` look the device up |
| `DoIPProofs!ProtectedHolds` | `Spec => []ProtectedKeepTheirValue` | the property itself with `TypeOK`, by `UdsKeepsProtected` |
| `DoIPProofs!ServesAtomically` | `~HasErrors`, `Answerable` imply `Spec => IsAtomicStore` | `CallInv`: a request is in the stream, acknowledged or answered; of what the client has not read only the last message ends its call, and it is the answer of the instant at which the handler ran. `Dispatch` and `Nack` map to `Execute` of `RegisterService`, a connection that breaks to `Mishap` or `Fail` |
| `ProgramProofs!TypeCorrect`, `SameDevice` | `Spec => []TypeOK`, `Spec => []SameDeviceEitherWay` | `IInv == DevicesOK /\ TasksOK /\ SameDeviceEitherWay` |
| `ProgramProofs!TXEndsLast`, `NothingIsLeft` | `Spec => []ConsumerLast`, `Spec => []LeavesNothing` | `IInv`; `TasksOK` says that what is no longer `left` has ended, that of the rest only the foremost is cancelled or has swallowed its cancellation, and what excuses an open interface |

`STypeInv`, the inductive type invariant of `Session`, is part of the
invariants of all its theorems.

`IsAtomicStore` of `Session` says two things of a call: that it takes effect at
one instant with the outcome that its tester then receives, and that a call
given up is covered by a lost frame. The first follows from `PatientInv`: a
request completes in the queue of its worker as it was sent, the step that runs
the handler maps to `Execute`, and what completes at the tester is that
handler's response, which maps to `Return`. The second needs an account.
`OnTrack(w)` says of a call that it ends by itself if nothing more is lost: it has
its request or the flow control that asks for the rest on the way, or every
frame that its receiver still lacks is on the way or in the hands of the worker
(`Carries`, `Carried`, which give each frame its place). No step but the loss of
one of its own frames takes a call off its track (`OnTrackStep`), and a patient
tester gives up only a call that is off track (`GivesUpSpoilt`). Hence
`Accounted`: the calls that failed and those off track are together no more than
the frames lost, so that `Lose` maps to `Mishap` and `GiveUp` to `Fail`, whose
guard it satisfies.

The lemmas state what the operators return: `SegmentType`, `FedType`, the bounds
of a payload that an assembler completes, `InjectedFull`, that no fault cuts a
frame short (what goes missing is whole frames), `CollectSegments`, which frames
`segment_collect()` makes of a value of any length from 1 to 255, and
`HeedsFirst`, `HeedsNext`, `CompleteAtLast`, what a listener does with each.

That feeding frames one by one is the inverse of segmentation would be an
induction over the frames. It is proved all the same, as an invariant of the
specification that feeds them: `RoundTrip` of `Link` for the assembler,
`IsBroadcast` of `Cyclic` for a listener. Each step of the induction is then an
action.

Model-checked only:

- all liveness properties (TLAPS has no support for ENABLED and fairness here);
- `EveryLength`, a fold over the frames of a value; its steps are the lemmas
  `HeedsFirst`, `HeedsNext` and `CompleteAtLast`.

## 5. Not modelled

- The text format of values files, JSON configuration, command line: parsing.
- Dynamic resolvers of the store: `_resolvers` is never filled.
- Logging, times and their lengths (a delay is a point of suspension).
- The parsing of encoder configurations and of DoIP addresses.
- `protocol/base.py`: an abstract class. Tests, configuration, data files and
  Docker set-up: no behaviour of the program.
- DoIP: all devices of `DoIP` have the same known and the same protected data
  points; clients that send a second request before the first is answered, or
  give up waiting without leaving.
- SIGTERM before the handlers are installed: it kills the process.

## 6. Plan

1. (done) `IsoTp`, `Services`, `Faults`, `Device`, `Link`, `CanBus`, `Session`
   with the abstract `RegisterService` and `LossyFifo`; the type invariants,
   `NoWorkerDies`, `ProtectedFromUds`, and the refinement of `LossyFifo` proved.
2. (done) `Collect` and `Cyclic` with the abstract `Broadcast`; type
   correctness and the refinement proved for every set of messages and values.
3. (done) `DoIP` with its clients, as a second implementation of
   `RegisterService`, and the safety part of that refinement proved; the
   transport dependence of faults in `Link`, proved for every response.
4. (done) `Program`, with its invariants proved for every devices file. Left:
   `Device` composed with `CanBus`, so that what the workers send passes through
   the TX task.
5. (done) The lemmas on segmentation, handlers and faults, and on what a
   receiver makes of a list of frames, in a module of their own; every invariant
   that the passing runs check, but for `EveryLength`.
6. (done) That `Session` implements `RegisterService`, with an account of the
   frames lost; with it every refinement that the runs check is proved.
