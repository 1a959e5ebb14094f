------------------------------- MODULE CanBus ------------------------------
(***************************************************************************)
(* The CAN bus handle that all devices share (simulator/bus.py): the queue *)
(* of frames to send and the TX task that retries, the RX thread that      *)
(* posts received frames into the event loop, and start() and stop().      *)
(*                                                                         *)
(* The event loop runs send(), start(), stop(), the TX task and the RX     *)
(* callbacks, one stretch between two awaits at a time.  The RX thread     *)
(* runs beside it: each access it makes to _running, to _bus and to the    *)
(* loop is an action of its own, as stop() may change them in between.     *)
(*                                                                         *)
(* The frames sent are numbered, as are the frames received: what they     *)
(* carry is not looked at here (IsoTp.tla, Device.tla).                    *)
(***************************************************************************)
EXTENDS Naturals, Sequences, Functions

CONSTANTS
  Id,             \* CAN identifiers on the bus
  Owner,          \* who registers a callback
  Registrations,  \* <<id, owner>>, in the order of register_rx()
  MaxRetry,       \* TX_RETRY_MAX
  MaxBusy,        \* the interface is busy at most so many times in a row, and
                  \* as long as it likes if that is more than MaxRetry
  Outcomes,       \* how a call of the interface's send() may end
  MaxPuts,        \* bound: frames handed to send()
  MaxArrivals     \* bound: frames received

ASSUME CanBusAssumption ==
  /\ Registrations \in Seq(Id \X Owner)
  /\ MaxRetry \in Nat /\ MaxBusy \in Nat
  /\ MaxPuts \in Nat /\ MaxArrivals \in Nat
  /\ Outcomes \subseteq {"sent", "busy", "error", "raises"}

VARIABLES
  life,     \* how far main.py has got with the bus
  running,  \* _running
  bus,      \* _bus: "none", "open", or "shut" once shutdown() has returned
  loaded,   \* calls of register_rx() made
  cbs,      \* _rx_callbacks: the owner of an identifier, if any, in a set
  txq,      \* _tx_queue
  tx,       \* where the TX task is suspended
  hand,     \* the frame the TX task is retrying, in a sequence
  tries,    \* attempt, of the frame in hand
  rx,       \* where the RX thread is
  rmsg,     \* the frame the RX thread holds, in a sequence
  ready,    \* callbacks posted to the event loop and not yet run
  got,      \* for each owner, the frames its callbacks were called with
  puts,     \* history: frames handed to send() so far
  wire,     \* history: frames the interface took
  busy,     \* the interface: busy answers in a row, up to MaxBusy
  calm,     \* history: it has only ever sent, or been busy, and never busy more
            \* than MaxRetry times in a row
  inbox,    \* the interface: frames received that nobody has read
  arrived   \* history: all frames received

txVars == <<txq, tx, hand, tries, puts, wire, busy, calm>>

rxVars == <<rx, rmsg, ready, got, inbox, arrived>>

lifeVars == <<life, running, bus, loaded, cbs>>

vars == <<lifeVars, txVars, rxVars>>

RxFrames == [id : Id, n : 1 .. MaxArrivals]

TypeOK ==
  /\ life \in {"new", "up", "cancelling", "closing", "stopped", "closed",
               "raised", "aborting", "failed"}
  /\ running \in BOOLEAN
  /\ bus \in {"none", "open", "shut"}
  /\ loaded \in 0 .. Len(Registrations)
  /\ cbs \in [Id -> SUBSET Owner]
  /\ txq \in Seq(1 .. MaxPuts) /\ hand \in Seq(1 .. MaxPuts)
  /\ tx \in {"new", "get", "backoff", "cancelling", "dead", "cancelled"}
  /\ tries \in 0 .. MaxRetry
  /\ rx \in {"new", "check", "recv", "wait", "got", "ended", "failed", "crashed"}
  /\ rmsg \in Seq(RxFrames) /\ ready \in Seq(RxFrames)
  /\ got \in [Owner -> Seq(RxFrames)]
  /\ puts \in 0 .. MaxPuts /\ wire \in Seq(1 .. MaxPuts)
  /\ busy \in 0 .. MaxBusy /\ calm \in BOOLEAN
  /\ inbox \in Seq(RxFrames) /\ arrived \in Seq(RxFrames)

Init ==
  /\ life = "new" /\ running = FALSE /\ bus = "none"
  /\ loaded = 0 /\ cbs = [i \in Id |-> {}]
  /\ txq = <<>> /\ tx = "new" /\ hand = <<>> /\ tries = 0
  /\ rx = "new" /\ rmsg = <<>> /\ ready = <<>> /\ got = [o \in Owner |-> <<>>]
  /\ puts = 0 /\ wire = <<>> /\ busy = 0 /\ calm = TRUE
  /\ inbox = <<>> /\ arrived = <<>>

-----------------------------------------------------------------------------
(* Life cycle, in the order of main.py: load_devices() registers, then     *)
(* start(), stop(), and the event loop closes.                             *)

\* Mutant of RegisterRx: the first callback of an identifier stays.
KeepsFirst ==
  /\ life = "new" /\ loaded < Len(Registrations)
  /\ loaded' = loaded + 1
  /\ cbs' = IF cbs[Registrations[loaded'][1]] # {} THEN cbs
            ELSE [cbs EXCEPT ![Registrations[loaded'][1]] = {Registrations[loaded'][2]}]
  /\ UNCHANGED <<life, running, bus, txVars, rxVars>>

\* register_rx(): an identifier registered again loses its first callback.
RegisterRx ==
  /\ life = "new" /\ loaded < Len(Registrations)
  /\ loaded' = loaded + 1
  /\ cbs' = [cbs EXCEPT ![Registrations[loaded'][1]] = {Registrations[loaded'][2]}]
  /\ UNCHANGED <<life, running, bus, txVars, rxVars>>

Start ==
  /\ life = "new" /\ loaded = Len(Registrations)
  /\ life' = "up"
  /\ running' = TRUE /\ bus' = "open"
  /\ rx' = "check" /\ tx' = "get"
  /\ UNCHANGED <<loaded, cbs, txq, hand, tries, puts, wire, busy, calm,
                 rmsg, ready, got, inbox, arrived>>

\* can.Bus() raises: there is no such interface.
StartFails ==
  /\ life = "new" /\ loaded = Len(Registrations)
  /\ life' = "failed"
  /\ UNCHANGED <<running, bus, loaded, cbs, txVars, rxVars>>

\* Mutants of Stop: the TX task is left alone while the interface is shut
\* down, or awaited without being cancelled.
ShutsFirst ==
  /\ life = "up"
  /\ life' = "closing"
  /\ running' = FALSE /\ bus' = "shut"
  /\ UNCHANGED <<loaded, cbs, txVars, rxVars>>

OnlyAwaits ==
  /\ life = "up"
  /\ life' = "cancelling"
  /\ running' = FALSE
  /\ UNCHANGED <<bus, loaded, cbs, txVars, rxVars>>

\* stop() up to the await of the cancelled TX task.
Stop ==
  /\ life = "up"
  /\ life' = "cancelling"
  /\ running' = FALSE
  /\ tx' = IF tx = "dead" THEN "dead" ELSE "cancelling"
  /\ UNCHANGED <<bus, loaded, cbs, txq, hand, tries, puts, wire, busy, calm, rxVars>>

\* An exception ends main.py's run() while the bus is up, as stop() of a device
\* does whose worker has died (main.py:384-386): asyncio.run() cancels the TX
\* task with all others, and nobody calls stop() of the bus.
Abort ==
  /\ life = "up"
  /\ life' = "aborting"
  /\ tx' = IF tx = "dead" THEN "dead" ELSE "cancelling"
  /\ UNCHANGED <<running, bus, loaded, cbs, txq, hand, tries, puts, wire, busy, calm,
                 rxVars>>

\* The TX task gets CancelledError; the frame it was retrying is lost.
CancelTx ==
  /\ life \in {"cancelling", "aborting"} /\ tx = "cancelling"
  /\ tx' = "cancelled"
  /\ hand' = <<>> /\ tries' = 0
  /\ UNCHANGED <<lifeVars, txq, puts, wire, busy, calm, rxVars>>

\* stop() resumes: shutdown() of the interface, then _bus = None.
Shutdown ==
  /\ life = "cancelling" /\ tx = "cancelled"
  /\ life' = "closing"
  /\ bus' = "shut"
  /\ UNCHANGED <<running, loaded, cbs, txVars, rxVars>>

ForgetBus ==
  /\ life = "closing"
  /\ life' = "stopped"
  /\ bus' = "none"
  /\ UNCHANGED <<running, loaded, cbs, txVars, rxVars>>

\* Awaiting a TX task that an exception has ended raises it again.
StopRaises ==
  /\ life = "cancelling" /\ tx = "dead"
  /\ life' = "raised"
  /\ UNCHANGED <<running, bus, loaded, cbs, txVars, rxVars>>

\* asyncio.run() closes the loop, whether run() has returned or raised.
CloseLoop ==
  /\ life \in {"stopped", "raised", "aborting"} /\ tx \in {"dead", "cancelled"}
  /\ life' = "closed"
  /\ UNCHANGED <<running, bus, loaded, cbs, txVars, rxVars>>

-----------------------------------------------------------------------------
(* Sending *)

\* send() by a device, a cyclic task or an energy meter; the queue has no
\* bound and send() does not look whether the bus is up.
Put ==
  /\ life \notin {"new", "failed", "stopped", "closed"} /\ puts < MaxPuts
  /\ puts' = puts + 1
  /\ txq' = Append(txq, puts')
  /\ UNCHANGED <<lifeVars, tx, hand, tries, wire, busy, calm, rxVars>>

CanAnswer(o) == o = "busy" => busy < MaxBusy \/ MaxBusy > MaxRetry

\* What the interface makes of a call of its send() that ends with o.
Answered(m, o) ==
  /\ wire' = IF o = "sent" THEN Append(wire, m) ELSE wire
  /\ busy' = IF o # "busy" THEN 0 ELSE IF busy < MaxBusy THEN busy + 1 ELSE busy
  /\ calm' = (calm /\ o \in {"sent", "busy"} /\ busy' <= MaxRetry)

\* Mutants of Attempt: one retry more, one less, or no end of them.
OneMore(m, k, o) ==
  /\ Answered(m, o)
  /\ IF o = "busy" /\ k <= MaxRetry
     THEN tx' = "backoff" /\ hand' = <<m>> /\ tries' = k + 1
     ELSE tx' = "get" /\ hand' = <<>> /\ tries' = 0

OneLess(m, k, o) ==
  /\ Answered(m, o)
  /\ IF o = "busy" /\ k + 1 < MaxRetry
     THEN tx' = "backoff" /\ hand' = <<m>> /\ tries' = k + 1
     ELSE tx' = "get" /\ hand' = <<>> /\ tries' = 0

NoEnd(m, k, o) ==
  /\ Answered(m, o)
  /\ IF o = "busy"
     THEN tx' = "backoff" /\ hand' = <<m>> /\ tries' = (k + 1) % (MaxRetry + 1)
     ELSE tx' = "get" /\ hand' = <<>> /\ tries' = 0

\* One attempt to send m, the last of k + 1, with outcome o.  "busy" is an
\* error of TX_RETRYABLE_ERRNOS, "error" any other CanError, "raises" an
\* exception that is no CanError.
Attempt(m, k, o) ==
  /\ Answered(m, o)
  /\ IF o = "busy" /\ k < MaxRetry
     THEN tx' = "backoff" /\ hand' = <<m>> /\ tries' = k + 1
     ELSE /\ tx' = IF o = "raises" THEN "dead" ELSE "get"
          /\ hand' = <<>> /\ tries' = 0

\* Mutant of SendFirst: a frame the interface is too busy for goes to the end
\* of the queue.
Requeues(o) ==
  /\ tx = "get" /\ txq # <<>> /\ CanAnswer(o)
  /\ Answered(Head(txq), o)
  /\ txq' = IF o = "busy" THEN Append(Tail(txq), Head(txq)) ELSE Tail(txq)
  /\ UNCHANGED <<tx, hand, tries, lifeVars, puts, rxVars>>

SendFirst(o) ==
  /\ tx = "get" /\ txq # <<>> /\ CanAnswer(o)
  /\ txq' = Tail(txq)
  /\ Attempt(Head(txq), 0, o)
  /\ UNCHANGED <<lifeVars, puts, rxVars>>

\* The back-off sleep ends.
SendAgain(o) ==
  /\ tx = "backoff" /\ CanAnswer(o)
  /\ Attempt(hand[1], tries, o)
  /\ UNCHANGED <<lifeVars, txq, puts, rxVars>>

TxTask == \E o \in Outcomes : SendFirst(o) \/ SendAgain(o)

-----------------------------------------------------------------------------
(* Receiving *)

\* The interface receives a frame with identifier i.
Arrive(i) ==
  /\ bus = "open" /\ Len(arrived) < MaxArrivals
  /\ arrived' = Append(arrived, [id |-> i, n |-> Len(arrived) + 1])
  /\ inbox' = Append(inbox, [id |-> i, n |-> Len(arrived) + 1])
  /\ UNCHANGED <<lifeVars, txVars, rx, rmsg, ready, got>>

\* while self._running and self._bus
RxCheck ==
  /\ rx = "check"
  /\ rx' = IF running /\ bus # "none" THEN "recv" ELSE "ended"
  /\ UNCHANGED <<lifeVars, txVars, rmsg, ready, got, inbox, arrived>>

\* self._bus is read again for recv(), and may be None by now.
RxCall ==
  /\ rx = "recv"
  /\ rx' = IF bus = "none" THEN "crashed" ELSE "wait"
  /\ UNCHANGED <<lifeVars, txVars, rmsg, ready, got, inbox, arrived>>

RxReturns ==
  /\ rx = "wait" /\ bus = "open" /\ inbox # <<>>
  /\ rx' = "got"
  /\ rmsg' = <<Head(inbox)>> /\ inbox' = Tail(inbox)
  /\ UNCHANGED <<lifeVars, txVars, ready, got, arrived>>

\* Mutant of RxNothing: an error of recv() leaves the loop.
Leaves ==
  /\ rx = "wait"
  /\ rx' = "ended"
  /\ UNCHANGED <<lifeVars, txVars, rmsg, ready, got, inbox, arrived>>

\* recv() times out or raises a CanError, that of an interface just shut down
\* included if its driver reports that so.
RxNothing ==
  /\ rx = "wait"
  /\ rx' = "check"
  /\ UNCHANGED <<lifeVars, txVars, rmsg, ready, got, inbox, arrived>>

\* Any other exception of recv() ends the thread: "failed" while the interface
\* is open, "crashed" once it is shut (socketcan's select() then raises
\* ValueError on the closed socket).
RxRaises ==
  /\ rx = "wait"
  /\ rx' = IF bus = "open" THEN "failed" ELSE "crashed"
  /\ UNCHANGED <<lifeVars, txVars, rmsg, ready, got, inbox, arrived>>

\* The callback of the frame's identifier, if any, is posted.  A loop that is
\* closed takes no callbacks.
RxDispatch ==
  /\ rx = "got"
  /\ IF cbs[rmsg[1].id] # {} /\ life = "closed"
     THEN rx' = "crashed" /\ UNCHANGED <<rmsg, ready>>
     ELSE /\ rx' = "check" /\ rmsg' = <<>>
          /\ ready' = IF cbs[rmsg[1].id] = {} THEN ready ELSE ready \o rmsg
  /\ UNCHANGED <<lifeVars, txVars, got, inbox, arrived>>

\* The event loop runs a callback: the frame goes to its owner's queue.
RunCallback ==
  /\ ready # <<>> /\ life # "closed"
  /\ ready' = Tail(ready)
  /\ got' = [o \in Owner |->
               IF o \in cbs[Head(ready).id] THEN Append(got[o], Head(ready)) ELSE got[o]]
  /\ UNCHANGED <<lifeVars, txVars, rx, rmsg, inbox, arrived>>

RxThread == RxCheck \/ RxCall \/ RxReturns \/ RxNothing \/ RxRaises \/ RxDispatch

-----------------------------------------------------------------------------
Lifecycle ==
  \/ RegisterRx \/ Start \/ StartFails \/ Stop
  \/ CancelTx \/ Shutdown \/ ForgetBus \/ StopRaises \/ Abort \/ CloseLoop

Next ==
  \/ Lifecycle \/ Put \/ TxTask
  \/ RxThread \/ RunCallback \/ \E i \in Id : Arrive(i)

Stopping == CancelTx \/ Shutdown \/ ForgetBus \/ StopRaises

\* The event loop runs every task and callback that can run, the operating
\* system runs the RX thread, and recv() returns a frame some time if there
\* always is one.  Nobody is obliged to send, to receive or to stop.
Fairness ==
  /\ WF_vars(Stopping) /\ WF_vars(TxTask) /\ WF_vars(RunCallback)
  /\ WF_vars(RxThread) /\ SF_vars(RxReturns)

Spec == Init /\ [][Next]_vars

FairSpec == Spec /\ Fairness

-----------------------------------------------------------------------------
(* What the bus promises *)

\* The interface sees the frames of all callers in the order of the calls,
\* each at most once, across retries, drops, the failure of the TX task and
\* stop() (bus.py:179, "Retrying here keeps the frame order intact").
Fifo == INSTANCE LossyFifo
          WITH Msg <- 1 .. MaxPuts, pending <- hand \o txq, passed <- wire

KeepsOrder == Fifo!FSpec

\* As long as the interface is never busy more than TX_RETRY_MAX times in a row
\* and reports no other error, no frame is lost before stop() is called: it is
\* on the interface, in hand or in the queue (bus.py:178).
NothingLost ==
  calm /\ life = "up" => wire \o hand \o txq = [k \in 1 .. puts |-> k]

\* The TX task never calls send() of an interface that is shut down or gone:
\* stop() lets go of it only once the task has ended (bus.py:125-132).
NeverSendsToClosed ==
  [][wire' # wire \/ busy' # busy \/ tries' > tries => bus = "open"]_vars

\* The identifiers registered by nobody else after o, by o.
OwnedBy(o) ==
  {i \in Id : \E k \in DOMAIN Registrations :
                /\ Registrations[k] = <<i, o>>
                /\ \A l \in DOMAIN Registrations :
                     l > k => Registrations[l][1] # i}

\* Every frame received for an owner has been given to its callback, exactly
\* once and in the order of reception, or is on its way there, and its callback
\* gets no other: thread, loop and stop() neither lose, repeat nor reorder any
\* that recv() has returned (bus.py:222-241).
DeliversInOrder ==
  life # "new" =>
    \A o \in Owner :
      LET flow == got[o] \o ready \o rmsg \o inbox
      IN  /\ \A k, l \in DOMAIN flow : k < l => flow[k].n < flow[l].n
          /\ Range(flow) \subseteq Range(arrived)
          /\ {f \in Range(arrived) : f.id \in OwnedBy(o)} \subseteq Range(flow)
          /\ \A f \in Range(got[o]) : f.id \in OwnedBy(o)

\* The queue is worked off, whatever the interface answers, until the TX task
\* ends (no frame is retried for ever).
Drains ==
  (hand \o txq # <<>>)
    ~> (hand \o txq = <<>> \/ tx \in {"dead", "cancelling", "cancelled"})

\* What the interface has received is delivered unless stop() is called or
\* recv() has raised something that is no CanError.
Delivers ==
  (inbox # <<>>) ~> (inbox \o rmsg \o ready = <<>> \/ life # "up" \/ rx = "failed")

\* stop() ends, closes the interface unless the TX task has died, and the RX
\* thread ends after it if it has not before.
StopEnds ==
  /\ (life = "cancelling") ~> (life \in {"stopped", "raised"})
  /\ (life = "cancelling") ~> (rx \in {"ended", "failed", "crashed"})

\* As long as stop() has not been called, nothing ends the RX thread but an
\* exception of recv() on the open interface that is no CanError (bus.py:225);
\* and the thread, which reads _bus twice and is never joined, runs into the
\* shutdown (an interface that is shut or gone, a closed loop) only when stop()
\* has shut the interface down or the loop is closed (bus.py:130-132, 222-241).
RxOutlivesBus ==
  /\ life \in {"up", "aborting"} => rx \notin {"new", "ended", "crashed"}
  /\ rx = "crashed" => life \in {"closing", "stopped", "closed"}
=============================================================================
