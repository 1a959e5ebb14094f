------------------------------ MODULE Session ------------------------------
(***************************************************************************)
(* A device and its testers, end to end: one tester talks to the UDS       *)
(* worker and one to the Service 77 worker, each with an ISO-TP stack of   *)
(* its own and one request at a time.  The testers and the CAN wire are    *)
(* outside the repository; they are modelled from the sequences that       *)
(* docs/protocols.md prescribes for them.  The wire delivers in order, and *)
(* the bus drops a frame of the device when its transmit retries are       *)
(* exhausted (simulator/bus.py:191), at most MaxDrop times.                *)
(***************************************************************************)
EXTENDS Device

CONSTANTS
  Requests,   \* for each worker, the requests its tester may make
  LenCode,    \* the length code that Service 77 testers write
  MaxCalls,   \* bound: calls of each tester
  MaxDrop,    \* bound: frames of the device lost on the way out
  Patient     \* timeouts on both sides outlast everything in progress

\* What testers ask for: UDS reads and writes, and Service 77 writes.
UdsRequest ==
  [op : {"read"}, did : Did] \cup [op : {"write"}, did : Did, val : Payload]

S77Request == [op : {"write"}, did : Did, val : Payload, ctr : Ctr]

ASSUME SessionAssumption ==
  /\ Requests["UDS"] \subseteq UdsRequest
  /\ Requests["S77"] \subseteq S77Request
  /\ LenCode \in HighByte
  /\ MaxCalls \in Nat /\ MaxDrop \in Nat
  /\ Patient \in BOOLEAN

VARIABLES
  phase,   \* each tester: "idle", "offer" (awaits flow control) or "await"
  req,     \* its current or last request
  todo,    \* consecutive frames of the request that it has yet to send
  tasm,    \* its reassembly of what the device sends
  calls,   \* how many calls it has made
  got,     \* the outcome its last call ended with
  drops,   \* frames the bus has dropped
  failed,  \* history: calls that were given up
  ans,     \* history: the outcome the handler computed for the current call
  faulted  \* history: the last response was not sent as segment() made it

testers == <<phase, req, todo, tasm, calls, got, drops, failed, ans, faulted>>

svars == <<vars, testers>>

NoAnswer == [kind |-> "lost"]

NoRequest == [op |-> "none"]

\* The request as the payload that its tester sends.
Encoded(w, r) ==
  IF w = "S77" THEN <<"77", r.ctr, r.did, LenCode>> \o r.val
  ELSE IF r.op = "read" THEN <<"22", r.did>>
  ELSE <<"2E", r.did>> \o r.val

\* What a tester makes of a payload it receives.
Decoded(p) ==
  IF p = <<>> THEN NoAnswer
  ELSE CASE p[1] = "62" ->
              [kind |-> "value", did |-> p[2], val |-> SubSeq(p, 3, Len(p))]
         [] p[1] \in {"6E", "77"} -> [kind |-> "written"]
         [] p[1] = "7F" -> [kind |-> "refused"]
         [] OTHER -> NoAnswer

SInit ==
  /\ Init
  /\ phase = [w \in Worker |-> "idle"]
  /\ req = [w \in Worker |-> NoRequest]
  /\ todo = [w \in Worker |-> <<>>]
  /\ tasm = [w \in Worker |-> Reset]
  /\ calls = [w \in Worker |-> 0]
  /\ got = [w \in Worker |-> NoAnswer]
  /\ drops = 0 /\ failed = 0
  /\ ans = [w \in Worker |-> NoAnswer]
  /\ faulted = [w \in Worker |-> FALSE]

-----------------------------------------------------------------------------
(* The testers *)

DeviceIdle == UNCHANGED <<store, asm, pc, out, life>>

\* The tester sends the first frame of its request.
Call(w, r) ==
  LET fs == Segment(Encoded(w, r)) IN
  /\ phase[w] = "idle" /\ calls[w] < MaxCalls
  /\ Deliver(w, fs[1])
  /\ phase' = [phase EXCEPT ![w] = IF Len(fs) = 1 THEN "await" ELSE "offer"]
  /\ todo' = [todo EXCEPT ![w] = Tail(fs)]
  /\ req' = [req EXCEPT ![w] = r]
  /\ calls' = [calls EXCEPT ![w] = @ + 1]
  /\ ans' = [ans EXCEPT ![w] = NoAnswer]
  /\ UNCHANGED <<tasm, got, drops, failed, faulted, txq>>
  /\ DeviceIdle

\* The next frame to leave the bus, when it is one of worker w's.
Arrives(w) ==
  /\ txq # <<>> /\ Head(txq).w = w
  /\ txq' = Tail(txq)

Arriving == Head(txq).f

\* Flow control for the request: the tester sends the rest of it.
Continue(w) ==
  /\ Arrives(w)
  /\ phase[w] = "offer" /\ Arriving.t = "FC"
  /\ queue' = [queue EXCEPT ![w] = @ \o todo[w]]
  /\ todo' = [todo EXCEPT ![w] = <<>>]
  /\ phase' = [phase EXCEPT ![w] = "await"]
  /\ UNCHANGED <<req, tasm, calls, got, drops, failed, ans, faulted>>
  /\ DeviceIdle

\* A frame that ends nothing; a first frame is answered by flow control.
Collect(w) ==
  /\ Arrives(w)
  /\ ~(phase[w] = "offer" /\ Arriving.t = "FC")
  /\ ~(phase[w] = "await" /\ Completes(tasm[w], Arriving))
  /\ tasm' = [tasm EXCEPT ![w] = Fed(@, Arriving)]
  /\ IF IsFirst(Arriving) THEN Deliver(w, FlowControl) ELSE UNCHANGED queue
  /\ UNCHANGED <<phase, req, todo, calls, got, drops, failed, ans, faulted>>
  /\ DeviceIdle

\* The payload that a waiting tester takes for the answer to its request.
Return(w) ==
  /\ Arrives(w)
  /\ phase[w] = "await" /\ Completes(tasm[w], Arriving)
  /\ tasm' = [tasm EXCEPT ![w] = Fed(@, Arriving)]
  /\ got' = [got EXCEPT ![w] = Decoded(PayloadOf(tasm[w], Arriving))]
  /\ phase' = [phase EXCEPT ![w] = "idle"]
  /\ UNCHANGED <<queue, req, todo, calls, drops, failed, ans, faulted>>
  /\ DeviceIdle

\* The bus drops the frame, its retries being exhausted.
Lose ==
  /\ txq # <<>> /\ drops < MaxDrop
  /\ txq' = Tail(txq)
  /\ drops' = drops + 1
  /\ UNCHANGED <<queue, phase, req, todo, tasm, calls, got, failed, ans, faulted>>
  /\ DeviceIdle

\* Nothing is under way between tester w and its worker.
Settled(w) ==
  /\ queue[w] = <<>>
  /\ \A i \in DOMAIN txq : txq[i].w # w

\* The tester stops waiting.
GiveUp(w) ==
  /\ phase[w] # "idle"
  /\ Patient => Settled(w) /\ pc[w] \in {"get"} \cup Ended
  /\ phase' = [phase EXCEPT ![w] = "idle"]
  /\ todo' = [todo EXCEPT ![w] = <<>>]
  /\ got' = [got EXCEPT ![w] = NoAnswer]
  /\ failed' = failed + 1
  /\ UNCHANGED <<queue, txq, req, tasm, calls, drops, ans, faulted>>
  /\ DeviceIdle

-----------------------------------------------------------------------------
(* The device, with the outcome of the handler noted *)

Handling(w) ==
  pc[w] = "get" /\ queue[w] # <<>> /\ Completes(asm[w], Taken(w))

SentClean(w, p) == out'[w] = Tail(Segment(p)) /\ txq'[Len(txq')].f = Segment(p)[1]

Works(w) ==
  /\ Work(w)
  /\ ans' = IF Handling(w)
            THEN [ans EXCEPT ![w] = Decoded(Reply(w, Got(w)))]
            ELSE ans
  /\ faulted' = IF Handling(w)
                THEN [faulted EXCEPT ![w] = ~SentClean(w, Reply(w, Got(w)))]
                ELSE faulted
  /\ UNCHANGED <<phase, req, todo, tasm, calls, got, drops, failed>>

Expires(w) ==
  /\ Patient => Settled(w)
  /\ TimeoutFC(w)
  /\ UNCHANGED testers

Starts == Start /\ UNCHANGED testers

Tests(w) == Continue(w) \/ Collect(w) \/ Return(w)

SNext ==
  \/ Starts \/ Lose
  \/ \E w \in Worker : Works(w) \/ Expires(w) \/ Tests(w) \/ GiveUp(w)
  \/ \E w \in Worker : \E r \in Requests[w] : Call(w, r)

SSpec == SInit /\ [][SNext]_svars

\* The event loop, the bus and the testers go on; testers stop waiting in
\* the end.  Nothing obliges the bus to lose frames or testers to call.
SFairness ==
  /\ WF_svars(Starts)
  /\ WF_svars(\E w \in Worker : Tests(w))
  /\ \A w \in Worker : /\ WF_svars(Works(w) \/ Expires(w))
                       /\ WF_svars(GiveUp(w))

SFairSpec == SSpec /\ SFairness

-----------------------------------------------------------------------------
(* What the testers can rely on *)

\* The device is an atomic store to its testers: each call takes effect once,
\* at one instant, and returns the outcome of that instant, a value read
\* being byte for byte the value then stored, whether UDS or Service 77 wrote
\* it ("immediately visible", device.py:19).  No call ends without an outcome
\* but for a frame that the bus lost, and each lost frame spoils one at most:
\* what it leaves behind in queues and assemblers does not harm the next.
Service ==
  INSTANCE RegisterService WITH
    Channel <- Worker, Request <- Requests, Registers <- Known,
    Guarded <- [w \in Worker |-> IF w = "UDS" THEN Protected ELSE {}],
    InitReg <- InitStore, spare <- drops - failed,
    reg <- store, request <- req, outcome <- ans, returned <- got,
    status <- [w \in Worker |->
                 IF phase[w] = "idle" THEN "idle"
                 ELSE IF ans[w] = NoAnswer THEN "pending" ELSE "done"]

IsAtomicStore == Service!ASpec

Written(d) ==
  {InitStore[d]} \cup
  {r.val : r \in {x \in Requests["UDS"] \cup Requests["S77"] :
                    x.op = "write" /\ x.did = d}}

\* No value is ever stored that no request carried as a whole: consecutive
\* frames of a request that was given up never complete a later one, also
\* when testers give up early and call again at once (isotp.py:212-239).
WholeValues == \A d \in Known : store[d] \in Written(d)

\* No tester ever takes a value for an answer that was never written, though
\* the answer may be a late one: it is not pieced together from two responses.
WholeAnswers ==
  \A w \in Worker : got[w].kind = "value" => got[w].val \in Written(got[w].did)

\* A fault spoils the one response it was injected into: whatever frames it
\* left on the wire or in a queue, the next response that goes out clean is
\* received as the handler computed it (faults.py:216-266).
FaultsDoNotLinger ==
  \A w \in Worker :
    phase[w] = "idle" /\ got[w] # NoAnswer /\ ~faulted[w] => got[w] = ans[w]

\* Every call comes to an end, whatever frames are lost or corrupted on the
\* way back: worker and tester never wait for each other for ever.
CallsEnd == \A w \in Worker : (phase[w] # "idle") ~> (phase[w] = "idle")
=============================================================================
