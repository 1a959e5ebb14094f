-------------------------------- MODULE DoIP -------------------------------
(***************************************************************************)
(* The DoIP server (simulator/doip.py) with the devices behind it and the  *)
(* clients in front of it.  Each connection has a session of its own, a    *)
(* coroutine of the one event loop; an action is what a session does from  *)
(* one await at which it may be suspended to the next: readexactly() on a  *)
(* stream with nothing in it, drain() on a stream its client does not      *)
(* read, the sleeps of send_frames(), wait_closed().  The devices run no   *)
(* workers in this mode: a session calls handle_uds_payload() directly.    *)
(*                                                                         *)
(* TCP is outside the repository: a stream in each direction that keeps    *)
(* the order.  A client that leaves may take with it what the server has   *)
(* not read yet, or not.  Clients make one call at a time, as doipclient   *)
(* does: a request, its acknowledgement, its response.                     *)
(***************************************************************************)
EXTENDS Faults, FiniteSets

CONSTANTS
  Conn,       \* connections, one client each
  Ecu,        \* tx_id of the devices: the addresses the server knows
  Addr,       \* addresses that clients name
  InitStore,  \* [Ecu -> data store as loaded]
  Delayed,    \* those whose delay_ms is positive
  Waits,      \* what Server.wait_closed() may do: TRUE, wait for the clients
              \* (Python from 3.12.1), FALSE, return at once (up to 3.11)
  SockRoom,   \* [Conn -> messages that the sockets hold while its client does
              \* not read]
  HighWater,  \* messages beyond these that drain() lets pass
  Requests,   \* [Conn -> requests that its client may make]
  Eager,      \* the clients that read what they are sent
  MaxCalls,   \* bound: [Conn -> calls of its client]
  MaxNoise    \* bound: [Conn -> messages of its client that ask for nothing]

DeviceRequest ==
  [op : {"read", "write"}, did : Addr \X Did, val : Payload]

ASSUME DoIPAssumption ==
  /\ IsFiniteSet(Conn) /\ Eager \subseteq Conn
  /\ Delayed \subseteq Ecu /\ Ecu \subseteq Addr
  /\ InitStore \in [Ecu -> Store]
  /\ Waits \subseteq BOOLEAN
  /\ SockRoom \in [Conn -> Nat] /\ HighWater \in Nat
  /\ Requests \in [Conn -> SUBSET DeviceRequest]
  /\ MaxCalls \in [Conn -> Nat] /\ MaxNoise \in [Conn -> Nat]

VARIABLES
  life,    \* of the server: "new", "up", "stopping", "stopped" or "failed"
  store,   \* the data store of each device
  pc,      \* where each session is suspended
  active,  \* activated
  cur,     \* the diagnostic message that a session has acknowledged, then the
           \* one it will answer with, asleep in its delay
  rin,     \* stream to the server: messages not read yet
  rout,    \* stream to the client: messages not read yet
  gone,    \* the client has closed the connection
  phase,   \* of the client
  req,     \* its current or last request
  calls,   \* calls it has made
  noise,   \* other messages it has sent
  got,     \* the outcome its last call ended with
  ans      \* history: the outcome the handler computed for the current call

server == <<life, store, pc, active, cur>>
client == <<phase, req, calls, noise, got>>
dvars == <<server, rin, rout, gone, client, ans>>

NoAddr == "-"

\* "sync": a header that fails the check, "other": a payload type nobody
\* handles, "short": a diagnostic message with no UDS byte in it.
Msg ==
  [t : {"route", "active", "sync", "other", "short", "none"}, at : {NoAddr}, p : {<<>>}]
    \cup [t : {"diag", "ack", "nack"}, at : Addr, p : Payload]

Plain(t) == [t |-> t, at |-> NoAddr, p |-> <<>>]

\* A message to or from address a.
Carrying(t, a, p) == [t |-> t, at |-> a, p |-> p]

(* "read"    in readexactly(), or in drain() after a response             *)
(* "acked"   in drain() after the acknowledgement                         *)
(* "delay"   in a sleep of send_frames()                                  *)
(* "closing" in wait_closed() of the writer                               *)
PC == {"none", "read", "acked", "delay", "closing", "closed"}

(* "off"    not connected, or its connection has failed it                *)
(* "fresh"  connected, "route" awaits its routing activation              *)
(* "sent"   awaits the acknowledgement, "await" the response              *)
Phase == {"off", "fresh", "route", "idle", "sent", "await"}

Outcome ==
  [kind : {"lost", "refused", "written"}] \cup
  [kind : {"value"}, did : Addr \X Byte, val : Payload]

NoAnswer == [kind |-> "lost"]

NoRequest == [op |-> "none"]

TypeOK ==
  /\ life \in {"new", "up", "stopping", "stopped", "failed"}
  /\ store \in [Ecu -> Store]
  /\ pc \in [Conn -> PC] /\ active \in [Conn -> BOOLEAN]
  /\ cur \in [Conn -> Msg]
  /\ \A c \in Conn : pc[c] = "acked" => cur[c].at \in Ecu
  /\ rin \in [Conn -> Seq(Msg)] /\ rout \in [Conn -> Seq(Msg)]
  /\ gone \in [Conn -> BOOLEAN]
  /\ phase \in [Conn -> Phase]
  /\ req \in [Conn -> DeviceRequest \cup {NoRequest}]
  /\ calls \in [Conn -> Nat] /\ noise \in [Conn -> Nat]
  /\ \A c \in Conn : calls[c] <= MaxCalls[c] /\ noise[c] <= MaxNoise[c]
  /\ got \in [Conn -> Outcome] /\ ans \in [Conn -> Outcome]

Init ==
  /\ life = "new" /\ store = InitStore
  /\ pc = [c \in Conn |-> "none"] /\ active = [c \in Conn |-> FALSE]
  /\ cur = [c \in Conn |-> Plain("none")]
  /\ rin = [c \in Conn |-> <<>>] /\ rout = [c \in Conn |-> <<>>]
  /\ gone = [c \in Conn |-> FALSE]
  /\ phase = [c \in Conn |-> "off"] /\ req = [c \in Conn |-> NoRequest]
  /\ calls = [c \in Conn |-> 0] /\ noise = [c \in Conn |-> 0]
  /\ got = [c \in Conn |-> NoAnswer] /\ ans = [c \in Conn |-> NoAnswer]

Calling(c) == phase[c] \in {"sent", "await"}

-----------------------------------------------------------------------------
(* The clients *)

\* The client has left or the session has ended, and it has not cost a call yet.
Broken(c) ==
  (gone[c] \/ pc[c] \in {"closing", "closed"}) /\ phase[c] # "off"

\* A client connects, which the server accepts while it listens.
Connect(c) ==
  /\ life = "up" /\ pc[c] = "none"
  /\ pc' = [pc EXCEPT ![c] = "read"]
  /\ phase' = [phase EXCEPT ![c] = "fresh"]
  /\ UNCHANGED <<life, store, active, cur, rin, rout, gone, req, calls, noise,
                 got, ans>>

\* A connection that is closed is so for both.
Sends(c, m) ==
  /\ ~gone[c] /\ pc[c] # "closed"
  /\ rin' = [rin EXCEPT ![c] = Append(@, m)]

Route(c) ==
  /\ phase[c] = "fresh" /\ Sends(c, Plain("route"))
  /\ phase' = [phase EXCEPT ![c] = "route"]
  /\ UNCHANGED <<server, rout, gone, req, calls, noise, got, ans>>

\* The UDS payload of a request.
Encoded(r) ==
  IF r.op = "read" THEN <<"22", r.did[2]>> ELSE <<"2E", r.did[2]>> \o r.val

Diagnostic(r) == Carrying("diag", r.did[1], Encoded(r))

\* Something that the server should drop, a request before the activation
\* included.
Disturb(c) ==
  /\ phase[c] \in {"fresh", "idle"} /\ noise[c] < MaxNoise[c]
  /\ \/ \E t \in {"sync", "other", "short"} : Sends(c, Plain(t))
     \/ phase[c] = "fresh" /\ \E r \in Requests[c] : Sends(c, Diagnostic(r))
  /\ noise' = [noise EXCEPT ![c] = @ + 1]
  /\ UNCHANGED <<server, rout, gone, phase, req, calls, got, ans>>

Call(c, r) ==
  /\ phase[c] = "idle" /\ calls[c] < MaxCalls[c]
  /\ Sends(c, Diagnostic(r))
  /\ phase' = [phase EXCEPT ![c] = "sent"]
  /\ req' = [req EXCEPT ![c] = r]
  /\ calls' = [calls EXCEPT ![c] = @ + 1]
  /\ ans' = [ans EXCEPT ![c] = NoAnswer]
  /\ UNCHANGED <<server, rout, gone, noise, got>>

\* What a client makes of a response p of the device at address a.
Decoded(a, p) ==
  IF p = <<>> THEN NoAnswer
  ELSE CASE p[1] = "62" /\ Len(p) > 1 ->
              [kind |-> "value", did |-> <<a, p[2]>>, val |-> SubSeq(p, 3, Len(p))]
         [] p[1] = "6E" -> [kind |-> "written"]
         [] p[1] = "7F" -> [kind |-> "refused"]
         [] OTHER -> NoAnswer

Target(c) == req[c].did[1]

\* The client reads the message it waits for, of type t, and goes on to phase ph.
Reads(c, t, ph) ==
  /\ ~gone[c] /\ rout[c] # <<>> /\ Head(rout[c]).t = t
  /\ rout' = [rout EXCEPT ![c] = Tail(@)]
  /\ phase' = [phase EXCEPT ![c] = ph]
  /\ UNCHANGED <<server, rin, gone, req, calls, noise, ans>>

Routed(c) == phase[c] = "route" /\ Reads(c, "active", "idle") /\ UNCHANGED got

Acknowledged(c) ==
  /\ phase[c] = "sent" /\ Reads(c, "ack", "await")
  /\ Head(rout[c]).at = Target(c)
  /\ UNCHANGED got

Rejected(c) ==
  /\ phase[c] = "sent" /\ Reads(c, "nack", "idle")
  /\ got' = [got EXCEPT ![c] = [kind |-> "refused"]]

Return(c) ==
  /\ phase[c] = "await" /\ Reads(c, "diag", "idle")
  /\ got' = [got EXCEPT ![c] = Decoded(Head(rout[c]).at, Head(rout[c]).p)]

Listens(c) == Routed(c) \/ Acknowledged(c) \/ Rejected(c) \/ Return(c)

\* The client closes the connection, at any moment.
Leave(c) ==
  /\ ~gone[c] /\ pc[c] \notin {"none", "closed"}
  /\ gone' = [gone EXCEPT ![c] = TRUE]
  /\ rout' = [rout EXCEPT ![c] = <<>>]
  /\ UNCHANGED <<server, rin, client, ans>>

\* A call whose session is over and whose response will not come.
Fails(c) ==
  /\ Calling(c) /\ pc[c] = "closed" /\ rout[c] = <<>>
  /\ phase' = [phase EXCEPT ![c] = "off"]
  /\ got' = [got EXCEPT ![c] = NoAnswer]
  /\ UNCHANGED <<server, rin, rout, gone, req, calls, noise, ans>>

-----------------------------------------------------------------------------
(* The sessions *)

Write(c, m) == rout' = IF gone[c] THEN rout ELSE [rout EXCEPT ![c] = Append(@, m)]

\* drain() returns.
Drained(c) == Len(rout[c]) <= SockRoom[c] + HighWater

\* The session takes the next message off its stream.
Takes(c) ==
  /\ pc[c] = "read" /\ Drained(c) /\ rin[c] # <<>>
  /\ rin' = [rin EXCEPT ![c] = Tail(@)]

Incoming(c) == Head(rin[c])

\* Mutant of Dropped: a diagnostic message needs no routing activation.
DroppedAlways(m, on) == m.t \in {"sync", "other", "short"}

\* The messages that the session reads to the end and drops.
Dropped(m, on) == m.t \in {"sync", "other", "short"} \/ (m.t = "diag" /\ ~on)

Ignore(c) ==
  /\ Takes(c) /\ Dropped(Incoming(c), active[c])
  /\ UNCHANGED <<server, rout, gone, client, ans>>

Activate(c) ==
  /\ Takes(c) /\ Incoming(c).t = "route"
  /\ active' = [active EXCEPT ![c] = TRUE]
  /\ Write(c, Plain("active"))
  /\ UNCHANGED <<life, store, pc, cur, gone, client, ans>>

\* A diagnostic message for device a, which may not exist.
Accepts(c) ==
  Takes(c) /\ Incoming(c).t = "diag" /\ ~Dropped(Incoming(c), active[c])

Nack(c) ==
  /\ Accepts(c) /\ Incoming(c).at \notin Ecu
  /\ Write(c, Carrying("nack", Incoming(c).at, <<>>))
  /\ ans' = [ans EXCEPT ![c] = [kind |-> "refused"]]
  /\ UNCHANGED <<server, gone, client>>

\* Mutant of Ack: whether there is such a device is left to the dispatch.
AcksAll(c) ==
  /\ Accepts(c)
  /\ Write(c, Carrying("ack", Incoming(c).at, <<>>))
  /\ pc' = [pc EXCEPT ![c] = "acked"]
  /\ cur' = [cur EXCEPT ![c] = Incoming(c)]
  /\ UNCHANGED <<life, store, active, gone, client, ans>>

\* The acknowledgement goes out before anything is done.
Ack(c) ==
  /\ Accepts(c) /\ Incoming(c).at \in Ecu
  /\ Write(c, Carrying("ack", Incoming(c).at, <<>>))
  /\ pc' = [pc EXCEPT ![c] = "acked"]
  /\ cur' = [cur EXCEPT ![c] = Incoming(c)]
  /\ UNCHANGED <<life, store, active, gone, client, ans>>

Reply(c) == UdsReply(cur[c].p, store[cur[c].at])

Handled(c) ==
  store' = [store EXCEPT ![cur[c].at] = UdsStore(cur[c].p, @)]

\* What handle_uds_payload() may return for a reply p of the handler.
Faulted(p) == {Unframed(fs) : fs \in Injected(Segment(p))}

Answer(c, p) == Carrying("diag", cur[c].at, p)

\* Mutant of Dispatch: one session at a time.
WaitsItsTurn(c) ==
  /\ pc[c] = "acked" /\ Drained(c) /\ Segmentable(Reply(c))
  /\ \A o \in Conn \ {c} : pc[o] \in {"none", "closed"}
  /\ Handled(c)
  /\ ans' = [ans EXCEPT ![c] = Decoded(cur[c].at, Reply(c))]
  /\ \E p \in Faulted(Reply(c)) : cur' = [cur EXCEPT ![c] = Answer(c, p)]
  /\ pc' = [pc EXCEPT ![c] = "delay"]
  /\ UNCHANGED <<life, active, rin, rout, gone, client>>

\* handle_uds_payload(): the handler, the fault injector, and the response,
\* at once or after a delay.
Dispatch(c) ==
  /\ pc[c] = "acked" /\ Drained(c) /\ Segmentable(Reply(c))
  /\ Handled(c)
  /\ ans' = [ans EXCEPT ![c] = Decoded(cur[c].at, Reply(c))]
  /\ \E p \in Faulted(Reply(c)) :
       IF cur[c].at \in Delayed
       THEN /\ cur' = [cur EXCEPT ![c] = Answer(c, p)]
            /\ pc' = [pc EXCEPT ![c] = "delay"]
            /\ UNCHANGED rout
       ELSE /\ Write(c, Answer(c, p))
            /\ pc' = [pc EXCEPT ![c] = "read"]
            /\ cur' = [cur EXCEPT ![c] = Plain("none")]
  /\ UNCHANGED <<life, active, rin, gone, client>>

\* segment() raises: the handler has run and the session ends.
DispatchFails(c) ==
  /\ pc[c] = "acked" /\ Drained(c) /\ ~Segmentable(Reply(c))
  /\ Handled(c)
  /\ pc' = [pc EXCEPT ![c] = "closing"]
  /\ UNCHANGED <<life, active, cur, rin, rout, gone, client, ans>>

\* Mutant of Respond: the response is that of any session with one.
Crosses(c) ==
  /\ pc[c] = "delay"
  /\ \E o \in Conn : pc[o] = "delay" /\ Write(c, Answer(c, cur[o].p))
  /\ pc' = [pc EXCEPT ![c] = "read"]
  /\ cur' = [cur EXCEPT ![c] = Plain("none")]
  /\ UNCHANGED <<life, store, active, rin, gone, client, ans>>

Respond(c) ==
  /\ pc[c] = "delay"
  /\ Write(c, cur[c])
  /\ pc' = [pc EXCEPT ![c] = "read"]
  /\ cur' = [cur EXCEPT ![c] = Plain("none")]
  /\ UNCHANGED <<life, store, active, rin, gone, client, ans>>

\* Mutant of Lost: an end of the stream between two messages goes unnoticed.
OnlyInside(c) ==
  /\ pc[c] = "read" /\ gone[c] /\ rin[c] # <<>>
  /\ pc' = [pc EXCEPT ![c] = "closing"]
  /\ UNCHANGED <<life, store, active, cur, rin, rout, gone, client, ans>>

\* The client has left: readexactly() or drain() raises, whatever was sent
\* before and not read yet.
Lost(c) ==
  /\ pc[c] \in {"read", "acked"} /\ gone[c]
  /\ pc' = [pc EXCEPT ![c] = "closing"]
  /\ UNCHANGED <<life, store, active, cur, rin, rout, gone, client, ans>>

\* wait_closed() of the writer returns once all of the stream is in the sockets.
Close(c) ==
  /\ pc[c] = "closing" /\ Len(rout[c]) <= SockRoom[c]
  /\ pc' = [pc EXCEPT ![c] = "closed"]
  /\ rin' = [rin EXCEPT ![c] = <<>>]
  /\ cur' = [cur EXCEPT ![c] = Plain("none")]
  /\ UNCHANGED <<life, store, active, rout, gone, client, ans>>

Serves(c) ==
  \/ Ignore(c) \/ Activate(c) \/ Nack(c) \/ Ack(c) \/ Dispatch(c)
  \/ DispatchFails(c) \/ Respond(c) \/ Lost(c) \/ Close(c)

-----------------------------------------------------------------------------
(* Life cycle, in the order of main.py's _run_doip() *)

\* start_server() listens, or raises because the port is taken.
Start ==
  /\ life = "new"
  /\ life' \in {"up", "failed"}
  /\ UNCHANGED <<store, pc, active, cur, rin, rout, gone, client, ans>>

\* Server.close(), and wait_closed() waits.
Stop ==
  /\ life = "up" /\ TRUE \in Waits
  /\ life' = "stopping"
  /\ UNCHANGED <<store, pc, active, cur, rin, rout, gone, client, ans>>

Over(c) == pc[c] \in {"none", "closed"}

\* stop() returns, and run() with it: asyncio.run() cancels the sessions that
\* are left.
Returns ==
  /\ life' = "stopped"
  /\ pc' = [c \in Conn |->
              IF Over(c) THEN pc[c]
              ELSE IF pc[c] = "closing" THEN "closed" ELSE "closing"]
  /\ UNCHANGED <<store, active, cur, rin, rout, gone, client, ans>>

\* Mutant of StopReturns: stop() waits until nobody is connected any more.
NobodyLeft == life = "stopping" /\ (\A c \in Conn : pc[c] = "none") /\ Returns

\* wait_closed() waits for the connections, not for the sessions: a session
\* whose client has left may still be in its delay.
StopReturns == life = "stopping" /\ (\A c \in Conn : Over(c) \/ gone[c]) /\ Returns

StopAtOnce == life = "up" /\ FALSE \in Waits /\ Returns

-----------------------------------------------------------------------------
Next ==
  \/ Start \/ Stop \/ StopReturns \/ StopAtOnce
  \/ \E c \in Conn :
       \/ Connect(c) \/ Route(c) \/ Disturb(c) \/ Listens(c) \/ Leave(c) \/ Fails(c)
       \/ Serves(c)
       \/ \E r \in Requests[c] : Call(c, r)

Spec == Init /\ [][Next]_dvars

\* The event loop runs every session that can run, timers fire, and a closed
\* connection is noticed on both sides.  Eager clients read; the others may
\* leave everything unread.  Nobody is obliged to connect, call, leave or stop.
Fairness ==
  /\ WF_dvars(StopReturns /\ \A c \in Conn : Over(c))
  /\ \A c \in Conn : WF_dvars(Serves(c)) /\ WF_dvars(Fails(c))
  /\ \A c \in Eager : WF_dvars(Listens(c))

FairSpec == Spec /\ Fairness

-----------------------------------------------------------------------------
(* What the server promises *)

\* All the devices together are one atomic store to all clients: however the
\* sessions interleave and whoever leaves in the middle of a call, each call
\* takes effect once, at one instant, at the device it names, and returns the
\* outcome of that instant to the client that made it; a request before the
\* routing activation has no effect.  A call ends without an outcome only if
\* its session ended, and such an end costs this one call (doip.py:244).
Service ==
  INSTANCE RegisterService WITH
    Channel <- Conn, Request <- Requests,
    Registers <- Ecu \X Known,
    Guarded <- [c \in Conn |-> Ecu \X Protected],
    InitReg <- [x \in Ecu \X Known |-> InitStore[x[1]][x[2]]],
    reg <- [x \in Ecu \X Known |-> store[x[1]][x[2]]],
    status <- [c \in Conn |->
                 IF ~Calling(c) THEN "idle"
                 ELSE IF ans[c] = NoAnswer THEN "pending" ELSE "done"],
    request <- req, outcome <- ans, returned <- got,
    spare <- Cardinality({c \in Conn : Broken(c)})

IsAtomicStore == Service!ASpec

\* No data point that is reserved for Service 77 ever changes in DoIP mode,
\* in which there is no Service 77 (main.py:390-411).
ProtectedKeepTheirValue ==
  \A e \in Ecu : \A d \in Known \cap Protected : store[e][d] = InitStore[e][d]

\* Every call of a client that reads comes to an end, though others leave all
\* they are sent unread: a session that waits in drain() holds up nobody else.
CallsEnd == \A c \in Eager : Calling(c) ~> ~Calling(c)

\* Once stop() is waiting, it returns when the last client has left, in
\* whatever state its session is (doip.py:206-212).
StopEnds ==
  (life = "stopping" /\ \A c \in Conn : gone[c] \/ Over(c)) ~> (life = "stopped")

\* "read frames until connection closes" (doip.py:244): as long as the server
\* is up, a session ends because its client has left and for no other reason.
SessionsSurvive ==
  \A c \in Conn : life = "up" /\ pc[c] \in {"closing", "closed"} => gone[c]
=============================================================================
