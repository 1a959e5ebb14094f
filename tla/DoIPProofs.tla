----------------------------- MODULE DoIPProofs ----------------------------
(***************************************************************************)
(* Proofs about DoIP, for every set of connections, devices, requests and  *)
(* faults and for every frame size: type correctness, that no request over *)
(* DoIP ever changes a protected data point, and that, with the faults     *)
(* off, all devices together are one atomic store to all clients.          *)
(***************************************************************************)
EXTENDS DoIP, ProtocolProofs, FiniteSetTheorems

-----------------------------------------------------------------------------
(* Messages and outcomes *)

LEMMA PlainType ==
  \A t \in {"route", "active", "sync", "other", "short", "none"} : Plain(t) \in Msg
BY DEF Plain, Msg

LEMMA CarryingType ==
  \A t \in {"diag", "ack", "nack"}, a \in Addr, p \in Payload : Carrying(t, a, p) \in Msg
BY DEF Carrying, Msg

LEMMA DiagType ==
  ASSUME NEW m \in Msg, m.t = "diag"
  PROVE  m.at \in Addr /\ m.p \in Payload
BY DEF Msg

\* A request is a payload.
LEMMA EncodedType ==
  ASSUME NEW r \in DeviceRequest
  PROVE  Encoded(r) \in Payload /\ Diagnostic(r) \in Msg
<1>1. /\ r.did[1] \in Addr /\ r.did[2] \in Byte /\ r.val \in Seq(Byte)
      /\ "22" \in Byte /\ "2E" \in Byte
  BY DEF DeviceRequest, Byte, HeaderByte, Payload
<1>2. <<"22", r.did[2]>> \in Seq(Byte) /\ <<"2E", r.did[2]>> \in Seq(Byte)
  BY <1>1
<1>3. <<"2E", r.did[2]>> \o r.val \in Seq(Byte)
  BY <1>1, <1>2, ConcatProperties
<1>4. Encoded(r) \in Payload
  BY <1>2, <1>3 DEF Encoded, Payload
<1>5. QED
  BY <1>1, <1>4, CarryingType DEF Diagnostic

LEMMA DecodedType ==
  ASSUME NEW a \in Addr, NEW p \in Payload
  PROVE  Decoded(a, p) \in Outcome
<1>1. p \in Seq(Byte) /\ Len(p) \in Nat
  BY LenProperties DEF Payload
<1>2. NoAnswer \in Outcome
  BY DEF NoAnswer, Outcome
<1>3. ASSUME Len(p) > 1
      PROVE  [kind |-> "value", did |-> <<a, p[2]>>, val |-> SubSeq(p, 3, Len(p))]
               \in Outcome
  <2>1. p[2] \in Byte
    BY <1>1, <1>3, ElementOfSeq
  <2>2. SubSeq(p, 3, Len(p)) \in Payload
    BY <1>1, SliceType DEF Payload
  <2>3. QED
    BY <2>1, <2>2 DEF Outcome
<1>4. [kind |-> "written"] \in Outcome /\ [kind |-> "refused"] \in Outcome
  BY DEF Outcome
<1>5. QED
  BY <1>2, <1>3, <1>4 DEF Decoded

-----------------------------------------------------------------------------
(* Type correctness *)

LEMMA TypeInit == Init => TypeOK
<1> SUFFICES ASSUME Init PROVE TypeOK
  OBVIOUS
<1>1. <<>> \in Seq(Msg) /\ Plain("none") \in Msg /\ NoAnswer \in Outcome
  BY PlainType DEF NoAnswer, Outcome
<1>2. QED
  BY <1>1, DoIPAssumption DEF Init, TypeOK, PC, Phase

\* One more message in a stream.
LEMMA StreamType ==
  ASSUME NEW s \in [Conn -> Seq(Msg)], NEW c \in Conn, NEW m \in Msg
  PROVE  [s EXCEPT ![c] = Append(@, m)] \in [Conn -> Seq(Msg)]
<1>1. Append(s[c], m) \in Seq(Msg)
  OBVIOUS
<1>2. QED
  BY <1>1

\* One message less.
LEMMA ReadType ==
  ASSUME NEW s \in [Conn -> Seq(Msg)], NEW c \in Conn, s[c] # <<>>
  PROVE  /\ Head(s[c]) \in Msg
         /\ [s EXCEPT ![c] = Tail(@)] \in [Conn -> Seq(Msg)]
<1>1. Head(s[c]) \in Msg /\ Tail(s[c]) \in Seq(Msg)
  OBVIOUS
<1>2. QED
  BY <1>1

LEMMA WriteType ==
  ASSUME TypeOK, NEW c \in Conn, NEW m \in Msg, Write(c, m)
  PROVE  rout' \in [Conn -> Seq(Msg)]
<1>1. rout \in [Conn -> Seq(Msg)]
  BY DEF TypeOK
<1>2. QED
  BY <1>1, StreamType DEF Write

LEMMA SendsType ==
  ASSUME TypeOK, NEW c \in Conn, NEW m \in Msg, Sends(c, m)
  PROVE  rin' \in [Conn -> Seq(Msg)]
<1>1. rin \in [Conn -> Seq(Msg)]
  BY DEF TypeOK
<1>2. QED
  BY <1>1, StreamType DEF Sends

LEMMA TakesType ==
  ASSUME TypeOK, NEW c \in Conn, Takes(c)
  PROVE  Incoming(c) \in Msg /\ rin' \in [Conn -> Seq(Msg)]
<1>1. rin \in [Conn -> Seq(Msg)] /\ rin[c] # <<>>
  BY DEF TypeOK, Takes
<1>2. QED
  BY <1>1, ReadType DEF Takes, Incoming

\* The handler answers with a payload and leaves a store.
LEMMA HandledType ==
  ASSUME TypeOK, NEW c \in Conn, pc[c] = "acked"
  PROVE  /\ cur[c].at \in Ecu /\ cur[c].at \in Addr /\ cur[c].p \in Payload
         /\ Reply(c) \in Payload
         /\ \A p \in Faulted(Reply(c)) : p \in Payload
         /\ Handled(c) => store' \in [Ecu -> Store]
<1>1. cur[c] \in Msg /\ cur[c].at \in Ecu /\ store \in [Ecu -> Store]
  BY DEF TypeOK
<1>2. cur[c].p \in Payload /\ cur[c].at \in Addr
  <2>1. <<>> \in Payload
    BY DEF Payload
  <2>2. cur[c].at \in Addr
    BY <1>1, DoIPAssumption
  <2>3. QED
    BY <1>1, <2>1, <2>2 DEF Msg
<1>3. Reply(c) \in Payload
  BY <1>1, <1>2, UdsReplyType DEF Reply
<1>4. \A p \in Faulted(Reply(c)) : p \in Payload
  BY <1>3, UnframedType DEF Faulted
<1>5. UdsStore(cur[c].p, store[cur[c].at]) \in Store
  BY <1>1, <1>2, UdsStoreType
<1>6. QED
  BY <1>1, <1>2, <1>3, <1>4, <1>5 DEF Handled

\* A counter below its bound counts one more.
LEMMA CountType ==
  ASSUME NEW n \in [Conn -> Nat], NEW m \in [Conn -> Nat], NEW c \in Conn,
         n[c] < m[c], \A x \in Conn : n[x] <= m[x]
  PROVE  /\ [n EXCEPT ![c] = @ + 1] \in [Conn -> Nat]
         /\ \A x \in Conn : [n EXCEPT ![c] = @ + 1][x] <= m[x]
<1>1. n[c] + 1 \in Nat /\ n[c] + 1 <= m[c]
  OBVIOUS
<1>2. QED
  BY <1>1

\* The steps of a client.
LEMMA ClientType ==
  ASSUME TypeOK, NEW c \in Conn,
         \/ Connect(c) \/ Route(c) \/ Disturb(c) \/ Listens(c) \/ Leave(c) \/ Fails(c)
         \/ \E r \in Requests[c] : Call(c, r)
  PROVE  TypeOK'
<1> USE DEF TypeOK
<1>0. \A r \in Requests[c] : r \in DeviceRequest
  BY DoIPAssumption
<1>1. CASE Connect(c)
  BY <1>1 DEF Connect, PC, Phase
<1>2. CASE Route(c)
  BY <1>2, PlainType, SendsType DEF Route, server, Phase
<1>3. CASE Disturb(c)
  <2>1. rin' \in [Conn -> Seq(Msg)]
    BY <1>0, <1>3, PlainType, EncodedType, SendsType DEF Disturb
  <2>2. noise' \in [Conn -> Nat] /\ \A x \in Conn : noise'[x] <= MaxNoise[x]
    <3>1. /\ noise \in [Conn -> Nat] /\ MaxNoise \in [Conn -> Nat]
          /\ \A x \in Conn : noise[x] <= MaxNoise[x]
      BY DoIPAssumption
    <3>2. noise[c] < MaxNoise[c] /\ noise' = [noise EXCEPT ![c] = @ + 1]
      BY <1>3 DEF Disturb
    <3> HIDE DEF TypeOK
    <3>3. QED
      BY <3>1, <3>2, CountType
  <2>3. QED
    BY <1>3, <2>1, <2>2 DEF Disturb, server
<1>4. CASE Listens(c)
  <2> DEFINE m == Head(rout[c])
  <2>1. PICK t \in {"active", "ack", "nack", "diag"}, ph \in {"idle", "await"} :
          Reads(c, t, ph)
    BY <1>4 DEF Listens, Routed, Acknowledged, Rejected, Return
  <2>2. m \in Msg /\ rout' \in [Conn -> Seq(Msg)]
    BY <2>1, ReadType DEF Reads
  <2>3. phase' \in [Conn -> Phase]
    BY <2>1 DEF Reads, Phase
  <2>4. got' \in [Conn -> Outcome]
    <3>1. [kind |-> "refused"] \in Outcome
      BY DEF Outcome
    <3>2. m.t = "diag" => Decoded(m.at, m.p) \in Outcome
      BY <2>2, DiagType, DecodedType
    <3>3. \/ UNCHANGED got
          \/ got' = [got EXCEPT ![c] = [kind |-> "refused"]]
          \/ m.t = "diag" /\ got' = [got EXCEPT ![c] = Decoded(m.at, m.p)]
      BY <1>4 DEF Listens, Routed, Acknowledged, Rejected, Return, Reads
    <3>4. got \in [Conn -> Outcome]
      OBVIOUS
    <3> HIDE DEF TypeOK, m
    <3>5. QED
      BY <3>1, <3>2, <3>3, <3>4
  <2>5. QED
    BY <2>1, <2>2, <2>3, <2>4 DEF Reads, server
<1>5. CASE Leave(c)
  <2>1. <<>> \in Seq(Msg)
    OBVIOUS
  <2>2. QED
    BY <1>5, <2>1 DEF Leave, server, client
<1>6. CASE Fails(c)
  BY <1>6 DEF Fails, server, Phase, NoAnswer, Outcome
<1>7. ASSUME NEW r \in Requests[c], Call(c, r)
      PROVE  TypeOK'
  <2>1. rin' \in [Conn -> Seq(Msg)]
    BY <1>0, <1>7, EncodedType, SendsType DEF Call
  <2>2. calls' \in [Conn -> Nat] /\ \A x \in Conn : calls'[x] <= MaxCalls[x]
    <3>1. /\ calls \in [Conn -> Nat] /\ MaxCalls \in [Conn -> Nat]
          /\ \A x \in Conn : calls[x] <= MaxCalls[x]
      BY DoIPAssumption
    <3>2. calls[c] < MaxCalls[c] /\ calls' = [calls EXCEPT ![c] = @ + 1]
      BY <1>7 DEF Call
    <3> HIDE DEF TypeOK
    <3>3. QED
      BY <3>1, <3>2, CountType
  <2>3. phase' \in [Conn -> Phase] /\ ans' \in [Conn -> Outcome]
        /\ req' \in [Conn -> DeviceRequest \cup {NoRequest}]
    BY <1>0, <1>7 DEF Call, Phase, NoAnswer, Outcome
  <2>4. QED
    BY <1>7, <2>1, <2>2, <2>3 DEF Call, server
<1>8. QED
  BY <1>1, <1>2, <1>3, <1>4, <1>5, <1>6, <1>7

\* The steps of a session.
LEMMA ServesType ==
  ASSUME TypeOK, NEW c \in Conn, Serves(c)
  PROVE  TypeOK'
<1>0. Plain("none") \in Msg /\ Plain("active") \in Msg
  BY PlainType
<1>1. CASE Ignore(c)
  BY <1>1, TakesType DEF Ignore, server, client, TypeOK
<1>2. CASE Activate(c)
  BY <1>0, <1>2, TakesType, WriteType DEF Activate, client, TypeOK
<1>3. CASE Nack(c)
  <2>1. Incoming(c) \in Msg /\ Incoming(c).t = "diag" /\ rin' \in [Conn -> Seq(Msg)]
    BY <1>3, TakesType DEF Nack, Accepts
  <2>2. Carrying("nack", Incoming(c).at, <<>>) \in Msg
    BY <2>1, DiagType, CarryingType, EmptySeq DEF Payload
  <2>3. rout' \in [Conn -> Seq(Msg)]
    BY <1>3, <2>2, WriteType DEF Nack
  <2>4. QED
    BY <1>3, <2>1, <2>3 DEF Nack, server, client, TypeOK, Outcome
<1>4. CASE Ack(c)
  <2>1. Incoming(c) \in Msg /\ Incoming(c).t = "diag" /\ rin' \in [Conn -> Seq(Msg)]
    BY <1>4, TakesType DEF Ack, Accepts
  <2>2. Carrying("ack", Incoming(c).at, <<>>) \in Msg
    BY <2>1, DiagType, CarryingType, EmptySeq DEF Payload
  <2>3. rout' \in [Conn -> Seq(Msg)]
    BY <1>4, <2>2, WriteType DEF Ack
  <2>4. QED
    BY <1>4, <2>1, <2>3 DEF Ack, client, TypeOK, PC
<1>5. CASE Dispatch(c)
  <2>1. /\ cur[c].at \in Addr /\ Reply(c) \in Payload /\ store' \in [Ecu -> Store]
        /\ \A p \in Faulted(Reply(c)) : Answer(c, p) \in Msg
    BY <1>5, HandledType, CarryingType DEF Dispatch, Answer
  <2>2. ans' \in [Conn -> Outcome]
    BY <1>5, <2>1, DecodedType DEF Dispatch, TypeOK
  <2>3. rout' \in [Conn -> Seq(Msg)] /\ cur' \in [Conn -> Msg] /\ pc' \in [Conn -> PC]
    <3>1. PICK p \in Faulted(Reply(c)) :
            \/ /\ cur' = [cur EXCEPT ![c] = Answer(c, p)]
               /\ pc' = [pc EXCEPT ![c] = "delay"]
               /\ UNCHANGED rout
            \/ /\ Write(c, Answer(c, p))
               /\ pc' = [pc EXCEPT ![c] = "read"]
               /\ cur' = [cur EXCEPT ![c] = Plain("none")]
      BY <1>5 DEF Dispatch
    <3>2. rout' \in [Conn -> Seq(Msg)]
      BY <2>1, <3>1, WriteType DEF TypeOK
    <3>3. cur \in [Conn -> Msg] /\ pc \in [Conn -> PC]
      BY DEF TypeOK
    <3>4. cur' \in [Conn -> Msg]
      BY <1>0, <2>1, <3>1, <3>3
    <3>5. pc' \in [Conn -> PC]
      BY <3>1, <3>3 DEF PC
    <3>6. QED
      BY <3>2, <3>4, <3>5
  <2>4. \A x \in Conn : pc'[x] = "acked" => cur'[x].at \in Ecu
    BY <1>5 DEF Dispatch, TypeOK
  <2>5. QED
    BY <1>5, <2>1, <2>2, <2>3, <2>4 DEF Dispatch, client, TypeOK
<1>6. CASE DispatchFails(c)
  <2>1. store' \in [Ecu -> Store]
    BY <1>6, HandledType DEF DispatchFails
  <2>2. QED
    BY <1>6, <2>1 DEF DispatchFails, client, TypeOK, PC
<1>7. CASE Respond(c)
  <2>1. rout' \in [Conn -> Seq(Msg)]
    BY <1>7, WriteType DEF Respond, TypeOK
  <2>2. QED
    BY <1>0, <1>7, <2>1 DEF Respond, client, TypeOK, PC
<1>8. CASE Lost(c)
  BY <1>8 DEF Lost, client, TypeOK, PC
<1>9. CASE Close(c)
  <2>1. <<>> \in Seq(Msg)
    OBVIOUS
  <2>2. QED
    BY <1>0, <1>9, <2>1 DEF Close, client, TypeOK, PC
<1>10. QED
  BY <1>1, <1>2, <1>3, <1>4, <1>5, <1>6, <1>7, <1>8, <1>9 DEF Serves

LEMMA TypeStep == TypeOK /\ [Next]_dvars => TypeOK'
<1> SUFFICES ASSUME TypeOK, [Next]_dvars
             PROVE  TypeOK'
  OBVIOUS
<1>1. CASE UNCHANGED dvars
  BY <1>1 DEF TypeOK, dvars, server, client
<1>2. CASE Start \/ Stop
  BY <1>2 DEF Start, Stop, TypeOK, client
<1>3. CASE StopReturns \/ StopAtOnce
  <2>1. Returns
    BY <1>3 DEF StopReturns, StopAtOnce
  <2>2. pc' \in [Conn -> PC] /\ \A c \in Conn : pc'[c] = "acked" => pc[c] = "acked"
    BY <2>1 DEF Returns, Over, TypeOK, PC
  <2>3. QED
    BY <2>1, <2>2 DEF Returns, TypeOK, client
<1>4. QED
  BY <1>1, <1>2, <1>3, ClientType, ServesType DEF Next

\* The server and its clients keep their types, whatever requests, devices,
\* faults and disturbances there are.
THEOREM TypeCorrect == Spec => []TypeOK
BY TypeInit, TypeStep, PTL DEF Spec

-----------------------------------------------------------------------------
(* Protected data points *)

LEMMA HandledKeeps ==
  ASSUME TypeOK, ProtectedKeepTheirValue, NEW c \in Conn, pc[c] = "acked", Handled(c)
  PROVE  ProtectedKeepTheirValue'
<1> SUFFICES ASSUME NEW e \in Ecu, NEW d \in Known \cap Protected
             PROVE  store'[e][d] = InitStore[e][d]
  BY DEF ProtectedKeepTheirValue
<1>1. /\ cur[c].at \in Ecu /\ cur[c].p \in Payload
      /\ store \in [Ecu -> Store] /\ store[e][d] = InitStore[e][d]
  BY HandledType DEF TypeOK, ProtectedKeepTheirValue
<1>2. store[cur[c].at] \in Store
  BY <1>1
<1>3. UdsStore(cur[c].p, store[cur[c].at])[d] = store[cur[c].at][d]
  BY <1>1, <1>2, UdsKeepsProtected
<1>4. CASE e = cur[c].at
  BY <1>1, <1>3, <1>4 DEF Handled
<1>5. CASE e # cur[c].at
  BY <1>1, <1>5 DEF Handled
<1>6. QED
  BY <1>4, <1>5

\* In DoIP mode nothing changes a protected data point, for every set of them
\* and of devices: the one handler there is refuses it (uds.py:146).
THEOREM ProtectedHolds == Spec => []ProtectedKeepTheirValue
<1>1. Init => ProtectedKeepTheirValue
  BY DEF Init, ProtectedKeepTheirValue
<1>2. TypeOK /\ ProtectedKeepTheirValue /\ [Next]_dvars => ProtectedKeepTheirValue'
  <2> SUFFICES ASSUME TypeOK, ProtectedKeepTheirValue, [Next]_dvars
               PROVE  ProtectedKeepTheirValue'
    OBVIOUS
  <2>1. ASSUME NEW c \in Conn, Dispatch(c) \/ DispatchFails(c)
        PROVE  ProtectedKeepTheirValue'
    BY <2>1, HandledKeeps DEF Dispatch, DispatchFails
  <2>2. ASSUME NEW c \in Conn, Serves(c), ~Dispatch(c), ~DispatchFails(c)
        PROVE  UNCHANGED store
    BY <2>2 DEF Serves, Ignore, Activate, Nack, Ack, Respond, Lost, Close, server
  <2>3. ASSUME NEW c \in Conn,
               \/ Connect(c) \/ Route(c) \/ Disturb(c) \/ Listens(c) \/ Leave(c)
               \/ Fails(c) \/ \E r \in Requests[c] : Call(c, r)
        PROVE  UNCHANGED store
    BY <2>3 DEF Connect, Route, Disturb, Listens, Routed, Acknowledged, Rejected, Return,
                Reads, Leave, Fails, Call, server
  <2>4. ASSUME Start \/ Stop \/ StopReturns \/ StopAtOnce \/ UNCHANGED dvars
        PROVE  UNCHANGED store
    BY <2>4 DEF Start, Stop, StopReturns, StopAtOnce, Returns, dvars, server
  <2>5. UNCHANGED store => ProtectedKeepTheirValue'
    BY DEF ProtectedKeepTheirValue
  <2>6. QED
    BY <2>1, <2>2, <2>3, <2>4, <2>5 DEF Next
<1>3. QED
  BY <1>1, <1>2, TypeCorrect, PTL DEF Spec

-----------------------------------------------------------------------------
(* What a request does at its device                                       *)

LEMMA PairConcat ==
  ASSUME NEW a \in Byte, NEW b \in Byte, NEW v \in Payload
  PROVE  LET q == <<a, b>> \o v
         IN  /\ q \in Payload /\ q # <<>> /\ Len(q) = 2 + Len(v) /\ Len(v) \in Nat
             /\ q[1] = a /\ q[2] = b /\ SubSeq(q, 3, Len(q)) = v
<1> DEFINE h == <<a, b>>  q == h \o v
<1>1. /\ h \in Seq(Byte) /\ Len(h) = 2 /\ h[1] = a /\ h[2] = b
      /\ v \in Seq(Byte) /\ Len(v) \in Nat
  BY LenProperties DEF Payload
<1> HIDE DEF h
<1>2. /\ q \in Seq(Byte) /\ Len(q) = 2 + Len(v)
      /\ \A i \in 1 .. 2 + Len(v) : q[i] = IF i <= 2 THEN h[i] ELSE v[i - 2]
  <2>1. /\ q \in Seq(Byte) /\ Len(q) = Len(h) + Len(v)
        /\ \A i \in 1 .. Len(h) + Len(v) : q[i] = IF i <= Len(h) THEN h[i] ELSE v[i - Len(h)]
    BY <1>1, ConcatProperties
  <2>2. QED
    BY <1>1, <2>1
<1> HIDE DEF q
<1>3. q[1] = a /\ q[2] = b
  BY <1>1, <1>2
<1>4. q # <<>>
  BY <1>1, <1>2, EmptySeq
<1>5. SubSeq(q, 3, Len(q)) = v
  <2> DEFINE s == SubSeq(q, 3, Len(q))
  <2>1. \A k \in 3 .. Len(q) : q[k] \in Byte
    BY <1>1, <1>2, ElementOfSeq
  <2>2. /\ s \in Seq(Byte)
        /\ Len(s) = IF 3 <= Len(q) THEN Len(q) - 3 + 1 ELSE 0
        /\ \A i \in 1 .. Len(q) - 3 + 1 : s[i] = q[3 + i - 1]
    BY <1>1, <1>2, <2>1, SubSeqProperties
  <2> HIDE DEF s
  <2>3. Len(s) = Len(v)
    BY <1>1, <1>2, <2>2
  <2>4. \A i \in 1 .. Len(v) : s[i] = v[i]
    BY <1>1, <1>2, <2>2
  <2>5. s = v
    BY <1>1, <2>2, <2>3, <2>4, SeqEqual
  <2>6. QED
    BY <2>5 DEF s
<1>6. q \in Payload
  BY <1>2 DEF Payload
<1>7. QED
  BY <1>1, <1>2, <1>3, <1>4, <1>5, <1>6 DEF q, h

\* The requests that the service promises to answer: a write carries a value.
Answerable == \A c \in Conn : \A r \in Requests[c] : r.op = "write" => r.val # <<>>

\* The device with this store does not do what r asks for.
Declines(r) == r.did[2] \notin Known \/ (r.op = "write" /\ r.did[2] \in Protected)

OutcomeOf(r, st) ==
  IF Declines(r) THEN [kind |-> "refused"]
  ELSE IF r.op = "write" THEN [kind |-> "written"]
  ELSE [kind |-> "value", did |-> r.did, val |-> st[r.did[2]]]

LEMMA NegativeDecoded ==
  \A a, s, n : Decoded(a, Negative(s, n)) = [kind |-> "refused"]
BY EmptySeq DEF Decoded, Negative

LEMMA RequestParts ==
  ASSUME NEW r \in DeviceRequest
  PROVE  /\ r.op \in {"read", "write"} /\ r.did = <<r.did[1], r.did[2]>>
         /\ r.did[1] \in Addr /\ r.did[2] \in Did /\ r.did[2] \in Byte
         /\ r.val \in Payload /\ "22" \in Byte /\ "2E" \in Byte /\ "62" \in Byte
BY DEF DeviceRequest, Byte, HeaderByte

\* Handler and client agree on what a read request and its reply mean.
LEMMA ReadDone ==
  ASSUME NEW r \in DeviceRequest, NEW st \in Store, r.op = "read"
  PROVE  /\ Decoded(r.did[1], UdsReply(Encoded(r), st)) = OutcomeOf(r, st)
         /\ UdsStore(Encoded(r), st) = st
<1> DEFINE d == r.did[2]  p == <<"22", d>>
<1>1. Encoded(r) = p /\ p # <<>> /\ Len(p) = 2 /\ p[1] = "22" /\ p[2] = d
  BY DEF Encoded
<1>2. UdsStore(p, st) = st
  BY <1>1 DEF UdsStore
<1>3. UdsReply(p, st) = IF d \notin Known THEN Negative("22", "31") ELSE <<"62", d>> \o st[d]
  BY <1>1 DEF UdsReply, ReadReply
<1> HIDE DEF p
<1>4. CASE d \notin Known
  BY <1>1, <1>2, <1>3, <1>4, NegativeDecoded DEF OutcomeOf, Declines
<1>5. CASE d \in Known
  <2> DEFINE q == <<"62", d>> \o st[d]
  <2>1. st[d] \in Payload
    BY <1>5 DEF Store
  <2>2. /\ q # <<>> /\ Len(q) = 2 + Len(st[d]) /\ Len(st[d]) \in Nat
        /\ q[1] = "62" /\ q[2] = d /\ SubSeq(q, 3, Len(q)) = st[d]
    BY <2>1, RequestParts, PairConcat
  <2> HIDE DEF q
  <2>3. Decoded(r.did[1], q) = [kind |-> "value", did |-> <<r.did[1], d>>, val |-> st[d]]
    <3>1. q # <<>> /\ q[1] = "62" /\ Len(q) > 1
      BY <2>2
    <3>2. Decoded(r.did[1], q) =
            [kind |-> "value", did |-> <<r.did[1], q[2]>>, val |-> SubSeq(q, 3, Len(q))]
      BY <3>1, Zenon DEF Decoded
    <3>3. QED
      BY <2>2, <3>2
  <2>4. OutcomeOf(r, st) = [kind |-> "value", did |-> <<r.did[1], d>>, val |-> st[d]]
    BY <1>5, RequestParts DEF OutcomeOf, Declines
  <2>5. UdsReply(p, st) = q
    BY <1>3, <1>5 DEF q
  <2>6. QED
    BY <1>1, <1>2, <2>3, <2>4, <2>5
<1>6. QED
  BY <1>4, <1>5

\* And a write request; a write that is done has a reply that can be sent.
LEMMA WriteDone ==
  ASSUME NEW r \in DeviceRequest, NEW st \in Store, r.op = "write", r.val # <<>>
  PROVE  /\ Decoded(r.did[1], UdsReply(Encoded(r), st)) = OutcomeOf(r, st)
         /\ UdsStore(Encoded(r), st) =
              IF Declines(r) THEN st ELSE [st EXCEPT ![r.did[2]] = r.val]
         /\ Declines(r) \/ Segmentable(UdsReply(Encoded(r), st))
<1> DEFINE d == r.did[2]  p == <<"2E", d>> \o r.val
<1>1. Encoded(r) = p
  BY DEF Encoded
<1>2. /\ p # <<>> /\ Len(p) >= 3 /\ p[1] = "2E" /\ p[2] = d /\ WriteData(p) = r.val
  <2>1. /\ p # <<>> /\ Len(p) = 2 + Len(r.val) /\ Len(r.val) \in Nat
        /\ p[1] = "2E" /\ p[2] = d /\ SubSeq(p, 3, Len(p)) = r.val
    BY RequestParts, PairConcat
  <2>2. Len(r.val) # 0
    BY RequestParts, EmptySeq DEF Payload
  <2> HIDE DEF p
  <2>3. QED
    BY <2>1, <2>2 DEF WriteData
<1> HIDE DEF p
<1>3. UdsReply(p, st) = IF d \in Protected THEN Negative("2E", "22")
                        ELSE IF d \notin Known THEN Negative("2E", "31")
                        ELSE <<"6E", d>>
  BY <1>2 DEF UdsReply, WriteReply, WriteAllowed
<1>4. UdsStore(p, st) = IF d \in Protected \/ d \notin Known THEN st
                        ELSE [st EXCEPT ![d] = r.val]
  BY <1>2 DEF UdsStore, WriteAllowed, StoreWritten
<1>5. Decoded(r.did[1], <<"6E", d>>) = [kind |-> "written"]
  BY DEF Decoded
<1>6. Segmentable(<<"6E", d>>)
  BY IsoTpAssumption DEF Segmentable
<1>7. CASE Declines(r)
  BY <1>1, <1>3, <1>4, <1>7, NegativeDecoded DEF OutcomeOf, Declines
<1>8. CASE ~Declines(r)
  BY <1>1, <1>3, <1>4, <1>5, <1>6, <1>8 DEF OutcomeOf, Declines
<1>9. QED
  BY <1>7, <1>8

-----------------------------------------------------------------------------
(* One call at a time: what a session and its client hold at each stage     *)

Droppable == {"sync", "other", "short"}

\* The answer that the handler computed for the current call.
IsAnswer(c, m) ==
  m.t = "diag" /\ Decoded(m.at, m.p) = ans[c] /\ ans[c] # NoAnswer

\* Before the call is made there is nothing to read but what is dropped.
BeforeCalls(c) ==
  /\ pc[c] = "none" =>
       phase[c] = "off" /\ ~gone[c] /\ ~active[c] /\ rin[c] = <<>> /\ rout[c] = <<>>
  /\ phase[c] = "off" => pc[c] \in {"none", "closed"}
  /\ phase[c] \in {"fresh", "route", "idle"} => pc[c] \in {"read", "closing", "closed"}
  /\ phase[c] = "fresh" =>
       ~active[c] /\ rout[c] = <<>> /\ \A k \in DOMAIN rin[c] : rin[c][k].t # "route"
  /\ phase[c] = "route" =>
       IF active[c] THEN rin[c] = <<>> /\ Len(rout[c]) <= 1
       ELSE /\ rout[c] = <<>>
            /\ \A k \in DOMAIN rin[c] : k < Len(rin[c]) => rin[c][k].t # "route"
  /\ phase[c] = "idle" =>
       rout[c] = <<>> /\ \A k \in DOMAIN rin[c] : rin[c][k].t \in Droppable

\* The request is in the stream, or acknowledged, or answered.
Asked(c) ==
  /\ req[c] \in Requests[c]
  /\ \A k \in DOMAIN rin[c] :
       rin[c][k].t \in Droppable \/ (k = Len(rin[c]) /\ rin[c][k] = Diagnostic(req[c]))
  /\ rin[c] # <<>> => phase[c] = "sent" /\ rout[c] = <<>> /\ ans[c] = NoAnswer
  /\ pc[c] = "acked" => cur[c] = Diagnostic(req[c]) /\ ans[c] = NoAnswer
  /\ pc[c] = "delay" => IsAnswer(c, cur[c])
  /\ pc[c] \in {"acked", "delay"} =>
       rin[c] = <<>> /\ \A k \in DOMAIN rout[c] : rout[c][k].t = "ack"

\* Of what the client has not read only the last message ends the call.
Unread(c) ==
  \A k \in DOMAIN rout[c] :
    /\ rout[c][k].t = "nack" => ans[c] = [kind |-> "refused"]
    /\ rout[c][k].t = "diag" => IsAnswer(c, rout[c][k])
    /\ rout[c][k].t # "ack" => k = Len(rout[c])

OneCall(c) == BeforeCalls(c) /\ (Calling(c) => Asked(c) /\ Unread(c))

CallInv == \A c \in Conn : OneCall(c)

LEMMA CallInit == Init => CallInv
BY DEF Init, CallInv, OneCall, BeforeCalls, Calling

-----------------------------------------------------------------------------
(* Streams *)

LEMMA StreamFacts ==
  ASSUME NEW s \in Seq(Msg)
  PROVE  /\ Len(s) \in Nat /\ DOMAIN s = 1 .. Len(s)
         /\ s # <<>> =>
              /\ 1 \in DOMAIN s /\ Head(s) = s[1] /\ s[1] \in Msg /\ Len(s) \in DOMAIN s
              /\ Tail(s) \in Seq(Msg) /\ Len(Tail(s)) = Len(s) - 1
              /\ \A k \in DOMAIN Tail(s) : k + 1 \in DOMAIN s /\ Tail(s)[k] = s[k + 1]
              /\ Len(s) <= 1 => Tail(s) = <<>>
<1>1. Len(s) \in Nat /\ DOMAIN s = 1 .. Len(s)
  BY LenProperties
<1>2. ASSUME s # <<>>
      PROVE  /\ Len(s) \in Nat \ {0} /\ Head(s) = s[1]
             /\ Tail(s) \in Seq(Msg) /\ Len(Tail(s)) = Len(s) - 1
             /\ DOMAIN Tail(s) = 1 .. Len(s) - 1
             /\ \A k \in 1 .. Len(s) - 1 : Tail(s)[k] = s[k + 1]
  <2>1. /\ Tail(s) \in Seq(Msg) /\ Len(Tail(s)) = Len(s) - 1 /\ Len(s) \in Nat \ {0}
        /\ \A k \in 1 .. Len(Tail(s)) : Tail(s)[k] = s[k + 1]
    BY <1>1, <1>2, HeadTailProperties, EmptySeq
  <2>2. DOMAIN Tail(s) = 1 .. Len(Tail(s))
    BY <2>1, LenProperties
  <2>3. QED
    BY <2>1, <2>2
<1>3. ASSUME s # <<>>
      PROVE  /\ 1 \in DOMAIN s /\ s[1] \in Msg /\ Len(s) \in DOMAIN s
             /\ \A k \in DOMAIN Tail(s) : k + 1 \in DOMAIN s /\ Tail(s)[k] = s[k + 1]
             /\ Len(s) <= 1 => Tail(s) = <<>>
  <2>1. 1 \in DOMAIN s /\ Len(s) \in DOMAIN s
    BY <1>1, <1>2, <1>3
  <2>2. s[1] \in Msg
    BY <1>1, <2>1, ElementOfSeq
  <2>3. \A k \in DOMAIN Tail(s) : k + 1 \in DOMAIN s /\ Tail(s)[k] = s[k + 1]
    BY <1>1, <1>2, <1>3
  <2>4. Len(s) <= 1 => Tail(s) = <<>>
    BY <1>2, <1>3, EmptySeq
  <2>5. QED
    BY <2>1, <2>2, <2>3, <2>4
<1>4. QED
  BY <1>1, <1>2, <1>3

LEMMA AppendFacts ==
  ASSUME NEW s \in Seq(Msg), NEW m \in Msg
  PROVE  /\ Append(s, m) \in Seq(Msg) /\ Append(s, m) # <<>>
         /\ Len(Append(s, m)) = Len(s) + 1 /\ DOMAIN Append(s, m) = 1 .. Len(s) + 1
         /\ Append(s, m)[Len(s) + 1] = m
         /\ \A k \in DOMAIN Append(s, m) :
              \/ k \in DOMAIN s /\ k <= Len(s) /\ Append(s, m)[k] = s[k]
              \/ k = Len(s) + 1 /\ Append(s, m)[k] = m
<1>1. Len(s) \in Nat /\ DOMAIN s = 1 .. Len(s)
  BY LenProperties
<1>2. /\ Append(s, m) \in Seq(Msg) /\ Len(Append(s, m)) = Len(s) + 1
      /\ \A k \in 1 .. Len(s) : Append(s, m)[k] = s[k]
      /\ Append(s, m)[Len(s) + 1] = m
  BY <1>1, AppendProperties
<1>3. DOMAIN Append(s, m) = 1 .. Len(s) + 1
  BY <1>2, LenProperties
<1>4. Append(s, m) # <<>>
  BY <1>1, <1>2, EmptySeq
<1>5. QED
  BY <1>1, <1>2, <1>3, <1>4

\* A connection that a step leaves alone.
Same(o) ==
  /\ pc'[o] = pc[o] /\ active'[o] = active[o] /\ cur'[o] = cur[o]
  /\ rin'[o] = rin[o] /\ rout'[o] = rout[o] /\ gone'[o] = gone[o]
  /\ phase'[o] = phase[o] /\ req'[o] = req[o] /\ ans'[o] = ans[o]

LEMMA CallStepOf ==
  ASSUME CallInv, NEW c \in Conn, \A o \in Conn \ {c} : Same(o), OneCall(c)'
  PROVE  CallInv'
<1>1. ASSUME NEW o \in Conn \ {c} PROVE OneCall(o)'
  <2>1. OneCall(o) /\ Same(o)
    BY DEF CallInv
  <2>2. BeforeCalls(o)'
    BY <2>1 DEF OneCall, Same, BeforeCalls
  <2>3. Calling(o)' => Asked(o)' /\ Unread(o)'
    BY <2>1 DEF OneCall, Same, Calling, Asked, Unread, IsAnswer
  <2>4. QED
    BY <2>2, <2>3 DEF OneCall
<1>2. QED
  BY <1>1 DEF CallInv

\* What the type invariant says of one connection.
LEMMA OneType ==
  ASSUME TypeOK, NEW c \in Conn
  PROVE  /\ pc[c] \in PC /\ phase[c] \in Phase /\ rin[c] \in Seq(Msg)
         /\ rout[c] \in Seq(Msg) /\ cur[c] \in Msg
BY DEF TypeOK

-----------------------------------------------------------------------------
(* The steps of a client *)

LEMMA ConnectCall ==
  ASSUME TypeOK, CallInv, NEW c \in Conn, Connect(c)
  PROVE  CallInv'
<1>1. /\ \A o \in Conn \ {c} : Same(o)
      /\ pc[c] = "none" /\ pc'[c] = "read" /\ phase'[c] = "fresh"
      /\ rin'[c] = rin[c] /\ rout'[c] = rout[c] /\ active'[c] = active[c]
  BY DEF Connect, TypeOK, Same
<1>2. rin[c] = <<>> /\ rout[c] = <<>> /\ ~active[c]
  BY <1>1 DEF CallInv, OneCall, BeforeCalls
<1>3. OneCall(c)'
  BY <1>1, <1>2 DEF OneCall, BeforeCalls, Calling
<1>4. QED
  BY <1>1, <1>3, CallStepOf

LEMMA RouteCall ==
  ASSUME TypeOK, CallInv, NEW c \in Conn, Route(c)
  PROVE  CallInv'
<1>1. /\ \A o \in Conn \ {c} : Same(o)
      /\ phase[c] = "fresh" /\ phase'[c] = "route" /\ pc'[c] = pc[c]
      /\ rin'[c] = Append(rin[c], Plain("route"))
      /\ rout'[c] = rout[c] /\ active'[c] = active[c]
  BY DEF Route, Sends, TypeOK, Same, server
<1>2. /\ ~active[c] /\ rout[c] = <<>> /\ \A k \in DOMAIN rin[c] : rin[c][k].t # "route"
      /\ pc[c] \in {"read", "closing", "closed"}
  BY <1>1 DEF CallInv, OneCall, BeforeCalls
<1>3. /\ Len(rin'[c]) = Len(rin[c]) + 1
      /\ \A k \in DOMAIN rin'[c] :
           \/ k \in DOMAIN rin[c] /\ k <= Len(rin[c]) /\ rin'[c][k] = rin[c][k]
           \/ k = Len(rin[c]) + 1
  BY <1>1, OneType, PlainType, AppendFacts
<1>4. ASSUME NEW k \in DOMAIN rin'[c], k < Len(rin'[c])
      PROVE  rin'[c][k].t # "route"
  <2>1. Len(rin[c]) \in Nat
    BY OneType, LenProperties
  <2>2. k # Len(rin[c]) + 1
    BY <1>3, <1>4, <2>1
  <2>3. k \in DOMAIN rin[c] /\ rin'[c][k] = rin[c][k]
    BY <1>3, <2>2
  <2>4. QED
    BY <1>2, <2>3
<1>5. OneCall(c)'
  BY <1>1, <1>2, <1>4 DEF OneCall, BeforeCalls, Calling
<1>6. QED
  BY <1>1, <1>5, CallStepOf

LEMMA DisturbCall ==
  ASSUME TypeOK, CallInv, NEW c \in Conn, Disturb(c)
  PROVE  CallInv'
<1>1. /\ \A o \in Conn \ {c} : Same(o)
      /\ phase[c] \in {"fresh", "idle"} /\ phase'[c] = phase[c] /\ pc'[c] = pc[c]
      /\ rout'[c] = rout[c] /\ active'[c] = active[c]
  BY DEF Disturb, Sends, TypeOK, Same, server
<1>2. PICK m \in Msg : /\ rin'[c] = Append(rin[c], m)
                       /\ m.t \in Droppable \/ (phase[c] = "fresh" /\ m.t = "diag")
  <2>1. CASE \E t \in {"sync", "other", "short"} : Sends(c, Plain(t))
    BY <2>1, PlainType DEF Sends, TypeOK, Plain, Droppable
  <2>2. CASE phase[c] = "fresh" /\ \E r \in Requests[c] : Sends(c, Diagnostic(r))
    <3>1. PICK r \in Requests[c] : Sends(c, Diagnostic(r))
      BY <2>2
    <3>2. Diagnostic(r) \in Msg /\ Diagnostic(r).t = "diag"
      BY DoIPAssumption, EncodedType DEF Diagnostic, Carrying
    <3>3. QED
      BY <2>2, <3>1, <3>2 DEF Sends, TypeOK
  <2>3. QED
    BY <2>1, <2>2 DEF Disturb
<1>3. \A k \in DOMAIN rin'[c] :
        (k \in DOMAIN rin[c] /\ rin'[c][k] = rin[c][k]) \/ rin'[c][k] = m
  BY <1>2, OneType, AppendFacts
<1>4. BeforeCalls(c)
  BY DEF CallInv, OneCall
<1>5. ASSUME phase[c] = "fresh" PROVE OneCall(c)'
  <2>1. /\ ~active[c] /\ rout[c] = <<>> /\ pc[c] \in {"read", "closing", "closed"}
        /\ \A k \in DOMAIN rin[c] : rin[c][k].t # "route"
    BY <1>4, <1>5 DEF BeforeCalls
  <2>2. \A k \in DOMAIN rin'[c] : rin'[c][k].t # "route"
    BY <1>2, <1>3, <2>1 DEF Droppable
  <2>3. QED
    BY <1>1, <1>5, <2>1, <2>2 DEF OneCall, BeforeCalls, Calling
<1>6. ASSUME phase[c] = "idle" PROVE OneCall(c)'
  <2>1. /\ rout[c] = <<>> /\ pc[c] \in {"read", "closing", "closed"}
        /\ \A k \in DOMAIN rin[c] : rin[c][k].t \in Droppable
    BY <1>4, <1>6 DEF BeforeCalls
  <2>2. \A k \in DOMAIN rin'[c] : rin'[c][k].t \in Droppable
    BY <1>2, <1>3, <1>6, <2>1
  <2>3. QED
    BY <1>1, <1>6, <2>1, <2>2 DEF OneCall, BeforeCalls, Calling
<1>7. QED
  BY <1>1, <1>5, <1>6, CallStepOf

LEMMA MakeCall ==
  ASSUME TypeOK, CallInv, NEW c \in Conn, NEW r \in Requests[c], Call(c, r)
  PROVE  CallInv'
<1>0. r \in DeviceRequest /\ Diagnostic(r) \in Msg /\ Diagnostic(r).t = "diag"
  BY DoIPAssumption, EncodedType DEF Diagnostic, Carrying
<1>1. /\ \A o \in Conn \ {c} : Same(o)
      /\ phase[c] = "idle" /\ phase'[c] = "sent" /\ pc'[c] = pc[c]
      /\ rin'[c] = Append(rin[c], Diagnostic(r))
      /\ rout'[c] = rout[c] /\ req'[c] = r /\ ans'[c] = NoAnswer
  BY DEF Call, Sends, TypeOK, Same, server
<1>2. /\ rout[c] = <<>> /\ \A k \in DOMAIN rin[c] : rin[c][k].t \in Droppable
      /\ pc[c] \in {"read", "closing", "closed"}
  BY <1>1 DEF CallInv, OneCall, BeforeCalls
<1>3. /\ Len(rin'[c]) = Len(rin[c]) + 1
      /\ \A k \in DOMAIN rin'[c] :
           \/ k \in DOMAIN rin[c] /\ rin'[c][k] = rin[c][k]
           \/ k = Len(rin[c]) + 1 /\ rin'[c][k] = Diagnostic(r)
  BY <1>0, <1>1, OneType, AppendFacts
<1>4. \A k \in DOMAIN rin'[c] :
        \/ rin'[c][k].t \in Droppable
        \/ k = Len(rin'[c]) /\ rin'[c][k] = Diagnostic(req'[c])
  BY <1>1, <1>2, <1>3
<1>5. Asked(c)'
  BY <1>1, <1>2, <1>4 DEF Asked
<1>6. Unread(c)'
  BY <1>1, <1>2 DEF Unread
<1>7. BeforeCalls(c)'
  BY <1>1, <1>2 DEF BeforeCalls
<1>8. OneCall(c)'
  BY <1>5, <1>6, <1>7 DEF OneCall
<1>9. QED
  BY <1>1, <1>8, CallStepOf

\* The messages that a client reads, and what is left of the stream.
LEMMA ReadsFacts ==
  ASSUME TypeOK, NEW c \in Conn, NEW t, NEW ph, Reads(c, t, ph)
  PROVE  /\ \A o \in Conn \ {c} : Same(o)
         /\ phase'[c] = ph /\ rout[c] # <<>> /\ 1 \in DOMAIN rout[c] /\ rout[c][1].t = t
         /\ Head(rout[c]) = rout[c][1]
         /\ rout'[c] = Tail(rout[c])
         /\ pc'[c] = pc[c] /\ active'[c] = active[c] /\ cur'[c] = cur[c]
         /\ rin'[c] = rin[c] /\ req'[c] = req[c] /\ ans'[c] = ans[c]
<1>1. /\ \A o \in Conn \ {c} : Same(o)
      /\ phase'[c] = ph /\ rout[c] # <<>> /\ Head(rout[c]).t = t
      /\ rout'[c] = Tail(rout[c])
      /\ pc'[c] = pc[c] /\ active'[c] = active[c] /\ cur'[c] = cur[c]
      /\ rin'[c] = rin[c] /\ req'[c] = req[c] /\ ans'[c] = ans[c]
  BY DEF Reads, TypeOK, Same, server
<1>2. 1 \in DOMAIN rout[c] /\ Head(rout[c]) = rout[c][1]
  BY <1>1, OneType, StreamFacts
<1>3. QED
  BY <1>1, <1>2

LEMMA RoutedCall ==
  ASSUME TypeOK, CallInv, NEW c \in Conn, Routed(c)
  PROVE  CallInv'
<1>1. phase[c] = "route" /\ Reads(c, "active", "idle")
  BY DEF Routed
<1>2. /\ rin[c] = <<>> /\ Len(rout[c]) <= 1 /\ pc[c] \in {"read", "closing", "closed"}
  BY <1>1, ReadsFacts DEF CallInv, OneCall, BeforeCalls
<1>3. rout'[c] = <<>>
  BY <1>1, <1>2, ReadsFacts, OneType, StreamFacts
<1>4. OneCall(c)'
  BY <1>1, <1>2, <1>3, ReadsFacts DEF OneCall, BeforeCalls, Calling
<1>5. QED
  BY <1>1, <1>4, ReadsFacts, CallStepOf

LEMMA AcknowledgedCall ==
  ASSUME TypeOK, CallInv, NEW c \in Conn, Acknowledged(c)
  PROVE  CallInv'
<1>1. phase[c] = "sent" /\ Reads(c, "ack", "await")
  BY DEF Acknowledged
<1>2. Asked(c) /\ Unread(c) /\ BeforeCalls(c)
  BY <1>1 DEF CallInv, OneCall, Calling
<1>3. rin[c] = <<>> /\ pc[c] # "none"
  BY <1>1, <1>2, ReadsFacts DEF Asked, BeforeCalls
<1>4. \A k \in DOMAIN rout'[c] :
        /\ k + 1 \in DOMAIN rout[c] /\ rout'[c][k] = rout[c][k + 1]
        /\ k + 1 = Len(rout[c]) => k = Len(rout'[c])
  <2>0. rout[c] \in Seq(Msg) /\ rout[c] # <<>> /\ rout'[c] = Tail(rout[c])
    BY <1>1, ReadsFacts, OneType
  <2>1. /\ Len(rout'[c]) = Len(rout[c]) - 1 /\ Len(rout[c]) \in Nat
        /\ rout'[c] \in Seq(Msg)
        /\ \A k \in DOMAIN rout'[c] : k + 1 \in DOMAIN rout[c] /\ rout'[c][k] = rout[c][k + 1]
    BY <2>0, StreamFacts
  <2>2. DOMAIN rout'[c] = 1 .. Len(rout'[c])
    BY <2>1, LenProperties
  <2>3. QED
    BY <2>1, <2>2
<1>5. Unread(c)'
  BY <1>1, <1>2, <1>4, ReadsFacts DEF Unread, IsAnswer
<1>6. Asked(c)'
  BY <1>1, <1>2, <1>3, <1>4, ReadsFacts DEF Asked, IsAnswer
<1>7. BeforeCalls(c)'
  BY <1>1, <1>2, <1>3, ReadsFacts DEF BeforeCalls
<1>8. OneCall(c)'
  BY <1>5, <1>6, <1>7 DEF OneCall
<1>9. QED
  BY <1>1, <1>8, ReadsFacts, CallStepOf

\* The message that ends a call is the last there is.
LEMMA EndOfCall ==
  ASSUME TypeOK, CallInv, NEW c \in Conn, NEW t \in {"nack", "diag"}, Calling(c),
         Reads(c, t, "idle")
  PROVE  /\ CallInv'
         /\ t = "nack" => ans[c] = [kind |-> "refused"]
         /\ t = "diag" => IsAnswer(c, Head(rout[c]))
<1>1. Asked(c) /\ Unread(c) /\ BeforeCalls(c)
  BY DEF CallInv, OneCall
<1>2. /\ 1 = Len(rout[c]) /\ rin[c] = <<>> /\ pc[c] \notin {"none", "acked", "delay"}
      /\ t = "nack" => ans[c] = [kind |-> "refused"]
      /\ t = "diag" => IsAnswer(c, Head(rout[c]))
  <2>1. 1 \in DOMAIN rout[c] /\ rout[c] # <<>> /\ rout[c][1] = Head(rout[c])
        /\ rout[c][1].t = t /\ t # "ack"
    BY ReadsFacts
  <2>2. /\ 1 = Len(rout[c])
        /\ t = "nack" => ans[c] = [kind |-> "refused"]
        /\ t = "diag" => IsAnswer(c, Head(rout[c]))
    BY <1>1, <2>1 DEF Unread
  <2>3. rin[c] = <<>> /\ pc[c] \notin {"acked", "delay"}
    BY <1>1, <2>1 DEF Asked
  <2>4. pc[c] # "none"
    BY <1>1 DEF BeforeCalls, Calling
  <2>5. QED
    BY <2>2, <2>3, <2>4
<1>3. pc[c] \in {"read", "closing", "closed"}
  BY <1>2, OneType DEF PC
<1>4. rout'[c] = <<>>
  <2>1. rout[c] \in Seq(Msg) /\ rout[c] # <<>> /\ rout'[c] = Tail(rout[c])
    BY ReadsFacts, OneType
  <2>2. QED
    BY <1>2, <2>1, StreamFacts
<1>5. OneCall(c)'
  BY <1>2, <1>3, <1>4, ReadsFacts DEF OneCall, BeforeCalls, Calling
<1>6. QED
  BY <1>2, <1>5, ReadsFacts, CallStepOf

LEMMA LeaveCall ==
  ASSUME TypeOK, CallInv, NEW c \in Conn, Leave(c)
  PROVE  CallInv'
<1>1. /\ \A o \in Conn \ {c} : Same(o)
      /\ pc[c] # "none" /\ rout'[c] = <<>>
      /\ phase'[c] = phase[c] /\ pc'[c] = pc[c] /\ active'[c] = active[c]
      /\ cur'[c] = cur[c] /\ rin'[c] = rin[c] /\ req'[c] = req[c] /\ ans'[c] = ans[c]
  BY DEF Leave, TypeOK, Same, server, client
<1>2. OneCall(c) /\ Len(<<>>) = 0 /\ DOMAIN <<>> = {}
  BY DEF CallInv
<1>3. BeforeCalls(c)'
  BY <1>1, <1>2 DEF OneCall, BeforeCalls
<1>4. Calling(c)' => Asked(c)' /\ Unread(c)'
  BY <1>1, <1>2 DEF OneCall, Calling, Asked, Unread, IsAnswer
<1>5. OneCall(c)'
  BY <1>3, <1>4 DEF OneCall
<1>6. QED
  BY <1>1, <1>5, CallStepOf

LEMMA FailsCall ==
  ASSUME TypeOK, CallInv, NEW c \in Conn, Fails(c)
  PROVE  CallInv'
<1>1. /\ \A o \in Conn \ {c} : Same(o)
      /\ pc'[c] = "closed" /\ phase'[c] = "off"
  BY DEF Fails, TypeOK, Same, server
<1>2. OneCall(c)'
  BY <1>1 DEF OneCall, BeforeCalls, Calling
<1>3. QED
  BY <1>1, <1>2, CallStepOf

-----------------------------------------------------------------------------
(* The steps of a session *)

LEMMA TakesFacts ==
  ASSUME TypeOK, NEW c \in Conn, Takes(c)
  PROVE  /\ pc[c] = "read" /\ rin[c] # <<>> /\ rin'[c] = Tail(rin[c])
         /\ 1 \in DOMAIN rin[c] /\ Incoming(c) = rin[c][1] /\ Incoming(c) \in Msg
         /\ Len(rin[c]) \in Nat /\ Len(rin'[c]) = Len(rin[c]) - 1
         /\ \A k \in DOMAIN rin'[c] : k + 1 \in DOMAIN rin[c] /\ rin'[c][k] = rin[c][k + 1]
         /\ Len(rin[c]) <= 1 => rin'[c] = <<>>
         /\ \A o \in Conn \ {c} : rin'[o] = rin[o]
<1>1. /\ pc[c] = "read" /\ rin[c] # <<>> /\ rin'[c] = Tail(rin[c])
      /\ \A o \in Conn \ {c} : rin'[o] = rin[o]
  BY DEF Takes, TypeOK
<1>2. rin[c] \in Seq(Msg)
  BY OneType
<1>3. QED
  BY <1>1, <1>2, StreamFacts DEF Incoming

LEMMA WriteFacts ==
  ASSUME TypeOK, NEW c \in Conn, NEW m \in Msg, Write(c, m)
  PROVE  /\ \A o \in Conn \ {c} : rout'[o] = rout[o]
         /\ rout'[c] = rout[c] \/ rout'[c] = Append(rout[c], m)
         /\ Len(rout'[c]) <= Len(rout[c]) + 1
         /\ \A k \in DOMAIN rout'[c] :
              \/ k \in DOMAIN rout[c] /\ rout'[c][k] = rout[c][k]
              \/ k = Len(rout'[c]) /\ rout'[c][k] = m
<1>1. /\ \A o \in Conn \ {c} : rout'[o] = rout[o]
      /\ rout'[c] = rout[c] \/ rout'[c] = Append(rout[c], m)
  BY DEF Write, TypeOK
<1>2. rout[c] \in Seq(Msg) /\ Len(rout[c]) \in Nat
  BY OneType, LenProperties
<1>3. CASE rout'[c] = rout[c]
  BY <1>1, <1>2, <1>3
<1>4. CASE rout'[c] = Append(rout[c], m)
  BY <1>1, <1>2, <1>4, AppendFacts
<1>5. QED
  BY <1>1, <1>3, <1>4

LEMMA IgnoreCall ==
  ASSUME TypeOK, CallInv, NEW c \in Conn, Ignore(c)
  PROVE  CallInv'
<1>1. Takes(c)
  BY DEF Ignore
<1>2. /\ \A o \in Conn \ {c} : Same(o)
      /\ pc[c] = "read" /\ pc'[c] = pc[c] /\ active'[c] = active[c] /\ cur'[c] = cur[c]
      /\ rout'[c] = rout[c] /\ phase'[c] = phase[c] /\ req'[c] = req[c] /\ ans'[c] = ans[c]
  BY <1>1, TakesFacts DEF Ignore, server, client, Same
<1>3. /\ rin[c] # <<>> /\ Len(rin[c]) \in Nat /\ Len(rin'[c]) = Len(rin[c]) - 1
      /\ \A k \in DOMAIN rin'[c] : k + 1 \in DOMAIN rin[c] /\ rin'[c][k] = rin[c][k + 1]
  BY <1>1, TakesFacts
<1>4. OneCall(c)
  BY DEF CallInv
<1>5. BeforeCalls(c)'
  <2>1. /\ phase[c] \in {"fresh", "route", "idle"} => rout[c] = <<>>
        /\ phase[c] = "fresh" =>
             ~active[c] /\ \A k \in DOMAIN rin'[c] : rin'[c][k].t # "route"
        /\ phase[c] = "idle" => \A k \in DOMAIN rin'[c] : rin'[c][k].t \in Droppable
        /\ phase[c] # "off"
    BY <1>2, <1>3, <1>4 DEF OneCall, BeforeCalls
  <2>2. phase[c] = "route" =>
          /\ ~active[c]
          /\ \A k \in DOMAIN rin'[c] : k < Len(rin'[c]) => rin'[c][k].t # "route"
    <3>1. \A k \in DOMAIN rin'[c] : k \in Int
      BY <1>1, TakesType, LenProperties, OneType DEF TypeOK
    <3>2. phase[c] = "route" =>
            /\ ~active[c]
            /\ \A k \in DOMAIN rin[c] : k < Len(rin[c]) => rin[c][k].t # "route"
      BY <1>3, <1>4 DEF OneCall, BeforeCalls
    <3>3. \A k \in DOMAIN rin'[c] : k < Len(rin'[c]) => k + 1 < Len(rin[c])
      BY <1>3, <3>1
    <3>4. QED
      BY <1>3, <3>2, <3>3
  <2>3. QED
    BY <1>2, <2>1, <2>2 DEF BeforeCalls
<1>6. ASSUME Calling(c) PROVE Asked(c)' /\ Unread(c)'
  <2>1. Asked(c) /\ Unread(c)
    BY <1>4, <1>6 DEF OneCall
  <2>2. \A k \in DOMAIN rin'[c] : k \in Int
    BY <1>1, TakesType, LenProperties, OneType DEF TypeOK
  <2>3. \A k \in DOMAIN rin'[c] :
          \/ rin'[c][k].t \in Droppable
          \/ k = Len(rin'[c]) /\ rin'[c][k] = Diagnostic(req[c])
    <3>1. \A k \in DOMAIN rin'[c] : k + 1 = Len(rin[c]) => k = Len(rin'[c])
      BY <1>3, <2>2
    <3>2. QED
      BY <1>3, <2>1, <3>1 DEF Asked
  <2>4. Asked(c)'
    BY <1>2, <1>3, <2>1, <2>3 DEF Asked
  <2>5. Unread(c)'
    BY <1>2, <2>1 DEF Unread, IsAnswer
  <2>6. QED
    BY <2>4, <2>5
<1>7. OneCall(c)'
  BY <1>2, <1>5, <1>6 DEF OneCall, Calling
<1>8. QED
  BY <1>2, <1>7, CallStepOf

LEMMA ActivateCall ==
  ASSUME TypeOK, CallInv, NEW c \in Conn, Activate(c)
  PROVE  CallInv'
<1>1. Takes(c) /\ Incoming(c).t = "route" /\ Write(c, Plain("active"))
      /\ Plain("active") \in Msg
  BY PlainType DEF Activate
<1>2. /\ \A o \in Conn \ {c} : Same(o)
      /\ pc[c] = "read" /\ pc'[c] = pc[c] /\ active'[c] = TRUE /\ phase'[c] = phase[c]
  BY <1>1, TakesFacts, WriteFacts DEF Activate, TypeOK, client, Same
<1>3. rin[c] # <<>> /\ 1 \in DOMAIN rin[c] /\ rin[c][1].t = "route"
  BY <1>1, TakesFacts
<1>4. phase[c] = "route" /\ ~active[c]
  <2>1. OneCall(c)
    BY DEF CallInv
  <2>2. phase[c] \notin {"off", "fresh", "idle"}
    BY <1>2, <1>3, <2>1 DEF OneCall, BeforeCalls, Droppable
  <2>3. ~Calling(c)
    BY <1>3, <2>1 DEF OneCall, Asked, Diagnostic, Carrying, Droppable
  <2>4. phase[c] = "route"
    BY <2>2, <2>3, OneType DEF Phase, Calling
  <2>5. QED
    BY <1>3, <2>1, <2>4 DEF OneCall, BeforeCalls
<1>5. rout[c] = <<>> /\ ~(1 < Len(rin[c]))
  BY <1>3, <1>4 DEF CallInv, OneCall, BeforeCalls
<1>6. rin'[c] = <<>>
  <2>1. Len(rin[c]) \in Nat /\ (Len(rin[c]) <= 1 => rin'[c] = <<>>)
    BY <1>1, TakesFacts
  <2>2. QED
    BY <1>5, <2>1
<1>7. Len(rout'[c]) <= 1
  <2>1. Len(rout'[c]) <= Len(rout[c]) + 1 /\ Len(rout[c]) = 0
    BY <1>1, <1>5, WriteFacts
  <2>2. QED
    BY <2>1
<1>8. OneCall(c)'
  BY <1>2, <1>4, <1>6, <1>7 DEF OneCall, BeforeCalls, Calling
<1>9. QED
  BY <1>2, <1>8, CallStepOf

\* A diagnostic message that the session accepts is the request of the call
\* its client makes, and nothing has been done about it yet.
LEMMA AcceptsFacts ==
  ASSUME TypeOK, CallInv, NEW c \in Conn, Accepts(c)
  PROVE  /\ phase[c] = "sent" /\ ans[c] = NoAnswer /\ rout[c] = <<>>
         /\ req[c] \in Requests[c] /\ Incoming(c) = Diagnostic(req[c])
         /\ rin'[c] = <<>>
<1>1. /\ Takes(c) /\ Incoming(c).t = "diag" /\ active[c]
  BY DEF Accepts, Dropped
<1>2. /\ pc[c] = "read" /\ rin[c] # <<>> /\ 1 \in DOMAIN rin[c] /\ Incoming(c) = rin[c][1]
      /\ Len(rin[c]) <= 1 => rin'[c] = <<>>
  BY <1>1, TakesFacts
<1>3. OneCall(c)
  BY DEF CallInv
<1>4. Calling(c)
  <2>1. phase[c] \notin {"off", "fresh", "idle", "route"}
    BY <1>1, <1>2, <1>3 DEF OneCall, BeforeCalls, Droppable
  <2>2. QED
    BY <2>1, OneType DEF Phase, Calling
<1>5. 1 = Len(rin[c]) /\ rin[c][1] = Diagnostic(req[c])
  BY <1>1, <1>2, <1>3, <1>4 DEF OneCall, Asked, Droppable
<1>6. QED
  BY <1>2, <1>3, <1>4, <1>5 DEF OneCall, Asked

LEMMA NackCall ==
  ASSUME TypeOK, CallInv, NEW c \in Conn, Nack(c)
  PROVE  CallInv'
<1> DEFINE m == Carrying("nack", Incoming(c).at, <<>>)
<1>1. /\ Accepts(c) /\ Takes(c) /\ Write(c, m) /\ m \in Msg /\ m.t = "nack"
  <2>1. Accepts(c) /\ Takes(c) /\ Write(c, m) /\ Incoming(c).t = "diag"
    BY DEF Nack, Accepts
  <2>2. m \in Msg
    BY <2>1, TakesType, DiagType, CarryingType, EmptySeq DEF Payload
  <2>3. QED
    BY <2>1, <2>2 DEF Carrying
<1> HIDE DEF m
<1>2. /\ \A o \in Conn \ {c} : Same(o)
      /\ pc[c] = "read" /\ pc'[c] = pc[c] /\ active'[c] = active[c]
      /\ phase'[c] = phase[c] /\ req'[c] = req[c] /\ ans'[c] = [kind |-> "refused"]
  BY <1>1, TakesFacts, WriteFacts DEF Nack, TypeOK, server, client, Same
<1>3. /\ phase[c] = "sent" /\ rout[c] = <<>> /\ rin'[c] = <<>> /\ req[c] \in Requests[c]
  BY <1>1, AcceptsFacts
<1>4. \A k \in DOMAIN rout'[c] : k = Len(rout'[c]) /\ rout'[c][k].t = "nack"
  BY <1>1, <1>3, WriteFacts
<1>5. Unread(c)'
  BY <1>2, <1>4 DEF Unread
<1>6. Asked(c)'
  BY <1>2, <1>3 DEF Asked
<1>7. OneCall(c)'
  BY <1>2, <1>3, <1>5, <1>6 DEF OneCall, BeforeCalls
<1>8. QED
  BY <1>2, <1>7, CallStepOf

LEMMA AckCall ==
  ASSUME TypeOK, CallInv, NEW c \in Conn, Ack(c)
  PROVE  CallInv'
<1> DEFINE m == Carrying("ack", Incoming(c).at, <<>>)
<1>1. /\ Accepts(c) /\ Takes(c) /\ Write(c, m) /\ m \in Msg /\ m.t = "ack"
  <2>1. Accepts(c) /\ Takes(c) /\ Write(c, m) /\ Incoming(c).t = "diag"
    BY DEF Ack, Accepts
  <2>2. m \in Msg
    BY <2>1, TakesType, DiagType, CarryingType, EmptySeq DEF Payload
  <2>3. QED
    BY <2>1, <2>2 DEF Carrying
<1> HIDE DEF m
<1>2. /\ \A o \in Conn \ {c} : Same(o)
      /\ pc'[c] = "acked" /\ cur'[c] = Incoming(c)
      /\ phase'[c] = phase[c] /\ req'[c] = req[c] /\ ans'[c] = ans[c]
  BY <1>1, TakesFacts, WriteFacts DEF Ack, TypeOK, client, Same
<1>3. /\ phase[c] = "sent" /\ rout[c] = <<>> /\ rin'[c] = <<>> /\ req[c] \in Requests[c]
      /\ ans[c] = NoAnswer /\ Incoming(c) = Diagnostic(req[c])
  BY <1>1, AcceptsFacts
<1>4. \A k \in DOMAIN rout'[c] : rout'[c][k].t = "ack"
  BY <1>1, <1>3, WriteFacts
<1>5. Unread(c)'
  BY <1>4 DEF Unread
<1>6. Asked(c)'
  BY <1>2, <1>3, <1>4 DEF Asked
<1>7. OneCall(c)'
  BY <1>2, <1>3, <1>5, <1>6 DEF OneCall, BeforeCalls
<1>8. QED
  BY <1>2, <1>7, CallStepOf

\* What the call is about when its request is dispatched.
LEMMA AckedFacts ==
  ASSUME TypeOK, CallInv, NEW c \in Conn, pc[c] = "acked"
  PROVE  /\ Calling(c) /\ req[c] \in Requests[c] /\ req[c] \in DeviceRequest
         /\ cur[c] = Diagnostic(req[c]) /\ ans[c] = NoAnswer /\ rin[c] = <<>>
         /\ \A k \in DOMAIN rout[c] : rout[c][k].t = "ack"
         /\ cur[c].at = req[c].did[1] /\ cur[c].at \in Ecu /\ cur[c].p = Encoded(req[c])
         /\ store[cur[c].at] \in Store
<1>1. OneCall(c)
  BY DEF CallInv
<1>2. phase[c] \notin {"off", "fresh", "idle", "route"}
  BY <1>1 DEF OneCall, BeforeCalls
<1>3. Calling(c)
  BY <1>2, OneType DEF Phase, Calling
<1>4. Asked(c)
  BY <1>1, <1>3 DEF OneCall
<1>5. req[c] \in DeviceRequest
  BY <1>4, DoIPAssumption DEF Asked
<1>6. cur[c].at \in Ecu /\ store[cur[c].at] \in Store
  BY DEF TypeOK
<1>7. QED
  BY <1>3, <1>4, <1>5, <1>6 DEF Asked, Diagnostic, Carrying

\* The handler's answer to the current request: without faults it is what the
\* client gets to see, and it is never mistaken for no answer.
LEMMA DispatchFacts ==
  ASSUME TypeOK, CallInv, ~HasErrors, Answerable, NEW c \in Conn, pc[c] = "acked"
  PROVE  /\ Faulted(Reply(c)) = {Reply(c)}
         /\ Decoded(cur[c].at, Reply(c)) = OutcomeOf(req[c], store[cur[c].at])
         /\ OutcomeOf(req[c], store[cur[c].at]) # NoAnswer
         /\ UdsStore(cur[c].p, store[cur[c].at]) =
              IF req[c].op = "read" \/ Declines(req[c]) THEN store[cur[c].at]
              ELSE [store[cur[c].at] EXCEPT ![req[c].did[2]] = req[c].val]
         /\ ~Segmentable(Reply(c)) =>
              UdsStore(cur[c].p, store[cur[c].at]) = store[cur[c].at]
<1>1. /\ req[c] \in DeviceRequest /\ req[c] \in Requests[c] /\ store[cur[c].at] \in Store
      /\ cur[c].at = req[c].did[1] /\ cur[c].p = Encoded(req[c])
  BY AckedFacts
<1>2. Reply(c) = UdsReply(Encoded(req[c]), store[cur[c].at])
  BY <1>1 DEF Reply
<1>3. Faulted(Reply(c)) = {Reply(c)}
  <2>1. Reply(c) \in Payload
    BY HandledType
  <2>2. Unframed(Segment(Reply(c))) = Reply(c)
    BY <2>1, UnframedSegment
  <2>3. Injected(Segment(Reply(c))) = {Segment(Reply(c))}
    BY DEF Injected
  <2>4. QED
    BY <2>2, <2>3 DEF Faulted
<1>4. OutcomeOf(req[c], store[cur[c].at]) # NoAnswer
  BY DEF OutcomeOf, NoAnswer
<1>5. req[c].op \in {"read", "write"} /\ (req[c].op = "write" => req[c].val # <<>>)
  BY <1>1, RequestParts DEF Answerable
<1>6. CASE req[c].op = "read"
  BY <1>1, <1>2, <1>3, <1>4, <1>6, ReadDone
<1>7. CASE req[c].op = "write"
  BY <1>1, <1>2, <1>3, <1>4, <1>5, <1>7, WriteDone
<1>8. QED
  BY <1>5, <1>6, <1>7

LEMMA DispatchCall ==
  ASSUME TypeOK, CallInv, ~HasErrors, Answerable, NEW c \in Conn, Dispatch(c)
  PROVE  CallInv'
<1>0. pc[c] = "acked"
  BY DEF Dispatch
<1>1. PICK o : /\ o = OutcomeOf(req[c], store[cur[c].at]) /\ o # NoAnswer
               /\ Decoded(cur[c].at, Reply(c)) = o /\ Faulted(Reply(c)) = {Reply(c)}
  <2>1. /\ OutcomeOf(req[c], store[cur[c].at]) # NoAnswer
        /\ Decoded(cur[c].at, Reply(c)) = OutcomeOf(req[c], store[cur[c].at])
        /\ Faulted(Reply(c)) = {Reply(c)}
    BY <1>0, DispatchFacts
  <2>2. QED
    BY <2>1, Zenon
<1>2. PICK m : m = Answer(c, Reply(c))
  OBVIOUS
<1>3. m \in Msg /\ m.t = "diag" /\ Decoded(m.at, m.p) = o
  BY <1>0, <1>1, <1>2, HandledType, CarryingType DEF Answer, Carrying
<1>4. /\ Calling(c) /\ req[c] \in Requests[c] /\ rin[c] = <<>>
      /\ \A k \in DOMAIN rout[c] : rout[c][k].t = "ack"
  BY <1>0, AckedFacts
<1>5. /\ ans' = [ans EXCEPT ![c] = o]
      /\ \/ /\ cur' = [cur EXCEPT ![c] = m] /\ pc' = [pc EXCEPT ![c] = "delay"]
            /\ UNCHANGED rout
         \/ /\ Write(c, m) /\ pc' = [pc EXCEPT ![c] = "read"]
            /\ cur' = [cur EXCEPT ![c] = Plain("none")]
      /\ UNCHANGED <<active, rin, gone, client>>
  BY <1>1, <1>2 DEF Dispatch
<1>6. /\ \A x \in Conn \ {c} : Same(x)
      /\ ans'[c] = o /\ rin'[c] = <<>> /\ phase'[c] = phase[c] /\ req'[c] = req[c]
      /\ \/ cur'[c] = m /\ pc'[c] = "delay" /\ rout'[c] = rout[c]
         \/ Write(c, m) /\ pc'[c] = "read"
  BY <1>3, <1>4, <1>5, WriteFacts DEF TypeOK, Same, client
<1>7. \A k \in DOMAIN rout'[c] :
        \/ rout'[c][k].t = "ack"
        \/ rout'[c][k] = m /\ k = Len(rout'[c]) /\ pc'[c] = "read"
  BY <1>3, <1>4, <1>6, WriteFacts
<1>8. Unread(c)'
  BY <1>1, <1>3, <1>6, <1>7 DEF Unread, IsAnswer
<1>9. Asked(c)'
  BY <1>1, <1>3, <1>4, <1>6, <1>7 DEF Asked, IsAnswer
<1>10. OneCall(c)'
  BY <1>4, <1>6, <1>8, <1>9 DEF OneCall, BeforeCalls, Calling
<1>11. QED
  BY <1>6, <1>10, CallStepOf

LEMMA RespondCall ==
  ASSUME TypeOK, CallInv, NEW c \in Conn, Respond(c)
  PROVE  CallInv'
<1>1. PICK m \in Msg : m = cur[c]
  BY OneType
<1>2. /\ \A x \in Conn \ {c} : Same(x)
      /\ pc[c] = "delay" /\ pc'[c] = "read" /\ Write(c, m)
      /\ active'[c] = active[c] /\ rin'[c] = rin[c] /\ phase'[c] = phase[c]
      /\ req'[c] = req[c] /\ ans'[c] = ans[c]
  BY <1>1, WriteFacts DEF Respond, TypeOK, Same, client
<1>3. OneCall(c)
  BY DEF CallInv
<1>4. phase[c] \notin {"off", "fresh", "idle", "route"}
  BY <1>2, <1>3 DEF OneCall, BeforeCalls
<1>5. Calling(c)
  BY <1>4, OneType DEF Phase, Calling
<1>6. /\ IsAnswer(c, m) /\ rin[c] = <<>> /\ req[c] \in Requests[c]
      /\ \A k \in DOMAIN rout[c] : rout[c][k].t = "ack"
  BY <1>1, <1>2, <1>3, <1>5 DEF OneCall, Asked
<1>7. \A k \in DOMAIN rout'[c] :
        rout'[c][k].t = "ack" \/ (rout'[c][k] = m /\ k = Len(rout'[c]))
  BY <1>2, <1>6, WriteFacts
<1>8. Unread(c)'
  BY <1>2, <1>6, <1>7 DEF Unread, IsAnswer
<1>9. Asked(c)'
  BY <1>2, <1>6 DEF Asked
<1>10. OneCall(c)'
  BY <1>2, <1>4, <1>8, <1>9 DEF OneCall, BeforeCalls
<1>11. QED
  BY <1>2, <1>10, CallStepOf

\* A session on its way to its end, or at it, does nothing any more.
LEMMA EndingCall ==
  ASSUME NEW c \in Conn, OneCall(c), pc[c] # "none",
         \/ pc'[c] = "closing" /\ pc[c] # "closed" /\ rin'[c] = rin[c]
         \/ pc'[c] = "closed" /\ (rin'[c] = rin[c] \/ rin'[c] = <<>>),
         active'[c] = active[c], rout'[c] = rout[c], phase'[c] = phase[c],
         req'[c] = req[c], ans'[c] = ans[c]
  PROVE  OneCall(c)'
<1>1. CASE rin'[c] = rin[c]
  <2>1. BeforeCalls(c)'
    <3>1. BeforeCalls(c) /\ pc'[c] \in {"closing", "closed"}
      BY DEF OneCall
    <3>2. phase[c] # "off" \/ pc'[c] = "closed"
      BY <3>1 DEF BeforeCalls
    <3>3. CASE phase[c] = "route"
      BY <1>1, <3>1, <3>3 DEF BeforeCalls
    <3>4. CASE phase[c] # "route"
      BY <1>1, <3>1, <3>2, <3>4 DEF BeforeCalls
    <3>5. QED
      BY <3>3, <3>4
  <2>2. Calling(c) => Asked(c)' /\ Unread(c)'
    BY <1>1 DEF OneCall, Asked, Unread, IsAnswer
  <2>3. QED
    BY <2>1, <2>2 DEF OneCall, Calling
<1>2. CASE rin'[c] = <<>> /\ pc'[c] = "closed"
  <2>1. BeforeCalls(c)'
    BY <1>2 DEF OneCall, BeforeCalls
  <2>2. Calling(c) => Asked(c)' /\ Unread(c)'
    BY <1>2 DEF OneCall, Asked, Unread, IsAnswer
  <2>3. QED
    BY <2>1, <2>2 DEF OneCall, Calling
<1>3. QED
  BY <1>1, <1>2

LEMMA EndsCall ==
  ASSUME TypeOK, CallInv, NEW c \in Conn, DispatchFails(c) \/ Lost(c) \/ Close(c)
  PROVE  CallInv'
<1>0. OneCall(c)
  BY DEF CallInv
<1>1. CASE DispatchFails(c) \/ Lost(c)
  <2>1. /\ \A x \in Conn \ {c} : Same(x)
        /\ pc[c] \in {"read", "acked"} /\ pc'[c] = "closing" /\ rin'[c] = rin[c]
        /\ active'[c] = active[c] /\ rout'[c] = rout[c] /\ phase'[c] = phase[c]
        /\ req'[c] = req[c] /\ ans'[c] = ans[c]
    BY <1>1 DEF DispatchFails, Lost, TypeOK, Same, client
  <2>2. OneCall(c)'
    BY <1>0, <2>1, EndingCall
  <2>3. QED
    BY <2>1, <2>2, CallStepOf
<1>2. CASE Close(c)
  <2>1. /\ \A x \in Conn \ {c} : Same(x)
        /\ pc[c] = "closing" /\ pc'[c] = "closed" /\ rin'[c] = <<>>
        /\ active'[c] = active[c] /\ rout'[c] = rout[c] /\ phase'[c] = phase[c]
        /\ req'[c] = req[c] /\ ans'[c] = ans[c]
    BY <1>2 DEF Close, TypeOK, Same, client
  <2>2. OneCall(c)'
    BY <1>0, <2>1, EndingCall
  <2>3. QED
    BY <2>1, <2>2, CallStepOf
<1>3. QED
  BY <1>1, <1>2

LEMMA ReturnsCall ==
  ASSUME TypeOK, CallInv, Returns
  PROVE  CallInv'
<1> SUFFICES ASSUME NEW c \in Conn PROVE OneCall(c)'
  BY DEF CallInv
<1>1. /\ UNCHANGED <<active, cur, rin, rout, gone, phase, req, ans>>
      /\ pc'[c] = IF Over(c) THEN pc[c] ELSE IF pc[c] = "closing" THEN "closed" ELSE "closing"
      /\ OneCall(c)
  BY DEF Returns, client, CallInv
<1>2. CASE pc[c] = "none"
  <2>1. pc'[c] = pc[c]
    BY <1>1, <1>2 DEF Over
  <2>2. phase[c] = "off"
    BY <1>1, <1>2 DEF OneCall, BeforeCalls
  <2>3. QED
    BY <1>1, <1>2, <2>1, <2>2 DEF OneCall, BeforeCalls, Calling
<1>3. CASE pc[c] # "none"
  <2>1. (pc'[c] = "closing" /\ pc[c] # "closed") \/ pc'[c] = "closed"
    BY <1>1, <1>3 DEF Over
  <2>2. QED
    BY <1>1, <1>3, <2>1, EndingCall
<1>4. QED
  BY <1>2, <1>3

LEMMA StillCall ==
  ASSUME CallInv, UNCHANGED <<pc, active, cur, rin, rout, gone, phase, req, ans>>
  PROVE  CallInv'
<1> SUFFICES ASSUME NEW c \in Conn PROVE OneCall(c)'
  BY DEF CallInv
<1>1. OneCall(c)
  BY DEF CallInv
<1>2. BeforeCalls(c)'
  BY <1>1 DEF OneCall, BeforeCalls
<1>3. Calling(c)' => Asked(c)' /\ Unread(c)'
  BY <1>1 DEF OneCall, Calling, Asked, Unread, IsAnswer
<1>4. QED
  BY <1>2, <1>3 DEF OneCall

LEMMA CallStep ==
  ASSUME TypeOK, CallInv, ~HasErrors, Answerable, [Next]_dvars
  PROVE  CallInv'
<1>1. CASE UNCHANGED dvars \/ Start \/ Stop
  BY <1>1, StillCall DEF dvars, server, client, Start, Stop
<1>2. CASE StopReturns \/ StopAtOnce
  BY <1>2, ReturnsCall DEF StopReturns, StopAtOnce
<1>3. ASSUME NEW c \in Conn, Connect(c) \/ Route(c) \/ Disturb(c) \/ Leave(c) \/ Fails(c)
      PROVE  CallInv'
  BY <1>3, ConnectCall, RouteCall, DisturbCall, LeaveCall, FailsCall
<1>4. ASSUME NEW c \in Conn, Listens(c)
      PROVE  CallInv'
  <2>1. CASE Routed(c) \/ Acknowledged(c)
    BY <2>1, RoutedCall, AcknowledgedCall
  <2>2. CASE Rejected(c) \/ Return(c)
    BY <2>2, EndOfCall DEF Rejected, Return, Calling
  <2>3. QED
    BY <1>4, <2>1, <2>2 DEF Listens
<1>5. ASSUME NEW c \in Conn, Serves(c)
      PROVE  CallInv'
  BY <1>5, IgnoreCall, ActivateCall, NackCall, AckCall, DispatchCall, RespondCall, EndsCall
  DEF Serves
<1>6. ASSUME NEW c \in Conn, NEW r \in Requests[c], Call(c, r)
      PROVE  CallInv'
  BY <1>6, MakeCall
<1>7. QED
  BY <1>1, <1>2, <1>3, <1>4, <1>5, <1>6 DEF Next

-----------------------------------------------------------------------------
(* The server is an atomic store                                           *)

Regs == [x \in Ecu \X Known |-> store[x[1]][x[2]]]

Status ==
  [c \in Conn |-> IF ~Calling(c) THEN "idle"
                  ELSE IF ans[c] = NoAnswer THEN "pending" ELSE "done"]

BrokenOnes == {c \in Conn : Broken(c)}

LEMMA BrokenCount ==
  /\ Cardinality(BrokenOnes) \in Nat /\ Cardinality(BrokenOnes)' \in Nat
  /\ BrokenOnes \subseteq BrokenOnes' =>
       Cardinality(BrokenOnes) <= Cardinality(BrokenOnes)'
  /\ \A c \in BrokenOnes : BrokenOnes' = BrokenOnes \ {c} =>
       /\ Cardinality(BrokenOnes) > 0
       /\ Cardinality(BrokenOnes)' = Cardinality(BrokenOnes) - 1
<1>1. IsFiniteSet(BrokenOnes) /\ IsFiniteSet(BrokenOnes')
  <2>1. BrokenOnes \subseteq Conn /\ BrokenOnes' \subseteq Conn /\ IsFiniteSet(Conn)
    BY DoIPAssumption DEF BrokenOnes
  <2>2. QED
    BY <2>1, FS_Subset
<1>2. Cardinality(BrokenOnes) \in Nat /\ Cardinality(BrokenOnes') \in Nat
  BY <1>1, FS_CardinalityType
<1>3. BrokenOnes \subseteq BrokenOnes' => Cardinality(BrokenOnes) <= Cardinality(BrokenOnes')
  BY <1>1, FS_Subset
<1>4. ASSUME NEW c \in BrokenOnes, BrokenOnes' = BrokenOnes \ {c}
      PROVE  /\ Cardinality(BrokenOnes) > 0
             /\ Cardinality(BrokenOnes') = Cardinality(BrokenOnes) - 1
  <2>1. Cardinality(BrokenOnes') = Cardinality(BrokenOnes) - 1
    BY <1>1, <1>4, FS_RemoveElement
  <2>2. QED
    BY <1>2, <2>1
<1>5. QED
  BY <1>2, <1>3, <1>4

LEMMA StatusOf ==
  ASSUME NEW c \in Conn, NEW s,
         \A o \in Conn \ {c} : (Calling(o)' <=> Calling(o)) /\ ans'[o] = ans[o],
         Status'[c] = s
  PROVE  Status' = [Status EXCEPT ![c] = s]
<1>1. \A o \in Conn \ {c} : Status'[o] = Status[o]
  BY DEF Status
<1>2. Status' = [o \in Conn |-> Status'[o]] /\ Status = [o \in Conn |-> Status[o]]
  BY DEF Status
<1>3. QED
  BY <1>1, <1>2

\* Whatever leaves stores, calls and outcomes alone is at most a mishap.
LEMMA NoCallStep ==
  ASSUME UNCHANGED <<store, req, got, ans>>,
         \A o \in Conn : Calling(o)' <=> Calling(o),
         BrokenOnes \subseteq BrokenOnes'
  PROVE  [Service!ANext]_Service!avars
<1>1. Regs' = Regs
  BY DEF Regs
<1>2. Status' = Status
  BY DEF Status
<1>3. /\ Cardinality(BrokenOnes) \in Nat /\ Cardinality(BrokenOnes)' \in Nat
      /\ Cardinality(BrokenOnes) <= Cardinality(BrokenOnes)'
  BY BrokenCount
<1>4. CASE Cardinality(BrokenOnes)' = Cardinality(BrokenOnes)
  BY <1>1, <1>2, <1>4 DEF Service!avars, Regs, Status, BrokenOnes
<1>5. CASE Cardinality(BrokenOnes)' # Cardinality(BrokenOnes)
  <2>1. Cardinality(BrokenOnes)' > Cardinality(BrokenOnes)
    BY <1>3, <1>5
  <2>2. Service!Mishap
    BY <1>1, <1>2, <1>3, <2>1 DEF Service!Mishap, Regs, Status, BrokenOnes
  <2>3. QED
    BY <2>2 DEF Service!ANext
<1>6. QED
  BY <1>4, <1>5

LEMMA BrokenSame ==
  ASSUME \A o \in Conn : Broken(o)' <=> Broken(o)
  PROVE  Cardinality(BrokenOnes)' = Cardinality(BrokenOnes)
<1>1. BrokenOnes' = BrokenOnes
  BY DEF BrokenOnes
<1>2. QED
  BY <1>1

LEMMA CallMaps ==
  ASSUME TypeOK, CallInv, NEW c \in Conn, NEW r \in Requests[c], Call(c, r)
  PROVE  Service!Call(c)
<1>1. /\ phase[c] = "idle" /\ phase' = [phase EXCEPT ![c] = "sent"]
      /\ req' = [req EXCEPT ![c] = r] /\ ans' = [ans EXCEPT ![c] = NoAnswer]
      /\ UNCHANGED <<store, pc, gone, got>>
  BY DEF Call, server
<1>2. Regs' = Regs
  BY <1>1 DEF Regs
<1>3. Status[c] = "idle" /\ Status' = [Status EXCEPT ![c] = "pending"]
  <2>1. ~Calling(c) /\ Calling(c)' /\ ans'[c] = NoAnswer
    BY <1>1 DEF Calling, TypeOK
  <2>2. Status[c] = "idle" /\ Status'[c] = "pending"
    BY <2>1 DEF Status
  <2>3. \A o \in Conn \ {c} : (Calling(o)' <=> Calling(o)) /\ ans'[o] = ans[o]
    BY <1>1 DEF Calling, TypeOK
  <2>4. QED
    BY <2>2, <2>3, StatusOf
<1>4. Cardinality(BrokenOnes)' = Cardinality(BrokenOnes)
  <2>1. \A o \in Conn : Broken(o)' <=> Broken(o)
    BY <1>1 DEF Broken, TypeOK
  <2>2. QED
    BY <2>1, BrokenSame
<1>5. QED
  BY <1>1, <1>2, <1>3, <1>4
  DEF Service!Call, Service!Lost, NoAnswer, Regs, Status, BrokenOnes

\* A request has its effect when the server rejects it or dispatches it.
LEMMA ExecuteMaps ==
  ASSUME TypeOK, NEW c \in Conn, Calling(c), ans[c] = NoAnswer,
         NEW o, o # NoAnswer, ans' = [ans EXCEPT ![c] = o],
         UNCHANGED <<phase, gone, req, got>>,
         \A x \in Conn : pc'[x] \in {"closing", "closed"} <=> pc[x] \in {"closing", "closed"},
         Regs' = Service!Effect(c, req[c]), o = Service!Result(c, req[c])
  PROVE  Service!Execute(c)
<1>1. Status[c] = "pending" /\ Status' = [Status EXCEPT ![c] = "done"]
  <2>1. Calling(c)' /\ ans'[c] = o
    BY DEF Calling, TypeOK
  <2>2. Status[c] = "pending" /\ Status'[c] = "done"
    BY <2>1 DEF Status
  <2>3. \A x \in Conn \ {c} : (Calling(x)' <=> Calling(x)) /\ ans'[x] = ans[x]
    BY DEF Calling, TypeOK
  <2>4. QED
    BY <2>2, <2>3, StatusOf
<1>2. Cardinality(BrokenOnes)' = Cardinality(BrokenOnes)
  <2>1. \A x \in Conn : Broken(x)' <=> Broken(x)
    BY DEF Broken
  <2>2. QED
    BY <2>1, BrokenSame
<1>3. QED
  BY <1>1, <1>2 DEF Service!Execute, Regs, Status, BrokenOnes

LEMMA NackMaps ==
  ASSUME TypeOK, CallInv, NEW c \in Conn, Nack(c)
  PROVE  Service!Execute(c)
<1>1. /\ Accepts(c) /\ Incoming(c).at \notin Ecu
      /\ ans' = [ans EXCEPT ![c] = [kind |-> "refused"]]
      /\ UNCHANGED <<store, pc, phase, gone, req, got>>
  BY DEF Nack, server, client
<1>2. /\ phase[c] = "sent" /\ ans[c] = NoAnswer /\ req[c] \in DeviceRequest
      /\ req[c].did[1] \notin Ecu
  BY <1>1, AcceptsFacts, DoIPAssumption DEF Diagnostic, Carrying
<1>3. Service!Refused(c, req[c])
  <2>1. req[c].did = <<req[c].did[1], req[c].did[2]>>
    BY <1>2, RequestParts
  <2>2. req[c].did \notin Ecu \X Known
    BY <1>2, <2>1
  <2>3. QED
    BY <2>2 DEF Service!Refused
<1>4. Service!Result(c, req[c]) = [kind |-> "refused"]
  BY <1>3 DEF Service!Result
<1>5. Service!Effect(c, req[c]) = Regs
  BY <1>3 DEF Service!Effect, Regs
<1>6. Regs' = Regs
  BY <1>1 DEF Regs
<1>7. [kind |-> "refused"] # NoAnswer
  BY DEF NoAnswer
<1>8. QED
  BY <1>1, <1>2, <1>4, <1>5, <1>6, <1>7, ExecuteMaps DEF Calling

\* The abstract effect of a request on the registers is that of the handler
\* on the store of the device it names.
LEMMA HandledMaps ==
  ASSUME TypeOK, CallInv, ~HasErrors, Answerable, NEW c \in Conn, pc[c] = "acked",
         Handled(c)
  PROVE  /\ Regs' = Service!Effect(c, req[c])
         /\ OutcomeOf(req[c], store[cur[c].at]) = Service!Result(c, req[c])
<1> DEFINE r == req[c]  e == r.did[1]  d == r.did[2]  st == store[e]
<1>1. /\ r \in DeviceRequest /\ cur[c].at = e /\ e \in Ecu /\ st \in Store
      /\ store \in [Ecu -> Store]
  BY AckedFacts DEF TypeOK
<1>2. r.op \in {"read", "write"} /\ r.did = <<e, d>>
  BY <1>1, RequestParts
<1>3. UdsStore(cur[c].p, st) = IF r.op = "read" \/ Declines(r) THEN st
                               ELSE [st EXCEPT ![d] = r.val]
  BY <1>1, DispatchFacts
<1>4. store' = [store EXCEPT ![e] = UdsStore(cur[c].p, st)]
  BY <1>1 DEF Handled
<1>5. Service!Refused(c, r) <=> Declines(r)
  <2>1. (r.did \notin Ecu \X Known) <=> d \notin Known
    BY <1>1, <1>2
  <2>2. (r.did \in Ecu \X Protected) <=> d \in Protected
    BY <1>1, <1>2
  <2>3. QED
    BY <2>1, <2>2 DEF Service!Refused, Declines
<1>6. OutcomeOf(r, store[cur[c].at]) = Service!Result(c, r)
  <2>1. CASE Declines(r)
    BY <1>5, <2>1 DEF OutcomeOf, Service!Result
  <2>2. CASE ~Declines(r) /\ r.op = "write"
    BY <1>5, <2>2 DEF OutcomeOf, Service!Result
  <2>3. CASE ~Declines(r) /\ r.op = "read"
    <3>1. d \in Known
      BY <2>3 DEF Declines
    <3>2. r.did \in Ecu \X Known /\ r.did[1] = e /\ r.did[2] = d
      BY <1>1, <1>2, <3>1
    <3>3. Regs[r.did] = st[d]
      BY <3>2 DEF Regs
    <3>4. Service!Result(c, r) = [kind |-> "value", did |-> r.did, val |-> Regs[r.did]]
      BY <1>5, <2>3 DEF Service!Result, Regs
    <3>5. QED
      BY <1>1, <2>3, <3>3, <3>4 DEF OutcomeOf
  <2>4. QED
    BY <1>2, <2>1, <2>2, <2>3
<1>7. Regs' = Service!Effect(c, r)
  <2>1. CASE r.op = "read" \/ Declines(r)
    <3>1. store' = store
      BY <1>1, <1>3, <1>4, <2>1
    <3>2. Regs' = Regs
      BY <3>1 DEF Regs
    <3>3. Service!Effect(c, r) = Regs
      BY <1>5, <2>1 DEF Service!Effect, Regs
    <3>4. QED
      BY <3>2, <3>3
  <2>2. CASE r.op = "write" /\ ~Declines(r)
    <3>1. d \in Known /\ r.did \in Ecu \X Known
      BY <1>1, <1>2, <2>2 DEF Declines
    <3>2. store' = [store EXCEPT ![e] = [st EXCEPT ![d] = r.val]]
      BY <1>3, <1>4, <2>2
    <3>3. Service!Effect(c, r) = [Regs EXCEPT ![r.did] = r.val]
      BY <1>5, <2>2 DEF Service!Effect, Regs
    <3>4. ASSUME NEW x \in Ecu \X Known
          PROVE  store'[x[1]][x[2]] = IF x = r.did THEN r.val ELSE store[x[1]][x[2]]
      <4>1. x = <<x[1], x[2]>> /\ x[1] \in Ecu /\ x[2] \in Known
        OBVIOUS
      <4>2. x = r.did <=> x[1] = e /\ x[2] = d
        BY <1>2, <4>1
      <4>3. DOMAIN st = Known
        BY <1>1 DEF Store
      <4>4. CASE x[1] = e /\ x[2] = d
        BY <1>1, <3>1, <3>2, <4>2, <4>3, <4>4
      <4>5. CASE x[1] = e /\ x[2] # d
        BY <1>1, <3>2, <4>1, <4>2, <4>3, <4>5
      <4>6. CASE x[1] # e
        BY <1>1, <3>2, <4>1, <4>2, <4>6
      <4>7. QED
        BY <4>4, <4>5, <4>6
    <3>5. Regs' = [x \in Ecu \X Known |-> IF x = r.did THEN r.val ELSE store[x[1]][x[2]]]
      BY <3>4 DEF Regs
    <3>6. [Regs EXCEPT ![r.did] = r.val] =
            [x \in Ecu \X Known |-> IF x = r.did THEN r.val ELSE store[x[1]][x[2]]]
      BY <3>1 DEF Regs
    <3>7. QED
      BY <3>3, <3>5, <3>6
  <2>3. QED
    BY <1>2, <2>1, <2>2
<1>8. QED
  BY <1>6, <1>7

LEMMA DispatchMaps ==
  ASSUME TypeOK, CallInv, ~HasErrors, Answerable, NEW c \in Conn, Dispatch(c)
  PROVE  Service!Execute(c)
<1>1. PICK o : o = OutcomeOf(req[c], store[cur[c].at])
  OBVIOUS
<1>2. pc[c] = "acked" /\ Handled(c) /\ UNCHANGED <<phase, gone, req, got>>
  BY DEF Dispatch, client
<1>3. o # NoAnswer /\ ans' = [ans EXCEPT ![c] = o]
  BY <1>1, <1>2, DispatchFacts DEF Dispatch
<1>4. Regs' = Service!Effect(c, req[c]) /\ o = Service!Result(c, req[c])
  BY <1>1, <1>2, HandledMaps
<1>5. Calling(c) /\ ans[c] = NoAnswer
  BY <1>2, AckedFacts
<1>6. \A x \in Conn : pc'[x] \in {"closing", "closed"} <=> pc[x] \in {"closing", "closed"}
  BY <1>2 DEF Dispatch, TypeOK
<1>7. QED
  BY <1>2, <1>3, <1>4, <1>5, <1>6, ExecuteMaps

\* The client returns with the outcome the server has computed.
LEMMA ReturnMaps ==
  ASSUME TypeOK, CallInv, NEW c \in Conn, Rejected(c) \/ Return(c)
  PROVE  Service!Return(c)
<1>1. PICK t \in {"nack", "diag"} :
        /\ Calling(c) /\ Reads(c, t, "idle")
        /\ t = "nack" => got' = [got EXCEPT ![c] = [kind |-> "refused"]]
        /\ t = "diag" =>
             got' = [got EXCEPT ![c] = Decoded(Head(rout[c]).at, Head(rout[c]).p)]
  BY DEF Rejected, Return, Calling
<1>2. ans[c] # NoAnswer /\ got' = [got EXCEPT ![c] = ans[c]]
  <2>1. CASE t = "nack"
    BY <1>1, <2>1, EndOfCall DEF NoAnswer
  <2>2. CASE t = "diag"
    BY <1>1, <2>2, EndOfCall DEF IsAnswer
  <2>3. QED
    BY <2>1, <2>2
<1>3. UNCHANGED <<store, pc, gone, req, ans>> /\ phase' = [phase EXCEPT ![c] = "idle"]
  BY <1>1 DEF Reads, server
<1>4. Regs' = Regs
  BY <1>3 DEF Regs
<1>5. Status[c] = "done" /\ Status' = [Status EXCEPT ![c] = "idle"]
  <2>1. ~Calling(c)'
    BY <1>3 DEF Calling, TypeOK
  <2>2. Status[c] = "done" /\ Status'[c] = "idle"
    BY <1>1, <1>2, <2>1 DEF Status
  <2>3. \A x \in Conn \ {c} : (Calling(x)' <=> Calling(x)) /\ ans'[x] = ans[x]
    BY <1>3 DEF Calling, TypeOK
  <2>4. QED
    BY <2>2, <2>3, StatusOf
<1>6. Cardinality(BrokenOnes)' = Cardinality(BrokenOnes)
  <2>1. \A x \in Conn : Broken(x)' <=> Broken(x)
    BY <1>1, <1>3 DEF Broken, TypeOK, Calling
  <2>2. QED
    BY <2>1, BrokenSame
<1>7. QED
  BY <1>2, <1>3, <1>4, <1>5, <1>6 DEF Service!Return, Regs, Status, BrokenOnes

\* A call that fails uses up the end of its session.
LEMMA FailMaps ==
  ASSUME TypeOK, CallInv, NEW c \in Conn, Fails(c)
  PROVE  Service!Fail(c)
<1>1. /\ Calling(c) /\ pc[c] = "closed"
      /\ phase' = [phase EXCEPT ![c] = "off"] /\ got' = [got EXCEPT ![c] = NoAnswer]
      /\ UNCHANGED <<store, pc, gone, req, ans>>
  BY DEF Fails, server
<1>2. Regs' = Regs
  BY <1>1 DEF Regs
<1>3. Status[c] \in {"pending", "done"} /\ Status' = [Status EXCEPT ![c] = "idle"]
  <2>1. ~Calling(c)'
    BY <1>1 DEF Calling, TypeOK
  <2>2. Status[c] \in {"pending", "done"} /\ Status'[c] = "idle"
    BY <1>1, <2>1 DEF Status
  <2>3. \A x \in Conn \ {c} : (Calling(x)' <=> Calling(x)) /\ ans'[x] = ans[x]
    BY <1>1 DEF Calling, TypeOK
  <2>4. QED
    BY <2>2, <2>3, StatusOf
<1>4. /\ Cardinality(BrokenOnes) > 0
      /\ Cardinality(BrokenOnes)' = Cardinality(BrokenOnes) - 1
  <2>1. c \in BrokenOnes
    BY <1>1 DEF BrokenOnes, Broken, Calling
  <2>2. BrokenOnes' = BrokenOnes \ {c}
    BY <1>1 DEF BrokenOnes, Broken, TypeOK
  <2>3. QED
    BY <2>1, <2>2, BrokenCount
<1>5. QED
  BY <1>1, <1>2, <1>3, <1>4
  DEF Service!Fail, Service!Lost, NoAnswer, Regs, Status, BrokenOnes

LEMMA OtherMaps ==
  ASSUME TypeOK, CallInv, ~HasErrors, Answerable, NEW c \in Conn,
         \/ Connect(c) \/ Route(c) \/ Disturb(c) \/ Routed(c) \/ Acknowledged(c)
         \/ Leave(c) \/ Ignore(c) \/ Activate(c) \/ Ack(c) \/ DispatchFails(c)
         \/ Respond(c) \/ Lost(c) \/ Close(c)
  PROVE  [Service!ANext]_Service!avars
<1>1. UNCHANGED <<req, got, ans>>
  BY DEF Connect, Route, Disturb, Routed, Acknowledged, Reads, Leave, Ignore, Activate, Ack,
         DispatchFails, Respond, Lost, Close, client
<1>2. UNCHANGED store
  <2>1. CASE DispatchFails(c)
    <3>1. UdsStore(cur[c].p, store[cur[c].at]) = store[cur[c].at]
      BY <2>1, DispatchFacts DEF DispatchFails
    <3>2. QED
      BY <2>1, <3>1 DEF DispatchFails, Handled, TypeOK
  <2>2. CASE ~DispatchFails(c)
    BY <2>2 DEF Connect, Route, Disturb, Routed, Acknowledged, Reads, Leave, Ignore,
                Activate, Ack, Respond, Lost, Close, client, server
  <2>3. QED
    BY <2>1, <2>2
<1>3. CASE Connect(c) \/ Route(c) \/ Routed(c) \/ Acknowledged(c)
  <2>1. \A o \in Conn : Calling(o)' <=> Calling(o)
    <3>1. CASE Connect(c)
      <4>1. phase[c] = "off"
        BY <3>1 DEF Connect, CallInv, OneCall, BeforeCalls
      <4>2. QED
        BY <3>1, <4>1 DEF Connect, Calling, TypeOK
    <3>2. CASE Route(c) \/ Routed(c) \/ Acknowledged(c)
      BY <3>2 DEF Route, Routed, Acknowledged, Reads, Calling, TypeOK
    <3>3. QED
      BY <1>3, <3>1, <3>2
  <2>2. BrokenOnes \subseteq BrokenOnes'
    <3>1. CASE Connect(c)
      <4>1. c \notin BrokenOnes
        BY <3>1 DEF Connect, CallInv, OneCall, BeforeCalls, BrokenOnes, Broken
      <4>2. \A o \in Conn \ {c} : Broken(o) => Broken(o)'
        BY <3>1 DEF Connect, Broken, TypeOK
      <4>3. QED
        BY <4>1, <4>2 DEF BrokenOnes
    <3>2. CASE Route(c) \/ Routed(c) \/ Acknowledged(c)
      <4>1. UNCHANGED <<pc, gone>>
        BY <3>2 DEF Route, Routed, Acknowledged, Reads, server
      <4>2. \A o \in Conn : phase[o] # "off" => phase'[o] # "off"
        BY <3>2 DEF Route, Routed, Acknowledged, Reads, TypeOK
      <4>3. QED
        BY <4>1, <4>2 DEF BrokenOnes, Broken
    <3>3. QED
      BY <1>3, <3>1, <3>2
  <2>3. QED
    BY <1>1, <1>2, <2>1, <2>2, NoCallStep
<1>4. CASE \/ Disturb(c) \/ Leave(c) \/ Ignore(c) \/ Activate(c) \/ Ack(c)
           \/ DispatchFails(c) \/ Respond(c) \/ Lost(c) \/ Close(c)
  <2>1. UNCHANGED phase
    BY <1>4 DEF Disturb, Leave, Ignore, Activate, Ack, DispatchFails, Respond, Lost, Close,
                client
  <2>2. \A o \in Conn : gone[o] => gone'[o]
    BY <1>4 DEF Disturb, Leave, Ignore, Activate, Ack, DispatchFails, Respond, Lost, Close,
                TypeOK
  <2>3. \A o \in Conn : pc[o] \in {"closing", "closed"} => pc'[o] \in {"closing", "closed"}
    BY <1>4 DEF Disturb, Leave, Ignore, Activate, Ack, Accepts, Takes, DispatchFails,
                Respond, Lost, Close, TypeOK, server
  <2>4. BrokenOnes \subseteq BrokenOnes'
    BY <2>1, <2>2, <2>3 DEF BrokenOnes, Broken
  <2>5. \A o \in Conn : Calling(o)' <=> Calling(o)
    BY <2>1 DEF Calling
  <2>6. QED
    BY <1>1, <1>2, <2>4, <2>5, NoCallStep
<1>5. QED
  BY <1>3, <1>4

\* start(), stop(), and the sessions that are cancelled in the end.
LEMMA LifeMaps ==
  ASSUME TypeOK, Start \/ Stop \/ StopReturns \/ StopAtOnce \/ UNCHANGED dvars
  PROVE  [Service!ANext]_Service!avars
<1>1. UNCHANGED <<store, phase, gone, req, got, ans>>
  BY DEF Start, Stop, StopReturns, StopAtOnce, Returns, dvars, server, client
<1>2. \A o \in Conn : pc[o] \in {"closing", "closed"} => pc'[o] \in {"closing", "closed"}
  <2>1. CASE StopReturns \/ StopAtOnce
    BY <2>1 DEF StopReturns, StopAtOnce, Returns, Over
  <2>2. CASE Start \/ Stop \/ UNCHANGED dvars
    BY <2>2 DEF Start, Stop, dvars, server
  <2>3. QED
    BY <2>1, <2>2
<1>3. BrokenOnes \subseteq BrokenOnes'
  BY <1>1, <1>2 DEF BrokenOnes, Broken
<1>4. \A o \in Conn : Calling(o)' <=> Calling(o)
  BY <1>1 DEF Calling
<1>5. QED
  BY <1>1, <1>3, <1>4, NoCallStep

LEMMA ServiceInit == Init => Service!AInit
<1> SUFFICES ASSUME Init PROVE Service!AInit
  OBVIOUS
<1>1. Regs = [x \in Ecu \X Known |-> InitStore[x[1]][x[2]]]
  BY DEF Init, Regs
<1>2. Status = [c \in Conn |-> "idle"]
  BY DEF Init, Status, Calling
<1>3. Cardinality(BrokenOnes) = 0
  <2>1. BrokenOnes = {}
    BY DEF Init, BrokenOnes, Broken
  <2>2. QED
    BY <2>1, FS_EmptySet
<1>4. QED
  BY <1>1, <1>2, <1>3
  DEF Init, Service!AInit, Service!Lost, Service!NoRequest, NoAnswer, NoRequest, Regs, Status,
      BrokenOnes

LEMMA ServiceStep ==
  ASSUME TypeOK, CallInv, ~HasErrors, Answerable, [Next]_dvars
  PROVE  [Service!ANext]_Service!avars
<1>1. ASSUME NEW c \in Conn, NEW r \in Requests[c], Call(c, r)
      PROVE  Service!ANext
  BY <1>1, CallMaps DEF Service!ANext
<1>2. ASSUME NEW c \in Conn, Nack(c) \/ Dispatch(c)
      PROVE  Service!ANext
  BY <1>2, NackMaps, DispatchMaps DEF Service!ANext
<1>3. ASSUME NEW c \in Conn, Rejected(c) \/ Return(c)
      PROVE  Service!ANext
  BY <1>3, ReturnMaps DEF Service!ANext
<1>4. ASSUME NEW c \in Conn, Fails(c)
      PROVE  Service!ANext
  BY <1>4, FailMaps DEF Service!ANext
<1>5. QED
  BY <1>1, <1>2, <1>3, <1>4, OtherMaps, LifeMaps DEF Next, Listens, Serves

\* The DoIP server implements the atomic store: for any number of clients,
\* devices and data points, however the sessions interleave and whoever leaves
\* in the middle of a call, with faults switched off and writes that carry a
\* value (doip.py:244, device.py:19).
THEOREM ServesAtomically ==
  ASSUME ~HasErrors, Answerable
  PROVE  Spec => IsAtomicStore
<1>1. Spec => [](TypeOK /\ CallInv)
  <2>1. TypeOK /\ CallInv /\ [Next]_dvars => CallInv'
    BY CallStep
  <2>2. QED
    BY <2>1, CallInit, TypeInit, TypeStep, PTL DEF Spec
<1>2. TypeOK /\ CallInv /\ [Next]_dvars => [Service!ANext]_Service!avars
  BY ServiceStep
<1>3. QED
  BY <1>1, <1>2, ServiceInit, PTL DEF Spec, IsAtomicStore, Service!ASpec
=============================================================================
