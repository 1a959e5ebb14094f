-------------------------- MODULE RegisterService --------------------------
(***************************************************************************)
(* What a device on the CAN bus, or the DoIP server with all its devices,  *)
(* promises its clients, with no frames and no connections in sight: a set *)
(* of registers, one per known data point.  A client calls, its request    *)
(* takes effect at one instant between the call and the return, exactly    *)
(* once, and the outcome it returns with is that of this instant.  "A      *)
(* write via Service 77 is immediately visible to UDS reads and vice       *)
(* versa" (simulator/device.py:19) is a consequence.  Each mishap, a frame *)
(* or a connection lost, costs one call at most its outcome, executed or   *)
(* not.                                                                    *)
(***************************************************************************)
EXTENDS Naturals

CONSTANTS
  Channel,    \* the clients
  Request,    \* [Channel -> set of records with op, did, val]
  Registers,  \* the known data points
  Guarded,    \* [Channel -> set of registers that the client may not write]
  InitReg     \* their initial values

VARIABLES
  reg,        \* the registers
  status,     \* for each client "idle", "pending" or "done"
  request,    \* its current or last request
  outcome,    \* the outcome of the request, once done
  returned,   \* what its last call returned
  spare       \* mishaps that have not yet cost a call

avars == <<reg, status, request, outcome, returned, spare>>

Lost == [kind |-> "lost"]

NoRequest == [op |-> "none"]

Refused(c, r) ==
  \/ r.did \notin Registers
  \/ r.op = "write" /\ r.did \in Guarded[c]

Effect(c, r) ==
  IF r.op = "write" /\ ~Refused(c, r) THEN [reg EXCEPT ![r.did] = r.val] ELSE reg

Result(c, r) ==
  IF Refused(c, r) THEN [kind |-> "refused"]
  ELSE IF r.op = "write" THEN [kind |-> "written"]
  ELSE [kind |-> "value", did |-> r.did, val |-> reg[r.did]]

AInit ==
  /\ reg = InitReg
  /\ status = [c \in Channel |-> "idle"]
  /\ request = [c \in Channel |-> NoRequest]
  /\ outcome = [c \in Channel |-> Lost]
  /\ returned = [c \in Channel |-> Lost]
  /\ spare = 0

Call(c) ==
  /\ status[c] = "idle"
  /\ \E r \in Request[c] : request' = [request EXCEPT ![c] = r]
  /\ status' = [status EXCEPT ![c] = "pending"]
  /\ outcome' = [outcome EXCEPT ![c] = Lost]
  /\ UNCHANGED <<reg, returned, spare>>

Execute(c) ==
  /\ status[c] = "pending"
  /\ reg' = Effect(c, request[c])
  /\ outcome' = [outcome EXCEPT ![c] = Result(c, request[c])]
  /\ status' = [status EXCEPT ![c] = "done"]
  /\ UNCHANGED <<request, returned, spare>>

Return(c) ==
  /\ status[c] = "done"
  /\ returned' = [returned EXCEPT ![c] = outcome[c]]
  /\ status' = [status EXCEPT ![c] = "idle"]
  /\ UNCHANGED <<reg, request, outcome, spare>>

\* Frames or connections are lost.
Mishap ==
  /\ spare' \in Nat /\ spare' > spare
  /\ UNCHANGED <<reg, status, request, outcome, returned>>

Fail(c) ==
  /\ spare > 0
  /\ spare' = spare - 1
  /\ status[c] \in {"pending", "done"}
  /\ returned' = [returned EXCEPT ![c] = Lost]
  /\ status' = [status EXCEPT ![c] = "idle"]
  /\ UNCHANGED <<reg, request, outcome>>

ANext ==
  \/ Mishap
  \/ \E c \in Channel : Call(c) \/ Execute(c) \/ Return(c) \/ Fail(c)

ASpec == AInit /\ [][ANext]_avars
=============================================================================
