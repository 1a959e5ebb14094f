------------------------------- MODULE MCDoIP ------------------------------
(***************************************************************************)
(* Instances of DoIP: two devices, of which the clients also name a third, *)
(* and two data points each, d2 protected.  One value is as long as a      *)
(* reply can carry, in two frames, and one is longer.                      *)
(***************************************************************************)
EXTENDS DoIP

CONSTANTS ca, cb, e1, e2, e3, d1, d2, va, vb, vc

MCConn == {ca, cb}
MCEcu == {e1, e2}
MCDelayed == {e1}
MCAddr == {e1, e2, e3}
MCDid == {d1, d2}
MCProtected == {d2}
MCValByte == {va, vb, vc}
MCInitStore ==
  [e \in MCEcu |-> [d \in MCDid |-> IF e = e1 THEN <<va>> ELSE <<vb>>]]
MCNone == {}
MCEager == {ca}
MCCalls == [c \in MCConn |-> IF c = ca THEN 2 ELSE 1]
MCNoise == [c \in MCConn |-> IF c = ca THEN 1 ELSE 0]
MCSockRoom == [c \in MCConn |-> IF c = ca THEN 1 ELSE 0]
MCWaits == BOOLEAN

Read(e, d) == [op |-> "read", did |-> <<e, d>>, val |-> <<>>]
Write2E(e, d, v) == [op |-> "write", did |-> <<e, d>>, val |-> v]

\* Both clients read and write the first device; one also asks for the second
\* device, for the protected data point and for a device that does not exist,
\* the other writes a value too long to be read.
MCRequests ==
  [c \in MCConn |->
     IF c = ca
     THEN {Read(e1, d1), Write2E(e1, d1, <<vb, vb, vb, vb>>), Write2E(e1, d2, <<vb>>),
           Read(e3, d1), Read(e2, d1)}
     ELSE {Read(e1, d1), Write2E(e1, d1, <<vc, vc, vc, vc, vc>>), Write2E(e2, d1, <<vc>>)}]
=============================================================================
