----------------------------- MODULE MCSession -----------------------------
(***************************************************************************)
(* Small instances of Session: two data points, d2 protected, values that  *)
(* fill a response of two consecutive frames, and data whose symbols all   *)
(* differ from request to request, so that a value pieced together from    *)
(* two requests or two responses shows.                                    *)
(***************************************************************************)
EXTENDS Session

CONSTANTS d1, d2, d3, va, vb, vc, vd, lc, c1

MCDid == {d1, d2, d3}
MCKnown == {d1, d2}
MCProtected == {d2}
MCValByte == {va, vb, vc, vd}
MCHighByte == {lc}
MCCtr == {c1}
MCInitStore ==
  [d \in MCKnown |-> IF d = d1 THEN <<va, va, va, va>> ELSE <<vd, vd, vd, vd>>]
MCNoFrame == [w \in Worker |-> {}]

Read(d) == [op |-> "read", did |-> d]
Write(d, v) == [op |-> "write", did |-> d, val |-> v]
S77Write(d, v) == [op |-> "write", did |-> d, val |-> v, ctr |-> c1]

\* Reads and writes of both data points, refused ones included.
MCRequests ==
  [w \in Worker |->
     IF w = "UDS"
     THEN {Read(d1), Read(d2), Read(d3), Write(d1, <<vb, vb, vb, vb>>),
           Write(d2, <<vb>>)}
     ELSE {S77Write(d1, <<vc, vc>>), S77Write(d2, <<vc, vc>>),
           S77Write(d3, <<vc, vc>>)}]

\* Two long writes and a read of the data point they write.
MCSplice ==
  [w \in Worker |->
     IF w = "UDS"
     THEN {Read(d1), Read(d2), Write(d1, <<vb, vb, vb, vb>>),
           Write(d1, <<vc, vc, vc, vc>>)}
     ELSE {}]

\* Reads and long writes of two data points, neither protected: the value
\* of one must never end up in the other.
MCCrossed ==
  [w \in Worker |->
     IF w = "UDS"
     THEN {Read(d1), Read(d2), Write(d1, <<vb, vb, vb, vb>>),
           Write(d2, <<vc, vc, vc, vc>>)}
     ELSE {}]
MCNone == {}
=============================================================================
