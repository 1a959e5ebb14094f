------------------------------ MODULE MCDevice -----------------------------
(***************************************************************************)
(* Small instances of Device.  A single frame carries three symbols and a  *)
(* consecutive frame as many, sequence numbers wrap at 2, and no payload   *)
(* is longer than 6: an overlong value, a wrap and a payload of exactly    *)
(* MaxLen all come within two consecutive frames.                          *)
(***************************************************************************)
EXTENDS Device

CONSTANTS d1, d2, d3, va, vb, lc, c1

MCDid == {d1, d2, d3}
MCKnown == {d1, d2}
MCProtected == {d2}
MCValByte == {va, vb}
MCHighByte == {lc}
MCCtr == {c1}

FramesOf(payloads) ==
  UNION {{Segment(p)[i] : i \in 1 .. Len(Segment(p))} : p \in payloads}

\* A stored value of the greatest length that a read reply can carry.
MCInitStore == [d \in MCKnown |-> <<va, va, va, va>>]

\* One symbol longer: from_file() sets no limit.
MCLongStore == [MCInitStore EXCEPT ![d1] = <<va, va, va, va, va>>]

Reads == {<<"22">>, <<"22", d1>>, <<"22", d3>>}
Writes == {<<"2E", d1>>, <<"2E", d2, vb>>, <<"2E", d3, vb>>,
           <<"2E", d1, vb, vb, vb, vb>>}
S77Writes == {<<"77", c1, d2, lc, vb, vb>>}
Stray == {<<"3E">>}

MCRich ==
  [w \in Worker |->
     IF w = "UDS"
     THEN FramesOf(Reads \cup Writes \cup Stray) \cup {FlowControl}
     ELSE FramesOf(S77Writes)]

\* Frames with a DLC below 8: a first frame of one byte, a frame of none.
Short(t) == [t |-> t, n |-> 0, d |-> <<>>]

\* The requests that the Service 77 handler refuses or ignores are here.
MCFragile ==
  [w \in Worker |->
     IF w = "UDS"
     THEN FramesOf({<<"22", d1>>, <<"22", d2>>})
            \cup {FlowControl, Short("FFcut"), Short("empty")}
     ELSE FramesOf({<<"3E">>, <<"77">>})]
=============================================================================
