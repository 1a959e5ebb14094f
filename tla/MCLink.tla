------------------------------- MODULE MCLink ------------------------------
(***************************************************************************)
(* Link with the frame sizes of the code.  The sizes chosen lie around the *)
(* change from single to multi-frame, around full last frames and around   *)
(* the wraps of the sequence number at 16 and 32 consecutive frames; the   *)
(* symbols of a response are all different, but for the padding byte.      *)
(***************************************************************************)
EXTENDS Link

Sizes == 3 .. 16 \cup 104 .. 120 \cup {204, 230, 231, 256, 300}

Symbol == {ToString(i) : i \in 1 .. 300}

\* Every other response holds the byte 0xCC among its data.
Response(n) == [i \in 1 .. n |-> IF i = 4 /\ n % 2 = 0 THEN PadByte ELSE ToString(i)]

MCResponses == {Response(n) : n \in Sizes}
=============================================================================
