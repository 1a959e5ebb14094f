------------------------------- MODULE IsoTp -------------------------------
(***************************************************************************)
(* ISO 15765-2 transport as simulator/protocol/isotp.py implements it:     *)
(* segmentation of a payload into CAN frames, and the reassembler that is  *)
(* fed one frame at a time.  This module has no state of its own; the      *)
(* modules that own an assembler keep it in a variable and step it with    *)
(* Fed.                                                                    *)
(*                                                                         *)
(* A payload is a sequence of symbols.  A CAN frame is a record            *)
(*     [t |-> frame type, n |-> number, d |-> data symbols]                *)
(* where n is the length (SF, FF) or the sequence number (CF) that the     *)
(* frame's header carries.  Segment fills d up with PadByte as the code    *)
(* does; a frame whose d is shorter came from a CAN frame with a DLC       *)
(* below 8.  Frames whose header bytes are missing altogether have types   *)
(* of their own: "FFcut" is a first frame of one byte, "empty" a frame     *)
(* of none.                                                                *)
(***************************************************************************)
EXTENDS Integers, Sequences

CONSTANTS
  SFCap,      \* most symbols a single frame carries (7 in the code)
  FFCap,      \* symbols a first frame carries (6)
  CFCap,      \* most symbols a consecutive frame carries (7)
  SeqWrap,    \* sequence numbers wrap at this (16)
  MaxLen      \* longest payload a first frame can announce (4095)

ASSUME IsoTpAssumption ==
  /\ SFCap \in Nat \ {0} /\ FFCap \in Nat \ {0} /\ CFCap \in Nat \ {0}
  /\ SeqWrap \in Nat /\ SeqWrap > 1
  /\ MaxLen \in Nat
  /\ FFCap <= SFCap /\ SFCap < MaxLen

PadByte == "CC"

FrameType == {"SF", "FF", "CF", "FC", "other", "FFcut", "empty"}

Frame(S) == [t : FrameType, n : Nat, d : Seq(S)]

Smaller(i, j) == IF i <= j THEN i ELSE j

\* A Python slice s[:n]: shorter when s is.
Take(s, n) == SubSeq(s, 1, Smaller(n, Len(s)))

Padded(s, n) == s \o [i \in 1 .. n - Len(s) |-> PadByte]

-----------------------------------------------------------------------------
(* Segmentation *)

FlowControl == [t |-> "FC", n |-> 0, d |-> <<>>]

SingleFrame(p) == [t |-> "SF", n |-> Len(p), d |-> Padded(p, SFCap)]

FirstFrame(p) == [t |-> "FF", n |-> Len(p), d |-> SubSeq(p, 1, FFCap)]

\* segment() raises ValueError for a longer payload.
Segmentable(p) == Len(p) <= MaxLen

CFCount(p) == (Len(p) - FFCap + CFCap - 1) \div CFCap

\* The symbols of payload p that the k-th consecutive frame carries.
Chunk(p, k) ==
  SubSeq(p, FFCap + (k - 1) * CFCap + 1, Smaller(FFCap + k * CFCap, Len(p)))

\* Mutant of ConsecutiveFrame: after its last value the number skips 0.
WrapsToOne(p, k) ==
  [t |-> "CF", n |-> IF k % SeqWrap = 0 THEN 1 ELSE k % SeqWrap,
   d |-> Padded(Chunk(p, k), CFCap)]

ConsecutiveFrame(p, k) ==
  [t |-> "CF", n |-> k % SeqWrap, d |-> Padded(Chunk(p, k), CFCap)]

Segment(p) ==
  IF Len(p) <= SFCap
  THEN <<SingleFrame(p)>>
  ELSE <<FirstFrame(p)>> \o [k \in 1 .. CFCount(p) |-> ConsecutiveFrame(p, k)]

-----------------------------------------------------------------------------
(* Reassembly: the state of an ISOTPAssembler and its step *)

Assembler(S) == [on : BOOLEAN, want : Nat, buf : Seq(S), seq : Nat]

Reset == [on |-> FALSE, want |-> 0, buf |-> <<>>, seq |-> 1]

\* The three frames that the assembler acts on; any other leaves it alone.
IsSingle(f) == f.t = "SF" /\ f.n \in 1 .. SFCap
IsFirst(f)  == f.t = "FF" /\ f.n > SFCap

\* Mutant of IsNext: the sequence number is not looked at.
AnyNext(a, f) == f.t = "CF" /\ a.on

IsNext(a, f) == f.t = "CF" /\ a.on /\ f.n = a.seq
IsMismatch(a, f) == f.t = "CF" /\ a.on /\ f.n # a.seq

Grown(a, f) == a.buf \o Take(f.d, Smaller(CFCap, a.want - Len(a.buf)))

Fills(a, f) == IsNext(a, f) /\ Len(Grown(a, f)) >= a.want

\* feed() returns a payload, namely PayloadOf(a, f).
Completes(a, f) == IsSingle(f) \/ Fills(a, f)

\* Mutant of PayloadOf: the padding of a single frame stays on.
Untrimmed(a, f) ==
  IF IsSingle(f) THEN f.d ELSE Take(Grown(a, f), a.want)

PayloadOf(a, f) ==
  IF IsSingle(f) THEN Take(f.d, f.n) ELSE Take(Grown(a, f), a.want)

\* Mutant of Fed: a first frame does not interrupt a reassembly.
KeepsOld(a, f) ==
  CASE IsFirst(f) /\ ~a.on ->
         [on |-> TRUE, want |-> f.n, buf |-> Take(f.d, FFCap), seq |-> 1]
    [] Completes(a, f) \/ IsMismatch(a, f) -> Reset
    [] IsNext(a, f) /\ ~Fills(a, f) ->
         [a EXCEPT !.buf = Grown(a, f), !.seq = (a.seq + 1) % SeqWrap]
    [] OTHER -> a

\* The assembler after feed().
Fed(a, f) ==
  CASE IsFirst(f) ->
         [on |-> TRUE, want |-> f.n, buf |-> Take(f.d, FFCap), seq |-> 1]
    [] Completes(a, f) \/ IsMismatch(a, f) -> Reset
    [] IsNext(a, f) /\ ~Fills(a, f) ->
         [a EXCEPT !.buf = Grown(a, f), !.seq = (a.seq + 1) % SeqWrap]
    [] OTHER -> a

\* feed() indexes data[1] of a first frame before it looks at the length.
FeedRaises(f) == f.t = "FFcut"
=============================================================================
