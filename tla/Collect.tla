------------------------------ MODULE Collect ------------------------------
(***************************************************************************)
(* The collect protocol, in which a device broadcasts its data points:     *)
(* segment_collect() of simulator/protocol/collect.py, and a listener that *)
(* follows the checklist of docs/protocols.md ("Receiver implementation    *)
(* checklist").  Frames are the eight bytes of the code, as length codes,  *)
(* sequence bytes and data share their range: only their place tells them  *)
(* apart.                                                                  *)
(***************************************************************************)
EXTENDS Integers, Sequences, SequencesExt

FrameLen == 8
PadByte  == 85           \* 0x55
SeqMin   == 32           \* 0x20
SeqFirst == 33           \* 0x21
SeqMax   == 47           \* 0x2F
ShortMax == 15           \* longest length that fits the low nibble
LenBase  == 176          \* 0xB0
Escape   == 193          \* 0xC1
Escapes  == {181, 193}   \* 0xB5, 0xC1

Frame == [1 .. FrameLen -> 0 .. 255]

-----------------------------------------------------------------------------
(* segment_collect() *)

\* What it accepts: it raises ValueError for the empty payload, and building
\* the header of a longer one does.
Sendable(p) == Len(p) \in 1 .. 255

Pad(b) == [i \in 1 .. FrameLen |-> IF i <= Len(b) THEN b[i] ELSE PadByte]

\* Mutant of NextSeq: the counter does not wrap.
RunsOn(s) == s + 1

NextSeq(s) == IF s + 1 > SeqMax THEN SeqMin ELSE s + 1

\* Mutant of LengthCode: the length 0xC1 is not escaped.
EscapesOne(n) ==
  IF n <= ShortMax THEN <<LenBase + n>>
  ELSE IF n = 181 THEN <<LenBase, Escape, n>>
  ELSE <<LenBase, n>>

\* Mutant of LengthCode: one length too many for the low nibble.
OneTooMany(n) ==
  IF n <= ShortMax + 1 THEN <<LenBase + n>>
  ELSE IF n \in Escapes THEN <<LenBase, Escape, n>>
  ELSE <<LenBase, n>>

LengthCode(n) ==
  IF n <= ShortMax THEN <<LenBase + n>>
  ELSE IF n \in Escapes THEN <<LenBase, Escape, n>>
  ELSE <<LenBase, n>>

\* The sequence byte of the k-th frame of a message.
SeqByte[k \in 1 .. 37] == IF k = 1 THEN SeqFirst ELSE NextSeq(SeqByte[k - 1])

\* The frames of payload p for data identifier d.
SegmentCollect(d, p) ==
  LET prefix == <<SeqFirst, d % 256, (d \div 256) % 256>> \o LengthCode(Len(p))
      first  == FrameLen - Len(prefix)
      rest   == SubSeq(p, first + 1, Len(p))
      chunk(k) == SubSeq(rest, 7 * k - 6, IF 7 * k < Len(rest)
                                          THEN 7 * k ELSE Len(rest))
  IN [k \in 1 .. 1 + (Len(rest) + 6) \div 7 |->
        IF k = 1
        THEN Pad(prefix \o SubSeq(p, 1, IF first < Len(p) THEN first ELSE Len(p)))
        ELSE Pad(<<SeqByte[k]>> \o chunk(k - 1))]

\* With more frames than that, a continuation frame carries the sequence byte
\* of a first frame.
Repeats(frames) == Len(frames) > 16

-----------------------------------------------------------------------------
(* A listener: the data identifier and length that the first frame told,   *)
(* the data received and the sequence byte expected next.                  *)

NotListening == [did |-> 0, len |-> 0, data |-> <<>>, want |-> 0]

\* The length that a first frame announces, and where its data start.
Announced(b) ==
  IF b[4] % 16 > 0 THEN [len |-> b[4] % 16, at |-> 5]
  ELSE IF b[5] = Escape THEN [len |-> b[6], at |-> 7]
  ELSE [len |-> b[5], at |-> 6]

\* The listener with frame b taken in.  A frame other than the expected one
\* discards the message, and is a first frame if it looks like one.
Heeded(l, b) ==
  IF l # NotListening /\ b[1] = l.want
  THEN [l EXCEPT !.data = @ \o SubSeq(b, 2, FrameLen),
                 !.want = IF @ = SeqMax THEN SeqMin ELSE @ + 1]
  ELSE IF b[1] = SeqFirst
  THEN [did  |-> b[2] + 256 * b[3],
        len  |-> Announced(b).len,
        data |-> SubSeq(b, Announced(b).at, FrameLen),
        want |-> SeqFirst + 1]
  ELSE NotListening

\* The message is complete; padding is left off.
Complete(l) == l # NotListening /\ Len(l.data) >= l.len

\* What a listener makes of a list of frames.
Reception(frames) == FoldLeft(Heeded, NotListening, frames)

MessageOf(l) == <<l.did, SubSeq(l.data, 1, l.len)>>
=============================================================================
