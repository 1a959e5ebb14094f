------------------------------ MODULE Faults -------------------------------
(***************************************************************************)
(* The frame mutations of simulator/faults.py.  FaultInjector draws one    *)
(* fault at random and the fault draws its own parameters; here each fault *)
(* is the set of frame lists it may return for the complete list fs that   *)
(* segment() produced, and Injected(fs) is everything _maybe_inject may    *)
(* hand on.  The DID stands at d[2] of the first frame and the service at  *)
(* d[1], in a single frame and in a first frame alike.                     *)
(***************************************************************************)
EXTENDS IsoTp, Services, SequencesExt

CONSTANTS
  HasErrors,  \* the device's error_pct is positive
  ShortMax    \* most symbols SHORT_PAYLOAD blanks (3 in the code)

ASSUME FaultsAssumption ==
  /\ HasErrors \in BOOLEAN
  /\ ShortMax \in Nat /\ ShortMax <= FFCap /\ ShortMax <= CFCap
  /\ FFCap >= 2

\* The positions of the consecutive frames in a frame list.
CFs(fs) == 2 .. Len(fs)

WrongDid(fs) ==
  {[fs EXCEPT ![1].d[2] = x] : x \in (Did \cup {"??"}) \ {fs[1].d[2]}}

WrongService(fs) == {[fs EXCEPT ![1].d[1] = "00"]}

\* The last k symbols of the last frame become padding.
Blanked(d, k) == [i \in DOMAIN d |-> IF i > Len(d) - k THEN PadByte ELSE d[i]]

ShortPayload(fs) ==
  {[fs EXCEPT ![Len(fs)].d = Blanked(@, k)] : k \in 1 .. ShortMax}

\* Every byte 0xCC of the frame is replaced, be it padding or data or the
\* low byte of an announced length (0xCC is 204, 0xAA is 170).
Repadded(f) ==
  [f EXCEPT !.d = [i \in DOMAIN @ |-> IF @[i] = PadByte THEN "AA" ELSE @[i]],
            !.n = IF f.t = "FF" /\ @ % 256 = 204 THEN @ - 34 ELSE @]

WrongPadding(fs) == {[i \in DOMAIN fs |-> Repadded(fs[i])]}

DropRandomCF(fs) == {RemoveAt(fs, i) : i \in CFs(fs)}

DropLastCF(fs) == {Front(fs)}

WrongSeq(fs) ==
  {[fs EXCEPT ![i].n = (@ + 1) % SeqWrap] : i \in CFs(fs)}

DuplicateCF(fs) == {InsertAt(fs, i, fs[i]) : i \in CFs(fs)}

TruncatedMF(fs) == {<<fs[1]>>}

WrongLen(fs) == {[fs EXCEPT ![1].n = Smaller(@ + 1, MaxLen)]}

SFFaults(fs) ==
  WrongDid(fs) \cup WrongService(fs) \cup ShortPayload(fs) \cup WrongPadding(fs)

MFFaults(fs) ==
  SFFaults(fs) \cup DropRandomCF(fs) \cup DropLastCF(fs) \cup WrongSeq(fs)
    \cup DuplicateCF(fs) \cup TruncatedMF(fs) \cup WrongLen(fs)

\* What the injector may make of the frame list of a response.
Injected(fs) ==
  {fs} \cup (IF ~HasErrors THEN {}
             ELSE IF Len(fs) > 1 THEN MFFaults(fs) ELSE SFFaults(fs))

-----------------------------------------------------------------------------
(* SimulatedDevice.handle_uds_payload(): for DoIP the frames that the       *)
(* injector lets through are joined again.                                 *)

\* The data of a frame list one after the other, whatever sequence numbers
\* the frames carry; each is as full as segment() made it.
Joined(fs) ==
  [i \in 1 .. FFCap + (Len(fs) - 1) * CFCap |->
     IF i <= FFCap THEN fs[1].d[i]
     ELSE fs[2 + (i - FFCap - 1) \div CFCap].d[1 + ((i - FFCap - 1) % CFCap)]]

\* Mutant of Unframed: the padding of the last frame stays on.
KeepsPadding(fs) == IF Len(fs) > 1 THEN Joined(fs) ELSE fs[1].d

\* Mutant of Unframed: a frame out of sequence is left out.
InSequence(fs) ==
  LET Good(f) == f.t # "CF" \/ \E k \in DOMAIN fs : fs[k] = f /\ f.n = (k - 1) % SeqWrap
      kept == SelectSeq(fs, Good)
  IN  Take(Joined(kept), fs[1].n)

\* A first frame left alone is read as a single frame: the high four bits of
\* its length count the symbols, the first being the length's low byte.
Unframed(fs) ==
  IF Len(fs) > 1 THEN Take(Joined(fs), fs[1].n)
  ELSE IF fs[1].t = "SF" THEN Take(fs[1].d, fs[1].n)
  ELSE Take(<<"??">> \o fs[1].d, fs[1].n \div 256)
=============================================================================
