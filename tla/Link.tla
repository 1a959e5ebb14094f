-------------------------------- MODULE Link -------------------------------
(***************************************************************************)
(* One response on its way from segment() through the fault injector to a  *)
(* receiver that reassembles it as ISOTPAssembler does, and beside it what *)
(* handle_uds_payload() makes of the same frames for a DoIP client, with   *)
(* the sizes of the code.  It answers what a client can make of each fault *)
(* on either transport.                                                    *)
(***************************************************************************)
EXTENDS Faults

CONSTANT
  Responses  \* the responses that are sent

\* A response has a service, and is short enough for segment().  A length that
\* WRONG_PADDING rewrites, down to 170, still needs a first frame.
ASSUME LinkAssumption ==
  /\ Responses \subseteq Payload
  /\ \A p \in Responses : p # <<>> /\ Segmentable(p)
  /\ SFCap < 170

VARIABLES
  sent,      \* the response
  fault,     \* the FaultType drawn, "NONE" for a response that stays clean
  wire,      \* its frames still to arrive
  rx,        \* the receiver's assembler
  received,  \* the payloads delivered so far
  doip       \* the payload that a DoIP client gets instead

lvars == <<sent, fault, wire, rx, received, doip>>

\* _apply: the frame lists that each fault may make of fs.
Apply(ft, fs) ==
  CASE ft = "NONE"           -> {fs}
    [] ft = "WRONG_DID"      -> WrongDid(fs)
    [] ft = "WRONG_SERVICE"  -> WrongService(fs)
    [] ft = "SHORT_PAYLOAD"  -> ShortPayload(fs)
    [] ft = "WRONG_PADDING"  -> WrongPadding(fs)
    [] ft = "DROP_RANDOM_CF" -> DropRandomCF(fs)
    [] ft = "DROP_LAST_CF"   -> DropLastCF(fs)
    [] ft = "WRONG_SEQ"      -> WrongSeq(fs)
    [] ft = "DUPLICATE_CF"   -> DuplicateCF(fs)
    [] ft = "TRUNCATED_MF"   -> TruncatedMF(fs)
    [] ft = "WRONG_LEN"      -> WrongLen(fs)

SFPool == {"WRONG_DID", "WRONG_SERVICE", "SHORT_PAYLOAD", "WRONG_PADDING"}

MFPool ==
  SFPool \cup {"DROP_RANDOM_CF", "DROP_LAST_CF", "WRONG_SEQ", "DUPLICATE_CF",
               "TRUNCATED_MF", "WRONG_LEN"}

\* _maybe_inject: what may be drawn for the frame list fs.
Pool(fs) ==
  {"NONE"} \cup (IF ~HasErrors THEN {} ELSE IF Len(fs) > 1 THEN MFPool ELSE SFPool)

LInit ==
  /\ sent \in Responses
  /\ fault \in Pool(Segment(sent))
  /\ wire \in Apply(fault, Segment(sent))
  /\ rx = Reset
  /\ received = <<>>
  /\ doip = Unframed(wire)

Arrive ==
  /\ wire # <<>>
  /\ wire' = Tail(wire)
  /\ rx' = Fed(rx, Head(wire))
  /\ received' = IF Completes(rx, Head(wire))
                 THEN Append(received, PayloadOf(rx, Head(wire)))
                 ELSE received
  /\ UNCHANGED <<sent, fault, doip>>

LSpec == LInit /\ [][Arrive]_lvars

-----------------------------------------------------------------------------
\* While a clean response arrives the receiver holds a prefix of it, in step
\* with the frames that remain, and at the end it has been delivered once,
\* whole: also past the wrap of the sequence number (isotp.py:124, 228).
RoundTrip ==
  fault = "NONE" =>
    /\ rx.buf = Take(sent, Len(rx.buf))
    /\ received = IF wire = <<>> THEN <<sent>> ELSE <<>>

\* The faults that drop, repeat or renumber consecutive frames are seen by
\* the receiver: what it delivers, if anything, is the response unharmed; those
\* that lose the end leave it waiting (README.md:360-364).
Structural ==
  {"DROP_RANDOM_CF", "DROP_LAST_CF", "WRONG_SEQ", "DUPLICATE_CF", "TRUNCATED_MF"}

StructuralFaultsAreSeen ==
  /\ fault \in Structural => received \in {<<>>, <<sent>>}
  /\ fault \in {"DROP_LAST_CF", "TRUNCATED_MF"} /\ wire = <<>> =>
       rx.on /\ received = <<>>

\* The faults that rewrite a header, the tail or the padding deliver one payload
\* of the announced length, unless the length's own low byte is taken for padding.
Rewriting == {"WRONG_DID", "WRONG_SERVICE", "SHORT_PAYLOAD", "WRONG_PADDING"}

LengthSpared == fault = "WRONG_PADDING" => Len(sent) % 256 # 204

RewritingFaultsDeliver ==
  fault \in Rewriting /\ LengthSpared /\ wire = <<>> =>
    Len(received) = 1 /\ Len(received[1]) = Len(sent)

\* A fault that rewrites does the same to a CAN client and to a DoIP client
\* (doip.py:57-58, "applies to DoIP responses the same way").
SameOverDoIP ==
  fault \in Rewriting \cup {"NONE"} /\ wire = <<>> => received = <<doip>>

\* Over DoIP nobody looks at sequence numbers: a renumbered response passes for
\* a clean one, one with a frame twice keeps its length, and the faults that
\* lose frames show in the length alone (device.py:226-233).
DoIPSeesLossOnly ==
  CASE fault \in {"NONE", "WRONG_SEQ"} -> doip = sent
    [] fault = "DUPLICATE_CF" -> Len(doip) = Len(sent)
    [] fault \in {"DROP_RANDOM_CF", "DROP_LAST_CF", "TRUNCATED_MF"} ->
         Len(doip) < Len(sent)
    [] OTHER -> TRUE
=============================================================================
