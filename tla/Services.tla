----------------------------- MODULE Services ------------------------------
(***************************************************************************)
(* The data store and the two protocol handlers of a simulated device:     *)
(* simulator/datastore.py, simulator/protocol/uds.py and                   *)
(* simulator/protocol/service77.py.  Every operator is the effect of one   *)
(* call of handle(), which contains no await and so is atomic: the reply   *)
(* it returns and the store it leaves.  The reply <<>> stands for None.    *)
(*                                                                         *)
(* A data identifier is one symbol (two bytes in the code), the CTR and    *)
(* client-id bytes of a Service 77 request are one symbol (five bytes),    *)
(* so the length checks are the code's less the bytes saved.  A symbol of  *)
(* a value may be one of HighByte, the bytes from 0x80 up, which Service   *)
(* 77 takes for a length code when it stands at the code's place.          *)
(***************************************************************************)
EXTENDS Integers, Sequences

CONSTANTS
  Did,        \* data identifiers that requests name
  Known,      \* those the data store was loaded with
  Protected,  \* those in the device's service77_dids
  ValByte,    \* symbols that values are made of
  HighByte,   \* the symbols whose byte is 0x80 or more
  Ctr         \* CTR fields of Service 77 requests

ASSUME ServicesAssumption ==
  /\ Known \subseteq Did
  /\ Protected \subseteq Did

\* Service identifiers, 7F, the confirm byte and the NRCs the code sends;
\* "00" and "AA" are bytes that fault injection writes, "CC" pads frames.
HeaderByte == {"22", "2E", "77", "62", "6E", "7F", "3E", "44",
               "11", "12", "31", "00", "AA", "CC", "??"}

Byte == Did \cup ValByte \cup HighByte \cup Ctr \cup HeaderByte

Payload == Seq(Byte)

\* The data store: a value for every known identifier.
Store == [Known -> Payload]

-----------------------------------------------------------------------------
(* DatapointStore *)

\* Mutant of StoreWritten: a write creates an unknown data point.
Creates(st, d, v) == [x \in Known \cup {d} |-> IF x = d THEN v ELSE st[x]]

StoreWritten(st, d, v) == IF d \in Known THEN [st EXCEPT ![d] = v] ELSE st

-----------------------------------------------------------------------------
(* UDSHandler *)

Negative(sid, nrc) == <<"7F", sid, nrc>>

ReadReply(p, st) ==
  IF Len(p) < 2 THEN Negative("22", "12")
  ELSE IF p[2] \notin Known THEN Negative("22", "31")
  ELSE <<"62", p[2]>> \o st[p[2]]

\* Mutant of WriteData: the slice starts one byte too early.
KeepsDid(p) == SubSeq(p, 2, Len(p))

WriteData(p) == SubSeq(p, 3, Len(p))

\* Mutant of WriteAllowed: the protected data points are forgotten.
Unprotected(p) == Len(p) >= 3

\* The request passes the checks made before the store is asked.
WriteAllowed(p) == Len(p) >= 3 /\ p[2] \notin Protected

WriteReply(p) ==
  IF Len(p) < 3 THEN Negative("2E", "12")
  ELSE IF ~WriteAllowed(p) THEN Negative("2E", "22")
  ELSE IF p[2] \notin Known THEN Negative("2E", "31")
  ELSE <<"6E", p[2]>>

UdsReply(p, st) ==
  IF p = <<>> THEN <<>>
  ELSE CASE p[1] = "22" -> ReadReply(p, st)
         [] p[1] = "2E" -> WriteReply(p)
         [] OTHER -> Negative(p[1], "11")

UdsStore(p, st) ==
  IF p # <<>> /\ p[1] = "2E" /\ WriteAllowed(p)
  THEN StoreWritten(st, p[2], WriteData(p))
  ELSE st

-----------------------------------------------------------------------------
(* Service77Handler: SID, CTR, DID, then an optional length code and data. *)

S77Header == 4

S77Data(p) ==
  IF p[4] \in HighByte THEN SubSeq(p, 5, Len(p)) ELSE SubSeq(p, 4, Len(p))

S77Reply(p) ==
  IF p = <<>> \/ p[1] # "77" THEN <<>>
  ELSE IF Len(p) < S77Header THEN Negative("77", "12")
  ELSE IF p[3] \notin Known THEN Negative("77", "31")
  ELSE <<"77", p[2], "44">>

S77Store(p, st) ==
  IF p # <<>> /\ p[1] = "77" /\ Len(p) >= S77Header
  THEN StoreWritten(st, p[3], S77Data(p))
  ELSE st
=============================================================================
