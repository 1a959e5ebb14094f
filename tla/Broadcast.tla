----------------------------- MODULE Broadcast -----------------------------
(***************************************************************************)
(* What the cyclic messages of a device promise whoever listens: each is   *)
(* the value its data point had at one instant, whole, heard in the order  *)
(* of those instants and at most once.  A message may be lost.             *)
(***************************************************************************)
EXTENDS Sequences

CONSTANTS
  Message,  \* the cyclic messages of the device
  DidOf     \* the data identifier of each

VARIABLES
  current,  \* what each message would say now
  air,      \* said and neither heard nor lost, <<did, value>>
  heard     \* the last message heard, <<did, value>>

bvars == <<current, air, heard>>

BInit == air = <<>> /\ heard = <<>>

\* Values change as they like.
Changes == UNCHANGED <<air, heard>>

Say(m) ==
  /\ air' = Append(air, <<DidOf[m], current[m]>>)
  /\ UNCHANGED <<current, heard>>

Hear ==
  /\ air # <<>>
  /\ heard' = Head(air)
  /\ air' = Tail(air)
  /\ UNCHANGED current

Lose ==
  /\ air # <<>>
  /\ air' = Tail(air)
  /\ UNCHANGED <<current, heard>>

BNext == Changes \/ Hear \/ Lose \/ \E m \in Message : Say(m)

BSpec == BInit /\ [][BNext]_bvars
=============================================================================
