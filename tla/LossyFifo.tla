----------------------------- MODULE LossyFifo -----------------------------
(***************************************************************************)
(* What CANBus.send() promises its callers (simulator/bus.py:153-209): the *)
(* frames handed to it reach the interface in the order they were handed   *)
(* over, each at most once.  A frame may be dropped.                       *)
(***************************************************************************)
EXTENDS Naturals, Sequences

CONSTANT Msg

VARIABLES
  pending,  \* handed to send(), neither on the interface nor dropped
  passed    \* on the interface

fifoVars == <<pending, passed>>

FInit == pending = <<>> /\ passed = <<>>

Enqueue(m) ==
  /\ pending' = Append(pending, m)
  /\ UNCHANGED passed

Pass ==
  /\ pending # <<>>
  /\ passed' = Append(passed, Head(pending))
  /\ pending' = Tail(pending)

Drop ==
  /\ pending # <<>>
  /\ pending' = Tail(pending)
  /\ UNCHANGED passed

FNext == (\E m \in Msg : Enqueue(m)) \/ Pass \/ Drop

FSpec == FInit /\ [][FNext]_fifoVars
=============================================================================
