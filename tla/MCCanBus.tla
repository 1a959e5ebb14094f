------------------------------ MODULE MCCanBus -----------------------------
(* Instances of CanBus for TLC. *)
EXTENDS CanBus

CONSTANTS i1, i2, i3, oa, ob

MCId == {i1, i2, i3}
MCOwner == {oa, ob}

\* i1 is registered twice, the second time by the other owner; i3 by nobody.
MCRegistrations == <<<<i1, oa>>, <<i2, oa>>, <<i1, ob>>>>

MCAnyOutcome == {"sent", "busy", "error", "raises"}
MCTransient == {"sent", "busy"}
=============================================================================
