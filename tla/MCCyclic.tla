------------------------------ MODULE MCCyclic -----------------------------
(* Instances of Cyclic for TLC. *)
EXTENDS Cyclic

\* A data point, one that is not in the store, a constant and the clock.
MCMessage == {"stored", "unknown", "fixed", "time"}
MCDidOf == [m \in MCMessage |-> CASE m = "stored" -> 548
                                  [] m = "unknown" -> 1289
                                  [] m = "fixed" -> 8481
                                  [] m = "time" -> 590]
MCEncoder == [m \in MCMessage |-> CASE m = "fixed" -> "fixed"
                                    [] m = "time" -> "localtime"
                                    [] OTHER -> "store"]
MCKnown == {548}

\* Values whose bytes run through sequence bytes and length codes alike, of
\* lengths at each change of the length code and past the sixteenth frame.
ValueOf(n) == [i \in 1 .. n |-> (i + 32) % 256]
MCLoaded == {ValueOf(n) : n \in {0, 15, 16, 109, 193, 256}}

\* Values that begin with the escape byte and the first sequence byte.
MCWritten == {<<>>, <<33, 36, 2, 178, 1>>}
MCFixed == [m \in MCMessage |-> <<193, 5, 33, 33, 33, 33, 33, 33>>]
MCTimes == {<<7, 33, 59>>, <<7, 34, 0>>}
MCMeterFrame == [i \in 1 .. 8 |-> 32 + i]

\* Before anything is sent, for every length that can be: a listener has the
\* value exactly when the last of its frames has come, whichever of the three
\* length codes it takes, with padding left off and the sequence byte wrapping
\* at the right frame (collect.py:94-161).
EveryLength ==
  life = "new" =>
    \A n \in 1 .. 255 :
      LET frames == SegmentCollect(548, ValueOf(n))
      IN /\ Complete(Reception(frames))
         /\ MessageOf(Reception(frames)) = <<548, ValueOf(n)>>
         /\ ~Complete(Reception(Front(frames)))
=============================================================================
