------------------------------ MODULE MCProgram -----------------------------
(* Devices files for Program: identifiers two apart collide. *)
EXTENDS Program

Dev(i, ok, dl, cy) == [tx |-> i, sound |-> ok, delay |-> dl, cyclic |-> cy]

\* One device and a meter; three devices, one listed twice and one where the
\* others' Service 77 is; a file that fails in its second entry; one that fails
\* in its meters.
MCFiles ==
  {[devices |-> <<Dev(10, TRUE, Unset, "good")>>, meters |-> <<"m">>, sound |-> TRUE],
   [devices |-> <<Dev(12, TRUE, 250, "bad"), Dev(10, TRUE, -1, "empty"),
                  Dev(10, TRUE, 40, "good")>>, meters |-> <<>>, sound |-> TRUE],
   [devices |-> <<Dev(10, TRUE, Unset, "absent"), Dev(12, TRUE, 0, "good")>>,
    meters |-> <<"m", "n">>, sound |-> TRUE],
   [devices |-> <<Dev(10, TRUE, 0, "good"), Dev(11, FALSE, 0, "good")>>,
    meters |-> <<"m">>, sound |-> TRUE],
   [devices |-> <<Dev(10, TRUE, 0, "good")>>, meters |-> <<"m">>, sound |-> FALSE]}
=============================================================================
