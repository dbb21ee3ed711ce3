------------------------------ MODULE MCMusic -------------------------------
(* Scores for TLC: a loop with a note over its bar line, one struck on the   *)
(* bar line itself (piano.mid's), and a one-shot with a lead-in and a pedal. *)
(* The drum kit's part is granted too; its loop adds nothing to the piano's. *)
EXTENDS Programme

E(at, kind, value) == [beat |-> at, kind |-> kind, value |-> value]

MCScore ==
    [piano |-> [loop |-> TRUE, length |-> 4, skip |-> 0, file |->
         <<E(0, "on", 1), E(2, "on", 2), E(3, "off", 2), E(4, "off", 1),
           E(4, "on", 3), E(4, "off", 3)>>],
     arabesque |-> [loop |-> FALSE, length |-> 0, skip |-> 1, file |->
         <<E(0, "on", 4), E(1, "volume", "full"), E(1, "on", 5), E(1, "down", 0),
           E(2, "off", 5), E(3, "up", 0)>>]]

MCOrder == <<"piano">>
MCPartOf == [piano |-> 1, arabesque |-> 3]
MCPlayer == <<FALSE, TRUE, FALSE>>
MCRotations == {<<"a">>, <<"a", "b">>}
MCRoles == {MCPlayer, <<FALSE>>}

=============================================================================
