---------------------------- MODULE MCGameServer ----------------------------
(* A small installation: one scored role of one place and one of two, one    *)
(* jam role of one place, two instruments of which one fits neither the jam  *)
(* role nor the second scored role.                                          *)
EXTENDS GameServer, TLC

CONSTANTS d1, d2, d3, f1, f2, tune, plain, lead, choir, drum,
          soloTune, soloPlain

MCSoloRole == [i \in Instrument |-> IF i = tune THEN soloTune ELSE soloPlain]
MCNodeRoles == "stage" :> <<lead, choir>> @@ "pit" :> <<drum, choir>>
MCLimit == lead :> 1 @@ choir :> 2 @@ drum :> 1
MCRefused == (Instrument \ {tune}) \X {choir, drum}

\* No simulator: the Room comes up with every fixture unbound.
MCUnbound == {[f \in Fixture |-> None]}
=============================================================================
