----------------------------- MODULE MCThermal -----------------------------
(***************************************************************************)
(* Sensor 1 has a hot and a cold severity, both kept at the temperature in *)
(* between.  The hot severities of sensor 2 overlap, and the lower has no  *)
(* hysteresis.                                                             *)
(***************************************************************************)
EXTENDS Thermal, TLC

MCInfo ==
  <<[hot |-> (3 :> 4), hotHysteresis |-> (3 :> 3),
     cold |-> (1 :> 1), coldHysteresis |-> (1 :> 2)],
    [hot |-> (2 :> 2 @@ 4 :> 4), hotHysteresis |-> (2 :> 0 @@ 4 :> 3),
     cold |-> <<>>, coldHysteresis |-> <<>>]>>
MCWants == [c \in Callbacks |-> Sensors]
=============================================================================
