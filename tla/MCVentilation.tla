---------------------------- MODULE MCVentilation ----------------------------
(* Clean air, a warning by CO, and a warning by CO together with a danger by *)
(* CO2: 640 ppm fits the frame, 700 ppm does not.                            *)
EXTENDS Ventilation

MCGas == {[co |-> 5, co2 |-> 390], [co |-> 12, co2 |-> 390], [co |-> 12, co2 |-> 640]}
MCGasWide == {[co |-> 5, co2 |-> 390], [co |-> 5, co2 |-> 700]}
=============================================================================
