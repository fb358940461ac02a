------------------------ MODULE ForecastPublication ------------------------
(***************************************************************************)
(* What the readers of the risk map see of the operational forecast: every *)
(* horizon served from one and the same batch, replaced at one instant by  *)
(* a later batch and never taken away.  ForecastBatches implements this    *)
(* specification when one process at a time writes forecasts.              *)
(***************************************************************************)
EXTENDS Naturals

CONSTANT Horizons  \* the horizons of a forecast

VARIABLE served    \* the batch served at each horizon, 0 before the first

Init == served = [h \in Horizons |-> 0]

Publish ==
  \E h \in Horizons :
    /\ \A k \in Horizons : served[k] < served'[h]
    /\ served' = [k \in Horizons |-> served'[h]]

Spec == Init /\ [][Publish]_served
=============================================================================
