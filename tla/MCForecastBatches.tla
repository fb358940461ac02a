-------------------------- MODULE MCForecastBatches --------------------------
(***************************************************************************)
(* ForecastBatches on small instances, and what the deployment guide says  *)
(* of it that the code does not do when the forecast command runs beside   *)
(* the server.                                                             *)
(***************************************************************************)
EXTENDS ForecastBatches

\* deploy/oracle/README.md:116: a complete forecast batch is published
\* atomically, the preceding complete one remains served.  Stated for any
\* number of writers: what is served at a horizon covers the territory.
CompleteBatchServed ==
  \A h \in 1..Horizons : Served(h) # 0 =>
    \A r \in 1..Regions : <<Served(h), r, h>> \in scores
=============================================================================
