---------------------------- MODULE MCFirmsImport ----------------------------
(***************************************************************************)
(* FirmsImport on a small instance: the scheduler and the backfill command *)
(* retrieve overlapping detections, a and b, in one or two documents.      *)
(***************************************************************************)
EXTENDS FirmsImport

CONSTANTS scheduler, backfill, a, b

MCDetections == {a, b}

MCImporters == {scheduler, backfill}

MCRetrieved == [p \in MCImporters |->
  IF p = scheduler
  THEN {<<<<>>>>, <<<<a, b>>>>, <<<<b, Unreadable>>>>}
  ELSE {<<<<a>>, <<b, a>>>>, <<<<Unreadable>>, <<Unreadable, a>>>>}]
=============================================================================
