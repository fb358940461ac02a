--------------------------- MODULE MCBlueEvidence ---------------------------
(***************************************************************************)
(* BlueEvidence on small instances, and what the workflow's documents say  *)
(* of it that the code does not do.                                        *)
(***************************************************************************)
EXTENDS BlueEvidenceInv

\* BLUE_AI_EVIDENCE_WORKFLOW.md:14: the second search gives the final verdict.
\* Stated for every case, also when a call is lost or the process restarts.
EveryCaseConcludes ==
  \A c \in Cases : <>(row[c].stage = "completed")

\* BLUE_FORECAST_EVIDENCE_CONTRACT.md:43: the final verdict comes after the
\* +48 h horizon.  Stated for every case that has that horizon.
FinalVerdictAfterHorizon ==
  \A c \in Alerts48 : row[c].stage = "completed" => clock = 2
=============================================================================
