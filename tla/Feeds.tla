------------------------------- MODULE Feeds -------------------------------
(***************************************************************************)
(* What comes in and goes out beside the forecast itself: the BDIFF        *)
(* records of fires with their audits, the sources of the weather, the     *)
(* ground truth of the bulletins, the searches for evidence and the stream *)
(* of the risk map.  They share no state that is modelled: a behaviour is  *)
(* of one part.                                                            *)
(***************************************************************************)
EXTENDS FireRecords, ForecastSources, GroundTruth, EvidenceSearch, LiveUpdates

VARIABLE part

FeedsInit ==
  /\ part \in {"records", "weather", "truth", "evidence", "stream"}
  /\ Init /\ SourcesInit /\ TruthInit /\ EvidenceInit /\ LiveInit
  /\ part # "weather" => now = Min(Starts)

FeedsNext ==
  \/ part = "records" /\ Next /\ UNCHANGED <<part, feeds, truth, search, live>>
  \/ part = "weather" /\ SourcesNext /\ UNCHANGED <<part, vars, truth, search, live>>
  \/ part = "truth" /\ TruthNext /\ UNCHANGED <<part, vars, feeds, search, live>>
  \/ part = "evidence" /\ EvidenceNext /\ UNCHANGED <<part, vars, feeds, truth, live>>
  \/ part = "stream" /\ LiveNext /\ UNCHANGED <<part, vars, feeds, truth, search>>

FeedsSpec == FeedsInit /\ [][FeedsNext]_<<part, vars, feeds, truth, search, live>>

(* The imports are accounted for row by row, and the audits agree with what  *)
(* they read: ImportAccounted, AuditsAgree and RefusedForCause.            *)
RecordsSound == ImportAccounted /\ AuditsAgree /\ RefusedForCause

(* A review ends with what its sources support, neither more nor less:     *)
(* AnswersGrounded, AnswersKept and ReportsFound.                          *)
EvidenceSound == AnswersGrounded /\ AnswersKept /\ ReportsFound
=============================================================================
