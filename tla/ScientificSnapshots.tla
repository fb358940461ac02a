------------------------ MODULE ScientificSnapshots ------------------------
(***************************************************************************)
(* The weekly scientific snapshot and the snapshots of the state of the    *)
(* system, which share no state that is modelled: a behaviour is of one of *)
(* them.                                                                   *)
(***************************************************************************)
EXTENDS WeeklySnapshots, SystemSnapshots

VARIABLE part

SnapshotsInit ==
  /\ part \in {"system", "weekly"}
  /\ Init /\ SystemInit
  /\ part = "system" => bundle = Cells

SnapshotsNext ==
  \/ part = "system" /\ SystemNext /\ UNCHANGED <<part, vars>>
  \/ part = "weekly" /\ Next /\ UNCHANGED <<part, systemVars>>

SnapshotsSpec == SnapshotsInit /\ [][SnapshotsNext]_<<part, vars, systemVars>>

=============================================================================
