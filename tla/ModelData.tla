------------------------------ MODULE ModelData ------------------------------
(***************************************************************************)
(* The commands that prepare the data of a model, run by hand beside each  *)
(* other: builds of datasets with the packaging and registration of a      *)
(* candidate, and bundles of static features.  The two share no state that *)
(* is modelled: a behaviour is of one part.                                *)
(***************************************************************************)
EXTENDS ModelCandidates, StaticBundles

VARIABLE part

vars == <<datasets, candidates, faults, bundles, part>>

Init ==
  /\ PackagingInit /\ BundleInit
  /\ part \in {"datasets", "bundles"}

Next ==
  \/ part = "datasets" /\ PackagingNext /\ UNCHANGED <<bundles, part>>
  \/ part = "bundles" /\ BundleNext /\ UNCHANGED <<datasets, candidates, faults, part>>

Spec == Init /\ [][Next]_vars

(* What is built keeps what it was built from: NothingSilent,              *)
(* LabelsExplained and BuildsEnd of the datasets.                          *)
DatasetsSound == NothingSilent /\ LabelsExplained /\ BuildsEnd

=============================================================================
