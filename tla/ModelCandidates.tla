--------------------------- MODULE ModelCandidates ---------------------------
(***************************************************************************)
(* Model candidates: a command fingerprints the rows of the principal      *)
(* dataset version, reads them to train, and writes an artifact; another   *)
(* registers the artifact of the file, with the checksum it was given.     *)
(* Builds go on meanwhile.                                                 *)
(***************************************************************************)
EXTENDS DatasetBuilds

CONSTANTS
  Principal,    \* the version candidates are trained on
  MaxPackages,  \* bound on the artifacts written
  Registrars    \* processes that run the register command

ASSUME PrincipalAssumption == Principal \in Versions

VARIABLES
  packager,     \* progress of the packaging command, and what it has read
  file,         \* the artifact in the file
  packaged,     \* the artifacts written so far, whose checksums were printed
  registrar,    \* the artifact a command registers
  registry      \* ml.model_candidate_registry, of one logical identity

candidates == <<packager, file, packaged, registrar, registry>>

NotPackaging == [step |-> "idle", print |-> {}, trained |-> {}]

CandidateInit ==
  /\ packager = NotPackaging
  /\ file = None
  /\ packaged = <<>>
  /\ registrar = [r \in Registrars |-> [step |-> "idle", artifact |-> None]]
  /\ registry = <<>>

\* The fingerprint and the rows are read by two queries; a version without rows
\* has no fingerprint.  Bound: packaging begins with at most one build command
\* left, which is about to add rows, and before any fault.
ReadFingerprint ==
  /\ packager.step = "idle" /\ Len(packaged) < MaxPackages
  /\ commands = Len(CommandSeeds) /\ faults = 0
  /\ Cardinality({b \in Builders : builder[b].step # "idle"}) <= 1
  /\ \A b \in Builders : builder[b].step \in {"idle", "rows"}
  /\ rows[Principal] # {}
  /\ packager' = [packager EXCEPT !.step = "train", !.print = rows[Principal]]
  /\ UNCHANGED <<datasets, file, packaged, registrar, registry, faults>>

ReadTrainingRows ==
  /\ packager.step = "train"
  /\ packager' = [packager EXCEPT !.step = "write", !.trained = rows[Principal]]
  /\ UNCHANGED <<datasets, file, packaged, registrar, registry, faults>>

\* The checksum covers the fingerprint and the trained model.
Artifact(p) == [print |-> p.print, trained |-> p.trained]

WriteArtifact ==
  /\ packager.step = "write"
  /\ file' = Artifact(packager)
  /\ packaged' = Append(packaged, Artifact(packager))
  /\ packager' = NotPackaging
  /\ UNCHANGED <<datasets, registrar, registry, faults>>

\* The file must hold the artifact whose checksums the caller gives.  Builds and
\* registrations touch nothing of each other: these are left to the end.
LoadArtifact(r) ==
  /\ registrar[r].step = "idle"
  /\ \A b \in Builders : builder[b].step = "idle"
  /\ \E n \in DOMAIN packaged :
       /\ file = packaged[n]
       /\ registrar' = [registrar EXCEPT ![r] = [step |-> "look", artifact |-> packaged[n]]]
  /\ UNCHANGED <<datasets, packager, file, packaged, registry, faults>>

DoneRegistering(r) == registrar' = [registrar EXCEPT ![r] = [step |-> "idle", artifact |-> None]]

\* The same artifact is already registered, another one is refused.
LookRegistered(r) ==
  /\ registrar[r].step = "look"
  /\ IF registry = <<>> THEN registrar' = [registrar EXCEPT ![r] = [@ EXCEPT !.step = "insert"]]
     ELSE DoneRegistering(r)
  /\ UNCHANGED <<datasets, packager, file, packaged, registry, faults>>

RegisteredTwice(artifact) == Append(registry, artifact)

\* The identity is unique: the insertion fails after that of another.
Registered(artifact) == IF registry = <<>> THEN <<artifact>> ELSE registry

InsertCandidate(r) ==
  /\ registrar[r].step = "insert"
  /\ registry' = Registered(registrar[r].artifact)
  /\ DoneRegistering(r)
  /\ UNCHANGED <<datasets, packager, file, packaged, faults>>

CandidateNext ==
  \/ ReadFingerprint \/ ReadTrainingRows \/ WriteArtifact
  \/ \E r \in Registrars : LoadArtifact(r) \/ LookRegistered(r) \/ InsertCandidate(r)

-----------------------------------------------------------------------------

PackagingInit == DatasetInit /\ CandidateInit /\ faults = 0
PackagingNext == (DatasetNext /\ UNCHANGED candidates) \/ CandidateNext
PackagingSpec == PackagingInit /\ [][PackagingNext]_<<datasets, candidates, faults>>

(* One artifact is registered for an identity, and it can be traced: every *)
(* row it was trained on is still a row of its dataset version, and its    *)
(* fingerprint is that of these rows, or of fewer when a build added rows  *)
(* between the two queries (build_candidate_artifact,                      *)
(* register_model_candidate).                                              *)
CandidatesTraceable ==
  /\ Len(registry) <= 1
  /\ \A n \in DOMAIN registry :
       /\ registry[n].print \subseteq registry[n].trained
       /\ registry[n].trained \subseteq rows[Principal]
       /\ registry[n].print # registry[n].trained => Cardinality(BuildsOf(Principal)) > 1

=============================================================================
