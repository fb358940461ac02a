---------------------------- MODULE StaticBundles ----------------------------
(***************************************************************************)
(* Bundles of static features: commands copy the current contents of       *)
(* cell_static under their checksum and activate the copy, or register the *)
(* checksum alone and activate it, while loads replace the contents.       *)
(* Contents stand for their checksums.                                     *)
(*                                                                         *)
(* An operator defined just before another, with a longer form of its name *)
(* is that operator with a mistake in it.                                  *)
(***************************************************************************)
EXTENDS Naturals, Sequences, FiniteSets, SequencesExt

CONSTANTS
  Nothing,
  Bundlers,    \* processes that run a bundle command
  Loads,       \* the contents of cell_static after each load, in order
  MaxBundles   \* bound on the commands

Contents == Range(Loads)
Statuses == {"draft", "active", "superseded"}
Tables == {"cell_static", "feature_snapshot_values"}

ASSUME BundlesAssumption ==
  Loads \in Seq(Contents) /\ Loads # <<>> /\ Nothing \notin Contents \cup Statuses \cup Tables

VARIABLES
  loads,       \* loads made
  manifest,    \* features.feature_snapshots of the family, with their values
  journal,     \* features.feature_snapshot_activations: who is or was current
  bundler,     \* progress of a command
  bundlings    \* commands started

bundles == <<loads, manifest, journal, bundler, bundlings>>

Static == Loads[loads]
Frozen == {c \in Contents : manifest[c].status \in {"active", "superseded"}}
Absent == [status |-> Nothing, table |-> Nothing, values |-> Nothing]
Draft(table) == [status |-> "draft", table |-> table, values |-> Nothing]
NotBundling == [step |-> "idle", content |-> Nothing, row |-> Absent, seen |-> Nothing]

BundleInit ==
  /\ loads = 1
  /\ manifest = [c \in Contents |-> Absent]
  /\ journal = [past |-> <<>>, current |-> Nothing]
  /\ bundler = [b \in Bundlers |-> NotBundling]
  /\ bundlings = 0

Load ==
  /\ loads < Len(Loads) /\ loads' = loads + 1
  /\ UNCHANGED <<manifest, journal, bundler, bundlings>>

GoOn(b, next) == bundler' = [bundler EXCEPT ![b] = next]
EndBundling(b) == bundler' = [bundler EXCEPT ![b] = NotBundling]
Bundled(b) == bundler[b].content

\* The checksum of the contents is read by itself.
Summarise(b) ==
  /\ bundler[b].step = "idle"
  /\ bundlings < MaxBundles /\ bundlings' = bundlings + 1
  /\ \E step \in {"look", "register"} : GoOn(b, [bundler[b] EXCEPT !.step = step, !.content = Static])
  /\ UNCHANGED <<loads, manifest, journal>>

-----------------------------------------------------------------------------
(* build_cell_static_bundle.                                               *)

\* A bundle already active is the answer.
LookActive(b) ==
  /\ bundler[b].step = "look"
  /\ IF manifest[Bundled(b)].status = "active" THEN EndBundling(b) ELSE GoOn(b, [bundler[b] EXCEPT !.step = "manifest"])
  /\ UNCHANGED <<loads, manifest, journal, bundlings>>

\* The transaction inserts the manifest, visible at its end, or finds one; a
\* second insertion waits for the end of the first.
EnsureManifest(b) ==
  /\ bundler[b].step = "manifest"
  /\ \A o \in Bundlers : Bundled(o) = Bundled(b) => bundler[o].step \notin {"copy", "check", "activate"}
  /\ LET found == manifest[Bundled(b)]
     IN IF found.status = "active" THEN EndBundling(b)
        ELSE GoOn(b, [bundler[b] EXCEPT
               !.step = IF found.status = "superseded" THEN "check" ELSE "copy",
               !.row = IF found = Absent THEN Draft("feature_snapshot_values") ELSE found])
  /\ UNCHANGED <<loads, manifest, journal, bundlings>>

\* The contents by now.
Copy(b) ==
  /\ bundler[b].step = "copy"
  /\ GoOn(b, [bundler[b] EXCEPT !.step = "check", !.row = [@ EXCEPT !.values = Static]])
  /\ UNCHANGED <<loads, manifest, journal, bundlings>>

CopyIsExactUnlessMissing(b) == bundler[b].row.values # Nothing
CopyIsExact(b) == bundler[b].row.values = Bundled(b)

\* A copy with another checksum or count rolls all back.
CheckCopy(b) ==
  /\ bundler[b].step = "check"
  /\ IF CopyIsExact(b) THEN GoOn(b, [bundler[b] EXCEPT !.step = "activate", !.seen = Frozen]) ELSE EndBundling(b)
  /\ UNCHANGED <<loads, manifest, journal, bundlings>>

\* What the triggers allow of a manifest that becomes active.
MayActivateUnlessActive(status) == status # "active"
MayActivate(status) == status \notin {"active", "superseded"}

Superseding(row) == IF row.status = "active" THEN [row EXCEPT !.status = "superseded"] ELSE row

Activated(c, row) == [[d \in Contents |-> Superseding(manifest[d])] EXCEPT ![c] = [row EXCEPT !.status = "active"]]

\* Activating a frozen manifest raises; so does another activation since this
\* one began, through the unique indices.
ActivateBundle(b) ==
  /\ bundler[b].step = "activate"
  /\ IF MayActivate(manifest[Bundled(b)].status) /\ Frozen = bundler[b].seen
     THEN /\ manifest' = Activated(Bundled(b), bundler[b].row)
          /\ journal' = [past |-> IF journal.current = Nothing THEN journal.past
                                  ELSE Append(journal.past, journal.current),
                         current |-> Bundled(b)]
     ELSE UNCHANGED <<manifest, journal>>
  /\ EndBundling(b)
  /\ UNCHANGED <<loads, bundlings>>

-----------------------------------------------------------------------------
(* register_feature_snapshot and activate_feature_snapshot.                *)

\* A second insertion is refused by the database.
RegisterManifest(b) ==
  /\ bundler[b].step = "register"
  /\ \A o \in Bundlers : Bundled(o) = Bundled(b) => bundler[o].step \notin {"copy", "check", "activate"}
  /\ manifest' = [manifest EXCEPT ![Bundled(b)] = IF @ = Absent THEN Draft("cell_static") ELSE @]
  /\ GoOn(b, [bundler[b] EXCEPT !.step = "enable"])
  /\ UNCHANGED <<loads, journal, bundlings>>

\* The journal is not kept here.
ActivateRegistered(b) ==
  /\ bundler[b].step = "enable"
  /\ manifest' = IF MayActivate(manifest[Bundled(b)].status)
                 THEN Activated(Bundled(b), manifest[Bundled(b)]) ELSE manifest
  /\ EndBundling(b)
  /\ UNCHANGED <<loads, journal, bundlings>>

\* A failed call or a stop: an open transaction is rolled back.
BundlingStops(b) ==
  /\ bundler[b].step \in {"register", "enable", "activate"}
  /\ EndBundling(b)
  /\ UNCHANGED <<loads, manifest, journal, bundlings>>

BundleNext ==
  \/ Load
  \/ \E b \in Bundlers :
       \/ Summarise(b) \/ LookActive(b) \/ EnsureManifest(b) \/ Copy(b) \/ CheckCopy(b)
       \/ ActivateBundle(b) \/ RegisterManifest(b) \/ ActivateRegistered(b) \/ BundlingStops(b)

BundleSpec == BundleInit /\ [][BundleNext]_bundles

-----------------------------------------------------------------------------
(* Properties.                                                             *)

(* At most one bundle is active.  The values of a bundle are those of its  *)
(* checksum, whatever was loaded while they were copied, and only a bundle *)
(* that was registered by its checksum alone is active without values.  It *)
(* alone makes the journal disagree: the current entry is else the active  *)
(* bundle.                                                                 *)
BundlesFaithful ==
  LET active == {c \in Contents : manifest[c].status = "active"}
      registered == {c \in Contents : manifest[c].table = "cell_static"}
  IN /\ Cardinality(active) <= 1
     /\ \A c \in Contents :
          /\ manifest[c].values \in {Nothing, c}
          /\ manifest[c].status # Nothing /\ manifest[c].values = Nothing => c \in registered
     /\ active = {journal.current} \ {Nothing} \/ active \cap registered # {}

(* A bundle that was active never changes again but to be superseded: not  *)
(* its values, and it is never made active a second time.                  *)
BundlesFrozen ==
  [][\A c \in Contents :
       /\ manifest[c].status = "active" =>
            manifest'[c] \in {manifest[c], [manifest[c] EXCEPT !.status = "superseded"]}
       /\ manifest[c].status = "superseded" => manifest'[c] = manifest[c]]_bundles

=============================================================================
