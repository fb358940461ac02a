-------------------------- MODULE WeeklySnapshots --------------------------
(***************************************************************************)
(* The weekly scientific snapshot of one date: commands capture it from    *)
(* the batch and the coverage mask they find, while batches and masks are  *)
(* replaced, and link it later to the causes of the fires of its week.     *)
(* The transaction that fills it runs statement by statement: it waits for *)
(* the rows that another has written and not committed.                    *)
(*                                                                         *)
(* An operator defined just before another, with a longer form of its name *)
(* is that operator with a mistake in it.                                  *)
(***************************************************************************)
EXTENDS Naturals, Sequences, FiniteSets

CONSTANTS
  None,
  Captures,     \* processes that run the capture command
  MaxCaptures,  \* bound on its runs
  Cells,        \* the cells of the territory
  Masks,        \* the modelable cells of the masks, in order of publication
  Batches,      \* the cells of the nowcast of the batches, in order of publication
  Linkers,      \* processes that run the link command
  MaxLinks,     \* bound on its runs that write
  Fires,        \* the ids of the fires of the week in cells of the snapshot
  MaxChanges,   \* bound on corrections of the cause of a fire
  MaxFaults     \* bound on failed calls and stopped commands

(* A row of observability.scientific_snapshots: its status, the mask and   *)
(* batch it is pinned to, the run that made it, the observed cells and the *)
(* number of cells that were missed.                                       *)
Manifests == [status : {"building", "published", "failed"}, mask : Nat, batch : Nat, run : Nat,
              checksum : {None} \cup SUBSET Cells, missing : Nat]

ASSUME WeeksAssumption ==
  /\ IsFiniteSet(Cells) /\ None \notin Manifests \cup Nat /\ \A cells \in SUBSET Cells : cells # None
  /\ Fires \subseteq Nat /\ IsFiniteSet(Fires)

VARIABLES
  bundle,     \* the cells whose values the active static bundle holds
  mask,       \* the published coverage mask
  batch,      \* the last complete batch; the rows of the others are deleted
  kept,       \* registered batches
  capture,    \* progress of a capture, and what it has read
  runs,       \* ops.pipeline_runs of the captures
  manifest,   \* the row of observability.scientific_snapshots
  values,     \* its values: the observed cells, the others are missing
  reason,     \* the recorded number of cells missing unexpectedly
  writer,     \* the capture that has deleted the values and not committed
  cause,      \* version of the cause of a fire
  linker,     \* the causes a linker has read, and the links it began with
  links,      \* ml.snapshot_label_links
  linked,     \* runs of the link command
  faults

world == <<bundle, mask, batch, kept>>
snapshot == <<manifest, values, reason>>
labels == <<cause, linker, links, linked>>
vars == <<world, capture, runs, snapshot, writer, labels, faults>>

Idle == [step |-> "idle", mask |-> 0, batch |-> 0, run |-> 0]
NoLinks == [step |-> "idle", seen |-> None, since |-> 0]

Init ==
  /\ bundle \in {Cells, {}}  \* it may have been activated without its values
  /\ mask = 1 /\ batch = 1 /\ kept = {1}
  /\ capture = [c \in Captures |-> Idle]
  /\ runs = <<>>
  /\ manifest = None /\ values = None /\ reason = None
  /\ writer = None
  /\ cause = [e \in Fires |-> 1]
  /\ linker = [l \in Linkers |-> NoLinks]
  /\ links = <<>>
  /\ linked = 0
  /\ faults = 0

-----------------------------------------------------------------------------
(* What the capture depends on.  The links come weeks later: the bounds let*)
(* nothing else happen once a link command has run.                        *)

Pinned == IF manifest = None THEN {} ELSE {manifest.batch}

\* The rows of the previous batch are deleted, and its registration unless a
\* snapshot refers to it.
PublishBatch ==
  /\ batch < Len(Batches) /\ linked = 0
  /\ batch' = batch + 1
  /\ kept' = (kept \cap Pinned) \cup {batch + 1}
  /\ UNCHANGED <<bundle, mask, capture, runs, snapshot, writer, labels, faults>>

\* A mask with other cells supersedes the published one, in one transaction.
PublishMask ==
  /\ mask < Len(Masks) /\ linked = 0
  /\ mask' = mask + 1
  /\ UNCHANGED <<bundle, batch, kept, capture, runs, snapshot, writer, labels, faults>>

Nowcast(b) == IF b = batch THEN Batches[b] ELSE {}

-----------------------------------------------------------------------------
(* A capture.                                                              *)

At(c, step) == capture' = [capture EXCEPT ![c].step = step]
Leave(c) == capture' = [capture EXCEPT ![c] = Idle]

OwnsUnlessPublished(status) == status # "published"

\* A replay takes over unless the snapshot is published or being built.
Owns(status) == status \notin {"published", "building"}

Look(c) ==
  /\ capture[c].step = "idle" /\ linked = 0
  /\ Len(runs) < MaxCaptures
  /\ IF manifest = None THEN At(c, "mask")
     ELSE Owns(manifest.status) /\ At(c, "delete")
  /\ UNCHANGED <<world, runs, snapshot, writer, labels, faults>>

ReadMask(c) ==
  /\ capture[c].step = "mask"
  /\ capture' = [capture EXCEPT ![c] = [@ EXCEPT !.step = "batch", !.mask = mask]]
  /\ UNCHANGED <<world, runs, snapshot, writer, labels, faults>>

ReadBatch(c) ==
  /\ capture[c].step = "batch"
  /\ capture' = [capture EXCEPT ![c] = [@ EXCEPT !.step = "run", !.batch = batch]]
  /\ UNCHANGED <<world, runs, snapshot, writer, labels, faults>>

StartRun(c) ==
  /\ capture[c].step = "run"
  /\ runs' = Append(runs, "running")
  /\ capture' = [capture EXCEPT ![c] = [@ EXCEPT !.step = "insert", !.run = Len(runs) + 1]]
  /\ UNCHANGED <<world, snapshot, writer, labels, faults>>

\* ON CONFLICT (logical_id) DO NOTHING, then the owner goes on.  Without a
\* conflict the batch must still be registered: otherwise the foreign key makes
\* the insertion fail, and the run stays running.
Insert(c) ==
  /\ capture[c].step = "insert"
  /\ IF manifest # None
     THEN Leave(c) /\ runs' = [runs EXCEPT ![capture[c].run] = "succeeded"] /\ manifest' = manifest
     ELSE /\ runs' = runs
          /\ IF capture[c].batch \in kept
             THEN /\ manifest' = [status |-> "building", mask |-> capture[c].mask,
                                  batch |-> capture[c].batch, run |-> capture[c].run,
                                  checksum |-> None, missing |-> 0]
                  /\ At(c, "delete")
             ELSE Leave(c) /\ manifest' = manifest
  /\ UNCHANGED <<world, values, reason, writer, labels, faults>>

\* The values that are committed are deleted, others are not seen.
Delete(c) ==
  /\ capture[c].step = "delete"
  /\ values # None => writer = None
  /\ writer' = IF values # None THEN c ELSE writer
  /\ At(c, "fill")
  /\ UNCHANGED <<world, runs, snapshot, labels, faults>>

\* A row for every cell of the bundle.  Rows that another has committed since
\* are kept: ON CONFLICT DO NOTHING.
Filled(c) ==
  IF values # None /\ writer # c THEN values
  ELSE IF bundle = {} THEN None ELSE bundle \cap Nowcast(manifest.batch)

Observed(rows) == IF rows = None THEN {} ELSE rows

\* Of the cells that have a row, those the mask calls modelable are missed and
\* the others are exclusions.
Missing(rows) == (Masks[manifest.mask] \cap bundle) \ Observed(rows)

ValidatedAlways(rows) ==
  [manifest EXCEPT !.status = "published", !.checksum = Observed(rows),
                   !.missing = Cardinality(Missing(rows))]

\* A published manifest is not changed.
Validated(rows) ==
  IF manifest.status = "published" THEN manifest
  ELSE [manifest EXCEPT !.status = IF Missing(rows) = {} THEN "published" ELSE "failed",
                        !.checksum = Observed(rows),
                        !.missing = Cardinality(Missing(rows))]

Filling(c) ==
  /\ capture[c].step = "fill" /\ writer \in {None, c}
  /\ values' = Filled(c)
  /\ manifest' = Validated(Filled(c))
  /\ reason' = IF reason = None THEN Cardinality(Missing(Filled(c))) ELSE reason
  /\ writer' = None

\* Insertion, counts, validation and publication: what is inserted is locked
\* until the transaction is committed.
Fill(c) ==
  /\ Filling(c)
  /\ At(c, IF Missing(Filled(c)) = {} THEN "close" ELSE "fail")
  /\ UNCHANGED <<world, runs, labels, faults>>

Close(c) ==
  /\ capture[c].step = "close"
  /\ runs' = [runs EXCEPT ![manifest.run] = "succeeded"]
  /\ Leave(c)
  /\ UNCHANGED <<world, snapshot, writer, labels, faults>>

\* The first update excludes a published snapshot, the second does not.
MarkFailed(c) ==
  /\ capture[c].step = "fail"
  /\ manifest' = IF manifest.status = "published" THEN manifest
                 ELSE [manifest EXCEPT !.status = "failed"]
  /\ writer # c /\ (writer = None \/ manifest' = manifest)
  /\ runs' = [runs EXCEPT ![manifest.run] = "failed"]
  /\ Leave(c)
  /\ UNCHANGED <<world, values, reason, writer, labels, faults>>

\* A statement of the transaction fails, or its commit succeeds and the reply
\* is lost.
FillFails(c) ==
  /\ capture[c].step \in {"delete", "fill"}
  /\ faults < MaxFaults /\ faults' = faults + 1
  /\ \/ Filling(c)
     \/ UNCHANGED snapshot /\ writer' = IF writer = c THEN None ELSE writer
  /\ At(c, "fail")
  /\ UNCHANGED <<world, runs, labels>>

\* The command stops; its transaction is rolled back.
CaptureStops(c) ==
  /\ capture[c].step \notin {"idle", "mask", "batch", "run"}
  /\ faults < MaxFaults /\ faults' = faults + 1
  /\ writer' = IF writer = c THEN None ELSE writer
  /\ Leave(c)
  /\ UNCHANGED <<world, runs, snapshot, labels>>

-----------------------------------------------------------------------------
(* The causes of its fires.                                                *)

\* A later import of the base corrects the cause of a fire.
ChangeCause(e) ==
  /\ linked > 0 /\ cause[e] <= MaxChanges
  /\ cause' = [cause EXCEPT ![e] = @ + 1]
  /\ UNCHANGED <<world, capture, runs, snapshot, writer, linker, links, linked, faults>>

\* Only a published snapshot has events to examine, in cells it has a row for.
Examine(l) ==
  /\ linker[l].step = "idle" /\ linked < MaxLinks
  /\ manifest # None /\ manifest.status = "published" /\ values # None
  /\ linker' = [linker EXCEPT ![l] = [step |-> "link", seen |-> cause, since |-> Len(links)]]
  /\ linked' = linked + 1
  /\ UNCHANGED <<world, capture, runs, snapshot, writer, cause, links, faults>>

CurrentLinks(e) == {n \in DOMAIN links : links[n].fire = e /\ links[n].current}

\* The links to write: a fire whose current link has another cause, or none.
ToLink(seen) ==
  {e \in Fires : \A n \in CurrentLinks(e) : links[n].cause # seen[e]}

\* The fires are linked in the order of their ids.
InOrder(S) ==
  {s \in [1..Cardinality(S) -> S] :
     /\ \A e \in S : \E i \in DOMAIN s : s[i] = e
     /\ \A i, j \in DOMAIN s : i < j => s[i] < s[j]}

Link(e, seen) ==
  [fire |-> e, cause |-> seen[e], current |-> TRUE,
   supersedes |-> IF CurrentLinks(e) = {} THEN 0 ELSE CHOOSE n \in CurrentLinks(e) : TRUE]

LinkedAdding(todo, seen) == links \o [n \in DOMAIN todo |-> Link(todo[n], seen)]

\* The current link is superseded and kept, the new one refers to it.
Linked(todo, seen) ==
  [n \in DOMAIN links |->
     [links[n] EXCEPT !.current = @ /\ \A i \in DOMAIN todo : todo[i] # links[n].fire]]
  \o [n \in DOMAIN todo |-> Link(todo[n], seen)]

\* All of the links in one transaction, against the links it finds.
LinkAll(l) ==
  /\ linker[l].step = "link"
  /\ \E todo \in InOrder(ToLink(linker[l].seen)) : links' = Linked(todo, linker[l].seen)
  /\ linker' = [linker EXCEPT ![l] = NoLinks]
  /\ UNCHANGED <<world, capture, runs, snapshot, writer, cause, linked, faults>>

\* A fire another transaction has linked meanwhile: the unique index of the
\* current links makes this one fail as a whole.
LinkConflicts(l) ==
  /\ linker[l].step = "link" /\ Len(links) > linker[l].since
  /\ linker' = [linker EXCEPT ![l] = NoLinks]
  /\ UNCHANGED <<world, capture, runs, snapshot, writer, cause, links, linked, faults>>

LinkFails(l) ==
  /\ linker[l].step = "link"
  /\ faults < MaxFaults /\ faults' = faults + 1
  /\ linker' = [linker EXCEPT ![l] = NoLinks]
  /\ UNCHANGED <<world, capture, runs, snapshot, writer, cause, links, linked>>

-----------------------------------------------------------------------------

CaptureStep(c) ==
  \/ Look(c) \/ ReadMask(c) \/ ReadBatch(c) \/ StartRun(c) \/ Insert(c)
  \/ Delete(c) \/ Fill(c) \/ Close(c) \/ MarkFailed(c)

Next ==
  \/ PublishBatch \/ PublishMask
  \/ \E c \in Captures : CaptureStep(c) \/ FillFails(c) \/ CaptureStops(c)
  \/ \E e \in Fires : ChangeCause(e)
  \/ \E l \in Linkers : Examine(l) \/ LinkAll(l) \/ LinkConflicts(l) \/ LinkFails(l)

Spec == Init /\ [][Next]_vars

-----------------------------------------------------------------------------
(* Properties.                                                             *)

Owners == {c \in Captures : capture[c].step \in {"delete", "fill"}}

(* A published snapshot covers every cell of the bundle that is modelable  *)
(* in the mask it was pinned to, whatever mask is published since, its     *)
(* batch is still registered, and the reason recorded for its missing      *)
(* cells agrees with it.  A snapshot under construction has one owner, and *)
(* has none only once a command failed or stopped                          *)
(* (capture_weekly_scientific_snapshot_v2,                                 *)
(* fill_and_publish_scientific_snapshot_v2).                               *)
SnapshotsComplete ==
  manifest # None =>
    CASE manifest.status = "published" ->
           /\ Masks[manifest.mask] \cap bundle \subseteq manifest.checksum
           /\ manifest.missing = 0 /\ reason = 0
           /\ manifest.batch \in kept
      [] manifest.status = "building" ->
           /\ Cardinality(Owners) <= 1
           /\ faults = 0 => Owners # {}
      [] OTHER -> TRUE

(* What a manifest is pinned to never changes, and a published one does    *)
(* not change at all: not when the other capture fails, and not when it    *)
(* fills the snapshot a second time.                                       *)
ManifestKept ==
  manifest # None =>
       /\ manifest' # None
       /\ manifest'.batch = manifest.batch /\ manifest'.mask = manifest.mask
       /\ manifest'.run = manifest.run
       /\ manifest.status = "published" => manifest' = manifest

(* Every step keeps the manifest so (ManifestKept).                       *)
ManifestFinal == [][ManifestKept]_vars

(* Linkers that overlap, or that write what they read before a correction, *)
(* leave one current link for a fire, which ends the chain of the links it *)
(* superseded; every link holds a cause the fire has had                   *)
(* (link_mature_snapshot_labels).                                          *)
LinksChain ==
  /\ links # <<>> => manifest.status = "published"
  /\ \A e \in Fires :
       Cardinality(CurrentLinks(e)) = IF \E n \in DOMAIN links : links[n].fire = e THEN 1 ELSE 0
  /\ \A n \in DOMAIN links :
       /\ links[n].cause \in 1..cause[links[n].fire]
       /\ ~links[n].current =>
            Cardinality({k \in DOMAIN links : links[k].supersedes = n}) = 1
       /\ links[n].supersedes # 0 =>
            LET k == links[n].supersedes
            IN k < n /\ links[k].fire = links[n].fire /\ links[k].cause # links[n].cause

=============================================================================
