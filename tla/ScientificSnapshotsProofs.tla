--------------------- MODULE ScientificSnapshotsProofs ---------------------
(***************************************************************************)
(* Proofs about the two kinds of snapshots, for any cells, masks, batches, *)
(* fires, processes, thresholds and faults: a weekly snapshot is published *)
(* whole and stays, the links to the causes of its fires form chains, and  *)
(* the snapshots of the system, their attempts, reports and alerts agree.  *)
(***************************************************************************)
EXTENDS ScientificSnapshots, FiniteSetTheorems, SequenceTheorems, WellFoundedInduction, TLAPS

(* The weekly snapshot.                                                    *)

Steps == {"idle", "mask", "batch", "run", "insert", "delete", "fill", "close", "fail"}

WeekTypes ==
  /\ bundle \in SUBSET Cells
  /\ mask \in Nat /\ batch \in Nat
  /\ capture \in [Captures -> [step : Steps, mask : Nat, batch : Nat, run : Nat]]
  /\ runs \in Seq({"running", "succeeded", "failed"})
  /\ manifest \in {None} \cup Manifests
  /\ values \in {None} \cup SUBSET Cells
  /\ faults \in Nat

\* Only a capture that found or made the manifest works on it.
WorkInv == \A c \in Captures : capture[c].step \in {"delete", "fill", "close", "fail"} => manifest # None

\* A manifest under construction is that of the capture that made it.
OwnerInv ==
  manifest # None /\ manifest.status = "building" =>
    /\ \A c, d \in Owners : c = d
    /\ faults = 0 => Owners # {}

PinInv == manifest # None => manifest.batch \in kept

\* Once cells are missed they stay missed: the batch of the manifest may be
\* replaced and never comes back, and rows are only filled from it.
MissInv ==
  manifest # None /\ reason # None /\ reason # 0 =>
    /\ ~(Masks[manifest.mask] \cap bundle \subseteq Nowcast(manifest.batch))
    /\ ~(Masks[manifest.mask] \cap bundle \subseteq Observed(values))

\* Nothing is filled before there is a manifest, nor without a reason.
FreshInv == (manifest = None => reason = None) /\ (reason = None => values = None)

\* The batch of a manifest is none that is still to come.
PastInv ==
  /\ manifest # None => manifest.batch <= batch
  /\ \A c \in Captures : capture[c].batch <= batch

WholeInv ==
  manifest # None /\ manifest.status = "published" =>
    /\ Masks[manifest.mask] \cap bundle \subseteq manifest.checksum
    /\ manifest.missing = 0 /\ reason = 0

WeekInv ==
  WeekTypes /\ WorkInv /\ OwnerInv /\ PinInv /\ MissInv /\ FreshInv /\ PastInv /\ WholeInv

-----------------------------------------------------------------------------
\* A manifest is a record, so that it can be told from None.
LEMMA ManifestFields ==
  ASSUME NEW m \in Manifests
  PROVE  /\ m # None /\ m.status \in {"building", "published", "failed"}
         /\ m.mask \in Nat /\ m.batch \in Nat /\ m.run \in Nat
  BY WeeksAssumption DEF Manifests

LEMMA WeekInitially == Init => WeekInv
<1> SUFFICES ASSUME Init PROVE WeekInv
  OBVIOUS
<1>1. capture = [c \in Captures |-> [step |-> "idle", mask |-> 0, batch |-> 0, run |-> 0]] /\ manifest = None
  BY DEF Init, Idle
<1>2. WeekTypes
  BY <1>1 DEF Init, WeekTypes, Steps
<1>3. WorkInv /\ PastInv
  BY <1>1 DEF WorkInv, PastInv, Init
<1> QED
  BY <1>1, <1>2, <1>3 DEF Init, WeekInv, OwnerInv, PinInv, MissInv, FreshInv, WholeInv

-----------------------------------------------------------------------------
\* A step that leaves the snapshot and what it depends on alone keeps the
\* invariant, if it does not hand a manifest under construction to another.
LEMMA Quiet ==
  ASSUME WeekInv, WeekTypes',
         bundle' = bundle, batch' = batch, kept' = kept, manifest' = manifest,
         values' = values, reason' = reason, faults' >= faults,
         \A c \in Captures :
           /\ capture'[c].step \in {"delete", "fill", "close", "fail"} => manifest # None
           /\ capture'[c].batch <= batch,
         manifest # None /\ manifest.status = "building" =>
           Owners' = Owners \/ (Owners' \subseteq Owners /\ faults' # 0)
  PROVE  WeekInv'
<1>1. WorkInv' /\ PinInv' /\ FreshInv' /\ PastInv'
  BY DEF WeekInv, WorkInv, PinInv, FreshInv, PastInv
<1>2. OwnerInv'
  <2>1. faults' = 0 => faults = 0
    BY DEF WeekInv, WeekTypes
  <2> QED
    BY <2>1 DEF WeekInv, OwnerInv
<1>3. MissInv' /\ WholeInv'
  BY DEF WeekInv, MissInv, WholeInv, Nowcast, Observed
<1> QED
  BY <1>1, <1>2, <1>3 DEF WeekInv

\* The same when one capture moves and is or becomes no owner.
LEMMA Moves ==
  ASSUME WeekInv, NEW c \in Captures,
         NEW step \in Steps, NEW m \in Nat, NEW b \in Nat, NEW r \in Nat,
         capture' = [capture EXCEPT ![c] = [step |-> step, mask |-> m, batch |-> b, run |-> r]],
         mask' = mask, bundle' = bundle, batch' = batch, kept' = kept, manifest' = manifest,
         values' = values, reason' = reason,
         runs' \in Seq({"running", "succeeded", "failed"}),
         faults' \in Nat, faults' >= faults, b <= batch,
         step \in {"delete", "fill", "close", "fail"} => manifest # None,
         \/ step \in {"delete", "fill"} <=> capture[c].step \in {"delete", "fill"}
         \/ manifest = None
         \/ manifest.status # "building"
         \/ step \notin {"delete", "fill"} /\ faults' # 0
  PROVE  WeekInv'
<1>1. WeekTypes'
  BY DEF WeekInv, WeekTypes
<1>2. ASSUME NEW d \in Captures
      PROVE  capture'[d] = IF d = c THEN [step |-> step, mask |-> m, batch |-> b, run |-> r] ELSE capture[d]
  BY DEF WeekInv, WeekTypes
<1>3. ASSUME NEW d \in Captures
      PROVE  /\ capture'[d].step \in {"delete", "fill", "close", "fail"} => manifest # None
             /\ capture'[d].batch <= batch
  <2>1. CASE d = c
    BY <1>2, <2>1
  <2>2. CASE d # c
    BY <1>2, <2>2 DEF WeekInv, WorkInv, PastInv
  <2> QED
    BY <2>1, <2>2
<1>4. (step \in {"delete", "fill"} <=> capture[c].step \in {"delete", "fill"}) => Owners' = Owners
  <2>1. ASSUME step \in {"delete", "fill"} <=> capture[c].step \in {"delete", "fill"}, NEW d \in Captures
        PROVE  capture'[d].step \in {"delete", "fill"} <=> capture[d].step \in {"delete", "fill"}
    BY <1>2, <2>1
  <2> QED
    BY <2>1 DEF Owners
<1>5. step \notin {"delete", "fill"} => Owners' \subseteq Owners
  <2>1. ASSUME step \notin {"delete", "fill"}, NEW d \in Captures, capture'[d].step \in {"delete", "fill"}
        PROVE  capture[d].step \in {"delete", "fill"}
    BY <1>2, <2>1
  <2> QED
    BY <2>1 DEF Owners
<1> QED
  BY <1>1, <1>3, <1>4, <1>5, Quiet

-----------------------------------------------------------------------------
\* The cells a capture publishes or leaves to a later one.
LEMMA FilledRows ==
  ASSUME WeekInv, NEW c \in Captures, manifest # None
  PROVE  /\ Filled(c) \in {None} \cup SUBSET Cells
         /\ Observed(Filled(c)) \in SUBSET Cells
         /\ Missing(Filled(c)) \subseteq Cells /\ Cardinality(Missing(Filled(c))) \in Nat
         /\ Missing(Filled(c)) # {} => ~(Masks[manifest.mask] \cap bundle \subseteq Observed(Filled(c)))
         /\ Missing(Filled(c)) = {} => Cardinality(Missing(Filled(c))) = 0
         /\ reason # None /\ reason # 0 => Missing(Filled(c)) # {}
         /\ reason = None /\ Missing(Filled(c)) # {} =>
              ~(Masks[manifest.mask] \cap bundle \subseteq Nowcast(manifest.batch))
<1> DEFINE expected == Masks[manifest.mask] \cap bundle
           cells == Filled(c)
<1>1. bundle \in SUBSET Cells /\ values \in {None} \cup SUBSET Cells
  BY DEF WeekInv, WeekTypes
<1>2. cells \in {None} \cup SUBSET Cells
  BY <1>1 DEF Filled
<1>3. Observed(cells) \in SUBSET Cells
  BY <1>2 DEF Observed
<1>4. Missing(cells) \subseteq Cells /\ (Missing(cells) # {} <=> ~(expected \subseteq Observed(cells)))
  BY <1>1 DEF Missing
<1>5. Cardinality(Missing(cells)) \in Nat /\ Cardinality({}) = 0
  BY <1>4, FS_Subset, FS_CardinalityType, FS_EmptySet, WeeksAssumption
<1>6. ASSUME values = None \/ writer = c
      PROVE  expected \subseteq Observed(cells) <=> expected \subseteq Nowcast(manifest.batch)
  <2>1. CASE bundle = {}
    BY <1>6, <2>1 DEF Filled, Observed
  <2>2. CASE bundle # {}
    <3>1. cells = bundle \cap Nowcast(manifest.batch)
      BY <1>6, <2>2 DEF Filled
    <3>2. Observed(cells) = cells
      BY <1>1, <3>1, WeeksAssumption DEF Observed
    <3> QED
      BY <1>1, <3>1, <3>2
  <2> QED
    BY <2>1, <2>2
<1>7. ASSUME reason # None, reason # 0
      PROVE  Missing(cells) # {}
  <2>1. ~(expected \subseteq Nowcast(manifest.batch)) /\ ~(expected \subseteq Observed(values))
    BY <1>7 DEF WeekInv, MissInv
  <2>2. CASE values # None /\ writer # c
    BY <1>4, <2>1, <2>2 DEF Filled
  <2>3. CASE values = None \/ writer = c
    BY <1>4, <1>6, <2>1, <2>3
  <2> QED
    BY <2>2, <2>3
<1>8. ASSUME reason = None, Missing(cells) # {}
      PROVE  ~(expected \subseteq Nowcast(manifest.batch))
  BY <1>4, <1>6, <1>8 DEF WeekInv, FreshInv
<1> QED
  BY <1>2, <1>3, <1>4, <1>5, <1>7, <1>8

\* A capture fills, validates and publishes in one transaction.
LEMMA Fills ==
  ASSUME WeekInv, NEW c \in Captures, NEW step \in {"close", "fail"},
         manifest # None, Filling(c), capture' = [capture EXCEPT ![c].step = step],
         bundle' = bundle, mask' = mask, batch' = batch, kept' = kept, runs' = runs, faults' \in Nat
  PROVE  WeekInv' /\ ManifestKept
<1> DEFINE cells == Filled(c)
           missing == Missing(cells)
<1>1. /\ values' = cells /\ manifest' = Validated(cells)
      /\ reason' = IF reason = None THEN Cardinality(missing) ELSE reason
  BY DEF Filling
<1>2. /\ cells \in {None} \cup SUBSET Cells /\ Observed(cells) \in SUBSET Cells
      /\ Cardinality(missing) \in Nat /\ (missing = {} => Cardinality(missing) = 0)
      /\ missing # {} => ~(Masks[manifest.mask] \cap bundle \subseteq Observed(cells))
      /\ reason # None /\ reason # 0 => missing # {}
      /\ reason = None /\ missing # {} => ~(Masks[manifest.mask] \cap bundle \subseteq Nowcast(manifest.batch))
  BY FilledRows
<1>3. missing = {} => Masks[manifest.mask] \cap bundle \subseteq Observed(cells)
  BY DEF Missing
<1> HIDE DEF cells, missing
<1>4. manifest \in Manifests
  BY DEF WeekInv, WeekTypes
<1>5. /\ manifest' \in Manifests /\ manifest'.mask = manifest.mask /\ manifest'.batch = manifest.batch
      /\ manifest'.run = manifest.run /\ manifest'.status # "building"
      /\ manifest.status = "published" => manifest' = manifest
      /\ manifest'.status = "published" /\ manifest.status # "published" =>
           missing = {} /\ manifest'.checksum = Observed(cells) /\ manifest'.missing = Cardinality(missing)
  <2>1. CASE manifest.status = "published"
    BY <1>1, <1>4, <2>1 DEF Validated
  <2>2. CASE manifest.status # "published"
    <3>1. manifest' = [manifest EXCEPT !.status = IF missing = {} THEN "published" ELSE "failed",
                                       !.checksum = Observed(cells), !.missing = Cardinality(missing)]
      BY <1>1, <2>2 DEF Validated, missing
    <3> DEFINE seen == Observed(cells)
               count == Cardinality(missing)
    <3> HIDE DEF seen, count
    <3>2. seen \in SUBSET Cells /\ count \in Nat
      BY <1>2 DEF seen, count
    <3> QED
      BY <1>4, <2>2, <3>1, <3>2 DEF Manifests, seen, count
  <2> QED
    BY <2>1, <2>2
<1>6. manifest' # None
  BY <1>5, WeeksAssumption
<1>7. /\ \A d \in Captures : capture'[d].batch = capture[d].batch
      /\ capture' \in [Captures -> [step : Steps, mask : Nat, batch : Nat, run : Nat]]
  BY DEF WeekInv, WeekTypes, Steps
<1>8. WeekTypes'
  BY <1>1, <1>2, <1>5, <1>7 DEF WeekInv, WeekTypes
<1>9. WorkInv' /\ OwnerInv' /\ FreshInv'
  <2>1. reason' # None
    BY <1>1, <1>2, WeeksAssumption
  <2> QED
    BY <1>5, <1>6, <2>1 DEF WorkInv, OwnerInv, FreshInv
<1>10. PinInv' /\ PastInv'
  BY <1>5, <1>7 DEF WeekInv, PinInv, PastInv
<1>11. MissInv'
  <2>1. ASSUME reason' # 0
        PROVE  missing # {}
    BY <1>1, <1>2, <2>1
  <2>2. ASSUME reason' # 0
        PROVE  ~(Masks[manifest.mask] \cap bundle \subseteq Nowcast(manifest.batch))
    <3>1. CASE reason = None
      BY <1>2, <2>1, <2>2, <3>1
    <3>2. CASE reason # None
      BY <1>1, <2>2, <3>2 DEF WeekInv, MissInv
    <3> QED
      BY <3>1, <3>2
  <2> QED
    BY <1>1, <1>2, <1>5, <2>1, <2>2 DEF MissInv, Nowcast, Observed
<1>12. WholeInv'
  <2>1. CASE manifest.status = "published"
    BY <1>1, <1>5, <2>1, WeeksAssumption DEF WeekInv, WholeInv, FreshInv
  <2>2. CASE manifest.status # "published"
    <3>1. missing = {} => reason' = 0
      BY <1>1, <1>2
    <3> QED
      BY <1>2, <1>3, <1>5, <2>2, <3>1 DEF WholeInv
  <2> QED
    BY <2>1, <2>2
<1>13. ManifestKept
  BY <1>5, <1>6 DEF ManifestKept
<1> QED
  BY <1>8, <1>9, <1>10, <1>11, <1>12, <1>13 DEF WeekInv

\* Runs end and stay runs.
LEMMA RunEnded ==
  ASSUME NEW S, NEW all \in Seq(S), NEW n, NEW status \in S
  PROVE  [all EXCEPT ![n] = status] \in Seq(S)
<1>1. Len(all) \in Nat /\ all \in [1..Len(all) -> S]
  OBVIOUS
<1>2. [all EXCEPT ![n] = status] \in [1..Len(all) -> S]
  BY <1>1
<1> QED
  BY <1>1, <1>2, SeqDef

\* A capture that goes to its next step, or leaves, keeps the invariant: the
\* two ways of Moves in which the actions are written.
LEMMA Advances ==
  ASSUME WeekInv, NEW c \in Captures, NEW step \in Steps,
         \/ At(c, step)
         \/ step = "idle" /\ Leave(c),
         mask' = mask, bundle' = bundle, batch' = batch, kept' = kept, manifest' = manifest,
         values' = values, reason' = reason,
         runs' \in Seq({"running", "succeeded", "failed"}),
         faults' \in Nat, faults' >= faults,
         step \in {"delete", "fill", "close", "fail"} => manifest # None,
         \/ step \in {"delete", "fill"} <=> capture[c].step \in {"delete", "fill"}
         \/ manifest = None
         \/ manifest.status # "building"
         \/ step \notin {"delete", "fill"} /\ faults' # 0
  PROVE  WeekInv'
<1>1. /\ capture[c].mask \in Nat /\ capture[c].batch \in Nat /\ capture[c].run \in Nat
      /\ capture[c].batch <= batch /\ batch \in Nat
  BY DEF WeekInv, WeekTypes, PastInv
<1>2. CASE At(c, step)
  <2>1. capture' = [capture EXCEPT ![c] = [step |-> step, mask |-> capture[c].mask,
                                           batch |-> capture[c].batch, run |-> capture[c].run]]
    <3>1. capture' = [capture EXCEPT ![c] = [capture[c] EXCEPT !.step = step]]
      BY <1>2 DEF At
    <3> DEFINE old == capture[c]
    <3>2. old \in [step : Steps, mask : Nat, batch : Nat, run : Nat]
      BY DEF WeekInv, WeekTypes
    <3> HIDE DEF old
    <3>3. [old EXCEPT !.step = step] = [step |-> step, mask |-> old.mask, batch |-> old.batch, run |-> old.run]
      BY <3>2
    <3> QED
      BY <3>1, <3>3 DEF old
  <2> QED
    BY <1>1, <2>1, Moves
<1>3. CASE step = "idle" /\ Leave(c)
  <2>1. capture' = [capture EXCEPT ![c] = [step |-> step, mask |-> 0, batch |-> 0, run |-> 0]]
    BY <1>3 DEF Leave, Idle
  <2>2. 0 <= batch
    BY <1>1
  <2> QED
    BY <2>1, <2>2, Moves
<1> QED
  BY <1>2, <1>3

-----------------------------------------------------------------------------
LEMMA PublishBatchStep ==
  ASSUME WeekInv, PublishBatch
  PROVE  WeekInv'
<1>1. /\ batch' = batch + 1 /\ kept' = (kept \cap Pinned) \cup {batch + 1} /\ batch \in Nat
      /\ mask' = mask /\ bundle' = bundle /\ capture' = capture /\ runs' = runs /\ manifest' = manifest
      /\ values' = values /\ reason' = reason /\ faults' = faults
  BY DEF PublishBatch, snapshot, WeekInv, WeekTypes
<1>2. WeekTypes'
  BY <1>1 DEF WeekInv, WeekTypes
<1>3. WorkInv' /\ OwnerInv' /\ FreshInv' /\ WholeInv'
  BY <1>1 DEF WeekInv, WorkInv, OwnerInv, FreshInv, WholeInv, Owners
<1>4. PinInv'
  BY <1>1 DEF WeekInv, PinInv, Pinned
<1>5. manifest # None => manifest.batch \in Nat /\ manifest.batch <= batch /\ manifest.batch # batch + 1
  BY <1>1, ManifestFields DEF WeekInv, WeekTypes, PastInv
<1>6. PastInv'
  <2>1. ASSUME NEW c \in Captures
        PROVE  capture[c].batch \in Nat /\ capture[c].batch <= batch
    BY DEF WeekInv, WeekTypes, PastInv
  <2> QED
    BY <1>1, <1>5, <2>1 DEF PastInv
<1>7. MissInv'
  <2>1. manifest # None => Nowcast(manifest.batch)' \subseteq Nowcast(manifest.batch)
    BY <1>1, <1>5 DEF Nowcast
  <2> QED
    BY <1>1, <2>1 DEF WeekInv, MissInv, Observed
<1> QED
  BY <1>2, <1>3, <1>4, <1>6, <1>7 DEF WeekInv

LEMMA InsertStep ==
  ASSUME WeekInv, NEW c \in Captures, Insert(c)
  PROVE  WeekInv' /\ ManifestKept
<1>0. /\ capture[c].step = "insert" /\ mask' = mask /\ bundle' = bundle /\ batch' = batch /\ kept' = kept
      /\ values' = values /\ reason' = reason /\ faults' = faults /\ faults \in Nat
      /\ runs \in Seq({"running", "succeeded", "failed"})
      /\ capture[c].mask \in Nat /\ capture[c].batch \in Nat /\ capture[c].run \in Nat
  BY DEF Insert, world, WeekInv, WeekTypes
<1>1. CASE manifest # None
  <2>1. Leave(c) /\ manifest' = manifest /\ runs' = [runs EXCEPT ![capture[c].run] = "succeeded"]
    BY <1>1 DEF Insert
  <2>2. runs' \in Seq({"running", "succeeded", "failed"})
    BY <1>0, <2>1, RunEnded
  <2> QED
    BY <1>0, <2>1, <2>2, Advances DEF ManifestKept, Steps
<1>2. CASE manifest = None /\ capture[c].batch \notin kept
  <2>1. Leave(c) /\ manifest' = manifest /\ runs' = runs
    BY <1>2 DEF Insert
  <2> QED
    BY <1>0, <2>1, Advances DEF ManifestKept, Steps
<1>3. CASE manifest = None /\ capture[c].batch \in kept
  <2>1. /\ manifest' = [status |-> "building", mask |-> capture[c].mask, batch |-> capture[c].batch,
                        run |-> capture[c].run, checksum |-> None, missing |-> 0]
        /\ capture' = [capture EXCEPT ![c].step = "delete"] /\ runs' = runs
    BY <1>3 DEF Insert, At
  <2>2. /\ manifest' \in Manifests /\ manifest' # None /\ manifest'.batch = capture[c].batch
        /\ manifest'.status = "building"
    BY <1>0, <2>1, WeeksAssumption DEF Manifests
  <2>3. /\ capture' \in [Captures -> [step : Steps, mask : Nat, batch : Nat, run : Nat]]
        /\ \A d \in Captures :
             /\ capture'[d].step = IF d = c THEN "delete" ELSE capture[d].step
             /\ capture'[d].batch = capture[d].batch
    <3>1. capture \in [Captures -> [step : Steps, mask : Nat, batch : Nat, run : Nat]] /\ "delete" \in Steps
      BY DEF WeekInv, WeekTypes, Steps
    <3>2. ASSUME NEW d \in Captures
          PROVE  /\ capture'[d].step = IF d = c THEN "delete" ELSE capture[d].step
                 /\ capture'[d].batch = capture[d].batch
      <4>1. CASE d = c
        BY <2>1, <3>1, <4>1
      <4>2. CASE d # c
        BY <2>1, <3>1, <4>2
      <4> QED
        BY <4>1, <4>2
    <3>3. capture' \in [Captures -> [step : Steps, mask : Nat, batch : Nat, run : Nat]]
      BY <2>1, <3>1
    <3> QED
      BY <3>2, <3>3
  <2>4. WeekTypes'
    BY <1>0, <2>1, <2>2, <2>3 DEF WeekInv, WeekTypes
  <2>5. OwnerInv'
    <3>1. Owners' = {c}
      <4>1. \A d \in Captures : capture[d].step \notin {"delete", "fill"}
        BY <1>3 DEF WeekInv, WorkInv
      <4>2. ASSUME NEW d \in Captures
            PROVE  capture'[d].step \in {"delete", "fill"} <=> d = c
        <5>1. capture'[d].step = IF d = c THEN "delete" ELSE capture[d].step
          BY <2>3
        <5> QED
          BY <4>1, <5>1
      <4> QED
        BY <4>2 DEF Owners
    <3> QED
      BY <3>1 DEF OwnerInv
  <2>6. WorkInv' /\ PinInv'
    BY <1>0, <1>3, <2>2 DEF WorkInv, PinInv
  <2>8. PastInv'
    <3>1. ASSUME NEW d \in Captures
          PROVE  capture[d].batch <= batch /\ capture'[d].batch = capture[d].batch
      BY <2>3 DEF WeekInv, PastInv
    <3>2. manifest'.batch <= batch
      BY <2>2, <3>1
    <3> QED
      BY <1>0, <3>1, <3>2 DEF PastInv
  <2>7. MissInv' /\ FreshInv' /\ WholeInv'
    BY <1>0, <1>3, <2>2 DEF MissInv, FreshInv, WholeInv, WeekInv
  <2> QED
    BY <1>3, <2>4, <2>5, <2>6, <2>7, <2>8 DEF WeekInv, ManifestKept
<1> QED
  BY <1>1, <1>2, <1>3

LEMMA MarkFailedStep ==
  ASSUME WeekInv, NEW c \in Captures, MarkFailed(c)
  PROVE  WeekInv' /\ ManifestKept
<1>0. /\ capture[c].step = "fail" /\ manifest # None /\ mask' = mask /\ bundle' = bundle /\ batch' = batch
      /\ kept' = kept /\ values' = values /\ reason' = reason /\ faults' = faults /\ faults \in Nat /\ Leave(c)
  BY DEF MarkFailed, world, WeekInv, WeekTypes, WorkInv
<1>1. runs' \in Seq({"running", "succeeded", "failed"})
  BY RunEnded DEF MarkFailed, WeekInv, WeekTypes
<1>2. CASE manifest.status = "published"
  <2>1. manifest' = manifest
    BY <1>2 DEF MarkFailed
  <2> QED
    BY <1>0, <1>1, <2>1, Advances DEF ManifestKept, Steps
<1>3. CASE manifest.status # "published"
  <2>1. manifest' = [manifest EXCEPT !.status = "failed"] /\ manifest \in Manifests
    BY <1>0, <1>3 DEF MarkFailed, WeekInv, WeekTypes
  <2>2. /\ manifest' \in Manifests /\ manifest'.status = "failed" /\ manifest'.mask = manifest.mask
        /\ manifest'.batch = manifest.batch /\ manifest'.run = manifest.run
    BY <2>1 DEF Manifests
  <2>3. manifest' # None
    BY <2>2, WeeksAssumption
  <2>4. capture' = [capture EXCEPT ![c] = [step |-> "idle", mask |-> 0, batch |-> 0, run |-> 0]]
    BY <1>0 DEF Leave, Idle
  <2>5. WeekTypes'
    BY <1>0, <1>1, <2>2, <2>4 DEF WeekInv, WeekTypes, MarkFailed, Steps
  <2>6. PastInv'
    <3>1. ASSUME NEW d \in Captures
          PROVE  capture'[d].batch <= batch
      <4>1. CASE d = c
        <5>1. capture'[d].batch = 0 /\ batch \in Nat
          BY <2>4, <4>1 DEF WeekInv, WeekTypes
        <5> QED
          BY <5>1
      <4>2. CASE d # c
        BY <2>4, <4>2 DEF WeekInv, WeekTypes, PastInv
      <4> QED
        BY <4>1, <4>2
    <3> QED
      BY <1>0, <2>2, <3>1 DEF WeekInv, PastInv
  <2>7. WorkInv' /\ OwnerInv' /\ PinInv' /\ FreshInv' /\ WholeInv'
    BY <1>0, <2>2, <2>3 DEF WeekInv, WorkInv, OwnerInv, PinInv, FreshInv, WholeInv
  <2>8. MissInv'
    BY <1>0, <2>2 DEF WeekInv, MissInv, Nowcast, Observed
  <2> QED
    BY <1>3, <2>2, <2>3, <2>5, <2>6, <2>7, <2>8 DEF WeekInv, ManifestKept
<1> QED
  BY <1>2, <1>3

\* One step of the whole: what it leaves alone, Advances keeps.
LEMMA WeekStep ==
  ASSUME WeekInv, [Next]_vars
  PROVE  WeekInv' /\ ManifestKept
<1>0. /\ faults \in Nat /\ runs \in Seq({"running", "succeeded", "failed"}) /\ mask \in Nat
      /\ Len(runs) \in Nat
      /\ \A c \in Captures : capture[c].step \in {"delete", "fill", "close", "fail"} => manifest # None
  BY DEF WeekInv, WeekTypes, WorkInv
<1>1. CASE PublishBatch
  BY <1>1, PublishBatchStep DEF PublishBatch, snapshot, ManifestKept
<1>2. ASSUME PublishMask \/ UNCHANGED vars \/ (\E e \in Fires : ChangeCause(e))
               \/ (\E l \in Linkers : Examine(l) \/ LinkAll(l) \/ LinkConflicts(l) \/ LinkFails(l))
      PROVE  WeekInv' /\ ManifestKept
  <2>1. /\ bundle' = bundle /\ batch' = batch /\ kept' = kept /\ capture' = capture /\ runs' = runs
        /\ manifest' = manifest /\ values' = values /\ reason' = reason /\ mask' \in {mask, mask + 1}
        /\ faults' \in {faults, faults + 1}
    BY <1>2 DEF PublishMask, vars, ChangeCause, Examine, LinkAll, LinkConflicts, LinkFails, world, snapshot
  <2>2. WeekTypes'
    BY <1>0, <2>1 DEF WeekInv, WeekTypes
  <2>3. Owners' = Owners /\ faults' >= faults
    BY <1>0, <2>1 DEF Owners
  <2>4. \A c \in Captures : capture[c].batch <= batch
    BY DEF WeekInv, PastInv
  <2> QED
    BY <1>0, <2>1, <2>2, <2>3, <2>4, Quiet DEF ManifestKept
<1>3. ASSUME NEW c \in Captures, Look(c)
      PROVE  WeekInv' /\ ManifestKept
  BY <1>0, <1>3, Advances DEF Look, Owns, world, snapshot, Steps, ManifestKept
<1>4. ASSUME NEW c \in Captures, ReadMask(c) \/ ReadBatch(c) \/ StartRun(c)
      PROVE  WeekInv' /\ ManifestKept
  <2> DEFINE old == capture[c]
  <2>1. old \in [step : Steps, mask : Nat, batch : Nat, run : Nat] /\ old.batch <= batch /\ batch \in Nat
    BY DEF WeekInv, WeekTypes, PastInv
  <2>2. PICK new :
          /\ capture' = [capture EXCEPT ![c] = new]
          /\ \/ new = [old EXCEPT !.step = "batch", !.mask = mask]
             \/ new = [old EXCEPT !.step = "run", !.batch = batch]
             \/ new = [old EXCEPT !.step = "insert", !.run = Len(runs) + 1]
    BY <1>4 DEF ReadMask, ReadBatch, StartRun
  <2>3. /\ bundle' = bundle /\ mask' = mask /\ batch' = batch /\ kept' = kept /\ manifest' = manifest
        /\ values' = values /\ reason' = reason /\ faults' = faults
        /\ old.step \notin {"delete", "fill"} /\ runs' \in Seq({"running", "succeeded", "failed"})
    <3>1. Append(runs, "running") \in Seq({"running", "succeeded", "failed"})
      BY <1>0
    <3>2. runs' \in {runs, Append(runs, "running")}
      BY <1>4 DEF ReadMask, ReadBatch, StartRun
    <3>3. old.step \in {"mask", "batch", "run"}
      BY <1>4 DEF ReadMask, ReadBatch, StartRun
    <3>4. UNCHANGED <<bundle, mask, batch, kept, manifest, values, reason, faults>>
      BY <1>4 DEF ReadMask, ReadBatch, StartRun, world, snapshot
    <3> QED
      BY <1>0, <3>1, <3>2, <3>3, <3>4
  <2> HIDE DEF old
  <2>4. /\ new = [step |-> new.step, mask |-> new.mask, batch |-> new.batch, run |-> new.run]
        /\ new.step \in {"batch", "run", "insert"} /\ new.mask \in Nat /\ new.run \in Nat
        /\ new.batch \in {old.batch, batch} /\ new.batch \in Nat
    <3>1. CASE new = [old EXCEPT !.step = "batch", !.mask = mask]
      BY <1>0, <2>1, <3>1
    <3>2. CASE new = [old EXCEPT !.step = "run", !.batch = batch]
      BY <1>0, <2>1, <3>2
    <3>3. CASE new = [old EXCEPT !.step = "insert", !.run = Len(runs) + 1]
      <4> DEFINE n == Len(runs) + 1
      <4>1. n \in Nat
        BY <1>0
      <4> HIDE DEF n
      <4> QED
        BY <2>1, <3>3, <4>1 DEF n
    <3> QED
      BY <2>2, <3>1, <3>2, <3>3
  <2>5. new.batch <= batch /\ new.step \in Steps /\ new.step \notin {"delete", "fill", "close", "fail"}
    BY <2>1, <2>4 DEF Steps
  <2>6. capture' = [capture EXCEPT ![c] = [step |-> new.step, mask |-> new.mask,
                                           batch |-> new.batch, run |-> new.run]]
    BY <2>2, <2>4
  <2>7. WeekInv'
    <3>1. faults' \in Nat /\ faults' >= faults
      BY <1>0, <2>3
    <3>2. new.step \in {"delete", "fill"} <=> capture[c].step \in {"delete", "fill"}
      BY <2>3, <2>5 DEF old
    <3> DEFINE step == new.step
               m == new.mask
               b == new.batch
               r == new.run
    <3>3. /\ step \in Steps /\ m \in Nat /\ b \in Nat /\ r \in Nat /\ b <= batch
          /\ capture' = [capture EXCEPT ![c] = [step |-> step, mask |-> m, batch |-> b, run |-> r]]
          /\ step \notin {"delete", "fill", "close", "fail"}
          /\ step \in {"delete", "fill"} <=> capture[c].step \in {"delete", "fill"}
      BY <2>4, <2>5, <2>6, <3>2
    <3> HIDE DEF step, m, b, r
    <3> QED
      BY <2>3, <3>1, <3>3, Moves
  <2> QED
    BY <2>3, <2>7 DEF ManifestKept
<1>5. ASSUME NEW c \in Captures, Delete(c)
      PROVE  WeekInv' /\ ManifestKept
  BY <1>0, <1>5, Advances DEF Delete, world, snapshot, Steps, ManifestKept
<1>6. ASSUME NEW c \in Captures, Fill(c)
      PROVE  WeekInv' /\ ManifestKept
  <2>1. PICK step \in {"close", "fail"} : At(c, step)
    BY <1>6 DEF Fill
  <2>2. /\ manifest # None /\ Filling(c) /\ capture' = [capture EXCEPT ![c].step = step]
        /\ bundle' = bundle /\ mask' = mask /\ batch' = batch /\ kept' = kept /\ runs' = runs
        /\ faults' \in Nat
    <3>1. Filling(c) /\ UNCHANGED <<world, runs, labels, faults>> /\ capture[c].step = "fill"
      BY <1>6 DEF Fill, Filling
    <3> QED
      BY <1>0, <2>1, <3>1 DEF At, world
  <2> QED
    BY <2>2, Fills
<1>7. ASSUME NEW c \in Captures, Close(c)
      PROVE  WeekInv' /\ ManifestKept
  <2>1. runs' \in Seq({"running", "succeeded", "failed"})
    BY <1>0, <1>7, RunEnded DEF Close
  <2> QED
    BY <1>0, <1>7, <2>1, Advances DEF Close, world, snapshot, Steps, ManifestKept
<1>8. ASSUME NEW c \in Captures, FillFails(c)
      PROVE  WeekInv' /\ ManifestKept
  <2>1. /\ capture[c].step \in {"delete", "fill"} /\ manifest # None /\ At(c, "fail")
        /\ faults' = faults + 1 /\ bundle' = bundle /\ mask' = mask /\ batch' = batch /\ kept' = kept /\ runs' = runs
    BY <1>0, <1>8 DEF FillFails, world
  <2>2. CASE Filling(c)
    <3>1. capture' = [capture EXCEPT ![c].step = "fail"] /\ faults' \in Nat
      BY <1>0, <2>1 DEF At
    <3> QED
      BY <2>1, <2>2, <3>1, Fills
  <2>3. CASE UNCHANGED snapshot
    BY <1>0, <2>1, <2>3, Advances DEF snapshot, Steps, ManifestKept
  <2> QED
    BY <1>8, <2>2, <2>3 DEF FillFails
<1>9. ASSUME NEW c \in Captures, CaptureStops(c)
      PROVE  WeekInv' /\ ManifestKept
  BY <1>0, <1>9, Advances DEF CaptureStops, world, snapshot, Steps, ManifestKept
<1> QED
  BY <1>1, <1>2, <1>3, <1>4, <1>5, <1>6, <1>7, <1>8, <1>9, InsertStep, MarkFailedStep DEF Next, CaptureStep

\* A published weekly snapshot is whole, and one under construction has its
\* owner, whatever is published, fails or stops meanwhile.
THEOREM SnapshotsCompleteHolds == Spec => []SnapshotsComplete
<1>1. WeekInv => SnapshotsComplete
  <2> SUFFICES ASSUME WeekInv, manifest # None
               PROVE  CASE manifest.status = "published" ->
                             /\ Masks[manifest.mask] \cap bundle \subseteq manifest.checksum
                             /\ manifest.missing = 0 /\ reason = 0
                             /\ manifest.batch \in kept
                        [] manifest.status = "building" ->
                             /\ Cardinality(Owners) <= 1
                             /\ faults = 0 => Owners # {}
                        [] OTHER -> TRUE
    BY DEF SnapshotsComplete
  <2>1. CASE manifest.status = "published"
    BY <2>1 DEF WeekInv, WholeInv, PinInv
  <2>2. CASE manifest.status = "building"
    <3>1. Cardinality(Owners) <= 1
      <4>1. CASE Owners = {}
        BY <4>1, FS_EmptySet
      <4>2. CASE Owners # {}
        <5>1. PICK c : c \in Owners
          BY <4>2
        <5>2. \A d \in Owners : d = c
          BY <2>2, <5>1 DEF WeekInv, OwnerInv
        <5>3. Owners = {c}
          BY <5>1, <5>2
        <5>4. Cardinality({c}) = 1
          BY FS_Singleton
        <5> QED
          BY <5>3, <5>4
      <4> QED
        BY <4>1, <4>2
    <3> QED
      BY <2>2, <3>1 DEF WeekInv, OwnerInv
  <2> QED
    BY <2>1, <2>2
<1> QED
  BY <1>1, WeekInitially, WeekStep, PTL DEF Spec

\* What a manifest is pinned to, and all of it once it is published, stays.
THEOREM ManifestFinalHolds == Spec => ManifestFinal
<1>1. WeekInv /\ [Next]_vars => [ManifestKept]_vars
  BY WeekStep
<1> QED
  BY <1>1, WeekInitially, WeekStep, PTL DEF Spec, ManifestFinal

-----------------------------------------------------------------------------
(* The causes of its fires.                                                *)

LinkRows == [fire : Fires, cause : Nat, current : BOOLEAN, supersedes : Nat]

LinkTypes ==
  /\ cause \in [Fires -> Nat \ {0}]
  /\ links \in Seq(LinkRows)
  /\ linker \in [Linkers -> [step : {"idle", "link"}, seen : {None} \cup [Fires -> Nat], since : Nat]]

Published == manifest # None /\ manifest.status = "published"

\* What a linker has read are causes that the fires have had.
LinkerInv ==
  \A l \in Linkers : linker[l].step = "link" =>
    /\ Published
    /\ linker[l].seen \in [Fires -> Nat]
    /\ \A e \in Fires : linker[l].seen[e] \in 1..cause[e]

\* A fire with a link has one that is current.
OneCurrent ==
  \A n \in DOMAIN links :
    /\ \A m \in DOMAIN links :
         links[m].fire = links[n].fire /\ links[m].current /\ links[n].current => m = n
    /\ \E m \in DOMAIN links : links[m].fire = links[n].fire /\ links[m].current
    /\ links[n].cause \in 1..cause[links[n].fire]

\* What a link supersedes, and what supersedes it.
Superseded ==
  \A n \in DOMAIN links :
    /\ ~links[n].current => \E k \in DOMAIN links : links[k].supersedes = n
    /\ links[n].supersedes # 0 =>
         /\ links[n].supersedes \in DOMAIN links /\ links[n].supersedes < n
         /\ ~links[links[n].supersedes].current
         /\ links[links[n].supersedes].fire = links[n].fire
         /\ links[links[n].supersedes].cause # links[n].cause
         /\ \A k \in DOMAIN links : links[k].supersedes = links[n].supersedes => k = n

LinkInv ==
  /\ LinkTypes
  /\ links # <<>> => Published
  /\ LinkerInv
  /\ OneCurrent
  /\ Superseded

\* A sequence of the fires of a set, in the order of their ids.
LEMMA FiresInOrder ==
  ASSUME NEW S, S \subseteq Fires, NEW todo \in InOrder(S)
  PROVE  /\ todo \in Seq(Fires) /\ \A i \in DOMAIN todo : todo[i] \in S
         /\ \A e \in S : \E i \in DOMAIN todo : todo[i] = e
         /\ \A i, j \in DOMAIN todo : todo[i] = todo[j] => i = j
<1>1. Cardinality(S) \in Nat
  BY WeeksAssumption, FS_Subset, FS_CardinalityType
<1>2. /\ todo \in [1..Cardinality(S) -> S] /\ DOMAIN todo = 1..Cardinality(S)
      /\ \A e \in S : \E i \in DOMAIN todo : todo[i] = e
      /\ \A i, j \in DOMAIN todo : i < j => todo[i] < todo[j]
  BY DEF InOrder
<1>3. \A i \in DOMAIN todo : todo[i] \in S /\ todo[i] \in Nat /\ i \in Nat
  <2> SUFFICES ASSUME NEW i \in DOMAIN todo PROVE todo[i] \in S /\ todo[i] \in Nat /\ i \in Nat
    OBVIOUS
  <2>1. todo[i] \in S /\ i \in 1..Cardinality(S) /\ Fires \subseteq Nat
    BY <1>2, WeeksAssumption
  <2>2. todo[i] \in Fires
    BY <2>1
  <2>3. todo[i] \in Nat
    BY <2>1, <2>2
  <2>4. i \in Nat
    BY <1>1, <2>1
  <2> QED
    BY <2>1, <2>3, <2>4
<1>4. ASSUME NEW i \in DOMAIN todo, NEW j \in DOMAIN todo, todo[i] = todo[j] PROVE i = j
  <2>1. ~(i < j) /\ ~(j < i)
    BY <1>2, <1>3, <1>4
  <2> QED
    BY <1>3, <2>1
<1>5. todo \in Seq(Fires)
  BY <1>1, <1>2
<1> QED
  BY <1>2, <1>3, <1>4, <1>5

LEMMA LinkFacts ==
  ASSUME LinkTypes
  PROVE  /\ DOMAIN links = 1..Len(links) /\ Len(links) \in Nat
         /\ \A n \in DOMAIN links : links[n] \in LinkRows
<1>1. links \in Seq(LinkRows)
  BY DEF LinkTypes
<1> QED
  BY <1>1

LEMMA NewLink ==
  ASSUME LinkTypes, NEW seen \in [Fires -> Nat], NEW e \in Fires
  PROVE  /\ Link(e, seen) \in LinkRows /\ Link(e, seen).fire = e /\ Link(e, seen).cause = seen[e]
         /\ Link(e, seen).current
         /\ CurrentLinks(e) = {} => Link(e, seen).supersedes = 0
         /\ CurrentLinks(e) # {} => Link(e, seen).supersedes \in CurrentLinks(e)
<1>1. CurrentLinks(e) \subseteq Nat
  BY LinkFacts DEF CurrentLinks
<1> QED
  BY <1>1 DEF Link, LinkRows

LEMMA RowsAsFunction ==
  ASSUME NEW S, NEW n \in Nat, NEW f \in [1..n -> S] PROVE f \in Seq(S) /\ Len(f) = n
  OBVIOUS

LEMMA RowsJoined ==
  ASSUME NEW S, NEW a \in Seq(S), NEW b \in Seq(S)
  PROVE  /\ a \o b \in Seq(S) /\ Len(a \o b) = Len(a) + Len(b)
         /\ \A n \in 1..Len(a) : (a \o b)[n] = a[n]
         /\ \A i \in 1..Len(b) : (a \o b)[Len(a) + i] = b[i]
<1>1. Len(a) \in Nat /\ Len(b) \in Nat
  OBVIOUS
<1>2. ASSUME NEW i \in 1..Len(b) PROVE (a \o b)[Len(a) + i] = b[i]
  <2>1. /\ Len(a) + i \in 1..(Len(a) + Len(b)) /\ ~(Len(a) + i <= Len(a))
        /\ Len(a) + i - Len(a) = i
    BY <1>1
  <2> QED
    BY <2>1, ConcatProperties
<1>3. ASSUME NEW n \in 1..Len(a) PROVE (a \o b)[n] = a[n]
  <2>1. n \in 1..(Len(a) + Len(b)) /\ n <= Len(a)
    BY <1>1
  <2> QED
    BY <2>1, ConcatProperties
<1> QED
  BY <1>2, <1>3, ConcatProperties

\* The links after a run that links some fires: the links there were, without
\* the current ones of these fires, and one more for each.
LEMMA LinkedRows ==
  ASSUME LinkTypes, NEW seen \in [Fires -> Nat], NEW todo \in Seq(Fires), NEW new, new = Linked(todo, seen)
  PROVE  /\ new \in Seq(LinkRows) /\ DOMAIN new = 1..(Len(links) + Len(todo))
         /\ \A n \in DOMAIN links :
              /\ new[n].fire = links[n].fire /\ new[n].cause = links[n].cause
              /\ new[n].supersedes = links[n].supersedes
              /\ new[n].current <=> links[n].current /\ \A i \in DOMAIN todo : todo[i] # links[n].fire
         /\ \A i \in DOMAIN todo : new[Len(links) + i] = Link(todo[i], seen)
<1> DEFINE old == [n \in DOMAIN links |->
                    [links[n] EXCEPT !.current = @ /\ \A i \in DOMAIN todo : todo[i] # links[n].fire]]
           more == [n \in DOMAIN todo |-> Link(todo[n], seen)]
<1>1. /\ DOMAIN links = 1..Len(links) /\ Len(links) \in Nat
      /\ \A n \in DOMAIN links : links[n] \in LinkRows
  BY LinkFacts
<1>2. /\ DOMAIN todo = 1..Len(todo) /\ Len(todo) \in Nat /\ \A i \in DOMAIN todo : todo[i] \in Fires
  OBVIOUS
<1>3. \A n \in DOMAIN links :
        /\ old[n] \in LinkRows
        /\ old[n].fire = links[n].fire /\ old[n].cause = links[n].cause /\ old[n].supersedes = links[n].supersedes
        /\ old[n].current <=> links[n].current /\ \A i \in DOMAIN todo : todo[i] # links[n].fire
  BY <1>1 DEF LinkRows
<1>4. \A i \in DOMAIN todo : more[i] \in LinkRows /\ more[i] = Link(todo[i], seen)
  BY <1>2, NewLink
<1>5. new = old \o more
  BY DEF Linked
<1>6. DOMAIN old = 1..Len(links) /\ DOMAIN more = 1..Len(todo)
  BY <1>1, <1>2
<1> HIDE DEF old, more
<1>7. /\ old \in Seq(LinkRows) /\ more \in Seq(LinkRows) /\ Len(old) = Len(links) /\ Len(more) = Len(todo)
  <2>1. old \in [1..Len(links) -> LinkRows]
    BY <1>1, <1>3, <1>6 DEF old
  <2>2. more \in [1..Len(todo) -> LinkRows]
    BY <1>2, <1>4, <1>6 DEF more
  <2>3. old \in Seq(LinkRows) /\ Len(old) = Len(links)
    BY <1>1, <2>1, RowsAsFunction
  <2>4. more \in Seq(LinkRows) /\ Len(more) = Len(todo)
    BY <1>2, <2>2, RowsAsFunction
  <2> QED
    BY <2>3, <2>4
<1>8. /\ new \in Seq(LinkRows) /\ Len(new) = Len(links) + Len(todo)
      /\ \A n \in DOMAIN links : new[n] = old[n]
      /\ \A i \in DOMAIN todo : new[Len(links) + i] = more[i]
  <2>1. PICK a, b : a = old /\ b = more
    OBVIOUS
  <2>2. a \in Seq(LinkRows) /\ b \in Seq(LinkRows) /\ new = a \o b
    BY <1>5, <1>7, <2>1
  <2>3. /\ new \in Seq(LinkRows) /\ Len(new) = Len(a) + Len(b)
        /\ \A n \in 1..Len(a) : new[n] = a[n]
        /\ \A i \in 1..Len(b) : new[Len(a) + i] = b[i]
    BY <2>2, RowsJoined
  <2> QED
    BY <1>1, <1>2, <1>7, <2>1, <2>3
<1>9. DOMAIN new = 1..(Len(links) + Len(todo))
  BY <1>8
<1>10. \A i \in DOMAIN todo : new[Len(links) + i] = Link(todo[i], seen)
  BY <1>4, <1>8
<1>11. ASSUME NEW n \in DOMAIN links
       PROVE  /\ new[n].fire = links[n].fire /\ new[n].cause = links[n].cause
              /\ new[n].supersedes = links[n].supersedes
              /\ new[n].current <=> links[n].current /\ \A i \in DOMAIN todo : todo[i] # links[n].fire
  <2>1. new[n] = old[n]
    BY <1>8
  <2> QED
    BY <1>3, <2>1
<1> QED
  BY <1>8, <1>9, <1>10, <1>11

\* A linker that commits leaves the chains whole.
LEMMA LinkAllStep ==
  ASSUME LinkInv, NEW l \in Linkers, LinkAll(l)
  PROVE  links' \in Seq(LinkRows) /\ OneCurrent' /\ Superseded'
<1>1. PICK seen : seen = linker[l].seen
  OBVIOUS
<1>2. /\ LinkTypes /\ OneCurrent /\ Superseded
      /\ seen \in [Fires -> Nat] /\ \A e \in Fires : seen[e] \in 1..cause[e]
  BY <1>1 DEF LinkInv, LinkerInv, LinkAll
<1>3. PICK S : S = ToLink(seen)
  OBVIOUS
<1>4. PICK todo \in InOrder(S) : links' = Linked(todo, seen)
  BY <1>1, <1>3 DEF LinkAll
<1>5. S \subseteq Fires /\ \A e \in S : \A n \in CurrentLinks(e) : links[n].cause # seen[e]
  BY <1>3 DEF ToLink
<1>6. /\ todo \in Seq(Fires) /\ \A i \in DOMAIN todo : todo[i] \in S
      /\ \A e \in S : \E i \in DOMAIN todo : todo[i] = e
      /\ \A i, j \in DOMAIN todo : todo[i] = todo[j] => i = j
  BY <1>4, <1>5, FiresInOrder
<1>7. PICK new : new = links'
  OBVIOUS
<1>8. PICK L, K : L = Len(links) /\ K = Len(todo)
  OBVIOUS
<1>9. /\ DOMAIN links = 1..L /\ L \in Nat /\ DOMAIN todo = 1..K /\ K \in Nat
      /\ \A n \in 1..L : links[n] \in LinkRows
  BY <1>2, <1>6, <1>8, LinkFacts
<1>10. /\ new \in Seq(LinkRows) /\ DOMAIN new = 1..(L + K)
       /\ \A n \in 1..L :
            /\ new[n].fire = links[n].fire /\ new[n].cause = links[n].cause
            /\ new[n].supersedes = links[n].supersedes
            /\ new[n].current <=> links[n].current /\ \A i \in DOMAIN todo : todo[i] # links[n].fire
       /\ \A i \in 1..K : new[L + i] = Link(todo[i], seen)
  <2>1. LinkTypes /\ seen \in [Fires -> Nat] /\ todo \in Seq(Fires) /\ new = Linked(todo, seen)
    BY <1>2, <1>4, <1>6, <1>7
  <2>2. /\ new \in Seq(LinkRows) /\ DOMAIN new = 1..(Len(links) + Len(todo))
        /\ \A n \in DOMAIN links :
              /\ new[n].fire = links[n].fire /\ new[n].cause = links[n].cause
              /\ new[n].supersedes = links[n].supersedes
              /\ new[n].current <=> links[n].current /\ \A i \in DOMAIN todo : todo[i] # links[n].fire
        /\ \A i \in DOMAIN todo : new[Len(links) + i] = Link(todo[i], seen)
    BY ONLY <2>1, LinkedRows
  <2> QED
    BY <1>8, <1>9, <2>2
<1>11. \A n \in 1..L : new[n].current <=> links[n].current /\ links[n].fire \notin S
  BY <1>6, <1>10
\* The new links, by their ids.
<1>12. ASSUME NEW n \in 1..(L + K), n \notin 1..L
       PROVE  /\ n - L \in 1..K /\ todo[n - L] \in S /\ todo[n - L] \in Fires
              /\ new[n].fire = todo[n - L] /\ new[n].cause = seen[todo[n - L]] /\ new[n].current
              /\ CurrentLinks(todo[n - L]) = {} => new[n].supersedes = 0
              /\ CurrentLinks(todo[n - L]) # {} => new[n].supersedes \in CurrentLinks(todo[n - L])
  <2>1. n - L \in 1..K /\ L + (n - L) = n
    BY <1>9, <1>12
  <2>2. PICK i \in 1..K : i = n - L /\ n = L + i
    BY <2>1
  <2>3. new[n] = Link(todo[i], seen) /\ todo[i] \in S /\ todo[i] \in Fires
    BY <1>5, <1>6, <1>9, <1>10, <2>2
  <2>4. PICK e \in Fires : e = todo[i]
    BY <2>3
  <2>5. /\ Link(e, seen).fire = e /\ Link(e, seen).cause = seen[e] /\ Link(e, seen).current
        /\ CurrentLinks(e) = {} => Link(e, seen).supersedes = 0
        /\ CurrentLinks(e) # {} => Link(e, seen).supersedes \in CurrentLinks(e)
    BY <1>2, NewLink
  <2>6. new[n] = Link(e, seen) /\ e = todo[n - L] /\ e \in S /\ n - L \in 1..K
    BY <2>2, <2>3, <2>4
  <2> QED
    BY <2>5, <2>6
<1>13. ASSUME NEW e \in S
       PROVE  \E n \in 1..(L + K) : n \notin 1..L /\ new[n].fire = e /\ todo[n - L] = e
  <2>1. PICK i \in 1..K : todo[i] = e
    BY <1>6, <1>9
  <2>2. PICK n : n = L + i
    OBVIOUS
  <2>3. n \in 1..(L + K) /\ n \notin 1..L /\ n - L = i
    BY <1>9, <2>2
  <2>4. todo[n - L] = e
    BY <2>1, <2>3
  <2>5. new[n].fire = e
    BY <1>12, <2>3, <2>4
  <2> QED
    BY <2>3, <2>4, <2>5
<1>14. \A m, n \in 1..(L + K) : m \notin 1..L /\ n \notin 1..L /\ new[m].fire = new[n].fire => m = n
  <2> SUFFICES ASSUME NEW m \in 1..(L + K), NEW n \in 1..(L + K), m \notin 1..L, n \notin 1..L,
                      new[m].fire = new[n].fire
               PROVE  m = n
    OBVIOUS
  <2>1. m - L \in 1..K /\ n - L \in 1..K /\ todo[m - L] = todo[n - L]
    BY <1>12
  <2>2. m - L = n - L
    BY <1>6, <1>9, <2>1
  <2> QED
    BY <1>9, <2>2
<1>15. \A e, n : n \in CurrentLinks(e) <=> n \in 1..L /\ links[n].fire = e /\ links[n].current
  BY <1>9 DEF CurrentLinks
<1>16. ASSUME NEW n \in 1..(L + K), NEW m \in 1..(L + K),
              new[m].fire = new[n].fire, new[m].current, new[n].current
       PROVE  m = n
  <2>1. CASE m \in 1..L /\ n \in 1..L
    <3>1. links[m].fire = links[n].fire /\ links[m].current /\ links[n].current
      BY <1>10, <1>11, <1>16, <2>1
    <3> QED
      BY <1>2, <1>9, <2>1, <3>1 DEF OneCurrent
  <2>2. CASE m \notin 1..L /\ n \notin 1..L
    BY <1>14, <1>16, <2>2
  <2>3. CASE m \in 1..L /\ n \notin 1..L
    BY <1>10, <1>11, <1>12, <1>16, <2>3
  <2>4. CASE m \notin 1..L /\ n \in 1..L
    BY <1>10, <1>11, <1>12, <1>16, <2>4
  <2> QED
    BY <2>1, <2>2, <2>3, <2>4
<1>17. ASSUME NEW n \in 1..(L + K) PROVE \E m \in 1..(L + K) : new[m].fire = new[n].fire /\ new[m].current
  <2>1. CASE n \notin 1..L
    BY <1>12, <2>1
  <2>2. CASE n \in 1..L /\ new[n].fire \in S
    BY <1>12, <1>13, <2>2
  <2>3. CASE n \in 1..L /\ new[n].fire \notin S
    <3>1. PICK m \in 1..L : links[m].fire = links[n].fire /\ links[m].current
      BY <1>2, <1>9, <2>3 DEF OneCurrent
    <3>2. new[m].fire = new[n].fire /\ new[m].current
      BY <1>10, <1>11, <2>3, <3>1
    <3>3. m \in 1..(L + K)
      BY <1>9
    <3> QED
      BY <3>2, <3>3
  <2> QED
    BY <2>1, <2>2, <2>3
<1>18. ASSUME NEW n \in 1..(L + K) PROVE new[n].cause \in 1..cause[new[n].fire]
  <2>1. CASE n \in 1..L
    BY <1>2, <1>9, <1>10, <2>1 DEF OneCurrent
  <2>2. CASE n \notin 1..L
    BY <1>2, <1>12, <2>2
  <2> QED
    BY <2>1, <2>2
<1>19. ASSUME NEW n \in 1..(L + K), ~new[n].current
       PROVE  \E k \in 1..(L + K) : new[k].supersedes = n
  <2>1. n \in 1..L
    BY <1>12, <1>19
  <2>2. CASE ~links[n].current
    <3>1. PICK k \in 1..L : links[k].supersedes = n
      BY <1>2, <1>9, <2>1, <2>2 DEF Superseded
    <3>2. k \in 1..(L + K) /\ new[k].supersedes = n
      BY <1>9, <1>10, <3>1
    <3> QED
      BY <3>2
  <2>3. CASE links[n].current
    <3>1. PICK e \in S : e = links[n].fire
      BY <1>11, <1>19, <2>1, <2>3
    <3>2. PICK k \in 1..(L + K) : k \notin 1..L /\ new[k].fire = e /\ todo[k - L] = e
      BY <1>13
    <3>3. n \in CurrentLinks(e)
      BY <1>15, <2>1, <2>3, <3>1
    <3>4. new[k].supersedes \in CurrentLinks(e)
      BY <1>12, <3>2, <3>3
    <3>5. new[k].supersedes = n
      BY <1>2, <1>9, <1>15, <3>3, <3>4 DEF OneCurrent
    <3> QED
      BY <3>5
  <2> QED
    BY <2>2, <2>3
\* What a link supersedes was current before, and is not after.
<1>20. ASSUME NEW n \in 1..(L + K), n \notin 1..L, new[n].supersedes # 0
       PROVE  /\ new[n].supersedes \in 1..L /\ links[new[n].supersedes].current
              /\ links[new[n].supersedes].fire = new[n].fire /\ new[n].fire \in S
              /\ links[new[n].supersedes].cause # new[n].cause
  <2>1. PICK k : k = new[n].supersedes
    OBVIOUS
  <2>2. k \in CurrentLinks(todo[n - L]) /\ todo[n - L] \in S
        /\ new[n].fire = todo[n - L] /\ new[n].cause = seen[todo[n - L]]
    BY <1>12, <1>20, <2>1
  <2> QED
    BY <1>5, <1>15, <2>1, <2>2
<1>21. ASSUME NEW n \in 1..L, links[n].supersedes # 0
       PROVE  /\ links[n].supersedes \in 1..L /\ links[n].supersedes < n
              /\ ~links[links[n].supersedes].current
              /\ links[links[n].supersedes].fire = links[n].fire
              /\ links[links[n].supersedes].cause # links[n].cause
              /\ \A k \in 1..L : links[k].supersedes = links[n].supersedes => k = n
  BY <1>2, <1>9, <1>21 DEF Superseded
<1>22. ASSUME NEW n \in 1..(L + K), new[n].supersedes # 0
       PROVE  /\ new[n].supersedes \in 1..(L + K) /\ new[n].supersedes < n
              /\ ~new[new[n].supersedes].current
              /\ new[new[n].supersedes].fire = new[n].fire
              /\ new[new[n].supersedes].cause # new[n].cause
  <2>1. PICK k : k = new[n].supersedes
    OBVIOUS
  <2>2. CASE n \in 1..L
    <3>1. k = links[n].supersedes /\ k # 0
      BY <1>10, <1>22, <2>1, <2>2
    <3>2. /\ k \in 1..L /\ k < n /\ ~links[k].current
          /\ links[k].fire = links[n].fire /\ links[k].cause # links[n].cause
      BY <1>21, <2>2, <3>1
    <3>3. k \in 1..(L + K)
      BY <1>9, <3>2
    <3> QED
      BY <1>10, <1>11, <2>1, <2>2, <3>2, <3>3
  <2>3. CASE n \notin 1..L
    <3>1. /\ k \in 1..L /\ links[k].current /\ links[k].fire = new[n].fire /\ new[n].fire \in S
          /\ links[k].cause # new[n].cause
      BY <1>20, <1>22, <2>1, <2>3
    <3>2. k \in 1..(L + K) /\ k < n
      BY <1>9, <2>3, <3>1
    <3> QED
      BY <1>10, <1>11, <2>1, <3>1, <3>2
  <2> QED
    BY <2>2, <2>3
<1>23. ASSUME NEW n \in 1..(L + K), NEW k \in 1..(L + K), new[n].supersedes # 0,
              new[k].supersedes = new[n].supersedes
       PROVE  k = n
  <2>1. CASE n \in 1..L /\ k \in 1..L
    BY <1>10, <1>21, <1>23, <2>1
  <2>2. CASE n \notin 1..L /\ k \notin 1..L
    BY <1>14, <1>20, <1>23, <2>2
  <2>3. CASE n \in 1..L /\ k \notin 1..L
    BY <1>10, <1>20, <1>21, <1>23, <2>3
  <2>4. CASE n \notin 1..L /\ k \in 1..L
    BY <1>10, <1>20, <1>21, <1>23, <2>4
  <2> QED
    BY <2>1, <2>2, <2>3, <2>4
<1>24. OneCurrent'
  <2>1. cause' = cause /\ DOMAIN new = 1..(L + K)
    BY <1>10 DEF LinkAll
  <2> QED
    BY <1>7, <1>16, <1>17, <1>18, <2>1 DEF OneCurrent
<1>25. Superseded'
  BY <1>7, <1>10, <1>19, <1>22, <1>23 DEF Superseded
<1> QED
  BY <1>7, <1>10, <1>24, <1>25

LEMMA LinkInitially == Init => LinkInv
<1> SUFFICES ASSUME Init PROVE LinkInv
  OBVIOUS
<1>1. /\ cause = [e \in Fires |-> 1] /\ linker = [l \in Linkers |-> NoLinks] /\ links = <<>>
      /\ DOMAIN links = {}
  BY DEF Init
<1>2. LinkTypes
  BY <1>1 DEF LinkTypes, NoLinks
<1>3. LinkerInv
  BY <1>1 DEF LinkerInv, NoLinks
<1> QED
  BY <1>1, <1>2, <1>3 DEF LinkInv, OneCurrent, Superseded

\* A step that changes neither the causes nor the links.
LEMMA LinksUnchanged ==
  ASSUME LinkInv, ManifestKept, UNCHANGED <<cause, links>>,
         linker' \in [Linkers -> [step : {"idle", "link"}, seen : {None} \cup [Fires -> Nat], since : Nat]],
         \A l \in Linkers : linker'[l] = linker[l] \/ linker'[l].step = "idle"
           \/ (Published /\ linker'[l].seen = cause)
  PROVE  LinkInv'
<1>1. LinkTypes /\ cause \in [Fires -> Nat \ {0}] /\ links \in Seq(LinkRows)
  BY DEF LinkInv, LinkTypes
<1>2. LinkTypes'
  BY <1>1 DEF LinkTypes
<1>3. Published => Published'
  BY DEF Published, ManifestKept
<1>4. LinkerInv'
  <2> SUFFICES ASSUME NEW l \in Linkers, linker'[l].step = "link"
               PROVE  /\ Published' /\ linker'[l].seen \in [Fires -> Nat]
                      /\ \A e \in Fires : linker'[l].seen[e] \in 1..cause[e]
    BY DEF LinkerInv
  <2>1. CASE linker'[l] = linker[l]
    BY <1>3, <2>1 DEF LinkInv, LinkerInv
  <2>2. CASE Published /\ linker'[l].seen = cause
    <3>1. cause \in [Fires -> Nat] /\ \A e \in Fires : cause[e] \in 1..cause[e]
      BY <1>1
    <3> QED
      BY <1>1, <1>3, <2>2, <3>1
  <2> QED
    BY <2>1, <2>2
<1>5. OneCurrent' /\ Superseded'
  BY DEF LinkInv, OneCurrent, Superseded
<1> QED
  BY <1>2, <1>3, <1>4, <1>5 DEF LinkInv

\* A cause that is corrected has had the causes before.
LEMMA CauseStep ==
  ASSUME LinkInv, ManifestKept, NEW e \in Fires, ChangeCause(e) PROVE LinkInv'
<1>1. /\ LinkTypes /\ cause \in [Fires -> Nat \ {0}] /\ cause' = [cause EXCEPT ![e] = cause[e] + 1]
      /\ links' = links /\ linker' = linker
  BY DEF LinkInv, LinkTypes, ChangeCause
<1>2. cause' \in [Fires -> Nat \ {0}] /\ \A f \in Fires : cause[f] <= cause'[f]
  BY <1>1
<1>3. \A f \in Fires : 1..cause[f] \subseteq 1..cause'[f]
  BY <1>1, <1>2
<1>4. Published => Published'
  BY DEF Published, ManifestKept
<1>5. LinkTypes'
  BY <1>1, <1>2 DEF LinkTypes
<1>6. LinkerInv'
  BY <1>1, <1>3, <1>4 DEF LinkInv, LinkerInv
<1>7. OneCurrent'
  <2>1. \A n \in DOMAIN links : links[n].fire \in Fires
    BY <1>1, LinkFacts DEF LinkRows
  <2> QED
    BY <1>1, <1>3, <2>1 DEF LinkInv, OneCurrent
<1>8. Superseded'
  BY <1>1 DEF LinkInv, Superseded
<1> QED
  BY <1>1, <1>4, <1>5, <1>6, <1>7, <1>8 DEF LinkInv

\* One step of the whole.
LEMMA LinkStep ==
  ASSUME LinkInv, ManifestKept, [Next]_vars PROVE LinkInv'
<1>1. /\ LinkTypes
      /\ linker \in [Linkers -> [step : {"idle", "link"}, seen : {None} \cup [Fires -> Nat], since : Nat]]
      /\ cause \in [Fires -> Nat] /\ Len(links) \in Nat
  BY LinkFacts DEF LinkInv, LinkTypes
<1>2. NoLinks \in [step : {"idle", "link"}, seen : {None} \cup [Fires -> Nat], since : Nat]
  BY DEF NoLinks
<1>3. ASSUME UNCHANGED labels PROVE LinkInv'
  BY <1>1, <1>3, LinksUnchanged DEF labels
<1>4. CASE PublishBatch \/ PublishMask \/ UNCHANGED vars
  BY <1>3, <1>4 DEF PublishBatch, PublishMask, vars
<1>5. CASE \E c \in Captures : CaptureStep(c) \/ FillFails(c) \/ CaptureStops(c)
  BY <1>3, <1>5 DEF CaptureStep, Look, ReadMask, ReadBatch, StartRun, Insert, Delete, Fill, Close, MarkFailed,
    FillFails, CaptureStops
<1>6. CASE \E e \in Fires : ChangeCause(e)
  BY <1>6, CauseStep
<1>7. ASSUME NEW l \in Linkers, Examine(l) PROVE LinkInv'
  <2> DEFINE row == [step |-> "link", seen |-> cause, since |-> Len(links)]
  <2>1. row \in [step : {"idle", "link"}, seen : {None} \cup [Fires -> Nat], since : Nat] /\ row.seen = cause
    BY <1>1
  <2>2. linker' = [linker EXCEPT ![l] = row] /\ UNCHANGED <<cause, links>> /\ Published
    BY <1>7 DEF Examine, Published
  <2> HIDE DEF row
  <2>3. /\ linker' \in [Linkers -> [step : {"idle", "link"}, seen : {None} \cup [Fires -> Nat], since : Nat]]
        /\ \A k \in Linkers : linker'[k] = linker[k] \/ linker'[k].seen = cause
    BY <1>1, <2>1, <2>2
  <2> QED
    BY <2>2, <2>3, LinksUnchanged
<1>8. ASSUME NEW l \in Linkers, LinkConflicts(l) \/ LinkFails(l) PROVE LinkInv'
  <2>1. linker' = [linker EXCEPT ![l] = NoLinks] /\ UNCHANGED <<cause, links>>
    BY <1>8 DEF LinkConflicts, LinkFails
  <2>2. /\ linker' \in [Linkers -> [step : {"idle", "link"}, seen : {None} \cup [Fires -> Nat], since : Nat]]
        /\ \A k \in Linkers : linker'[k] = linker[k] \/ linker'[k].step = "idle"
    BY <1>1, <1>2, <2>1 DEF NoLinks
  <2> QED
    BY <2>1, <2>2, LinksUnchanged
<1>9. ASSUME NEW l \in Linkers, LinkAll(l) PROVE LinkInv'
  <2>1. links' \in Seq(LinkRows) /\ OneCurrent' /\ Superseded'
    BY <1>9, LinkAllStep
  <2>2. linker' = [linker EXCEPT ![l] = NoLinks] /\ cause' = cause /\ linker[l].step = "link"
    BY <1>9 DEF LinkAll
  <2>3. /\ linker' \in [Linkers -> [step : {"idle", "link"}, seen : {None} \cup [Fires -> Nat], since : Nat]]
        /\ \A k \in Linkers : linker'[k] = linker[k] \/ linker'[k].step = "idle"
    BY <1>1, <1>2, <2>2 DEF NoLinks
  <2>4. Published /\ Published'
    BY <2>2 DEF LinkInv, LinkerInv, Published, ManifestKept
  <2>5. LinkTypes'
    BY <1>1, <2>1, <2>2, <2>3 DEF LinkTypes
  <2>6. LinkerInv'
    BY <2>2, <2>3, <2>4 DEF LinkInv, LinkerInv
  <2> QED
    BY <2>1, <2>4, <2>5, <2>6 DEF LinkInv
<1> QED
  BY <1>4, <1>5, <1>6, <1>7, <1>8, <1>9 DEF Next

\* The links of a fire form one chain that ends in its current link, whatever
\* linkers overlap, fail or write what they read before a correction.
THEOREM LinksChainHolds == Spec => []LinksChain
<1>1. LinkInv => LinksChain
  <2> SUFFICES ASSUME LinkInv PROVE LinksChain
    OBVIOUS
  <2>1. links # <<>> => manifest.status = "published"
    BY DEF LinkInv, Published
  <2>2. ASSUME NEW e \in Fires
        PROVE  Cardinality(CurrentLinks(e)) = IF \E n \in DOMAIN links : links[n].fire = e THEN 1 ELSE 0
    <3>1. CASE \E n \in DOMAIN links : links[n].fire = e
      <4>1. PICK m \in DOMAIN links : links[m].fire = e /\ links[m].current
        BY <3>1 DEF LinkInv, OneCurrent
      <4>2. CurrentLinks(e) = {m}
        BY <4>1 DEF LinkInv, OneCurrent, CurrentLinks
      <4> QED
        BY <3>1, <4>2, FS_Singleton
    <3>2. CASE ~\E n \in DOMAIN links : links[n].fire = e
      <4>1. CurrentLinks(e) = {}
        BY <3>2 DEF CurrentLinks
      <4> QED
        BY <3>2, <4>1, FS_EmptySet
    <3> QED
      BY <3>1, <3>2
  <2>3. ASSUME NEW n \in DOMAIN links
        PROVE  /\ links[n].cause \in 1..cause[links[n].fire]
               /\ ~links[n].current =>
                    Cardinality({k \in DOMAIN links : links[k].supersedes = n}) = 1
               /\ links[n].supersedes # 0 =>
                    LET k == links[n].supersedes
                    IN k < n /\ links[k].fire = links[n].fire /\ links[k].cause # links[n].cause
    <3>1. ASSUME ~links[n].current PROVE Cardinality({k \in DOMAIN links : links[k].supersedes = n}) = 1
      <4>1. PICK k \in DOMAIN links : links[k].supersedes = n
        BY <3>1 DEF LinkInv, Superseded
      <4>2. n # 0
        BY LinkFacts DEF LinkInv
      <4>3. {j \in DOMAIN links : links[j].supersedes = n} = {k}
        BY <4>1, <4>2 DEF LinkInv, Superseded
      <4> QED
        BY <4>3, FS_Singleton
    <3> QED
      BY <3>1 DEF LinkInv, OneCurrent, Superseded
  <2> QED
    BY <2>1, <2>2, <2>3 DEF LinksChain
<1>2. WeekInv /\ LinkInv /\ [Next]_vars => WeekInv' /\ LinkInv'
  BY WeekStep, LinkStep
<1> QED
  BY <1>1, <1>2, WeekInitially, LinkInitially, PTL DEF Spec

-----------------------------------------------------------------------------
(* Snapshots of the state of the system.                                   *)

Moments == Nat \cup {Unknown}
Tallies == {Cardinality(S) : S \in SUBSET Nat}
Samples == [forecast : Moments, horizons : Nat, firms : Moments, failed : {0} \cup Tallies]
Findings ==
  [rule : {"forecast_freshness", "firms_freshness", "active_model_count"},
   severity : {"warning", "critical"}]
CaptureSteps ==
  {"idle", "lineage", "volume", "store", "finish", "alerts", "record"}
Takings ==
  [step : CaptureSteps, at : 0..MaxHour, attempt : Nat, sample : Samples, todo : Seq(Findings)]
Windows == {"hourly", "daily", "event"} \X Nat
Attempts ==
  [window : Windows, number : Nat, status : {"started", "failed", "succeeded"}, by : Tasks,
   row : {Unknown} \cup Samples]
SnapshotRows == [at : 0..MaxHour, sample : Samples]
Alerts ==
  [rule : {"forecast_freshness", "firms_freshness", "active_model_count"},
   severity : {"warning", "critical"}, window : Windows, attempt : Nat]

SystemTypes ==
  /\ hour \in 0..MaxHour
  /\ forecast \in [batch : Nat, at : Moments] /\ firms \in Moments /\ failures \in SUBSET Nat
  /\ taking \in [Tasks -> Takings]
  /\ attempts \in Seq(Attempts)
  /\ DOMAIN rows \subseteq Windows /\ \A w \in DOMAIN rows : rows[w] \in SnapshotRows
  /\ alerts \in SUBSET Alerts
  /\ losses \in Nat

Items(s) == {s[n] : n \in DOMAIN s}
Alerted(x, w) == \E a \in alerts : a.rule = x.rule /\ a.window = w

\* A capture, its attempt and its window.
TakingSound(c) ==
  LET t == taking[c] IN
  /\ t.step = "idle" => t.attempt = 0
  /\ t.step # "idle" => t.attempt \in DOMAIN attempts /\ attempts[t.attempt].by = c
  /\ t.step \in {"lineage", "volume", "store", "finish"} => attempts[t.attempt].status = "started"
  /\ t.step \in {"finish", "alerts", "record"} => WindowOf(c) \in DOMAIN rows
  /\ t.step \in {"alerts", "record"} =>
       /\ attempts[t.attempt].status = "succeeded"
       /\ Items(t.todo) \subseteq Rules(rows[WindowOf(c)])
       /\ \A x \in Rules(rows[WindowOf(c)]) : x \in Items(t.todo) \/ Alerted(x, WindowOf(c))
  /\ t.step = "record" =>
       /\ t.todo # <<>>
       /\ \A a \in alerts : a.rule = Head(t.todo).rule /\ a.window = WindowOf(c) =>
            attempts[a.attempt].by # c

\* An attempt that succeeded, and one that nobody works on.
AttemptSound(i) ==
  LET w == attempts[i].window IN
  /\ attempts[i].status = "succeeded" => w \in DOMAIN rows /\ attempts[i].row = rows[w].sample
  /\ losses = 0 /\ (\A c \in Tasks : taking[c].attempt # i) =>
       attempts[i].status = "succeeded" /\ \A x \in Rules(rows[w]) : Alerted(x, w)
  /\ w[1] \in {"hourly", "daily"} => w[2] <= MaxHour

Numbered(w) == {attempts[j].number : j \in AttemptsOf(w)} = 1..Cardinality(AttemptsOf(w))

AlertSound(a) ==
  /\ a.attempt \in DOMAIN attempts /\ a.window \in DOMAIN rows
  /\ [rule |-> a.rule, severity |-> a.severity] \in Rules(rows[a.window])

RecordedOnce ==
  \A a, b \in alerts : a # b /\ a.rule = b.rule /\ a.window = b.window =>
    attempts[a.attempt].by # attempts[b.attempt].by

SystemInv ==
  /\ SystemTypes
  /\ \A c \in Tasks : TakingSound(c)
  /\ \A i \in DOMAIN attempts : AttemptSound(i)
  /\ \A w \in Windows : Numbered(w)
  /\ \A w \in DOMAIN rows : AttemptsOf(w) # {}
  /\ \A a \in alerts : AlertSound(a)
  /\ RecordedOnce

\* The least number of a set.
LEMMA LeastNumber ==
  ASSUME NEW S, S \subseteq Nat, S # {} PROVE \E x \in S : \A y \in S : x <= y
<1> DEFINE R == {rs \in Nat \X Nat : rs[1] < rs[2]}
<1>1. IsWellFoundedOn(R, Nat)
  BY NatLessThanWellFounded DEF OpToRel
<1> HIDE DEF R
<1>2. PICK x \in S : \A y \in S : ~ (<<y, x>> \in R)
  BY <1>1, WFMin
<1>3. ASSUME NEW y \in S PROVE x <= y
  <2>1. x \in Nat /\ y \in Nat /\ <<y, x>> \in Nat \X Nat
    OBVIOUS
  <2>2. ~(y < x)
    BY <1>2, <2>1 DEF R
  <2> QED
    BY <2>1, <2>2
<1> QED
  BY <1>3

LEMMA GreatestNumber ==
  ASSUME NEW S, NEW n \in Nat, S \subseteq 0..n, S # {} PROVE \E x \in S : \A y \in S : y <= x
<1> DEFINE T == {n - x : x \in S}
<1>0. \A x \in S : x \in Nat /\ x <= n /\ n - x \in Nat
  OBVIOUS
<1>1. T \subseteq Nat /\ T # {}
  BY <1>0
<1>2. PICK t \in T : \A u \in T : t <= u
  BY <1>1, LeastNumber
<1>3. PICK x \in S : t = n - x
  BY <1>2
<1>4. ASSUME NEW y \in S PROVE y <= x
  <2>1. n - y \in T
    OBVIOUS
  <2>2. n - x <= n - y
    BY <1>2, <1>3, <2>1
  <2> QED
    BY <1>0, <2>2
<1> QED
  BY <1>3, <1>4

\* A sequence with a row replaced.
LEMMA RowChanges ==
  ASSUME NEW S, NEW old \in Seq(S), NEW new, NEW n \in DOMAIN old, NEW row \in S,
         new = [old EXCEPT ![n] = row]
  PROVE  /\ new \in Seq(S) /\ DOMAIN new = DOMAIN old /\ Len(new) = Len(old)
         /\ new[n] = row
         /\ \A m \in DOMAIN old : m # n => new[m] = old[m]
<1>1. Len(old) \in Nat /\ old \in [1..Len(old) -> S] /\ DOMAIN old = 1..Len(old)
  OBVIOUS
<1>2. new \in [1..Len(old) -> S]
  BY <1>1
<1> QED
  BY <1>1, <1>2

LEMMA ItemsOfTail ==
  ASSUME NEW S, NEW s \in Seq(S), s # <<>>
  PROVE  /\ Items(s) = {Head(s)} \cup Items(Tail(s)) /\ Tail(s) \in Seq(S) /\ Head(s) \in S
<1>1. /\ Head(s) = s[1] /\ Tail(s) \in Seq(S) /\ Len(Tail(s)) = Len(s) - 1 /\ Head(s) \in S
      /\ \A i \in 1..Len(Tail(s)) : Tail(s)[i] = s[i + 1]
      /\ Len(s) \in Nat /\ Len(s) # 0
  BY HeadTailProperties
<1>2. DOMAIN s = 1..Len(s) /\ DOMAIN Tail(s) = 1..(Len(s) - 1)
  BY <1>1
<1>3. ASSUME NEW x \in Items(s) PROVE x \in {Head(s)} \cup Items(Tail(s))
  <2>1. PICK i \in 1..Len(s) : x = s[i]
    BY <1>2, <1>3 DEF Items
  <2>2. CASE i = 1
    BY <1>1, <2>1, <2>2
  <2>3. CASE i # 1
    <3>1. i - 1 \in 1..(Len(s) - 1) /\ i - 1 + 1 = i
      BY <1>1, <2>1, <2>3
    <3>2. Tail(s)[i - 1] = x
      BY <1>1, <2>1, <3>1
    <3> QED
      BY <1>2, <3>1, <3>2 DEF Items
  <2> QED
    BY <2>2, <2>3
<1>4. ASSUME NEW x \in Items(Tail(s)) PROVE x \in Items(s)
  <2>1. PICK i \in 1..(Len(s) - 1) : x = Tail(s)[i]
    BY <1>2, <1>4 DEF Items
  <2>2. i + 1 \in 1..Len(s) /\ x = s[i + 1]
    BY <1>1, <2>1
  <2> QED
    BY <1>2, <2>2 DEF Items
<1>5. Head(s) \in Items(s)
  BY <1>1, <1>2 DEF Items
<1> QED
  BY <1>1, <1>3, <1>4, <1>5

LEMMA CandidateFindings ==
  ASSUME NEW row PROVE Candidates(row) \in Seq(Findings) /\ Rules(row) = Items(Candidates(row))
<1>1. ASSUME NEW rule \in {"forecast_freshness", "firms_freshness"}, NEW at, NEW t
      PROVE  Freshness(rule, at, t) \in Seq(Findings)
  <2>1. Severity(Band(at, t)) \in {"warning", "critical"}
    BY DEF Severity
  <2>2. [rule |-> rule, severity |-> Severity(Band(at, t))] \in Findings
    BY <2>1 DEF Findings
  <2> QED
    BY <2>2 DEF Freshness
<1>2. [rule |-> "active_model_count", severity |-> "critical"] \in Findings
  BY DEF Findings
<1> DEFINE count == IF Models = 1 THEN <<>> ELSE <<[rule |-> "active_model_count", severity |-> "critical"]>>
<1>3. count \in Seq(Findings)
  BY <1>2
<1>4. Candidates(row) = Freshness("forecast_freshness", row.at, row.sample.forecast)
                          \o Freshness("firms_freshness", row.at, row.sample.firms) \o count
  BY DEF Candidates
<1> HIDE DEF count
<1>5. Candidates(row) \in Seq(Findings)
  BY <1>1, <1>3, <1>4, ConcatProperties
<1> QED
  BY <1>5 DEF Rules, Items

-----------------------------------------------------------------------------
\* What a step of a task leaves: the other tasks, attempts but its own open
\* one, rows and alerts.
Grows(c) ==
  /\ \A d \in Tasks : d # c => taking'[d] = taking[d]
  /\ \A i \in DOMAIN attempts :
       /\ i \in DOMAIN attempts'
       /\ attempts'[i].window = attempts[i].window /\ attempts'[i].by = attempts[i].by
       /\ attempts'[i].number = attempts[i].number
       /\ i # taking[c].attempt \/ attempts[i].status # "started" => attempts'[i] = attempts[i]
  /\ \A w \in DOMAIN rows : w \in DOMAIN rows' /\ rows'[w] = rows[w]
  /\ alerts \subseteq alerts'
  /\ \A a \in alerts' \ alerts : a.attempt = taking[c].attempt /\ a.attempt \in DOMAIN attempts
  /\ losses' \in {losses, losses + 1}

LEMMA AttemptIds ==
  ASSUME SystemTypes
  PROVE  /\ DOMAIN attempts = 1..Len(attempts) /\ Len(attempts) \in Nat
         /\ \A i \in DOMAIN attempts : attempts[i] \in Attempts
<1>1. attempts \in Seq(Attempts)
  BY DEF SystemTypes
<1> QED
  BY <1>1

\* What another task relies on stays.
LEMMA OthersSound ==
  ASSUME SystemTypes, NEW c \in Tasks, Grows(c), \A d \in Tasks : TakingSound(d),
         \A a \in alerts : AlertSound(a), NEW d \in Tasks, d # c
  PROVE  TakingSound(d)'
<1>1. PICK t : t = taking[d]
  OBVIOUS
<1>2. taking'[d] = t
  BY <1>1 DEF Grows
<1>3. CASE t.step = "idle"
  BY <1>1, <1>2, <1>3 DEF TakingSound
<1>4. CASE t.step # "idle"
  <2>1. t.attempt \in DOMAIN attempts /\ attempts[t.attempt].by = d
    BY <1>1, <1>4 DEF TakingSound
  <2>2. t.attempt # taking[c].attempt
    <3>1. CASE taking[c].step = "idle"
      BY <2>1, <3>1, AttemptIds DEF TakingSound
    <3>2. CASE taking[c].step # "idle"
      BY <2>1, <3>2 DEF TakingSound
    <3> QED
      BY <3>1, <3>2
  <2>3. t.attempt \in DOMAIN attempts' /\ attempts'[t.attempt] = attempts[t.attempt]
    BY <2>1, <2>2 DEF Grows
  <2>4. PICK w : w = attempts[t.attempt].window
    OBVIOUS
  <2>5. WindowOf(d) = w /\ WindowOf(d)' = w
    BY <1>1, <1>2, <2>3, <2>4 DEF WindowOf
  <2>6. t.step \in {"finish", "alerts", "record"} =>
          w \in DOMAIN rows /\ w \in DOMAIN rows' /\ rows'[w] = rows[w]
    BY <1>1, <2>5 DEF TakingSound, Grows
  <2>7. \A x : Alerted(x, w) => Alerted(x, w)'
    BY DEF Alerted, Grows
  <2>8. \A r : Rules(r)' = Rules(r)
    BY DEF Rules, Candidates, Freshness
  <2>9. t.step = "record" =>
          \A a \in alerts' : a.rule = Head(t.todo).rule /\ a.window = w => attempts'[a.attempt].by # d
    <3> SUFFICES ASSUME t.step = "record", NEW a \in alerts', a.rule = Head(t.todo).rule, a.window = w
                 PROVE  attempts'[a.attempt].by # d
      OBVIOUS
    <3>1. CASE a \in alerts
      <4>1. a.attempt \in DOMAIN attempts
        BY <3>1 DEF AlertSound
      <4>2. \A b \in alerts : b.rule = Head(t.todo).rule /\ b.window = w => attempts[b.attempt].by # d
        BY <1>1, <2>5 DEF TakingSound
      <4>3. attempts[a.attempt].by # d
        BY <3>1, <4>2
      <4> QED
        BY <4>1, <4>3 DEF Grows
    <3>2. CASE a \notin alerts
      <4>1. a.attempt = taking[c].attempt /\ a.attempt \in DOMAIN attempts
        BY <3>2 DEF Grows
      <4>2. attempts[a.attempt].by = c
        BY <4>1, AttemptIds DEF TakingSound
      <4> QED
        BY <4>1, <4>2 DEF Grows
    <3> QED
      BY <3>1, <3>2
  <2>10. /\ attempts[t.attempt].by = d
         /\ t.step \in {"lineage", "volume", "store", "finish"} => attempts[t.attempt].status = "started"
         /\ t.step \in {"finish", "alerts", "record"} => w \in DOMAIN rows
         /\ t.step \in {"alerts", "record"} =>
              /\ attempts[t.attempt].status = "succeeded"
              /\ Items(t.todo) \subseteq Rules(rows[w])
              /\ \A x \in Rules(rows[w]) : x \in Items(t.todo) \/ Alerted(x, w)
         /\ t.step = "record" => t.todo # <<>>
    BY <1>1, <1>4, <2>5 DEF TakingSound
  <2>11. t.step \in {"alerts", "record"} =>
              /\ Items(t.todo) \subseteq Rules(rows'[w])
              /\ \A x \in Rules(rows'[w]) : x \in Items(t.todo) \/ Alerted(x, w)'
    BY <2>6, <2>7, <2>10
  <2> QED
    BY <1>2, <1>4, <2>1, <2>3, <2>5, <2>6, <2>9, <2>10, <2>11 DEF TakingSound
<1> QED
  BY <1>3, <1>4

\* A task that leaves its attempt without a fault has recorded its alerts.
Leaves(c) ==
  losses' = 0 =>
    \/ taking'[c].attempt = taking[c].attempt
    \/ taking[c].attempt = 0
    \/ /\ attempts[taking[c].attempt].status = "succeeded" /\ WindowOf(c) \in DOMAIN rows
       /\ \A x \in Rules(rows[WindowOf(c)]) : Alerted(x, WindowOf(c))

\* An attempt nobody works on is as it was.
LEMMA AttemptKept ==
  ASSUME SystemTypes, NEW c \in Tasks, Grows(c), \A d \in Tasks : TakingSound(d),
         NEW i \in DOMAIN attempts, AttemptSound(i), Leaves(c),
         attempts'[i].status = "succeeded" =>
           attempts[i].status = "succeeded"
             \/ (attempts[i].window \in DOMAIN rows' /\ attempts'[i].row = rows'[attempts[i].window].sample)
  PROVE  AttemptSound(i)'
<1>1. PICK w : w = attempts[i].window
  OBVIOUS
<1>2. attempts'[i].window = w /\ (attempts[i].status # "started" => attempts'[i] = attempts[i])
  BY <1>1 DEF Grows
<1>3. attempts'[i].status = "succeeded" => w \in DOMAIN rows' /\ attempts'[i].row = rows'[w].sample
  BY <1>1, <1>2 DEF AttemptSound, Grows
<1>4. ASSUME losses' = 0, \A d \in Tasks : taking'[d].attempt # i
      PROVE  attempts'[i].status = "succeeded" /\ \A x \in Rules(rows'[w]) : Alerted(x, w)'
  <2>1. losses = 0
    BY <1>4 DEF Grows, SystemTypes
  <2>2. \A d \in Tasks : d # c => taking[d].attempt # i
    BY <1>4 DEF Grows
  <2>3. attempts[i].status = "succeeded" /\ w \in DOMAIN rows /\ \A x \in Rules(rows[w]) : Alerted(x, w)
    <3>1. CASE taking[c].attempt # i
      BY <1>1, <2>1, <2>2, <3>1 DEF AttemptSound
    <3>2. CASE taking[c].attempt = i
      <4>1. i # 0 /\ taking'[c].attempt # i /\ WindowOf(c) = w
        BY <1>1, <1>4, <3>2, AttemptIds DEF WindowOf
      <4> QED
        BY <1>4, <3>2, <4>1 DEF Leaves
    <3> QED
      BY <3>1, <3>2
  <2>4. attempts'[i] = attempts[i] /\ rows'[w] = rows[w]
    BY <1>2, <2>3 DEF Grows
  <2>5. \A x : Alerted(x, w) => Alerted(x, w)'
    BY DEF Alerted, Grows
  <2> QED
    BY <2>3, <2>4, <2>5
<1>5. w[1] \in {"hourly", "daily"} => w[2] <= MaxHour
  BY <1>1 DEF AttemptSound
<1> QED
  BY <1>2, <1>3, <1>4, <1>5 DEF AttemptSound

LEMMA NumberedKept ==
  ASSUME DOMAIN attempts' = DOMAIN attempts,
         \A i \in DOMAIN attempts :
           attempts'[i].window = attempts[i].window /\ attempts'[i].number = attempts[i].number,
         NEW w
  PROVE  AttemptsOf(w)' = AttemptsOf(w) /\ (Numbered(w) => Numbered(w)')
<1>1. AttemptsOf(w)' = AttemptsOf(w)
  BY DEF AttemptsOf
<1>2. \A j \in AttemptsOf(w) : attempts'[j].number = attempts[j].number
  BY DEF AttemptsOf
<1> QED
  BY <1>1, <1>2 DEF Numbered

LEMMA AlertKept ==
  ASSUME NEW c \in Tasks, Grows(c), NEW a \in alerts, AlertSound(a) PROVE AlertSound(a)'
<1>1. a.attempt \in DOMAIN attempts' /\ a.window \in DOMAIN rows' /\ rows'[a.window] = rows[a.window]
  BY DEF AlertSound, Grows
<1> QED
  BY <1>1 DEF AlertSound

\* A step that leaves the alerts and the numbers of the attempts.
LEMMA QuietStep ==
  ASSUME SystemInv, NEW c \in Tasks, Grows(c), SystemTypes', TakingSound(c)', alerts' = alerts,
         DOMAIN attempts' = DOMAIN attempts, Leaves(c),
         \A i \in DOMAIN attempts : attempts'[i].status = "succeeded" =>
           attempts[i].status = "succeeded"
             \/ (attempts[i].window \in DOMAIN rows' /\ attempts'[i].row = rows'[attempts[i].window].sample),
         \A w \in DOMAIN rows' : w \in DOMAIN rows \/ (w = WindowOf(c) /\ taking[c].attempt \in DOMAIN attempts)
  PROVE  SystemInv'
<1>1. /\ SystemTypes /\ \A d \in Tasks : TakingSound(d) /\ \A a \in alerts : AlertSound(a)
      /\ \A i \in DOMAIN attempts : AttemptSound(i)
  BY DEF SystemInv
<1>2. \A d \in Tasks : TakingSound(d)'
  BY <1>1, OthersSound
<1>3. \A i \in DOMAIN attempts' : AttemptSound(i)'
  BY <1>1, AttemptKept
<1>4. \A w \in Windows : AttemptsOf(w)' = AttemptsOf(w) /\ Numbered(w)'
  BY NumberedKept DEF SystemInv, Grows
<1>5. \A w \in DOMAIN rows' : AttemptsOf(w)' # {}
  <2> SUFFICES ASSUME NEW w, w \in DOMAIN rows' PROVE AttemptsOf(w)' # {}
    OBVIOUS
  <2>1. AttemptsOf(w)' = AttemptsOf(w)
    BY NumberedKept DEF Grows
  <2>2. CASE w \in DOMAIN rows
    BY <2>1, <2>2 DEF SystemInv
  <2>3. CASE w = WindowOf(c) /\ taking[c].attempt \in DOMAIN attempts
    BY <2>1, <2>3 DEF WindowOf, AttemptsOf
  <2> QED
    BY <2>2, <2>3
<1>6. \A a \in alerts' : AlertSound(a)'
  BY <1>1, AlertKept
<1>7. RecordedOnce'
  <2>1. \A a \in alerts : a.attempt \in DOMAIN attempts
    BY <1>1 DEF AlertSound
  <2> QED
    BY <2>1 DEF SystemInv, RecordedOnce, Grows
<1> QED
  BY <1>2, <1>3, <1>4, <1>5, <1>6, <1>7 DEF SystemInv

\* A step that changes only what its task keeps for itself.
LEMMA PrivateStep ==
  ASSUME SystemInv, NEW c \in Tasks, NEW next \in Takings, taking' = [taking EXCEPT ![c] = next],
         UNCHANGED <<hour, observed, ledger, losses>>, TakingSound(c)',
         next.attempt = taking[c].attempt
  PROVE  SystemInv' /\ Grows(c)
<1>1. UNCHANGED <<hour, forecast, firms, failures, attempts, rows, alerts, losses>>
  BY DEF observed, ledger
<1>2. SystemTypes /\ taking \in [Tasks -> Takings]
  BY DEF SystemInv, SystemTypes
<1>3. SystemTypes' /\ Grows(c) /\ taking'[c].attempt = taking[c].attempt
  BY <1>1, <1>2 DEF SystemTypes, Grows
<1> QED
  BY <1>1, <1>3, QuietStep DEF Leaves

LEMMA ReadingStep ==
  ASSUME SystemInv, NEW c \in Tasks, ReadLineage(c) \/ ReadVolume(c)
  PROVE  SystemInv' /\ Grows(c)
<1>1. /\ taking \in [Tasks -> Takings] /\ taking[c] \in Takings /\ TakingSound(c)
      /\ forecast \in [batch : Nat, at : Moments] /\ firms \in Moments /\ failures \in SUBSET Nat
  BY DEF SystemInv, SystemTypes
<1>2. ASSUME NEW next \in Takings, taking' = [taking EXCEPT ![c] = next], next.attempt = taking[c].attempt,
             taking[c].step \in {"lineage", "volume"}, next.step \in {"volume", "store"},
             UNCHANGED <<hour, observed, ledger, losses>>
      PROVE  SystemInv' /\ Grows(c)
  <2>1. taking'[c] = next /\ attempts' = attempts
    BY <1>1, <1>2 DEF ledger
  <2>2. TakingSound(c)'
    BY <1>1, <1>2, <2>1 DEF TakingSound
  <2> QED
    BY <1>2, <2>2, PrivateStep
<1>3. CASE ReadLineage(c)
  <2> DEFINE sample == [taking[c].sample EXCEPT !.forecast = forecast.at, !.firms = firms]
             next == [taking[c] EXCEPT !.step = "volume", !.sample = sample]
  <2>1. sample \in Samples
    BY <1>1 DEF Takings, Samples
  <2> HIDE DEF sample
  <2>2. next \in Takings /\ next.attempt = taking[c].attempt /\ next.step = "volume"
    BY <1>1, <2>1 DEF Takings, CaptureSteps
  <2>3. taking' = [taking EXCEPT ![c] = next] /\ taking[c].step = "lineage"
    BY <1>3 DEF ReadLineage, sample
  <2> HIDE DEF next
  <2> QED
    BY <1>2, <1>3, <2>2, <2>3 DEF ReadLineage
<1>4. CASE ReadVolume(c)
  <2> DEFINE failed == Failed(taking[c].at)
             sample == [taking[c].sample EXCEPT !.horizons = forecast.batch, !.failed = failed]
             next == [taking[c] EXCEPT !.step = "store", !.sample = sample]
  <2>0. failed \in Tallies
    BY <1>1 DEF Failed, Tallies
  <2> HIDE DEF failed
  <2>1. sample \in Samples
    BY <1>1, <2>0 DEF Takings, Samples
  <2> HIDE DEF sample
  <2>2. next \in Takings /\ next.attempt = taking[c].attempt /\ next.step = "store"
    BY <1>1, <2>1 DEF Takings, CaptureSteps
  <2>3. taking' = [taking EXCEPT ![c] = next] /\ taking[c].step = "volume"
    BY <1>4 DEF ReadVolume, sample, failed
  <2> HIDE DEF next
  <2> QED
    BY <1>2, <1>4, <2>2, <2>3 DEF ReadVolume
<1> QED
  BY <1>3, <1>4

\* The row of a window stays as it was first stored.
LEMMA KeptRows ==
  ASSUME SystemInv, NEW c \in Tasks, taking[c].step = "store"
  PROVE  /\ WindowOf(c) \in Windows /\ taking[c].attempt \in DOMAIN attempts
         /\ DOMAIN Kept(c) = DOMAIN rows \cup {WindowOf(c)}
         /\ DOMAIN Kept(c) \subseteq Windows /\ \A w \in DOMAIN Kept(c) : Kept(c)[w] \in SnapshotRows
         /\ \A w \in DOMAIN rows : Kept(c)[w] = rows[w]
<1>1. SystemTypes /\ TakingSound(c) /\ taking[c] \in Takings
  BY DEF SystemInv, SystemTypes
<1>2. taking[c].attempt \in DOMAIN attempts
  BY <1>1 DEF TakingSound
<1>3. WindowOf(c) \in Windows
  BY <1>1, <1>2, AttemptIds DEF WindowOf, Attempts
<1>4. [at |-> taking[c].at, sample |-> taking[c].sample] \in SnapshotRows
  BY <1>1 DEF SnapshotRows, Takings
<1>5. DOMAIN rows \subseteq Windows /\ \A w \in DOMAIN rows : rows[w] \in SnapshotRows
  BY <1>1 DEF SystemTypes
<1> QED
  BY <1>2, <1>3, <1>4, <1>5 DEF Kept

LEMMA StoreStep ==
  ASSUME SystemInv, NEW c \in Tasks, Store(c) PROVE SystemInv' /\ Grows(c)
<1> DEFINE next == [taking[c] EXCEPT !.step = "finish"]
<1>1. /\ SystemTypes /\ taking \in [Tasks -> Takings] /\ taking[c] \in Takings /\ TakingSound(c)
      /\ taking[c].step = "store"
  BY DEF SystemInv, SystemTypes, Store
<1>2. next \in Takings /\ next.step = "finish" /\ next.attempt = taking[c].attempt
  BY <1>1 DEF Takings, CaptureSteps
<1>3. /\ taking' = [taking EXCEPT ![c] = next] /\ rows' = Kept(c)
      /\ UNCHANGED <<hour, forecast, firms, failures, attempts, alerts, losses>>
  BY DEF Store, observed
<1> HIDE DEF next
<1>4. taking'[c] = next /\ \A d \in Tasks : d # c => taking'[d] = taking[d]
  BY <1>1, <1>3
<1>5. SystemTypes'
  BY <1>1, <1>2, <1>3, KeptRows DEF SystemTypes
<1>6. Grows(c)
  BY <1>1, <1>3, <1>4, KeptRows DEF Grows
<1>7. WindowOf(c)' = WindowOf(c)
  BY <1>2, <1>3, <1>4 DEF WindowOf
<1>8. TakingSound(c)'
  BY <1>1, <1>2, <1>3, <1>4, <1>7, KeptRows DEF TakingSound
<1>9. \A w \in DOMAIN rows' : w \in DOMAIN rows \/ (w = WindowOf(c) /\ taking[c].attempt \in DOMAIN attempts)
  BY <1>1, <1>3, KeptRows
<1> QED
  BY <1>2, <1>3, <1>4, <1>5, <1>6, <1>8, <1>9, QuietStep DEF Leaves

\* The row of the attempt of a task changes.
LEMMA OwnAttempt ==
  ASSUME SystemTypes, NEW c \in Tasks, TakingSound(c), taking[c].step # "idle",
         NEW i, i = taking[c].attempt, NEW new \in Attempts,
         new.window = attempts[i].window, new.number = attempts[i].number, new.by = attempts[i].by,
         attempts' = [attempts EXCEPT ![i] = new]
  PROVE  /\ attempts' \in Seq(Attempts) /\ DOMAIN attempts' = DOMAIN attempts
         /\ i \in DOMAIN attempts /\ attempts'[i] = new /\ attempts'[i].by = c
         /\ \A j \in DOMAIN attempts :
              /\ attempts'[j].window = attempts[j].window /\ attempts'[j].number = attempts[j].number
              /\ attempts'[j].by = attempts[j].by
              /\ j # i => attempts'[j] = attempts[j]
<1>1. i \in DOMAIN attempts /\ attempts[i].by = c
  BY DEF TakingSound
<1>2. attempts[i] \in Attempts /\ attempts \in Seq(Attempts)
  BY <1>1, AttemptIds DEF SystemTypes
<1>5. /\ attempts' \in Seq(Attempts) /\ DOMAIN attempts' = DOMAIN attempts /\ attempts'[i] = new
      /\ \A j \in DOMAIN attempts : j # i => attempts'[j] = attempts[j]
  BY <1>1, <1>2, RowChanges
<1> QED
  BY <1>1, <1>5

LEMMA FinishStep ==
  ASSUME SystemInv, NEW c \in Tasks, Finish(c) PROVE SystemInv' /\ Grows(c)
<1>0. PICK i : i = taking[c].attempt
  OBVIOUS
<1> DEFINE todo == Candidates(Reported(c))
           next == [taking[c] EXCEPT !.step = "alerts", !.todo = todo]
           new == [attempts[i] EXCEPT !.status = "succeeded", !.row = Reported(c).sample]
<1>1. /\ SystemTypes /\ taking \in [Tasks -> Takings] /\ taking[c] \in Takings /\ TakingSound(c)
      /\ taking[c].step = "finish"
  BY DEF SystemInv, SystemTypes, Finish
<1>2. todo \in Seq(Findings) /\ Rules(Reported(c)) = Items(todo)
  BY CandidateFindings
<1> HIDE DEF todo
<1>3. next \in Takings /\ next.step = "alerts" /\ next.attempt = i /\ next.todo = todo
  BY <1>0, <1>1, <1>2 DEF Takings, CaptureSteps
<1>4. /\ taking' = [taking EXCEPT ![c] = next]
      /\ UNCHANGED <<hour, forecast, firms, failures, rows, alerts, losses>>
      /\ attempts' = [attempts EXCEPT ![i] = new]
  BY <1>0 DEF Finish, observed, todo
<1> HIDE DEF next
<1>5. PICK w : w = WindowOf(c)
  OBVIOUS
<1>6. w \in DOMAIN rows /\ attempts[i].status = "started" /\ i \in DOMAIN attempts /\ w = attempts[i].window
  BY <1>0, <1>1, <1>5 DEF TakingSound, WindowOf
<1>7. rows[w] \in SnapshotRows /\ Reported(c) = rows[w]
  BY <1>1, <1>5, <1>6 DEF SystemTypes, Reported
<1>8. Reported(c).sample \in Samples
  BY <1>7 DEF SnapshotRows
<1>9. /\ new \in Attempts /\ new.status = "succeeded" /\ new.row = rows[w].sample
      /\ new.window = attempts[i].window /\ new.number = attempts[i].number /\ new.by = attempts[i].by
  <2>1. attempts[i] \in Attempts
    BY <1>1, <1>6, AttemptIds
  <2> QED
    BY <1>7, <1>8, <2>1 DEF Attempts
<1> HIDE DEF new
<1>10. /\ attempts' \in Seq(Attempts) /\ DOMAIN attempts' = DOMAIN attempts
       /\ attempts'[i] = new /\ attempts'[i].by = c
       /\ \A j \in DOMAIN attempts :
            /\ attempts'[j].window = attempts[j].window /\ attempts'[j].number = attempts[j].number
            /\ attempts'[j].by = attempts[j].by
            /\ j # i => attempts'[j] = attempts[j]
  <2>1. taking[c].step # "idle" /\ c \in Tasks /\ SystemTypes /\ TakingSound(c)
    BY <1>1
  <2> QED
    BY ONLY ZenonT(20), <1>0, <1>4, <1>9, <2>1, OwnAttempt
<1>11. taking'[c] = next /\ \A d \in Tasks : d # c => taking'[d] = taking[d]
  BY <1>1, <1>4
<1>12. SystemTypes'
  BY <1>1, <1>3, <1>4, <1>10 DEF SystemTypes
<1>13. Grows(c)
  BY <1>0, <1>4, <1>6, <1>10, <1>11 DEF Grows
<1>14. WindowOf(c)' = w
  BY <1>3, <1>6, <1>10, <1>11 DEF WindowOf
<1>15. Rules(rows'[w]) = Items(todo) /\ w \in DOMAIN rows'
  BY <1>2, <1>4, <1>6, <1>7
<1>16. TakingSound(c)'
  <2>1. /\ taking'[c].step = "alerts" /\ taking'[c].attempt = i /\ taking'[c].todo = todo
    BY <1>3, <1>11
  <2> QED
    BY <1>6, <1>9, <1>10, <1>14, <1>15, <2>1 DEF TakingSound
<1>17. \A j \in DOMAIN attempts : attempts'[j].status = "succeeded" =>
         attempts[j].status = "succeeded"
           \/ (attempts[j].window \in DOMAIN rows' /\ attempts'[j].row = rows'[attempts[j].window].sample)
  BY <1>4, <1>6, <1>9, <1>10
<1> QED
  BY <1>0, <1>3, <1>4, <1>10, <1>11, <1>12, <1>13, <1>16, <1>17, QuietStep DEF Leaves

LEMMA CheckStep ==
  ASSUME SystemInv, NEW c \in Tasks, CheckAlert(c) PROVE SystemInv' /\ Grows(c)
<1> DEFINE x == Head(taking[c].todo)
           drop == [taking[c] EXCEPT !.todo = Tail(taking[c].todo)]
           keep == [taking[c] EXCEPT !.step = "record"]
<1>1. /\ SystemTypes /\ taking \in [Tasks -> Takings] /\ taking[c] \in Takings /\ TakingSound(c)
      /\ taking[c].step = "alerts" /\ taking[c].todo # <<>> /\ taking[c].todo \in Seq(Findings)
  BY DEF SystemInv, SystemTypes, CheckAlert, Takings
<1>2. /\ Items(taking[c].todo) = {x} \cup Items(Tail(taking[c].todo))
      /\ Tail(taking[c].todo) \in Seq(Findings)
  BY <1>1, ItemsOfTail
<1>3. /\ drop \in Takings /\ drop.attempt = taking[c].attempt /\ drop.step = "alerts"
      /\ drop.todo = Tail(taking[c].todo)
      /\ keep \in Takings /\ keep.attempt = taking[c].attempt /\ keep.step = "record"
      /\ keep.todo = taking[c].todo
  BY <1>1, <1>2 DEF Takings, CaptureSteps
<1>4. /\ taking' = [taking EXCEPT ![c] = IF Recorded(c, x) THEN drop ELSE keep]
      /\ UNCHANGED <<hour, observed, due, ledger, losses>>
  BY <1>1 DEF CheckAlert
<1> HIDE DEF drop, keep
<1>5. PICK w : w = WindowOf(c)
  OBVIOUS
<1>6. /\ w \in DOMAIN rows /\ Items(taking[c].todo) \subseteq Rules(rows[w])
      /\ \A y \in Rules(rows[w]) : y \in Items(taking[c].todo) \/ Alerted(y, w)
      /\ taking[c].attempt \in DOMAIN attempts /\ attempts[taking[c].attempt].by = c
      /\ attempts[taking[c].attempt].status = "succeeded"
  BY <1>1, <1>5 DEF TakingSound
<1>7. attempts' = attempts /\ rows' = rows /\ alerts' = alerts
  BY <1>4 DEF ledger
<1>8. CASE Recorded(c, x)
  <2>1. taking' = [taking EXCEPT ![c] = drop] /\ taking'[c] = drop
    BY <1>1, <1>4, <1>8
  <2>2. WindowOf(c)' = w
    BY <1>3, <1>5, <1>7, <2>1 DEF WindowOf
  <2>3. Alerted(x, w)
    BY <1>5, <1>8 DEF Recorded, Alerted
  <2>4. Items(drop.todo) \subseteq Rules(rows[w]) /\ \A y \in Rules(rows[w]) : y \in Items(drop.todo) \/ Alerted(y, w)
    BY <1>2, <1>3, <1>6, <2>3
  <2>5. TakingSound(c)'
    BY <1>3, <1>6, <1>7, <2>1, <2>2, <2>4 DEF TakingSound, Alerted
  <2> QED
    BY <1>3, <1>4, <2>1, <2>5, PrivateStep
<1>9. CASE ~Recorded(c, x)
  <2>1. taking' = [taking EXCEPT ![c] = keep] /\ taking'[c] = keep
    BY <1>1, <1>4, <1>9
  <2>2. WindowOf(c)' = w
    BY <1>3, <1>5, <1>7, <2>1 DEF WindowOf
  <2>3. \A a \in alerts : ~(a.rule = x.rule /\ a.window = w)
    BY <1>5, <1>9 DEF Recorded
  <2>5. TakingSound(c)'
    BY <1>1, <1>3, <1>6, <1>7, <2>1, <2>2, <2>3 DEF TakingSound, Alerted
  <2> QED
    BY <1>3, <1>4, <2>1, <2>5, PrivateStep
<1> QED
  BY <1>8, <1>9

LEMMA RecordStep ==
  ASSUME SystemInv, NEW c \in Tasks, RecordAlert(c) PROVE SystemInv' /\ Grows(c)
<1>0. PICK x : x = Head(taking[c].todo)
  OBVIOUS
<1> DEFINE next == [taking[c] EXCEPT !.step = "alerts", !.todo = Tail(taking[c].todo)]
           new == [rule |-> x.rule, severity |-> x.severity,
                   window |-> WindowOf(c), attempt |-> taking[c].attempt]
<1>1. /\ SystemTypes /\ taking \in [Tasks -> Takings] /\ taking[c] \in Takings /\ TakingSound(c)
      /\ \A d \in Tasks : TakingSound(d) /\ \A a \in alerts : AlertSound(a)
      /\ \A i \in DOMAIN attempts : AttemptSound(i)
      /\ taking[c].step = "record" /\ taking[c].todo \in Seq(Findings)
  BY DEF SystemInv, SystemTypes, RecordAlert, Takings
<1>2. /\ Items(taking[c].todo) = {x} \cup Items(Tail(taking[c].todo))
      /\ Tail(taking[c].todo) \in Seq(Findings) /\ x \in Findings
  <2>1. taking[c].todo # <<>>
    BY <1>1 DEF TakingSound
  <2> QED
    BY <1>0, <1>1, <2>1, ItemsOfTail
<1>3. /\ next \in Takings /\ next.attempt = taking[c].attempt /\ next.step = "alerts"
      /\ next.todo = Tail(taking[c].todo)
  BY <1>1, <1>2 DEF Takings, CaptureSteps
<1>4. /\ taking' = [taking EXCEPT ![c] = next] /\ alerts' = alerts \cup {new}
      /\ UNCHANGED <<hour, forecast, firms, failures, attempts, rows, losses>>
  BY <1>0 DEF RecordAlert, observed
<1> HIDE DEF next
<1>5. PICK w : w = WindowOf(c)
  OBVIOUS
<1>6. /\ w \in DOMAIN rows /\ Items(taking[c].todo) \subseteq Rules(rows[w])
      /\ \A y \in Rules(rows[w]) : y \in Items(taking[c].todo) \/ Alerted(y, w)
      /\ taking[c].attempt \in DOMAIN attempts /\ attempts[taking[c].attempt].by = c
      /\ attempts[taking[c].attempt].status = "succeeded"
      /\ \A a \in alerts : a.rule = x.rule /\ a.window = w => attempts[a.attempt].by # c
  BY <1>0, <1>1, <1>5 DEF TakingSound
<1>7. /\ new.rule = x.rule /\ new.severity = x.severity /\ new.window = w
      /\ new.attempt = taking[c].attempt /\ [rule |-> new.rule, severity |-> new.severity] = x
  BY <1>2, <1>5 DEF Findings
<1>8. new \in Alerts
  <2>1. w \in Windows /\ taking[c].attempt \in Nat
    BY <1>1, <1>5, <1>6, AttemptIds DEF WindowOf, Attempts, Takings
  <2> QED
    BY <1>2, <1>5, <2>1 DEF Alerts, Findings
<1> HIDE DEF new
<1>9. taking'[c] = next /\ \A d \in Tasks : d # c => taking'[d] = taking[d]
  BY <1>1, <1>4
<1>10. SystemTypes'
  BY <1>1, <1>3, <1>4, <1>8 DEF SystemTypes
<1>11. Grows(c)
  BY <1>4, <1>6, <1>7, <1>9 DEF Grows
<1>12. WindowOf(c)' = w
  BY <1>3, <1>4, <1>5, <1>9 DEF WindowOf
<1>13. Alerted(x, w)' /\ \A y : Alerted(y, w) => Alerted(y, w)'
  BY <1>4, <1>7 DEF Alerted
<1>14. TakingSound(c)'
  <2>1. /\ Items(next.todo) \subseteq Rules(rows[w])
        /\ \A y \in Rules(rows[w]) : y \in Items(next.todo) \/ Alerted(y, w)'
    BY <1>2, <1>3, <1>6, <1>13
  <2> QED
    BY <1>3, <1>4, <1>6, <1>9, <1>12, <2>1 DEF TakingSound
<1>15. \A d \in Tasks : TakingSound(d)'
  BY <1>1, <1>11, <1>14, OthersSound
<1>16. \A i \in DOMAIN attempts' : AttemptSound(i)'
  <2>1. Leaves(c)
    BY <1>3, <1>9 DEF Leaves
  <2> QED
    BY <1>1, <1>4, <1>11, <2>1, AttemptKept
<1>17. /\ \A w2 \in Windows : Numbered(w2)'
       /\ \A w2 \in DOMAIN rows' : AttemptsOf(w2)' # {}
  BY <1>4, NumberedKept DEF SystemInv
<1>18. \A a \in alerts' : AlertSound(a)'
  <2> SUFFICES ASSUME NEW a \in alerts' PROVE AlertSound(a)'
    OBVIOUS
  <2>1. CASE a \in alerts
    BY <1>1, <1>11, <2>1, AlertKept
  <2>2. CASE a = new
    <3>1. x \in Rules(rows[w])
      BY <1>2, <1>6
    <3> QED
      BY <1>4, <1>6, <1>7, <2>2, <3>1 DEF AlertSound
  <2> QED
    BY <1>4, <2>1, <2>2
<1>19. RecordedOnce'
  <2> SUFFICES ASSUME NEW a \in alerts', NEW b \in alerts', a # b, a.rule = b.rule, a.window = b.window
               PROVE  attempts[a.attempt].by # attempts[b.attempt].by
    BY <1>4 DEF RecordedOnce
  <2>1. CASE a \in alerts /\ b \in alerts
    BY <2>1 DEF SystemInv, RecordedOnce
  <2>2. CASE a \in alerts /\ b = new
    BY <1>6, <1>7, <2>2
  <2>3. CASE a = new /\ b \in alerts
    BY <1>6, <1>7, <2>3
  <2> QED
    BY <1>4, <2>1, <2>2, <2>3
<1> QED
  BY <1>10, <1>11, <1>15, <1>16, <1>17, <1>18, <1>19 DEF SystemInv

\* A task that keeps nothing satisfies what is required of it.
LEMMA IdleSound ==
  /\ NotTaking \in Takings
  /\ \A c \in Tasks : taking'[c] = NotTaking => TakingSound(c)'
<1>1. {} \in SUBSET Nat /\ Cardinality({}) = 0 /\ MaxHour \in Nat
  BY FS_EmptySet, SystemAssumption
<1>2. NoSample \in Samples
  BY <1>1 DEF NoSample, Samples, Moments
<1>3. NotTaking \in Takings
  BY <1>1, <1>2 DEF NotTaking, Takings, CaptureSteps
<1>4. NotTaking.step = "idle" /\ NotTaking.attempt = 0
  BY DEF NotTaking
<1> QED
  BY <1>3, <1>4 DEF TakingSound

LEMMA DoneStep ==
  ASSUME SystemInv, NEW c \in Tasks, AlertsDone(c) PROVE SystemInv' /\ Grows(c)
<1>1. /\ SystemTypes /\ taking \in [Tasks -> Takings] /\ TakingSound(c)
      /\ taking[c].step = "alerts" /\ taking[c].todo = <<>>
      /\ taking' = [taking EXCEPT ![c] = NotTaking]
      /\ UNCHANGED <<hour, forecast, firms, failures, attempts, rows, alerts, losses>>
  BY DEF SystemInv, SystemTypes, AlertsDone, observed, ledger
<1>2. taking'[c] = NotTaking /\ \A d \in Tasks : d # c => taking'[d] = taking[d]
  BY <1>1
<1>3. SystemTypes'
  BY <1>1, IdleSound DEF SystemTypes
<1>4. Grows(c) /\ TakingSound(c)'
  BY <1>1, <1>2, IdleSound DEF Grows
<1>5. Items(<<>>) = {}
  BY DEF Items
<1>6. Leaves(c)
  BY <1>1, <1>5 DEF TakingSound, Leaves
<1> QED
  BY <1>1, <1>3, <1>4, <1>6, QuietStep

LEMMA CaptureFailsStep ==
  ASSUME SystemInv, NEW c \in Tasks, CaptureFails(c) PROVE SystemInv' /\ Grows(c)
<1>1. /\ SystemTypes /\ taking \in [Tasks -> Takings] /\ TakingSound(c)
      /\ taking[c].step \in {"lineage", "volume", "store"} /\ losses \in Nat
      /\ taking' = [taking EXCEPT ![c] = NotTaking] /\ losses' = losses + 1
      /\ UNCHANGED <<hour, forecast, firms, failures, alerts>>
  BY DEF SystemInv, SystemTypes, CaptureFails, observed
<1>2. taking'[c] = NotTaking /\ \A d \in Tasks : d # c => taking'[d] = taking[d]
  BY <1>1
<1>3. PICK i : i = taking[c].attempt
  OBVIOUS
<1>4. i \in DOMAIN attempts /\ attempts[i] \in Attempts /\ attempts[i].status = "started"
  BY <1>1, <1>3, AttemptIds DEF TakingSound
<1>5. PICK status \in {"failed", "started"} :
        attempts' = [attempts EXCEPT ![i] = [@ EXCEPT !.status = status]]
  BY <1>3 DEF CaptureFails
<1> DEFINE new == [attempts[i] EXCEPT !.status = status]
<1>6. /\ new \in Attempts /\ new.status = status
      /\ new.window = attempts[i].window /\ new.number = attempts[i].number /\ new.by = attempts[i].by
  BY <1>4 DEF Attempts
<1>7. attempts' = [attempts EXCEPT ![i] = new]
  BY <1>5
<1> HIDE DEF new
<1>8. /\ attempts' \in Seq(Attempts) /\ DOMAIN attempts' = DOMAIN attempts /\ attempts'[i] = new
      /\ \A j \in DOMAIN attempts :
           /\ attempts'[j].window = attempts[j].window /\ attempts'[j].number = attempts[j].number
           /\ attempts'[j].by = attempts[j].by
           /\ j # i => attempts'[j] = attempts[j]
  BY <1>1, <1>3, <1>6, <1>7, OwnAttempt
<1>9. rows' = rows \/ (taking[c].step = "store" /\ rows' = Kept(c))
  BY DEF CaptureFails
<1>10. /\ DOMAIN rows' \subseteq Windows /\ \A w \in DOMAIN rows' : rows'[w] \in SnapshotRows
       /\ \A w \in DOMAIN rows : w \in DOMAIN rows' /\ rows'[w] = rows[w]
       /\ \A w \in DOMAIN rows' : w \in DOMAIN rows \/ (w = WindowOf(c) /\ taking[c].attempt \in DOMAIN attempts)
  <2>1. CASE rows' = rows
    BY <1>1, <2>1 DEF SystemTypes
  <2>2. CASE taking[c].step = "store" /\ rows' = Kept(c)
    BY <2>2, KeptRows
  <2> QED
    BY <1>9, <2>1, <2>2
<1>11. losses' \in Nat /\ losses' # 0
  BY <1>1
<1>12. SystemTypes'
  BY <1>1, <1>8, <1>10, <1>11, IdleSound DEF SystemTypes
<1>13. Grows(c) /\ TakingSound(c)' /\ Leaves(c)
  BY <1>1, <1>2, <1>3, <1>4, <1>8, <1>10, <1>11, IdleSound DEF Grows, Leaves
<1>14. \A j \in DOMAIN attempts : attempts'[j].status = "succeeded" => attempts[j].status = "succeeded"
  BY <1>6, <1>8
<1> QED
  BY <1>1, <1>8, <1>10, <1>12, <1>13, <1>14, QuietStep

LEMMA ReportFailsStep ==
  ASSUME SystemInv, NEW c \in Tasks, ReportFails(c) PROVE SystemInv' /\ Grows(c)
<1>1. /\ SystemTypes /\ taking \in [Tasks -> Takings] /\ losses \in Nat /\ losses' = losses + 1
      /\ taking' = [taking EXCEPT ![c] = NotTaking]
      /\ UNCHANGED <<hour, forecast, firms, failures, attempts, rows, alerts>>
  BY DEF SystemInv, SystemTypes, ReportFails, observed, ledger
<1>2. taking'[c] = NotTaking /\ \A d \in Tasks : d # c => taking'[d] = taking[d]
  BY <1>1
<1>3. losses' \in Nat /\ losses' # 0
  BY <1>1
<1>4. SystemTypes'
  BY <1>1, <1>3, IdleSound DEF SystemTypes
<1>5. Grows(c) /\ TakingSound(c)' /\ Leaves(c)
  BY <1>1, <1>2, <1>3, IdleSound DEF Grows, Leaves
<1> QED
  BY <1>1, <1>4, <1>5, QuietStep

\* The tables outlive a restart, the captures of the server do not.
LEMMA RestartStep ==
  ASSUME SystemInv, Restart PROVE SystemInv' /\ UNCHANGED ledger
<1>1. /\ SystemTypes /\ taking \in [Tasks -> Takings] /\ losses \in Nat /\ losses' = losses + 1
      /\ taking' = [c \in Tasks |-> IF c \in Servers THEN NotTaking ELSE taking[c]]
      /\ UNCHANGED <<hour, forecast, firms, failures, attempts, rows, alerts>> /\ UNCHANGED ledger
  BY DEF SystemInv, SystemTypes, Restart, observed, ledger
<1>2. losses' \in Nat /\ losses' # 0
  BY <1>1
<1>3. SystemTypes'
  BY <1>1, <1>2, IdleSound DEF SystemTypes
<1>4. \A c \in Tasks : TakingSound(c)'
  <2> SUFFICES ASSUME NEW c \in Tasks PROVE TakingSound(c)'
    OBVIOUS
  <2>1. CASE c \in Servers
    BY <1>1, <2>1, IdleSound
  <2>2. CASE c \notin Servers
    <3>1. taking'[c] = taking[c] /\ WindowOf(c)' = WindowOf(c)
      BY <1>1, <2>2 DEF WindowOf
    <3>2. TakingSound(c)
      BY DEF SystemInv
    <3> QED
      BY <1>1, <3>1, <3>2 DEF TakingSound, Alerted
  <2> QED
    BY <2>1, <2>2
<1>5. \A i \in DOMAIN attempts' : AttemptSound(i)'
  BY <1>1, <1>2 DEF SystemInv, AttemptSound
<1>6. /\ \A w \in Windows : Numbered(w)'
      /\ \A w \in DOMAIN rows' : AttemptsOf(w)' # {}
  BY <1>1, NumberedKept DEF SystemInv
<1>7. (\A a \in alerts' : AlertSound(a)') /\ RecordedOnce'
  BY <1>1 DEF SystemInv, AlertSound, RecordedOnce
<1> QED
  BY <1>1, <1>3, <1>4, <1>5, <1>6, <1>7 DEF SystemInv

\* The rest of the system leaves what captures have done.
LEMMA TickStep ==
  ASSUME SystemInv, Tick PROVE SystemInv' /\ UNCHANGED ledger
<1>1. /\ SystemTypes /\ hour' = hour + 1 /\ hour < MaxHour /\ hour \in 0..MaxHour /\ MaxHour \in Nat
      /\ UNCHANGED <<taking, attempts, rows, alerts, losses>> /\ UNCHANGED ledger
  BY SystemAssumption DEF SystemInv, SystemTypes, Tick, ledger
<1>2. hour' \in 0..MaxHour /\ hour' \in Nat /\ hour' \in Moments
  BY <1>1 DEF Moments
<1>3. forecast' \in [batch : Nat, at : Moments] /\ firms' \in Moments /\ failures' \in SUBSET Nat
  <2>1. forecast \in [batch : Nat, at : Moments] /\ firms \in Moments /\ failures \in SUBSET Nat
    BY <1>1 DEF SystemTypes
  <2>2. \/ UNCHANGED <<forecast, firms, failures>>
        \/ forecast' = [batch |-> forecast.batch + 1, at |-> hour'] /\ UNCHANGED <<firms, failures>>
        \/ firms' = hour' /\ UNCHANGED <<forecast, failures>>
        \/ failures' = failures \cup {hour'} /\ UNCHANGED <<forecast, firms>>
    BY DEF Tick, observed
  <2>3. CASE UNCHANGED <<forecast, firms, failures>>
    BY <2>1, <2>3
  <2>4. CASE forecast' = [batch |-> forecast.batch + 1, at |-> hour'] /\ UNCHANGED <<firms, failures>>
    <3>1. forecast.batch + 1 \in Nat
      BY <2>1
    <3>2. forecast' \in [batch : Nat, at : Moments]
      BY <1>2, <2>4, <3>1
    <3> QED
      BY <2>1, <2>4, <3>2
  <2>5. CASE firms' = hour' /\ UNCHANGED <<forecast, failures>>
    BY <1>2, <2>1, <2>5
  <2>6. CASE failures' = failures \cup {hour'} /\ UNCHANGED <<forecast, firms>>
    BY <1>2, <2>1, <2>6
  <2> QED
    BY <2>2, <2>3, <2>4, <2>5, <2>6
<1>4. SystemTypes'
  BY <1>1, <1>2, <1>3 DEF SystemTypes
<1>5. \A c \in Tasks : TakingSound(c)'
  BY <1>1 DEF SystemInv, TakingSound, WindowOf, Alerted
<1>6. \A i \in DOMAIN attempts' : AttemptSound(i)'
  BY <1>1 DEF SystemInv, AttemptSound, Alerted
<1>7. /\ \A w \in Windows : Numbered(w)'
      /\ \A w \in DOMAIN rows' : AttemptsOf(w)' # {}
  BY <1>1, NumberedKept DEF SystemInv
<1>8. (\A a \in alerts' : AlertSound(a)') /\ RecordedOnce'
  BY <1>1 DEF SystemInv, AlertSound, RecordedOnce
<1> QED
  BY <1>1, <1>4, <1>5, <1>6, <1>7, <1>8 DEF SystemInv

\* The ids of the attempts of a window are a finite set.
LEMMA AttemptsFinite ==
  ASSUME SystemTypes, NEW w
  PROVE  IsFiniteSet(AttemptsOf(w)) /\ Cardinality(AttemptsOf(w)) \in Nat
<1>1. AttemptsOf(w) \subseteq 1..Len(attempts) /\ Len(attempts) \in Nat
  BY AttemptIds DEF AttemptsOf
<1>2. IsFiniteSet(1..Len(attempts))
  BY <1>1, FS_Interval
<1> QED
  BY <1>1, <1>2, FS_Subset, FS_CardinalityType

\* A new attempt gets the next number of its window.
LEMMA NextNumber ==
  ASSUME SystemTypes, NEW n, n = Len(attempts) + 1, NEW new, attempts' = Append(attempts, new),
         new.number = Cardinality(AttemptsOf(new.window)) + 1, NEW w, Numbered(w)
  PROVE  Numbered(w)' /\ AttemptsOf(w) \subseteq AttemptsOf(w)'
<1>1. /\ Len(attempts) \in Nat /\ DOMAIN attempts = 1..Len(attempts) /\ n \in Nat /\ n \notin DOMAIN attempts
      /\ attempts \in Seq(Attempts)
  BY AttemptIds DEF SystemTypes
<1>2. /\ DOMAIN attempts' = DOMAIN attempts \cup {n} /\ attempts'[n] = new
      /\ \A i \in DOMAIN attempts : attempts'[i] = attempts[i]
  BY <1>1, AppendProperties
<1>5. \A i \in DOMAIN attempts : i \in DOMAIN attempts' /\ (attempts'[i].window = w <=> attempts[i].window = w)
  BY <1>2
<1>3. CASE w # new.window
  <2>1. AttemptsOf(w)' = AttemptsOf(w)
    <3>1. \A i : i \in AttemptsOf(w)' => i \in AttemptsOf(w)
      BY <1>2, <1>3, <1>5 DEF AttemptsOf
    <3>2. \A i : i \in AttemptsOf(w) => i \in AttemptsOf(w)'
      BY <1>5 DEF AttemptsOf
    <3> QED
      BY <3>1, <3>2
  <2>2. \A j \in AttemptsOf(w) : attempts'[j].number = attempts[j].number
    BY <1>2 DEF AttemptsOf
  <2> QED
    BY ZenonT(20), <2>1, <2>2 DEF Numbered
<1>4. CASE w = new.window
  <2>1. AttemptsOf(w)' = AttemptsOf(w) \cup {n} /\ n \notin AttemptsOf(w)
    <3>1. n \in AttemptsOf(w)' /\ n \notin AttemptsOf(w)
      BY <1>1, <1>2, <1>4 DEF AttemptsOf
    <3>2. \A i : i \in AttemptsOf(w)' => i \in AttemptsOf(w) \cup {n}
      BY <1>2, <1>5 DEF AttemptsOf
    <3>3. \A i : i \in AttemptsOf(w) => i \in AttemptsOf(w)'
      BY <1>5 DEF AttemptsOf
    <3> QED
      BY <3>1, <3>2, <3>3
  <2>2. PICK k \in Nat : k = Cardinality(AttemptsOf(w))
    BY AttemptsFinite
  <2>3. Cardinality(AttemptsOf(w) \cup {n}) = k + 1
    BY <2>1, <2>2, AttemptsFinite, FS_AddElement
  <2>4. \A j \in AttemptsOf(w) : attempts'[j].number = attempts[j].number
    BY <1>2 DEF AttemptsOf
  <2>5. {attempts'[j].number : j \in AttemptsOf(w)'} = {attempts[j].number : j \in AttemptsOf(w)} \cup {k + 1}
    <3>1. attempts'[n].number = k + 1
      BY <1>2, <1>4, <2>2
    <3>2. ASSUME NEW j \in AttemptsOf(w)'
          PROVE  attempts'[j].number \in {attempts[i].number : i \in AttemptsOf(w)} \cup {k + 1}
      BY <2>1, <2>4, <3>1, <3>2
    <3>3. ASSUME NEW j \in AttemptsOf(w)
          PROVE  attempts[j].number \in {attempts'[i].number : i \in AttemptsOf(w)'}
      BY <2>1, <2>4, <3>3
    <3>4. k + 1 \in {attempts'[i].number : i \in AttemptsOf(w)'}
      BY <2>1, <3>1
    <3> QED
      BY <3>2, <3>3, <3>4
  <2>6. {attempts[j].number : j \in AttemptsOf(w)} = 1..k
    BY <2>2 DEF Numbered
  <2>7. 1..(k + 1) = 1..k \cup {k + 1}
    OBVIOUS
  <2> QED
    BY <2>1, <2>3, <2>5, <2>6, <2>7 DEF Numbered
<1> QED
  BY <1>3, <1>4

LEMMA WindowTypes ==
  ASSUME SystemTypes, NEW cadence \in {"hourly", "daily", "event"}, NEW at \in 0..hour
  PROVE  /\ Window(cadence, at) \in Windows
         /\ Window(cadence, at)[1] \in {"hourly", "daily"} => Window(cadence, at)[2] <= MaxHour
<1>1. /\ hour \in 0..MaxHour /\ at \in Nat /\ at <= MaxHour /\ Len(attempts) \in Nat
      /\ DayHours \in Nat \ {0}
  BY AttemptIds, SystemAssumption DEF SystemTypes
<1>2. at \div DayHours \in Nat /\ at \div DayHours <= at
  BY <1>1
<1>3. CASE cadence = "hourly"
  BY <1>1, <1>3 DEF Window, Windows
<1>4. CASE cadence = "daily"
  <2>0. PICK k : k = at \div DayHours
    OBVIOUS
  <2>1. k \in Nat /\ k = at \div DayHours /\ k <= MaxHour
    <3>1. k \in Nat /\ k <= at
      BY <1>2, <2>0
    <3>2. MaxHour \in Nat
      BY SystemAssumption
    <3> QED
      BY <1>1, <2>0, <3>1, <3>2
  <2>2. Window(cadence, at) = <<"daily", k>>
    BY <1>4, <2>1 DEF Window
  <2> QED
    BY <2>1, <2>2 DEF Windows
<1>5. CASE cadence = "event"
  BY <1>1, <1>5 DEF Window, Windows
<1> QED
  BY <1>3, <1>4, <1>5

LEMMA BeginStep ==
  ASSUME SystemInv, NEW c \in Tasks, NEW cadence \in {"hourly", "daily", "event"}, NEW at \in 0..hour,
         Begin(c, cadence, at)
  PROVE  SystemInv' /\ Grows(c)
<1>0. PICK n, w : n = Len(attempts) + 1 /\ w = Window(cadence, at)
  OBVIOUS
<1> DEFINE new == [window |-> w, number |-> Cardinality(AttemptsOf(w)) + 1,
                   status |-> "started", by |-> c, row |-> Unknown]
           next == [NotTaking EXCEPT !.step = "lineage", !.at = at, !.attempt = n]
<1>1. /\ SystemTypes /\ taking \in [Tasks -> Takings] /\ taking[c].step = "idle"
      /\ \A d \in Tasks : TakingSound(d) /\ \A a \in alerts : AlertSound(a)
      /\ \A i \in DOMAIN attempts : AttemptSound(i)
      /\ attempts \in Seq(Attempts) /\ hour \in 0..MaxHour
  BY DEF SystemInv, SystemTypes, Begin
<1>2. /\ attempts' = Append(attempts, new) /\ taking' = [taking EXCEPT ![c] = next]
      /\ UNCHANGED <<hour, forecast, firms, failures, rows, alerts, losses>>
  BY <1>0 DEF Begin, observed
<1>3. w \in Windows /\ (w[1] \in {"hourly", "daily"} => w[2] <= MaxHour)
  BY <1>0, <1>1, WindowTypes
<1>4. new \in Attempts /\ new.number = Cardinality(AttemptsOf(new.window)) + 1
  <2>1. Cardinality(AttemptsOf(w)) + 1 \in Nat
    BY <1>1, AttemptsFinite
  <2> QED
    BY <1>3, <2>1 DEF Attempts
<1>5. new.window = w /\ new.status = "started" /\ new.by = c
  OBVIOUS
<1> HIDE DEF new
<1>6. /\ Len(attempts) \in Nat /\ DOMAIN attempts = 1..Len(attempts) /\ n \in Nat /\ n \notin DOMAIN attempts
  BY <1>0, <1>1, AttemptIds
<1>7. next \in Takings /\ next.step = "lineage" /\ next.attempt = n
  <2>1. at \in 0..MaxHour
    BY <1>1, SystemAssumption
  <2> QED
    BY <1>6, <2>1, IdleSound DEF Takings, CaptureSteps
<1> HIDE DEF next
<1>8. /\ attempts' \in Seq(Attempts) /\ DOMAIN attempts' = DOMAIN attempts \cup {n} /\ attempts'[n] = new
      /\ \A i \in DOMAIN attempts : attempts'[i] = attempts[i]
  BY <1>0, <1>1, <1>2, <1>4, <1>6, AppendProperties
<1>9. taking'[c] = next /\ \A d \in Tasks : d # c => taking'[d] = taking[d]
  BY <1>1, <1>2
<1>10. SystemTypes'
  BY <1>1, <1>2, <1>7, <1>8 DEF SystemTypes
<1>11. taking[c].attempt = 0
  BY <1>1 DEF TakingSound
<1>12. Grows(c) /\ Leaves(c)
  BY <1>2, <1>8, <1>9, <1>11 DEF Grows, Leaves
<1>13. TakingSound(c)'
  BY <1>5, <1>7, <1>8, <1>9 DEF TakingSound
<1>14. \A d \in Tasks : TakingSound(d)'
  BY <1>1, <1>12, <1>13, OthersSound
<1>15. \A i \in DOMAIN attempts' : AttemptSound(i)'
  <2>1. \A i \in DOMAIN attempts : AttemptSound(i)'
    BY <1>1, <1>8, <1>12, AttemptKept
  <2>2. AttemptSound(n)'
    BY <1>3, <1>5, <1>7, <1>8, <1>9 DEF AttemptSound
  <2> QED
    BY <1>8, <2>1, <2>2
<1>16. \A w2 \in Windows : Numbered(w2)'
  BY <1>0, <1>1, <1>2, <1>4, NextNumber DEF SystemInv
<1>17. \A w2 \in DOMAIN rows' : AttemptsOf(w2)' # {}
  <2>1. \A w2 \in DOMAIN rows : w2 \in Windows /\ AttemptsOf(w2) # {}
    BY <1>1 DEF SystemInv, SystemTypes
  <2>2. \A w2 \in Windows : AttemptsOf(w2) \subseteq AttemptsOf(w2)'
    BY <1>0, <1>1, <1>2, <1>4, NextNumber DEF SystemInv
  <2> QED
    BY <1>2, <2>1, <2>2
<1>18. \A a \in alerts' : AlertSound(a)'
  BY <1>1, <1>2, <1>12, AlertKept
<1>19. RecordedOnce'
  <2>1. \A a \in alerts : a.attempt \in DOMAIN attempts
    BY <1>1 DEF AlertSound
  <2> QED
    BY <1>2, <1>8, <2>1 DEF SystemInv, RecordedOnce
<1> QED
  BY <1>10, <1>12, <1>14, <1>15, <1>16, <1>17, <1>18, <1>19 DEF SystemInv

LEMMA SystemInvInitially == ASSUME SystemInit PROVE SystemInv
<1>1. MaxHour \in Nat
  BY SystemAssumption
<1>2. /\ hour = 0 /\ forecast = [batch |-> 0, at |-> Unknown] /\ firms = 0 /\ failures = {}
      /\ taking = [c \in Tasks |-> NotTaking] /\ attempts = <<>> /\ rows = <<>> /\ alerts = {} /\ losses = 0
      /\ DOMAIN rows = {} /\ DOMAIN attempts = {}
  BY DEF SystemInit
<1>3. SystemTypes
  BY <1>1, <1>2, IdleSound DEF SystemTypes, Moments
<1>4. \A c \in Tasks : TakingSound(c)
  BY <1>2 DEF TakingSound, NotTaking
<1>5. \A w : AttemptsOf(w) = {}
  BY <1>2 DEF AttemptsOf
<1>6. \A w \in Windows : Numbered(w)
  BY <1>5, FS_EmptySet DEF Numbered
<1> QED
  BY <1>2, <1>3, <1>4, <1>6 DEF SystemInv, RecordedOnce

\* What the ledger shows for ever.
LedgerGrows ==
  /\ \A w \in DOMAIN rows : w \in DOMAIN rows' /\ rows'[w] = rows[w]
  /\ \A i \in DOMAIN attempts :
       attempts[i].status # "started" => attempts'[i] = attempts[i]
  /\ alerts \subseteq alerts'

LEMMA SystemStep == ASSUME SystemInv, SystemNext PROVE SystemInv' /\ LedgerGrows
<1>1. ASSUME NEW c \in Tasks, Grows(c) PROVE LedgerGrows
  BY <1>1 DEF Grows, LedgerGrows
<1>2. ASSUME UNCHANGED ledger PROVE LedgerGrows
  BY <1>2 DEF ledger, LedgerGrows
<1>3. hour \in 0..MaxHour /\ hour \in 0..hour /\ 0 \in 0..hour
  BY SystemAssumption DEF SystemInv, SystemTypes
<1>4. CASE Tick
  BY <1>2, <1>4, TickStep
<1>5. CASE \E c \in Servers : Scheduled(c)
  <2>1. PICK c \in Servers : Scheduled(c)
    BY <1>5
  <2>2. c \in Tasks /\ c \in {"hourly", "daily", "event"} /\ Begin(c, c, hour)
    BY <2>1 DEF Servers, Tasks, Scheduled
  <2> QED
    BY <1>1, <1>3, <2>2, BeginStep
<1>6. CASE Commanded
  <2>1. PICK cadence \in {"hourly", "daily", "event"}, at \in {0, hour} : Begin("command", cadence, at)
    BY <1>6 DEF Commanded
  <2>2. at \in 0..hour
    BY <1>3
  <2>3. PICK c \in Tasks : Begin(c, cadence, at)
    BY <2>1 DEF Tasks
  <2> QED
    BY <1>1, <2>2, <2>3, BeginStep
<1>7. CASE \E c \in Tasks : Step(c) \/ CaptureFails(c) \/ ReportFails(c)
  <2>1. PICK c \in Tasks : Step(c) \/ CaptureFails(c) \/ ReportFails(c)
    BY <1>7
  <2>2. SystemInv' /\ Grows(c)
    BY <2>1, ReadingStep, StoreStep, FinishStep, CheckStep, RecordStep, DoneStep, CaptureFailsStep, ReportFailsStep
       DEF Step
  <2> QED
    BY <1>1, <2>2
<1>8. CASE Restart
  BY <1>2, <1>8, RestartStep
<1> QED
  BY <1>4, <1>5, <1>6, <1>7, <1>8 DEF SystemNext

LEMMA SystemStutter == ASSUME SystemInv, UNCHANGED systemVars PROVE SystemInv' /\ LedgerGrows
<1>1. UNCHANGED <<hour, forecast, firms, failures, taking, attempts, rows, alerts, losses>>
  BY DEF systemVars, observed, ledger
<1>7. SystemTypes'
  BY <1>1 DEF SystemInv, SystemTypes
<1>2. \A c \in Tasks : TakingSound(c)'
  BY <1>1 DEF SystemInv, TakingSound, WindowOf, Alerted
<1>3. \A i \in DOMAIN attempts' : AttemptSound(i)'
  BY <1>1 DEF SystemInv, AttemptSound, Alerted
<1>4. /\ \A w \in Windows : Numbered(w)'
      /\ \A w \in DOMAIN rows' : AttemptsOf(w)' # {}
  BY <1>1, NumberedKept DEF SystemInv
<1>5. (\A a \in alerts' : AlertSound(a)') /\ RecordedOnce'
  BY <1>1 DEF SystemInv, AlertSound, RecordedOnce
<1>6. LedgerGrows
  BY <1>1 DEF LedgerGrows
<1> QED
  BY <1>2, <1>3, <1>4, <1>5, <1>6, <1>7 DEF SystemInv

LEMMA SystemSpecSound == SystemSpec => []SystemInv /\ [][LedgerGrows]_systemVars
<1>1. SystemInit => SystemInv
  BY SystemInvInitially
<1>2. SystemInv /\ [SystemNext]_systemVars => SystemInv' /\ LedgerGrows
  BY SystemStep, SystemStutter
<1> QED
  BY <1>1, <1>2, PTL DEF SystemSpec

-----------------------------------------------------------------------------
\* A window with a snapshot has an attempt, so its hour or its day is bounded.
LEMMA SlotsBounded ==
  ASSUME SystemInv, NEW cadence \in {"hourly", "daily"},
         NEW S, S = {w[2] : w \in {x \in DOMAIN rows : x[1] = cadence}}
  PROVE  S \subseteq 0..MaxHour /\ \A s \in S : <<cadence, s>> \in DOMAIN rows
<1> SUFFICES ASSUME NEW w \in DOMAIN rows, w[1] = cadence
             PROVE  w[2] \in 0..MaxHour /\ w = <<cadence, w[2]>>
  OBVIOUS
<1>1. w \in Windows /\ AttemptsOf(w) # {} /\ MaxHour \in Nat
  BY SystemAssumption DEF SystemInv, SystemTypes
<1>2. PICK i \in DOMAIN attempts : attempts[i].window = w
  BY <1>1 DEF AttemptsOf
<1>3. w[2] <= MaxHour
  BY <1>2 DEF SystemInv, AttemptSound
<1> QED
  BY <1>1, <1>3 DEF Windows

\* Last and First are the bounds of a set of slots.
LEMMA SlotBounds ==
  ASSUME NEW n \in Nat, NEW S, S \subseteq 0..n, S # {}
  PROVE  /\ Last(S) \in S /\ \A x \in S : x <= Last(S)
         /\ First(S) \in S /\ \A x \in S : First(S) <= x
<1>1. S \subseteq Nat
  OBVIOUS
<1>2. \E x \in S : \A y \in S : y <= x
  BY GreatestNumber
<1>3. \E x \in S : \A y \in S : x <= y
  BY <1>1, LeastNumber
<1> QED
  BY <1>2, <1>3 DEF Last, First

LEMMA HoursCounted ==
  ASSUME SystemInv
  PROVE  HourlySummary.missing =
           Cardinality({h \in 0..MaxHour : h \notin Hours /\ \E x, y \in Hours : x < h /\ h < y})
<1> DEFINE gaps == {h \in 0..MaxHour : h \notin Hours /\ \E x, y \in Hours : x < h /\ h < y}
<1>1. Hours \subseteq 0..MaxHour /\ MaxHour \in Nat
  BY SlotsBounded, SystemAssumption DEF Hours
<1>2. HourlySummary.missing = Expected - Cardinality(Hours)
  BY DEF HourlySummary
<1>3. CASE Hours = {}
  <2>1. gaps = {} /\ Cardinality(Hours) = 0 /\ Expected = 0
    BY <1>3, FS_EmptySet DEF Expected
  <2>2. Cardinality(gaps) = 0
    BY <2>1, FS_EmptySet
  <2> QED
    BY <1>2, <2>1, <2>2
<1>4. CASE Hours # {}
  <2>1. PICK l, m : l = First(Hours) /\ m = Last(Hours)
    OBVIOUS
  <2>2. l \in Hours /\ m \in Hours /\ \A x \in Hours : l <= x /\ x <= m
    BY <1>1, <1>4, <2>1, SlotBounds
  <2>3. l \in 0..MaxHour /\ m \in 0..MaxHour /\ l <= m
    BY <1>1, <2>2
  <2>4. IsFiniteSet(l..m) /\ Cardinality(l..m) = m - l + 1
    BY <2>3, FS_Interval
  <2>5. (l..m) \cap Hours = Hours
    <3>1. ASSUME NEW x \in Hours PROVE x \in l..m
      <4>1. x \in 0..MaxHour /\ l <= x /\ x <= m
        BY <1>1, <2>2, <3>1
      <4> QED
        BY <2>3, <4>1
    <3> QED
      BY <3>1
  <2>6. (l..m) \ Hours = gaps
    <3>1. ASSUME NEW h \in (l..m) \ Hours PROVE h \in gaps
      <4>0. h \in l..m /\ h \notin Hours
        BY <3>1
      <4>3. h # l /\ h # m
        BY <2>2, <4>0
      <4>1. h \in 0..MaxHour /\ h # l /\ h # m
        BY <1>1, <2>3, <4>0, <4>3
      <4>2. l < h /\ h < m
        BY <2>3, <3>1, <4>1
      <4> QED
        BY <2>2, <3>1, <4>1, <4>2
    <3>2. ASSUME NEW h \in gaps PROVE h \in (l..m) \ Hours
      <4>1. PICK x \in Hours, y \in Hours : x < h /\ h < y
        BY <3>2
      <4>2. x \in 0..MaxHour /\ y \in 0..MaxHour /\ h \in 0..MaxHour /\ l <= x /\ y <= m
        BY <1>1, <2>2, <3>2
      <4> QED
        BY <2>3, <3>2, <4>1, <4>2
    <3> QED
      BY <3>1, <3>2
  <2>7. Cardinality(gaps) = (m - l + 1) - Cardinality(Hours)
    BY <2>4, <2>5, <2>6, FS_Difference
  <2>8. Expected = m - l + 1
    BY <1>4, <2>1 DEF Expected
  <2> QED
    BY <1>2, <2>7, <2>8
<1> QED
  BY <1>3, <1>4

LEMMA DaysCompared ==
  ASSUME SystemInv, NEW days \in 1..MaxHour, Compared(days) # Unknown
  PROVE  /\ Last(Days) - days \in Days
         /\ Compared(days).forecast = "not_comparable" <=>
              \E d \in {Last(Days), Last(Days) - days} : rows[<<"daily", d>>].sample.forecast = Unknown
<1>1. Days \subseteq 0..MaxHour /\ \A d \in Days : <<"daily", d>> \in DOMAIN rows
  BY SlotsBounded DEF Days
<1>2. MaxHour \in Nat /\ Unknown \notin Nat
  BY SystemAssumption
<1>3. Days # {} /\ \E d \in Days : d + days = Last(Days)
  BY DEF Compared
<1>4. PICK l, e : l = Last(Days) /\ e = Last(Days) - days
  OBVIOUS
<1>5. l \in Days
  BY <1>1, <1>2, <1>3, <1>4, SlotBounds
<1>6. e \in Days
  <2>1. PICK d \in Days : d + days = l
    BY <1>3, <1>4
  <2>2. d \in 0..MaxHour /\ l \in 0..MaxHour
    BY <1>1, <1>5
  <2>3. e = d
    BY <1>4, <2>1, <2>2
  <2> QED
    BY <2>3
<1>7. \A d \in Days : AgeOf(rows[<<"daily", d>>]) = Unknown <=> rows[<<"daily", d>>].sample.forecast = Unknown
  <2> SUFFICES ASSUME NEW d \in Days
               PROVE  AgeOf(rows[<<"daily", d>>]) = Unknown <=> rows[<<"daily", d>>].sample.forecast = Unknown
    OBVIOUS
  <2>1. PICK row : row = rows[<<"daily", d>>]
    OBVIOUS
  <2>2. row \in SnapshotRows
    BY <1>1, <2>1 DEF SystemInv, SystemTypes
  <2>3. row.at \in 0..MaxHour /\ row.sample.forecast \in Nat \cup {Unknown}
    BY <2>2 DEF SnapshotRows, Samples, Moments
  <2>4. row.sample.forecast # Unknown => Age(row.at, row.sample.forecast) \in Nat
    BY <1>2, <2>3 DEF Age
  <2> QED
    BY <1>2, <2>1, <2>4 DEF AgeOf
<1>8. Compared(days) =
        [forecast |-> Change(AgeOf(rows[<<"daily", l>>]), AgeOf(rows[<<"daily", e>>])),
         failed |-> Change(rows[<<"daily", l>>].sample.failed, rows[<<"daily", e>>].sample.failed)]
  BY <1>3, <1>4 DEF Compared
<1>9. \A x, y : Change(x, y) = "not_comparable" <=> x = Unknown \/ y = Unknown
  BY DEF Change
<1>10. Compared(days).forecast = "not_comparable" <=>
         rows[<<"daily", l>>].sample.forecast = Unknown \/ rows[<<"daily", e>>].sample.forecast = Unknown
  BY <1>5, <1>6, <1>7, <1>8, <1>9
<1> QED
  BY <1>4, <1>6, <1>10

LEMMA SystemInvAccounts == ASSUME SystemInv PROVE CapturesAccounted /\ AlertsExact
<1>1. \A i \in DOMAIN attempts : attempts[i] \in Attempts
  BY AttemptIds DEF SystemInv
<1>2. AttemptsAccounted
  <2>1. ASSUME NEW i \in DOMAIN attempts
        PROVE  LET w == attempts[i].window IN
               /\ attempts[i].status = "succeeded" => w \in DOMAIN rows /\ attempts[i].row = rows[w].sample
               /\ {attempts[j].number : j \in AttemptsOf(w)} = 1..Cardinality(AttemptsOf(w))
    <3>1. attempts[i].window \in Windows
      BY <1>1 DEF Attempts
    <3> QED
      BY <3>1 DEF SystemInv, AttemptSound, Numbered
  <2>2. ASSUME losses = 0, NEW w \in DOMAIN rows
        PROVE  \E i \in AttemptsOf(w) : attempts[i].status = "succeeded" \/ \E c \in Tasks : taking[c].attempt = i
    <3>1. PICK i \in AttemptsOf(w) : TRUE
      BY DEF SystemInv
    <3>2. i \in DOMAIN attempts /\ AttemptSound(i)
      BY DEF SystemInv, AttemptsOf
    <3> QED
      BY <2>2, <3>2 DEF AttemptSound
  <2> QED
    BY <2>1, <2>2 DEF AttemptsAccounted
<1>3. ReportsExact
  BY HoursCounted, DaysCompared DEF ReportsExact
<1>4. AlertsExact
  <2>1. \A a \in alerts : [rule |-> a.rule, severity |-> a.severity] \in Rules(rows[a.window])
    BY DEF SystemInv, AlertSound
  <2>2. ASSUME losses = 0, NEW i \in DOMAIN attempts, \A c \in Tasks : taking[c].attempt # i
        PROVE  \A x \in Rules(rows[attempts[i].window]) :
                 \E a \in alerts : a.rule = x.rule /\ a.window = attempts[i].window
    BY <2>2 DEF SystemInv, AttemptSound, Alerted
  <2> QED
    BY <2>1, <2>2 DEF AlertsExact, SystemInv, RecordedOnce
<1> QED
  BY <1>2, <1>3, <1>4 DEF CapturesAccounted

\* The ledger of captures agrees with the rows, and the reports with both.
THEOREM CapturesAccountedHolds == SystemSpec => []CapturesAccounted
<1>1. SystemInv => CapturesAccounted
  BY SystemInvAccounts
<1> QED
  BY <1>1, SystemSpecSound, PTL

\* Alerts are those of the rows that were kept, once for each task.
THEOREM AlertsExactHolds == SystemSpec => []AlertsExact
<1>1. SystemInv => AlertsExact
  BY SystemInvAccounts
<1> QED
  BY <1>1, SystemSpecSound, PTL

\* A later capture changes neither a row nor an attempt that has ended.
THEOREM SnapshotsFinalHolds == SystemSpec => SnapshotsFinal
  BY SystemSpecSound, PTL DEF SnapshotsFinal, LedgerGrows

-----------------------------------------------------------------------------
\* The module that is model-checked runs one part or the other, so whatever
\* holds of each holds of it.
THEOREM SnapshotsSound ==
  SnapshotsSpec =>
    /\ [](CapturesAccounted /\ AlertsExact /\ SnapshotsComplete /\ LinksChain)
    /\ SnapshotsFinal /\ ManifestFinal
<1>1. SnapshotsInit => Init /\ SystemInit
  BY DEF SnapshotsInit
<1>2. [SnapshotsNext]_<<part, vars, systemVars>> => [Next]_vars /\ [SystemNext]_systemVars
  BY DEF SnapshotsNext
<1>3. SnapshotsSpec => Spec /\ SystemSpec
  BY <1>1, <1>2, PTL DEF SnapshotsSpec, Spec, SystemSpec
<1> QED
  BY <1>3, CapturesAccountedHolds, AlertsExactHolds, SnapshotsFinalHolds, SnapshotsCompleteHolds, ManifestFinalHolds,
     LinksChainHolds, PTL

=============================================================================
