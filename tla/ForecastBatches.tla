-------------------------- MODULE ForecastBatches --------------------------
(***************************************************************************)
(* The operational forecast: a writer registers a batch, writes it region  *)
(* by region and horizon by horizon in statements of their own, and then   *)
(* publishes it and deletes every other batch in one transaction.  Readers *)
(* take, for a horizon, the rows of the latest batch that is not           *)
(* registered as running.                                                  *)
(*                                                                         *)
(* A batch is named by its computed_at, the time of its registration.  The *)
(* writers are the processes that may compute a forecast: the scheduler of *)
(* the server and the forecast command.  The backfill command writes its   *)
(* nowcast one region at a time, without registering a batch.              *)
(*                                                                         *)
(* An operator defined just before another, with a longer form of its name *)
(* (RetainHidden, Retain), is that operator with a mistake in it; nothing  *)
(* uses it but the check that the properties notice the mistake.           *)
(***************************************************************************)
EXTENDS Naturals, FiniteSets

CONSTANTS
  Regions,      \* number of partitions of the territory
  Horizons,     \* number of horizons; 1 is the nowcast
  Writers,      \* processes that compute forecasts
  Archivers,    \* those of them that archive what they publish
  Backfill,     \* whether the backfill command may be run
  MaxBatches,   \* bound on the batches ever computed
  MaxFaults     \* bound on lost calls and restarts

ASSUME ShapeAssumption == Regions \in Nat \ {0} /\ Horizons \in Nat \ {0}
ASSUME BoundsAssumption ==
  MaxBatches \in Nat /\ MaxFaults \in Nat /\ Backfill \in BOOLEAN /\ Archivers \subseteq Writers

VARIABLES
  clock,    \* computed_at of the latest batch
  batches,  \* forecast_batches: absent, running or completed
  fwi,      \* forecast_fwi rows, by batch, region and horizon
  scores,   \* risk_scores rows, by batch, region and horizon
  writer,   \* what each writer does, and to which batch
  pinned,   \* batches that a snapshot or a bulletin references
  refill,   \* the next region of the backfill command, 0 if it is not run
  faults    \* faults so far

vars == <<clock, batches, fwi, scores, writer, pinned, refill, faults>>

Times == 1..MaxBatches
Parts == Times \X (1..Regions) \X (1..Horizons)
Job == [step : {"idle", "fwi", "scores", "publish", "capture", "abort"},
        batch : 0..MaxBatches, region : 1..Regions, horizon : 1..Horizons]
Idle == [step |-> "idle", batch |-> 0, region |-> 1, horizon |-> 1]

TypeOK ==
  /\ clock \in 0..MaxBatches
  /\ batches \in [Times -> {"absent", "running", "completed"}]
  /\ fwi \subseteq Parts /\ scores \subseteq Parts
  /\ writer \in [Writers -> Job]
  /\ pinned \subseteq Times
  /\ refill \in 0..(Regions + 1)
  /\ faults \in 0..MaxFaults

Init ==
  /\ clock = 0
  /\ batches = [b \in Times |-> "absent"]
  /\ fwi = {} /\ scores = {} /\ pinned = {}
  /\ writer = [w \in Writers |-> Idle]
  /\ refill \in IF Backfill THEN {0, 1} ELSE {0}
  /\ faults = 0

-----------------------------------------------------------------------------
Goto(w, step) == writer' = [writer EXCEPT ![w].step = step]

\* The weather was fetched; the batch is registered, hidden from the readers.
\* (A fetch that fails on every source leaves the database as it is.)
Begin(w) ==
  /\ writer[w].step = "idle"
  /\ clock < MaxBatches
  /\ clock' = clock + 1
  /\ batches' = [batches EXCEPT ![clock + 1] = "running"]
  /\ writer' = [writer EXCEPT ![w] = [Idle EXCEPT !.step = "fwi", !.batch = clock + 1]]
  /\ UNCHANGED <<fwi, scores, pinned, refill, faults>>

PartOf(w) == <<writer[w].batch, writer[w].region, writer[w].horizon>>

WriteFwi(w) ==
  /\ writer[w].step = "fwi"
  /\ fwi' = fwi \cup {PartOf(w)}
  /\ Goto(w, "scores")
  /\ UNCHANGED <<clock, batches, scores, pinned, refill, faults>>

AfterRegionEarly(j) ==
  IF j.horizon < Horizons THEN [j EXCEPT !.step = "fwi", !.horizon = @ + 1]
  ELSE [j EXCEPT !.step = "publish"]

\* The next horizon, the next region, or the publication.
AfterPart(j) ==
  IF j.horizon < Horizons THEN [j EXCEPT !.step = "fwi", !.horizon = @ + 1]
  ELSE IF j.region < Regions
  THEN [j EXCEPT !.step = "fwi", !.region = @ + 1, !.horizon = 1]
  ELSE [j EXCEPT !.step = "publish"]

WriteScores(w) ==
  /\ writer[w].step = "scores"
  /\ scores' = scores \cup {PartOf(w)}
  /\ writer' = [writer EXCEPT ![w] = AfterPart(@)]
  /\ UNCHANGED <<clock, batches, fwi, pinned, refill, faults>>

Of(set, b) == {p \in set : p[1] = b}

\* The batch rows a publication of b removes: all others but the referenced.
Superseded(b) == Times \ ({b} \cup pinned)

RetainHidden(b) ==
  /\ batches' = [c \in Times |-> IF c \in Superseded(b) THEN "absent" ELSE batches[c]]
  /\ fwi' = Of(fwi, b)
  /\ scores' = Of(scores, b)

\* The transaction that publishes a batch: UPDATE ... SET completed_at, which
\* finds no row if another publication deleted it, then the deletions.
Retain(b) ==
  /\ batches' = [c \in Times |->
       IF c \in Superseded(b) THEN "absent"
       ELSE IF c = b /\ batches[c] = "running" THEN "completed" ELSE batches[c]]
  /\ fwi' = Of(fwi, b)
  /\ scores' = Of(scores, b)

Publish(w) ==
  /\ writer[w].step = "publish"
  /\ Retain(writer[w].batch)
  /\ Goto(w, "capture")
  /\ UNCHANGED <<clock, pinned, refill, faults>>

\* The scheduler archives what it published: a snapshot and a bulletin of the
\* day that are not there yet refer to the batch, if its row still is
\* (DailyArchives has the details).
Refers(w) ==
  /\ w \in Archivers /\ batches[writer[w].batch] # "absent"
  /\ pinned' = pinned \cup {writer[w].batch}

Pin(w) ==
  /\ writer[w].step = "capture"
  /\ Refers(w)
  /\ UNCHANGED <<clock, batches, fwi, scores, writer, refill, faults>>

EndCapture(w) ==
  /\ writer[w].step = "capture"
  /\ Refers(w) \/ UNCHANGED pinned
  /\ writer' = [writer EXCEPT ![w] = Idle]
  /\ UNCHANGED <<clock, batches, fwi, scores, refill, faults>>

AbortLeavesScores(b) ==
  /\ batches' = [batches EXCEPT ![b] = "absent"]
  /\ fwi' = fwi \ Of(fwi, b)
  /\ scores' = scores

\* The transaction that deletes every row of a failed batch.
Abort(b) ==
  /\ batches' = [batches EXCEPT ![b] = "absent"]
  /\ fwi' = fwi \ Of(fwi, b)
  /\ scores' = scores \ Of(scores, b)

AbortBatch(w) ==
  /\ writer[w].step = "abort"
  /\ Abort(writer[w].batch)
  /\ writer' = [writer EXCEPT ![w] = Idle]
  /\ UNCHANGED <<clock, pinned, refill, faults>>

\* The backfill command scores the latest stored FWI of one region after the
\* other, each with a computed_at of its own.
BackfillRegion ==
  /\ refill \in 1..Regions
  /\ clock < MaxBatches
  /\ clock' = clock + 1
  /\ scores' = scores \cup {<<clock + 1, refill, 1>>}
  /\ refill' = refill + 1
  /\ UNCHANGED <<batches, fwi, writer, pinned, faults>>

\* A region cannot be computed or written: the batch is to be removed.
PartitionFails(w) ==
  /\ writer[w].step \in {"fwi", "scores"}
  /\ Goto(w, "abort")
  /\ UNCHANGED <<clock, batches, fwi, scores, pinned, refill, faults>>

\* The publication or the removal fails, or the process stops at any point:
\* what it wrote stays.
Stop(w) ==
  /\ faults < MaxFaults
  /\ faults' = faults + 1
  /\ writer[w].step # "idle"
  /\ writer' = [writer EXCEPT ![w] = Idle]
  /\ UNCHANGED <<clock, batches, fwi, scores, pinned, refill>>

Step(w) ==
  \/ WriteFwi(w) \/ WriteScores(w) \/ Publish(w) \/ EndCapture(w) \/ AbortBatch(w)

Next ==
  \/ \E w \in Writers :
       \/ Begin(w)
       \/ WriteFwi(w)
       \/ WriteScores(w)
       \/ Publish(w)
       \/ Pin(w)
       \/ EndCapture(w)
       \/ AbortBatch(w)
       \/ PartitionFails(w)
       \/ Stop(w)
  \/ BackfillRegion

Spec == Init /\ [][Next]_vars

\* A process that runs goes on; the scheduler begins a forecast at every tick.
FairSpec == Spec /\ \A w \in Writers : WF_vars(Step(w)) /\ WF_vars(Begin(w))

-----------------------------------------------------------------------------
\* The batch served at a horizon: the latest that is not running, 0 if none.
Served(h) ==
  LET visible == {b \in Times : /\ \E r \in 1..Regions : <<b, r, h>> \in scores
                                /\ batches[b] # "running"}
  IN IF visible = {} THEN 0 ELSE CHOOSE b \in visible : \A c \in visible : c <= b

\* The batch that readers see at a horizon covers every region, and the details
\* page of a cell finds the forecast FWI behind its score: no crash, failed
\* region, failed publication or removal ever exposes a part of a batch.  The
\* backfill command may expose a part of a nowcast, never of a forecast.
ServedWhole ==
  \A h \in 1..Horizons : Served(h) # 0 /\ (h = 1 => refill = 0) =>
    \A r \in 1..Regions : <<Served(h), r, h>> \in scores \cap fwi

\* Only faults leave rows of batches that are neither served nor being
\* written; a failed region is cleaned up.
NoDebris ==
  LET owned == {writer[w].batch : w \in Writers}
      stored == {p[1] : p \in fwi \cup scores}
  IN refill = 0 => Cardinality(stored \ (owned \cup {Served(1)})) <= faults

\* The publication never deletes a batch that an archive refers to: the
\* foreign key would refuse that, and with it every later publication.
ReferencesKept == \A b \in pinned : batches[b] = "completed"

\* What the tables hold is whole batches that are served or referred to, and
\* otherwise only what a writer is still to finish or to remove
\* (retain_forecast_batch, delete_forecast_batch).
TablesSound == TypeOK /\ ServedWhole /\ NoDebris /\ ReferencesKept

\* The served forecast is replaced as a whole, at one instant and by a later
\* one, at every horizon together (ForecastPublication); the backfill command,
\* which replaces the nowcast alone, is left out.
Publication == INSTANCE ForecastPublication WITH
  Horizons <- 1..Horizons,
  served <- [h \in 1..Horizons |-> IF refill = 0 THEN Served(h) ELSE 0]

PublicationSpec == Publication!Spec

\* A forecast that was begun is served or removed in the end unless a fault
\* occurs, the leftovers of earlier faults notwithstanding.
PublishedUnlessFault ==
  \A w \in Writers, b \in Times, n \in 0..MaxFaults :
    (writer[w].batch = b /\ faults = n)
      ~> \/ Served(1) >= b
         \/ batches[b] = "absent" /\ Of(fwi \cup scores, b) = {}
         \/ faults > n
=============================================================================
