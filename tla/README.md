# A TLA+ model of Erytheon

Erytheon is a wildfire risk server written in Rust over PostgreSQL. It imports
satellite detections and official fire records, computes a fire risk forecast
every hour, publishes a daily bulletin from it (the BLUE centre), and later
searches the web for evidence of the fires the bulletin warned of. This
directory holds TLA+ modules of its stateful parts, the TLC runs that check
them on small instances, and TLAPS proofs of what holds on every instance.

All paths below are relative to the repository, `src/` being its root.

## Inventory

One server process runs six tasks started by `scheduler.rs::spawn`. Tasks share
only the database, and each call of `crates/store` is one statement or one
transaction. Command-line tools (`main.rs`) open the same database.

| Component | State | Operations | What makes it correct |
|---|---|---|---|
| BLUE evidence queue (`store/src/blue.rs`, `poll_blue_evidence`) | `blue.evidence_cases`, `evidence_runs`, `forecast_evaluations`; the claim held by a reviewer | claim, start run, complete, fail | one reviewer for a case, no lost or repeated try, the final verdict from the final search, every case closed |
| BLUE daily selection (`store/src/blue.rs`) | cases of a bulletin with rank and reason | ensure proactive, ensure reactive | ranks, quotas and limits under racing tasks |
| Forecast batches (`engine/src/forecast.rs`, `store/src/lib.rs`) | `forecast_batches`, `forecast_fwi`, `risk_scores` | begin, write a partition, retain, abort, read | readers see whole batches, replaced at once |
| Forecast sources (`forecast.rs`, `poll_forecast`, `ecmwf_open.rs`, `open_meteo.rs`) | `source_status` of three weather sources; the files of a download | try in order, cache a field, note, clear | a status is that of the last forecast; a forecast is of the weather it was fetched for |
| FIRMS import (`firms_pipeline.rs`, `store/src/firms.rs`, `ingest/src/firms.rs`) | `ops.import_batches`, `ops.pipeline_runs`, `raw.firms_observations`, `observations`, `source_status` | begin, fetch, persist, finish | every row accounted for, every detection credited once |
| BLUE bulletin (`capture_blue_daily_bulletin`) | `blue.forecast_bulletins`, alerts, archives | capture, fill and publish, fail | one immutable bulletin a day from one whole batch |
| BLUE ground truth (`blue_ground_truth.rs`) | observations, matches, refreshes | refresh, summary | each observation compared once with each bulletin it falls in, a comparison never revised |
| Evidence answers (`engine/src/blue_evidence.rs`, `blue_feux_de_foret.rs`) | one review in progress | look up reports page by page, ask the model, parse, validate | no positive verdict without a grounded source, no sound evidence lost |
| Scientific snapshots (`observability.rs`, `snapshot_pipeline.rs`) | snapshots, attempts, alerts, weekly manifest and values, label links | hourly, daily, weekly and dense capture; link | one row per window, final; what is reported is about that row |
| BDIFF import and quality (`store/src/bdiff.rs`, `quality.rs`, `crates/quality`) | raw, staging and fire tables, assessments, groups, pairs | import, audit | as FIRMS; what audits store agrees although they read it before |
| Dataset builds (`store/src/dataset.rs`, `dataset_pipeline.rs`, `candidate_pipeline.rs`) | versions, builds, rows, links, exclusions | pilot, candidate datasets | no fire vanishes silently, contradictory labels only for cause |
| Static bundles (`store/src/dataset.rs`) | manifests with values, journal of activations | build, register, activate | one active bundle, its values those of its checksum |
| Model candidates (`model_candidate.rs`, `candidate_artifact.rs`) | an artifact file, the registry | package, register | a registered artifact is traceable to rows |
| Model studies (`model_experiments.rs`, `v1_candidate_comparison.rs`, `human_model.rs`, `backtest.rs`) | reports, `human_model_versions` | experiment, compare, train, replay | no leakage between what is fitted and what is scored; a report is of the rows it names |
| Live updates (`api/src/lib.rs`) | a broadcast channel, the box of a connection | send, ask, take, lag | each update once, in order, cut to the box asked for |
| Fire weather index, risk score (`crates/fwi`, `crates/risk`) | none | pure functions | numerical |
| API and pages (`crates/api`) | none | reads | consistency of what is served |

**What is hard here.** Several tasks write one table without locks around their
read and write (selection). A reviewer acts for minutes on a row it read before
(evidence). A forecast is written in hundreds of statements that readers must
not see (batches). Audits, captures, builds and refreshes compute from what
earlier statements read, while imports and publications go on (records,
snapshots, datasets, ground truth). A process may stop between any two calls,
and what it left must be harmless (all). `PROJECT.json` lists each such hazard at its line with
the properties aimed at it.

## Modules

| Module | Kind | Models |
|---|---|---|
| `BlueReview` | abstract | what the evidence workflow promises about a case |
| `BlueEvidence` | detailed | the evidence queue; implements `BlueReview` |
| `BlueEvidenceInv` | invariant | its inductive invariant |
| `BlueEvidenceProofs` | proofs | its theorems |
| `BlueDailySet` | abstract | what the daily evidence set promises |
| `BlueSelection` | detailed | the tasks that fill it; implements `BlueDailySet` |
| `BlueSelectionProofs` | proofs | its theorems |
| `ForecastPublication` | abstract | what readers see of the forecast |
| `ForecastBatches` | detailed | how it is written; implements `ForecastPublication` with one writer |
| `DailyArchives` | detailed | the snapshot and the bulletin of a day, composed with `ForecastBatches`, which it refines |
| `DailyArchivesProofs` | proofs | theorems of both |
| `FirmsImport` | detailed | the import of FIRMS detections |
| `FirmsImportProofs` | proofs | its theorems |
| `FireRecords` | detailed | the import of BDIFF files and the quality audits |
| `ForecastSources` | detailed | the three weather sources of a forecast and their status |
| `GroundTruth` | detailed | the refresh of the ground truth and its summary |
| `EvidenceSearch` | detailed | the lookup of reports and the checks of an answer |
| `LiveUpdates` | detailed | the stream of the risk map |
| `Feeds` | composition | `FireRecords`, `ForecastSources`, `GroundTruth`, `EvidenceSearch`, `LiveUpdates` |
| `FeedsProofs` | proofs | theorems of the five modules |
| `SystemSnapshots` | detailed | hourly, daily and commanded captures, alerts, reports |
| `WeeklySnapshots` | detailed | the weekly snapshot and its label links |
| `ScientificSnapshots` | composition | `SystemSnapshots` and `WeeklySnapshots` |
| `ScientificSnapshotsProofs` | proofs | theorems of both and of their composition |
| `DatasetBuilds` | detailed | concurrent builds of dataset versions |
| `ModelCandidates` | detailed | packaging and registration, extends `DatasetBuilds` |
| `StaticBundles` | detailed | bundles of static features |
| `ModelData` | composition | the three modules above |
| `ScoreMetrics` | algorithms | the measures of models, with reference definitions |
| `ScoreMetricsProofs` | proofs | that the measures agree with them |
| `ModelStudies` | detailed | experiments, comparison, training, replay; extends `ScoreMetrics` |
| `ModelWork` | composition | `ModelData` and `ModelStudies` |
| `ModelWorkProofs` | proofs | theorems of all of these and of their composition |
| `MC...` | instances | constants of the runs, and statements of the documents that do not hold |

A composition of parts that share no modelled state (`Feeds`,
`ScientificSnapshots`, `ModelData`, `ModelWork`) chooses in its initial state
which part runs: interleaving independent parts would multiply the states and
show nothing. Parts that do interact are in one behaviour: archives with
batches and a second writer, audits with imports, packaging with builds,
trainings with imports.

Operators such as `ClaimableBusy` next to `Claimable` are deliberate mistakes:
replacing the operator by its mistaken form must break a property, which shows
that the property says something about the code.

### BlueEvidence

| Action | Code |
|---|---|
| `Claim` | `claim_blue_evidence_case`: one statement under FOR UPDATE SKIP LOCKED |
| `StartRun` | `start_blue_evidence_run`: unique run number in its stage |
| `CompleteRun` (`After24`, `After48`, `Evaluate`) | `complete_blue_evidence_run`: one transaction over run, case and evaluation |
| `FailRun` (`AfterError`, `TriesAllowed`) | `fail_blue_evidence_run` |
| `StartFails`, `PersistFails`, `Restart` | the error branches of `poll_blue_evidence`, and a restart of the process |
| `PassHorizon`, `PassDelay` | time: a horizon with its 3 h margin, the 6 h or 72 h of a retry |

The clock has three values (before +24 h, before +48 h, after), and a retry
date is in the future or in the past: the code compares dates with now and with
nothing else. The three positive verdicts are one value because no branch of
the queue tells them apart. The bulletin's cases exist from the start; a
reactive case is due at once. That a case's first stage has its alert is
assumed (`FirstStages`): the reactive statement starts at the horizon of a
covered match, and a covered match at a horizon is an alert of that horizon
(both compare the same p95 with 0.65). The one-off repairs of migrations 0030
and 0031 are not modelled.

### BlueSelection

The proactive selection is two steps, as in the code: the check and the read
(`Choose`), then the transaction (`InsertSelection`). The reactive statement is
two steps as well, since it reads a snapshot and its inserts see rows committed
later: a rank taken meanwhile violates UNIQUE(bulletin_id, daily_rank) and the
statement fails, while a commune taken meanwhile is skipped. The selection
algorithm (`Ranking`) is given by the place of each commune in each order,
rather than by the loops of `select_blue_evidence_candidates`; its check
(`Diversified`) states independently why a commune may be left out. Commune
numbers stand for names and INSEE codes, and an order of communes is a set of
pairs. The bulletin is taken to remain the
latest one: the tasks look at the latest bulletin only.

### ForecastBatches

A batch is named by its `computed_at`. `WriteFwi` and `WriteScores` are the two
upserts of one horizon of one region; `Retain` and `Abort` are transactions;
`Served` is the subquery of `latest_risk_scores`. The time between reading the
clock and registering the batch is not modelled. `Stop` is a restart, or a
failure of the publication or the removal, which the code does not retry.
`Pin` and `EndCapture` only say that an archive may refer to the batch.

### DailyArchives

Extends `ForecastBatches` and gives its capture in detail. After a publication
the server attempts the dense snapshot (`capture_daily_dense_scientific_snapshot_v2`)
and then, whatever came of it, the bulletin (`capture_blue_daily_bulletin`).
Both are the same protocol, one kind after the other: `Check` (the day has no
row, the batch is usable), `Insert` (the row, as building, referring to the
batch), `Fill` (one transaction, read and publication) or `Fail` (status
failed). Between these calls the forecast command may publish, and delete what
is being read. `CallFails` covers a failed call and a lost reply. The days of a
batch are constants: the snapshot's day is that of the weather, the bulletin's
that of the computation. Missing prerequisites (active model, coverage mask,
static bundle, provenance) are failures of the check. The bulletin accepts 1 %
of unmapped cells, less than any region. Ledger rows of the snapshot
(`ops.pipeline_runs`) are left out. A day whose attempt failed stays without
its archive: no later batch of that day is tried, which `LostForCause` confines
to failed calls, restarts and concurrent publications.

### FirmsImport

A retrieval is a sequence of documents of rows; a row is a detection or is
unreadable, and is named by its document and its number in it. `RowsOf` gives
each row its identity (`source_record_id`), `Earlier` is the order in which rows
are inserted, `RawRows` and `PublicRows` are the two ON CONFLICT clauses, and
`Result` the counters. `Reported` and `Committed` hold one credit for each
observation that an ended batch, or a transaction whose import goes on, counts
as inserted. Two imports that insert the same detections wait for each other or
are aborted by the database as deadlocked, so that a transaction is one step
(`Persist`) or fails (`PersistFails`, which also covers a commit whose reply is
lost).

Unreadable rows are identified by their number in their document
(`ingest/src/firms.rs:225`). Two of them at the same number in two documents of
one retrieval share an identity, and the second is counted as an ignored
duplicate: `RowsAccounted` holds, but `source_record_id` is not the "stable
identity inside one retrieval" that `firms.rs:20` speaks of.

### FireRecords

An import is one transaction over three layers (`Persist`), between the row of
its batch (`BeginImport`) and its end (`FinishImport`). `NewRows` and
`CreatedRows` are its two ON CONFLICT clauses. An audit reads events
(`ReadEvents`), static features (`ReadLayers`) and its rule (`ReadRules`,
`RegisterRules`) by separate statements, and stores everything in one
transaction (`PersistAudit`) that keeps what is there and refuses a group whose
checksum differs. Of an event only its place is kept, of an assessment what it
was computed from: the number of events at the place and the version of the
static layers.

### ForecastSources

Time is in hours. `DirectHours`, `MeteoHours` and `Needed` say which hours a
source brings and a forecast needs, `Candidates` which runs are tried.
`DecodeField` and `RenameField` are the two steps of a cached file.
`AfterSuccess` and `AfterFailure` are the notes of `poll_forecast` and of the
forecast command, written one by one (`WriteNote`), each of which may fail
(`NoteFails`): the server ignores the failure and goes on. `HoursMissing` is
what the code does when the clock has moved on: a direct download that
straddles noon UTC or lasts until the next hour sampled (four to six hours later), or
an Open-Meteo one that straddles an hour, fails for a
missing hour, without trying another source, and all three sources are noted as
failed. `HoursMissedInTime` shows that this is the only way to miss an hour
(the second case was met in proving it: no instance checked before had it). The
forecast command and the server use the same `.xyz.part` files; that they do
not download at the same time is assumed.

### GroundTruth

`UpsertWindows`, `InsertIgnitions`, `ReadArchives`, `ReadObservations` and
`CompareAll` are the five calls of `refresh_blue_ground_truth`; detections,
ignitions and bulletins come between them, in any order. A window keeps the
`occurred_at` of its first insertion, so that which bulletins it is compared
with depends on the order in which detections arrive; `ComparisonsComplete` is
about the time that was kept. The observations read start at the issue of the
first bulletin by schedule.

### EvidenceSearch

`ReadPage`, `Resolve` and `NextPage` are `find_report`, one action a call: the
listing is read by offset while `Appear`, `Withdraw` and `Retract` change it.
A withdrawal shifts the pages to come, and a report may be missed by it, even
when what is withdrawn had itself appeared during the lookup; `ReportsFound`
excepts just that (the proof of it showed the second case).
A lookup that fails, finds nothing, or finds a report that the checks refuse
(dated after the check) leaves the review to the model. `Parsed` and `Validated`
are `parse_response` and `validate_evidence_result`: what is dropped (unreadable
URLs), merged (the first of a URL is kept, whatever its strength), weakened and
rejected. Dates are classes, pages and sites model values, and that a text
names the commune is a Boolean. Two readings of the code are worth knowing:
one bad source rejects an answer with good ones, and "confirmed" without any
source is rejected and tried again, while "probable" without any is
inconclusive and closes the stage. The run is stored by `CompleteRun` or
`FailRun` of `BlueEvidence`. The stage of a claim is assumed to have its alert.

### LiveUpdates

The channel (tokio's) keeps the last updates; `Lag` is what it tells a slow
reader. `TakeRequest` and `TakeUpdate` are the branches of the `select!` of
`stream_socket`.

### SystemSnapshots

A capture is an attempt (`Begin`), two groups of queries (`ReadLineage`,
`ReadVolume`) between which the system changes, the upsert that keeps the row
of the window (`Store`, `Kept`), the end of the attempt (`Finish`) and the
alerts, looked up and inserted by two statements each. `Reported` is the row
that the upsert returns, which another task may have stored. Replays with
`--at` capture a past window with the present state. Metrics that no alert or
report reads are left out. `SnapshotsFinal` says that the first row of a window
stays as it is. The documents say otherwise:
`src/crates/store/src/observability.rs:513-518` ("a same-day re-run recomputes
deterministically and upserts in place") and
`docs/research/phases/PHASE4A5_OPERATIONAL_OBSERVABILITY_REPORT.md:7-8` (an
upsert on the environment, the date and the cadence), while the statement
(`observability.rs:870-871`) conflicts on the window and then sets its start to
itself. The operator `KeptLast` is the upsert of the comment, and TLC finds
`SnapshotsFinal` violated with it; `PROJECT.json` has the disagreement under
`findings`.

### WeeklySnapshots

The capture finds or inserts the manifest (`Look`, `Insert`), then runs its
transaction statement by statement (`Delete`, `Fill`): rows another transaction
has inserted and not committed make it wait, rows committed since it began are
kept. Links are made weeks later; the bounds let them come only after the
captures. A manifest, once published, is never changed (`ManifestFinal`), but its values are deleted and inserted again when a second
owner that found it as failed fills it after the first.

### DatasetBuilds, ModelCandidates, StaticBundles

A build command reads fires by separate queries (`StartCandidate`, `ReadKnown`,
`ReadCandidates`, in the order of its kind), all three over the period 2020-2026
that the splits cover exactly (`InPeriod`), so that the exclusion of a fire out
of the period, which the code has, is never written. Two of them join the
assessments of an audit (`assessed`); the known fires are those imported. The
command then derives the cell-days
(`PositiveDays`, `NegativeDays`, `Exclusions`) and persists a version in the
steps of `build_one_variant`. Only the failure of `PersistRows` is recorded;
any other leaves the version in `building`. Rows accumulate over the builds of
a version, exclusions are replaced.

`crates/dataset/src/exclusions.rs:1-2` says that an exclusion is "never silent",
and the comment on `ml.dataset_exclusions`
(`migrations/0015_dataset_versioning_foundation.sql:229`) repeats it. One branch
is silent: a candidate build passes over a cell-day whose cell identifier is no
cell (`candidate_pipeline.rs:399-401`), with neither a row nor an exclusion for
its fires. `PositiveDays` has the branch, `Unreadable` are such cell-days, and
`NothingSilent`, the part of `DatasetsSound` about this, excepts exactly these
fires of a candidate; without the exception TLC finds it violated. The import
writes identifiers of cells only and an audit stops at another
(`quality_pipeline.rs:263`), so that such a fire is in a base that was changed
by other means after its audit. A pilot reads no cell and links it.

Packaging reads the fingerprint and the
rows of a version by two queries. There is one package: a second registration
finds the same artifact, and that another one under the same name is refused is
not exercised. `StaticBundles` has the two ways to a bundle:
the copy in one transaction that checks the checksum again (`CheckCopy`), and
the registration of a checksum alone, which the activation accepts although
`dataset.rs:553-555` says that the values are verified first; `BundlesFaithful`
confines what follows from it.

### ModelStudies, ScoreMetrics

What a model computes is abstracted to the rows it was fitted on: each measure
of a report is its kind, those rows and the rows it scores, taken from the
places where the code chooses them. Years stand for dates. A report is written
only if the fingerprint is unchanged after the measures (`Report`, `Conclude`).
The human model's training may reach into the test year of a later comparison:
the code does not exclude it, and `NoLeakage` excepts it. Before its first day
a replay has no history; that day takes in the fires before the warm-up too
(`backtest.rs:128-145`), so that the history is stated from then on. What a run
is given is assumed, and each assumption is what the code makes true or what its
queries return: years of rows (`RowsAssumption`), cells without repetition and
a model from before that a training made (`TrainingAssumption`), replayed fires
of known cells in the order of time (`ReplayAssumption`). The versions of the
exclusion-window analysis other than the principal one are read without a
fingerprint. `ScoreMetrics` computes the measures as the code does, with scores
in quarters and exact fractions: AUC by average ranks and by bins, average
precision, precision at k, F1, Brier score, calibration error and the isotonic
fit; each is compared with an independent definition (pairs, orders of ties,
the max-min formula). The code takes scores closer than 1e-12 for ties
(`model_experiments.rs:547`); this tolerance is abstracted to equality, and two
quarters are equal or far beyond it. A sort is given by the place of each row, which is how
many rows the comparison puts before it.

## Runs

| Run | States | Shows |
|---|---|---|
| `evidence_queue` | 106 000 | all properties of the queue with two cases, two reviewers, one fault; refinement of `BlueReview`; every case closed unless a fault occurs |
| `evidence_stranded` | | **violated**: a fault leaves a case in `researching` for ever |
| `evidence_early` | | **violated**: a reactive case has its final verdict before +48 h |
| `daily_set` | 65 000 | ranks, limits, quotas and wholeness over 81 scorings; refinement of `BlueDailySet`; signals reviewed while a slot is free |
| `selection_skipped` | | **violated**: a reactive case that comes first suppresses the proactive selection |
| `forecast_batches` | 98 000 | whole batches served, debris bounded by faults, archives kept, the backfill harmless to forecast horizons; refinement of `ForecastPublication` |
| `forecast_overlap` | | **violated**: two writers at once expose an incomplete batch |
| `daily_archives` | 255 000 | archives are whole, final, keep their batch, and exist for each due day but for a stated cause; refinement of `ForecastBatches` |
| `firms_import` | 26 000 | accounting and crediting of rows by two concurrent imports |
| `feeds` | 1 700 000 | BDIFF accounting and audits; weather sources and their status; ground truth; evidence that is grounded and not lost; live stream |
| `scientific_snapshots` | 1 540 000 | system snapshots final and reported as they are; weekly snapshots complete and final; label links in one chain |
| `model_work` | 625 000 | datasets, candidates, bundles; leakage, provenance, activation; measures against their definitions |

The violated properties state what a document or comment of the repository
says; `PROJECT.json` quotes it under `findings`.

A property that a run checks is often a conjunction of the named parts that
precede it in its module (`TablesSound`, `LedgerKept`, `BatchesHonest`,
`ArchivesSound`, ...): the parts are stated and commented one by one.

**Bounds.** Queue: the retry counters (3 per stage, 6 in all) are those of the
code, not reduced; two cases and two reviewers give every interleaving of two
claims, and cases interact through reviewers only. One fault is enough to
strand a case or drop a claim; more repeat it (the theorems hold for any
number). Selection: quotas are scaled down (3 proactive of 5 ranks, one for
acceleration) so that each limit is reached and exceeded by the candidates.
Forecast: two regions and horizons make a batch partial in both directions,
four batches with three faults leave debris of three kinds before a good one.
Archives: three batches of one day, of which one is not due for the snapshot
and one not for the bulletin, so that an archive is attempted again or found,
with a second process, one restart and one failed call. FIRMS: three imports of
two tasks, at least one detection in common, two faults. Records: two files
that share an event, with a repeated identifier, an unreadable row and a new
event at an audited place; three audits, one of a part and one of other rules.
Sources: two forecasts over three hours around a noon or five hours of an
afternoon up to the next hour sampled, with two partitions and fields, so that
every clock may pass its boundary; one fault. Ground truth:
four detections in three windows of six hours, two bulletins whose periods
overlap, one failed refresh. Evidence: four
reports and two pages of two, so that what appears pushes a report to the other page and
out of reach; two changes and one failed call during the lookup,
2 000 answers of up to two items on pages of each kind of site. Stream: five updates through a channel of two.
Snapshots: two days of two hours, two attempts, one change, one fault; weekly:
two captures, two batches and masks that differ by a cell, two links of two
fires. Data: seven cell-days and six fires: two share a cell-day, one comes late
on a cell-day tried as a negative, one is natural and on the cell-day tried
first, one is on a cell that cannot be read and one out of the period; imports
and audits go on while a command has still to read (`StillToRead`), packaging
begins with at most one build left, which is about to add rows; two
commands, one package, two registrars. Bundles: contents that come back after
another load, four commands of two processes. Studies: rows of five years in two coarse cells,
versions that grow by one row while they are read; two trainings of four fires;
a replay of four days; every sample of four rows on five scores.

**Fairness.** Queue: time passes; the loop ticks for ever and takes due cases
in order of age, so a case that is due again and again is claimed (strong
fairness per case: claims of the other case do not starve it, as ORDER BY takes
the oldest date and tries are bounded); a started call returns because the
HTTP client has a timeout of two minutes. Faults have no fairness. Selection:
weak fairness of each task's own steps. Archives: of the server's capture only.
Forecast and FIRMS: a process that is
not stopped goes on, and the tick of the forecast comes. The other modules
state safety only: their commands are run by hand, or do the same work again
an hour later.
`CHECK_DEADLOCK FALSE` is set because closed cases, a full set and exhausted
bounds are legitimate ends.

## Proofs

`BlueEvidenceProofs` proves, for any sets of cases,
alerts and reviewers and any number of faults, from the assumptions
`CasesAssumption` (each case has an alert, as the table's constraint says) and
`FaultsAssumption`:

- `TypeCorrect`, then `QueueCorrect`: `QueueInv` ties a claimed row to the
  reviewer's memory (`JobInv`), the stage counter to the runs (`LedgerInv`) and
  the status to the stage (`StageInv`). None of `OneReviewer` and `RunLedger`
  is inductive without it: the end of a run must be known to find the row it
  claimed, in the same stage and with the same count.
- `NoFrozenCaseHolds` needs `AttemptInv`: three attempts at most before the
  +48 h stage, so six suffice.
- `ThirdTryHolds`, `FinalSearchHolds`, `FinalVerdictHolds`, `EvaluationHolds`,
  `SearchesWait` and the action property `RetriesWait`, each from `QueueInv`
  and an invariant of its own (`ThirdTryInv`, `VerdictInv`, `WaitInv`,
  `DelayInv`). They share `CaseMoves`, which says that a step leaves each case
  at rest, takes it, answers it or fails it.
- `LedgerHolds`, `VerdictsHold` and `WaitsHold` collect them into the properties
  of the run; `InvariantHolds` is the conjunction `IInv` of all the invariants.
- `Implements`: `Spec => ReviewSpec`, the refinement, step by step.

`BlueSelectionProofs`, for any communes, scores, quotas and callers, from
`CommunesAssumption`, `LimitsAssumption` and `QuotasAssumption` (the quotas 6, 6
and 4 fit the proactive limit 16, `store/src/blue.rs:14`). `Places` shows that the places in
a total order are 1 to the size of the set, by an injection of a finite set into
an interval of its size; `RankingNumbered` puts the four groups of the ranking
behind each other, and `SelectionNumbered` cuts it at the limit. The core is `Inserts`: rows computed when the table ended at
rank f, inserted when it ends at h, are refused or follow the last rank. The
rows of ranks f + 1 to h must be of the very communes that entered since (as
many of them, and none may be new), so that what enters is what comes after h.
It explains why two selections that race, or a reactive case that slips in
between, leave no gap: `SelectionInv` keeps for the statement in progress the f
it has read. `RanksHold` and the refinement `DailySetImplemented` follow.
`SelectionSoundHolds` needs why a commune c is left out. By `TopFull`, a set
sorted and cut at n that leaves c out has n elements, all before c: this gives
the national quota and, among the others, that of the fastest growth. For the
departments, `FirstOne` gives a leader of the department of c: it is selected, or
the territories are full, ahead of it and so of c, and of distinct departments
(`TerritoriesFull`).

`DailyArchivesProofs`, first for the batches, for any regions, horizons and faults.
`SharedInv`, with any number of writers, gives `ReferencesHold`: a batch that is
served or referred to is registered. All else needs one writer, and the theorems
say so (`OneWriter => ...`), since with two the code does expose a part of a
batch (`forecast_overlap`). `ForecastInv` then ties the rows of the batch in
progress to the part that is being written, and what older batches left to
faults: `TablesSoundHolds`, and the refinement `PublicationHolds`.

Then for the archives, with any number of processes that publish and capture,
from `DaysAssumption`. `ArchivesRefineBatches` maps each call of a capture to a
step of `ForecastBatches`. `ArchivesInv` says whose an entry is (`OwnerInv`),
that its batch is referred to from the insertion on (`PinnedInv`), and why a
capture may have failed (`CauseInv`): `ArchivesSoundHolds`. `PublishedFinalHolds`
follows from the ownership: only its process changes an entry, and never after
it is published.

`FirmsImportProofs`, for any retrievals, importers and faults, from
`RowsAssumption`. `ImportInv` says that a task at work has a running batch of
its own, that nothing of a batch is stored before its transaction, and that a
task knows at its end what the batch has: `BatchesHonestHolds`. The credits of
all batches are written as a set with one element for each observation that a
batch or a committed import counts, so that `CreditedOnceHolds` compares finite
sets instead of adding up counters: a transaction makes as many observations
public as it makes credits (`ObservationsCounted`: the first rows of distinct
identities have distinct keys), an end moves them to the batch (`CommittedLost`),
and only a fault drops them.

`FeedsProofs` has an inductive invariant for each part of `Feeds`, since a
behaviour of `Feeds` is one of each part (`EachPart`).

- The weather, for any hours, partitions, fields and faults, from
  `SourcesAssumption`. `SourcesInv` says that the sources that failed are those
  before the one that is tried (`TriedInv`), that a direct download has read the
  first fields of one run, whole (`FieldsInv`), and what the notes still to be
  written will set right (`LastNoted`): `SourcesTruthfulHolds`. For
  `AcquisitionSoundHolds`, lemmas on hours (`DirectInTime`, `MeteoInTime`,
  `RunHasSteps`) show that the hours fetched are those needed unless the clock
  passed a noon, an hour or the next hour sampled meanwhile.
- The stream, for any partitions, boxes, requests and capacity, from
  `CapacityAssumption`. The box of a connection is that of its last readable
  request (`BoxInv`), every delivery is before the next one and of the box of
  its time (`OrderInv`), and each update since the opening is delivered, counted
  as skipped or still to come (`CountInv`): `StreamFaithfulHolds`.
- The records, for any files, audits and faults, from `FilesAssumption` and
  `RecordsAssumption`. `ImportsInv` counts the rows of a batch from the state
  in which it is stored. The audits read events at different times and store
  groups that all must agree: `ChainInv` says that the sets of events
  that the audits have read are nested, each part of what is stored now, and
  that a group has the size that one of these sets gives it.
  `RecordsSoundHolds` and the action property `RecordsFinalHolds` follow.
- The ground truth, for any detections, ignitions and bulletins, from
  `BulletinsAssumption` (of two bulletins one was issued before the other was
  scheduled; a bulletin is issued after it was scheduled).
  Observations only gain members and later ends (`ObservedGrows`), each
  detection that a refresh began with is in one (`Covered`), and what a refresh
  compared stays compared (`ComparedInv`, `MatchesInv`):
  `ComparisonsCompleteHolds`.
- The search, for any listing, pages and answers, from `SearchAssumption`. That
  an answer is grounded and not lost are facts about the checks
  (`ValidatedGrounded`, `AnswerChecked`); that no report is missed needs
  `LookupAhead`: a report awaited is on the page read or on a later one until
  something is withdrawn. `EvidenceSoundHolds`.

`ScientificSnapshotsProofs`, for any cells, masks, batches, captures, fires,
tasks, thresholds and faults, from `WeeksAssumption` (finitely many cells, and
finitely many fires with numbers for ids; the constant `None` is no manifest,
number or set of cells) and `SystemAssumption` (`Unknown` is no moment).
What is hard in the weekly snapshot is that a second
capture may fill a snapshot that a first one left as failed, and publish it,
while the reason recorded for the missing cells is the first one's. `MissInv`
shows that this cannot disagree: once cells are missed they stay missed, since
the batch of the manifest may be replaced and never comes back. `OwnerInv` says
that a manifest under construction belongs to the capture that inserted it.
`SnapshotsCompleteHolds` and `ManifestFinalHolds` follow. `LinksChainHolds`
needs to know what a link command has still to do (`LinkerInv`), that each fire
linked has exactly one current link (`OneCurrent`) and that `supersedes` is
injective, and no current link is superseded (`Superseded`). For
`CapturesAccountedHolds`, `AlertsExactHolds` and `SnapshotsFinalHolds`,
`SystemInv` ties a task to its attempt (`TakingSound`): what it has still to
report are alerts of the row that was kept, which need not be the one it
measured, and what is neither to do nor recorded does not exist. The numbers
of the attempts of a window are 1 to their count (`Numbered`), and two
equal alerts of one window are of two tasks (`RecordedOnce`): the lookup and the
insertion of an alert are two statements. `SnapshotsSound` puts the parts
together.

`ModelWorkProofs`, first for the preparation of data, for any fires, days, versions, commands, processes and
faults, from `DatasetsAssumption`, `PrincipalAssumption` and
`BundlesAssumption`. `DatasetInv` follows a build between its statements:
every fire that it has read is linked, excluded, or lost only to another build
of the version that is replacing the exclusions now or had not read that fire
(`Accounted`), or is of a cell-day that a candidate cannot read. This is the clause that took strengthening: exclusions are
deleted and inserted again, so that it can only be kept from the moment a build
has put in its own (`BuildAccounted`). `OwnBuilds` says that no
two commands work on one build, `VersionEnded` that a version is left in
`building` by faults or builds in progress only. `DatasetsSoundHolds` follows,
and `CandidatesTraceableHolds`, for which `CandidateInv` says that rows of a
version only grow, so that what a package was fitted on contains what its
fingerprint was taken from, and differs from it only if several builds wrote the
version. `BundleInv` (a row's values are its own or were never written, and
the journal names the active bundle unless one was registered alone) gives
`BundlesFaithfulHolds` and the action property `BundlesFrozenHolds`;
`ModelDataSound` puts the parts together.

Then for the studies, for any rows, versions, intervals, fires, cells and
trainings, from the three assumptions above. `StudyInv` has one part for each
kind of command. `DataInv`: a version is built at most once while the commands
run, so that its rows are those of the fingerprint or those of after the build;
rows read between were read after a build only if the fingerprint was overtaken
(`RowsReadOf`), which is why checking the fingerprint again is enough for a
report to be of one state of the version although it is read by several
queries. Each set of measures is free of leaks by the years of its splits
(`SplitYears`), spatial folds by the remainder that separates them. `HumanInv`:
the fires a training has read lie in its intervals and leave each control cell
a free day once it has passed its searches; then `ControlsRight` says that the
first free day of each cell exists, that controls are as many as the cells
drawn and meet no fire that was read. The active model is the last because an
activation that did not see the one before inserts nothing. `ReplayInv` ties the
cursor to the days: after the first day the fires before it are exactly those
of earlier days (`CursorRight`), every replayed fire has a rank (`RankFound`: an
order of the cells is a bijection), and hits and misses share the fires of a day
(`DayCounted`). `NoLeakageHolds` and `StudiesSoundHolds` follow, and `MetricsRightHolds`
from the module below; `ModelWorkSound` puts all parts together.

`ScoreMetricsProofs`, for any sequence of scored rows (`Scored`), from
`ScoreAssumption`, shows what TLC checks on the samples of four rows.

- Sums. `SumUnfolds` and `RecursionExists` give the recursion by which the
  library's fold adds up a set, `SumRemove` that any element may be taken
  first; from it come the laws used (`SumPlus`, `SumMonotone`, `SumUnion`,
  `SumFibers`: a sum over all rows is that over the bins of the sums in each).
- `CalibrationRightHolds`: the bins part the rows (`SumFibers`), the gap of a
  sum is at most the sum of the gaps (`SumAbs`), and the square of a sum of n
  terms is at most n times the sum of the squares (`SumSquares`).
- `AucRightHolds`: `RankOfWins` writes the rank of a row by the rows below it
  and those tied with it, `PairCount` counts pairs by their first row, and the
  pairs within the positive rows cancel with p (p + 1). `BinError` bounds what a
  bin adds or takes.
- `RankingRightHolds`: `SortedInOrder` shows that counting the rows before each
  row does put them in order, each once. The place of the r-th positive row is
  earlier or the same in an order that has more of them in every prefix
  (`FoundSooner`, `MorePrecise`); an order with the positive ones first among
  tied rows has (`MorePreciseOrder`). `TopIsTop` and `F1OfCounts` are the rest.
- `IsotonicRightHolds`: `PoolSpans` shows that merging the last two blocks while
  their means fall ends with means that rise (`Rising`), and keeps that each
  block covers an interval of rows and that no prefix of a block is below its
  mean (`Spans`; `MergePrefix` is why a merger keeps it). `FitSpans` carries
  this over the rows. So scores never fall (`CalibratedRise`), blocks add up to
  the positive rows (`PositivesKept`, a telescoping sum), and, from the block of
  a row outwards, no mean that begins with the block is below its own and none
  that ends with it is above (`ProfileAfter`, `ProfileBefore`), which is the
  max-min formula (`MaxMin`).

The prover cannot instantiate the library's induction theorems. Where induction
is needed it is stated over a set instead of an operator: `LeastNumber` takes a
least element from the well-foundedness of the order on numbers, `Induction` and
`SubsetInduction` follow from it, and a function defined by recursion is shown
to exist level by level (`RecursionExists`, `PoolExists`, `FitExists`). Finite
sets are compared by bijections.

Only model-checked: liveness (`EventuallyClosed`, `SignalsReviewed`,
`PublishedUnlessFault`, `DayCovered`, `ImportsEnd`), which is out of the
prover's reach. Every other property of a passing run is stated by a theorem.

## Plan

The modules were written from the core outwards: the evidence queue, the
selection, the forecast and its archives, the imports; then what surrounds them
(sources, ground truth, records, snapshots, datasets, models, stream, evidence
search). Every property of a run but the liveness ones is proved. What is left:

- *Model next*: the summary of the reviews as operators on the state of
  `BlueEvidence`; the state of the weather index carried from day to day.

## Not modelled

- Floating-point formulas: fire weather index, risk, interpolation, the fit of
  the models. TLC has no such numbers, and they keep no state.
- The performance summary of the reviews and the read-only queries of the API:
  aggregations of state modelled elsewhere that nothing depends on.
- Weather archives, static layers, calendars and communes: data prepared once
  and stored by upserts that nothing races with; decoding of source formats.
- Wording and layout of pages, confidences of verdicts, the text comparisons
  behind "names the commune" (`blue_evidence.rs:513`: whole words, so that a
  longer name that contains the commune's is accepted).
- Deployment, backup and rollback scripts: they are not part of the program.
- The weather state carried from one day to the next (`fwi_states`), which an
  aborted batch does not restore, and the broadcast of a region's nowcast before
  the publication: known gaps of `ForecastBatches`.
