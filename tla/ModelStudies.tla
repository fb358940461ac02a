---------------------------- MODULE ModelStudies ----------------------------
(***************************************************************************)
(* The commands that train, compare and test models, beside the builds and *)
(* imports that change what they read:                                     *)
(*   experiments on three versions of the dataset, one after the other;    *)
(*   the comparison of the candidate with the active human model;          *)
(*   trainings of the human model, which activate it;                      *)
(*   the replay of past days (backtest);                                   *)
(*   the scoring of rows, whose measures are those of ScoreMetrics.        *)
(* What a model computes is abstracted to the rows it was fitted on.       *)
(***************************************************************************)
EXTENDS ScoreMetrics

CONSTANTS
  Missing,         \* no model, no interval
  \* Datasets
  YearOf(_),       \* the year of a row: 1..3 train, 4 calibration, 5 test
  ParentOf(_),     \* the coarse cell of a row
  Comparable,      \* the rows with all the features of the human model
  StudyVersions,   \* the datasets of the experiments, in order, the principal one first
  OtherVersion,    \* the further dataset of the comparison
  Built,           \* the rows of a dataset before and after the builds
  MinFit,          \* fewest rows a boosted model is fitted on to be selected
  \* Human model
  Trainers,        \* processes that run the training command
  Intervals,       \* the intervals a command may be given
  PastFires,       \* fires: [cell, day]
  Trained,         \* a version of the model trained before the studies
  Cells,           \* burnable cells in the order of the sample
  FirstDay(_, _),  \* the day a control cell draws first in an interval
  Controls,        \* controls for a fire
  MaxModels,       \* bound on the trainings
  \* Replay
  Past,            \* fires in the order of time: [cell, day]
  Period,          \* [warm, from, to]
  Sample           \* bound on the rows scored

VARIABLES
  topic,           \* which commands a behaviour is of
  table,           \* the rows of each dataset version
  study,           \* the experiments command
  comparison,      \* the comparison command
  reports,         \* the reports written
  humanFires,      \* ignition_history, fires of human cause
  trainer,         \* each training command
  models,          \* human_model_versions
  replay,          \* the backtest command
  scored           \* rows scored so far

data == <<table, study, comparison, reports>>
human == <<humanFires, trainer, models>>
studies == <<topic, data, human, replay, scored>>

MainVersion == Head(StudyVersions)

-----------------------------------------------------------------------------
(* Provenance of a measure: the rows its model was fitted on and the rows  *)
(* it scores.                                                              *)

RowsOfSplit(rows, split) ==
  {r \in rows : CASE YearOf(r) \in 1..3 -> split = "train"
                  [] YearOf(r) = 4 -> split = "calibration"
                  [] OTHER -> split = "test"}

Measure(kind, fit, rows) == [kind |-> kind, fit |-> fit, scored |-> rows]

BeforeAndIn(rows, year) == {r \in rows : YearOf(r) <= year}
Before(rows, year) == {r \in rows : YearOf(r) < year}
In(rows, year) == {r \in rows : YearOf(r) = year}

\* The years of the rows, of which the last two are for calibration and test.
ASSUME RowsAssumption ==
  /\ StudyVersions \in Seq(DOMAIN Built) /\ StudyVersions # <<>> /\ OtherVersion \in DOMAIN Built
  /\ \A v \in DOMAIN Built : \A r \in Built[v].before \cup Built[v].after : YearOf(r) \in 1..5

\* Hyperparameters are selected by years of the training rows, each scored
\* by a fit of the years before it.
Selection(rows) ==
  LET train == RowsOfSplit(rows, "train")
      Fold(year) == Measure("selection", Before(train, year), In(train, year))
  IN {Fold(year) : year \in {y \in {2, 3} : Before(train, y) # {} /\ In(train, y) # {}}}
       \cup {Fold(year) : year \in {y \in {3} : Cardinality(Before(train, y)) >= MinFit /\ In(train, y) # {}}}

\* The selection, the constant, seasonal and spatial rates, the models with
\* and without calibration.
Measures(rows) ==
  LET train == RowsOfSplit(rows, "train")
      calibration == RowsOfSplit(rows, "calibration")
      test == RowsOfSplit(rows, "test")
  IN Selection(rows)
       \cup {Measure("baseline", train, test), Measure("raw", train, test),
             Measure("calibrated", train \cup calibration, test)}

\* Principal dataset only: cross-validation by coarse cell, and a weighted
\* model on the calibration rows.  (Its features are standardised on all
\* training rows.)
Supplementary(rows) ==
  LET train == RowsOfSplit(rows, "train")
      Fold(f) == {r \in train : ParentOf(r) % 5 = f}
  IN {Measure("spatial", train \ Fold(f), Fold(f)) :
        f \in {g \in 0..4 : Fold(g) # {} /\ train \ Fold(g) # {}}}
       \cup {Measure("weighting", train, RowsOfSplit(rows, "calibration"))}

\* The frozen candidate, refitted.
Candidate(rows, scoredRows) ==
  Measure("candidate", RowsOfSplit(rows, "train") \cup RowsOfSplit(rows, "calibration"), scoredRows)

-----------------------------------------------------------------------------
(* Experiments and comparison.                                             *)

\* A build stores rows in a version while the commands run.
Build(v) ==
  /\ table[v] # Built[v].after
  /\ table' = [table EXCEPT ![v] = Built[v].after]
  /\ UNCHANGED <<study, comparison, reports>>

\* A version without rows has no fingerprint: the command fails.
Fingerprint ==
  /\ study.step = "fingerprint"
  /\ LET rows == table[StudyVersions[study.turn]] IN
       study' = IF rows = {} THEN [study EXCEPT !.step = "failed"]
                ELSE [study EXCEPT !.step = "rows", !.print = rows]
  /\ UNCHANGED <<table, comparison, reports>>

ReadRows ==
  /\ study.step = "rows"
  /\ study' = [study EXCEPT !.step = "recheck", !.rows = table[StudyVersions[study.turn]]]
  /\ UNCHANGED <<table, comparison, reports>>

Experiment ==
  [kind |-> "experiment", version |-> StudyVersions[study.turn], model |-> Missing,
   print |-> study.print, rows |-> study.rows,
   measures |-> Measures(study.rows)
                  \cup (IF study.turn = 1 THEN Supplementary(study.rows) ELSE {})]

UnchangedSinceTrusted(print, version) == TRUE
UnchangedSince(print, version) == table[version] = print

\* The fingerprint is taken again: the report of a changed version is not
\* written, and the command ends.
Report ==
  /\ study.step = "recheck"
  /\ IF UnchangedSince(study.print, StudyVersions[study.turn])
     THEN /\ reports' = reports \cup {Experiment}
          /\ study' = [step |-> IF study.turn = Len(StudyVersions) THEN "done" ELSE "fingerprint",
                       turn |-> study.turn + 1, print |-> {}, rows |-> {}]
     ELSE /\ study' = [study EXCEPT !.step = "failed"]
          /\ UNCHANGED reports
  /\ UNCHANGED <<table, comparison>>

ActiveModels == {n \in DOMAIN models : models[n].active}

\* Without an active model there is no comparison.
LookActiveModel ==
  /\ comparison.step = "active"
  /\ comparison' = IF ActiveModels = {} THEN [comparison EXCEPT !.step = "done"]
                   ELSE [comparison EXCEPT !.step = "fingerprint", !.model = Max(ActiveModels)]
  /\ UNCHANGED <<table, study, reports>>

CompareFingerprint ==
  /\ comparison.step = "fingerprint"
  /\ comparison' = IF table[MainVersion] = {} THEN [comparison EXCEPT !.step = "failed"]
                   ELSE [comparison EXCEPT !.step = "rows", !.print = table[MainVersion]]
  /\ UNCHANGED <<table, study, reports>>

CompareRows ==
  /\ comparison.step = "rows"
  /\ comparison' = [comparison EXCEPT !.step = "other", !.rows = table[MainVersion]]
  /\ UNCHANGED <<table, study, reports>>

\* The other version is read late and without a fingerprint.
CompareOther ==
  /\ comparison.step = "other"
  /\ comparison' = [comparison EXCEPT !.step = "recheck", !.other = table[OtherVersion]]
  /\ UNCHANGED <<table, study, reports>>

\* Both models score the test rows that have the features of the human one.
Compared(rows) == RowsOfSplit(rows, "test") \cap Comparable

Comparison ==
  LET splits(rows) == {RowsOfSplit(rows, "train"), RowsOfSplit(rows, "calibration"), RowsOfSplit(rows, "test")}
  IN [kind |-> "comparison", version |-> MainVersion, model |-> comparison.model,
      print |-> comparison.print, rows |-> comparison.rows,
      measures |->
        {Candidate(comparison.rows, RowsOfSplit(comparison.rows, "test")),
         Candidate(comparison.rows, Compared(comparison.rows)),
         Measure("human", {}, Compared(comparison.rows))}
        \cup (IF {} \in splits(comparison.other) THEN {}
              ELSE {Candidate(comparison.other, RowsOfSplit(comparison.other, "test"))})]

Conclude ==
  /\ comparison.step = "recheck"
  /\ IF UnchangedSince(comparison.print, MainVersion)
     THEN /\ reports' = reports \cup {Comparison}
          /\ comparison' = [comparison EXCEPT !.step = "done"]
     ELSE /\ comparison' = [comparison EXCEPT !.step = "failed"]
          /\ UNCHANGED reports
  /\ UNCHANGED <<table, study>>

DataNext ==
  \/ \E v \in DOMAIN table : Build(v)
  \/ Fingerprint \/ ReadRows \/ Report
  \/ LookActiveModel \/ CompareFingerprint \/ CompareRows \/ CompareOther \/ Conclude

-----------------------------------------------------------------------------
(* Trainings of the human model.                                           *)

ImportPastFire(f) ==
  /\ f \notin humanFires
  /\ humanFires' = humanFires \cup {f}
  /\ UNCHANGED <<trainer, models>>

NotTraining == [step |-> "idle", given |-> Missing, train |-> {}, validation |-> {}, seen |-> {}]

Valid(given) ==
  given.train[1] <= given.train[2] /\ given.validation[1] <= given.validation[2]
    /\ given.train[2] < given.validation[1]

FiresIn(interval) == {f \in humanFires : f.day \in interval[1]..interval[2]}

\* The intervals are checked; then the fires of the first one are read.
BeginTraining(t, given) ==
  /\ trainer[t].step = "idle" /\ Valid(given)
  /\ Len(models) + Cardinality({u \in Trainers : trainer[u].step # "idle"}) < MaxModels
  /\ trainer' = [trainer EXCEPT ![t] =
       [NotTraining EXCEPT !.step = "validation", !.given = given, !.train = FiresIn(given.train)]]
  /\ UNCHANGED <<humanFires, models>>

ControlsOf(positives) == Cardinality(positives) * Controls

\* Both intervals need fires, and enough cells for the controls.
ReadValidation(t) ==
  /\ trainer[t].step = "validation"
  /\ LET validation == FiresIn(trainer[t].given.validation)
         fits(positives) == positives # {} /\ ControlsOf(positives) <= Len(Cells)
     IN trainer' = [trainer EXCEPT ![t] =
          IF fits(trainer[t].train) /\ fits(validation)
          THEN [@ EXCEPT !.step = "controls", !.validation = validation]
          ELSE NotTraining]
  /\ UNCHANGED <<humanFires, models>>

\* Days of an interval on which the cell has no fire that was read.
FreeDays(cell, interval, positives) ==
  {d \in interval[1]..interval[2] : [cell |-> cell, day |-> d] \notin positives}

ControlDayUnchecked(cell, interval, positives) ==
  interval[1] + (FirstDay(cell, interval) % (interval[2] - interval[1] + 1))

\* The first free day from the one drawn, around the interval.
ControlDay(cell, interval, positives) ==
  LET length == interval[2] - interval[1] + 1
      Offset(d) == (d - ControlDayUnchecked(cell, interval, positives)) % length
  IN CHOOSE d \in FreeDays(cell, interval, positives) :
       \A e \in FreeDays(cell, interval, positives) : Offset(d) <= Offset(e)

ControlSamples(interval, positives) ==
  {[cell |-> Cells[n], day |-> ControlDay(Cells[n], interval, positives)] :
     n \in 1..ControlsOf(positives)}

\* The search of a free day has no end when there is none.
SearchEnds(interval, positives) ==
  \A n \in 1..ControlsOf(positives) : FreeDays(Cells[n], interval, positives) # {}

AllSearchesEnd(t) ==
  /\ SearchEnds(trainer[t].given.train, trainer[t].train)
  /\ SearchEnds(trainer[t].given.validation, trainer[t].validation)

\* The fires of one interval of a training: all its controls can be drawn.
Fits(interval, positives) ==
  /\ positives \subseteq PastFires /\ positives # {}
  /\ \A f \in positives : f.day \in interval[1]..interval[2]
  /\ ControlsOf(positives) <= Len(Cells) /\ SearchEnds(interval, positives)

\* A version that a training stored.
Made(model) ==
  /\ model.given \in Intervals /\ Valid(model.given) /\ model.active \in BOOLEAN
  /\ Fits(model.given.train, model.train) /\ Fits(model.given.validation, model.validation)
  /\ model = [given |-> model.given, train |-> model.train, validation |-> model.validation,
               controls |-> ControlSamples(model.given.train, model.train),
               validationControls |-> ControlSamples(model.given.validation, model.validation),
               active |-> model.active]

\* The fires are finitely many, a cell is once in the order of the sample, and
\* the version from before was stored by a training.
ASSUME TrainingAssumption ==
  /\ IsFiniteSet(PastFires) /\ Controls \in Nat
  /\ Intervals \subseteq [train : Int \X Int, validation : Int \X Int]
  /\ Cells \in Seq(ToSet(Cells)) /\ \A m, n \in DOMAIN Cells : Cells[m] = Cells[n] => m = n
  /\ \A cell \in ToSet(Cells), given \in Intervals :
       FirstDay(cell, given.train) \in Int /\ FirstDay(cell, given.validation) \in Int
  /\ Made(Trained) /\ Trained.active

\* The trained model is refused or accepted by its measure on the validation.
Train(t, accepted) ==
  /\ trainer[t].step = "controls" /\ AllSearchesEnd(t)
  /\ trainer' = [trainer EXCEPT ![t] =
       IF accepted THEN [@ EXCEPT !.step = "deactivate"] ELSE NotTraining]
  /\ UNCHANGED <<humanFires, models>>

\* A transaction: the active versions that it sees are deactivated, for
\* others to see when it commits.
Deactivate(t) ==
  /\ trainer[t].step = "deactivate"
  /\ trainer' = [trainer EXCEPT ![t].step = "insert", ![t].seen = ActiveModels]
  /\ UNCHANGED <<humanFires, models>>

Version(t) ==
  LET given == trainer[t].given
  IN [given |-> given, train |-> trainer[t].train, validation |-> trainer[t].validation,
      controls |-> ControlSamples(given.train, trainer[t].train),
      validationControls |-> ControlSamples(given.validation, trainer[t].validation),
      active |-> TRUE]

ModelsActivatedAlways(t) ==
  Append([n \in DOMAIN models |->
            IF n \in trainer[t].seen THEN [models[n] EXCEPT !.active = FALSE] ELSE models[n]],
         Version(t))

\* One version may be active: the insertion fails after that of another
\* training, which this one did not see.
ModelsActivated(t) == IF ActiveModels \subseteq trainer[t].seen THEN ModelsActivatedAlways(t) ELSE models

Activate(t) ==
  /\ trainer[t].step = "insert"
  /\ models' = ModelsActivated(t)
  /\ trainer' = [trainer EXCEPT ![t] = NotTraining]
  /\ UNCHANGED humanFires

\* A lost connection undoes the transaction.
TrainingStops(t) ==
  /\ trainer[t].step # "idle"
  /\ trainer' = [trainer EXCEPT ![t] = NotTraining]
  /\ UNCHANGED <<humanFires, models>>

HumanNext ==
  \/ \E f \in PastFires : ImportPastFire(f)
  \/ \E t \in Trainers :
       \/ \E given \in Intervals : BeginTraining(t, given)
       \/ ReadValidation(t) \/ \E accepted \in BOOLEAN : Train(t, accepted)
       \/ Deactivate(t) \/ Activate(t) \/ TrainingStops(t)

-----------------------------------------------------------------------------
(* Replay of past days.                                                    *)

\* Only fires of the cells are replayed, in the order of time, after a warm-up.
ASSUME ReplayAssumption ==
  /\ Past \in Seq([cell : ToSet(Cells), day : Int])
  /\ \A m, n \in DOMAIN Past : m <= n => Past[m].day <= Past[n].day
  /\ {Period.warm, Period.from, Period.to} \subseteq Int /\ Period.warm <= Period.from

\* Fires of the days that are scored; there must be one.
Evaluated == {n \in DOMAIN Past : Past[n].day \in Period.from..Period.to}

\* Fires that the history of a day takes in, from the cursor on.
IsHistory(n, date) == Past[n].day < date

CursorOf(cursor, date) ==
  Min({n \in cursor..(Len(Past) + 1) : n = Len(Past) + 1 \/ ~IsHistory(n, date)})

Limit(percent) == (Len(Cells) * percent + 99) \div 100

\* A day: the fires before it enter the history; after the warm-up the cells
\* are scored and ranked, and the fires of the day looked up by their rank.
ReplayDay(rank) ==
  LET cursor == CursorOf(replay.cursor, replay.date)
      today == {n \in Evaluated : Past[n].day = replay.date}
      RankOf(n) == CHOOSE k \in DOMAIN rank : rank[k] = Past[n].cell
      Within(percent) == Cardinality({n \in today : RankOf(n) <= Limit(percent)})
  IN /\ replay.date <= Period.to /\ Evaluated # {}
     /\ replay' =
          [date |-> replay.date + 1, cursor |-> cursor,
           history |-> replay.history \cup (replay.cursor..(cursor - 1)),
           kernels |-> replay.kernels + cursor - replay.cursor,
           hits5 |-> replay.hits5 + Within(5), hits10 |-> replay.hits10 + Within(10),
           missed |-> replay.missed \cup {n \in today : RankOf(n) > Limit(10)}]

\* Days of the warm-up are not ranked: one order stands for all.
ReplayNext ==
  \E rank \in IF replay.date < Period.from THEN {Cells} ELSE SetToSeqs(ToSet(Cells)) : ReplayDay(rank)

-----------------------------------------------------------------------------

Predict(p, y) ==
  /\ Len(scored) < Sample
  /\ scored' = Append(scored, [p |-> p, y |-> y])

-----------------------------------------------------------------------------

StudyInit ==
  /\ topic \in {"studies", "trainings", "replay", "scores"}
  /\ table = [v \in DOMAIN Built |-> Built[v].before]
  /\ study = [step |-> "fingerprint", turn |-> 1, print |-> {}, rows |-> {}]
  /\ comparison = [step |-> "active", model |-> Missing, print |-> {}, rows |-> {}, other |-> {}]
  /\ reports = {}
  /\ humanFires = {}
  /\ trainer = [t \in Trainers |-> NotTraining]
  /\ models \in IF topic = "studies" THEN {<<>>, <<Trained>>} ELSE {<<>>}
  /\ replay = [date |-> Period.warm, cursor |-> 1, history |-> {}, kernels |-> 0,
               hits5 |-> 0, hits10 |-> 0, missed |-> {}]
  /\ scored = <<>>

StudyNext ==
  \/ topic = "studies" /\ DataNext /\ UNCHANGED <<topic, human, replay, scored>>
  \/ topic = "trainings" /\ HumanNext /\ UNCHANGED <<topic, data, replay, scored>>
  \/ topic = "replay" /\ ReplayNext /\ UNCHANGED <<topic, data, human, scored>>
  \/ topic = "scores" /\ (\E p \in 0..ScoreMax, y \in BOOLEAN : Predict(p, y))
       /\ UNCHANGED <<topic, data, human, replay>>

StudySpec == StudyInit /\ [][StudyNext]_studies

-----------------------------------------------------------------------------

Earlier(fit, rows) == \A f \in fit, r \in rows : YearOf(f) < YearOf(r)

(* No measure scores a row that its model was fitted on, nor one of the    *)
(* fit's own years or of earlier ones; cross-validation by cell keeps the  *)
(* coarse cells apart instead.  A human model is validated on days after   *)
(* those it was trained on, controls included, and the history by which a  *)
(* replayed day is scored holds every fire of the days before it, once,    *)
(* and no other (run_one_dataset_experiment, train_and_activate,           *)
(* backtest.rs: run).  The human model of a comparison is excepted: its    *)
(* training may reach into the test year.                                  *)
NoLeakage ==
  /\ \A r \in reports : \A m \in r.measures :
       IF m.kind = "spatial" THEN \A f \in m.fit, s \in m.scored : ParentOf(f) # ParentOf(s)
       ELSE Earlier(m.fit, m.scored)
  /\ \A n \in DOMAIN models :
       \A f \in models[n].train \cup models[n].controls,
          v \in models[n].validation \cup models[n].validationControls : f.day < v.day
  /\ replay.date > Period.warm =>
       replay.history = {n \in DOMAIN Past : Past[n].day < replay.date - 1}
  /\ replay.kernels = Cardinality(replay.history)

(* A report is of the rows whose fingerprint it gives, and its models are  *)
(* measured on the same rows.  Once a human model was activated there is   *)
(* an active one, the last.  Controls have no fire that the training has   *)
(* read, as many as asked for.  A replayed fire is a hit or a miss.        *)
StudiesSound ==
  /\ \A r \in reports :
       /\ r.rows = r.print
       /\ r.kind = "comparison" =>
            \A m \in r.measures : m.kind = "human" => Candidate(r.rows, m.scored) \in r.measures
  /\ models # <<>> => ActiveModels = {Len(models)}
  /\ \A n \in DOMAIN models :
       /\ models[n].controls \cap models[n].train = {}
       /\ models[n].validationControls \cap models[n].validation = {}
       /\ Cardinality(models[n].controls) = ControlsOf(models[n].train)
  /\ replay.hits5 <= replay.hits10
  /\ replay.hits10 + Cardinality(replay.missed) =
       Cardinality({n \in Evaluated : Past[n].day < replay.date})

(* The measures of what was scored agree with their definitions.           *)
MetricsRight ==
  AucRight(scored) /\ RankingRight(scored) /\ CalibrationRight(scored) /\ IsotonicRight(scored)

=============================================================================
