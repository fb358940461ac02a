---------------------------- MODULE DatasetBuilds ----------------------------
(***************************************************************************)
(* Builds of the dataset versions: a command reads the fires in separate   *)
(* queries while imports and audits go on, derives the cell-days with and  *)
(* without a fire, and persists them version by version, with the          *)
(* exclusions and a row for the build.  Rows are never taken back, the     *)
(* exclusions are replaced, and nothing keeps two commands apart.          *)
(*                                                                         *)
(* An operator defined just before another, with a longer form of its name *)
(* is that operator with a mistake in it.                                  *)
(***************************************************************************)
EXTENDS Naturals, Sequences, FiniteSets, SequencesExt

CONSTANTS
  None,
  Builders,      \* processes that run a build command
  MaxFaults,     \* bound on failed calls and stopped commands
  Days,          \* cell-days
  Splits,        \* the splits
  SplitOf(_),    \* the split of a cell-day, None outside the period
  Near(_, _),    \* a cell-day is in the exclusion window of a fire of another
  Suspect,       \* cell-days the strict variant rejects
  Unreadable,    \* cell-days whose cell identifier in the base is no cell
  Pool(_),       \* the cell-days without a fire to try, in the order of a seed
  CommandSeeds,  \* the seeds each command may be given; bounds the commands
  Ratio,         \* cell-days without a fire for each with one
  PilotNegatives,\* number of cell-days without a fire of a pilot
  Fires,         \* fires, the events of the base, numbered
  DayOf(_),      \* the cell-day of a fire
  Natural,       \* fires that are not of human cause
  Early          \* fires imported and assessed before the first build

Kinds == {"pilot", "candidate"}
Variants == {"strict", "inclusive"}
Versions == Kinds \X Variants
Seeds == UNION {CommandSeeds[n] : n \in DOMAIN CommandSeeds}
VersionRows == [status : {"draft", "building", "validated", "failed"}, seed : Seeds]

ASSUME DatasetsAssumption ==
  /\ None \notin Kinds /\ None \notin VersionRows
  /\ CommandSeeds \in Seq(SUBSET Seeds)
  /\ Early \subseteq Fires
  /\ \A e \in Fires : DayOf(e) \in Days

VARIABLES
  fires,         \* fires imported so far
  assessed,      \* fires with the assessments of an audit
  duplicates,    \* fires an audit has found to duplicate another
  builder,       \* progress of a command and what it has read
  version,       \* ml.dataset_versions
  rows,          \* cell-days and labels of ml.dataset_rows of a version
  links,         \* ml.dataset_event_links of a version: cell-days and fires
  excluded,      \* ml.dataset_exclusions of a version, with their build
  builds,        \* ml.dataset_builds, with what the build had read
  commands,      \* commands started
  faults

sources == <<fires, assessed, duplicates>>
stored == <<version, rows, links, excluded, builds>>
datasets == <<sources, builder, stored, commands>>

NotBuilding ==
  [step |-> "idle", kind |-> None, seed |-> None, window |-> {}, known |-> {},
   events |-> {}, repeated |-> {}, todo |-> <<>>, build |-> 0]

DatasetInit ==
  /\ fires = Early /\ assessed = Early /\ duplicates = {}
  /\ builder = [b \in Builders |-> NotBuilding]
  /\ version = [v \in Versions |-> None]
  /\ rows = [v \in Versions |-> {}]
  /\ links = [v \in Versions |-> {}]
  /\ excluded = [v \in Versions |-> {}]
  /\ builds = <<>>
  /\ commands = 0

-----------------------------------------------------------------------------
(* Imports and audits.  An audit is one transaction over the fires it has  *)
(* read; here it may also come fire by fire.  Bound: they go on while a    *)
(* command has still to read; what comes before the first is in Early.     *)

StillToRead == \E b \in Builders : builder[b].step \in {"known", "candidates"}

ImportFire(e) ==
  /\ StillToRead /\ e \notin fires
  /\ fires' = fires \cup {e}
  /\ UNCHANGED <<commands, assessed, duplicates, builder, stored, faults>>

AssessFire(e) ==
  /\ StillToRead /\ e \in fires \ assessed
  /\ assessed' = assessed \cup {e}
  /\ UNCHANGED <<commands, fires, duplicates, builder, stored, faults>>

FindDuplicate(e) ==
  /\ StillToRead /\ e \in assessed \ duplicates
  /\ \E a \in assessed \ duplicates : a < e /\ DayOf(a) = DayOf(e)
  /\ duplicates' = duplicates \cup {e}
  /\ UNCHANGED <<commands, fires, assessed, builder, stored, faults>>

-----------------------------------------------------------------------------
(* What a command derives from what it has read.                           *)

Eligible(r, d) == {e \in r.events \ r.repeated : DayOf(e) = d}

\* The cell-days with an eligible fire; the strict variant takes those with
\* features, combustible, and of trusted coordinates.  A candidate passes over
\* one whose cell cannot be read, with its fires; a pilot reads no cell.
PositiveDays(r, variant) ==
  {d \in Days : /\ SplitOf(d) # None
                /\ Eligible(r, d) # {}
                /\ r.kind = "candidate" => d \notin Unreadable
                /\ variant = "strict" => d \notin Suspect}

\* Duplicates, and the cell-days strict has rejected.  Fires out of the period
\* would be excluded too: the query has left them out already.
Exclusions(r) ==
  {<<"fire", e>> : e \in {e \in r.events : SplitOf(DayOf(e)) = None \/ e \in r.repeated}}
    \cup {<<"day", d>> : d \in PositiveDays(r, "inclusive") \cap Suspect}

\* The first cell-days of a pool among some.
First(n, pool, among) ==
  {pool[i] : i \in {i \in DOMAIN pool :
     pool[i] \in among /\ Cardinality({j \in 1..(i - 1) : pool[j] \in among}) < n}}

KnownDaysOfHumans(r) == {DayOf(e) : e \in r.known \ Natural}

KnownDays(r) == {DayOf(e) : e \in r.known}

PilotDays(r) == First(PilotNegatives, Pool(r.seed), Days \ KnownDays(r))

\* As many cell-days as the inclusive variant has with a fire, or fewer: without
\* a known fire and out of the exclusion window of every fire whose cell can be
\* read.
SampledDays(r, split) ==
  LET open == {d \in Days \ Unreadable :
                 /\ SplitOf(d) = split /\ d \notin KnownDays(r)
                 /\ \A e \in r.window : DayOf(e) \in Unreadable \/ ~Near(d, DayOf(e))}
      needed == Ratio * Cardinality({d \in PositiveDays(r, "inclusive") : SplitOf(d) = split})
  IN First(needed, Pool(r.seed), open)

NegativeDays(r) ==
  IF r.kind = "pilot" THEN PilotDays(r) ELSE UNION {SampledDays(r, s) : s \in Splits}

RowsOf(r, variant) ==
  {<<d, 1>> : d \in PositiveDays(r, variant)} \cup {<<d, 0>> : d \in NegativeDays(r)}

LinksOf(r, variant) ==
  UNION {{<<d, e>> : e \in Eligible(r, d)} : d \in PositiveDays(r, variant)}

-----------------------------------------------------------------------------
(* A command.                                                              *)

Go(b, changes) == builder' = [builder EXCEPT ![b] = changes]
Step(b, step) == Go(b, [builder[b] EXCEPT !.step = step])
StopBuilding(b) == Go(b, NotBuilding)

\* The two kinds of commands write different versions: a behaviour has one kind.
MayStart(b, kind) ==
  /\ builder[b].step = "idle" /\ commands < Len(CommandSeeds)
  /\ \A c \in Builders : builder[c].kind \in {None, kind}
  /\ \A n \in DOMAIN builds : builds[n].version[1] = kind

StartPilot(b) ==
  /\ MayStart(b, "pilot")
  /\ \E s \in CommandSeeds[commands + 1] : Go(b, [NotBuilding EXCEPT !.step = "candidates", !.kind = "pilot", !.seed = s])
  /\ commands' = commands + 1
  /\ UNCHANGED <<sources, stored, faults>>

\* The queries for fires are over the period, which the splits cover exactly.
InPeriod(some) == {e \in some : SplitOf(DayOf(e)) # None}

\* The fires of the exclusion windows, of any cause, with their assessment.
StartCandidate(b) ==
  /\ MayStart(b, "candidate")
  /\ \E s \in CommandSeeds[commands + 1] : Go(b, [NotBuilding EXCEPT !.step = "known", !.kind = "candidate",
                                                !.seed = s, !.window = InPeriod(assessed)])
  /\ commands' = commands + 1
  /\ UNCHANGED <<sources, stored, faults>>

AfterKnown(kind) == IF kind = "pilot" THEN "find" ELSE "candidates"
AfterCandidates(kind) == IF kind = "pilot" THEN "known" ELSE "find"

\* The cell-days of the fires known by now, of any cause, assessed or not.
ReadKnown(b) ==
  /\ builder[b].step = "known"
  /\ Go(b, [builder[b] EXCEPT !.known = InPeriod(fires), !.step = AfterKnown(builder[b].kind),
                              !.todo = <<"strict", "inclusive">>])
  /\ UNCHANGED <<commands, sources, stored, faults>>

\* The assessed fires of human cause, and which of them duplicate another.
ReadCandidates(b) ==
  /\ builder[b].step = "candidates"
  /\ Go(b, [builder[b] EXCEPT !.events = InPeriod(assessed) \ Natural,
                              !.repeated = InPeriod(duplicates) \ Natural,
                              !.step = AfterCandidates(builder[b].kind),
                              !.todo = <<"strict", "inclusive">>])
  /\ UNCHANGED <<commands, sources, stored, faults>>

Current(b) == <<builder[b].kind, Head(builder[b].todo)>>

SetStatus(v, status) == version' = [version EXCEPT ![v] = [@ EXCEPT !.status = status]]

\* A version with other parameters is refused.
FindVersion(b) ==
  /\ builder[b].step = "find"
  /\ LET v == version[Current(b)]
     IN CASE v = None -> Step(b, "create")
          [] v # None /\ v.seed = builder[b].seed -> Step(b, "mark")
          [] OTHER -> StopBuilding(b)
  /\ UNCHANGED <<commands, sources, stored, faults>>

\* A second version with the same name is refused by the database.
CreateVersion(b) ==
  /\ builder[b].step = "create"
  /\ IF version[Current(b)] = None
     THEN /\ version' = [version EXCEPT ![Current(b)] = [status |-> "draft", seed |-> builder[b].seed]]
          /\ Step(b, "mark")
     ELSE StopBuilding(b) /\ version' = version
  /\ UNCHANGED <<commands, sources, rows, links, excluded, builds, faults>>

\* The version is being built, and a build starts.
MarkBuilding(b) ==
  /\ builder[b].step = "mark"
  /\ SetStatus(Current(b), "building")
  /\ Step(b, "start")
  /\ UNCHANGED <<commands, sources, rows, links, excluded, builds, faults>>

StartBuild(b) ==
  /\ builder[b].step = "start"
  /\ builds' = Append(builds, [version |-> Current(b), status |-> "running", count |-> 0,
                               read |-> [known |-> builder[b].known, events |-> builder[b].events]])
  /\ Go(b, [builder[b] EXCEPT !.step = "rows", !.build = Len(builds) + 1])
  /\ UNCHANGED <<commands, sources, version, rows, links, excluded, faults>>

\* Rows already there are kept as they are.
RowsKept(old, new) == old \cup new

PersistRows(b) ==
  /\ builder[b].step = "rows"
  /\ rows' = [rows EXCEPT ![Current(b)] = RowsKept(@, RowsOf(builder[b], Head(builder[b].todo)))]
  /\ links' = [links EXCEPT ![Current(b)] = @ \cup LinksOf(builder[b], Head(builder[b].todo))]
  /\ Step(b, "delete")
  /\ UNCHANGED <<commands, sources, version, excluded, builds, faults>>

\* Only this failure is handled: the build and then the version are failed.
PersistRowsFails(b) ==
  /\ builder[b].step = "rows"
  /\ faults < MaxFaults /\ faults' = faults + 1
  /\ builds' = [builds EXCEPT ![builder[b].build] = [@ EXCEPT !.status = "failed"]]
  /\ Step(b, "fail")
  /\ UNCHANGED <<commands, sources, version, rows, links, excluded>>

MarkVersionFailed(b) ==
  /\ builder[b].step = "fail"
  /\ SetStatus(Current(b), "failed")
  /\ StopBuilding(b)
  /\ UNCHANGED <<commands, sources, rows, links, excluded, builds, faults>>

\* In one transaction, the exclusions it finds are deleted and its own inserted:
\* those another inserts in between stay.
DeleteExclusions(b) ==
  /\ builder[b].step = "delete"
  /\ excluded' = [excluded EXCEPT ![Current(b)] = {}]
  /\ Step(b, "exclude")
  /\ UNCHANGED <<commands, sources, version, rows, links, builds, faults>>

InsertExclusions(b) ==
  /\ builder[b].step = "exclude"
  /\ excluded' = [excluded EXCEPT ![Current(b)] =
                    @ \cup {<<builder[b].build, x>> : x \in Exclusions(builder[b])}]
  /\ Step(b, "finish")
  /\ UNCHANGED <<commands, sources, version, rows, links, builds, faults>>

FinishBuild(b) ==
  /\ builder[b].step = "finish"
  /\ builds' = [builds EXCEPT ![builder[b].build] =
                  [@ EXCEPT !.status = "succeeded",
                            !.count = Cardinality(RowsOf(builder[b], Head(builder[b].todo)))]]
  /\ Step(b, "done")
  /\ UNCHANGED <<commands, sources, version, rows, links, excluded, faults>>

BuiltStatus(kind) == IF kind = "pilot" THEN "validated" ELSE "draft"

\* The next version is built from what was read for the first.
MarkBuilt(b) ==
  /\ builder[b].step = "done"
  /\ SetStatus(Current(b), BuiltStatus(builder[b].kind))
  /\ IF Len(builder[b].todo) = 1 THEN StopBuilding(b)
     ELSE Go(b, [builder[b] EXCEPT !.step = "find", !.todo = Tail(@), !.build = 0])
  /\ UNCHANGED <<commands, sources, rows, links, excluded, builds, faults>>

\* Any other failure ends the command and is recorded nowhere, like a stop.
\* A transaction of exclusions is rolled back: it has deleted none.
BuildStops(b) ==
  /\ builder[b].step \in {"create", "mark", "start", "rows", "delete", "finish", "done", "fail"}
  /\ faults < MaxFaults /\ faults' = faults + 1
  /\ StopBuilding(b)
  /\ UNCHANGED <<commands, sources, stored>>

BuildStep(b) ==
  \/ StartPilot(b) \/ StartCandidate(b) \/ ReadKnown(b) \/ ReadCandidates(b)
  \/ FindVersion(b) \/ CreateVersion(b) \/ MarkBuilding(b) \/ StartBuild(b)
  \/ PersistRows(b) \/ PersistRowsFails(b) \/ MarkVersionFailed(b)
  \/ DeleteExclusions(b) \/ InsertExclusions(b) \/ FinishBuild(b) \/ MarkBuilt(b)
  \/ BuildStops(b)

DatasetNext ==
  \/ \E e \in Fires : ImportFire(e) \/ AssessFire(e) \/ FindDuplicate(e)
  \/ \E b \in Builders : BuildStep(b)

-----------------------------------------------------------------------------
(* Properties.                                                             *)

Building(v) ==
  \E b \in Builders : builder[b].todo # <<>> /\ Current(b) = v
                        /\ builder[b].step \notin {"find", "create", "mark", "known", "candidates"}

BuildsOf(v) == {n \in DOMAIN builds : builds[n].version = v}

(* Every fire a succeeded build has read is accounted for: linked to a row *)
(* of the version, or excluded by itself or with its cell-day, unless a    *)
(* build that had not read it has replaced the exclusions.  The one        *)
(* exception: a candidate keeps no trace of the fires of a cell-day whose  *)
(* cell it cannot read (candidate_pipeline.rs, build_positive_rows).       *)
NothingSilent ==
  \A n \in {n \in DOMAIN builds : builds[n].status = "succeeded"} :
    LET v == builds[n].version
        dropped == {x[2] : x \in excluded[v]}
        owed == \E b \in Builders : builder[b].step = "exclude" /\ Current(b) = v
    IN \A e \in builds[n].read.events :
         \/ <<DayOf(e), e>> \in links[v]
         \/ <<"fire", e>> \in dropped
         \/ <<"day", DayOf(e)>> \in dropped /\ v[2] = "strict"
         \/ v[1] = "candidate" /\ DayOf(e) \in Unreadable
         \/ owed
         \/ \E m \in BuildsOf(v) : e \notin builds[m].read.events

(* A cell-day labelled as one without a fire had no fire of any cause,     *)
(* human or not, among those known to a build of the version: one that has *)
(* both labels has a fire that this build had not seen.  A cell-day is     *)
(* labelled as one with a fire exactly if a fire of it is linked.          *)
LabelsExplained ==
  \A v \in Versions, d \in Days :
    /\ <<d, 0>> \in rows[v] =>
         \E n \in BuildsOf(v) : \A e \in builds[n].read.known : DayOf(e) # d
    /\ <<d, 1>> \in rows[v] <=> \E e \in Fires : <<d, e>> \in links[v]
    /\ \A e \in Fires : <<d, e>> \in links[v] => DayOf(e) = d

(* A version is left in construction, and a build left running, only by a  *)
(* command that stopped; a version is failed only after a build of it was, *)
(* and one that is built has a build that succeeded.                       *)
BuildsEnd ==
  /\ \A v \in Versions : version[v] # None =>
       /\ version[v].status = "building" => Building(v) \/ faults > 0
       /\ version[v].status = "failed" => \E n \in BuildsOf(v) : builds[n].status = "failed"
       /\ version[v].status = "validated" => \E n \in BuildsOf(v) : builds[n].status = "succeeded"
  /\ \A n \in DOMAIN builds : builds[n].status = "running" =>
       faults > 0 \/ \E b \in Builders : builder[b].build = n

=============================================================================
