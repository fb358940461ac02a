--------------------------- MODULE DailyArchives ---------------------------
(***************************************************************************)
(* What the server keeps of its forecasts: one dense snapshot of the       *)
(* nowcast and one BLUE bulletin of the later horizons for each day, taken *)
(* from a batch after its publication.  This refines the capture of        *)
(* ForecastBatches: a row is checked, inserted as building, filled and     *)
(* published by calls between which another process may publish a batch    *)
(* and so delete the rows that are being archived.                         *)
(*                                                                         *)
(* An operator defined just before another, with a longer form of its name *)
(* (MarkFailedAnyway, MarkFailed), is that operator with a mistake in it.  *)
(***************************************************************************)
EXTENDS ForecastBatches

CONSTANTS
  Days,         \* days of validity or of issue
  None,
  SnapshotDay,  \* day of the snapshot of a batch, None if its weather is stale
  BulletinDay,  \* day of the bulletin of a batch, None before 06:00
  MaxFailures   \* bound on failed calls of the captures

ASSUME DaysAssumption ==
  /\ SnapshotDay \in [Times -> Days \cup {None}]
  /\ BulletinDay \in [Times -> Days \cup {None}]
  /\ MaxFailures \in Nat

VARIABLES
  entries,    \* scientific_snapshots and forecast_bulletins, by kind and day
  capturing,  \* the progress of each process through its captures
  failures    \* failed calls so far

archives == <<entries, capturing, failures>>

Kinds == {"snapshot", "bulletin"}
NoEntry == [status |-> "none", batch |-> 0, content |-> {}]
Start == [kind |-> "snapshot", phase |-> "check"]

ArchivesInit ==
  /\ Init
  /\ entries = [e \in Kinds \X Days |-> NoEntry]
  /\ capturing = [w \in Writers |-> Start]
  /\ failures = 0

-----------------------------------------------------------------------------
BatchOf(w) == writer[w].batch
DayOf(kind, b) == IF kind = "snapshot" THEN SnapshotDay[b] ELSE BulletinDay[b]
EntryOf(w) == <<capturing[w].kind, DayOf(capturing[w].kind, BatchOf(w))>>

Regioned(set, b, h) == {r \in 1..Regions : <<b, r, h>> \in set}
Later == 2..Horizons

\* What one statement finds of a batch: the nowcast FWI, or the communes that
\* have scores at every later horizon.
Found(kind, b) ==
  IF kind = "snapshot" THEN {<<b, r, 1>> : r \in Regioned(fwi, b, 1)}
  ELSE {<<b, r, h>> : r \in {q \in 1..Regions : \A h \in Later : <<b, q, h>> \in scores},
                      h \in Later}

Whole(kind, b) == {b} \X (1..Regions) \X (IF kind = "snapshot" THEN {1} ELSE Later)

\* The snapshot asks for a completed batch with nowcast rows, the bulletin for
\* as many cells at each later horizon.
Ready(kind, b) ==
  IF kind = "snapshot" THEN batches[b] = "completed" /\ Regioned(fwi, b, 1) # {}
  ELSE \E n \in 1..Regions : \A h \in Later : Cardinality(Regioned(scores, b, h)) = n

At(w, phase) ==
  w \in Archivers /\ writer[w].step = "capture" /\ capturing[w].phase = phase
To(w, phase) == capturing' = [capturing EXCEPT ![w].phase = phase] /\ UNCHANGED writer

LeaveAtOnce(w) ==
  /\ capturing' = [capturing EXCEPT ![w] = Start]
  /\ writer' = [writer EXCEPT ![w] = Idle]

\* Whatever the snapshot ended with, the bulletin is next, then the next tick.
Leave(w) ==
  IF capturing[w].kind = "snapshot"
  THEN /\ capturing' = [capturing EXCEPT ![w] = [kind |-> "bulletin", phase |-> "check"]]
       /\ UNCHANGED writer
  ELSE /\ capturing' = [capturing EXCEPT ![w] = Start]
       /\ writer' = [writer EXCEPT ![w] = Idle]

Elsewhere == <<clock, batches, fwi, scores, refill, faults>>

\* A day that has an entry, whatever its status, is not attempted again.
Check(w) ==
  LET kind == capturing[w].kind
      b == BatchOf(w)
  IN /\ At(w, "check")
     /\ IF /\ DayOf(kind, b) # None
           /\ entries[EntryOf(w)] = NoEntry
           /\ Ready(kind, b)
        THEN To(w, "insert") ELSE Leave(w)
     /\ UNCHANGED <<entries, failures, pinned, Elsewhere>>

BuildingLatest(w) ==
  /\ entries' = [entries EXCEPT ![EntryOf(w)] =
       [status |-> "building", batch |-> BatchOf(w), content |-> {}]]
  /\ pinned' = pinned \cup {clock}

\* The row is inserted; from then on it refers to the batch.
Building(w) ==
  /\ entries' = [entries EXCEPT ![EntryOf(w)] =
       [status |-> "building", batch |-> BatchOf(w), content |-> {}]]
  /\ pinned' = pinned \cup {BatchOf(w)}

\* ON CONFLICT (logical_id) DO NOTHING, and the foreign key to the batch.
Accepts(w) == entries[EntryOf(w)] = NoEntry /\ batches[BatchOf(w)] # "absent"

Insert(w) ==
  /\ At(w, "insert")
  /\ IF Accepts(w) THEN Building(w) /\ To(w, "fill")
     ELSE Leave(w) /\ UNCHANGED <<entries, pinned>>
  /\ UNCHANGED <<failures, Elsewhere>>

Publishes(w) ==
  entries' = [entries EXCEPT ![EntryOf(w)] =
    [status |-> "published", batch |-> BatchOf(w),
     content |-> Found(capturing[w].kind, BatchOf(w))]]

CoveredByBatch(w) == batches[BatchOf(w)] = "completed"

\* Every modelable cell has a value; the communes cover 99 of 100 cells, which
\* is every region, as no region is so small.
Covered(w) ==
  Found(capturing[w].kind, BatchOf(w)) = Whole(capturing[w].kind, BatchOf(w))

\* The transaction that reads the batch in one statement and publishes.
Fill(w) ==
  /\ At(w, "fill")
  /\ IF Covered(w) THEN Publishes(w) /\ Leave(w)
     ELSE To(w, "fail") /\ UNCHANGED entries
  /\ UNCHANGED <<failures, pinned, Elsewhere>>

MarkFailedAnyway(w) ==
  entries' = [entries EXCEPT ![EntryOf(w)].status = "failed"]

\* UPDATE ... SET status = 'failed' unless it was published after all.
MarkFailed(w) ==
  entries' = IF entries[EntryOf(w)].status = "building"
             THEN [entries EXCEPT ![EntryOf(w)].status = "failed"] ELSE entries

Fail(w) ==
  /\ At(w, "fail")
  /\ MarkFailed(w)
  /\ Leave(w)
  /\ UNCHANGED <<failures, pinned, Elsewhere>>

\* A call fails, or only its reply is lost: then the insertion or the
\* publication has happened.  A failed UPDATE to failed is ignored.
CallFails(w) ==
  /\ failures < MaxFailures
  /\ failures' = failures + 1
  /\ \/ (At(w, "check") \/ At(w, "insert") \/ At(w, "fail")) /\ Leave(w)
        /\ UNCHANGED <<entries, pinned>>
     \/ At(w, "insert") /\ Accepts(w) /\ Building(w) /\ Leave(w)
     \/ At(w, "fill") /\ To(w, "fail") /\ UNCHANGED <<entries, pinned>>
     \/ At(w, "fill") /\ Covered(w) /\ Publishes(w) /\ To(w, "fail") /\ UNCHANGED pinned
  /\ UNCHANGED Elsewhere

\* The steps of the forecast itself; a restart forgets the capture.
Forecast(w) ==
  /\ \/ (Begin(w) \/ WriteFwi(w) \/ WriteScores(w) \/ Publish(w)) /\ UNCHANGED capturing
     \/ (AbortBatch(w) \/ PartitionFails(w)) /\ UNCHANGED capturing
     \/ Stop(w) /\ capturing' = [capturing EXCEPT ![w] = Start]
     \/ w \notin Archivers /\ EndCapture(w) /\ UNCHANGED capturing
  /\ UNCHANGED <<entries, failures>>

Capture(w) == Check(w) \/ Insert(w) \/ Fill(w) \/ Fail(w)

ArchivesNext ==
  \E w \in Writers :
    \/ Forecast(w)
    \/ Check(w)
    \/ Insert(w)
    \/ Fill(w)
    \/ Fail(w)
    \/ CallFails(w)

ArchivesSpec ==
  /\ ArchivesInit
  /\ [][ArchivesNext]_<<vars, archives>>
  /\ \A w \in Archivers : WF_<<vars, archives>>(Capture(w))

-----------------------------------------------------------------------------
\* A published snapshot or bulletin holds every region of one batch at each of
\* its horizons, although another process may publish, and delete the rows,
\* between any two calls of the capture, and although the batch itself may have
\* lost its first regions to such a publication.
PublishedWhole ==
  \A e \in Kinds \X Days :
    entries[e].status = "published" => entries[e].content = Whole(e[1], entries[e].batch)

\* A published archive is immutable, in particular when the process believes
\* that its publication failed.
PublishedFinal ==
  [][\A e \in Kinds \X Days :
       entries[e].status = "published" => entries'[e] = entries[e]]_entries

\* The foreign keys of both tables hold, whoever publishes: an archive of any
\* status keeps the registration of its batch.
ArchivesKeepBatches ==
  \A e \in Kinds \X Days :
    entries[e] # NoEntry => batches[entries[e].batch] = "completed"

\* Another process published: what an archive needs of a batch, or its
\* registration, was deleted.
Overtaken(kind, b) == batches[b] = "absent" \/ Found(kind, b) # Whole(kind, b)

\* A day is lost only to a failed call, a restart, or another publication that
\* deleted the rows during the capture.
LostForCause ==
  \A e \in Kinds \X Days, b \in Times : entries[e].batch = b =>
    /\ entries[e].status = "failed" => failures > 0 \/ Overtaken(e[1], b)
    /\ entries[e].status = "building" =>
         \/ failures > 0 \/ faults > 0
         \/ \E w \in Archivers : (At(w, "fill") \/ At(w, "fail")) /\ EntryOf(w) = e

\* What the archives hold is whole, refers to batches that are kept, and lacks
\* a day only for cause (the daily snapshot and the bulletin, in observability.rs
\* and blue.rs).
ArchivesSound == PublishedWhole /\ ArchivesKeepBatches /\ LostForCause

\* The first complete forecast after 06:00 makes the bulletin: once the
\* server has published a batch due for an archive of a day, the day has that
\* archive from it or an earlier one, unless a call fails, the process restarts,
\* or another process publishes during this capture or the one that lost the day.
DayCovered ==
  \A e \in Kinds \X Days, b \in Times :
    (\E w \in Archivers : writer[w].step = "capture" /\ BatchOf(w) = b /\ DayOf(e[1], b) = e[2])
      ~> \/ entries[e].status = "published" /\ entries[e].batch <= b
         \/ faults + failures > 0
         \/ entries[e].status = "failed"
         \/ Overtaken(e[1], b)

\* The captures are what ForecastBatches allows: its steps with the calls, the
\* references it counts with the entries.
BatchesSpec == Spec
=============================================================================
