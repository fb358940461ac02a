------------------------ MODULE DailyArchivesProofs ------------------------
(***************************************************************************)
(* Theorems about the forecast batches, for every number of regions,       *)
(* horizons, batches and faults, with or without the backfill command:     *)
(* first however many processes write them, then when only one does.       *)
(* Then about the daily archives, for every number of processes that       *)
(* compute forecasts and archive them, of regions, horizons and days, and  *)
(* every number of restarts and failed calls.                              *)
(***************************************************************************)
EXTENDS DailyArchives, FiniteSetTheorems, TLAPS

-----------------------------------------------------------------------------
(* However many processes write forecasts.                                 *)

\* A writer that is not idle has a batch of its own, registered before.
NamedInv ==
  /\ \A w \in Writers : writer[w].batch <= clock
  /\ \A w \in Writers : writer[w].step # "idle" => writer[w].batch \in Times

DistinctInv ==
  \A v, w \in Writers :
    v # w /\ writer[v].step # "idle" /\ writer[w].step # "idle" =>
      writer[v].batch # writer[w].batch

\* Another writer may have deleted the registration of a batch, but nothing else.
RegisteredInv ==
  /\ \A b \in Times : b > clock => batches[b] = "absent"
  /\ \A w \in Writers : LET j == writer[w] IN
       /\ j.step \in {"fwi", "scores", "publish", "abort"} => batches[j.batch] # "completed"
       /\ j.step = "capture" => batches[j.batch] # "running"

SharedInv == TypeOK /\ NamedInv /\ DistinctInv /\ RegisteredInv /\ ReferencesKept

\* What an action may make of the job of a writer.
LEMMA JobType ==
  ASSUME NEW s \in {"idle", "fwi", "scores", "publish", "capture", "abort"}, TypeOK,
         NEW w \in Writers
  PROVE  /\ Idle \in Job /\ writer[w] \in Job
         /\ [writer EXCEPT ![w].step = s] \in [Writers -> Job]
         /\ [writer EXCEPT ![w] = Idle] \in [Writers -> Job]
         /\ \A b \in 0..MaxBatches : [Idle EXCEPT !.step = s, !.batch = b] \in Job
         /\ writer[w].batch \in Times => PartOf(w) \in Parts
<1>1. Idle \in Job
  BY ShapeAssumption, BoundsAssumption DEF Idle, Job
<1>2. writer[w] \in Job
  BY DEF TypeOK
<1>3. [writer[w] EXCEPT !.step = s] \in Job
  BY <1>2 DEF Job
<1>4. \A b \in 0..MaxBatches : [Idle EXCEPT !.step = s, !.batch = b] \in Job
  BY <1>1 DEF Job
<1>5. writer[w].batch \in Times => PartOf(w) \in Parts
  BY <1>2 DEF PartOf, Parts, Job
<1>6. [writer EXCEPT ![w].step = s] \in [Writers -> Job]
  BY <1>3 DEF TypeOK
<1>7. [writer EXCEPT ![w] = Idle] \in [Writers -> Job]
  BY <1>1 DEF TypeOK
<1> QED
  BY <1>1, <1>2, <1>4, <1>5, <1>6, <1>7

\* The next part of a forecast is one of its parts.
LEMMA AfterPartType ==
  ASSUME NEW j \in Job
  PROVE  AfterPart(j) \in Job
<1>1. CASE j.horizon < Horizons
  <2>1. j.horizon + 1 \in 1..Horizons
    BY <1>1, ShapeAssumption DEF Job
  <2> QED
    BY <1>1, <2>1 DEF AfterPart, Job
<1>2. CASE ~(j.horizon < Horizons) /\ j.region < Regions
  <2>1. j.region + 1 \in 1..Regions /\ 1 \in 1..Horizons
    BY <1>2, ShapeAssumption DEF Job
  <2> QED
    BY <1>2, <2>1 DEF AfterPart, Job
<1>3. CASE ~(j.horizon < Horizons) /\ ~(j.region < Regions)
  BY <1>3 DEF AfterPart, Job
<1> QED
  BY <1>1, <1>2, <1>3

\* Every action keeps the types.
LEMMA TypeStep ==
  ASSUME TypeOK, NamedInv, [Next]_vars
  PROVE  TypeOK'
<1>1. ASSUME NEW w \in Writers, Begin(w) PROVE TypeOK'
  <2>1. clock + 1 \in Times /\ clock + 1 \in 0..MaxBatches
    BY <1>1, BoundsAssumption DEF Begin, TypeOK, Times
  <2>2. writer' \in [Writers -> Job]
    BY <1>1, <2>1, JobType DEF Begin, TypeOK
  <2>3. batches' \in [Times -> {"absent", "running", "completed"}]
    BY <1>1, <2>1 DEF Begin, TypeOK
  <2> QED
    BY <1>1, <2>1, <2>2, <2>3 DEF Begin, TypeOK
<1>2. ASSUME NEW w \in Writers, WriteFwi(w) PROVE TypeOK'
  <2>1. writer' \in [Writers -> Job] /\ PartOf(w) \in Parts
    BY <1>2, JobType DEF WriteFwi, Goto, NamedInv
  <2> QED
    BY <1>2, <2>1 DEF WriteFwi, TypeOK
<1>3. ASSUME NEW w \in Writers, WriteScores(w) PROVE TypeOK'
  <2>1. writer' \in [Writers -> Job] /\ PartOf(w) \in Parts
    BY <1>3, JobType, AfterPartType DEF WriteScores, NamedInv, TypeOK
  <2> QED
    BY <1>3, <2>1 DEF WriteScores, TypeOK
<1>4. ASSUME NEW w \in Writers, Publish(w) PROVE TypeOK'
  <2>1. writer' \in [Writers -> Job]
    BY <1>4, JobType DEF Publish, Goto
  <2>2. batches' \in [Times -> {"absent", "running", "completed"}]
    BY <1>4 DEF Publish, Retain, TypeOK
  <2> QED
    BY <1>4, <2>1, <2>2 DEF Publish, Retain, Of, TypeOK
<1>5. ASSUME NEW w \in Writers, Pin(w) PROVE TypeOK'
  <2>1. writer[w].batch \in Times
    BY <1>5 DEF Pin, NamedInv
  <2> QED
    BY <1>5, <2>1 DEF Pin, Refers, TypeOK
<1>6. ASSUME NEW w \in Writers, EndCapture(w) PROVE TypeOK'
  <2>1. writer' \in [Writers -> Job] /\ writer[w].batch \in Times
    BY <1>6, JobType DEF EndCapture, NamedInv
  <2> QED
    BY <1>6, <2>1 DEF EndCapture, Refers, TypeOK
<1>7. ASSUME NEW w \in Writers, AbortBatch(w) PROVE TypeOK'
  <2>1. writer' \in [Writers -> Job]
    BY <1>7, JobType DEF AbortBatch
  <2>2. batches' \in [Times -> {"absent", "running", "completed"}]
    BY <1>7 DEF AbortBatch, Abort, TypeOK
  <2> QED
    BY <1>7, <2>1, <2>2 DEF AbortBatch, Abort, TypeOK
<1>8. ASSUME NEW w \in Writers, PartitionFails(w) PROVE TypeOK'
  BY <1>8, JobType DEF PartitionFails, Goto, TypeOK
<1>9. ASSUME NEW w \in Writers, Stop(w) PROVE TypeOK'
  <2>1. writer' \in [Writers -> Job]
    BY <1>9, JobType DEF Stop
  <2>2. faults' \in 0..MaxFaults
    BY <1>9, BoundsAssumption DEF Stop, TypeOK
  <2> QED
    BY <1>9, <2>1, <2>2 DEF Stop, TypeOK
<1>10. CASE BackfillRegion
  <2>1. clock + 1 \in Times /\ refill + 1 \in 0..(Regions + 1)
    BY <1>10, ShapeAssumption, BoundsAssumption DEF BackfillRegion, TypeOK, Times
  <2>2. <<clock + 1, refill, 1>> \in Parts
    BY <1>10, <2>1, ShapeAssumption DEF BackfillRegion, Parts
  <2>3. clock + 1 \in 0..MaxBatches
    BY <2>1, BoundsAssumption DEF Times
  <2>4. scores' \subseteq Parts
    BY <1>10, <2>2 DEF BackfillRegion, TypeOK
  <2> QED
    BY <1>10, <2>1, <2>3, <2>4 DEF BackfillRegion, TypeOK
<1>11. CASE UNCHANGED vars
  BY <1>11 DEF vars, TypeOK
<1> QED
  BY <1>1, <1>2, <1>3, <1>4, <1>5, <1>6, <1>7, <1>8, <1>9, <1>10, <1>11 DEF
     Next

\* Batches are named by the time of their registration.
LEMMA NamedStep ==
  ASSUME TypeOK, NamedInv, DistinctInv, RegisteredInv, ReferencesKept, [Next]_vars
  PROVE  NamedInv'
<1>1. ASSUME NEW w \in Writers, Begin(w) PROVE NamedInv'
  <2>1. clock + 1 \in Times /\ clock \in Nat
    BY <1>1, BoundsAssumption DEF Begin, TypeOK, Times
  <2>2. writer' = [writer EXCEPT ![w] = [Idle EXCEPT !.step = "fwi", !.batch = clock + 1]]
    BY <1>1 DEF Begin
  <2>3. writer'[w].batch = clock + 1 /\ \A v \in Writers : v # w => writer'[v] = writer[v]
    BY <2>2 DEF TypeOK, Idle
  <2> QED
    BY <1>1, <2>1, <2>3 DEF Begin, NamedInv, TypeOK, Job
<1>2. ASSUME NEW w \in Writers, WriteFwi(w) PROVE NamedInv'
  BY <1>2 DEF WriteFwi, PartOf, Goto, TypeOK, NamedInv, Times, Job, Idle
<1>3. ASSUME NEW w \in Writers, WriteScores(w) PROVE NamedInv'
  BY <1>3 DEF WriteScores, PartOf, AfterPart, TypeOK, NamedInv, Times, Job,
     Idle
<1>4. ASSUME NEW w \in Writers, Publish(w) PROVE NamedInv'
  BY <1>4 DEF Publish, Retain, Of, Superseded, Goto, TypeOK, NamedInv, Times,
     Job, Idle
<1>5. ASSUME NEW w \in Writers, Pin(w) PROVE NamedInv'
  BY <1>5 DEF Pin, Refers, TypeOK, NamedInv, Times, Job, Idle
<1>6. ASSUME NEW w \in Writers, EndCapture(w) PROVE NamedInv'
  BY <1>6 DEF EndCapture, Refers, Idle, TypeOK, NamedInv, Times, Job, Idle
<1>7. ASSUME NEW w \in Writers, AbortBatch(w) PROVE NamedInv'
  BY <1>7 DEF AbortBatch, Abort, Of, Idle, TypeOK, NamedInv, Times, Job, Idle
<1>8. ASSUME NEW w \in Writers, PartitionFails(w) PROVE NamedInv'
  BY <1>8 DEF PartitionFails, Goto, TypeOK, NamedInv, Times, Job, Idle
<1>9. ASSUME NEW w \in Writers, Stop(w) PROVE NamedInv'
  BY <1>9 DEF Stop, Idle, TypeOK, NamedInv, Times, Job, Idle
<1>10. CASE BackfillRegion
  BY <1>10 DEF BackfillRegion, TypeOK, NamedInv, Times, Job, Idle
<1>11. CASE UNCHANGED vars
  BY <1>11 DEF vars, TypeOK, NamedInv, Times, Job, Idle
<1> QED
  BY <1>1, <1>2, <1>3, <1>4, <1>5, <1>6, <1>7, <1>8, <1>9, <1>10, <1>11 DEF
     Next

\* Two writers never write the same batch.
LEMMA DistinctStep ==
  ASSUME TypeOK, NamedInv, DistinctInv, RegisteredInv, ReferencesKept, [Next]_vars
  PROVE  DistinctInv'
<1>1. ASSUME NEW w \in Writers, Begin(w) PROVE DistinctInv'
  <2>1. writer'[w].batch = clock + 1 /\ \A v \in Writers : v # w => writer'[v] = writer[v]
    BY <1>1 DEF Begin, TypeOK, Idle
  <2> QED
    BY <1>1, <2>1 DEF Begin, DistinctInv, NamedInv, TypeOK, Job
<1>2. ASSUME NEW w \in Writers, WriteFwi(w) PROVE DistinctInv'
  BY <1>2 DEF WriteFwi, PartOf, Goto, TypeOK, NamedInv, Times, Job,
     DistinctInv
<1>3. ASSUME NEW w \in Writers, WriteScores(w) PROVE DistinctInv'
  BY <1>3 DEF WriteScores, PartOf, AfterPart, TypeOK, NamedInv, Times, Job,
     DistinctInv
<1>4. ASSUME NEW w \in Writers, Publish(w) PROVE DistinctInv'
  BY <1>4 DEF Publish, Retain, Of, Superseded, Goto, TypeOK, NamedInv, Times,
     Job, DistinctInv
<1>5. ASSUME NEW w \in Writers, Pin(w) PROVE DistinctInv'
  BY <1>5 DEF Pin, Refers, TypeOK, NamedInv, Times, Job, DistinctInv
<1>6. ASSUME NEW w \in Writers, EndCapture(w) PROVE DistinctInv'
  BY <1>6 DEF EndCapture, Refers, Idle, TypeOK, NamedInv, Times, Job,
     DistinctInv
<1>7. ASSUME NEW w \in Writers, AbortBatch(w) PROVE DistinctInv'
  BY <1>7 DEF AbortBatch, Abort, Of, Idle, TypeOK, NamedInv, Times, Job,
     DistinctInv
<1>8. ASSUME NEW w \in Writers, PartitionFails(w) PROVE DistinctInv'
  BY <1>8 DEF PartitionFails, Goto, TypeOK, NamedInv, Times, Job, DistinctInv
<1>9. ASSUME NEW w \in Writers, Stop(w) PROVE DistinctInv'
  BY <1>9 DEF Stop, Idle, TypeOK, NamedInv, Times, Job, DistinctInv
<1>10. CASE BackfillRegion
  BY <1>10 DEF BackfillRegion, TypeOK, NamedInv, Times, Job, DistinctInv
<1>11. CASE UNCHANGED vars
  BY <1>11 DEF vars, TypeOK, NamedInv, Times, Job, DistinctInv
<1> QED
  BY <1>1, <1>2, <1>3, <1>4, <1>5, <1>6, <1>7, <1>8, <1>9, <1>10, <1>11 DEF
     Next

\* A batch is completed by its own writer's publication alone.
LEMMA RegisteredStep ==
  ASSUME TypeOK, NamedInv, DistinctInv, RegisteredInv, ReferencesKept, [Next]_vars
  PROVE  RegisteredInv'
<1>1. ASSUME NEW w \in Writers, Begin(w) PROVE RegisteredInv'
  <2>1. clock + 1 \in Times /\ clock \in Nat
    BY <1>1, BoundsAssumption DEF Begin, TypeOK, Times
  <2>2. /\ writer'[w].step = "fwi" /\ writer'[w].batch = clock + 1
        /\ \A v \in Writers : v # w => writer'[v] = writer[v]
    BY <1>1 DEF Begin, TypeOK, Idle
  <2>3. /\ batches'[clock + 1] = "running"
        /\ \A b \in Times : b # clock + 1 => batches'[b] = batches[b]
    BY <1>1, <2>1 DEF Begin, TypeOK
  <2>4. \A b \in Times : b > clock' => batches'[b] = "absent"
    BY <1>1, <2>1, <2>3 DEF Begin, RegisteredInv, Times
  <2>5. \A v \in Writers : writer[v].step # "idle" =>
          batches'[writer[v].batch] = batches[writer[v].batch]
    BY <2>1, <2>3 DEF NamedInv, TypeOK, Job, Times
  <2> QED
    BY <2>2, <2>3, <2>4, <2>5 DEF RegisteredInv
<1>2. ASSUME NEW w \in Writers, WriteFwi(w) PROVE RegisteredInv'
  BY <1>2 DEF WriteFwi, PartOf, Goto, TypeOK, NamedInv, Times, Job,
     DistinctInv, RegisteredInv, ReferencesKept
<1>3. ASSUME NEW w \in Writers, WriteScores(w) PROVE RegisteredInv'
  BY <1>3 DEF WriteScores, PartOf, AfterPart, TypeOK, NamedInv, Times, Job,
     DistinctInv, RegisteredInv, ReferencesKept
<1>4. ASSUME NEW w \in Writers, Publish(w) PROVE RegisteredInv'
  BY <1>4 DEF Publish, Retain, Of, Superseded, Goto, TypeOK, NamedInv, Times,
     Job, DistinctInv, RegisteredInv, ReferencesKept
<1>5. ASSUME NEW w \in Writers, Pin(w) PROVE RegisteredInv'
  BY <1>5 DEF Pin, Refers, TypeOK, NamedInv, Times, Job, DistinctInv,
     RegisteredInv, ReferencesKept
<1>6. ASSUME NEW w \in Writers, EndCapture(w) PROVE RegisteredInv'
  BY <1>6 DEF EndCapture, Refers, Idle, TypeOK, NamedInv, Times, Job,
     DistinctInv, RegisteredInv, ReferencesKept
<1>7. ASSUME NEW w \in Writers, AbortBatch(w) PROVE RegisteredInv'
  BY <1>7 DEF AbortBatch, Abort, Of, Idle, TypeOK, NamedInv, Times, Job,
     DistinctInv, RegisteredInv, ReferencesKept
<1>8. ASSUME NEW w \in Writers, PartitionFails(w) PROVE RegisteredInv'
  BY <1>8 DEF PartitionFails, Goto, TypeOK, NamedInv, Times, Job,
     DistinctInv, RegisteredInv, ReferencesKept
<1>9. ASSUME NEW w \in Writers, Stop(w) PROVE RegisteredInv'
  BY <1>9 DEF Stop, Idle, TypeOK, NamedInv, Times, Job, DistinctInv,
     RegisteredInv, ReferencesKept
<1>10. CASE BackfillRegion
  BY <1>10 DEF BackfillRegion, TypeOK, NamedInv, Times, Job, DistinctInv,
     RegisteredInv, ReferencesKept
<1>11. CASE UNCHANGED vars
  BY <1>11 DEF vars, TypeOK, NamedInv, Times, Job, DistinctInv,
     RegisteredInv, ReferencesKept
<1> QED
  BY <1>1, <1>2, <1>3, <1>4, <1>5, <1>6, <1>7, <1>8, <1>9, <1>10, <1>11 DEF
     Next

\* A publication or removal spares what is referred to.
LEMMA KeptStep ==
  ASSUME TypeOK, NamedInv, DistinctInv, RegisteredInv, ReferencesKept, [Next]_vars
  PROVE  ReferencesKept'
<1>1. ASSUME NEW w \in Writers, Begin(w) PROVE ReferencesKept'
  BY <1>1 DEF Begin, Idle, TypeOK, NamedInv, Times, Job, DistinctInv,
     RegisteredInv, ReferencesKept
<1>2. ASSUME NEW w \in Writers, WriteFwi(w) PROVE ReferencesKept'
  BY <1>2 DEF WriteFwi, PartOf, Goto, TypeOK, NamedInv, Times, Job,
     DistinctInv, RegisteredInv, ReferencesKept
<1>3. ASSUME NEW w \in Writers, WriteScores(w) PROVE ReferencesKept'
  BY <1>3 DEF WriteScores, PartOf, AfterPart, TypeOK, NamedInv, Times, Job,
     DistinctInv, RegisteredInv, ReferencesKept
<1>4. ASSUME NEW w \in Writers, Publish(w) PROVE ReferencesKept'
  BY <1>4 DEF Publish, Retain, Of, Superseded, Goto, TypeOK, NamedInv, Times,
     Job, DistinctInv, RegisteredInv, ReferencesKept
<1>5. ASSUME NEW w \in Writers, Pin(w) PROVE ReferencesKept'
  BY <1>5 DEF Pin, Refers, TypeOK, NamedInv, Times, Job, DistinctInv,
     RegisteredInv, ReferencesKept
<1>6. ASSUME NEW w \in Writers, EndCapture(w) PROVE ReferencesKept'
  <2>1. batches[writer[w].batch] \in {"absent", "completed"}
    BY <1>6 DEF EndCapture, RegisteredInv, NamedInv, TypeOK
  <2> QED
    BY <1>6, <2>1 DEF EndCapture, Refers, ReferencesKept
<1>7. ASSUME NEW w \in Writers, AbortBatch(w) PROVE ReferencesKept'
  BY <1>7 DEF AbortBatch, Abort, Of, Idle, TypeOK, NamedInv, Times, Job,
     DistinctInv, RegisteredInv, ReferencesKept
<1>8. ASSUME NEW w \in Writers, PartitionFails(w) PROVE ReferencesKept'
  BY <1>8 DEF PartitionFails, Goto, TypeOK, NamedInv, Times, Job,
     DistinctInv, RegisteredInv, ReferencesKept
<1>9. ASSUME NEW w \in Writers, Stop(w) PROVE ReferencesKept'
  BY <1>9 DEF Stop, Idle, TypeOK, NamedInv, Times, Job, DistinctInv,
     RegisteredInv, ReferencesKept
<1>10. CASE BackfillRegion
  BY <1>10 DEF BackfillRegion, TypeOK, NamedInv, Times, Job, DistinctInv,
     RegisteredInv, ReferencesKept
<1>11. CASE UNCHANGED vars
  BY <1>11 DEF vars, TypeOK, NamedInv, Times, Job, DistinctInv,
     RegisteredInv, ReferencesKept
<1> QED
  BY <1>1, <1>2, <1>3, <1>4, <1>5, <1>6, <1>7, <1>8, <1>9, <1>10, <1>11 DEF
     Next

\* What is registered agrees with what is written and referred to, however
\* many processes write.
THEOREM SharedCorrect == Spec => []SharedInv
<1>1. ASSUME Init PROVE SharedInv
  <2>1. Idle \in Job
    BY ShapeAssumption, BoundsAssumption DEF Idle, Job
  <2>2. TypeOK
    BY <1>1, <2>1, ShapeAssumption, BoundsAssumption DEF Init, TypeOK, Times, Parts
  <2>3. NamedInv /\ DistinctInv /\ RegisteredInv /\ ReferencesKept
    BY <1>1 DEF Init, NamedInv, DistinctInv, RegisteredInv, ReferencesKept, Idle
  <2> QED
    BY <2>2, <2>3 DEF SharedInv
<1>2. SharedInv /\ [Next]_vars => SharedInv'
  BY TypeStep, NamedStep, DistinctStep, RegisteredStep, KeptStep DEF SharedInv
<1> QED
  BY <1>1, <1>2, PTL DEF Spec

\* No publication, of any number of writers, deletes the registration of a
\* batch that a snapshot or a bulletin refers to: the foreign key holds.
THEOREM ReferencesHold == Spec => []ReferencesKept
<1>1. SharedInv => ReferencesKept
  BY DEF SharedInv
<1> QED
  BY <1>1, SharedCorrect, PTL

-----------------------------------------------------------------------------
(* When one process writes forecasts.                                      *)

\* One process writes forecasts.
OneWriter == \A v, w \in Writers : v = w

\* Every part of a batch is stored, or none.
Filled(b) == \A r \in 1..Regions, h \in 1..Horizons : <<b, r, h>> \in scores \cap fwi
Bare(b) == \A p \in fwi \cup scores : p[1] # b

\* Nothing is registered or stored for a time that has not come.
ClockInv ==
  /\ \A p \in fwi \cup scores : p[1] <= clock
  /\ \A b \in Times : b > clock => batches[b] = "absent"
  /\ \A w \in Writers :
       /\ writer[w].batch <= clock
       /\ refill = 0 /\ writer[w].step # "idle" => writer[w].batch = clock

\* The batch of a writer is registered as the step it has reached says.
StatusInv ==
  \A w \in Writers : LET j == writer[w] IN
    /\ j.step = "idle" => j.batch = 0
    /\ j.step # "idle" => j.batch \in Times
    /\ j.step \in {"fwi", "scores", "publish", "abort"} => batches[j.batch] = "running"
    /\ j.step = "capture" => batches[j.batch] = "completed"

\* What a writer has written so far.
ProgressInv ==
  \A w \in Writers : LET j == writer[w] IN
    /\ j.step \in {"fwi", "scores"} =>
         \A r \in 1..Regions, h \in 1..Horizons :
           r < j.region \/ (r = j.region /\ h < j.horizon) =>
             <<j.batch, r, h>> \in scores \cap fwi
    /\ j.step = "scores" => PartOf(w) \in fwi
    /\ j.step = "publish" => Filled(j.batch)
    /\ j.step = "capture" =>
         /\ Filled(j.batch)
         /\ refill = 0 => \A p \in fwi \cup scores : p[1] = j.batch

\* Completed batches are whole, but for those whose rows a publication deleted
\* and whose registration an archive keeps; one of them at most has rows.
CompletedInv ==
  /\ \A b \in Times : batches[b] = "completed" => Filled(b) \/ Bare(b)
  /\ \A p, q \in fwi \cup scores :
       batches[p[1]] = "completed" /\ batches[q[1]] = "completed" => p[1] = q[1]

\* Rows without a registered batch are those of the backfill command.
OrphanInv ==
  /\ \A p \in scores : batches[p[1]] = "absent" => refill # 0 /\ p[3] = 1
  /\ \A p \in fwi : batches[p[1]] # "absent"

\* The batches that faults left half-written.
Debris ==
  {b \in Times : batches[b] = "running" /\ ~Bare(b) /\ \A w \in Writers : writer[w].batch # b}

DebrisInv == Cardinality(Debris) <= faults

\* The inductive invariant.
BatchInv == SharedInv /\ ClockInv /\ StatusInv
ForecastInv == BatchInv /\ ProgressInv /\ CompletedInv /\ OrphanInv /\ DebrisInv

-----------------------------------------------------------------------------
(* What each action does to the invariant.                                 *)

\* With one writer, the batch being written is the latest one registered.
LEMMA ClockStep ==
  ASSUME OneWriter, TypeOK, ClockInv, StatusInv, ReferencesKept, [Next]_vars
  PROVE  ClockInv'
<1>1. ASSUME NEW w \in Writers, Begin(w) PROVE ClockInv'
  <2>1. clock + 1 \in Times /\ clock \in Nat
    BY <1>1, BoundsAssumption DEF Begin, TypeOK, Times
  <2>2. \A v \in Writers : v = w /\ writer'[v].batch = clock + 1
    BY <1>1 DEF Begin, OneWriter, TypeOK, Idle
  <2>3. \A p \in fwi \cup scores : p[1] <= clock + 1
    BY <2>1 DEF ClockInv, TypeOK, Parts, Times
  <2>4. \A b \in Times : b > clock + 1 => batches'[b] = "absent"
    BY <1>1, <2>1 DEF Begin, ClockInv, TypeOK, Times
  <2> QED
    BY <1>1, <2>1, <2>2, <2>3, <2>4 DEF Begin, ClockInv
<1>2. ASSUME NEW w \in Writers, WriteFwi(w) PROVE ClockInv'
  BY <1>2 DEF WriteFwi, PartOf, Goto, ClockInv, TypeOK, Times, Parts, Job,
     OneWriter, StatusInv, ReferencesKept
<1>3. ASSUME NEW w \in Writers, WriteScores(w) PROVE ClockInv'
  BY <1>3 DEF WriteScores, PartOf, AfterPart, ClockInv, TypeOK, Times, Parts,
     Job, OneWriter, StatusInv, ReferencesKept
<1>4. ASSUME NEW w \in Writers, Publish(w) PROVE ClockInv'
  BY <1>4 DEF Publish, Retain, Of, Superseded, Goto, ClockInv, TypeOK, Times,
     Parts, Job, OneWriter, StatusInv, ReferencesKept
<1>5. ASSUME NEW w \in Writers, Pin(w) PROVE ClockInv'
  BY <1>5 DEF Pin, Refers, ClockInv, TypeOK, Times, Parts, Job, OneWriter,
     StatusInv, ReferencesKept
<1>6. ASSUME NEW w \in Writers, EndCapture(w) PROVE ClockInv'
  BY <1>6 DEF EndCapture, Refers, Idle, ClockInv, TypeOK, Times, Parts, Job,
     OneWriter, StatusInv, ReferencesKept
<1>7. ASSUME NEW w \in Writers, AbortBatch(w) PROVE ClockInv'
  BY <1>7 DEF AbortBatch, Abort, Of, Idle, ClockInv, TypeOK, Times, Parts,
     Job, OneWriter, StatusInv, ReferencesKept
<1>8. ASSUME NEW w \in Writers, PartitionFails(w) PROVE ClockInv'
  BY <1>8 DEF PartitionFails, Goto, ClockInv, TypeOK, Times, Parts, Job,
     OneWriter, StatusInv, ReferencesKept
<1>9. ASSUME NEW w \in Writers, Stop(w) PROVE ClockInv'
  BY <1>9 DEF Stop, Idle, ClockInv, TypeOK, Times, Parts, Job, OneWriter,
     StatusInv, ReferencesKept
<1>10. CASE BackfillRegion
  BY <1>10 DEF BackfillRegion, ClockInv, TypeOK, Times, Parts, Job,
     OneWriter, StatusInv, ReferencesKept
<1>11. CASE UNCHANGED vars
  BY <1>11 DEF vars, ClockInv, TypeOK, Times, Parts, Job, OneWriter,
     StatusInv, ReferencesKept
<1> QED
  BY <1>1, <1>2, <1>3, <1>4, <1>5, <1>6, <1>7, <1>8, <1>9, <1>10, <1>11 DEF
     Next

\* A batch stays registered as its writer left it.
LEMMA StatusStep ==
  ASSUME OneWriter, TypeOK, ClockInv, StatusInv, ReferencesKept, [Next]_vars
  PROVE  StatusInv'
<1>1. ASSUME NEW w \in Writers, Begin(w) PROVE StatusInv'
  <2>1. clock + 1 \in Times
    BY <1>1, BoundsAssumption DEF Begin, TypeOK, Times
  <2>2. \A v \in Writers : v = w /\ writer'[v].step = "fwi" /\ writer'[v].batch = clock + 1
    BY <1>1 DEF Begin, OneWriter, TypeOK, Idle
  <2>3. batches'[clock + 1] = "running"
    BY <1>1, <2>1 DEF Begin, TypeOK
  <2> QED
    BY <2>1, <2>2, <2>3 DEF StatusInv
<1>2. ASSUME NEW w \in Writers, WriteFwi(w) PROVE StatusInv'
  BY <1>2 DEF WriteFwi, PartOf, Goto, ClockInv, TypeOK, Times, Parts, Job,
     OneWriter, StatusInv, ReferencesKept
<1>3. ASSUME NEW w \in Writers, WriteScores(w) PROVE StatusInv'
  BY <1>3 DEF WriteScores, PartOf, AfterPart, ClockInv, TypeOK, Times, Parts,
     Job, OneWriter, StatusInv, ReferencesKept
<1>4. ASSUME NEW w \in Writers, Publish(w) PROVE StatusInv'
  BY <1>4 DEF Publish, Retain, Of, Superseded, Goto, ClockInv, TypeOK, Times,
     Parts, Job, OneWriter, StatusInv, ReferencesKept
<1>5. ASSUME NEW w \in Writers, Pin(w) PROVE StatusInv'
  BY <1>5 DEF Pin, Refers, ClockInv, TypeOK, Times, Parts, Job, OneWriter,
     StatusInv, ReferencesKept
<1>6. ASSUME NEW w \in Writers, EndCapture(w) PROVE StatusInv'
  BY <1>6 DEF EndCapture, Refers, Idle, ClockInv, TypeOK, Times, Parts, Job,
     OneWriter, StatusInv, ReferencesKept
<1>7. ASSUME NEW w \in Writers, AbortBatch(w) PROVE StatusInv'
  BY <1>7 DEF AbortBatch, Abort, Of, Idle, ClockInv, TypeOK, Times, Parts,
     Job, OneWriter, StatusInv, ReferencesKept
<1>8. ASSUME NEW w \in Writers, PartitionFails(w) PROVE StatusInv'
  BY <1>8 DEF PartitionFails, Goto, ClockInv, TypeOK, Times, Parts, Job,
     OneWriter, StatusInv, ReferencesKept
<1>9. ASSUME NEW w \in Writers, Stop(w) PROVE StatusInv'
  BY <1>9 DEF Stop, Idle, ClockInv, TypeOK, Times, Parts, Job, OneWriter,
     StatusInv, ReferencesKept
<1>10. CASE BackfillRegion
  BY <1>10 DEF BackfillRegion, ClockInv, TypeOK, Times, Parts, Job,
     OneWriter, StatusInv, ReferencesKept
<1>11. CASE UNCHANGED vars
  BY <1>11 DEF vars, ClockInv, TypeOK, Times, Parts, Job, OneWriter,
     StatusInv, ReferencesKept
<1> QED
  BY <1>1, <1>2, <1>3, <1>4, <1>5, <1>6, <1>7, <1>8, <1>9, <1>10, <1>11 DEF
     Next

\* The writer goes through the parts in order and publishes after the last.
LEMMA ProgressStep ==
  ASSUME OneWriter, TypeOK, ClockInv, StatusInv, ReferencesKept, ProgressInv,
         CompletedInv, OrphanInv, [Next]_vars
  PROVE  ProgressInv'
<1>1. ASSUME NEW w \in Writers, Begin(w) PROVE ProgressInv'
  BY <1>1 DEF Begin, Idle, ClockInv, TypeOK, Times, Parts, Job, OneWriter,
     StatusInv, ReferencesKept, ProgressInv, PartOf, Filled, OrphanInv
<1>2. ASSUME NEW w \in Writers, WriteFwi(w) PROVE ProgressInv'
  BY <1>2 DEF WriteFwi, PartOf, Goto, ClockInv, TypeOK, Times, Parts, Job,
     OneWriter, StatusInv, ReferencesKept, ProgressInv, PartOf, Filled,
     OrphanInv
<1>3. ASSUME NEW w \in Writers, WriteScores(w) PROVE ProgressInv'
  <2>1. \A v \in Writers : v = w /\ writer'[v] = AfterPart(writer[w])
    BY <1>3 DEF WriteScores, OneWriter, TypeOK
  <2> DEFINE j == writer[w]
             k == AfterPart(j)
             done(r, h) == <<j.batch, r, h>> \in scores' \cap fwi'
  <2>2. /\ j \in Job /\ k.batch = j.batch /\ k.step \in {"fwi", "publish"}
        /\ k.step = "publish" => j.region = Regions /\ j.horizon = Horizons
        /\ k.step = "fwi" =>
             \/ k.region = j.region /\ k.horizon = j.horizon + 1
             \/ k.region = j.region + 1 /\ k.horizon = 1 /\ j.horizon = Horizons
    BY <1>3, ShapeAssumption DEF AfterPart, TypeOK, Job
  <2>3. done(j.region, j.horizon)
    BY <1>3 DEF WriteScores, PartOf, ProgressInv
  <2>4. \A r \in 1..Regions, h \in 1..Horizons :
          r < j.region \/ (r = j.region /\ h < j.horizon) => done(r, h)
    BY <1>3 DEF WriteScores, ProgressInv
  <2>5. \A r \in 1..Regions, h \in 1..Horizons :
          r < j.region \/ (r = j.region /\ h <= j.horizon) => done(r, h)
    BY <2>2, <2>3, <2>4 DEF Job
  <2>6. CASE k.step = "fwi"
    <3>1. \A r \in 1..Regions, h \in 1..Horizons :
            r < k.region \/ (r = k.region /\ h < k.horizon) => done(r, h)
      BY <2>2, <2>5, <2>6 DEF Job
    <3> QED
      BY <2>1, <2>2, <2>6, <3>1 DEF ProgressInv
  <2>7. CASE k.step = "publish"
    <3>1. \A r \in 1..Regions, h \in 1..Horizons : done(r, h)
      BY <2>2, <2>5, <2>7 DEF Job
    <3> QED
      BY <2>1, <2>2, <2>7, <3>1 DEF ProgressInv, Filled
  <2> QED
    BY <2>2, <2>6, <2>7
<1>4. ASSUME NEW w \in Writers, Publish(w) PROVE ProgressInv'
  BY <1>4 DEF Publish, Retain, Of, Superseded, Goto, ClockInv, TypeOK, Times,
     Parts, Job, OneWriter, StatusInv, ReferencesKept, ProgressInv, PartOf,
     Filled, OrphanInv
<1>5. ASSUME NEW w \in Writers, Pin(w) PROVE ProgressInv'
  BY <1>5 DEF Pin, Refers, ClockInv, TypeOK, Times, Parts, Job, OneWriter,
     StatusInv, ReferencesKept, ProgressInv, PartOf, Filled, OrphanInv
<1>6. ASSUME NEW w \in Writers, EndCapture(w) PROVE ProgressInv'
  BY <1>6 DEF EndCapture, Refers, Idle, ClockInv, TypeOK, Times, Parts, Job,
     OneWriter, StatusInv, ReferencesKept, ProgressInv, PartOf, Filled,
     OrphanInv
<1>7. ASSUME NEW w \in Writers, AbortBatch(w) PROVE ProgressInv'
  BY <1>7 DEF AbortBatch, Abort, Of, Idle, ClockInv, TypeOK, Times, Parts,
     Job, OneWriter, StatusInv, ReferencesKept, ProgressInv, PartOf, Filled,
     OrphanInv
<1>8. ASSUME NEW w \in Writers, PartitionFails(w) PROVE ProgressInv'
  BY <1>8 DEF PartitionFails, Goto, ClockInv, TypeOK, Times, Parts, Job,
     OneWriter, StatusInv, ReferencesKept, ProgressInv, PartOf, Filled,
     OrphanInv
<1>9. ASSUME NEW w \in Writers, Stop(w) PROVE ProgressInv'
  BY <1>9 DEF Stop, Idle, ClockInv, TypeOK, Times, Parts, Job, OneWriter,
     StatusInv, ReferencesKept, ProgressInv, PartOf, Filled, OrphanInv
<1>10. CASE BackfillRegion
  BY <1>10 DEF BackfillRegion, ClockInv, TypeOK, Times, Parts, Job,
     OneWriter, StatusInv, ReferencesKept, ProgressInv, PartOf, Filled,
     OrphanInv
<1>11. CASE UNCHANGED vars
  BY <1>11 DEF vars, ClockInv, TypeOK, Times, Parts, Job, OneWriter,
     StatusInv, ReferencesKept, ProgressInv, PartOf, Filled, OrphanInv
<1> QED
  BY <1>1, <1>2, <1>3, <1>4, <1>5, <1>6, <1>7, <1>8, <1>9, <1>10, <1>11 DEF
     Next

\* Completed batches keep their rows where only others are written.
LEMMA CompletedKept ==
  ASSUME TypeOK', CompletedInv,
         \A b \in Times : batches'[b] = "completed" =>
           /\ batches[b] = "completed"
           /\ Of(fwi', b) = Of(fwi, b) /\ Of(scores', b) = Of(scores, b)
  PROVE  CompletedInv'
<1>1. \A p \in fwi' \cup scores' : p[1] \in Times
  BY DEF TypeOK, Parts
<1>2. \A p \in fwi' \cup scores' : batches'[p[1]] = "completed" =>
        batches[p[1]] = "completed" /\ p \in fwi \cup scores
  BY <1>1 DEF Of
<1>3. ASSUME NEW b \in Times, batches'[b] = "completed" PROVE Filled(b)' \/ Bare(b)'
  <2>1. CASE Filled(b)
    <3>1. \A r \in 1..Regions, h \in 1..Horizons :
            <<b, r, h>> \in Of(fwi, b) \cap Of(scores, b)
      BY <2>1 DEF Filled, Of
    <3> QED
      BY <1>3, <3>1 DEF Filled, Of
  <2>2. CASE Bare(b)
    BY <1>3, <2>2 DEF Bare, Of
  <2> QED
    BY <1>3, <2>1, <2>2 DEF CompletedInv
<1> QED
  BY <1>2, <1>3 DEF CompletedInv

\* A publication leaves its own rows, a whole batch, and no others.
LEMMA CompletedStep ==
  ASSUME OneWriter, TypeOK, ClockInv, StatusInv, ReferencesKept, ProgressInv,
         CompletedInv, OrphanInv, TypeOK', [Next]_vars
  PROVE  CompletedInv'
<1>1. ASSUME NEW w \in Writers, Begin(w) PROVE CompletedInv'
  <2>1. batches[clock + 1] = "absent"
    BY <1>1, BoundsAssumption DEF Begin, ClockInv, TypeOK, Times
  <2>2. \A b \in Times : batches'[b] = "completed" => batches[b] = "completed"
    BY <1>1, <2>1 DEF Begin, TypeOK
  <2> QED
    BY <1>1, <2>2, CompletedKept DEF Begin
<1>2. ASSUME NEW w \in Writers, WriteFwi(w) PROVE CompletedInv'
  <2>1. batches[PartOf(w)[1]] = "running"
    BY <1>2 DEF WriteFwi, PartOf, StatusInv
  <2> QED
    BY <1>2, <2>1, CompletedKept DEF WriteFwi, Of
<1>3. ASSUME NEW w \in Writers, WriteScores(w) PROVE CompletedInv'
  <2>1. batches[PartOf(w)[1]] = "running"
    BY <1>3 DEF WriteScores, PartOf, StatusInv
  <2> QED
    BY <1>3, <2>1, CompletedKept DEF WriteScores, Of
<1>4. ASSUME NEW w \in Writers, Publish(w) PROVE CompletedInv'
  <2>1. PICK b : b = writer[w].batch
    OBVIOUS
  <2>2. b \in Times /\ Filled(b)
    BY <1>4, <2>1 DEF Publish, StatusInv, ProgressInv
  <2>3. fwi' = Of(fwi, b) /\ scores' = Of(scores, b)
    BY <1>4, <2>1 DEF Publish, Retain
  <2>4. \A p \in fwi' \cup scores' : p[1] = b
    BY <2>3 DEF Of
  <2>5. Filled(b)'
    BY <2>2, <2>3 DEF Filled, Of
  <2>6. \A c \in Times : c # b => Bare(c)'
    BY <2>4 DEF Bare
  <2> QED
    BY <2>2, <2>4, <2>5, <2>6 DEF CompletedInv
<1>5. ASSUME NEW w \in Writers, Pin(w) PROVE CompletedInv'
  BY <1>5, CompletedKept DEF Pin
<1>6. ASSUME NEW w \in Writers, EndCapture(w) PROVE CompletedInv'
  BY <1>6, CompletedKept DEF EndCapture
<1>7. ASSUME NEW w \in Writers, AbortBatch(w) PROVE CompletedInv'
  <2>1. \A b \in Times : batches'[b] = "completed" =>
          batches[b] = "completed" /\ b # writer[w].batch
    BY <1>7 DEF AbortBatch, Abort, TypeOK, StatusInv
  <2> QED
    BY <1>7, <2>1, CompletedKept DEF AbortBatch, Abort, Of
<1>8. ASSUME NEW w \in Writers, PartitionFails(w) PROVE CompletedInv'
  BY <1>8, CompletedKept DEF PartitionFails
<1>9. ASSUME NEW w \in Writers, Stop(w) PROVE CompletedInv'
  BY <1>9, CompletedKept DEF Stop
<1>10. CASE BackfillRegion
  <2>1. batches[clock + 1] = "absent"
    BY <1>10, BoundsAssumption DEF BackfillRegion, ClockInv, TypeOK, Times
  <2> QED
    BY <1>10, <2>1, CompletedKept DEF BackfillRegion, Of
<1>11. CASE UNCHANGED vars
  BY <1>11 DEF vars, ClockInv, TypeOK, Times, Parts, Job, OneWriter,
     StatusInv, ReferencesKept, CompletedInv, ProgressInv, Filled, Bare,
     PartOf
<1> QED
  BY <1>1, <1>2, <1>3, <1>4, <1>5, <1>6, <1>7, <1>8, <1>9, <1>10, <1>11 DEF
     Next

\* Rows go with the registration of their batch.
LEMMA OrphanStep ==
  ASSUME OneWriter, TypeOK, ClockInv, StatusInv, ReferencesKept, ProgressInv,
         CompletedInv, OrphanInv, [Next]_vars
  PROVE  OrphanInv'
<1>1. ASSUME NEW w \in Writers, Begin(w) PROVE OrphanInv'
  BY <1>1 DEF Begin, Idle, ClockInv, TypeOK, Times, Parts, Job, OneWriter,
     StatusInv, ReferencesKept, OrphanInv, PartOf
<1>2. ASSUME NEW w \in Writers, WriteFwi(w) PROVE OrphanInv'
  BY <1>2 DEF WriteFwi, PartOf, Goto, ClockInv, TypeOK, Times, Parts, Job,
     OneWriter, StatusInv, ReferencesKept, OrphanInv, PartOf
<1>3. ASSUME NEW w \in Writers, WriteScores(w) PROVE OrphanInv'
  BY <1>3 DEF WriteScores, PartOf, AfterPart, ClockInv, TypeOK, Times, Parts,
     Job, OneWriter, StatusInv, ReferencesKept, OrphanInv, PartOf
<1>4. ASSUME NEW w \in Writers, Publish(w) PROVE OrphanInv'
  BY <1>4 DEF Publish, Retain, Of, Superseded, Goto, ClockInv, TypeOK, Times,
     Parts, Job, OneWriter, StatusInv, ReferencesKept, OrphanInv, PartOf
<1>5. ASSUME NEW w \in Writers, Pin(w) PROVE OrphanInv'
  BY <1>5 DEF Pin, Refers, ClockInv, TypeOK, Times, Parts, Job, OneWriter,
     StatusInv, ReferencesKept, OrphanInv, PartOf
<1>6. ASSUME NEW w \in Writers, EndCapture(w) PROVE OrphanInv'
  BY <1>6 DEF EndCapture, Refers, Idle, ClockInv, TypeOK, Times, Parts, Job,
     OneWriter, StatusInv, ReferencesKept, OrphanInv, PartOf
<1>7. ASSUME NEW w \in Writers, AbortBatch(w) PROVE OrphanInv'
  BY <1>7 DEF AbortBatch, Abort, Of, Idle, ClockInv, TypeOK, Times, Parts,
     Job, OneWriter, StatusInv, ReferencesKept, OrphanInv, PartOf
<1>8. ASSUME NEW w \in Writers, PartitionFails(w) PROVE OrphanInv'
  BY <1>8 DEF PartitionFails, Goto, ClockInv, TypeOK, Times, Parts, Job,
     OneWriter, StatusInv, ReferencesKept, OrphanInv, PartOf
<1>9. ASSUME NEW w \in Writers, Stop(w) PROVE OrphanInv'
  BY <1>9 DEF Stop, Idle, ClockInv, TypeOK, Times, Parts, Job, OneWriter,
     StatusInv, ReferencesKept, OrphanInv, PartOf
<1>10. CASE BackfillRegion
  BY <1>10 DEF BackfillRegion, ClockInv, TypeOK, Times, Parts, Job,
     OneWriter, StatusInv, ReferencesKept, OrphanInv, PartOf
<1>11. CASE UNCHANGED vars
  BY <1>11 DEF vars, ClockInv, TypeOK, Times, Parts, Job, OneWriter,
     StatusInv, ReferencesKept, OrphanInv, PartOf
<1> QED
  BY <1>1, <1>2, <1>3, <1>4, <1>5, <1>6, <1>7, <1>8, <1>9, <1>10, <1>11 DEF
     Next

\* The batches are finitely many.
LEMMA DebrisFinite == IsFiniteSet(Debris)
<1>1. IsFiniteSet(Times)
  BY BoundsAssumption, FS_Interval DEF Times
<1> QED
  BY <1>1, FS_Subset DEF Debris

\* Nothing is left behind by an action that leaves no new batch half-written.
LEMMA DebrisKept ==
  ASSUME TypeOK, DebrisInv, faults' = faults, Debris' \subseteq Debris
  PROVE  DebrisInv'
<1>1. Cardinality(Debris') <= Cardinality(Debris) /\ Cardinality(Debris) \in Nat
      /\ Cardinality(Debris') \in Nat
  BY DebrisFinite, FS_Subset, FS_CardinalityType
<1> QED
  BY <1>1 DEF DebrisInv, TypeOK

\* Only a fault leaves a half-written batch without a writer.
LEMMA DebrisStep ==
  ASSUME OneWriter, TypeOK, ClockInv, StatusInv, ReferencesKept, ProgressInv,
         CompletedInv, OrphanInv, DebrisInv, [Next]_vars
  PROVE  DebrisInv'
<1>1. ASSUME NEW w \in Writers, Begin(w) PROVE DebrisInv'
  <2>1. batches[clock + 1] = "absent" /\ \A p \in fwi \cup scores : p[1] # clock + 1
    BY <1>1, BoundsAssumption DEF Begin, ClockInv, TypeOK, Times, Parts
  <2>2. ASSUME NEW b \in Debris' PROVE b \in Debris
    <3>1. b # clock + 1
      BY <1>1, <2>1 DEF Begin, Debris, Bare
    <3>2. b # 0 /\ writer[w].batch = 0
      BY <1>1 DEF Begin, Debris, StatusInv, Times
    <3> QED
      BY <1>1, <3>1, <3>2 DEF Begin, Debris, Bare, TypeOK, OneWriter
  <2> QED
    BY <1>1, <2>2, DebrisKept DEF Begin
<1>2. ASSUME NEW w \in Writers, WriteFwi(w) PROVE DebrisInv'
  <2>1. writer'[w].batch = writer[w].batch
    BY <1>2 DEF WriteFwi, PartOf, Goto, TypeOK, Job
  <2>2. ASSUME NEW b \in Debris' PROVE b \in Debris
    BY <1>2, <2>1 DEF WriteFwi, PartOf, Debris, Bare, OneWriter
  <2> QED
    BY <1>2, <2>2, DebrisKept DEF WriteFwi
<1>3. ASSUME NEW w \in Writers, WriteScores(w) PROVE DebrisInv'
  <2>1. writer'[w].batch = writer[w].batch
    BY <1>3 DEF WriteScores, PartOf, AfterPart, TypeOK, Job
  <2>2. ASSUME NEW b \in Debris' PROVE b \in Debris
    BY <1>3, <2>1 DEF WriteScores, PartOf, Debris, Bare, OneWriter
  <2> QED
    BY <1>3, <2>2, DebrisKept DEF WriteScores
<1>4. ASSUME NEW w \in Writers, Publish(w) PROVE DebrisInv'
  <2>1. Debris' = {}
    BY <1>4 DEF Publish, Retain, Of, Debris, Bare, TypeOK
  <2> QED
    BY <1>4, <2>1, DebrisKept DEF Publish
<1>5. ASSUME NEW w \in Writers, Pin(w) PROVE DebrisInv'
  BY <1>5, DebrisKept DEF Pin, Debris, Bare
<1>6. ASSUME NEW w \in Writers, EndCapture(w) PROVE DebrisInv'
  <2>1. batches[writer[w].batch] = "completed"
    BY <1>6 DEF EndCapture, StatusInv
  <2>2. ASSUME NEW b \in Debris' PROVE b \in Debris
    BY <1>6, <2>1 DEF EndCapture, Debris, Bare, OneWriter
  <2> QED
    BY <1>6, <2>2, DebrisKept DEF EndCapture
<1>7. ASSUME NEW w \in Writers, AbortBatch(w) PROVE DebrisInv'
  <2>1. ASSUME NEW b \in Debris' PROVE b \in Debris
    <3>1. b # writer[w].batch /\ batches[b] = "running"
      BY <1>7 DEF AbortBatch, Abort, Debris, TypeOK
    <3> QED
      BY <1>7, <3>1 DEF AbortBatch, Abort, Of, Debris, Bare, OneWriter
  <2> QED
    BY <1>7, <2>1, DebrisKept DEF AbortBatch
<1>8. ASSUME NEW w \in Writers, PartitionFails(w) PROVE DebrisInv'
  <2>1. writer'[w].batch = writer[w].batch
    BY <1>8 DEF PartitionFails, Goto, TypeOK, Job
  <2> QED
    BY <1>8, <2>1, DebrisKept DEF PartitionFails, Debris, Bare, OneWriter
<1>9. ASSUME NEW w \in Writers, Stop(w) PROVE DebrisInv'
  <2>1. Debris' \subseteq Debris \cup {writer[w].batch}
    BY <1>9 DEF Stop, Debris, Bare, OneWriter
  <2>2. IsFiniteSet(Debris)
    BY DebrisFinite
  <2>3. /\ Cardinality(Debris \cup {writer[w].batch}) <= Cardinality(Debris) + 1
        /\ IsFiniteSet(Debris \cup {writer[w].batch}) /\ Cardinality(Debris) \in Nat
    <3>1. /\ IsFiniteSet(Debris \cup {writer[w].batch})
          /\ Cardinality(Debris \cup {writer[w].batch}) =
               IF writer[w].batch \in Debris THEN Cardinality(Debris) ELSE Cardinality(Debris) + 1
      BY <2>2, FS_AddElement
    <3>2. Cardinality(Debris) \in Nat
      BY <2>2, FS_CardinalityType
    <3> QED
      BY <3>1, <3>2
  <2>4. /\ Cardinality(Debris') <= Cardinality(Debris \cup {writer[w].batch})
        /\ Cardinality(Debris') \in Nat /\ Cardinality(Debris \cup {writer[w].batch}) \in Nat
    BY <2>1, <2>3, FS_Subset, FS_CardinalityType
  <2> QED
    BY <1>9, <2>3, <2>4 DEF Stop, DebrisInv, TypeOK
<1>10. CASE BackfillRegion
  <2>1. batches[clock + 1] = "absent"
    BY <1>10, BoundsAssumption DEF BackfillRegion, ClockInv, TypeOK, Times
  <2>2. ASSUME NEW b \in Debris' PROVE b \in Debris
    BY <1>10, <2>1 DEF BackfillRegion, Debris, Bare
  <2> QED
    BY <1>10, <2>2, DebrisKept DEF BackfillRegion
<1>11. CASE UNCHANGED vars
  BY <1>11, DebrisKept DEF vars, Debris, Bare
<1> QED
  BY <1>1, <1>2, <1>3, <1>4, <1>5, <1>6, <1>7, <1>8, <1>9, <1>10, <1>11 DEF
     Next

-----------------------------------------------------------------------------
(* The invariant of the writer, its batches and their rows.                *)

\* Nothing is registered or stored at first.
LEMMA ForecastInit ==
  ASSUME Init, SharedInv
  PROVE  ForecastInv
<1>1. ClockInv /\ StatusInv
  BY BoundsAssumption DEF Init, ClockInv, StatusInv, Idle, Times
<1>2. ProgressInv /\ CompletedInv /\ OrphanInv
  BY DEF Init, ProgressInv,
         CompletedInv, OrphanInv, Idle
<1>3. DebrisInv
  <2>1. Debris = {}
    BY DEF Init, Debris, Bare
  <2> QED
    BY <2>1, FS_EmptySet DEF Init, DebrisInv
<1> QED
  BY <1>1, <1>2, <1>3 DEF ForecastInv, BatchInv

\* The parts of the invariant are kept together.
LEMMA ForecastStep ==
  ASSUME OneWriter, ForecastInv, SharedInv', [Next]_vars
  PROVE  ForecastInv'
BY ClockStep, StatusStep, ProgressStep, CompletedStep, OrphanStep, DebrisStep
   DEF ForecastInv, BatchInv, SharedInv

\* The inductive invariant of the forecast.
THEOREM ForecastCorrect ==
  ASSUME OneWriter
  PROVE  Spec => []ForecastInv
<1>1. Init /\ SharedInv => ForecastInv
  BY ForecastInit
<1>2. ForecastInv /\ SharedInv' /\ [Next]_vars => ForecastInv'
  BY ForecastStep
<1> QED
  BY <1>1, <1>2, SharedCorrect, PTL DEF Spec

-----------------------------------------------------------------------------
(* What the readers see.                                                   *)

\* The batches a reader may be served at a horizon.
Visible(h) ==
  {b \in Times : (\E r \in 1..Regions : <<b, r, h>> \in scores) /\ batches[b] # "running"}

\* At most one batch is visible, and it is whole, where the backfill command
\* does not write.
LEMMA VisibleWhole ==
  ASSUME ForecastInv, NEW h \in 1..Horizons, h = 1 => refill = 0, NEW b \in Visible(h)
  PROVE  /\ batches[b] = "completed" /\ Filled(b)
         /\ Visible(h) = {b}
<1>1. ASSUME NEW c \in Visible(h) PROVE batches[c] = "completed"
  <2>1. PICK r \in 1..Regions : <<c, r, h>> \in scores
    BY DEF Visible
  <2>2. batches[c] # "absent"
    BY <2>1 DEF ForecastInv, OrphanInv
  <2> QED
    BY <2>2 DEF Visible, ForecastInv, BatchInv, SharedInv, TypeOK
<1>2. ASSUME NEW c \in Visible(h) PROVE c = b
  <2>1. PICK p \in scores, q \in scores : p[1] = c /\ q[1] = b
    BY DEF Visible
  <2> QED
    BY <1>1, <2>1 DEF ForecastInv, CompletedInv
<1>3. Filled(b)
  <2>1. b \in Times /\ \E p \in scores : p[1] = b
    BY DEF Visible
  <2> QED
    BY <1>1, <2>1 DEF ForecastInv, CompletedInv, Bare
<1> QED
  BY <1>1, <1>2, <1>3

\* The latest of a set of batches, 0 if it is empty.
Latest(S) == IF S = {} THEN 0 ELSE CHOOSE b \in S : \A c \in S : c <= b

\* The served batch is the latest visible one.
LEMMA ServedLatest ==
  ASSUME NEW h \in 1..Horizons
  PROVE  Served(h) = Latest(Visible(h)) /\ Served(h)' = Latest(Visible(h)')
BY DEF Served, Visible, Latest

\* The latest of one batch.
LEMMA LatestOne ==
  ASSUME NEW b \in Times
  PROVE  Latest({b}) = b
BY DEF Latest, Times

\* What is served is the one visible batch, or nothing.
LEMMA ServedVisible ==
  ASSUME ForecastInv, NEW h \in 1..Horizons, h = 1 => refill = 0
  PROVE  /\ Visible(h) = {} => Served(h) = 0
         /\ \A b \in Visible(h) : Served(h) = b
<1>1. ASSUME NEW b \in Visible(h) PROVE Served(h) = b
  <2>1. Visible(h) = {b} /\ b \in Times
    BY VisibleWhole DEF Visible
  <2> QED
    BY <2>1, ServedLatest, LatestOne
<1> QED
  BY <1>1, ServedLatest DEF Latest

\* One process that writes forecasts never exposes a part of one, leaves
\* nothing behind but what a fault interrupted, and never deletes what an
\* archive refers to.
THEOREM TablesSoundHolds ==
  ASSUME OneWriter
  PROVE  Spec => []TablesSound
<1>1. ASSUME ForecastInv PROVE ServedWhole
  <2> SUFFICES ASSUME NEW h \in 1..Horizons, Served(h) # 0, h = 1 => refill = 0,
                      NEW r \in 1..Regions
               PROVE  <<Served(h), r, h>> \in scores \cap fwi
    BY DEF ServedWhole
  <2>1. PICK b : b \in Visible(h) /\ Served(h) = b
    BY <1>1, ServedVisible
  <2> QED
    BY <1>1, <2>1, VisibleWhole DEF Filled
<1>2. ASSUME ForecastInv PROVE NoDebris
  <2> DEFINE owned == {writer[w].batch : w \in Writers}
             stored == {p[1] : p \in fwi \cup scores}
  <2> SUFFICES ASSUME refill = 0
               PROVE  Cardinality(stored \ (owned \cup {Served(1)})) <= faults
    BY DEF NoDebris
  <2>1. ASSUME NEW b \in stored, b \notin owned, b # Served(1) PROVE b \in Debris
    <3>1. PICK p \in fwi \cup scores : p[1] = b
      BY <2>1
    <3>2. b \in Times /\ batches[b] \in {"running", "completed"}
      BY <1>2, <3>1 DEF ForecastInv, BatchInv, SharedInv, OrphanInv, TypeOK, Parts
    <3>3. ~Bare(b)
      BY <3>1 DEF Bare
    <3>4. CASE batches[b] = "completed"
      <4>1. 1 \in 1..Regions /\ 1 \in 1..Horizons
        BY ShapeAssumption
      <4>2. Filled(b)
        BY <1>2, <3>2, <3>3, <3>4 DEF ForecastInv, CompletedInv
      <4>3. b \in Visible(1)
        BY <3>2, <3>4, <4>1, <4>2 DEF Filled, Visible
      <4> QED
        BY <1>2, <2>1, <4>1, <4>3, ServedVisible
    <3> QED
      BY <2>1, <3>2, <3>3, <3>4 DEF Debris
  <2>2. Cardinality(stored \ (owned \cup {Served(1)})) <= Cardinality(Debris)
    BY <2>1, DebrisFinite, FS_Subset
  <2>3. /\ Cardinality(stored \ (owned \cup {Served(1)})) \in Nat
        /\ Cardinality(Debris) \in Nat
    BY <2>1, DebrisFinite, FS_Subset, FS_CardinalityType
  <2> QED
    BY <1>2, <2>2, <2>3 DEF ForecastInv, BatchInv, SharedInv, DebrisInv, TypeOK
<1>3. ForecastInv => TablesSound
  BY <1>1, <1>2 DEF TablesSound, ForecastInv, BatchInv, SharedInv
<1> QED
  BY <1>3, ForecastCorrect, PTL

-----------------------------------------------------------------------------
(* The forecast is replaced as a whole (ForecastPublication).              *)

\* The batch shown at each horizon, as ForecastPublication sees it.
Shown == [h \in 1..Horizons |-> IF refill = 0 THEN Served(h) ELSE 0]

\* While the visible batches stay the same, so does what is shown.
LEMMA ShownKept ==
  ASSUME ForecastInv, ForecastInv', refill = 0, refill' = 0,
         \A h \in 1..Horizons : Visible(h)' = Visible(h)
  PROVE  Shown' = Shown
<1>1. ASSUME NEW h \in 1..Horizons PROVE Served(h)' = Served(h)
  BY ServedLatest
<1> QED
  BY <1>1 DEF Shown

\* A publication shows its batch at every horizon, later than all before it.
LEMMA ShownPublished ==
  ASSUME OneWriter, ForecastInv, ForecastInv', refill = 0, NEW w \in Writers, Publish(w)
  PROVE  Publication!Publish
<1> DEFINE b == writer[w].batch
<1>1. b \in Times /\ b = clock /\ batches[b] = "running" /\ Filled(b)
  BY DEF Publish, ForecastInv, BatchInv, SharedInv, ClockInv, StatusInv, ProgressInv
<1>2. ASSUME NEW h \in 1..Horizons PROVE Served(h)' = b
  <2>1. batches'[b] = "completed" /\ \A r \in 1..Regions : <<b, r, h>> \in scores'
    BY <1>1 DEF Publish, Retain, Superseded, Filled, Of
  <2>2. ASSUME NEW c \in Visible(h)' PROVE c = b
    BY DEF Publish, Retain, Of, Visible
  <2>3. b \in Visible(h)'
    BY <1>1, <2>1, ShapeAssumption DEF Visible
  <2> QED
    BY <1>1, <2>2, <2>3, ServedLatest, LatestOne
<1>3. ASSUME NEW h \in 1..Horizons PROVE Served(h) < b
  <2>1. CASE Visible(h) = {}
    BY <1>1, <2>1, ServedVisible DEF Times
  <2>2. ASSUME NEW c \in Visible(h) PROVE Served(h) < b
    <3>1. Served(h) = c /\ batches[c] = "completed" /\ c \in Times
      BY ServedVisible, VisibleWhole DEF Visible
    <3>2. c <= clock
      BY <3>1 DEF ForecastInv, BatchInv, SharedInv, ClockInv, TypeOK, Times
    <3> QED
      BY <1>1, <3>1, <3>2 DEF Times
  <2> QED
    BY <2>1, <2>2
<1>4. Shown' = [h \in 1..Horizons |-> b] /\ \A h \in 1..Horizons : Shown[h] < b
  BY <1>2, <1>3 DEF Shown, Publish
<1>5. 1 \in 1..Horizons
  BY ShapeAssumption
<1> QED
  BY <1>4, <1>5 DEF Publication!Publish, Shown

\* Every other action leaves what is visible as it is.
LEMMA ShownStep ==
  ASSUME OneWriter, ForecastInv, ForecastInv', [Next]_vars
  PROVE  Publication!Publish \/ Shown' = Shown
<1>1. CASE refill # 0
  <2>1. refill' # 0
    BY <1>1, ShapeAssumption DEF Next, vars, Begin, WriteFwi, WriteScores, Publish, Pin, EndCapture,
       AbortBatch, PartitionFails, Stop, BackfillRegion, ForecastInv, BatchInv, SharedInv, TypeOK
  <2> QED
    BY <1>1, <2>1 DEF Shown
<1>2. CASE refill = 0
  <2>1. ASSUME NEW w \in Writers, Publish(w) PROVE Publication!Publish
    BY <1>2, <2>1, ShownPublished
  <2>2. ASSUME NEW w \in Writers, Begin(w) PROVE Shown' = Shown
    <3>1. clock + 1 \in Times /\ \A p \in scores : p[1] # clock + 1
      BY <2>2, BoundsAssumption DEF Begin, ForecastInv, BatchInv, SharedInv, ClockInv,
         TypeOK, Times, Parts
    <3>2. ASSUME NEW h \in 1..Horizons PROVE Visible(h)' = Visible(h)
      BY <2>2, <3>1 DEF Begin, ForecastInv, BatchInv, SharedInv, TypeOK, Visible
    <3> QED
      BY <1>2, <2>2, <3>2, ShownKept DEF Begin
  <2>3. ASSUME NEW w \in Writers, WriteFwi(w) PROVE Shown' = Shown
    <3>1. ASSUME NEW h \in 1..Horizons PROVE Visible(h)' = Visible(h)
      BY <2>3 DEF WriteFwi, Visible
    <3> QED
      BY <1>2, <2>3, <3>1, ShownKept DEF WriteFwi
  <2>4. ASSUME NEW w \in Writers, WriteScores(w) PROVE Shown' = Shown
    <3>1. ASSUME NEW h \in 1..Horizons PROVE Visible(h)' = Visible(h)
      BY <2>4 DEF WriteScores, PartOf, ForecastInv, BatchInv, SharedInv, StatusInv, Visible
    <3> QED
      BY <1>2, <2>4, <3>1, ShownKept DEF WriteScores
  <2>5. ASSUME NEW w \in Writers, Pin(w) PROVE Shown' = Shown
    <3>1. ASSUME NEW h \in 1..Horizons PROVE Visible(h)' = Visible(h)
      BY <2>5 DEF Pin, Visible
    <3> QED
      BY <1>2, <2>5, <3>1, ShownKept DEF Pin
  <2>6. ASSUME NEW w \in Writers, EndCapture(w) PROVE Shown' = Shown
    <3>1. ASSUME NEW h \in 1..Horizons PROVE Visible(h)' = Visible(h)
      BY <2>6 DEF EndCapture, Visible
    <3> QED
      BY <1>2, <2>6, <3>1, ShownKept DEF EndCapture
  <2>7. ASSUME NEW w \in Writers, AbortBatch(w) PROVE Shown' = Shown
    <3>1. ASSUME NEW h \in 1..Horizons PROVE Visible(h)' = Visible(h)
      BY <2>7 DEF AbortBatch, Abort, Of, ForecastInv, BatchInv, SharedInv, StatusInv,
         TypeOK, Visible
    <3> QED
      BY <1>2, <2>7, <3>1, ShownKept DEF AbortBatch
  <2>8. ASSUME NEW w \in Writers, PartitionFails(w) PROVE Shown' = Shown
    <3>1. ASSUME NEW h \in 1..Horizons PROVE Visible(h)' = Visible(h)
      BY <2>8 DEF PartitionFails, Visible
    <3> QED
      BY <1>2, <2>8, <3>1, ShownKept DEF PartitionFails
  <2>9. ASSUME NEW w \in Writers, Stop(w) PROVE Shown' = Shown
    <3>1. ASSUME NEW h \in 1..Horizons PROVE Visible(h)' = Visible(h)
      BY <2>9 DEF Stop, Visible
    <3> QED
      BY <1>2, <2>9, <3>1, ShownKept DEF Stop
  <2>10. CASE BackfillRegion
    BY <1>2, <2>10 DEF BackfillRegion
  <2>11. CASE UNCHANGED vars
    BY <2>11 DEF vars, Shown, Served
  <2> QED
    BY <2>1, <2>2, <2>3, <2>4, <2>5, <2>6, <2>7, <2>8, <2>9, <2>10, <2>11 DEF Next
<1> QED
  BY <1>1, <1>2

\* The forecast of one writer is replaced as a whole and by a later one, at
\* every horizon together, and never taken away.
THEOREM PublicationHolds ==
  ASSUME OneWriter
  PROVE  Spec => PublicationSpec
<1>1. ASSUME Init PROVE Publication!Init
  <2>1. ASSUME NEW h \in 1..Horizons PROVE Served(h) = 0
    BY <1>1 DEF Init, Served
  <2> QED
    BY <2>1 DEF Publication!Init
<1>2. ForecastInv /\ ForecastInv' /\ [Next]_vars => [Publication!Publish]_Shown
  BY ShownStep
<1> QED
  BY <1>1, <1>2, ForecastCorrect, PTL DEF Spec, PublicationSpec, Publication!Spec, Shown

-----------------------------------------------------------------------------
(* Archives: their entries and the processes that fill them.               *)

\* The values of the columns and of the local state.
Statuses == {"none", "building", "published", "failed"}
Progress == [kind : Kinds, phase : {"check", "insert", "fill", "fail"}]

Entries ==
  [Kinds \X Days -> [status : Statuses, batch : 0..MaxBatches, content : SUBSET Parts]]

ArchiveTypes ==
  /\ entries \in Entries
  /\ capturing \in [Writers -> Progress]
  /\ failures \in Nat

\* A process captures only what it has just published.
QuietInv ==
  \A w \in Writers : w \notin Archivers \/ writer[w].step # "capture" => capturing[w] = Start

\* The entry a process has inserted and not left is its own.
Owns(w) ==
  LET e == EntryOf(w) IN
  /\ capturing[w].phase # "check" => e \in Kinds \X Days
  /\ capturing[w].phase \in {"fill", "fail"} => entries[e].batch = BatchOf(w)
  /\ capturing[w].phase = "fill" => entries[e].status = "building"
  /\ capturing[w].phase = "fail" => entries[e].status \in {"building", "published"}

OwnerInv == \A w \in Archivers : Owns(w)

\* An entry refers to its batch.
PinnedInv == \A e \in Kinds \X Days : entries[e] # NoEntry => entries[e].batch \in pinned

\* Why a capture fails.
CauseInv ==
  \A w \in Archivers : capturing[w].phase = "fail" =>
    \/ failures > 0
    \/ \E kind \in Kinds, b \in pinned :
         kind = capturing[w].kind /\ b = BatchOf(w) /\ Overtaken(kind, b)

ArchivesInv ==
  /\ SharedInv /\ ArchiveTypes /\ QuietInv /\ OwnerInv /\ PinnedInv /\ CauseInv
  /\ PublishedWhole /\ LostForCause

-----------------------------------------------------------------------------
(* The captures are what ForecastBatches allows.                           *)

\* Every call of a capture is a step of ForecastBatches, or none.
LEMMA StepRefines ==
  ASSUME NEW w \in Writers,
         Forecast(w) \/ Check(w) \/ Insert(w) \/ Fill(w) \/ Fail(w) \/ CallFails(w)
  PROVE  [Next]_vars
<1>1. CASE Forecast(w)
  BY <1>1 DEF Forecast, Next
<1>2. ASSUME Leave(w), At(w, "check") \/ At(w, "insert") \/ At(w, "fill") \/ At(w, "fail"),
             UNCHANGED <<pinned, Elsewhere>>
      PROVE  [Next]_vars
  BY <1>2 DEF Leave, At, Elsewhere, EndCapture, Next, vars
<1>3. CASE Check(w)
  BY <1>2, <1>3 DEF Check, To, Elsewhere, vars
<1>4. ASSUME Building(w), Accepts(w), At(w, "insert"), Leave(w) \/ UNCHANGED writer,
             UNCHANGED Elsewhere
      PROVE  [Next]_vars
  <2>1. Refers(w)
    BY <1>4 DEF Building, Accepts, Refers, At, BatchOf
  <2>2. CASE UNCHANGED writer
    BY <1>4, <2>1, <2>2 DEF Pin, At, Elsewhere, Next
  <2>3. CASE writer' = [writer EXCEPT ![w] = Idle]
    BY <1>4, <2>1, <2>3 DEF EndCapture, At, Elsewhere, Next
  <2> QED
    BY <1>4, <2>2, <2>3 DEF Leave
<1>5. CASE Insert(w)
  BY <1>2, <1>4, <1>5 DEF Insert, To
<1>6. CASE Fill(w)
  BY <1>2, <1>6 DEF Fill, To, Elsewhere, vars
<1>7. CASE Fail(w)
  BY <1>2, <1>7 DEF Fail
<1>8. CASE CallFails(w)
  BY <1>2, <1>4, <1>8 DEF CallFails, To, Elsewhere, vars
<1> QED
  BY <1>1, <1>3, <1>5, <1>6, <1>7, <1>8

\* The forecast with its captures implements the forecast of ForecastBatches.
THEOREM ArchivesRefineBatches == ArchivesSpec => BatchesSpec
<1>1. ArchivesInit => Init
  BY DEF ArchivesInit
<1>2. [ArchivesNext]_<<vars, archives>> => [Next]_vars
  BY StepRefines DEF ArchivesNext, vars
<1> QED
  BY <1>1, <1>2, PTL DEF ArchivesSpec, BatchesSpec, Spec

-----------------------------------------------------------------------------
(* What the calls do to the progress of a process.                         *)

\* A process leaves a capture for the next one, or for its next forecast.
LEMMA LeaveMoves ==
  ASSUME ArchiveTypes, TypeOK, NEW w \in Writers, Leave(w)
  PROVE  /\ capturing' \in [Writers -> Progress] /\ capturing'[w].phase = "check"
         /\ \A v \in Writers : v # w => capturing'[v] = capturing[v] /\ writer'[v] = writer[v]
         /\ \/ writer'[w] = writer[w]
            \/ writer'[w] = Idle /\ capturing'[w] = Start
<1>1. Start \in Progress /\ [kind |-> "bulletin", phase |-> "check"] \in Progress
  BY DEF Start, Progress, Kinds
<1> QED
  BY <1>1 DEF Leave, ArchiveTypes, TypeOK, Start

\* A process goes on with the capture it is in.
LEMMA ToMoves ==
  ASSUME ArchiveTypes, NEW w \in Writers, NEW phase \in {"insert", "fill", "fail"}, To(w, phase)
  PROVE  /\ capturing' \in [Writers -> Progress] /\ writer' = writer
         /\ capturing'[w].phase = phase /\ capturing'[w].kind = capturing[w].kind
         /\ \A v \in Writers : v # w => capturing'[v] = capturing[v]
<1>1. [capturing[w] EXCEPT !.phase = phase] \in Progress
  BY DEF ArchiveTypes, Progress
<1> QED
  BY <1>1 DEF To, ArchiveTypes, Progress

\* A step of the forecast itself is of a process that is not capturing.
LEMMA ForecastMoves ==
  ASSUME SharedInv, ArchiveTypes, QuietInv, NEW w \in Writers, Forecast(w)
  PROVE  /\ capturing' = capturing \/ capturing' = [capturing EXCEPT ![w] = Start]
         /\ capturing'[w] = Start
         /\ \A v \in Writers : v # w => capturing'[v] = capturing[v] /\ writer'[v] = writer[v]
         /\ pinned' = pinned
BY DEF Forecast, QuietInv, ArchiveTypes, SharedInv, TypeOK, Begin, WriteFwi, WriteScores,
       Publish, AbortBatch, PartitionFails, Stop, EndCapture, Refers, Goto

\* A process captures the batch it has published, for a day of its own.
LEMMA CaptureFacts ==
  ASSUME SharedInv, ArchiveTypes, NEW w \in Writers, NEW phase, At(w, phase)
  PROVE  /\ w \in Archivers /\ writer[w].step = "capture" /\ capturing[w].phase = phase
         /\ BatchOf(w) \in Times /\ capturing[w].kind \in Kinds
         /\ DayOf(capturing[w].kind, BatchOf(w)) \in Days \cup {None}
BY DaysAssumption DEF At, SharedInv, NamedInv, ArchiveTypes, Progress, BatchOf, DayOf, Kinds

\* A batch has no other rows than those of its regions and horizons.
LEMMA FoundWhole ==
  ASSUME NEW kind \in Kinds, NEW b \in Times
  PROVE  /\ Found(kind, b) \subseteq Whole(kind, b) /\ Whole(kind, b) \subseteq Parts
         /\ Found(kind, b)' \subseteq Whole(kind, b)
<1>1. Later \subseteq 1..Horizons /\ 1 \in 1..Horizons
  BY ShapeAssumption DEF Later
<1>2. CASE kind = "snapshot"
  <2>1. Whole(kind, b) = {b} \X (1..Regions) \X {1}
    BY <1>2 DEF Whole
  <2>2. Found(kind, b) = {<<b, r, 1>> : r \in {q \in 1..Regions : <<b, q, 1>> \in fwi}}
    BY <1>2 DEF Found, Regioned
  <2>3. Found(kind, b)' = {<<b, r, 1>> : r \in {q \in 1..Regions : <<b, q, 1>> \in fwi'}}
    BY <1>2 DEF Found, Regioned
  <2>4. Found(kind, b) \subseteq Whole(kind, b)
    BY <2>1, <2>2
  <2>5. Found(kind, b)' \subseteq Whole(kind, b)
    BY <2>1, <2>3
  <2> QED
    BY <1>1, <2>1, <2>4, <2>5 DEF Parts
<1>3. CASE kind # "snapshot"
  <2>1. Whole(kind, b) = {b} \X (1..Regions) \X Later
    BY <1>3 DEF Whole
  <2>2. Found(kind, b) =
          {<<b, r, h>> : r \in {q \in 1..Regions : \A h \in Later : <<b, q, h>> \in scores},
                         h \in Later}
    BY <1>3 DEF Found
  <2>3. Found(kind, b)' =
          {<<b, r, h>> : r \in {q \in 1..Regions : \A h \in Later : <<b, q, h>> \in scores'},
                         h \in Later}
    BY <1>3 DEF Found
  <2>4. Found(kind, b) \subseteq Whole(kind, b)
    BY <2>1, <2>2
  <2>5. Found(kind, b)' \subseteq Whole(kind, b)
    BY <2>1, <2>3
  <2> QED
    BY <1>1, <2>1, <2>4, <2>5 DEF Parts
<1> QED
  BY <1>2, <1>3

\* What the calls write in the entry of the day.
LEMMA EntriesMoves ==
  ASSUME SharedInv, ArchiveTypes, NEW w \in Writers, NEW phase, At(w, phase)
  PROVE  /\ Building(w) \/ Publishes(w) \/ MarkFailed(w) => entries' \in Entries
         /\ \A e \in Kinds \X Days : e # EntryOf(w) =>
              (Building(w) \/ Publishes(w) \/ MarkFailed(w) => entries'[e] = entries[e])
         /\ EntryOf(w) \in Kinds \X Days => 
              /\ Building(w) => entries'[EntryOf(w)] =
                   [status |-> "building", batch |-> BatchOf(w), content |-> {}]
              /\ Publishes(w) => entries'[EntryOf(w)] =
                   [status |-> "published", batch |-> BatchOf(w),
                    content |-> Found(capturing[w].kind, BatchOf(w))]
              /\ MarkFailed(w) => 
                   IF entries[EntryOf(w)].status = "building"
                   THEN /\ entries'[EntryOf(w)].status = "failed"
                        /\ entries'[EntryOf(w)].batch = entries[EntryOf(w)].batch
                   ELSE entries'[EntryOf(w)] = entries[EntryOf(w)]
<1> DEFINE record == [status : Statuses, batch : 0..MaxBatches, content : SUBSET Parts]
           found == Found(capturing[w].kind, BatchOf(w))
<1>1. BatchOf(w) \in 0..MaxBatches /\ found \in SUBSET Parts
  BY CaptureFacts, FoundWhole DEF Times
<1>2. [status |-> "building", batch |-> BatchOf(w), content |-> {}] \in record
  BY <1>1 DEF Statuses
<1>3. [status |-> "published", batch |-> BatchOf(w), content |-> found] \in record
  BY <1>1 DEF Statuses
<1>4. entries \in [Kinds \X Days -> record]
  BY DEF ArchiveTypes, Entries
<1>5. ASSUME Building(w) PROVE entries' = [entries EXCEPT ![EntryOf(w)] =
        [status |-> "building", batch |-> BatchOf(w), content |-> {}]]
  BY <1>5 DEF Building
<1>6. ASSUME Publishes(w) PROVE entries' = [entries EXCEPT ![EntryOf(w)] =
        [status |-> "published", batch |-> BatchOf(w), content |-> found]]
  BY <1>6 DEF Publishes
<1>7. MarkFailed(w) => \/ entries' = entries
                       \/ entries' = [entries EXCEPT ![EntryOf(w)].status = "failed"]
  BY DEF MarkFailed
<1>8. \A e \in Kinds \X Days : [entries[e] EXCEPT !.status = "failed"] \in record
  BY <1>4 DEF Statuses
<1>9. Building(w) \/ Publishes(w) \/ MarkFailed(w) => entries' \in [Kinds \X Days -> record]
  BY <1>2, <1>3, <1>4, <1>5, <1>6, <1>7, <1>8
<1>10. ASSUME NEW e \in Kinds \X Days, e # EntryOf(w)
       PROVE  Building(w) \/ Publishes(w) \/ MarkFailed(w) => entries'[e] = entries[e]
  BY <1>4, <1>5, <1>6, <1>7, <1>10
<1>11. ASSUME EntryOf(w) \in Kinds \X Days, MarkFailed(w)
       PROVE  IF entries[EntryOf(w)].status = "building"
              THEN /\ entries'[EntryOf(w)].status = "failed"
                   /\ entries'[EntryOf(w)].batch = entries[EntryOf(w)].batch
              ELSE entries'[EntryOf(w)] = entries[EntryOf(w)]
  BY <1>4, <1>11 DEF MarkFailed
<1> QED
  BY <1>4, <1>5, <1>6, <1>9, <1>10, <1>11 DEF Entries

-----------------------------------------------------------------------------
(* What each action does to the invariant.                                 *)

\* Every step keeps the types of the archives.
LEMMA TypesStep ==
  ASSUME SharedInv, SharedInv', ArchiveTypes, QuietInv, OwnerInv, PinnedInv,
         [ArchivesNext]_<<vars, archives>>
  PROVE  ArchiveTypes'
<1>1. ASSUME NEW w \in Writers, Forecast(w) PROVE ArchiveTypes'
  BY <1>1, ForecastMoves DEF Forecast, ArchiveTypes, Start, Progress, Kinds
<1>2. ASSUME NEW w \in Writers, Check(w) PROVE ArchiveTypes'
  <2>1. capturing' \in [Writers -> Progress]
    BY <1>2, LeaveMoves, ToMoves DEF Check, SharedInv
  <2> QED
    BY <1>2, <2>1 DEF Check, ArchiveTypes
<1>3. ASSUME NEW w \in Writers, Insert(w) PROVE ArchiveTypes'
  <2>1. capturing' \in [Writers -> Progress]
    BY <1>3, LeaveMoves, ToMoves DEF Insert, SharedInv
  <2>2. ASSUME Building(w) PROVE entries' \in Entries
    BY <1>3, <2>2, EntriesMoves DEF Insert
  <2> QED
    BY <1>3, <2>1, <2>2 DEF Insert, ArchiveTypes, Entries
<1>4. ASSUME NEW w \in Writers, Fill(w) PROVE ArchiveTypes'
  <2>1. capturing' \in [Writers -> Progress]
    BY <1>4, LeaveMoves, ToMoves DEF Fill, SharedInv
  <2>2. ASSUME Publishes(w) PROVE entries' \in Entries
    BY <1>4, <2>2, EntriesMoves DEF Fill
  <2> QED
    BY <1>4, <2>1, <2>2 DEF Fill, ArchiveTypes, Entries
<1>5. ASSUME NEW w \in Writers, Fail(w) PROVE ArchiveTypes'
  <2>1. capturing' \in [Writers -> Progress]
    BY <1>5, LeaveMoves DEF Fail, SharedInv
  <2>2. entries' \in Entries
    BY <1>5, EntriesMoves DEF Fail
  <2> QED
    BY <1>5, <2>1, <2>2 DEF Fail, ArchiveTypes, Entries
<1>6. ASSUME NEW w \in Writers, CallFails(w) PROVE ArchiveTypes'
  <2>1. capturing' \in [Writers -> Progress]
    BY <1>6, LeaveMoves, ToMoves DEF CallFails, SharedInv
  <2>2. entries' \in Entries
    BY <1>6, EntriesMoves DEF CallFails, ArchiveTypes, Entries
  <2> QED
    BY <1>6, <2>1, <2>2 DEF CallFails, ArchiveTypes, Entries
<1>7. CASE UNCHANGED <<vars, archives>>
  BY <1>7 DEF vars, archives, ArchiveTypes
<1> QED
  BY <1>1, <1>2, <1>3, <1>4, <1>5, <1>6, <1>7 DEF ArchivesNext

\* A process begins its captures where it left none.
LEMMA QuietStep ==
  ASSUME SharedInv, SharedInv', ArchiveTypes, QuietInv, OwnerInv, PinnedInv,
         [ArchivesNext]_<<vars, archives>>
  PROVE  QuietInv'
<1>1. ASSUME NEW w \in Writers, Forecast(w) PROVE QuietInv'
  BY <1>1, ForecastMoves DEF QuietInv
<1>2. ASSUME NEW w \in Writers, Check(w) PROVE QuietInv'
  <2>1. w \in Archivers /\ writer[w].step = "capture"
    BY <1>2 DEF Check, At
  <2> QED
    BY <1>2, <2>1, LeaveMoves, ToMoves DEF Check, SharedInv, QuietInv
<1>3. ASSUME NEW w \in Writers, Insert(w) PROVE QuietInv'
  <2>1. w \in Archivers /\ writer[w].step = "capture"
    BY <1>3 DEF Insert, At
  <2> QED
    BY <1>3, <2>1, LeaveMoves, ToMoves DEF Insert, SharedInv, QuietInv
<1>4. ASSUME NEW w \in Writers, Fill(w) PROVE QuietInv'
  <2>1. w \in Archivers /\ writer[w].step = "capture"
    BY <1>4 DEF Fill, At
  <2> QED
    BY <1>4, <2>1, LeaveMoves, ToMoves DEF Fill, SharedInv, QuietInv
<1>5. ASSUME NEW w \in Writers, Fail(w) PROVE QuietInv'
  <2>1. w \in Archivers /\ writer[w].step = "capture"
    BY <1>5 DEF Fail, At
  <2> QED
    BY <1>5, <2>1, LeaveMoves, ToMoves DEF Fail, SharedInv, QuietInv
<1>6. ASSUME NEW w \in Writers, CallFails(w) PROVE QuietInv'
  <2>1. w \in Archivers /\ writer[w].step = "capture"
    BY <1>6 DEF CallFails, At
  <2> QED
    BY <1>6, <2>1, LeaveMoves, ToMoves DEF CallFails, SharedInv, QuietInv
<1>7. CASE UNCHANGED <<vars, archives>>
  BY <1>7 DEF vars, archives, QuietInv
<1> QED
  BY <1>1, <1>2, <1>3, <1>4, <1>5, <1>6, <1>7 DEF ArchivesNext

\* Two processes that have inserted entries have not inserted the same.
LEMMA OwnEntry ==
  ASSUME SharedInv, ArchiveTypes, QuietInv, OwnerInv, NEW v \in Archivers,
         NEW w \in Archivers, v # w,
         capturing[v].phase \in {"fill", "fail"}, capturing[w].phase \in {"fill", "fail"}
  PROVE  EntryOf(v) # EntryOf(w)
<1>1. v \in Writers /\ w \in Writers
  BY BoundsAssumption
<1>2. writer[v].step = "capture" /\ writer[w].step = "capture"
  BY <1>1 DEF QuietInv, Start
<1>3. BatchOf(v) # BatchOf(w)
  BY <1>1, <1>2 DEF SharedInv, DistinctInv, BatchOf
<1> QED
  BY <1>3 DEF OwnerInv, Owns

\* The others go on with the entries they had.
LEMMA OthersKeep ==
  ASSUME NEW v \in Writers, capturing'[v] = capturing[v], writer'[v] = writer[v]
  PROVE  /\ EntryOf(v)' = EntryOf(v) /\ BatchOf(v)' = BatchOf(v)
         /\ \A phase : At(v, phase)' = At(v, phase)
BY DEF EntryOf, BatchOf, At

\* Going on with a capture, a process keeps its entry.
LEMMA EntryKept ==
  ASSUME NEW w \in Writers, capturing'[w].kind = capturing[w].kind, writer' = writer
  PROVE  EntryOf(w)' = EntryOf(w) /\ BatchOf(w)' = BatchOf(w)
BY DEF EntryOf, BatchOf

\* A process finds its entry as it left it, whoever else is capturing.
LEMMA OwnerStep ==
  ASSUME SharedInv, SharedInv', ArchiveTypes, QuietInv, OwnerInv, PinnedInv,
         [ArchivesNext]_<<vars, archives>>
  PROVE  OwnerInv'
<1>1. ASSUME NEW w \in Writers, Forecast(w) PROVE OwnerInv'
  <2> SUFFICES ASSUME NEW v \in Archivers, capturing'[v].phase # "check"
               PROVE  Owns(v)'
    BY DEF OwnerInv, Owns
  <2>1. v \in Writers
    BY BoundsAssumption
  <2>2. v # w
    BY <1>1, ForecastMoves DEF Start
  <2>3. capturing'[v] = capturing[v] /\ writer'[v] = writer[v] /\ entries' = entries
    BY <1>1, <2>1, <2>2, ForecastMoves DEF Forecast
  <2> QED
    BY <2>1, <2>3, OthersKeep DEF OwnerInv, Owns
<1>2. ASSUME NEW w \in Writers, Check(w) PROVE OwnerInv'
  <2> SUFFICES ASSUME NEW v \in Archivers, capturing'[v].phase # "check"
               PROVE  Owns(v)'
    BY DEF OwnerInv, Owns
  <2>1. v \in Writers
    BY BoundsAssumption
  <2>2. At(w, "check") /\ entries' = entries
    BY <1>2 DEF Check
  <2>3. CASE v = w
    <3>1. To(w, "insert") /\ DayOf(capturing[w].kind, BatchOf(w)) # None
      BY <1>2, <2>3, LeaveMoves DEF Check, SharedInv
    <3>2. EntryOf(w) \in Kinds \X Days
      BY <2>2, <3>1, CaptureFacts DEF EntryOf
    <3> QED
      BY <2>3, <3>1, <3>2, ToMoves, EntryKept DEF Owns
  <2>4. CASE v # w
    BY <1>2, <2>1, <2>2, <2>4, LeaveMoves, ToMoves, OthersKeep DEF Check, OwnerInv, Owns, SharedInv
  <2> QED
    BY <2>3, <2>4
<1>3. ASSUME NEW w \in Writers, Insert(w) PROVE OwnerInv'
  <2> SUFFICES ASSUME NEW v \in Archivers, capturing'[v].phase # "check"
               PROVE  Owns(v)'
    BY DEF OwnerInv, Owns
  <2>1. v \in Writers
    BY BoundsAssumption
  <2>2. At(w, "insert") /\ w \in Archivers /\ EntryOf(w) \in Kinds \X Days
    BY <1>3 DEF Insert, At, OwnerInv, Owns
  <2>3. CASE v = w
    <3>1. To(w, "fill") /\ Building(w)
      BY <1>3, <2>3, LeaveMoves DEF Insert, SharedInv
    <3>2. entries'[EntryOf(w)] = [status |-> "building", batch |-> BatchOf(w), content |-> {}]
      BY <2>2, <3>1, EntriesMoves
    <3>3. capturing'[w].phase = "fill" /\ EntryOf(w)' = EntryOf(w) /\ BatchOf(w)' = BatchOf(w)
      BY <3>1, ToMoves, EntryKept
    <3> QED
      BY <2>2, <2>3, <3>2, <3>3 DEF Owns
  <2>4. CASE v # w
    <3>1. capturing'[v] = capturing[v] /\ writer'[v] = writer[v]
      BY <1>3, <2>1, <2>4, LeaveMoves, ToMoves DEF Insert, SharedInv
    <3>2. capturing[v].phase \in {"fill", "fail"} => entries'[EntryOf(v)] = entries[EntryOf(v)]
      <4>1. CASE Building(w) /\ Accepts(w)
        <5>1. capturing[v].phase \in {"fill", "fail"} => EntryOf(v) # EntryOf(w)
          BY <2>4, <4>1 DEF Accepts, NoEntry, OwnerInv, Owns
        <5> QED
          BY <2>2, <4>1, <5>1, EntriesMoves, <3>1 DEF OwnerInv, Owns
      <4> QED
        BY <1>3, <4>1 DEF Insert
    <3> QED
      BY <2>1, <3>1, <3>2, OthersKeep DEF OwnerInv, Owns
  <2> QED
    BY <2>3, <2>4
<1>4. ASSUME NEW w \in Writers, Fill(w) PROVE OwnerInv'
  <2> SUFFICES ASSUME NEW v \in Archivers, capturing'[v].phase # "check"
               PROVE  Owns(v)'
    BY DEF OwnerInv, Owns
  <2>1. v \in Writers
    BY BoundsAssumption
  <2>2. At(w, "fill") /\ w \in Archivers /\ capturing[w].phase = "fill"
    BY <1>4 DEF Fill, At
  <2>3. CASE v = w
    <3>1. To(w, "fail") /\ entries' = entries
      BY <1>4, <2>3, LeaveMoves DEF Fill, SharedInv
    <3> QED
      BY <2>2, <2>3, <3>1, ToMoves, EntryKept DEF OwnerInv, Owns
  <2>4. CASE v # w
    <3>1. capturing'[v] = capturing[v] /\ writer'[v] = writer[v]
      BY <1>4, <2>1, <2>4, LeaveMoves, ToMoves DEF Fill, SharedInv
    <3>2. capturing[v].phase \in {"fill", "fail"} => entries'[EntryOf(v)] = entries[EntryOf(v)]
      <4>1. capturing[v].phase \in {"fill", "fail"} => EntryOf(v) # EntryOf(w)
        BY <2>2, <2>4, OwnEntry
      <4> QED
        BY <1>4, <2>2, <3>1, <4>1, EntriesMoves DEF Fill, OwnerInv, Owns
    <3> QED
      BY <2>1, <3>1, <3>2, OthersKeep DEF OwnerInv, Owns
  <2> QED
    BY <2>3, <2>4
<1>5. ASSUME NEW w \in Writers, Fail(w) PROVE OwnerInv'
  <2> SUFFICES ASSUME NEW v \in Archivers, capturing'[v].phase # "check"
               PROVE  Owns(v)'
    BY DEF OwnerInv, Owns
  <2>1. v \in Writers
    BY BoundsAssumption
  <2>2. At(w, "fail") /\ w \in Archivers /\ capturing[w].phase = "fail"
    BY <1>5 DEF Fail, At
  <2>3. v # w
    BY <1>5, LeaveMoves DEF Fail, SharedInv
  <2>4. CASE v # w
    <3>1. capturing'[v] = capturing[v] /\ writer'[v] = writer[v]
      BY <1>5, <2>1, <2>4, LeaveMoves, ToMoves DEF Fail, SharedInv
    <3>2. capturing[v].phase \in {"fill", "fail"} => entries'[EntryOf(v)] = entries[EntryOf(v)]
      <4>1. capturing[v].phase \in {"fill", "fail"} => EntryOf(v) # EntryOf(w)
        BY <2>2, <2>4, OwnEntry
      <4> QED
        BY <1>5, <2>2, <3>1, <4>1, EntriesMoves DEF Fail, OwnerInv, Owns
    <3> QED
      BY <2>1, <3>1, <3>2, OthersKeep DEF OwnerInv, Owns
  <2> QED
    BY <2>3, <2>4
<1>6. ASSUME NEW w \in Writers, CallFails(w) PROVE OwnerInv'
  <2> SUFFICES ASSUME NEW v \in Archivers, capturing'[v].phase # "check"
               PROVE  Owns(v)'
    BY DEF OwnerInv, Owns
  <2>1. v \in Writers
    BY BoundsAssumption
  <2>2. w \in Archivers /\ capturing[w].phase \in {"check", "insert", "fill", "fail"}
    BY <1>6 DEF CallFails, At, ArchiveTypes, Progress
  <2>3. CASE v = w
    <3>1. At(w, "fill") /\ To(w, "fail") /\ (entries' = entries \/ Publishes(w))
      BY <1>6, <2>3, LeaveMoves DEF CallFails, SharedInv
    <3>2. EntryOf(w) \in Kinds \X Days /\ entries[EntryOf(w)].status = "building"
          /\ entries[EntryOf(w)].batch = BatchOf(w)
      BY <2>2, <3>1 DEF OwnerInv, Owns, At
    <3>3. /\ entries'[EntryOf(w)].status \in {"building", "published"}
          /\ entries'[EntryOf(w)].batch = BatchOf(w)
      <4>1. CASE entries' = entries
        BY <3>2, <4>1
      <4>2. CASE Publishes(w)
        <5>1. entries'[EntryOf(w)] =
                [status |-> "published", batch |-> BatchOf(w),
                 content |-> Found(capturing[w].kind, BatchOf(w))]
          BY <3>1, <3>2, <4>2, EntriesMoves
        <5> QED
          BY <5>1
      <4> QED
        BY <3>1, <4>1, <4>2
    <3>4. capturing'[w].phase = "fail" /\ EntryOf(w)' = EntryOf(w) /\ BatchOf(w)' = BatchOf(w)
      BY <3>1, ToMoves, EntryKept
    <3> QED
      BY <2>3, <3>2, <3>3, <3>4 DEF Owns
  <2>4. CASE v # w
    <3>1. capturing'[v] = capturing[v] /\ writer'[v] = writer[v]
      BY <1>6, <2>1, <2>4, LeaveMoves, ToMoves DEF CallFails, SharedInv
    <3>2. capturing[v].phase \in {"fill", "fail"} => entries'[EntryOf(v)] = entries[EntryOf(v)]
      <4>1. CASE At(w, "insert") /\ Building(w) /\ Accepts(w)
        <5>1. capturing[v].phase \in {"fill", "fail"} => EntryOf(v) # EntryOf(w)
          BY <2>4, <4>1 DEF Accepts, NoEntry, OwnerInv, Owns
        <5> QED
          BY <4>1, <5>1, EntriesMoves, <3>1 DEF OwnerInv, Owns
      <4>2. CASE At(w, "fill") /\ Publishes(w)
        <5>1. capturing[v].phase \in {"fill", "fail"} => EntryOf(v) # EntryOf(w)
          BY <2>2, <2>4, <4>2, OwnEntry DEF At
        <5> QED
          BY <4>2, <5>1, EntriesMoves, <3>1 DEF OwnerInv, Owns
      <4> QED
        BY <1>6, <4>1, <4>2 DEF CallFails
    <3> QED
      BY <2>1, <3>1, <3>2, OthersKeep DEF OwnerInv, Owns
  <2> QED
    BY <2>3, <2>4
<1>7. CASE UNCHANGED <<vars, archives>>
  BY <1>7 DEF vars, archives, OwnerInv, Owns, EntryOf, BatchOf
<1> QED
  BY <1>1, <1>2, <1>3, <1>4, <1>5, <1>6, <1>7 DEF ArchivesNext

\* The ways a process may change an entry.
Inserts(w, e) ==
  /\ At(w, "insert") /\ Accepts(w) /\ BatchOf(w) \in pinned'
  /\ entries'[e] = [status |-> "building", batch |-> BatchOf(w), content |-> {}]
  /\ To(w, "fill") \/ failures' = failures + 1

Completes(w, e) ==
  /\ At(w, "fill") /\ Covered(w)
  /\ entries'[e] = [status |-> "published", batch |-> BatchOf(w),
                    content |-> Found(e[1], BatchOf(w))]

GivesUp(w, e) ==
  /\ At(w, "fail") /\ entries[e].status = "building"
  /\ entries'[e].status = "failed" /\ entries'[e].batch = entries[e].batch

\* What a step does to one entry: nothing, or a call of the process whose entry
\* it is.
LEMMA EntrySteps ==
  ASSUME SharedInv, ArchiveTypes, QuietInv, OwnerInv, NEW e \in Kinds \X Days,
         entries'[e] # entries[e], [ArchivesNext]_<<vars, archives>>
  PROVE  \E w \in Archivers :
           /\ EntryOf(w) = e /\ BatchOf(w) \in Times /\ capturing[w].kind = e[1]
           /\ Inserts(w, e) \/ Completes(w, e) \/ GivesUp(w, e)
<1>1. PICK w \in Writers : Insert(w) \/ Fill(w) \/ Fail(w) \/ CallFails(w)
  BY DEF ArchivesNext, Forecast, Check, vars, archives
<1>2. PICK phase \in {"insert", "fill", "fail"} :
        /\ At(w, phase)
        /\ \/ /\ phase = "insert" /\ Building(w) /\ Accepts(w)
              /\ To(w, "fill") \/ failures' = failures + 1
           \/ phase = "fill" /\ Publishes(w) /\ Covered(w)
           \/ phase = "fail" /\ MarkFailed(w)
  BY <1>1 DEF Insert, Fill, Fail, CallFails
<1>3. /\ w \in Archivers /\ capturing[w].phase = phase /\ BatchOf(w) \in Times
      /\ EntryOf(w) \in Kinds \X Days
  BY <1>2, CaptureFacts DEF OwnerInv, Owns
<1>4. EntryOf(w) = e
  BY <1>2, EntriesMoves
<1>5. capturing[w].kind = e[1]
  BY <1>4 DEF EntryOf
<1>6. CASE phase = "insert"
  BY <1>2, <1>3, <1>4, <1>5, <1>6, EntriesMoves DEF Building, Inserts
<1>7. CASE phase = "fill"
  BY <1>2, <1>3, <1>4, <1>5, <1>7, EntriesMoves DEF Completes
<1>8. CASE phase = "fail"
  BY <1>2, <1>3, <1>4, <1>5, <1>8, EntriesMoves DEF GivesUp
<1> QED
  BY <1>2, <1>6, <1>7, <1>8

\* A capture never takes a reference away.
LEMMA PinnedGrows ==
  ASSUME [ArchivesNext]_<<vars, archives>>
  PROVE  pinned \subseteq pinned'
BY DEF ArchivesNext, Forecast, Check, Insert, Fill, Fail, CallFails, Building, Begin, WriteFwi,
       WriteScores, Publish, AbortBatch, PartitionFails, Stop, EndCapture, Refers, vars

\* The batch of an entry is referred to from the insertion on.
LEMMA PinnedStep ==
  ASSUME SharedInv, ArchiveTypes, QuietInv, OwnerInv, PinnedInv,
         [ArchivesNext]_<<vars, archives>>
  PROVE  PinnedInv'
<1> SUFFICES ASSUME NEW e \in Kinds \X Days, entries'[e] # NoEntry
             PROVE  entries'[e].batch \in pinned'
  BY DEF PinnedInv
<1>1. CASE entries'[e] = entries[e]
  BY <1>1, PinnedGrows DEF PinnedInv
<1>2. CASE entries'[e] # entries[e]
  <2>1. PICK w \in Archivers :
          EntryOf(w) = e /\ (Inserts(w, e) \/ Completes(w, e) \/ GivesUp(w, e))
    BY <1>2, EntrySteps
  <2>2. CASE Inserts(w, e)
    BY <2>2 DEF Inserts
  <2>3. CASE Completes(w, e)
    <3>1. entries[e].batch = BatchOf(w) /\ entries[e].status = "building"
      BY <2>1, <2>3 DEF At, OwnerInv, Owns, Completes
    <3>2. entries'[e].batch = BatchOf(w)
      BY <2>3 DEF Completes
    <3> QED
      BY <3>1, <3>2, PinnedGrows DEF PinnedInv, NoEntry
  <2>4. CASE GivesUp(w, e)
    BY <2>4, PinnedGrows DEF PinnedInv, NoEntry, GivesUp
  <2> QED
    BY <2>1, <2>2, <2>3, <2>4
<1> QED
  BY <1>1, <1>2

\* The rows of a batch that an archive refers to are never written again.
LEMMA RowsShrink ==
  ASSUME SharedInv, [ArchivesNext]_<<vars, archives>>, NEW b \in pinned
  PROVE  /\ \A p \in fwi' : p[1] = b => p \in fwi
         /\ \A p \in scores' : p[1] = b => p \in scores
<1>1. \A w \in Writers : writer[w].step \in {"fwi", "scores"} => writer[w].batch # b
  BY DEF SharedInv, RegisteredInv, ReferencesKept
<1> QED
  BY <1>1 DEF ArchivesNext, Forecast, Check, Insert, Fill, Fail, CallFails, Elsewhere,
     Begin, WriteFwi, WriteScores, Publish, AbortBatch, PartitionFails, Stop, EndCapture, Retain,
     Abort, Of, PartOf, vars

\* What another publication has deleted stays deleted.
LEMMA OvertakenStays ==
  ASSUME SharedInv, SharedInv', [ArchivesNext]_<<vars, archives>>,
         NEW kind \in Kinds, NEW b \in pinned, Overtaken(kind, b)
  PROVE  Overtaken(kind, b)'
<1>1. b \in Times /\ batches[b] = "completed"
  BY DEF SharedInv, TypeOK, ReferencesKept
<1>2. Found(kind, b) # Whole(kind, b)
  BY <1>1 DEF Overtaken
<1>3. Found(kind, b)' \subseteq Found(kind, b)
  <2>1. /\ \A r, h : <<b, r, h>> \in fwi' => <<b, r, h>> \in fwi
        /\ \A r, h : <<b, r, h>> \in scores' => <<b, r, h>> \in scores
    BY RowsShrink
  <2>2. CASE kind = "snapshot"
    BY <2>1, <2>2 DEF Found, Regioned
  <2>3. CASE kind # "snapshot"
    BY <2>1, <2>3 DEF Found
  <2> QED
    BY <2>2, <2>3
<1>4. Found(kind, b)' # Whole(kind, b)
  BY <1>1, <1>2, <1>3, FoundWhole
<1>5. Whole(kind, b)' = Whole(kind, b)
  BY DEF Whole
<1> QED
  BY <1>4, <1>5 DEF Overtaken

\* A capture fails only for a failed call or another publication.
LEMMA CauseStep ==
  ASSUME SharedInv, SharedInv', ArchiveTypes, QuietInv, OwnerInv, PinnedInv, CauseInv,
         [ArchivesNext]_<<vars, archives>>
  PROVE  CauseInv'
<1> SUFFICES ASSUME NEW v \in Archivers, capturing'[v].phase = "fail"
             PROVE  \/ failures' > 0
                    \/ \E kind \in Kinds, b \in pinned' :
                         /\ kind = capturing'[v].kind /\ b = writer'[v].batch
                         /\ Overtaken(kind, b)'
  BY DEF CauseInv, BatchOf
<1>1. v \in Writers /\ failures \in Nat /\ failures' \in Nat /\ failures' >= failures
  BY BoundsAssumption DEF ArchiveTypes, ArchivesNext, Forecast, Check, Insert, Fill, Fail,
     CallFails, vars, archives
<1>2. CASE capturing'[v] = capturing[v] /\ writer'[v] = writer[v]
  <2>1. CASE failures > 0
    BY <1>1, <2>1
  <2>2. CASE failures = 0
    <3>1. PICK kind \in Kinds, b \in pinned :
            kind = capturing[v].kind /\ b = writer[v].batch /\ Overtaken(kind, b)
      BY <1>1, <1>2, <2>2 DEF CauseInv, BatchOf
    <3>2. Overtaken(kind, b)'
      BY <3>1, OvertakenStays
    <3>3. b \in pinned'
      BY <1>1, PinnedGrows
    <3> QED
      BY <1>2, <3>1, <3>2, <3>3
  <2> QED
    BY <1>1, <2>1, <2>2
<1>3. CASE ~(capturing'[v] = capturing[v] /\ writer'[v] = writer[v])
  <2>1. ASSUME NEW w \in Writers, Forecast(w) PROVE FALSE
    BY <1>1, <1>3, <2>1, ForecastMoves DEF Start
  <2>2. ASSUME NEW w \in Writers, Check(w) \/ Insert(w) \/ Fail(w) PROVE FALSE
    BY <1>1, <1>3, <2>2, LeaveMoves, ToMoves DEF Check, Insert, Fail, SharedInv
  <2>3. ASSUME NEW w \in Writers, CallFails(w) PROVE failures' > 0
    BY <1>1, <2>3 DEF CallFails
  <2>4. ASSUME NEW w \in Writers, Fill(w) PROVE
          \E kind \in Kinds, b \in pinned' :
            kind = capturing'[v].kind /\ b = writer'[v].batch /\ Overtaken(kind, b)'
    <3>1. v = w /\ To(w, "fail") /\ ~Covered(w) /\ UNCHANGED <<fwi, scores, batches, writer>>
      BY <1>1, <1>3, <2>4, LeaveMoves, ToMoves DEF Fill, SharedInv, Elsewhere
    <3>2. capturing'[w].kind = capturing[w].kind
      BY <3>1, ToMoves
    <3>3. BatchOf(v) \in pinned /\ capturing[v].kind \in Kinds
      BY <1>1, <2>4, <3>1 DEF Fill, At, OwnerInv, Owns, PinnedInv, NoEntry, ArchiveTypes, Progress
    <3>4. PICK kind \in Kinds, b \in pinned : kind = capturing[v].kind /\ b = BatchOf(v)
      BY <3>3
    <3>5. kind = capturing'[v].kind /\ b = writer'[v].batch /\ b \in pinned'
      BY <3>1, <3>2, <3>4, PinnedGrows DEF BatchOf
    <3>6. Found(kind, b) # Whole(kind, b)
      BY <3>1, <3>4 DEF Covered
    <3>7. Found(kind, b)' = Found(kind, b)
      BY <3>1 DEF Found, Regioned
    <3>8. Overtaken(kind, b)'
      BY <3>6, <3>7 DEF Overtaken, Whole
    <3> QED
      BY <3>5, <3>8
  <2> QED
    BY <1>3, <2>1, <2>2, <2>3, <2>4 DEF ArchivesNext, vars, archives
<1> QED
  BY <1>2, <1>3

\* Only a whole batch is published.
LEMMA WholeStep ==
  ASSUME SharedInv, ArchiveTypes, QuietInv, OwnerInv, PublishedWhole,
         [ArchivesNext]_<<vars, archives>>
  PROVE  PublishedWhole'
<1> SUFFICES ASSUME NEW e \in Kinds \X Days, entries'[e].status = "published"
             PROVE  entries'[e].content = Whole(e[1], entries'[e].batch)
  BY DEF PublishedWhole, Whole
<1>1. CASE entries'[e] = entries[e]
  BY <1>1 DEF PublishedWhole
<1>2. CASE entries'[e] # entries[e]
  <2>1. PICK w \in Archivers :
          capturing[w].kind = e[1] /\ (Inserts(w, e) \/ Completes(w, e) \/ GivesUp(w, e))
    BY <1>2, EntrySteps
  <2>2. Completes(w, e)
    BY <2>1 DEF Inserts, GivesUp
  <2> QED
    BY <2>1, <2>2 DEF Completes, Covered
<1> QED
  BY <1>1, <1>2

\* No step loses a day without a cause.
LEMMA LostStep ==
  ASSUME SharedInv, SharedInv', ArchiveTypes, QuietInv, OwnerInv, PinnedInv, CauseInv,
         LostForCause, [ArchivesNext]_<<vars, archives>>
  PROVE  LostForCause'
<1>1. /\ failures \in Nat /\ failures' \in Nat /\ failures' >= failures
      /\ faults \in Nat /\ faults' \in Nat /\ faults' >= faults
  BY BoundsAssumption DEF ArchiveTypes, SharedInv, TypeOK, ArchivesNext, Forecast, Check, Insert,
     Fill, Fail, CallFails, Elsewhere, Begin, WriteFwi, WriteScores, Publish, AbortBatch,
     PartitionFails, Stop, EndCapture, vars, archives
<1>2. ASSUME NEW e \in Kinds \X Days, NEW b \in Times,
             entries'[e].batch = b, entries'[e].status = "failed"
      PROVE  failures' > 0 \/ Overtaken(e[1], b)'
  <2>1. /\ failures > 0 \/ Overtaken(e[1], b)
        /\ entries[e].batch = b /\ b \in pinned /\ e[1] \in Kinds
    <3>1. CASE entries'[e] = entries[e]
      BY <1>2, <3>1 DEF LostForCause, PinnedInv, NoEntry
    <3>2. CASE entries'[e] # entries[e]
      <4>1. PICK w \in Archivers :
              /\ EntryOf(w) = e /\ capturing[w].kind = e[1]
              /\ Inserts(w, e) \/ Completes(w, e) \/ GivesUp(w, e)
        BY <3>2, EntrySteps
      <4>2. GivesUp(w, e)
        BY <1>2, <4>1 DEF Inserts, Completes
      <4>3. entries[e].batch = BatchOf(w)
        BY <4>1, <4>2 DEF OwnerInv, Owns, At, GivesUp
      <4>4. entries[e].batch = b /\ b \in pinned
        BY <1>2, <4>2 DEF PinnedInv, NoEntry, GivesUp
      <4> QED
        BY <4>1, <4>2, <4>3, <4>4 DEF CauseInv, At, GivesUp
    <3> QED
      BY <3>1, <3>2
  <2>2. CASE failures > 0
    BY <1>1, <2>2
  <2>3. CASE Overtaken(e[1], b)
    BY <2>1, <2>3, OvertakenStays
  <2> QED
    BY <2>1, <2>2, <2>3
<1>3. ASSUME NEW e \in Kinds \X Days, NEW b \in Times,
             entries'[e].batch = b, entries'[e].status = "building"
      PROVE  \/ failures' > 0 \/ faults' > 0
             \/ \E w \in Archivers : (At(w, "fill") \/ At(w, "fail"))' /\ EntryOf(w)' = e
  <2>1. CASE entries'[e] # entries[e]
    <3>1. PICK w \in Archivers :
            EntryOf(w) = e /\ (Inserts(w, e) \/ Completes(w, e) \/ GivesUp(w, e))
      BY <2>1, EntrySteps
    <3>2. Inserts(w, e)
      BY <1>3, <3>1 DEF Completes, GivesUp
    <3>3. CASE To(w, "fill")
      <4>1. w \in Writers
        BY BoundsAssumption
      <4>2. At(w, "fill")' /\ EntryOf(w)' = e
        BY <3>1, <3>2, <3>3, <4>1, ToMoves, EntryKept DEF At, Inserts
      <4> QED
        BY <4>2
    <3> QED
      BY <1>1, <3>2, <3>3 DEF Inserts
  <2>2. CASE entries'[e] = entries[e] /\ failures' = 0 /\ faults' = 0
    <3>1. PICK v \in Archivers : (At(v, "fill") \/ At(v, "fail")) /\ EntryOf(v) = e
      BY <1>1, <1>3, <2>2 DEF LostForCause
    <3>2. v \in Writers
      BY BoundsAssumption
    <3>3. CASE capturing'[v] = capturing[v] /\ writer'[v] = writer[v]
      BY <3>1, <3>2, <3>3, OthersKeep
    <3>4. ASSUME NEW w \in Writers, Forecast(w) PROVE w # v
      BY <1>1, <2>2, <3>1, <3>4 DEF Forecast, At, Begin, WriteFwi, WriteScores, Publish,
         AbortBatch, PartitionFails, Stop, SharedInv, TypeOK
    <3>5. ASSUME NEW w \in Writers, CallFails(w) PROVE FALSE
      BY <1>1, <2>2, <3>5 DEF CallFails
    <3>6. ASSUME NEW w \in Writers, Check(w) \/ Insert(w) PROVE w # v
      BY <3>1, <3>6 DEF Check, Insert, At
    <3>7. ASSUME NEW w \in Writers, Fill(w), w = v PROVE At(v, "fail")' /\ EntryOf(v)' = e
      <4>1. ~Publishes(w)
        <5>1. EntryOf(w) \in Kinds \X Days /\ At(w, "fill")
          BY <3>1, <3>7 DEF Fill
        <5>2. ASSUME Publishes(w) PROVE entries'[e].status = "published"
          <6>1. entries'[EntryOf(w)] = [status |-> "published", batch |-> BatchOf(w),
                                        content |-> Found(capturing[w].kind, BatchOf(w))]
            BY <5>1, <5>2, EntriesMoves
          <6> QED
            BY <3>1, <3>7, <6>1
        <5> QED
          BY <1>3, <5>2
      <4>2. To(w, "fail")
        BY <3>7, <4>1 DEF Fill
      <4> QED
        BY <3>1, <3>2, <3>7, <4>2, ToMoves, EntryKept DEF At
    <3>8. ASSUME NEW w \in Writers, Fail(w), w = v PROVE FALSE
      BY <1>3, <2>2, <3>1, <3>8, EntriesMoves DEF Fail, At
    <3>9. ASSUME NEW w \in Writers, w # v,
                 Forecast(w) \/ Check(w) \/ Insert(w) \/ Fill(w) \/ Fail(w)
          PROVE  capturing'[v] = capturing[v] /\ writer'[v] = writer[v]
      BY <3>2, <3>9, ForecastMoves, LeaveMoves, ToMoves DEF Check, Insert, Fill, Fail, SharedInv
    <3> QED
      BY <3>3, <3>4, <3>5, <3>6, <3>7, <3>8, <3>9 DEF ArchivesNext, vars, archives
  <2> QED
    BY <1>1, <2>1, <2>2 DEF ArchiveTypes
<1> QED
  BY <1>2, <1>3 DEF LostForCause

-----------------------------------------------------------------------------
(* What is proved of the archives.                                         *)

\* The inductive invariant.
LEMMA ArchivesCorrect == ArchivesSpec => []ArchivesInv
<1>1. ASSUME ArchivesInit, SharedInv PROVE ArchivesInv
  <2>1. NoEntry \in [status : Statuses, batch : 0..MaxBatches, content : SUBSET Parts]
    BY BoundsAssumption DEF NoEntry, Statuses
  <2>2. Start \in Progress
    BY DEF Start, Progress, Kinds
  <2>3. ArchiveTypes
    BY <1>1, <2>1, <2>2 DEF ArchivesInit, ArchiveTypes, Entries
  <2>4. QuietInv /\ OwnerInv /\ CauseInv
    BY <1>1, BoundsAssumption DEF ArchivesInit, QuietInv, OwnerInv, Owns, CauseInv, Start
  <2>5. PinnedInv /\ PublishedWhole /\ LostForCause
    BY <1>1 DEF ArchivesInit, PinnedInv, PublishedWhole, LostForCause, NoEntry
  <2> QED
    BY <1>1, <2>3, <2>4, <2>5 DEF ArchivesInv
<1>2. ArchivesInv /\ SharedInv' /\ [ArchivesNext]_<<vars, archives>> => ArchivesInv'
  BY TypesStep, QuietStep, OwnerStep, PinnedStep, CauseStep, WholeStep, LostStep DEF ArchivesInv
<1>3. ArchivesSpec => []SharedInv
  BY ArchivesRefineBatches, SharedCorrect, PTL DEF BatchesSpec
<1> QED
  BY <1>1, <1>2, <1>3, PTL DEF ArchivesSpec

\* Archives are whole, keep their batch and lack a day only for cause, however
\* many processes publish and capture.
THEOREM ArchivesSoundHolds == ArchivesSpec => []ArchivesSound
<1>1. ASSUME ArchivesInv PROVE ArchivesKeepBatches
  BY <1>1 DEF ArchivesInv, PinnedInv, ArchivesKeepBatches, SharedInv, ReferencesKept
<1>2. ArchivesInv => ArchivesSound
  BY <1>1 DEF ArchivesInv, ArchivesSound
<1> QED
  BY <1>2, ArchivesCorrect, PTL

\* A published archive never changes.
THEOREM PublishedFinalHolds == ArchivesSpec => PublishedFinal
<1>1. ASSUME ArchivesInv, [ArchivesNext]_<<vars, archives>>,
             NEW e \in Kinds \X Days, entries[e].status = "published"
      PROVE  entries'[e] = entries[e]
  <2> SUFFICES ASSUME entries'[e] # entries[e]
               PROVE  FALSE
    OBVIOUS
  <2>1. PICK w \in Archivers :
          EntryOf(w) = e /\ (Inserts(w, e) \/ Completes(w, e) \/ GivesUp(w, e))
    BY <1>1, EntrySteps DEF ArchivesInv
  <2>2. CASE Inserts(w, e)
    BY <1>1, <2>1, <2>2 DEF Inserts, Accepts, NoEntry
  <2>3. CASE Completes(w, e)
    BY <1>1, <2>1, <2>3 DEF Completes, At, ArchivesInv, OwnerInv, Owns
  <2>4. CASE GivesUp(w, e)
    BY <1>1, <2>4 DEF GivesUp
  <2> QED
    BY <2>1, <2>2, <2>3, <2>4
<1>2. ArchivesInv /\ [ArchivesNext]_<<vars, archives>> =>
        [\A e \in Kinds \X Days :
           entries[e].status = "published" => entries'[e] = entries[e]]_entries
  BY <1>1
<1> QED
  BY <1>2, ArchivesCorrect, PTL DEF ArchivesSpec, PublishedFinal
=============================================================================
