------------------------- MODULE BlueEvidenceProofs -------------------------
(***************************************************************************)
(* Theorems about the evidence queue, for every set of cases, of reviewers *)
(* and every number of faults.                                             *)
(***************************************************************************)
EXTENDS BlueEvidenceInv, TLAPS

-----------------------------------------------------------------------------
(* Type correctness.                                                       *)

\* The values the queue writes are values of their columns.
LEMMA ColumnValues ==
  /\ {"pending", "researching", "retry_due", "reviewed", "failed"} \subseteq Statuses
  /\ Horizons \subseteq Stages /\ {"hours_24", "hours_48", "completed"} \subseteq Stages
  /\ Findings \subseteq Verdicts /\ {"pending", "inconclusive", "observed"} \subseteq Verdicts
  /\ 0 \in Attempts /\ 0 \in Tries /\ {0, 1, 2} \subseteq Moments
  /\ {"null", "future", "past"} \subseteq Delays
  /\ {"null", "set"} \subseteq Closings
  /\ {"pending", "inconclusive", "observed"} \subseteq Evaluations
BY DEF Statuses, Stages, Horizons, Verdicts, Findings, Attempts, Tries, Moments,
       Delays, Closings, Evaluations

LEMMA FreshRowType ==
  ASSUME NEW c \in Cases, NEW h \in Horizons
  PROVE  FreshRow(c, h) \in Row
BY ColumnValues DEF FreshRow, Row

\* Each way of leaving a claimed row leaves a well-typed row.
LEMMA LeavingType ==
  ASSUME NEW r \in Row, NEW status \in Statuses, NEW closed \in Closings
  PROVE  /\ ToHours48(r) \in Row
         /\ TryLater(r) \in Row
         /\ Close(r, status, closed) \in Row
BY ColumnValues DEF ToHours48, TryLater, Close, Row

LEMMA After24Type ==
  ASSUME TypeOK, NEW c \in Cases, NEW f \in Findings
  PROVE  After24(c, f) \in Row
<1>1. row[c] \in Row
  BY DEF TypeOK
<1>2. [row[c] EXCEPT !.provisional = f, !.verdict = f, !.tries = 0] \in Row
  BY <1>1, ColumnValues DEF Row
<1> QED
  BY <1>2, LeavingType, ColumnValues DEF After24

LEMMA After48Type ==
  ASSUME TypeOK, NEW c \in Cases, NEW f \in Findings
  PROVE  After48(c, f) \in Row
<1>1. row[c] \in Row
  BY DEF TypeOK
<1>2. [row[c] EXCEPT !.verdict = f] \in Row
  BY <1>1, ColumnValues DEF Row
<1> QED
  BY <1>2, LeavingType, ColumnValues DEF After48

LEMMA AfterErrorType ==
  ASSUME TypeOK, NEW c \in Cases, NEW h \in Horizons, NEW e \in Errors
  PROVE  AfterError(c, h, e) \in Row
<1>1. row[c] \in Row
  BY DEF TypeOK
<1>2. /\ [row[c] EXCEPT !.tries = 0, !.verdict = "inconclusive"] \in Row
      /\ [row[c] EXCEPT !.tries = 0] \in Row
  BY <1>1, ColumnValues DEF Row
<1> QED
  BY <1>1, <1>2, LeavingType, ColumnValues DEF AfterError

LEMMA KeyType ==
  ASSUME NEW j \in Job
  PROVE  KeyOf(j) \in Keys
<1>1. /\ j.case \in Cases
      /\ j.horizon \in Horizons
      /\ j.no \in 1..3
  BY DEF Job
<1> QED
  BY <1>1 DEF KeyOf, Keys

LEMMA TypeInit ==
  ASSUME Init
  PROVE  TypeOK
<1>1. row \in [Cases -> Row]
  BY FreshRowType DEF Init
<1>2. runs \in [Keys -> {"none", "started"} \cup Errors \cup Findings]
  BY DEF Init
<1>3. evaluation \in [Cases \X Horizons -> Evaluations]
  BY ColumnValues DEF Init
<1>4. clock \in 0..2 /\ jobs \subseteq Job /\ faults \in 0..MaxFaults
  BY FaultsAssumption DEF Init
<1> QED
  BY <1>1, <1>2, <1>3, <1>4 DEF TypeOK

LEMMA TypeStep ==
  ASSUME TypeOK, [Next]_vars
  PROVE  TypeOK'
<1>1. CASE PassHorizon
  BY <1>1 DEF PassHorizon, TypeOK
<1>2. ASSUME NEW c \in Cases, PassDelay(c) PROVE TypeOK'
  <2>1. [row[c] EXCEPT !.next = "past"] \in Row
    BY ColumnValues DEF TypeOK, Row
  <2> QED
    BY <1>2, <2>1 DEF PassDelay, TypeOK
<1>3. ASSUME NEW w \in Workers, NEW c \in Cases, Claim(w, c) PROVE TypeOK'
  <2>1. row[c] \in Row
    BY DEF TypeOK
  <2>2. [row[c] EXCEPT !.status = "researching", !.attempts = @ + 1,
                       !.tries = @ + 1] \in Row
    <3>1. row[c].attempts + 1 \in Attempts /\ row[c].tries + 1 \in Tries
      BY <1>3, <2>1 DEF Claim, Claimable, Row, Attempts, Tries
    <3> QED
      BY <2>1, <3>1, ColumnValues DEF Row
  <2>3. [worker |-> w, case |-> c, horizon |-> row[c].stage,
         no |-> row[c].tries + 1, step |-> "claimed"] \in Job
    BY <1>3, <2>1 DEF Claim, Claimable, Row, Tries, Job
  <2> QED
    BY <1>3, <2>2, <2>3 DEF Claim, TypeOK
<1>4. ASSUME NEW j \in jobs, StartRun(j) PROVE TypeOK'
  <2>1. j \in Job
    BY DEF TypeOK
  <2>2. [j EXCEPT !.step = "running"] \in Job
    BY <2>1 DEF Job
  <2> QED
    BY <1>4, <2>1, <2>2, KeyType DEF StartRun, TypeOK
<1>5. ASSUME NEW j \in jobs, NEW f \in Findings, CompleteRun(j, f) PROVE TypeOK'
  <2>1. /\ j \in Job
        /\ j.case \in Cases
        /\ j.horizon \in Horizons
        /\ row[j.case] \in Row
    BY DEF TypeOK, Job
  <2>2. /\ After24(j.case, f) \in Row
        /\ After48(j.case, f) \in Row
    BY <2>1, After24Type, After48Type
  <2>3. row' \in [Cases -> Row]
    BY <1>5, <2>1, <2>2 DEF CompleteRun, EndRun, TypeOK
  <2>4. runs' \in [Keys -> {"none", "started"} \cup Errors \cup Findings]
    BY <1>5, <2>1, KeyType DEF CompleteRun, EndRun, TypeOK
  <2>5. evaluation' \in [Cases \X Horizons -> Evaluations]
    BY <1>5, <2>1, ColumnValues DEF CompleteRun, Evaluate, TypeOK
  <2> QED
    BY <1>5, <2>3, <2>4, <2>5 DEF CompleteRun, EndRun, TypeOK
<1>6. ASSUME NEW j \in jobs, NEW e \in Errors, FailRun(j, e) PROVE TypeOK'
  <2>1. /\ j \in Job
        /\ j.case \in Cases
        /\ j.horizon \in Horizons
        /\ row[j.case] \in Row
    BY DEF TypeOK, Job
  <2>2. AfterError(j.case, j.horizon, e) \in Row
    BY <2>1, AfterErrorType
  <2>3. row' \in [Cases -> Row]
    BY <1>6, <2>1, <2>2 DEF FailRun, EndRun, TypeOK
  <2>4. runs' \in [Keys -> {"none", "started"} \cup Errors \cup Findings]
    BY <1>6, <2>1, KeyType DEF FailRun, EndRun, TypeOK
  <2> QED
    BY <1>6, <2>3, <2>4 DEF FailRun, EndRun, TypeOK
<1>7. ASSUME NEW j \in jobs, StartFails(j) \/ PersistFails(j) PROVE TypeOK'
  BY <1>7, FaultsAssumption DEF StartFails, PersistFails, Drop, Fault, TypeOK
<1>8. CASE Restart
  BY <1>8, FaultsAssumption DEF Restart, Drop, Fault, TypeOK
<1>9. CASE UNCHANGED vars
  BY <1>9 DEF vars, TypeOK
<1> QED
  BY <1>1, <1>2, <1>3, <1>4, <1>5, <1>6, <1>7, <1>8, <1>9 DEF Next, Answer

\* Every column of the tables stays within its constraint, and the reviewers
\* remember jobs only: no update of the queue is rejected by a CHECK.
THEOREM TypeCorrect == Spec => []TypeOK
<1>1. Init => TypeOK
  BY TypeInit
<1>2. TypeOK /\ [Next]_vars => TypeOK'
  BY TypeStep
<1> QED
  BY <1>1, <1>2, PTL DEF Spec

-----------------------------------------------------------------------------
(* What the end of a run does to the row, and to the run.                  *)

LEMMA After24Fields ==
  ASSUME TypeOK, NEW c \in Cases, NEW f \in Findings
  PROVE  LET r == After24(c, f) IN
         /\ r.provisional = f /\ r.verdict = f
         /\ r.attempts = row[c].attempts /\ r.tries = 0 /\ r.next = "null"
         /\ c \in Alerts48 => /\ r.status = "pending" /\ r.stage = "hours_48"
                              /\ r.after = 2 /\ r.closed = "null"
         /\ c \notin Alerts48 => /\ r.status = "reviewed" /\ r.stage = "completed"
                                 /\ r.closed = "set"
BY DEF TypeOK, After24, ToHours48, Close, Row

LEMMA After48Fields ==
  ASSUME TypeOK, NEW c \in Cases, NEW f \in Findings, row[c].stage = "hours_48"
  PROVE  LET r == After48(c, f) IN
         /\ r.provisional = row[c].provisional /\ r.verdict = f
         /\ r.attempts = row[c].attempts /\ r.tries = row[c].tries
         /\ r.after = row[c].after
         /\ f = "no_evidence_found" /\ row[c].tries < 2 =>
              /\ r.status = "retry_due" /\ r.stage = "hours_48"
              /\ r.next = "future" /\ r.closed = "null"
         /\ ~(f = "no_evidence_found" /\ row[c].tries < 2) =>
              /\ r.status = "reviewed" /\ r.stage = "completed"
              /\ r.next = "null" /\ r.closed = "set"
BY DEF TypeOK, After48, TryLater, Close, Row

LEMMA AfterErrorFields ==
  ASSUME TypeOK, NEW c \in Cases, NEW h \in Horizons, NEW e \in Errors
  PROVE  LET r == AfterError(c, h, e)
             again == row[c].tries < TriesAllowed(e)
         IN
         /\ r.provisional = row[c].provisional
         /\ r.attempts = row[c].attempts
         /\ again => /\ r.status = "retry_due" /\ r.stage = row[c].stage
                     /\ r.tries = row[c].tries /\ r.next = "future"
                     /\ r.after = row[c].after
                     /\ r.verdict = row[c].verdict /\ r.closed = "null"
         /\ ~again => r.tries = 0 /\ r.next = "null"
         /\ ~again /\ h = "hours_48" =>
              /\ r.status = "failed" /\ r.stage = "completed"
              /\ r.verdict = "inconclusive" /\ r.closed = "set"
         /\ ~again /\ h = "hours_24" => r.verdict = row[c].verdict /\ r.closed = "null"
         /\ ~again /\ h = "hours_24" /\ c \in Alerts48 =>
              r.status = "pending" /\ r.stage = "hours_48" /\ r.after = 2
         /\ ~again /\ h = "hours_24" /\ c \notin Alerts48 =>
              r.status = "failed" /\ r.stage = "completed"
BY DEF TypeOK, AfterError, ToHours48, TryLater, Close, Row, Horizons

\* The three shapes a claimed row is left in.
Left(j, r) ==
  \/ /\ j.horizon = "hours_24" /\ j.case \in Alerts48
     /\ r.status = "pending" /\ r.stage = "hours_48" /\ r.tries = 0
  \/ /\ r.status = "retry_due" /\ r.stage = j.horizon
     /\ r.tries = j.no /\ j.no < 3
  \/ r.status \in {"reviewed", "failed"} /\ r.stage = "completed"

LEMMA JobFacts ==
  ASSUME QueueInv, NEW j \in jobs
  PROVE  /\ j \in Job
         /\ j.case \in Cases /\ j.horizon \in Horizons /\ j.no \in 1..3
         /\ KeyOf(j) \in Keys
         /\ row[j.case].status = "researching"
         /\ row[j.case].stage = j.horizon
         /\ row[j.case].tries = j.no
         /\ runs[KeyOf(j)] = IF j.step = "claimed" THEN "none" ELSE "started"
         /\ \A k \in jobs : k.case = j.case => k = j
BY KeyType DEF QueueInv, JobInv, TypeOK, Job

\* The guards in the WHERE clauses hold: the end of a run always writes.
LEMMA EndRunWrites ==
  ASSUME QueueInv, NEW j \in jobs, NEW o, NEW r, EndRun(j, o, r)
  PROVE  /\ runs[KeyOf(j)] = "started"
         /\ row' = [row EXCEPT ![j.case] = r]
         /\ runs' = [runs EXCEPT ![KeyOf(j)] = o]
         /\ jobs' = jobs \ {j}
         /\ clock' = clock /\ faults' = faults
<1>1. runs[KeyOf(j)] = "started" /\ row[j.case].status = "researching"
  BY JobFacts DEF EndRun
<1> QED
  BY <1>1 DEF EndRun

LEMMA CompleteLeaves ==
  ASSUME QueueInv, NEW j \in jobs, NEW f \in Findings
  PROVE  LET r == IF j.horizon = "hours_24" THEN After24(j.case, f)
                  ELSE After48(j.case, f)
         IN  r \in Row /\ Left(j, r)
<1>1. TypeOK
  BY DEF QueueInv
<1>2. CASE j.horizon = "hours_24"
  BY <1>1, <1>2, JobFacts, After24Fields, After24Type DEF Left
<1>3. CASE j.horizon = "hours_48"
  BY <1>1, <1>3, JobFacts, After48Fields, After48Type DEF Left
<1> QED
  BY <1>2, <1>3, JobFacts DEF Horizons

LEMMA FailLeaves ==
  ASSUME QueueInv, NEW j \in jobs, NEW e \in Errors
  PROVE  LET r == AfterError(j.case, j.horizon, e) IN r \in Row /\ Left(j, r)
<1>1. TypeOK
  BY DEF QueueInv
<1>2. AfterError(j.case, j.horizon, e) \in Row
  BY <1>1, JobFacts, AfterErrorType
<1>3. TriesAllowed(e) <= 3 /\ TriesAllowed(e) \in Nat
  BY DEF TriesAllowed
<1>4. CASE row[j.case].tries < TriesAllowed(e)
  BY <1>1, <1>2, <1>3, <1>4, JobFacts, AfterErrorFields DEF Left
<1>5. CASE ~(row[j.case].tries < TriesAllowed(e))
  BY <1>1, <1>2, <1>5, JobFacts, AfterErrorFields DEF Left, Horizons
<1> QED
  BY <1>4, <1>5

-----------------------------------------------------------------------------
(* The rows, the runs and the reviewers' memory stay consistent.           *)

LEMMA OpenStage ==
  ASSUME NEW c \in Cases, row[c] \in Row, StageInv(c),
         Open(row[c]) \/ row[c].status = "researching"
  PROVE  row[c].stage \in Horizons
BY DEF StageInv, Open, Row, Stages, Statuses

\* A row and its runs are left alone by what happens to other cases.
LEMMA QueueFrame ==
  ASSUME NEW c \in Cases, row[c] \in Row, StageInv(c), LedgerInv(c),
         row'[c] = row[c],
         \A h \in Horizons, n \in 1..3 : Taken(c, h, n)' <=> Taken(c, h, n)
  PROVE  StageInv(c)' /\ LedgerInv(c)'
<1>1. StageInv(c)'
  BY DEF StageInv
<1>2. row[c].stage = "hours_24" => \A n \in 1..3 : ~Taken(c, "hours_48", n)'
  BY DEF LedgerInv, Horizons
<1>3. Open(row[c]) => /\ row[c].tries < 3
                      /\ \A n \in 1..3 : Taken(c, row[c].stage, n)' <=> n <= row[c].tries
  BY OpenStage DEF LedgerInv
<1>4. row[c].status = "researching" =>
        /\ row[c].tries >= 1
        /\ \A n \in 1..3 : /\ n < row[c].tries => Taken(c, row[c].stage, n)'
                           /\ n > row[c].tries => ~Taken(c, row[c].stage, n)'
  BY OpenStage DEF LedgerInv
<1> QED
  BY <1>1, <1>2, <1>3, <1>4 DEF LedgerInv, Taken

\* Only the run of the reviewer changes, and it was taken already.
LEMMA EndRunRuns ==
  ASSUME QueueInv, NEW j \in jobs, NEW o \in Findings \cup Errors, NEW r,
         EndRun(j, o, r)
  PROVE  /\ \A c \in Cases, h \in Horizons, n \in 1..3 :
              runs'[<<c, h, n>>] = IF <<c, h, n>> = KeyOf(j) THEN o
                                   ELSE runs[<<c, h, n>>]
         /\ \A c \in Cases, h \in Horizons, n \in 1..3 :
              Taken(c, h, n)' <=> Taken(c, h, n)
<1>1. runs \in [Keys -> {"none", "started"} \cup Errors \cup Findings]
  BY DEF QueueInv, TypeOK
<1>2. \A c \in Cases, h \in Horizons, n \in 1..3 : <<c, h, n>> \in Keys
  BY DEF Keys
<1>3. \A c \in Cases, h \in Horizons, n \in 1..3 :
        runs'[<<c, h, n>>] = IF <<c, h, n>> = KeyOf(j) THEN o ELSE runs[<<c, h, n>>]
  <2>1. runs' = [runs EXCEPT ![KeyOf(j)] = o] /\ KeyOf(j) \in Keys
    BY EndRunWrites, JobFacts
  <2> QED
    BY <1>1, <1>2, <2>1
<1>4. o # "none" /\ runs[KeyOf(j)] # "none"
  BY EndRunWrites DEF Findings, Errors
<1> QED
  BY <1>3, <1>4 DEF Taken

LEMMA EndRunKeepsQueue ==
  ASSUME QueueInv, NEW j \in jobs, NEW o \in Findings \cup Errors,
         NEW r \in Row, Left(j, r), EndRun(j, o, r)
  PROVE  /\ JobInv' /\ HeldInv'
         /\ \A c \in Cases : StageInv(c)' /\ LedgerInv(c)'
<1>1. /\ row \in [Cases -> Row]
      /\ \A c \in Cases : StageInv(c) /\ LedgerInv(c)
  BY DEF QueueInv, TypeOK
<1>2. ASSUME NEW c \in Cases, c # j.case PROVE StageInv(c)' /\ LedgerInv(c)'
  BY <1>1, <1>2, EndRunWrites, EndRunRuns, QueueFrame
<1>3. row'[j.case] = r
  BY <1>1, EndRunWrites, JobFacts
<1>4. /\ j.case \in Cases /\ j.horizon \in Horizons /\ j.no \in 1..3
      /\ row[j.case].status = "researching"
      /\ row[j.case].stage = j.horizon /\ row[j.case].tries = j.no
      /\ runs[KeyOf(j)] = "started"
  BY JobFacts, EndRunWrites
<1>5. \A n \in 1..3 : Taken(j.case, j.horizon, n) <=> n <= j.no
  <2>1. Taken(j.case, j.horizon, j.no)
    BY <1>4 DEF Taken, KeyOf
  <2>2. \A n \in 1..3 : /\ n < j.no => Taken(j.case, j.horizon, n)
                        /\ n > j.no => ~Taken(j.case, j.horizon, n)
    BY <1>1, <1>4 DEF LedgerInv
  <2> QED
    BY <1>4, <2>1, <2>2
<1>6. j.horizon = "hours_24" => \A n \in 1..3 : ~Taken(j.case, "hours_48", n)
  BY <1>1, <1>4 DEF LedgerInv
<1>7. j.case \in AlertsAt(j.horizon)
  BY <1>1, <1>4 DEF StageInv, AlertsAt, Horizons
<1>8. StageInv(j.case)'
  BY <1>3, <1>4, <1>7 DEF Left, StageInv, AlertsAt, Horizons
<1>9. LedgerInv(j.case)'
  <2>1. CASE /\ j.horizon = "hours_24"
             /\ r.status = "pending" /\ r.stage = "hours_48" /\ r.tries = 0
    BY <2>1, <1>3, <1>4, <1>6, EndRunRuns DEF LedgerInv, Open, Horizons
  <2>2. CASE /\ r.status = "retry_due" /\ r.stage = j.horizon
             /\ r.tries = j.no /\ j.no < 3
    BY <2>2, <1>3, <1>4, <1>5, <1>6, EndRunRuns DEF LedgerInv, Open, Horizons
  <2>3. CASE r.status \in {"reviewed", "failed"} /\ r.stage = "completed"
    BY <2>3, <1>3 DEF LedgerInv, Open
  <2> QED
    BY <2>1, <2>2, <2>3 DEF Left
<1>10. JobInv'
  <2> SUFFICES ASSUME NEW k \in jobs'
               PROVE  /\ row'[k.case].status = "researching"
                      /\ row'[k.case].stage = k.horizon
                      /\ row'[k.case].tries = k.no
                      /\ runs'[KeyOf(k)] = IF k.step = "claimed" THEN "none" ELSE "started"
                      /\ \A l \in jobs' : l.case = k.case => l = k
    BY DEF JobInv, KeyOf
  <2>1. k \in jobs /\ k # j
    BY EndRunWrites
  <2>2. k.case # j.case
    BY <2>1, JobFacts
  <2>3. row'[k.case] = row[k.case] /\ runs'[KeyOf(k)] = runs[KeyOf(k)]
    <3>1. k.case \in Cases /\ k.horizon \in Horizons /\ k.no \in 1..3
      BY <2>1, JobFacts
    <3>2. row'[k.case] = row[k.case]
      BY <3>1, <2>2, <1>1, EndRunWrites
    <3>3. KeyOf(k) # KeyOf(j)
      BY <2>2 DEF KeyOf
    <3>4. KeyOf(k) = <<k.case, k.horizon, k.no>>
      BY DEF KeyOf
    <3>5. \A d \in Cases, h \in Horizons, n \in 1..3 :
            runs'[<<d, h, n>>] = IF <<d, h, n>> = KeyOf(j) THEN o ELSE runs[<<d, h, n>>]
      BY EndRunRuns
    <3> QED
      BY <3>1, <3>2, <3>3, <3>4, <3>5
  <2> QED
    BY <2>1, <2>3, JobFacts, EndRunWrites
<1>11. HeldInv'
  <2> SUFFICES ASSUME faults' = 0, NEW c \in Cases, row'[c].status = "researching"
               PROVE  \E k \in jobs' : k.case = c
    BY DEF HeldInv
  <2>1. c # j.case
    BY <1>3 DEF Left
  <2>2. row[c].status = "researching" /\ faults = 0
    BY <2>1, <1>1, EndRunWrites
  <2>3. PICK k \in jobs : k.case = c
    BY <2>2 DEF QueueInv, HeldInv
  <2> QED
    BY <2>1, <2>3, EndRunWrites
<1> QED
  BY <1>2, <1>8, <1>9, <1>10, <1>11

LEMMA ClaimKeepsQueue ==
  ASSUME QueueInv, NEW w \in Workers, NEW c \in Cases, Claim(w, c)
  PROVE  /\ JobInv' /\ HeldInv'
         /\ \A d \in Cases : StageInv(d)' /\ LedgerInv(d)'
<1> DEFINE new == [worker |-> w, case |-> c, horizon |-> row[c].stage,
                   no |-> row[c].tries + 1, step |-> "claimed"]
<1>1. /\ row \in [Cases -> Row]
      /\ \A d \in Cases : StageInv(d) /\ LedgerInv(d)
  BY DEF QueueInv, TypeOK
<1>2. /\ Open(row[c]) /\ row[c].stage \in Horizons
      /\ row[c].tries \in Nat /\ row[c].tries < 3
  BY <1>1 DEF Claim, Claimable, Open, Row, Tries
<1>3. /\ row'[c].status = "researching"
      /\ row'[c].stage = row[c].stage
      /\ row'[c].tries = row[c].tries + 1
      /\ \A d \in Cases \ {c} : row'[d] = row[d]
      /\ jobs' = jobs \cup {new} /\ runs' = runs /\ faults' = faults
  BY <1>1 DEF Claim, Row
<1>4. ASSUME NEW d \in Cases, d # c PROVE StageInv(d)' /\ LedgerInv(d)'
  BY <1>1, <1>3, <1>4, QueueFrame DEF Taken
<1>5. \A n \in 1..3 : Taken(c, row[c].stage, n) <=> n <= row[c].tries
  BY <1>1, <1>2 DEF LedgerInv
<1>6. StageInv(c)'
  BY <1>1, <1>2, <1>3 DEF StageInv, Horizons
<1>7. LedgerInv(c)'
  <2>1. \A h \in Horizons, n \in 1..3 : Taken(c, h, n)' <=> Taken(c, h, n)
    BY <1>3 DEF Taken
  <2>2. row[c].stage = "hours_24" => \A n \in 1..3 : ~Taken(c, "hours_48", n)
    BY <1>1 DEF LedgerInv
  <2>3. row'[c].stage = "hours_24" => \A n \in 1..3 : ~Taken(c, "hours_48", n)'
    BY <1>3, <2>1, <2>2 DEF Horizons
  <2>4. \A n \in 1..3 : Taken(c, row[c].stage, n)' <=> n <= row[c].tries
    BY <1>2, <1>3, <1>5 DEF Taken
  <2>5. ~Open(row'[c])
    BY <1>3 DEF Open
  <2> QED
    BY <1>2, <1>3, <2>3, <2>4, <2>5 DEF LedgerInv, Taken
<1>8. \A k \in jobs : k.case # c
  BY <1>2, JobFacts DEF Open
<1>9. runs[KeyOf(new)] = "none"
  BY <1>2, <1>5 DEF Taken, KeyOf
<1>10. JobInv'
  <2>1. ASSUME NEW k \in jobs
        PROVE  /\ row'[k.case] = row[k.case] /\ runs'[KeyOf(k)] = runs[KeyOf(k)]
               /\ \A l \in jobs' : l.case = k.case => l = k
    BY <1>3, <1>8, JobFacts
  <2>2. /\ row'[new.case].status = "researching"
        /\ row'[new.case].stage = new.horizon
        /\ row'[new.case].tries = new.no
        /\ runs'[KeyOf(new)] = "none" /\ new.step = "claimed"
        /\ \A l \in jobs' : l.case = new.case => l = new
    BY <1>3, <1>8, <1>9
  <2> HIDE DEF new
  <2> SUFFICES ASSUME NEW k \in jobs'
               PROVE  /\ row'[k.case].status = "researching"
                      /\ row'[k.case].stage = k.horizon
                      /\ row'[k.case].tries = k.no
                      /\ runs'[KeyOf(k)] = IF k.step = "claimed" THEN "none" ELSE "started"
                      /\ \A l \in jobs' : l.case = k.case => l = k
    BY DEF JobInv, KeyOf
  <2>3. CASE k \in jobs
    BY <2>1, <2>3, JobFacts
  <2>4. CASE k = new
    BY <2>2, <2>4
  <2> QED
    BY <1>3, <2>3, <2>4
<1>11. HeldInv'
  <2> SUFFICES ASSUME faults' = 0, NEW d \in Cases, row'[d].status = "researching"
               PROVE  \E k \in jobs' : k.case = d
    BY DEF HeldInv
  <2>1. CASE d = c
    <3>1. new \in jobs' /\ new.case = c
      BY <1>3
    <3> QED
      BY <2>1, <3>1
  <2>2. CASE d # c
    BY <2>2, <1>3 DEF QueueInv, HeldInv
  <2> QED
    BY <2>1, <2>2
<1> QED
  BY <1>4, <1>6, <1>7, <1>10, <1>11

LEMMA StartKeepsQueue ==
  ASSUME QueueInv, NEW j \in jobs, StartRun(j)
  PROVE  /\ JobInv' /\ HeldInv'
         /\ \A c \in Cases : StageInv(c)' /\ LedgerInv(c)'
<1> DEFINE new == [j EXCEPT !.step = "running"]
<1>1. /\ row \in [Cases -> Row]
      /\ \A c \in Cases : StageInv(c) /\ LedgerInv(c)
      /\ runs \in [Keys -> {"none", "started"} \cup Errors \cup Findings]
  BY DEF QueueInv, TypeOK
<1>2. /\ runs' = [runs EXCEPT ![KeyOf(j)] = "started"]
      /\ jobs' = (jobs \ {j}) \cup {new}
      /\ row' = row /\ faults' = faults
  BY DEF StartRun
<1>3. /\ j \in Job /\ j.case \in Cases /\ j.horizon \in Horizons /\ j.no \in 1..3
      /\ KeyOf(j) \in Keys
      /\ row[j.case].status = "researching"
      /\ row[j.case].stage = j.horizon /\ row[j.case].tries = j.no
      /\ \A k \in jobs : k.case = j.case => k = j
  BY JobFacts
<1>4. \A c \in Cases, h \in Horizons, n \in 1..3 :
        runs'[<<c, h, n>>] = IF <<c, h, n>> = KeyOf(j) THEN "started"
                             ELSE runs[<<c, h, n>>]
  BY <1>1, <1>2, <1>3 DEF Keys
<1>5. ASSUME NEW c \in Cases, c # j.case PROVE StageInv(c)' /\ LedgerInv(c)'
  <2>1. \A h \in Horizons, n \in 1..3 : Taken(c, h, n)' <=> Taken(c, h, n)
    BY <1>4, <1>5 DEF Taken, KeyOf
  <2> QED
    BY <1>1, <1>2, <2>1, QueueFrame
<1>6. StageInv(j.case)'
  BY <1>1, <1>2, <1>3 DEF StageInv
<1>7. LedgerInv(j.case)'
  <2>1. \A h \in Horizons, n \in 1..3 :
          h # j.horizon \/ n # j.no => (Taken(j.case, h, n)' <=> Taken(j.case, h, n))
    BY <1>3, <1>4 DEF Taken, KeyOf
  <2> QED
    BY <1>1, <1>2, <1>3, <2>1 DEF LedgerInv, Open, Horizons
<1>8. /\ new.case = j.case /\ new.horizon = j.horizon /\ new.no = j.no
      /\ new.step = "running" /\ KeyOf(new) = KeyOf(j)
  BY <1>3 DEF Job, KeyOf
<1>9. JobInv'
  <2>1. ASSUME NEW k \in jobs \ {j}
        PROVE  /\ runs'[KeyOf(k)] = runs[KeyOf(k)]
               /\ k.case # j.case
    <3>1. k.case \in Cases /\ k.horizon \in Horizons /\ k.no \in 1..3 /\ k.case # j.case
      BY <1>3, JobFacts
    <3> QED
      BY <1>4, <3>1 DEF KeyOf
  <2>2. runs'[KeyOf(new)] = "started"
    BY <1>1, <1>2, <1>3, <1>8
  <2> HIDE DEF new
  <2> SUFFICES ASSUME NEW k \in jobs'
               PROVE  /\ row'[k.case].status = "researching"
                      /\ row'[k.case].stage = k.horizon
                      /\ row'[k.case].tries = k.no
                      /\ runs'[KeyOf(k)] = IF k.step = "claimed" THEN "none" ELSE "started"
                      /\ \A l \in jobs' : l.case = k.case => l = k
    BY DEF JobInv, KeyOf
  <2>3. CASE k \in jobs \ {j}
    BY <1>2, <1>8, <2>1, <2>3, JobFacts
  <2>4. CASE k = new
    BY <1>2, <1>3, <1>8, <2>1, <2>2, <2>4
  <2> QED
    BY <1>2, <2>3, <2>4
<1>10. HeldInv'
  BY <1>2, <1>8 DEF QueueInv, HeldInv
<1> QED
  BY <1>5, <1>6, <1>7, <1>9, <1>10

\* Time, and the loss of reviewers: no row is claimed, left or closed.
LEMMA QuietKeepsQueue ==
  ASSUME QueueInv, runs' = runs, jobs' \subseteq jobs, faults \in Nat,
         (jobs' = jobs /\ faults' = faults) \/ faults' = faults + 1,
         \A c \in Cases : /\ row'[c].status = row[c].status
                          /\ row'[c].stage = row[c].stage
                          /\ row'[c].tries = row[c].tries
  PROVE  /\ JobInv' /\ HeldInv'
         /\ \A c \in Cases : StageInv(c)' /\ LedgerInv(c)'
<1>1. ASSUME NEW c \in Cases PROVE StageInv(c)' /\ LedgerInv(c)'
  <2>1. StageInv(c) /\ LedgerInv(c)
    BY DEF QueueInv
  <2>2. StageInv(c)'
    BY <2>1 DEF StageInv
  <2>3. LedgerInv(c)'
    BY <2>1 DEF LedgerInv, Open, Taken
  <2> QED
    BY <2>2, <2>3
<1>2. JobInv'
  <2> SUFFICES ASSUME NEW j \in jobs'
               PROVE  /\ row'[j.case].status = "researching"
                      /\ row'[j.case].stage = j.horizon
                      /\ row'[j.case].tries = j.no
                      /\ runs'[KeyOf(j)] = IF j.step = "claimed" THEN "none" ELSE "started"
                      /\ \A k \in jobs' : k.case = j.case => k = j
    BY DEF JobInv, KeyOf
  <2> QED
    BY JobFacts
<1>3. HeldInv'
  BY DEF QueueInv, HeldInv
<1> QED
  BY <1>1, <1>2, <1>3

LEMMA QueueStep ==
  ASSUME QueueInv, [Next]_vars
  PROVE  QueueInv'
<1>1. TypeOK /\ TypeOK'
  BY TypeStep DEF QueueInv
<1>2. faults \in Nat
  BY <1>1, FaultsAssumption DEF TypeOK
<1> DEFINE Kept == /\ JobInv' /\ HeldInv'
                   /\ \A c \in Cases : StageInv(c)' /\ LedgerInv(c)'
<1>3. ASSUME PassHorizon PROVE Kept
  BY <1>2, <1>3, QuietKeepsQueue DEF PassHorizon
<1>4. ASSUME NEW c \in Cases, PassDelay(c) PROVE Kept
  <2>1. \A d \in Cases : /\ row'[d].status = row[d].status
                         /\ row'[d].stage = row[d].stage
                         /\ row'[d].tries = row[d].tries
    BY <1>1, <1>4 DEF PassDelay, TypeOK, Row
  <2> QED
    BY <1>2, <1>4, <2>1, QuietKeepsQueue DEF PassDelay
<1>5. ASSUME NEW w \in Workers, NEW c \in Cases, Claim(w, c) PROVE Kept
  BY <1>5, ClaimKeepsQueue
<1>6. ASSUME NEW j \in jobs, StartRun(j) PROVE Kept
  BY <1>6, StartKeepsQueue
<1>7. ASSUME NEW j \in jobs, NEW f \in Findings, CompleteRun(j, f) PROVE Kept
  <2> DEFINE r == IF j.horizon = "hours_24" THEN After24(j.case, f)
                  ELSE After48(j.case, f)
  <2>1. r \in Row /\ Left(j, r)
    BY CompleteLeaves
  <2>2. EndRun(j, f, r)
    BY <1>7 DEF CompleteRun
  <2> HIDE DEF r
  <2> QED
    BY <2>1, <2>2, EndRunKeepsQueue
<1>8. ASSUME NEW j \in jobs, NEW e \in Errors, FailRun(j, e) PROVE Kept
  <2> DEFINE r == AfterError(j.case, j.horizon, e)
  <2>1. r \in Row /\ Left(j, r)
    BY FailLeaves
  <2>2. EndRun(j, e, r)
    BY <1>8 DEF FailRun
  <2> HIDE DEF r
  <2> QED
    BY <2>1, <2>2, EndRunKeepsQueue
<1>9. ASSUME NEW j \in jobs, StartFails(j) \/ PersistFails(j) PROVE Kept
  <2>1. j.step = "claimed" => runs[KeyOf(j)] = "none"
    BY JobFacts
  <2>2. faults' = faults + 1 /\ jobs' \subseteq jobs /\ row' = row /\ runs' = runs
    BY <1>9, <2>1 DEF StartFails, PersistFails, Drop, Fault
  <2> QED
    BY <1>2, <2>2, QuietKeepsQueue
<1>10. ASSUME Restart PROVE Kept
  BY <1>2, <1>10, QuietKeepsQueue DEF Restart, Drop, Fault
<1>11. ASSUME UNCHANGED vars PROVE Kept
  BY <1>2, <1>11, QuietKeepsQueue DEF vars
<1>12. Kept
  BY <1>3, <1>4, <1>5, <1>6, <1>7, <1>8, <1>9, <1>10, <1>11 DEF Next, Answer
<1> QED
  BY <1>1, <1>12 DEF QueueInv

LEMMA QueueInit ==
  ASSUME Init
  PROVE  QueueInv
<1>1. TypeOK /\ jobs = {} /\ runs = [k \in Keys |-> "none"]
  BY TypeInit DEF Init
<1>2. PICK first \in [Cases -> Horizons] :
        /\ \A c \in Cases : first[c] \in FirstStages(c)
        /\ row = [c \in Cases |-> FreshRow(c, first[c])]
  BY DEF Init
<1>3. ASSUME NEW c \in Cases
      PROVE  /\ row[c].status = "pending" /\ row[c].tries = 0
             /\ row[c].stage = first[c] /\ first[c] \in Horizons
             /\ c \in AlertsAt(first[c])
  <2>1. row[c] = FreshRow(c, first[c]) /\ first[c] \in FirstStages(c)
    BY <1>2
  <2> QED
    BY <2>1 DEF FreshRow, FirstStages
<1>4. \A c \in Cases, h \in Horizons, n \in 1..3 : ~Taken(c, h, n)
  BY <1>1 DEF Keys, Taken
<1>5. ASSUME NEW c \in Cases PROVE StageInv(c) /\ LedgerInv(c)
  <2>1. StageInv(c)
    BY <1>3 DEF StageInv, AlertsAt, Horizons
  <2>2. LedgerInv(c)
    <3>1. \A n \in 1..3 : ~(n <= 0)
      OBVIOUS
    <3> QED
      BY <1>3, <1>4, <3>1 DEF LedgerInv, Open, Horizons
  <2> QED
    BY <2>1, <2>2
<1>6. JobInv /\ HeldInv
  BY <1>1, <1>3 DEF JobInv, HeldInv
<1> QED
  BY <1>1, <1>5, <1>6 DEF QueueInv

\* The inductive invariant of claims and runs.
THEOREM QueueCorrect == Spec => []QueueInv
<1>1. Init => QueueInv
  BY QueueInit
<1>2. QueueInv /\ [Next]_vars => QueueInv'
  BY QueueStep
<1> QED
  BY <1>1, <1>2, PTL DEF Spec

\* Two reviewers never hold the same case, and a case marked as researched is
\* held unless a fault took its reviewer away.
THEOREM OneReviewerHolds == Spec => []OneReviewer
<1>1. QueueInv => OneReviewer
  <2> SUFFICES ASSUME QueueInv, NEW c \in Cases
               PROVE  /\ \A j, k \in jobs : j.case = c /\ k.case = c => j = k
                      /\ row[c].status = "researching" \/ \A j \in jobs : j.case # c
                      /\ row[c].status = "researching" /\ faults = 0 =>
                           \E j \in jobs : j.case = c
    BY DEF OneReviewer
  <2>1. \A j, k \in jobs : j.case = c /\ k.case = c => j = k
    BY JobFacts
  <2>2. row[c].status = "researching" \/ \A j \in jobs : j.case # c
    BY JobFacts
  <2> QED
    BY <2>1, <2>2 DEF QueueInv, HeldInv
<1> QED
  BY <1>1, QueueCorrect, PTL

\* A claimed case finds its run number free, and the counter of a waiting case
\* is the number of its stage's runs: UNIQUE never rejects a claim's run.
THEOREM RunLedgerHolds == Spec => []RunLedger
<1>1. QueueInv => RunLedger
  <2> SUFFICES ASSUME QueueInv PROVE RunLedger
    OBVIOUS
  <2>1. \A j \in jobs : j.step \in {"claimed", "running"}
    BY JobFacts DEF Job
  <2>2. \A j \in jobs : (runs[KeyOf(j)] = "none") <=> (j.step = "claimed")
    BY <2>1, JobFacts
  <2>3. \A c \in Cases : Open(row[c]) =>
          \A n \in 1..3 : (runs[<<c, row[c].stage, n>>] # "none") <=> (n <= row[c].tries)
    BY DEF QueueInv, LedgerInv, Taken
  <2> QED
    BY <2>2, <2>3 DEF RunLedger
<1> QED
  BY <1>1, QueueCorrect, PTL

-----------------------------------------------------------------------------
(* What the queue guarantees of one case: its bounds, its retries, its     *)
(* verdict and evaluation, and that it implements BlueReview.  All of it   *)
(* rests on QueueInv and on what one step can do to one case.              *)


SameRuns(c) ==
  \A h \in Horizons, n \in 1..3 : runs'[<<c, h, n>>] = runs[<<c, h, n>>]
SameEvaluation(c) ==
  \A h \in Horizons : evaluation'[<<c, h>>] = evaluation[<<c, h>>]

\* Nothing but the delay of the row changes, or the run of its claim begins.
Rests(c) ==
  /\ row'[c] = [row[c] EXCEPT !.next = row'[c].next]
  /\ row'[c].next = row[c].next \/ (row[c].next = "future" /\ row'[c].next = "past")
  /\ \A h \in Horizons, n \in 1..3 :
       \/ runs'[<<c, h, n>>] = runs[<<c, h, n>>]
       \/ /\ row[c].status = "researching" /\ h = row[c].stage /\ n = row[c].tries
          /\ runs[<<c, h, n>>] = "none" /\ runs'[<<c, h, n>>] = "started"
  /\ SameEvaluation(c)
  /\ clock <= clock'

\* The row is claimed.
Takes(c) ==
  /\ Claimable(row[c])
  /\ row'[c] = [row[c] EXCEPT !.status = "researching", !.attempts = @ + 1,
                              !.tries = @ + 1]
  /\ SameRuns(c) /\ SameEvaluation(c) /\ clock' = clock

\* The claimed row is left, its run ends with outcome o.
Ends(c, o) ==
  /\ row[c].status = "researching"
  /\ row[c].stage \in Horizons /\ row[c].tries \in 1..3
  /\ runs[<<c, row[c].stage, row[c].tries>>] = "started"
  /\ \A h \in Horizons, n \in 1..3 :
       runs'[<<c, h, n>>] = IF h = row[c].stage /\ n = row[c].tries THEN o
                            ELSE runs[<<c, h, n>>]
  /\ clock' = clock

Answers(c, f) ==
  /\ Ends(c, f)
  /\ row'[c] = IF row[c].stage = "hours_24" THEN After24(c, f) ELSE After48(c, f)
  /\ \A h \in Horizons :
       evaluation'[<<c, h>>] =
         IF h # row[c].stage \/ c \notin AlertsAt(h) THEN evaluation[<<c, h>>]
         ELSE IF f = "observed" THEN "observed" ELSE "inconclusive"

Fails(c, e) ==
  /\ Ends(c, e)
  /\ row'[c] = AfterError(c, row[c].stage, e)
  /\ SameEvaluation(c)

Moves(c) ==
  \/ Rests(c)
  \/ Takes(c)
  \/ \E f \in Findings : Answers(c, f)
  \/ \E e \in Errors : Fails(c, e)

LEMMA StillRests ==
  ASSUME TypeOK, NEW c \in Cases, row'[c] = row[c], SameRuns(c),
         SameEvaluation(c), clock <= clock'
  PROVE  Rests(c)
BY DEF TypeOK, Row, Rests, SameRuns

\* What the end of a run means for its case.
LEMMA EndRunEnds ==
  ASSUME QueueInv, NEW j \in jobs, NEW o \in Findings \cup Errors,
         NEW r, EndRun(j, o, r)
  PROVE  /\ Ends(j.case, o)
         /\ row'[j.case] = r
         /\ j.horizon = row[j.case].stage
         /\ \A c \in Cases \ {j.case} : row'[c] = row[c] /\ SameRuns(c)
<1>1. /\ j.case \in Cases /\ j.horizon \in Horizons /\ j.no \in 1..3
      /\ row[j.case].status = "researching"
      /\ row[j.case].stage = j.horizon /\ row[j.case].tries = j.no
      /\ row \in [Cases -> Row]
  BY JobFacts DEF QueueInv, TypeOK
<1>2. /\ row' = [row EXCEPT ![j.case] = r] /\ clock' = clock
      /\ runs[KeyOf(j)] = "started"
  BY EndRunWrites
<1>3. \A c \in Cases, h \in Horizons, n \in 1..3 :
        runs'[<<c, h, n>>] = IF <<c, h, n>> = KeyOf(j) THEN o ELSE runs[<<c, h, n>>]
  BY EndRunRuns
<1>4. \A c \in Cases, h \in Horizons, n \in 1..3 :
        <<c, h, n>> = KeyOf(j) <=> c = j.case /\ h = j.horizon /\ n = j.no
  BY DEF KeyOf
<1>5. Ends(j.case, o)
  BY <1>1, <1>2, <1>3, <1>4 DEF Ends, KeyOf
<1> QED
  BY <1>1, <1>2, <1>3, <1>4, <1>5 DEF SameRuns

LEMMA CaseMoves ==
  ASSUME QueueInv, [Next]_vars, NEW c \in Cases
  PROVE  Moves(c)
<1>1. /\ TypeOK /\ row \in [Cases -> Row] /\ clock \in Nat
      /\ runs \in [Keys -> {"none", "started"} \cup Errors \cup Findings]
      /\ evaluation \in [Cases \X Horizons -> Evaluations]
  BY DEF QueueInv, TypeOK
<1>2. CASE PassHorizon
  BY <1>1, <1>2, StillRests DEF PassHorizon, SameRuns, SameEvaluation, Moves
<1>3. ASSUME NEW d \in Cases, PassDelay(d) PROVE Moves(c)
  <2>1. SameRuns(c) /\ SameEvaluation(c) /\ clock <= clock'
    BY <1>1, <1>3 DEF PassDelay, SameRuns, SameEvaluation
  <2>2. CASE d # c
    BY <1>1, <1>3, <2>1, <2>2, StillRests DEF PassDelay, Moves
  <2>3. CASE d = c
    BY <1>1, <1>3, <2>1, <2>3 DEF PassDelay, Moves, Rests, SameRuns, Row
  <2> QED
    BY <2>2, <2>3
<1>4. ASSUME NEW w \in Workers, NEW d \in Cases, Claim(w, d) PROVE Moves(c)
  <2>1. SameRuns(c) /\ SameEvaluation(c) /\ clock' = clock
    BY <1>4 DEF Claim, SameRuns, SameEvaluation
  <2>2. CASE d # c
    BY <1>1, <1>4, <2>1, <2>2, StillRests DEF Claim, Moves
  <2>3. CASE d = c
    BY <1>1, <1>4, <2>1, <2>3 DEF Claim, Moves, Takes
  <2> QED
    BY <2>2, <2>3
<1>5. ASSUME NEW j \in jobs, StartRun(j) PROVE Moves(c)
  <2>1. /\ j.case \in Cases /\ j.horizon \in Horizons /\ j.no \in 1..3
        /\ KeyOf(j) \in Keys
        /\ row[j.case].status = "researching"
        /\ row[j.case].stage = j.horizon /\ row[j.case].tries = j.no
    BY JobFacts
  <2>2. /\ SameEvaluation(c) /\ clock <= clock' /\ row' = row
        /\ runs[KeyOf(j)] = "none" /\ runs' = [runs EXCEPT ![KeyOf(j)] = "started"]
    BY <1>1, <1>5 DEF StartRun, SameEvaluation
  <2>3. \A h \in Horizons, n \in 1..3 :
          runs'[<<c, h, n>>] = IF <<c, h, n>> = KeyOf(j) THEN "started"
                               ELSE runs[<<c, h, n>>]
    BY <1>1, <2>2 DEF Keys
  <2>4. \A h \in Horizons, n \in 1..3 :
          \/ runs'[<<c, h, n>>] = runs[<<c, h, n>>]
          \/ /\ row[c].status = "researching" /\ h = row[c].stage /\ n = row[c].tries
             /\ runs[<<c, h, n>>] = "none" /\ runs'[<<c, h, n>>] = "started"
    BY <2>1, <2>2, <2>3 DEF KeyOf
  <2> QED
    BY <1>1, <2>2, <2>4 DEF Moves, Rests, Row
<1>6. ASSUME NEW j \in jobs, NEW f \in Findings, CompleteRun(j, f) PROVE Moves(c)
  <2> DEFINE r == IF j.horizon = "hours_24" THEN After24(j.case, f)
                  ELSE After48(j.case, f)
  <2>1. /\ Ends(j.case, f) /\ row'[j.case] = r
        /\ j.horizon = row[j.case].stage /\ j.case \in Cases
        /\ \A d \in Cases \ {j.case} : row'[d] = row[d] /\ SameRuns(d)
    BY <1>6, EndRunEnds, JobFacts DEF CompleteRun
  <2>2. \A d \in Cases, h \in Horizons :
          evaluation'[<<d, h>>] =
            IF <<d, h>> # <<j.case, j.horizon>> \/ j.case \notin AlertsAt(j.horizon)
            THEN evaluation[<<d, h>>]
            ELSE IF f = "observed" THEN "observed" ELSE "inconclusive"
    BY <1>1, <1>6, JobFacts DEF CompleteRun, Evaluate
  <2>3. CASE c # j.case
    <3>1. SameEvaluation(c) /\ clock <= clock'
      BY <1>1, <2>1, <2>2, <2>3 DEF SameEvaluation, Ends
    <3> QED
      BY <1>1, <2>1, <2>3, <3>1, StillRests DEF Moves
  <2>4. CASE c = j.case
    <3>1. Answers(c, f)
      BY <2>1, <2>2, <2>4 DEF Answers
    <3> QED
      BY <3>1 DEF Moves
  <2> QED
    BY <2>3, <2>4
<1>7. ASSUME NEW j \in jobs, NEW e \in Errors, FailRun(j, e) PROVE Moves(c)
  <2>1. /\ Ends(j.case, e)
        /\ row'[j.case] = AfterError(j.case, j.horizon, e)
        /\ j.horizon = row[j.case].stage /\ j.case \in Cases
        /\ \A d \in Cases \ {j.case} : row'[d] = row[d] /\ SameRuns(d)
    BY <1>7, EndRunEnds, JobFacts DEF FailRun
  <2>2. SameEvaluation(c) /\ clock <= clock'
    BY <1>1, <1>7, <2>1 DEF FailRun, SameEvaluation, Ends
  <2>3. CASE c # j.case
    BY <1>1, <2>1, <2>2, <2>3, StillRests DEF Moves
  <2>4. CASE c = j.case
    BY <2>1, <2>2, <2>4 DEF Moves, Fails
  <2> QED
    BY <2>3, <2>4
<1>8. ASSUME NEW j \in jobs, StartFails(j) \/ PersistFails(j) PROVE Moves(c)
  BY <1>1, <1>8, StillRests
     DEF StartFails, PersistFails, Drop, SameRuns, SameEvaluation, Moves
<1>9. CASE Restart
  BY <1>1, <1>9, StillRests DEF Restart, Drop, SameRuns, SameEvaluation, Moves
<1>10. CASE UNCHANGED vars
  BY <1>1, <1>10, StillRests DEF vars, SameRuns, SameEvaluation, Moves
<1> QED
  BY <1>2, <1>3, <1>4, <1>5, <1>6, <1>7, <1>8, <1>9, <1>10 DEF Next, Answer

-----------------------------------------------------------------------------
(* Facts of one case under the queue's invariant.                          *)

LEMMA CaseFacts ==
  ASSUME QueueInv, NEW c \in Cases
  PROVE  /\ TypeOK /\ row[c] \in Row
         /\ StageInv(c) /\ LedgerInv(c)
         /\ row[c].tries \in Nat /\ row[c].tries <= 3
         /\ row[c].attempts \in Nat /\ row[c].attempts <= 6
         /\ row[c].stage \in Horizons \cup {"completed"}
         /\ clock \in Nat /\ clock <= 2
         /\ \A h \in Horizons, n \in 1..3 :
              runs[<<c, h, n>>] \in {"none", "started"} \cup Errors \cup Findings
BY DEF QueueInv, TypeOK, Row, Tries, Attempts, Stages, Keys

LEMMA RestsFields ==
  ASSUME QueueInv, NEW c \in Cases, Rests(c)
  PROVE  /\ row'[c].status = row[c].status /\ row'[c].stage = row[c].stage
         /\ row'[c].attempts = row[c].attempts /\ row'[c].tries = row[c].tries
         /\ row'[c].after = row[c].after /\ row'[c].verdict = row[c].verdict
         /\ row'[c].provisional = row[c].provisional
         /\ row'[c].closed = row[c].closed
         /\ row'[c].next = "null" <=> row[c].next = "null"
BY CaseFacts DEF Rests, Row

LEMMA TakesFields ==
  ASSUME QueueInv, NEW c \in Cases, Takes(c)
  PROVE  /\ row'[c].status = "researching" /\ row'[c].stage = row[c].stage
         /\ row'[c].attempts = row[c].attempts + 1
         /\ row'[c].tries = row[c].tries + 1
         /\ row'[c].after = row[c].after /\ row'[c].verdict = row[c].verdict
         /\ row'[c].provisional = row[c].provisional
         /\ row'[c].closed = row[c].closed /\ row'[c].next = row[c].next
         /\ Open(row[c]) /\ row[c].stage \in Horizons
         /\ row[c].tries < 3
BY CaseFacts DEF Takes, Row, Claimable, Open

LEMMA AnswersFields ==
  ASSUME QueueInv, NEW c \in Cases, NEW f \in Findings, Answers(c, f)
  PROVE  /\ row'[c].verdict = f
         /\ row'[c].attempts = row[c].attempts
         /\ row[c].stage = "hours_24" =>
              row'[c].provisional = f /\ row'[c].tries = 0 /\ row'[c].next = "null"
         /\ row[c].stage = "hours_24" /\ c \in Alerts48 =>
              /\ row'[c].status = "pending" /\ row'[c].stage = "hours_48"
              /\ row'[c].after = 2 /\ row'[c].closed = "null"
         /\ row[c].stage = "hours_24" /\ c \notin Alerts48 =>
              /\ row'[c].status = "reviewed" /\ row'[c].stage = "completed"
              /\ row'[c].closed = "set"
         /\ row[c].stage = "hours_48" =>
              /\ row'[c].provisional = row[c].provisional
              /\ row'[c].tries = row[c].tries /\ row'[c].after = row[c].after
         /\ row[c].stage = "hours_48" =>
              \/ /\ f = "no_evidence_found" /\ row[c].tries < 2
                 /\ row'[c].status = "retry_due" /\ row'[c].stage = "hours_48"
                 /\ row'[c].closed = "null" /\ row'[c].next = "future"
              \/ /\ row'[c].status = "reviewed" /\ row'[c].stage = "completed"
                 /\ row'[c].closed = "set"
<1>1. CASE row[c].stage = "hours_24"
  <2>1. row'[c] = After24(c, f)
    BY <1>1 DEF Answers
  <2> QED
    BY <1>1, <2>1, CaseFacts, After24Fields
<1>2. CASE row[c].stage = "hours_48"
  <2>1. row'[c] = After48(c, f)
    BY <1>2 DEF Answers
  <2> QED
    BY <1>2, <2>1, CaseFacts, After48Fields
<1> QED
  BY <1>1, <1>2 DEF Answers, Ends, Horizons

LEMMA FailsFields ==
  ASSUME QueueInv, NEW c \in Cases, NEW e \in Errors, Fails(c, e)
  PROVE  /\ row'[c].attempts = row[c].attempts
         /\ row'[c].provisional = row[c].provisional
         /\ \/ /\ row[c].tries < TriesAllowed(e)
               /\ row'[c].status = "retry_due" /\ row'[c].stage = row[c].stage
               /\ row'[c].tries = row[c].tries /\ row'[c].after = row[c].after
               /\ row'[c].verdict = row[c].verdict /\ row'[c].closed = "null"
               /\ row'[c].next = "future"
            \/ /\ row[c].stage = "hours_24" /\ c \in Alerts48
               /\ row'[c].status = "pending" /\ row'[c].stage = "hours_48"
               /\ row'[c].tries = 0 /\ row'[c].after = 2 /\ row'[c].next = "null"
               /\ row'[c].verdict = row[c].verdict /\ row'[c].closed = "null"
            \/ /\ row[c].stage = "hours_24" /\ c \notin Alerts48
               /\ row'[c].status = "failed" /\ row'[c].stage = "completed"
               /\ row'[c].verdict = row[c].verdict /\ row'[c].closed = "null"
               /\ row'[c].tries = 0
            \/ /\ row[c].stage = "hours_48" /\ row'[c].tries = 0
               /\ row'[c].status = "failed" /\ row'[c].stage = "completed"
               /\ row'[c].verdict = "inconclusive" /\ row'[c].closed = "set"
<1> DEFINE h == row[c].stage
           r == AfterError(c, h, e)
<1>1. h \in Horizons /\ row'[c] = r /\ TypeOK
  BY CaseFacts DEF Fails, Ends
<1> HIDE DEF h
<1>2. CASE row[c].tries < TriesAllowed(e)
  <2> HIDE DEF r
  <2> QED
    BY <1>1, <1>2, AfterErrorFields DEF r, h
<1>3. CASE ~(row[c].tries < TriesAllowed(e)) /\ h = "hours_48"
  BY <1>1, <1>3, AfterErrorFields DEF h
<1>4. CASE ~(row[c].tries < TriesAllowed(e)) /\ h = "hours_24" /\ c \in Alerts48
  BY <1>1, <1>4, AfterErrorFields DEF h
<1>5. CASE ~(row[c].tries < TriesAllowed(e)) /\ h = "hours_24" /\ c \notin Alerts48
  BY <1>1, <1>5, AfterErrorFields DEF h
<1> QED
  BY <1>1, <1>2, <1>3, <1>4, <1>5 DEF Horizons

-----------------------------------------------------------------------------
(* No case is frozen: the bounds of the claim are never reached first.     *)

LEMMA AttemptStep ==
  ASSUME QueueInv, AttemptInv, [Next]_vars
  PROVE  AttemptInv'
<1> SUFFICES ASSUME NEW c \in Cases
             PROVE  /\ row'[c].stage = "hours_24" => row'[c].attempts <= row'[c].tries
                    /\ row'[c].stage = "hours_48" => row'[c].attempts <= 3 + row'[c].tries
  BY DEF AttemptInv
<1>1. /\ row[c].stage = "hours_24" => row[c].attempts <= row[c].tries
      /\ row[c].stage = "hours_48" => row[c].attempts <= 3 + row[c].tries
  BY DEF AttemptInv
<1>2. CASE Rests(c)
  BY <1>1, <1>2, RestsFields
<1>3. CASE Takes(c)
  BY <1>1, <1>3, TakesFields, CaseFacts
<1>4. ASSUME NEW f \in Findings, Answers(c, f)
      PROVE  /\ row'[c].stage = "hours_24" => row'[c].attempts <= row'[c].tries
             /\ row'[c].stage = "hours_48" => row'[c].attempts <= 3 + row'[c].tries
  <2>1. /\ row[c].stage \in Horizons
        /\ row[c].tries \in Nat /\ row[c].tries <= 3 /\ row[c].attempts \in Nat
    BY <1>4, CaseFacts DEF Answers, Ends
  <2>2. CASE row[c].stage = "hours_24"
    BY <1>1, <1>4, <2>1, <2>2, AnswersFields
  <2>3. CASE row[c].stage = "hours_48"
    BY <1>1, <1>4, <2>1, <2>3, AnswersFields
  <2> QED
    BY <2>1, <2>2, <2>3 DEF Horizons
<1>5. ASSUME NEW e \in Errors, Fails(c, e)
      PROVE  /\ row'[c].stage = "hours_24" => row'[c].attempts <= row'[c].tries
             /\ row'[c].stage = "hours_48" => row'[c].attempts <= 3 + row'[c].tries
  BY <1>1, <1>5, CaseFacts, FailsFields
<1> QED
  BY <1>2, <1>3, <1>4, <1>5, CaseMoves DEF Moves

LEMMA InitRows ==
  ASSUME Init, NEW c \in Cases
  PROVE  /\ row[c].status = "pending" /\ row[c].attempts = 0 /\ row[c].tries = 0
         /\ row[c].next = "null" /\ row[c].verdict = "pending"
         /\ row[c].provisional = "pending" /\ row[c].closed = "null"
         /\ row[c].stage \in Horizons /\ c \in AlertsAt(row[c].stage)
         /\ c \notin Reactive =>
              row[c].after = IF row[c].stage = "hours_24" THEN 1 ELSE 2
         /\ \A h \in Horizons, n \in 1..3 : runs[<<c, h, n>>] = "none"
         /\ \A h \in Horizons : evaluation[<<c, h>>] = "pending"
<1>1. PICK first \in [Cases -> Horizons] :
        /\ \A d \in Cases : first[d] \in FirstStages(d)
        /\ row = [d \in Cases |-> FreshRow(d, first[d])]
  BY DEF Init
<1>2. /\ row[c] = FreshRow(c, first[c])
      /\ first[c] \in FirstStages(c)
  BY <1>1
<1>3. \A h \in Horizons, n \in 1..3 : runs[<<c, h, n>>] = "none"
  BY DEF Init, Keys
<1>4. \A h \in Horizons : evaluation[<<c, h>>] = "pending"
  BY DEF Init
<1> QED
  BY <1>2, <1>3, <1>4 DEF FreshRow, FirstStages

LEMMA AttemptCorrect == Spec => []AttemptInv
<1>1. Init => AttemptInv
  BY InitRows DEF AttemptInv
<1>2. QueueInv /\ AttemptInv /\ [Next]_vars => AttemptInv'
  BY AttemptStep
<1> QED
  BY <1>1, <1>2, QueueCorrect, PTL DEF Spec

\* Every case that waits for a search can be claimed when it is due.
THEOREM NoFrozenCaseHolds == Spec => []NoFrozenCase
<1>1. QueueInv /\ AttemptInv => NoFrozenCase
  <2> SUFFICES ASSUME QueueInv, AttemptInv, NEW c \in Cases, Open(row[c])
               PROVE  row[c].attempts < 6 /\ row[c].tries < 3 /\ row[c].stage \in Horizons
    BY DEF NoFrozenCase
  <2>1. row[c].tries < 3 /\ row[c].stage \in Horizons
    BY CaseFacts, OpenStage DEF LedgerInv
  <2>2. /\ row[c].stage = "hours_24" => row[c].attempts <= row[c].tries
        /\ row[c].stage = "hours_48" => row[c].attempts <= 3 + row[c].tries
        /\ row[c].attempts \in Nat /\ row[c].tries \in Nat
    BY CaseFacts DEF AttemptInv
  <2> QED
    BY <2>1, <2>2 DEF Horizons
<1> QED
  BY <1>1, QueueCorrect, AttemptCorrect, PTL

-----------------------------------------------------------------------------
(* The third try of a stage.                                               *)

LEMMA TryNumbers == 1 \in 1..3 /\ 2 \in 1..3 /\ 3 \in 1..3
OBVIOUS

\* A run that begins or ends keeps what is known of the third tries.
LEMMA ThirdKept ==
  ASSUME QueueInv, ThirdTryInv, ThirdTryReserved, NEW c \in Cases,
         row[c].status = "researching",
         \A h \in Horizons, n \in 1..3 :
           h # row[c].stage \/ n # row[c].tries => runs'[<<c, h, n>>] = runs[<<c, h, n>>]
  PROVE  \A h \in Horizons : runs'[<<c, h, 3>>] # "none" => runs'[<<c, h, 2>>] = "invalid"
<1> SUFFICES ASSUME NEW h \in Horizons, runs'[<<c, h, 3>>] # "none"
             PROVE  runs'[<<c, h, 2>>] = "invalid"
  OBVIOUS
<1>1. runs[<<c, h, 3>>] # "none" => runs[<<c, h, 2>>] = "invalid"
  BY DEF ThirdTryReserved
<1>2. /\ h # row[c].stage \/ 3 # row[c].tries =>
           runs'[<<c, h, 3>>] = runs[<<c, h, 3>>]
      /\ h # row[c].stage \/ 2 # row[c].tries =>
           runs'[<<c, h, 2>>] = runs[<<c, h, 2>>]
  BY TryNumbers, Zenon
<1>3. CASE h # row[c].stage
  BY <1>1, <1>2, <1>3
<1>4. CASE h = row[c].stage /\ row[c].tries = 3
  BY <1>2, <1>4 DEF ThirdTryInv
<1>5. CASE h = row[c].stage /\ row[c].tries # 3
  <2>1. Taken(c, row[c].stage, 3)
    BY <1>2, <1>5 DEF Taken
  <2>2. 3 > row[c].tries => ~Taken(c, row[c].stage, 3)
    BY CaseFacts, TryNumbers, Zenon DEF LedgerInv
  <2> QED
    BY <1>5, <2>1, <2>2, CaseFacts
<1> QED
  BY <1>3, <1>4, <1>5

LEMMA ThirdTryStep ==
  ASSUME QueueInv, ThirdTryInv, ThirdTryReserved, [Next]_vars
  PROVE  ThirdTryInv' /\ ThirdTryReserved'
<1> SUFFICES
      ASSUME NEW c \in Cases
      PROVE  /\ Open(row'[c]) /\ row'[c].tries = 2 =>
                  runs'[<<c, row'[c].stage, 2>>] = "invalid"
             /\ row'[c].status = "researching" /\ row'[c].tries = 3 =>
                  runs'[<<c, row'[c].stage, 2>>] = "invalid"
             /\ \A h \in Horizons :
                  runs'[<<c, h, 3>>] # "none" => runs'[<<c, h, 2>>] = "invalid"
  BY DEF ThirdTryInv, ThirdTryReserved, Open
<1>1. /\ Open(row[c]) /\ row[c].tries = 2 => runs[<<c, row[c].stage, 2>>] = "invalid"
      /\ row[c].status = "researching" /\ row[c].tries = 3 =>
           runs[<<c, row[c].stage, 2>>] = "invalid"
      /\ \A h \in Horizons :
           runs[<<c, h, 3>>] # "none" => runs[<<c, h, 2>>] = "invalid"
      /\ row[c].tries \in Nat /\ row[c].tries <= 3
      /\ Open(row[c]) \/ row[c].status = "researching" => row[c].stage \in Horizons
  BY CaseFacts, OpenStage DEF ThirdTryInv, ThirdTryReserved
<1>2. CASE Rests(c)
  <2>1. \A h \in Horizons, n \in 1..3 :
          \/ runs'[<<c, h, n>>] = runs[<<c, h, n>>]
          \/ row[c].status = "researching" /\ h = row[c].stage /\ n = row[c].tries
    BY <1>2 DEF Rests
  <2>2. row'[c].status = row[c].status /\ row'[c].stage = row[c].stage
        /\ row'[c].tries = row[c].tries
    BY <1>2, RestsFields
  <2>3. \A h \in Horizons :
          /\ runs'[<<c, h, 2>>] = runs[<<c, h, 2>>]
             \/ (row[c].status = "researching" /\ row[c].tries = 2)
          /\ runs'[<<c, h, 3>>] = runs[<<c, h, 3>>] \/ row[c].status = "researching"
    BY <2>1, TryNumbers, Zenon
  <2>4. CASE row[c].status = "researching"
    <3>1. \A h \in Horizons :
            runs'[<<c, h, 3>>] # "none" => runs'[<<c, h, 2>>] = "invalid"
      BY <2>1, <2>4, ThirdKept
    <3>2. ~Open(row'[c])
      BY <2>2, <2>4 DEF Open
    <3> QED
      BY <1>1, <2>2, <2>3, <2>4, <3>1, <3>2
  <2>5. CASE row[c].status # "researching"
    BY <1>1, <2>2, <2>3, <2>5 DEF Open
  <2> QED
    BY <2>4, <2>5
<1>3. CASE Takes(c)
  <2>1. \A h \in Horizons : /\ runs'[<<c, h, 2>>] = runs[<<c, h, 2>>]
                            /\ runs'[<<c, h, 3>>] = runs[<<c, h, 3>>]
    BY <1>3, TryNumbers, Zenon DEF Takes, SameRuns
  <2>2. /\ row'[c].status = "researching" /\ row'[c].stage = row[c].stage
        /\ row'[c].tries = row[c].tries + 1
        /\ Open(row[c]) /\ row[c].stage \in Horizons
    BY <1>3, TakesFields
  <2>3. ~Open(row'[c])
    BY <2>2 DEF Open
  <2>4. row'[c].tries = 3 => runs[<<c, row[c].stage, 2>>] = "invalid"
    BY <1>1, <2>2
  <2> QED
    BY <1>1, <2>1, <2>2, <2>3, <2>4
<1>4. ASSUME NEW f \in Findings, Answers(c, f)
      PROVE  /\ ~(Open(row'[c]) /\ row'[c].tries = 2)
             /\ row'[c].status # "researching"
             /\ \A h \in Horizons :
                  runs'[<<c, h, 3>>] # "none" => runs'[<<c, h, 2>>] = "invalid"
  <2>1. /\ row[c].status = "researching" /\ row[c].stage \in Horizons
        /\ \A h \in Horizons, n \in 1..3 :
             h # row[c].stage \/ n # row[c].tries => runs'[<<c, h, n>>] = runs[<<c, h, n>>]
    BY <1>4 DEF Answers, Ends
  <2>2. ~(Open(row'[c]) /\ row'[c].tries = 2) /\ row'[c].status # "researching"
    BY <1>4, <2>1, AnswersFields DEF Open, Horizons
  <2> QED
    BY <2>1, <2>2, ThirdKept
<1>5. ASSUME NEW e \in Errors, Fails(c, e)
      PROVE  /\ Open(row'[c]) /\ row'[c].tries = 2 =>
                  runs'[<<c, row'[c].stage, 2>>] = "invalid"
             /\ row'[c].status # "researching"
             /\ \A h \in Horizons :
                  runs'[<<c, h, 3>>] # "none" => runs'[<<c, h, 2>>] = "invalid"
  <2>1. /\ row[c].status = "researching" /\ row[c].stage \in Horizons
        /\ row[c].tries \in 1..3
        /\ \A h \in Horizons, n \in 1..3 :
             runs'[<<c, h, n>>] = IF h = row[c].stage /\ n = row[c].tries THEN e
                                  ELSE runs[<<c, h, n>>]
    BY <1>5 DEF Fails, Ends
  <2>2. /\ row'[c].status # "researching"
        /\ Open(row'[c]) /\ row'[c].tries = 2 =>
             /\ row[c].tries = 2 /\ row'[c].stage = row[c].stage
             /\ 2 < TriesAllowed(e)
    BY <1>5, FailsFields DEF Open
  <2>3. 2 < TriesAllowed(e) => e = "invalid"
    BY DEF TriesAllowed
  <2>4. Open(row'[c]) /\ row'[c].tries = 2 => runs'[<<c, row'[c].stage, 2>>] = "invalid"
    BY <2>1, <2>2, <2>3
  <2> QED
    BY <2>1, <2>2, <2>4, ThirdKept
<1> QED
  BY <1>2, <1>3, <1>4, <1>5, CaseMoves DEF Moves

LEMMA ThirdTryCorrect == Spec => []ThirdTryInv /\ []ThirdTryReserved
<1>1. Init => ThirdTryInv /\ ThirdTryReserved
  <2> SUFFICES ASSUME Init, NEW c \in Cases
               PROVE  /\ row[c].tries = 0 /\ row[c].status = "pending"
                      /\ \A h \in Horizons : runs[<<c, h, 3>>] = "none"
    BY DEF ThirdTryInv, ThirdTryReserved, Open
  <2> QED
    BY InitRows, TryNumbers, Zenon
<1>2. QueueInv /\ ThirdTryInv /\ ThirdTryReserved /\ [Next]_vars
        => ThirdTryInv' /\ ThirdTryReserved'
  BY ThirdTryStep
<1> QED
  BY <1>1, <1>2, QueueCorrect, PTL DEF Spec

\* A third try is made only past a second answer that was malformed.
THEOREM ThirdTryHolds == Spec => []ThirdTryReserved
BY ThirdTryCorrect, PTL

-----------------------------------------------------------------------------
(* No case that has a +48 h alert is closed without a +48 h search.        *)

\* A run that was taken stays taken.
LEMMA TakenStays ==
  ASSUME QueueInv, [Next]_vars, NEW c \in Cases, NEW h \in Horizons, NEW n \in 1..3,
         Taken(c, h, n)
  PROVE  Taken(c, h, n)'
<1>1. CASE Rests(c)
  BY <1>1 DEF Rests, Taken
<1>2. CASE Takes(c)
  BY <1>2 DEF Takes, SameRuns, Taken
<1>3. ASSUME NEW o \in Findings \cup Errors, Ends(c, o) PROVE Taken(c, h, n)'
  BY <1>3 DEF Ends, Taken, Findings, Errors
<1> QED
  BY <1>1, <1>2, <1>3, CaseMoves DEF Moves, Answers, Fails

LEMMA FinalSearchStep ==
  ASSUME QueueInv, FinalSearchMade, [Next]_vars
  PROVE  FinalSearchMade'
<1> SUFFICES ASSUME NEW c \in Alerts48, row'[c].stage = "completed"
             PROVE  Taken(c, "hours_48", 1)'
  BY DEF FinalSearchMade, Taken
<1>1. c \in Cases /\ "hours_48" \in Horizons
  BY CasesAssumption DEF Horizons
<1>2. Taken(c, "hours_48", 1) => Taken(c, "hours_48", 1)'
  BY <1>1, TakenStays, TryNumbers
<1>3. CASE row[c].stage = "completed"
  BY <1>2, <1>3 DEF FinalSearchMade, Taken
<1>4. ASSUME NEW o \in Findings \cup Errors, Ends(c, o), row[c].stage = "hours_48"
      PROVE  Taken(c, "hours_48", 1)'
  <2>1. row[c].tries = 1 \/ 1 < row[c].tries
    BY <1>4 DEF Ends
  <2>2. Taken(c, "hours_48", 1)
    <3>1. CASE row[c].tries = 1
      BY <1>4, <3>1 DEF Ends, Taken
    <3>2. CASE 1 < row[c].tries
      <4>1. \A n \in 1..3 : n < row[c].tries => Taken(c, "hours_48", n)
        BY <1>1, <1>4, CaseFacts DEF Ends, LedgerInv
      <4> QED
        BY <3>2, <4>1, TryNumbers, Zenon
    <3> QED
      BY <2>1, <3>1, <3>2
  <2> QED
    BY <1>2, <2>2
<1>5. CASE row[c].stage # "completed"
  <2>1. ~Rests(c) /\ ~Takes(c)
    BY <1>1, <1>5, RestsFields, TakesFields
  <2>2. ASSUME NEW f \in Findings, Answers(c, f) PROVE Taken(c, "hours_48", 1)'
    BY <1>1, <1>4, <2>2, AnswersFields DEF Answers, Ends, Horizons
  <2>3. ASSUME NEW e \in Errors, Fails(c, e) PROVE Taken(c, "hours_48", 1)'
    BY <1>1, <1>4, <1>5, <2>3, FailsFields DEF Fails, Ends
  <2> QED
    BY <1>1, <2>1, <2>2, <2>3, CaseMoves DEF Moves
<1> QED
  BY <1>3, <1>5

\* Two failures at +24 h never prevent the final search of a case.
THEOREM FinalSearchHolds == Spec => []FinalSearchMade
<1>1. Init => FinalSearchMade
  BY InitRows, CasesAssumption DEF FinalSearchMade, Horizons
<1>2. QueueInv /\ FinalSearchMade /\ [Next]_vars => FinalSearchMade'
  BY FinalSearchStep
<1> QED
  BY <1>1, <1>2, QueueCorrect, PTL DEF Spec

-----------------------------------------------------------------------------
(* The verdict of a closed case, and the evaluation of its alerts.         *)

\* The answers recorded for the case at a horizon stay as they are.
SameFindings(c, h) ==
  \A n \in 1..3 :
    \/ runs'[<<c, h, n>>] = runs[<<c, h, n>>]
    \/ runs'[<<c, h, n>>] \notin Findings /\ runs[<<c, h, n>>] \notin Findings

LEMMA QuietFindings ==
  ASSUME NEW c \in Cases,
         Rests(c) \/ Takes(c) \/ \E e \in Errors : Fails(c, e)
  PROVE  (\A h \in Horizons : SameFindings(c, h)) /\ SameEvaluation(c)
<1>1. CASE Rests(c)
  BY <1>1 DEF Rests, SameFindings, Findings
<1>2. CASE Takes(c)
  BY <1>2 DEF Takes, SameRuns, SameFindings
<1>3. ASSUME NEW e \in Errors, Fails(c, e) PROVE (\A h \in Horizons : SameFindings(c, h)) /\ SameEvaluation(c)
  <2>1. SameEvaluation(c)
    BY <1>3 DEF Fails
  <2>2. e \notin Findings /\ "started" \notin Findings
    BY DEF Errors, Findings
  <2>3. \A h \in Horizons : SameFindings(c, h)
    <3> SUFFICES ASSUME NEW h \in Horizons, NEW n \in 1..3
                 PROVE  \/ runs'[<<c, h, n>>] = runs[<<c, h, n>>]
                        \/ /\ runs'[<<c, h, n>>] \notin Findings
                           /\ runs[<<c, h, n>>] \notin Findings
      BY DEF SameFindings
    <3>1. CASE h = row[c].stage /\ n = row[c].tries
      BY <1>3, <2>2, <3>1 DEF Fails, Ends
    <3>2. CASE ~(h = row[c].stage /\ n = row[c].tries)
      BY <1>3, <3>2 DEF Fails, Ends
    <3> QED
      BY <3>1, <3>2
  <2> QED
    BY <2>1, <2>3
<1> QED
  BY <1>1, <1>2, <1>3

LEMMA LastFindingKept ==
  ASSUME NEW c \in Cases, NEW h \in Horizons, NEW f \in Findings,
         SameFindings(c, h), LastFinding(c, h, f)
  PROVE  LastFinding(c, h, f)'
<1>1. PICK n \in 1..3 :
        /\ runs[<<c, h, n>>] = f
        /\ \A m \in (n + 1)..3 : runs[<<c, h, m>>] \notin Findings
  BY DEF LastFinding
<1>2. runs'[<<c, h, n>>] = f
  BY <1>1 DEF SameFindings
<1>3. ASSUME NEW m \in (n + 1)..3 PROVE runs'[<<c, h, m>>] \notin Findings
  <2>1. m \in 1..3
    BY <1>1
  <2> QED
    BY <1>1, <2>1 DEF SameFindings
<1> QED
  BY <1>1, <1>2, <1>3 DEF LastFinding

LEMMA AnswerIsLast ==
  ASSUME QueueInv, NEW c \in Cases, NEW f \in Findings, Answers(c, f)
  PROVE  \A h \in Horizons : h = row[c].stage => LastFinding(c, h, f)'
<1> SUFFICES ASSUME NEW h \in Horizons, h = row[c].stage
             PROVE  LastFinding(c, h, f)'
  OBVIOUS
<1> DEFINE n == row[c].tries
<1>1. /\ row[c].status = "researching" /\ n \in 1..3
      /\ \A g \in Horizons, m \in 1..3 :
           runs'[<<c, g, m>>] = IF g = h /\ m = n THEN f ELSE runs[<<c, g, m>>]
  BY DEF Answers, Ends
<1>2. runs'[<<c, h, n>>] = f
  BY <1>1
<1>3. ASSUME NEW m \in (n + 1)..3 PROVE runs'[<<c, h, m>>] \notin Findings
  <2>1. m \in 1..3 /\ m > n /\ m # n
    BY <1>1
  <2>2. runs[<<c, h, m>>] = "none"
    BY <1>1, <2>1, CaseFacts DEF LedgerInv, Taken
  <2> QED
    BY <1>1, <2>1, <2>2 DEF Findings
<1> HIDE DEF n
<1>4. \E k \in 1..3 : /\ runs'[<<c, h, k>>] = f
                      /\ \A m \in (k + 1)..3 : runs'[<<c, h, m>>] \notin Findings
  BY <1>1, <1>2, <1>3
<1> QED
  BY <1>4 DEF LastFinding

LEMMA VerdictStep ==
  ASSUME QueueInv, [Next]_vars, NEW c \in Cases, VerdictOK(c)
  PROVE  VerdictOK(c)'
<1>1. /\ row[c].stage = "completed" <=> row[c].status \in {"reviewed", "failed"}
      /\ row[c].stage = "hours_48" => c \in Alerts48
      /\ row[c].stage \in Horizons \cup {"completed"}
  BY CaseFacts DEF StageInv
<1>2. CASE Rests(c)
  <2>1. /\ row'[c].status = row[c].status /\ row'[c].stage = row[c].stage
        /\ row'[c].verdict = row[c].verdict /\ row'[c].closed = row[c].closed
    BY <1>2, RestsFields
  <2>2. \A h \in Horizons, f \in Findings : LastFinding(c, h, f) => LastFinding(c, h, f)'
    BY <1>2, QuietFindings, LastFindingKept
  <2>3. Settled(c) /\ row[c].stage = "completed" => Settled(c)'
    <3> SUFFICES ASSUME Settled(c), row[c].stage = "completed" PROVE Settled(c)'
      OBVIOUS
    <3>1. CASE row[c].status = "reviewed"
      <4>1. row[c].verdict \in Findings
        BY <3>1 DEF VerdictOK
      <4>2. PICK h \in Horizons : h = IF c \in Alerts48 THEN "hours_48" ELSE "hours_24"
        BY DEF Horizons
      <4>3. PICK f \in Findings : f = row[c].verdict
        BY <4>1
      <4>4. LastFinding(c, h, f)'
        BY <2>2, <3>1, <4>2, <4>3 DEF Settled
      <4> QED
        BY <2>1, <3>1, <4>2, <4>3, <4>4 DEF Settled, LastFinding
    <3>2. CASE row[c].status # "reviewed"
      BY <2>1, <3>2 DEF Settled
    <3> QED
      BY <3>1, <3>2
  <2> QED
    BY <2>1, <2>3 DEF VerdictOK
<1>3. CASE Takes(c)
  <2>1. /\ row'[c].status = "researching" /\ row'[c].stage = row[c].stage
        /\ row'[c].verdict = row[c].verdict /\ row'[c].closed = row[c].closed
        /\ row[c].stage # "completed"
    BY <1>3, TakesFields DEF Horizons
  <2> QED
    BY <2>1 DEF VerdictOK
<1>4. ASSUME NEW f \in Findings, Answers(c, f) PROVE VerdictOK(c)'
  <2>1. row[c].stage \in Horizons /\ row'[c].verdict = f
    BY <1>4, AnswersFields DEF Answers, Ends
  <2>2. \A h \in Horizons : h = row[c].stage => LastFinding(c, h, f)'
    BY <1>4, AnswerIsLast
  <2>3. CASE row[c].stage = "hours_24" /\ c \in Alerts48
    <3>1. /\ row'[c].status = "pending" /\ row'[c].stage = "hours_48"
          /\ row'[c].closed = "null"
      BY <1>4, <2>3, AnswersFields
    <3> QED
      BY <2>3, <3>1 DEF VerdictOK
  <2>4. CASE row[c].stage = "hours_24" /\ c \notin Alerts48
    <3>1. row'[c].status = "reviewed" /\ row'[c].stage = "completed"
      BY <1>4, <2>4, AnswersFields
    <3>2. LastFinding(c, "hours_24", f)'
      BY <2>2, <2>4 DEF Horizons
    <3>3. Settled(c)'
      BY <2>1, <2>4, <3>1, <3>2 DEF Settled, LastFinding
    <3> QED
      BY <2>1, <2>4, <3>1, <3>3 DEF VerdictOK
  <2>5. CASE row[c].stage = "hours_48"
    <3>1. \/ /\ row'[c].status = "retry_due" /\ row'[c].stage = "hours_48"
             /\ row'[c].closed = "null"
          \/ /\ row'[c].status = "reviewed" /\ row'[c].stage = "completed"
             /\ row'[c].closed = "set"
      BY <1>4, <2>5, AnswersFields
    <3>2. c \in Alerts48 /\ LastFinding(c, "hours_48", f)'
      BY <1>1, <2>2, <2>5 DEF Horizons
    <3>3. row'[c].status = "reviewed" => Settled(c)'
      BY <2>1, <3>2 DEF Settled, LastFinding
    <3> QED
      BY <2>1, <3>1, <3>2, <3>3 DEF VerdictOK
  <2> QED
    BY <2>1, <2>3, <2>4, <2>5 DEF Horizons
<1>5. ASSUME NEW e \in Errors, Fails(c, e) PROVE VerdictOK(c)'
  <2>1. row[c].stage \in Horizons /\ row[c].stage # "completed"
    BY <1>5 DEF Fails, Ends, Horizons
  <2>2. CASE /\ row'[c].status \in {"retry_due", "pending"}
             /\ row'[c].stage \in Horizons
             /\ row'[c].verdict = row[c].verdict /\ row'[c].closed = "null"
    BY <2>1, <2>2 DEF VerdictOK, Horizons
  <2>3. CASE /\ row[c].stage = "hours_24" /\ c \notin Alerts48
             /\ row'[c].status = "failed" /\ row'[c].stage = "completed"
             /\ row'[c].verdict = row[c].verdict
    <3>1. row'[c].verdict = "pending"
      BY <2>1, <2>3 DEF VerdictOK
    <3> QED
      BY <2>3, <3>1 DEF VerdictOK, Settled
  <2>4. CASE /\ row[c].stage = "hours_48"
             /\ row'[c].status = "failed" /\ row'[c].stage = "completed"
             /\ row'[c].verdict = "inconclusive" /\ row'[c].closed = "set"
    BY <1>1, <2>4 DEF VerdictOK, Settled
  <2> QED
    BY <1>5, <2>1, <2>2, <2>3, <2>4, FailsFields DEF Horizons
<1> QED
  BY <1>2, <1>3, <1>4, <1>5, CaseMoves DEF Moves

LEMMA VerdictCorrect == Spec => []VerdictInv
<1>1. Init => VerdictInv
  <2> SUFFICES ASSUME Init, NEW c \in Cases PROVE VerdictOK(c)
    BY DEF VerdictInv
  <2>1. /\ row[c].status = "pending" /\ row[c].stage \in Horizons
        /\ row[c].verdict = "pending" /\ row[c].closed = "null"
    BY InitRows
  <2> QED
    BY <2>1 DEF VerdictOK, Horizons
<1>2. QueueInv /\ VerdictInv /\ [Next]_vars => VerdictInv'
  BY VerdictStep DEF VerdictInv
<1> QED
  BY <1>1, <1>2, QueueCorrect, PTL DEF Spec

\* A closed case shows the answer of its last run at its last horizon, or that
\* there is none; no other case counts as reviewed at +48 h.
THEOREM FinalVerdictHolds == Spec => []FinalVerdict
<1>1. VerdictInv => FinalVerdict
  BY CasesAssumption DEF FinalVerdict, VerdictInv, VerdictOK, Settled
<1> QED
  BY <1>1, VerdictCorrect, PTL

LEMMA EvaluationStep ==
  ASSUME QueueInv, EvaluationFollowsRuns, [Next]_vars
  PROVE  EvaluationFollowsRuns'
<1> SUFFICES
      ASSUME NEW c \in Cases, NEW h \in Horizons, c \in AlertsAt(h)
      PROVE  /\ evaluation'[<<c, h>>] = "observed" => LastFinding(c, h, "observed")'
             /\ evaluation'[<<c, h>>] = "inconclusive" =>
                  \/ LastFinding(c, h, "inconclusive")'
                  \/ LastFinding(c, h, "no_evidence_found")'
             /\ evaluation'[<<c, h>>] \notin {"observed", "inconclusive"} =>
                  \A n \in 1..3 : runs'[<<c, h, n>>] \notin Findings
  BY DEF EvaluationFollowsRuns, LastFinding, AlertsAt
<1>1. /\ evaluation[<<c, h>>] = "observed" => LastFinding(c, h, "observed")
      /\ evaluation[<<c, h>>] = "inconclusive" =>
           LastFinding(c, h, "inconclusive") \/ LastFinding(c, h, "no_evidence_found")
      /\ evaluation[<<c, h>>] \notin {"observed", "inconclusive"} =>
           \A n \in 1..3 : runs[<<c, h, n>>] \notin Findings
  BY DEF EvaluationFollowsRuns
<1>2. "observed" \in Findings /\ "inconclusive" \in Findings
      /\ "no_evidence_found" \in Findings
  BY DEF Findings
<1>3. CASE Rests(c) \/ Takes(c) \/ \E e \in Errors : Fails(c, e)
  <2>1. SameFindings(c, h) /\ evaluation'[<<c, h>>] = evaluation[<<c, h>>]
    BY <1>3, QuietFindings DEF SameEvaluation
  <2>2. \A f \in Findings : LastFinding(c, h, f) => LastFinding(c, h, f)'
    BY <2>1, LastFindingKept
  <2>3. (\A n \in 1..3 : runs[<<c, h, n>>] \notin Findings)
          => \A n \in 1..3 : runs'[<<c, h, n>>] \notin Findings
    BY <2>1 DEF SameFindings
  <2> QED
    BY <1>1, <1>2, <2>1, <2>2, <2>3
<1>4. ASSUME NEW f \in Findings, Answers(c, f), h # row[c].stage
      PROVE  SameFindings(c, h) /\ evaluation'[<<c, h>>] = evaluation[<<c, h>>]
  BY <1>4 DEF Answers, Ends, SameFindings
<1>5. ASSUME SameFindings(c, h), evaluation'[<<c, h>>] = evaluation[<<c, h>>]
      PROVE  /\ evaluation'[<<c, h>>] = "observed" => LastFinding(c, h, "observed")'
             /\ evaluation'[<<c, h>>] = "inconclusive" =>
                  \/ LastFinding(c, h, "inconclusive")'
                  \/ LastFinding(c, h, "no_evidence_found")'
             /\ evaluation'[<<c, h>>] \notin {"observed", "inconclusive"} =>
                  \A n \in 1..3 : runs'[<<c, h, n>>] \notin Findings
  <2>1. \A f \in Findings : LastFinding(c, h, f) => LastFinding(c, h, f)'
    BY <1>5, LastFindingKept
  <2>2. (\A n \in 1..3 : runs[<<c, h, n>>] \notin Findings)
          => \A n \in 1..3 : runs'[<<c, h, n>>] \notin Findings
    BY <1>5 DEF SameFindings
  <2> QED
    BY <1>1, <1>2, <1>5, <2>1, <2>2
<1>6. ASSUME NEW f \in Findings, Answers(c, f), h = row[c].stage
      PROVE  /\ evaluation'[<<c, h>>] = "observed" => LastFinding(c, h, "observed")'
             /\ evaluation'[<<c, h>>] = "inconclusive" =>
                  \/ LastFinding(c, h, "inconclusive")'
                  \/ LastFinding(c, h, "no_evidence_found")'
             /\ evaluation'[<<c, h>>] \in {"observed", "inconclusive"}
  <2>1. LastFinding(c, h, f)'
    BY <1>6, AnswerIsLast
  <2>2. evaluation'[<<c, h>>] = IF f = "observed" THEN "observed" ELSE "inconclusive"
    BY <1>6 DEF Answers
  <2>3. CASE f = "observed"
    BY <2>1, <2>2, <2>3
  <2>4. CASE f = "inconclusive"
    BY <2>1, <2>2, <2>4
  <2>5. CASE f = "no_evidence_found"
    BY <2>1, <2>2, <2>5
  <2> QED
    BY <2>3, <2>4, <2>5 DEF Findings
<1> QED
  BY <1>3, <1>4, <1>5, <1>6, CaseMoves DEF Moves

\* The evaluation beside an alert is that of the last answered run of its
\* horizon, and pending only while no run was answered.
THEOREM EvaluationHolds == Spec => []EvaluationFollowsRuns
<1>1. Init => EvaluationFollowsRuns
  <2> SUFFICES ASSUME Init, NEW c \in Cases, NEW h \in Horizons
               PROVE  /\ evaluation[<<c, h>>] = "pending"
                      /\ \A n \in 1..3 : runs[<<c, h, n>>] \notin Findings
    BY DEF EvaluationFollowsRuns
  <2> QED
    BY InitRows DEF Findings
<1>2. QueueInv /\ EvaluationFollowsRuns /\ [Next]_vars => EvaluationFollowsRuns'
  BY EvaluationStep
<1> QED
  BY <1>1, <1>2, QueueCorrect, PTL DEF Spec

-----------------------------------------------------------------------------
(* A further try waits for its own delay.                                  *)

LEMMA DelayStep ==
  ASSUME QueueInv, DelayInv, [Next]_vars
  PROVE  DelayInv'
<1> SUFFICES ASSUME NEW c \in Cases, Open(row'[c]), row'[c].tries > 0
             PROVE  row'[c].next # "null"
  BY DEF DelayInv, Open
<1>1. CASE Rests(c)
  BY <1>1, RestsFields DEF DelayInv, Open
<1>2. CASE Takes(c)
  BY <1>2, TakesFields DEF Open
<1>3. ASSUME NEW f \in Findings, Answers(c, f) PROVE row'[c].next # "null"
  <2>1. row[c].stage = "hours_24" => row'[c].tries = 0
    BY <1>3, AnswersFields
  <2>2. row[c].stage = "hours_48" =>
          row'[c].next = "future" \/ row'[c].status = "reviewed"
    BY <1>3, AnswersFields
  <2>3. row[c].stage \in Horizons
    BY <1>3 DEF Answers, Ends
  <2>4. ~(0 > 0)
    OBVIOUS
  <2> QED
    BY <2>1, <2>2, <2>3, <2>4 DEF Horizons, Open
<1>4. ASSUME NEW e \in Errors, Fails(c, e) PROVE row'[c].next # "null"
  <2>1. \/ row'[c].next = "future"
        \/ row'[c].tries = 0
        \/ row'[c].status = "failed"
    BY <1>4, FailsFields
  <2>2. ~(0 > 0)
    OBVIOUS
  <2> QED
    BY <2>1, <2>2 DEF Open
<1> QED
  BY <1>1, <1>2, <1>3, <1>4, CaseMoves DEF Moves

LEMMA DelayCorrect == Spec => []DelayInv
<1>1. Init => DelayInv
  <2>1. ~(0 > 0)
    OBVIOUS
  <2> QED
    BY <2>1, InitRows DEF DelayInv
<1>2. QueueInv /\ DelayInv /\ [Next]_vars => DelayInv'
  BY DelayStep
<1> QED
  BY <1>1, <1>2, QueueCorrect, PTL DEF Spec

\* Only a claim counts a try.
LEMMA DelayRespected ==
  ASSUME QueueInv, DelayInv, [Next]_vars, NEW c \in Cases,
         row[c].tries > 0, row'[c].tries = row[c].tries + 1
  PROVE  row[c].next = "past"
<1>1. row[c].tries \in Nat
  BY CaseFacts
<1>2. CASE Rests(c)
  BY <1>1, <1>2, RestsFields
<1>3. CASE Takes(c)
  <2>1. Due(row[c]) /\ Open(row[c])
    BY <1>3, TakesFields DEF Takes, Claimable
  <2> QED
    BY <2>1 DEF Due, DelayInv
<1>4. ASSUME NEW f \in Findings, Answers(c, f) PROVE FALSE
  <2>1. row[c].stage \in Horizons
    BY <1>4 DEF Answers, Ends
  <2>2. row'[c].tries = 0 \/ row'[c].tries = row[c].tries
    BY <1>4, <2>1, AnswersFields DEF Horizons
  <2> QED
    BY <1>1, <2>2
<1>5. ASSUME NEW e \in Errors, Fails(c, e) PROVE FALSE
  <2>1. row'[c].tries = 0 \/ row'[c].tries = row[c].tries
    BY <1>5, FailsFields
  <2> QED
    BY <1>1, <2>1
<1> QED
  BY <1>2, <1>3, <1>4, <1>5, CaseMoves DEF Moves

\* Every further search of a stage is claimed after its own delay.
THEOREM RetriesWait == Spec => RetriesWaitForDelay
<1>1. QueueInv /\ DelayInv /\ [Next]_vars => [RetryWaited]_vars
  BY DelayRespected DEF RetryWaited
<1> QED
  BY <1>1, QueueCorrect, DelayCorrect, PTL DEF Spec, RetriesWaitForDelay

-----------------------------------------------------------------------------
(* A proactive case waits for its horizons.                                *)

LEMMA WaitStep ==
  ASSUME QueueInv, WaitInv, SearchesWaitForHorizon, [Next]_vars
  PROVE  WaitInv' /\ SearchesWaitForHorizon'
<1>1. clock' \in Nat /\ clock' <= 2
  BY TypeStep DEF QueueInv, TypeOK
<1> SUFFICES
      ASSUME NEW c \in Cases \ Reactive
      PROVE  /\ row'[c].stage = "hours_24" => row'[c].after = 1
             /\ row'[c].stage = "hours_48" => row'[c].after = 2
             /\ row'[c].stage # "completed" /\ (row'[c].tries > 0 \/ row'[c].next # "null")
                  => row'[c].after <= clock'
             /\ \A n \in 1..3 :
                  /\ runs'[<<c, "hours_24", n>>] # "none" => clock' >= 1
                  /\ runs'[<<c, "hours_48", n>>] # "none" => clock' = 2
  BY DEF WaitInv, SearchesWaitForHorizon
<1> DEFINE Waited == row[c].stage # "completed" => row[c].after <= clock
<1>2. /\ row[c].stage = "hours_24" => row[c].after = 1
      /\ row[c].stage = "hours_48" => row[c].after = 2
      /\ row[c].stage # "completed" /\ (row[c].tries > 0 \/ row[c].next # "null")
           => row[c].after <= clock
      /\ \A n \in 1..3 : /\ runs[<<c, "hours_24", n>>] # "none" => clock >= 1
                         /\ runs[<<c, "hours_48", n>>] # "none" => clock = 2
      /\ clock \in Nat /\ clock <= 2
      /\ row[c].tries \in Nat
      /\ row[c].status = "researching" => row[c].tries >= 1
      /\ row[c].after \in Nat
  <2>1. /\ row[c] \in Row /\ LedgerInv(c) /\ clock \in Nat /\ clock <= 2
        /\ row[c].tries \in Nat
    BY CaseFacts
  <2>2. row[c].after \in Nat
    BY <2>1 DEF Row, Moments
  <2> QED
    BY <2>1, <2>2 DEF WaitInv, SearchesWaitForHorizon, LedgerInv
<1>3. "hours_24" \in Horizons /\ "hours_48" \in Horizons
  BY DEF Horizons
<1>4. clock <= clock'
  <2>1. Rests(c) => clock <= clock'
    BY DEF Rests
  <2>2. clock' = clock => clock <= clock'
    BY <1>2
  <2> QED
    BY <2>1, <2>2, CaseMoves DEF Moves, Takes, Answers, Fails, Ends
\* Only the run of the claimed row's own stage may change.
<1>5. ASSUME \A h \in Horizons, n \in 1..3 :
               \/ runs'[<<c, h, n>>] = runs[<<c, h, n>>]
               \/ row[c].status = "researching" /\ h = row[c].stage
      PROVE  \A n \in 1..3 :
                  /\ runs'[<<c, "hours_24", n>>] # "none" => clock' >= 1
                  /\ runs'[<<c, "hours_48", n>>] # "none" => clock' = 2
  <2> SUFFICES ASSUME NEW n \in 1..3
               PROVE  /\ runs'[<<c, "hours_24", n>>] # "none" => clock' >= 1
                      /\ runs'[<<c, "hours_48", n>>] # "none" => clock' = 2
    OBVIOUS
  <2>1. CASE row[c].status = "researching"
    <3>1. row[c].stage = "hours_24" => clock >= 1
      BY <1>2, <2>1
    <3>2. row[c].stage = "hours_48" => clock = 2
      BY <1>2, <2>1
    <3> QED
      BY <1>1, <1>2, <1>3, <1>4, <1>5, <3>1, <3>2
  <2>2. CASE row[c].status # "researching"
    BY <1>1, <1>2, <1>3, <1>4, <1>5, <2>2
  <2> QED
    BY <2>1, <2>2
<1>6. CASE Rests(c)
  <2>1. \A h \in Horizons, n \in 1..3 :
          \/ runs'[<<c, h, n>>] = runs[<<c, h, n>>]
          \/ row[c].status = "researching" /\ h = row[c].stage
    BY <1>6 DEF Rests
  <2> QED
    BY <1>1, <1>2, <1>4, <1>5, <1>6, <2>1, RestsFields
<1>7. CASE Takes(c)
  <2>1. SameRuns(c) /\ clock' = clock /\ Due(row[c])
    BY <1>7 DEF Takes, Claimable
  <2>2. row[c].after <= clock
    BY <1>2, <1>7, <2>1, TakesFields DEF Due, Horizons
  <2> QED
    BY <1>2, <1>5, <1>7, <2>1, <2>2, TakesFields DEF SameRuns
<1>8. ASSUME NEW f \in Findings, Answers(c, f)
      PROVE  /\ row'[c].stage = "hours_24" => row'[c].after = 1
             /\ row'[c].stage = "hours_48" => row'[c].after = 2
             /\ row'[c].stage # "completed" /\ (row'[c].tries > 0 \/ row'[c].next # "null")
                  => row'[c].after <= clock'
  <2>1. row[c].status = "researching" /\ row[c].stage \in Horizons
    BY <1>8 DEF Answers, Ends
  <2>2. CASE row[c].stage = "hours_24"
    BY <1>8, <2>2, AnswersFields
  <2>3. CASE row[c].stage = "hours_48"
    BY <1>2, <1>4, <1>8, <2>1, <2>3, AnswersFields
  <2> QED
    BY <2>1, <2>2, <2>3 DEF Horizons
<1>9. ASSUME NEW e \in Errors, Fails(c, e)
      PROVE  /\ row'[c].stage = "hours_24" => row'[c].after = 1
             /\ row'[c].stage = "hours_48" => row'[c].after = 2
             /\ row'[c].stage # "completed" /\ (row'[c].tries > 0 \/ row'[c].next # "null")
                  => row'[c].after <= clock'
  <2>1. row[c].status = "researching" /\ row[c].stage \in Horizons
    BY <1>9 DEF Fails, Ends
  <2>2. row[c].after <= clock'
    BY <1>1, <1>2, <1>4, <2>1 DEF Horizons
  <2>3. \/ row'[c].stage = row[c].stage /\ row'[c].after = row[c].after
        \/ /\ row'[c].stage = "hours_48" /\ row'[c].after = 2
           /\ row'[c].tries = 0 /\ row'[c].next = "null"
        \/ row'[c].stage = "completed"
    BY <1>9, FailsFields
  <2> QED
    BY <1>2, <2>2, <2>3
<1>10. ASSUME NEW o, Ends(c, o)
       PROVE  \A h \in Horizons, n \in 1..3 :
                \/ runs'[<<c, h, n>>] = runs[<<c, h, n>>]
                \/ row[c].status = "researching" /\ h = row[c].stage
  BY <1>10 DEF Ends
<1> QED
  BY <1>5, <1>6, <1>7, <1>8, <1>9, <1>10, CaseMoves DEF Moves, Answers, Fails

LEMMA WaitCorrect == Spec => []WaitInv /\ []SearchesWaitForHorizon
<1>1. Init => WaitInv /\ SearchesWaitForHorizon
  <2> SUFFICES ASSUME Init, NEW c \in Cases \ Reactive
               PROVE  /\ row[c].tries = 0 /\ row[c].next = "null"
                      /\ row[c].after = IF row[c].stage = "hours_24" THEN 1 ELSE 2
                      /\ \A h \in Horizons, n \in 1..3 : runs[<<c, h, n>>] = "none"
    <3>1. ~(0 > 0)
      OBVIOUS
    <3> QED
      BY <3>1 DEF WaitInv, SearchesWaitForHorizon, Horizons
  <2> QED
    BY InitRows
<1>2. QueueInv /\ WaitInv /\ SearchesWaitForHorizon /\ [Next]_vars
        => WaitInv' /\ SearchesWaitForHorizon'
  BY WaitStep
<1> QED
  BY <1>1, <1>2, QueueCorrect, PTL DEF Spec

\* No proactive case is searched before its horizon, through any retries.
THEOREM SearchesWait == Spec => []SearchesWaitForHorizon
BY WaitCorrect, PTL

-----------------------------------------------------------------------------
\* The invariant that the runs check as a whole.
THEOREM InvariantHolds == Spec => []IInv
BY QueueCorrect, OneReviewerHolds, RunLedgerHolds, AttemptCorrect,
   NoFrozenCaseHolds, ThirdTryCorrect, FinalSearchHolds, VerdictCorrect,
   FinalVerdictHolds, EvaluationHolds, DelayCorrect, WaitCorrect, PTL DEF IInv

\* The bookkeeping of the tries is exact for any number of cases and faults.
THEOREM LedgerHolds == Spec => []LedgerKept
BY TypeCorrect, RunLedgerHolds, NoFrozenCaseHolds, ThirdTryHolds, PTL DEF LedgerKept

\* Verdicts and evaluations are those of the searches, through every sequence
\* of answers, errors and faults.
THEOREM VerdictsHold == Spec => []VerdictsFollowRuns
BY FinalSearchHolds, FinalVerdictHolds, EvaluationHolds, PTL DEF VerdictsFollowRuns

\* Neither a first search nor a retry is made before its time.
THEOREM WaitsHold == Spec => WaitsKept
<1>1. SearchesWaitForHorizon' /\ [RetryWaited]_vars
        => [SearchesWaitForHorizon' /\ RetryWaited]_vars
  OBVIOUS
<1> QED
  BY <1>1, SearchesWait, RetriesWait, PTL DEF RetriesWaitForDelay, WaitsKept

-----------------------------------------------------------------------------
(* The queue implements what BlueReview promises of each case.             *)

Stage == [c \in Cases |-> row[c].stage]
Provisional == [c \in Cases |-> row[c].provisional]
Verdict == [c \in Cases |-> row[c].verdict]

LEMMA ReviewInit ==
  ASSUME Init
  PROVE  Review!Init
<1>1. Stage \in [Cases -> {"hours_24", "hours_48"}]
  BY InitRows DEF Stage, Horizons
<1>2. \A c \in Cases : c \in IF Stage[c] = "hours_24" THEN Alerts24 ELSE Alerts48
  BY InitRows DEF Stage, AlertsAt
<1>3. Provisional = [c \in Cases |-> "pending"] /\ Verdict = [c \in Cases |-> "pending"]
  BY InitRows DEF Provisional, Verdict
<1> QED
  BY <1>1, <1>2, <1>3 DEF Review!Init, Stage, Provisional, Verdict

LEMMA SameReview ==
  ASSUME \A c \in Cases : /\ row'[c].stage = row[c].stage
                          /\ row'[c].provisional = row[c].provisional
                          /\ row'[c].verdict = row[c].verdict
  PROVE  UNCHANGED Review!vars
BY DEF Review!vars

\* A step that changes one row changes its three promised values only.
LEMMA OneRowMoves ==
  ASSUME NEW k \in Cases, \A c \in Cases \ {k} : row'[c] = row[c]
  PROVE  /\ Stage' = [Stage EXCEPT ![k] = row'[k].stage]
         /\ Provisional' = [Provisional EXCEPT ![k] = row'[k].provisional]
         /\ Verdict' = [Verdict EXCEPT ![k] = row'[k].verdict]
         /\ row'[k].provisional = row[k].provisional => Provisional' = Provisional
         /\ row'[k].verdict = row[k].verdict => Verdict' = Verdict
BY DEF Stage, Provisional, Verdict

LEMMA ReviewStep ==
  ASSUME QueueInv, [Next]_vars
  PROVE  [Review!Next]_(Review!vars)
<1>1. row \in [Cases -> Row]
  BY DEF QueueInv, TypeOK
<1>2. ASSUME \A c \in Cases : row'[c] = row[c] PROVE UNCHANGED Review!vars
  BY <1>2, SameReview
<1>3. ASSUME NEW d \in Cases, PassDelay(d) PROVE UNCHANGED Review!vars
  BY <1>1, <1>3, SameReview DEF PassDelay, Row
<1>4. ASSUME NEW w \in Workers, NEW d \in Cases, Claim(w, d)
      PROVE  UNCHANGED Review!vars
  BY <1>1, <1>4, SameReview DEF Claim, Row
<1>5. ASSUME NEW j \in jobs, NEW f \in Findings, CompleteRun(j, f) PROVE Review!Next
  <2> DEFINE k == j.case
  <2>1. /\ k \in Cases /\ \A c \in Cases \ {k} : row'[c] = row[c]
        /\ row[k].stage = j.horizon /\ row[k].stage \in Horizons
    BY <1>5, EndRunEnds, JobFacts DEF CompleteRun
  <2>2. f \in Review!Findings
    BY DEF Findings, Review!Findings
  <2>3. row'[k] = IF row[k].stage = "hours_24" THEN After24(k, f) ELSE After48(k, f)
    BY <1>5, <2>1, EndRunEnds DEF CompleteRun
  <2>4. TypeOK /\ Stage[k] = row[k].stage
    BY <2>1 DEF QueueInv, Stage
  <2>5. CASE row[k].stage = "hours_24"
    <3>1. /\ row'[k].provisional = f /\ row'[k].verdict = f
          /\ row'[k].stage = Review!AfterEarly(k)
      BY <2>1, <2>3, <2>4, <2>5, After24Fields DEF Review!AfterEarly
    <3>2. Review!PublishProvisional(k, f)
      BY <2>1, <2>4, <2>5, <3>1, OneRowMoves
         DEF Review!PublishProvisional, Stage, Provisional, Verdict
    <3> QED
      BY <2>1, <2>2, <3>2 DEF Review!Next
  <2>6. CASE row[k].stage = "hours_48"
    <3>1. /\ row'[k].provisional = row[k].provisional /\ row'[k].verdict = f
          /\ row'[k].stage = "completed" \/
             (row'[k].stage = "hours_48" /\ f = "no_evidence_found")
      BY <2>1, <2>3, <2>4, <2>6, After48Fields
    <3>2. CASE row'[k].stage = "completed"
      <4>1. Review!Conclude(k, f)
        BY <2>1, <2>4, <2>6, <3>1, <3>2, OneRowMoves
           DEF Review!Conclude, Stage, Provisional, Verdict
      <4> QED
        BY <2>1, <2>2, <4>1 DEF Review!Next
    <3>3. CASE row'[k].stage = "hours_48" /\ f = "no_evidence_found"
      <4>1. Stage' = Stage
        BY <2>1, <2>6, <3>3 DEF Stage
      <4>2. Review!SearchAgain(k)
        BY <2>1, <2>4, <2>6, <3>1, <3>3, <4>1, OneRowMoves
           DEF Review!SearchAgain, Stage, Provisional, Verdict
      <4> QED
        BY <2>1, <4>2 DEF Review!Next
    <3> QED
      BY <3>1, <3>2, <3>3
  <2> QED
    BY <2>1, <2>5, <2>6 DEF Horizons
<1>6. ASSUME NEW j \in jobs, NEW e \in Errors, FailRun(j, e)
      PROVE  Review!Next \/ UNCHANGED Review!vars
  <2> DEFINE k == j.case
  <2>1. /\ k \in Cases /\ \A c \in Cases \ {k} : row'[c] = row[c]
        /\ row[k].stage = j.horizon /\ row[k].stage \in Horizons
        /\ row'[k] = AfterError(k, j.horizon, e)
    BY <1>6, EndRunEnds, JobFacts DEF FailRun
  <2>2. TypeOK /\ Stage[k] = row[k].stage
    BY <2>1 DEF QueueInv, Stage
  <2>3. row'[k].provisional = row[k].provisional
    BY <2>1, <2>2, AfterErrorFields
  <2>4. CASE row[k].tries < TriesAllowed(e)
    <3>1. row'[k].stage = row[k].stage /\ row'[k].verdict = row[k].verdict
      BY <2>1, <2>2, <2>4, AfterErrorFields
    <3> QED
      BY <2>1, <2>3, <3>1, SameReview
  <2>5. CASE ~(row[k].tries < TriesAllowed(e)) /\ row[k].stage = "hours_24"
    <3>1. /\ row'[k].verdict = row[k].verdict
          /\ row'[k].stage = Review!AfterEarly(k)
      BY <2>1, <2>2, <2>5, AfterErrorFields DEF Review!AfterEarly
    <3>2. Review!GiveUpEarly(k)
      BY <2>1, <2>2, <2>3, <2>5, <3>1, OneRowMoves
         DEF Review!GiveUpEarly, Stage, Provisional, Verdict
    <3> QED
      BY <2>1, <3>2 DEF Review!Next
  <2>6. CASE ~(row[k].tries < TriesAllowed(e)) /\ row[k].stage = "hours_48"
    <3>1. row'[k].verdict = "inconclusive" /\ row'[k].stage = "completed"
      BY <2>1, <2>2, <2>6, AfterErrorFields
    <3>2. Review!Conclude(k, "inconclusive")
      BY <2>1, <2>2, <2>3, <2>6, <3>1, OneRowMoves
         DEF Review!Conclude, Stage, Provisional, Verdict
    <3> QED
      BY <2>1, <3>2 DEF Review!Next, Review!Findings
  <2> QED
    BY <2>1, <2>4, <2>5, <2>6 DEF Horizons
<1>7. CASE PassHorizon \/ Restart \/ UNCHANGED vars
  BY <1>2, <1>7 DEF PassHorizon, Restart, Drop, vars
<1>8. ASSUME NEW j \in jobs, StartRun(j) \/ StartFails(j) \/ PersistFails(j)
      PROVE  UNCHANGED Review!vars
  BY <1>2, <1>8 DEF StartRun, StartFails, PersistFails, Drop
<1> QED
  BY <1>3, <1>4, <1>5, <1>6, <1>7, <1>8 DEF Next, Answer

\* Whatever happens to its reviewers, a case goes through the verdicts that
\* the workflow promises, and no others.
THEOREM Implements == Spec => ReviewSpec
<1>1. Init => Review!Init
  BY ReviewInit
<1>2. QueueInv /\ [Next]_vars => [Review!Next]_(Review!vars)
  BY ReviewStep
<1> QED
  BY <1>1, <1>2, QueueCorrect, PTL DEF Spec, ReviewSpec, Review!Spec
=============================================================================
