---------------------------- MODULE BlueEvidence ----------------------------
(***************************************************************************)
(* The evidence queue of the BLUE centre: the rows of blue.evidence_cases  *)
(* and blue.evidence_runs, and the reviewers that claim a due case, start  *)
(* an audited run, await an answer from outside and persist it or its      *)
(* failure.  Every database call is one action, because each is one        *)
(* statement or one transaction; a reviewer can be interrupted between any *)
(* two of them.                                                            *)
(*                                                                         *)
(* The cases are those of one published bulletin, already inserted: module *)
(* BlueSelection inserts them.  The three positive verdicts (confirmed,    *)
(* probable, signal_observed) are one value, "observed": no branch of the  *)
(* queue tells them apart.                                                 *)
(*                                                                         *)
(* An operator defined just before another, with a longer form of its name *)
(* (ClaimableBusy, Claimable), is that operator with a mistake in it;      *)
(* nothing uses it but the check that the properties notice the mistake.   *)
(***************************************************************************)
EXTENDS Naturals, FiniteSets

CONSTANTS
  Cases,      \* the cases of the bulletin
  Alerts24,   \* cases with alert_24h_id
  Alerts48,   \* cases with alert_48h_id
  Reactive,   \* cases with selection_reason = 'reactive_signal'
  Workers,    \* the reviewer loops that may claim a case
  MaxFaults   \* bound on lost database calls and process restarts

\* blue_evidence_cases_alert_check: every case has at least one alert.
ASSUME CasesAssumption ==
  /\ Alerts24 \cup Alerts48 = Cases
  /\ Reactive \subseteq Cases
ASSUME FaultsAssumption == MaxFaults \in Nat

Horizons == {"hours_24", "hours_48"}
Findings == {"observed", "no_evidence_found", "inconclusive"}
Errors   == {"invalid", "failed"}   \* malformed answer; any other error

VARIABLES
  clock,       \* horizons passed with their 3 h margin: 0, 1 (+24 h), 2 (+48 h)
  row,         \* the rows of blue.evidence_cases
  runs,        \* blue.evidence_runs by (case, horizon, stage attempt)
  evaluation,  \* forecast_evaluations.status of the case's alerts
  jobs,        \* what the reviewers hold in memory
  faults       \* faults so far

vars == <<clock, row, runs, evaluation, jobs, faults>>

Statuses  == {"pending", "researching", "retry_due", "reviewed", "failed"}
Stages    == Horizons \cup {"completed"}
Verdicts  == Findings \cup {"pending"}
Attempts  == 0..6
Tries     == 0..3
Moments   == 0..2                        \* the clock a search waits for
Delays    == {"null", "future", "past"}
Closings  == {"null", "set"}
Evaluations == {"pending", "observed", "inconclusive"}

Row == [status : Statuses,
        stage : Stages,             \* review_stage
        attempts : Attempts,        \* attempt_count
        tries : Tries,              \* stage_attempt_count
        after : Moments,            \* research_after
        next : Delays,              \* next_attempt_at
        provisional : Verdicts,     \* provisional_verdict
        verdict : Verdicts,
        closed : Closings]          \* completed_at
Keys == Cases \X Horizons \X (1..3)
Job  == [worker : Workers, case : Cases, horizon : Horizons, no : 1..3,
         step : {"claimed", "running"}]

\* The column constraints of the tables, and what the reviewers remember.
TypeOK ==
  /\ clock \in 0..2
  /\ row \in [Cases -> Row]
  /\ runs \in [Keys -> {"none", "started"} \cup Errors \cup Findings]
  /\ evaluation \in [Cases \X Horizons -> Evaluations]
  /\ jobs \subseteq Job
  /\ faults \in 0..MaxFaults

-----------------------------------------------------------------------------
AlertsAt(h) == IF h = "hours_24" THEN Alerts24 ELSE Alerts48

\* The horizons an inserted case may start with: a proactive case the first
\* one alerted, a reactive case the one its signal fell in.
FirstStages(c) ==
  {h \in Horizons : /\ c \in AlertsAt(h)
                    /\ c \in Alerts24 /\ c \notin Reactive => h = "hours_24"}

\* A proactive case waits for its horizon, a reactive one is due at once.
FreshRow(c, h) ==
  [status |-> "pending", stage |-> h, attempts |-> 0, tries |-> 0,
   after |-> IF c \in Reactive THEN 0 ELSE IF h = "hours_24" THEN 1 ELSE 2,
   next |-> "null", provisional |-> "pending", verdict |-> "pending",
   closed |-> "null"]

Init ==
  /\ clock = 0
  /\ \E first \in [Cases -> Horizons] :
       /\ \A c \in Cases : first[c] \in FirstStages(c)
       /\ row = [c \in Cases |-> FreshRow(c, first[c])]
  /\ runs = [k \in Keys |-> "none"]
  /\ evaluation = [k \in Cases \X Horizons |-> "pending"]
  /\ jobs = {}
  /\ faults = 0

-----------------------------------------------------------------------------
\* Time: a horizon passes, or the 6 h or 72 h delay of a retry does.
PassHorizon ==
  /\ clock < 2
  /\ clock' = clock + 1
  /\ UNCHANGED <<row, runs, evaluation, jobs, faults>>

PassDelay(c) ==
  /\ row[c].next = "future"
  /\ row' = [row EXCEPT ![c].next = "past"]
  /\ UNCHANGED <<clock, runs, evaluation, jobs, faults>>

-----------------------------------------------------------------------------
Idle(w) == \A j \in jobs : j.worker # w

\* COALESCE(next_attempt_at, research_after) <= NOW()
Due(r) == r.next = "past" \/ (r.next = "null" /\ r.after <= clock)

ClaimableBusy(r) ==
  r.attempts < 6 /\ r.tries < 3 /\ r.stage \in Horizons /\ Due(r)

Claimable(r) ==
  /\ r.status \in {"pending", "retry_due"}
  /\ r.attempts < 6
  /\ r.tries < 3
  /\ r.stage \in Horizons
  /\ Due(r)

\* One statement picks a due row under FOR UPDATE SKIP LOCKED and takes it.
Claim(w, c) ==
  /\ Idle(w)
  /\ Claimable(row[c])
  /\ row' = [row EXCEPT ![c].status = "researching",
                        ![c].attempts = @ + 1,
                        ![c].tries = @ + 1]
  /\ jobs' = jobs \cup {[worker |-> w, case |-> c, horizon |-> row[c].stage,
                         no |-> row[c].tries + 1, step |-> "claimed"]}
  /\ UNCHANGED <<clock, runs, evaluation, faults>>

KeyOf(j) == <<j.case, j.horizon, j.no>>

\* The run is inserted under UNIQUE(case_id, review_horizon, stage_attempt_no).
StartRun(j) ==
  /\ j.step = "claimed"
  /\ runs[KeyOf(j)] = "none"
  /\ runs' = [runs EXCEPT ![KeyOf(j)] = "started"]
  /\ jobs' = (jobs \ {j}) \cup {[j EXCEPT !.step = "running"]}
  /\ UNCHANGED <<clock, row, evaluation, faults>>

\* The transaction that ends a run: UPDATE evidence_runs ... AND status =
\* 'started', and UPDATE evidence_cases ... AND status = 'researching'.
EndRun(j, outcome, newRow) ==
  /\ j.step = "running"
  /\ runs' = [runs EXCEPT ![KeyOf(j)] = IF @ = "started" THEN outcome ELSE @]
  /\ row' = [row EXCEPT ![j.case] = IF @.status = "researching" THEN newRow ELSE @]
  /\ jobs' = jobs \ {j}
  /\ UNCHANGED <<clock, faults>>

EvaluateEarlyAlert(c, h, f) ==
  evaluation' = [evaluation EXCEPT ![<<c, "hours_24">>] =
    IF c \notin Alerts24 THEN @
    ELSE IF f = "observed" THEN "observed" ELSE "inconclusive"]

\* The evaluation of the horizon's alert, if the case has one.
Evaluate(c, h, f) ==
  evaluation' = [evaluation EXCEPT ![<<c, h>>] =
    IF c \notin AlertsAt(h) THEN @
    ELSE IF f = "observed" THEN "observed" ELSE "inconclusive"]

ToHours48KeepsTries(r) ==
  [r EXCEPT !.status = "pending", !.stage = "hours_48", !.next = "null",
            !.after = 2, !.closed = "null"]
ToHours48KeepsAfter(r) ==
  [r EXCEPT !.status = "pending", !.stage = "hours_48", !.tries = 0,
            !.next = "null", !.closed = "null"]
\* The three ways a claimed row is left: for the +48 h search, for a later try
\* of the same stage, or closed.
ToHours48(r) ==
  [r EXCEPT !.status = "pending", !.stage = "hours_48", !.tries = 0,
            !.next = "null", !.after = 2, !.closed = "null"]
TryLater(r) ==
  [r EXCEPT !.status = "retry_due", !.next = "future", !.closed = "null"]
Close(r, status, closed) ==
  [r EXCEPT !.status = status, !.stage = "completed", !.next = "null",
            !.closed = closed]

After24Unpublished(c, f) ==
  LET r == [row[c] EXCEPT !.verdict = f, !.tries = 0] IN
  IF c \in Alerts48 THEN ToHours48(r) ELSE Close(r, "reviewed", "set")

\* The answer to a +24 h search: provisional if a +48 h search is to come.
After24(c, f) ==
  LET r == [row[c] EXCEPT !.provisional = f, !.verdict = f, !.tries = 0] IN
  IF c \in Alerts48 THEN ToHours48(r) ELSE Close(r, "reviewed", "set")

After48Unbounded(c, f) ==
  LET r == [row[c] EXCEPT !.verdict = f] IN
  IF f = "no_evidence_found" THEN TryLater(r) ELSE Close(r, "reviewed", "set")

\* The answer to a +48 h search: final, except that a search which found
\* nothing is repeated after 72 h, within two tries.
After48(c, f) ==
  LET r == [row[c] EXCEPT !.verdict = f] IN
  IF f = "no_evidence_found" /\ row[c].tries < 2
  THEN TryLater(r) ELSE Close(r, "reviewed", "set")

CompleteRun(j, f) ==
  /\ EndRun(j, f, IF j.horizon = "hours_24" THEN After24(j.case, f)
                  ELSE After48(j.case, f))
  /\ Evaluate(j.case, j.horizon, f)

\* A malformed answer may be tried three times in a stage, other errors twice.
TriesAllowed(e) == IF e = "invalid" THEN 3 ELSE 2

\* A failure: retried after 6 h while tries remain, otherwise the stage is
\* given up, and with the +48 h stage the case.
AfterError(c, h, e) ==
  IF row[c].tries < TriesAllowed(e) THEN TryLater(row[c])
  ELSE IF h = "hours_48"
  THEN Close([row[c] EXCEPT !.tries = 0, !.verdict = "inconclusive"], "failed", "set")
  ELSE IF c \in Alerts48 THEN ToHours48(row[c])
  ELSE Close([row[c] EXCEPT !.tries = 0], "failed", "null")

FailRun(j, e) ==
  /\ EndRun(j, e, AfterError(j.case, j.horizon, e))
  /\ UNCHANGED evaluation

-----------------------------------------------------------------------------
\* The reviewer loses its job and the database is left as it was.
Drop(lost) ==
  /\ jobs' = jobs \ lost
  /\ UNCHANGED <<clock, row, runs, evaluation>>

Fault ==
  /\ faults < MaxFaults
  /\ faults' = faults + 1

\* The run cannot be inserted: the error is logged, the claim is left as it
\* is and the batch ends.  The loss of the reply to the claim ends the same.
StartFails(j) ==
  /\ j.step = "claimed"
  /\ Drop({j})
  /\ IF runs[KeyOf(j)] # "none" THEN UNCHANGED faults ELSE Fault

\* The transaction that ends the run is rolled back: the error is logged and
\* the loop goes on to the next case.
PersistFails(j) ==
  /\ j.step = "running"
  /\ Drop({j})
  /\ Fault

\* The process stops; a new one starts with nothing in memory.
Restart ==
  /\ jobs # {}
  /\ Drop(jobs)
  /\ Fault

-----------------------------------------------------------------------------
Answer(j) ==
  \/ \E f \in Findings : CompleteRun(j, f)
  \/ \E e \in Errors : FailRun(j, e)

Next ==
  \/ PassHorizon
  \/ \E c \in Cases : PassDelay(c)
  \/ \E w \in Workers, c \in Cases : Claim(w, c)
  \/ \E j \in jobs : StartRun(j)
  \/ \E j \in jobs : Answer(j)
  \/ \E j \in jobs : StartFails(j)
  \/ \E j \in jobs : PersistFails(j)
  \/ Restart

Spec == Init /\ [][Next]_vars

\* Time passes; the reviewer loops tick for ever and take the due case that
\* waited longest first; their calls return, the answer within its timeout.
Fairness ==
  /\ WF_vars(PassHorizon)
  /\ \A c \in Cases : WF_vars(PassDelay(c))
  /\ \A c \in Cases : SF_vars(\E w \in Workers : Claim(w, c))
  /\ WF_vars(\E j \in jobs : StartRun(j) \/ Answer(j))

FairSpec == Spec /\ Fairness

-----------------------------------------------------------------------------
Open(r) == r.status \in {"pending", "retry_due"}

\* A case is researched by one reviewer at most, and a case marked as being
\* researched has that reviewer unless a fault took it away: two claims never
\* share a row, and only faults leave one behind (claim_blue_evidence_case).
OneReviewer ==
  \A c \in Cases :
    /\ \A j, k \in jobs : j.case = c /\ k.case = c => j = k
    /\ row[c].status = "researching" \/ \A j \in jobs : j.case # c
    /\ row[c].status = "researching" /\ faults = 0 => \E j \in jobs : j.case = c

\* The counter of the row is the number of runs of its stage, so a claimed
\* case always finds its run number free: the UNIQUE constraint on
\* evidence_runs never rejects the run of a legitimate claim.
RunLedger ==
  /\ \A j \in jobs : (runs[KeyOf(j)] = "none") <=> (j.step = "claimed")
  /\ \A c \in Cases : Open(row[c]) =>
       \A n \in 1..3 : (runs[<<c, row[c].stage, n>>] # "none") <=> (n <= row[c].tries)

\* A case waiting for a search can be claimed once it is due: the bounds in
\* the claim's WHERE clause never freeze a case that a retry has promised.
NoFrozenCase ==
  \A c \in Cases : Open(row[c]) =>
    row[c].attempts < 6 /\ row[c].tries < 3 /\ row[c].stage \in Horizons

\* The third try of a stage follows a malformed answer only (migration 0029).
ThirdTryReserved ==
  \A c \in Cases, h \in Horizons :
    runs[<<c, h, 3>>] # "none" => runs[<<c, h, 2>>] = "invalid"

\* However the +24 h stage ends, a case with a +48 h alert is not closed
\* before a +48 h search was made (fail_blue_evidence_run).
FinalSearchMade ==
  \A c \in Alerts48 :
    row[c].stage = "completed" => runs[<<c, "hours_48", 1>>] # "none"

\* The bookkeeping of the tries: a run for each counted try, a claim possible
\* for each promised one, and none beyond those an error allows.
LedgerKept == TypeOK /\ RunLedger /\ NoFrozenCase /\ ThirdTryReserved

LastFinding(c, h, f) ==
  \E n \in 1..3 :
    /\ runs[<<c, h, n>>] = f
    /\ \A m \in (n + 1)..3 : runs[<<c, h, m>>] \notin Findings

\* The verdict of a closed case is the answer of the last run of its last
\* horizon; without one it is inconclusive if that horizon is +48 h, and
\* still pending otherwise.  The +24 h answer is never the final one of a
\* case that has a +48 h alert (comment on provisional_verdict, 0027), and
\* the performance page counts no other case as reviewed at +48 h
\* (pending_final_reviews_do_not_dilute_the_final_rate).
FinalVerdict ==
  /\ \A c \in Cases : row[c].stage = "completed" =>
       IF row[c].status = "reviewed"
       THEN LastFinding(c, IF c \in Alerts48 THEN "hours_48" ELSE "hours_24",
                        row[c].verdict)
       ELSE row[c].verdict = IF c \in Alerts48 THEN "inconclusive" ELSE "pending"
  /\ \A c \in Alerts48 : row[c].closed = "set" <=> row[c].stage = "completed"

\* The evaluation shown beside a forecast alert is that of the last answered
\* run of the alert's horizon, and pending only while there is none.
EvaluationFollowsRuns ==
  \A c \in Cases, h \in Horizons : c \in AlertsAt(h) =>
    CASE evaluation[<<c, h>>] = "observed" -> LastFinding(c, h, "observed")
      [] evaluation[<<c, h>>] = "inconclusive" ->
           LastFinding(c, h, "inconclusive") \/ LastFinding(c, h, "no_evidence_found")
      [] OTHER -> \A n \in 1..3 : runs[<<c, h, n>>] \notin Findings

\* What the pages show of a case and of its alerts is what its searches found.
VerdictsFollowRuns == FinalSearchMade /\ FinalVerdict /\ EvaluationFollowsRuns

\* No proactive case is searched before the horizon of the search has passed,
\* through any sequence of retries and stages.
SearchesWaitForHorizon ==
  \A c \in Cases \ Reactive, n \in 1..3 :
    /\ runs[<<c, "hours_24", n>>] # "none" => clock >= 1
    /\ runs[<<c, "hours_48", n>>] # "none" => clock = 2

RetryWaited ==
  \A c \in Cases :
    row[c].tries > 0 /\ row'[c].tries = row[c].tries + 1 => row[c].next = "past"

\* A second or third search of a stage is claimed only once the delay of the
\* retry is over, 72 h after an empty search and 6 h after an error, though
\* research_after is long past (claim_blue_evidence_case).
RetriesWaitForDelay == [][RetryWaited]_vars

\* No search is made early: neither the first ones of a stage nor the retries.
WaitsKept == [][SearchesWaitForHorizon' /\ RetryWaited]_vars

\* What a case promises, whatever happens to its reviewers (BlueReview).
Review == INSTANCE BlueReview WITH
  stage       <- [c \in Cases |-> row[c].stage],
  provisional <- [c \in Cases |-> row[c].provisional],
  verdict     <- [c \in Cases |-> row[c].verdict]

ReviewSpec == Review!Spec

\* As long as no call is lost and the process is not restarted, every case is
\* closed: no retry loop, counter or schedule keeps one open for ever.
EventuallyClosed ==
  \A c \in Cases : <>(row[c].stage = "completed" \/ faults > 0)
=============================================================================
