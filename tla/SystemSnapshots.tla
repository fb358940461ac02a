-------------------------- MODULE SystemSnapshots --------------------------
(***************************************************************************)
(* Operational snapshots: the hourly and the daily task of the server and  *)
(* a command, which may replay a past instant, capture the state of the    *)
(* system.  Every capture is an attempt in a ledger, reads the tables one  *)
(* statement after another, and keeps one row per window, from which the   *)
(* alerts are derived.                                                     *)
(*                                                                         *)
(* An operator defined just before another, with a longer form of its name *)
(* is that operator with a mistake in it.                                  *)
(***************************************************************************)
EXTENDS Naturals, Sequences, FiniteSets

CONSTANTS
  Unknown,      \* no value
  DayHours,     \* hours of a day
  Transient, Degraded, Stale,   \* ages in hours, of FreshnessThresholds
  Models,       \* number of active models
  MaxHour,      \* bound on the clock
  MaxEvents,   \* bound on publications, FIRMS imports and failures
  MaxAttempts,  \* bound on captures
  MaxLosses     \* bound on failed calls and restarts

ASSUME SystemAssumption ==
  DayHours \in Nat \ {0} /\ MaxHour \in Nat /\ Unknown \notin Nat

VARIABLES
  hour,      \* the clock
  forecast,  \* the last published batch and when it was completed
  firms,     \* source_status.last_success of FIRMS
  failures,  \* hours in which an import failed
  due,       \* when a task captures next, and how many captures follow at once
  taking,   \* progress of the capture of a task
  attempts,  \* observability.snapshot_capture_attempts, by id
  rows,      \* observability.system_snapshots by window
  alerts,    \* observability.snapshot_alerts, with the task that recorded each
  losses

observed == <<forecast, firms, failures>>
ledger == <<attempts, rows, alerts>>
systemVars == <<hour, observed, due, taking, ledger, losses>>

Tasks == {"hourly", "daily", "command"}
Servers == {"hourly", "daily"}
NoSample == [forecast |-> Unknown, horizons |-> 0, firms |-> Unknown, failed |-> 0]
NotTaking == [step |-> "idle", at |-> 0, attempt |-> 0, sample |-> NoSample, todo |-> <<>>]

\* The daily task captures, then awaits a ticker whose first tick is immediate.
Dues == [hourly |-> [at |-> 0, times |-> 1], daily |-> [at |-> 0, times |-> 2]]

SystemInit ==
  /\ hour = 0
  /\ forecast = [batch |-> 0, at |-> Unknown]
  /\ firms = 0
  /\ failures = {}
  /\ due = Dues
  /\ taking = [c \in Tasks |-> NotTaking]
  /\ attempts = <<>>
  /\ rows = <<>>
  /\ alerts = {}
  /\ losses = 0

-----------------------------------------------------------------------------
(* The rest of the system.                                                 *)

Changes == forecast.batch + firms + Cardinality(failures)

\* A batch is published, FIRMS is read, or an import fails, within the first
\* instants of an hour.
Tick ==
  /\ hour < MaxHour
  /\ hour' = hour + 1
  /\ \/ UNCHANGED observed
     \/ /\ Changes < MaxEvents
        /\ \/ forecast' = [batch |-> forecast.batch + 1, at |-> hour'] /\ UNCHANGED <<firms, failures>>
           \/ firms' = hour' /\ UNCHANGED <<forecast, failures>>
           \/ failures' = failures \cup {hour'} /\ UNCHANGED <<forecast, firms>>
  /\ UNCHANGED <<due, taking, ledger, losses>>

-----------------------------------------------------------------------------
(* A capture.                                                              *)

\* An event has a window of its own.
Window(cadence, at) ==
  <<cadence, CASE cadence = "hourly" -> at
               [] cadence = "daily" -> at \div DayHours
               [] OTHER -> Len(attempts)>>

AttemptsOf(w) == {i \in DOMAIN attempts : attempts[i].window = w}

\* The advisory lock makes the number of an attempt unique.
Begin(c, cadence, at) ==
  LET w == Window(cadence, at) IN
  /\ taking[c].step = "idle" /\ Len(attempts) < MaxAttempts
  /\ attempts' = Append(attempts,
       [window |-> w, number |-> Cardinality(AttemptsOf(w)) + 1, status |-> "started", by |-> c, row |-> Unknown])
  /\ taking' = [taking EXCEPT ![c] =
       [NotTaking EXCEPT !.step = "lineage", !.at = at, !.attempt = Len(attempts) + 1]]
  /\ UNCHANGED <<hour, observed, rows, alerts, losses>>

\* Missed ticks are skipped.
Scheduled(c) ==
  /\ due[c].at <= hour
  /\ Begin(c, c, hour)
  /\ due' = [due EXCEPT ![c] =
       IF @.times > 1 THEN [@ EXCEPT !.times = due[c].times - 1]
       ELSE [at |-> hour + (IF c = "hourly" THEN 1 ELSE DayHours), times |-> 1]]

\* With --at the command replays a past instant, here the first, with the present state.
Commanded ==
  /\ \E cadence \in {"hourly", "daily", "event"}, at \in {0, hour} : Begin("command", cadence, at)
  /\ UNCHANGED due

\* The last FIRMS success and the last complete batch, among what does not change.
ReadLineage(c) ==
  /\ taking[c].step = "lineage"
  /\ taking' = [taking EXCEPT ![c] =
       [@ EXCEPT !.step = "volume", !.sample = [taking[c].sample EXCEPT !.forecast = forecast.at, !.firms = firms]]]
  /\ UNCHANGED <<hour, observed, due, ledger, losses>>

\* The failures of the day before an instant, and all after it.
Failed(at) == Cardinality({t \in failures : t + DayHours >= at})

\* The batch whose horizons are counted is looked up again.
ReadVolume(c) ==
  /\ taking[c].step = "volume"
  /\ taking' = [taking EXCEPT ![c] =
       [@ EXCEPT !.step = "store",
                 !.sample = [taking[c].sample EXCEPT !.horizons = forecast.batch,
                                                     !.failed = Failed(taking[c].at)]]]
  /\ UNCHANGED <<hour, observed, due, ledger, losses>>

WindowOf(c) == attempts[taking[c].attempt].window

KeptLast(c) ==
  [w \in DOMAIN rows \cup {WindowOf(c)} |->
    IF w = WindowOf(c) THEN [at |-> taking[c].at, sample |-> taking[c].sample] ELSE rows[w]]

\* ON CONFLICT keeps the row of the window.
Kept(c) ==
  [w \in DOMAIN rows \cup {WindowOf(c)} |->
    IF w \in DOMAIN rows THEN rows[w] ELSE [at |-> taking[c].at, sample |-> taking[c].sample]]

Store(c) ==
  /\ taking[c].step = "store"
  /\ rows' = Kept(c)
  /\ taking' = [taking EXCEPT ![c] = [@ EXCEPT !.step = "finish"]]
  /\ UNCHANGED <<hour, observed, due, attempts, alerts, losses>>

Age(at, t) == IF at > t THEN at - t ELSE 0

Band(at, t) ==
  IF t = Unknown THEN "unavailable"
  ELSE IF Age(at, t) < Transient THEN "normal"
  ELSE IF Age(at, t) < Degraded THEN "transient"
  ELSE IF Age(at, t) < Stale THEN "degraded" ELSE "stale"

Severity(band) == IF band \in {"stale", "unavailable"} THEN "critical" ELSE "warning"

Freshness(rule, at, t) ==
  IF Band(at, t) \in {"degraded", "stale", "unavailable"}
  THEN <<[rule |-> rule, severity |-> Severity(Band(at, t))]>> ELSE <<>>

\* The other rules are about states that the schema and the code exclude.
Candidates(row) ==
  Freshness("forecast_freshness", row.at, row.sample.forecast)
    \o Freshness("firms_freshness", row.at, row.sample.firms)
    \o (IF Models = 1 THEN <<>>
        ELSE <<[rule |-> "active_model_count", severity |-> "critical"]>>)

Rules(row) == {Candidates(row)[n] : n \in DOMAIN Candidates(row)}

ReportedSample(c) == [at |-> taking[c].at, sample |-> taking[c].sample]

\* The row that RETURNING gave, whoever stored it.
Reported(c) == rows[WindowOf(c)]

\* The attempt is closed with the checksum of the row that was kept.
Finish(c) ==
  /\ taking[c].step = "finish"
  /\ attempts' = [attempts EXCEPT ![taking[c].attempt] =
       [@ EXCEPT !.status = "succeeded", !.row = Reported(c).sample]]
  /\ taking' = [taking EXCEPT ![c] = [@ EXCEPT !.step = "alerts", !.todo = Candidates(Reported(c))]]
  /\ UNCHANGED <<hour, observed, due, rows, alerts, losses>>

RecordedInAttempt(c, x) ==
  \E a \in alerts : a.rule = x.rule /\ a.window = WindowOf(c) /\ a.attempt = taking[c].attempt

Recorded(c, x) == \E a \in alerts : a.rule = x.rule /\ a.window = WindowOf(c)

\* The alert is looked up, and inserted by a later statement.
CheckAlert(c) ==
  /\ taking[c].step = "alerts" /\ taking[c].todo # <<>>
  /\ taking' = [taking EXCEPT ![c] =
       IF Recorded(c, Head(@.todo)) THEN [@ EXCEPT !.todo = Tail(taking[c].todo)]
       ELSE [@ EXCEPT !.step = "record"]]
  /\ UNCHANGED <<hour, observed, due, ledger, losses>>

RecordAlert(c) ==
  /\ taking[c].step = "record"
  /\ LET x == Head(taking[c].todo) IN
       alerts' = alerts \cup {[rule |-> x.rule, severity |-> x.severity,
                               window |-> WindowOf(c), attempt |-> taking[c].attempt]}
  /\ taking' = [taking EXCEPT ![c] = [@ EXCEPT !.step = "alerts", !.todo = Tail(taking[c].todo)]]
  /\ UNCHANGED <<hour, observed, due, attempts, rows, losses>>

AlertsDone(c) ==
  /\ taking[c].step = "alerts" /\ taking[c].todo = <<>>
  /\ taking' = [taking EXCEPT ![c] = NotTaking]
  /\ UNCHANGED <<hour, observed, due, ledger, losses>>

\* A query fails, or the row is stored and the reply is lost: the attempt is
\* marked failed.  That is done in an update whose own failure is ignored.
CaptureFails(c) ==
  /\ taking[c].step \in {"lineage", "volume", "store"}
  /\ losses < MaxLosses /\ losses' = losses + 1
  /\ rows' \in {rows} \cup (IF taking[c].step = "store" THEN {Kept(c)} ELSE {})
  /\ \E status \in {"failed", "started"} :
       attempts' = [attempts EXCEPT ![taking[c].attempt] = [@ EXCEPT !.status = status]]
  /\ taking' = [taking EXCEPT ![c] = NotTaking]
  /\ UNCHANGED <<hour, observed, due, alerts>>

\* The attempt cannot be closed, or an alert not be stored: no more alerts.
ReportFails(c) ==
  /\ taking[c].step \notin {"idle", "lineage", "volume", "store"}
  /\ losses < MaxLosses /\ losses' = losses + 1
  /\ taking' = [taking EXCEPT ![c] = NotTaking]
  /\ UNCHANGED <<hour, observed, due, ledger>>

\* The next occurrence of the hour of the daily task.
Restart ==
  /\ losses < MaxLosses /\ losses' = losses + 1
  /\ taking' = [c \in Tasks |-> IF c \in Servers THEN NotTaking ELSE taking[c]]
  /\ \E d \in {hour..(hour + DayHours)} : \E at \in {x \in d : x % DayHours = 0} :
       due' = [hourly |-> [at |-> hour, times |-> 1], daily |-> [at |-> at, times |-> 2]]
  /\ UNCHANGED <<hour, observed, ledger>>

Step(c) ==
  \/ ReadLineage(c)
  \/ ReadVolume(c)
  \/ Store(c)
  \/ Finish(c)
  \/ CheckAlert(c)
  \/ RecordAlert(c)
  \/ AlertsDone(c)

-----------------------------------------------------------------------------
(* The reports on captures.                                                *)

Hours == {w[2] : w \in {x \in DOMAIN rows : x[1] = "hourly"}}
Last(S) == CHOOSE x \in S : \A y \in S : y <= x
First(S) == CHOOSE x \in S : \A y \in S : x <= y

\* Slots between the first and the last hour that has a snapshot.
Expected == IF Hours = {} THEN 0 ELSE Last(Hours) - First(Hours) + 1

HourlySummary ==
  [present |-> Cardinality(Hours), expected |-> Expected,
   missing |-> Expected - Cardinality(Hours),
   failed |-> Cardinality({i \in DOMAIN attempts :
                attempts[i].window[1] = "hourly" /\ attempts[i].status = "failed"})]

Change(new, old) ==
  IF new = Unknown \/ old = Unknown THEN "not_comparable"
  ELSE CASE new = old -> "unchanged"
         [] new > old -> "up"
         [] OTHER -> "down"

Days == {w[2] : w \in {x \in DOMAIN rows : x[1] = "daily"}}
AgeOf(row) == IF row.sample.forecast = Unknown THEN Unknown ELSE Age(row.at, row.sample.forecast)

\* The latest day against the one that many days before, if there are both.
Compared(days) ==
  IF Days = {} \/ ~\E d \in Days : d + days = Last(Days) THEN Unknown
  ELSE LET new == rows[<<"daily", Last(Days)>>]
           old == rows[<<"daily", Last(Days) - days>>]
       IN [forecast |-> Change(AgeOf(new), AgeOf(old)), failed |-> Change(new.sample.failed, old.sample.failed)]

-----------------------------------------------------------------------------
SystemNext ==
  \/ Tick
  \/ \E c \in Servers : Scheduled(c)
  \/ Commanded
  \/ \E c \in Tasks : Step(c) \/ CaptureFails(c) \/ ReportFails(c)
  \/ Restart

SystemSpec == SystemInit /\ [][SystemNext]_systemVars

-----------------------------------------------------------------------------
\* An attempt that succeeded shows the checksum of the row its window has now,
\* and the attempts of a window are numbered without gaps.  A row may lack an
\* attempt that succeeded only while one is open or after a failure.
AttemptsAccounted ==
  /\ \A i \in DOMAIN attempts : LET w == attempts[i].window IN
       /\ attempts[i].status = "succeeded" => w \in DOMAIN rows /\ attempts[i].row = rows[w].sample
       /\ {attempts[j].number : j \in AttemptsOf(w)} = 1..Cardinality(AttemptsOf(w))
  /\ losses = 0 => \A w \in DOMAIN rows :
       \E i \in AttemptsOf(w) : attempts[i].status = "succeeded"
         \/ \E c \in Tasks : taking[c].attempt = i

\* The reports count what the tables hold, also after a replay of an earlier
\* hour: every hour between the first and the last is present or missing, and
\* days are compared only if both have a snapshot.
ReportsExact ==
  /\ HourlySummary.missing =
       Cardinality({h \in 0..MaxHour : h \notin Hours /\ \E x, y \in Hours : x < h /\ h < y})
  /\ \A days \in 1..MaxHour : Compared(days) # Unknown =>
       /\ Last(Days) - days \in Days
       /\ Compared(days).forecast = "not_comparable" <=>
            \E d \in {Last(Days), Last(Days) - days} : rows[<<"daily", d>>].sample.forecast = Unknown

\* The ledger of attempts agrees with the rows, and the reports with both.
CapturesAccounted == AttemptsAccounted /\ ReportsExact

\* An alert is about the row that was kept, whichever capture evaluated it, and
\* a task records it once, however often it captures the same window.  Without
\* a fault, a capture ends with an alert for every degradation that the kept
\* row shows, its own or that of another task.
AlertsExact ==
  /\ \A a \in alerts :
       /\ [rule |-> a.rule, severity |-> a.severity] \in Rules(rows[a.window])
       /\ \A b \in alerts : a # b /\ a.rule = b.rule /\ a.window = b.window
            => attempts[a.attempt].by # attempts[b.attempt].by
  /\ losses = 0 => \A i \in DOMAIN attempts :
       (\A c \in Tasks : taking[c].attempt # i) =>
         \A x \in Rules(rows[attempts[i].window]) :
           \E a \in alerts : a.rule = x.rule /\ a.window = attempts[i].window

\* What a window has shown it shows for ever: a later capture of the window, a
\* replay included, changes neither the row nor an attempt that has ended.  The
\* comment of capture_system_snapshot says that it upserts the row in place.
SnapshotsFinal ==
  [][ /\ \A w \in DOMAIN rows : w \in DOMAIN rows' /\ rows'[w] = rows[w]
      /\ \A i \in DOMAIN attempts :
           attempts[i].status # "started" => attempts'[i] = attempts[i]
      /\ alerts \subseteq alerts' ]_systemVars
=============================================================================
