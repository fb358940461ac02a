-------------------------- MODULE ForecastSources --------------------------
(***************************************************************************)
(* How a forecast gets its weather.  Every hour the scheduler tries the    *)
(* direct ECMWF download, then Open-Meteo with the Meteo-France model,     *)
(* then with the ECMWF model, computes the regions with the first that     *)
(* answers, and notes in source_status what became of each of the three.   *)
(* The forecast command does the same, with other notes, while the         *)
(* scheduler waits (an assumption: the two would share the files of the    *)
(* download).                                                              *)
(*                                                                         *)
(* Time is in hours from a midnight; a download may take any time.  The    *)
(* direct source keeps each decoded field in a file of its run, written    *)
(* beside it and renamed when whole.                                       *)
(*                                                                         *)
(* An operator defined just before another, with a longer form of its name *)
(* (WrittenInPlace, Written), is that operator with a mistake in it;       *)
(* nothing uses it but the check that the properties notice the mistake.   *)
(***************************************************************************)
EXTENDS Integers, Sequences, FiniteSets, SequencesExt, FiniteSetsExt

CONSTANTS
  Partitions,   \* number of partitions of the territory
  Fields,       \* number of weather fields of a direct download
  Starts,       \* hours at which the process may start, from the fifth day on
  Hours,        \* bound: the hours that may come, in stretches
  MaxCycles,    \* bound on the forecasts tried
  SourceFaults  \* bound on restarts and failed notes

ASSUME SourcesAssumption == Starts \subseteq Nat

VARIABLES
  now,     \* the hour
  passed,  \* forecasts tried, and restarts and failed notes
  due,     \* whether the scheduler's tick has come
  cycle,   \* the forecast in progress
  files,   \* the cached fields of each run, whole or not
  status,  \* source_status: hour of the last success (0: none), recent error
  last     \* what became of the last forecast

clocks == <<now, passed, due>>
feeds == <<clocks, cycle, files, status, last>>

Chain == <<"ecmwf_ifs025_direct", "open_meteo_arome", "open_meteo_ecmwf_ifs025">>
Direct == Chain[1]
CommandRow == "weather_forecast"

Waiting == [step |-> "waiting", who |-> "scheduler", source |-> Direct, from |-> 0, run |-> 0,
            read |-> {}, got |-> <<>>, retried |-> FALSE, failed |-> <<>>, todo |-> <<>>]
NoOutcome == [who |-> "scheduler", used |-> "", failed |-> <<>>, from |-> 0, at |-> 0, base |-> 0,
              refused |-> FALSE, noted |-> FALSE]

SourcesInit ==
  /\ now \in Starts
  /\ passed = [cycles |-> 0, faults |-> 0]
  /\ due = TRUE
  /\ cycle = Waiting
  /\ files = {}
  /\ status = [s \in ToSet(Chain) \cup {CommandRow} |-> [success |-> 0, error |-> FALSE]]
  /\ last = NoOutcome

-----------------------------------------------------------------------------
(* Hours.                                                                  *)

Noon(v) == ((v - 12) \div 24) * 24 + 12
Noons(base) == {n \in Noon(base)..Noon(base + 48) : n % 24 = 12}

\* The hours a forecast of this base is computed from: its four horizons, and
\* the noons of the daily indices (valid_times, daily_noons).
Needed(base) == {base, base + 6, base + 24, base + 48} \cup Noons(base)

\* What a direct download begun at an hour samples: the same hours, of the
\* latest base that is a multiple of three hours (required_sample_times).
DirectHours(h) == Needed(h - (h % 3))

\* past_hours = 24, forecast_hours = 49.
MeteoHours(h) == (h - 24)..(h + 48)

\* latest_available_hour
LatestHour(hours, h) == Max({v \in hours : v <= h})

\* The runs that hold every sampled hour and the hour a day before it, within
\* their 144 hours; looked for over five days (select_run).
Candidates(h) ==
  LET first == Min(DirectHours(h)) - 24
      oldest == (first \div 24 - 4) * 24
  IN {r \in oldest..first : r % 6 = 0 /\ Max(DirectHours(h)) - r <= 144}

-----------------------------------------------------------------------------
PassHour ==
  /\ now + 1 \in Hours
  /\ now' = now + 1
  /\ due' = TRUE
  /\ UNCHANGED <<passed, cycle, files, status, last>>

BeginForecast(who) ==
  /\ cycle.step = "waiting" /\ passed.cycles < MaxCycles
  /\ passed' = [passed EXCEPT !.cycles = @ + 1]
  /\ cycle' = [Waiting EXCEPT !.step = "select", !.who = who, !.from = now]
  /\ last' = NoOutcome
  /\ UNCHANGED <<now, files, status>>

BeginTick == due /\ due' = FALSE /\ BeginForecast("scheduler")
BeginCommand == BeginForecast("command") /\ UNCHANGED due

\* The newest candidate that answers; the newer ones are not there yet.
SelectRun ==
  /\ cycle.step = "select"
  /\ \E r \in Candidates(cycle.from) :
       /\ \A q \in Candidates(cycle.from) : q <= r + 6
       /\ cycle' = [cycle EXCEPT !.step = "fields", !.run = r]
  /\ UNCHANGED <<clocks, files, status, last>>

NextField == Cardinality(cycle.read) + 1
Cached == {f \in files : f.run = cycle.run /\ f.field = NextField}

WithField(f) ==
  [cycle EXCEPT !.read = @ \cup {f}, !.step = IF NextField = Fields THEN "compute" ELSE "fields"]

ReadField ==
  /\ cycle.step = "fields"
  /\ \E f \in Cached : cycle' = WithField(f)
  /\ UNCHANGED <<clocks, files, status, last>>

WrittenInPlace == files \cup {[run |-> cycle.run, field |-> NextField, whole |-> FALSE]}

\* The field is decoded into a file beside the cached one.
Written == files

DecodeField ==
  /\ cycle.step = "fields" /\ Cached = {}
  /\ files' = Written
  /\ cycle' = [cycle EXCEPT !.step = "rename"]
  /\ UNCHANGED <<clocks, status, last>>

RenameField ==
  /\ cycle.step = "rename"
  /\ LET f == [run |-> cycle.run, field |-> NextField, whole |-> TRUE]
     IN files' = (files \ Cached) \cup {f} /\ cycle' = WithField(f)
  /\ UNCHANGED <<clocks, status, last>>

FallBack(source) ==
  [Waiting EXCEPT !.step = "meteo", !.who = cycle.who, !.source = source,
                  !.failed = Append(cycle.failed, cycle.source)]

\* No run, a status other than 404, a short range, a failed decoder or file.
DirectFails ==
  /\ cycle.step \in {"select", "fields", "rename"}
  /\ cycle' = FallBack(Chain[2])
  /\ UNCHANGED <<clocks, files, status, last>>

\* One request per partition, all before the first is computed.
FetchPartition ==
  /\ cycle.step = "meteo"
  /\ cycle' = [cycle EXCEPT !.got = Append(@, now), !.retried = FALSE,
       !.step = IF Len(cycle.got) + 1 = Partitions THEN "compute" ELSE "meteo"]
  /\ UNCHANGED <<clocks, files, status, last>>

\* HTTP 429: the request is made once more.
RateLimited ==
  /\ cycle.step = "meteo" /\ ~cycle.retried
  /\ cycle' = [cycle EXCEPT !.retried = TRUE]
  /\ UNCHANGED <<clocks, files, status, last>>

MeteoFails ==
  /\ cycle.step = "meteo" /\ cycle.source = Chain[2]
  /\ cycle' = FallBack(Chain[3])
  /\ UNCHANGED <<clocks, files, status, last>>

-----------------------------------------------------------------------------
(* The outcome, and what is noted of it.                                   *)

Note(kind, sources) == [i \in DOMAIN sources |-> [kind |-> kind, source |-> sources[i]]]

Attempted == ToSet(cycle.failed) \cup {cycle.source}

\* The sources that were not tried, in the order of the chain.
IfUntried(s) == IF s \in Attempted THEN <<>> ELSE <<s>>
Untried == IfUntried(Chain[1]) \o IfUntried(Chain[2]) \o IfUntried(Chain[3])

AfterSuccessUncleared == Note("error", cycle.failed) \o Note("success", <<cycle.source>>)

\* The errors of the sources that failed, the success of the one used, and, by
\* the scheduler, no error any more of a source that was not tried.
AfterSuccess ==
  Note("error", cycle.failed) \o Note("success", <<cycle.source>>)
    \o IF cycle.who = "command" THEN <<>> ELSE Note("clear", Untried)

AfterFailure == Note("error", IF cycle.who = "command" THEN <<CommandRow>> ELSE Chain)

Outcome(used, base, refused) ==
  [who |-> cycle.who, used |-> used, failed |-> cycle.failed, from |-> Head(cycle.got \o <<cycle.from>>),
   at |-> now, base |-> base, refused |-> refused, noted |-> TRUE]

Fail(refused) ==
  /\ cycle' = [Waiting EXCEPT !.step = "notes", !.who = cycle.who, !.todo = AfterFailure]
  /\ last' = Outcome("", 0, refused)
  /\ UNCHANGED <<clocks, files, status>>

\* The last source failed too.
AllFail == cycle.step = "meteo" /\ cycle.source = Chain[3] /\ Fail(FALSE)

HoursOf(k) ==
  IF cycle.source = Direct THEN DirectHours(cycle.from) ELSE MeteoHours(cycle.got[k])
Base == LatestHour(HoursOf(1), now)
HasHours == \A k \in 1..Partitions : Needed(Base) \subseteq HoursOf(k)

\* The base is the latest hour of the first partition's weather; a partition
\* without one of the needed hours fails the forecast, and no other source is
\* tried (is_weather_source_error).
Compute ==
  /\ cycle.step = "compute" /\ HasHours
  /\ cycle' = [Waiting EXCEPT !.step = "notes", !.who = cycle.who, !.todo = AfterSuccess]
  /\ last' = Outcome(cycle.source, Base, FALSE)
  /\ UNCHANGED <<clocks, files, status>>

HoursMissing == cycle.step = "compute" /\ ~HasHours /\ Fail(TRUE)

\* The database fails, or a cell lacks its static features.
ComputeFails == cycle.step = "compute" /\ Fail(FALSE)

Noted(n) ==
  [status EXCEPT ![n.source] =
     CASE n.kind = "success" -> [success |-> now, error |-> FALSE]
       [] n.kind = "error" -> [@ EXCEPT !.error = TRUE]
       [] n.kind = "clear" -> [@ EXCEPT !.error = FALSE]]

WriteNote ==
  /\ cycle.step = "notes" /\ cycle.todo # <<>>
  /\ status' = Noted(Head(cycle.todo))
  /\ cycle' = [cycle EXCEPT !.todo = Tail(@)]
  /\ UNCHANGED <<clocks, files, last>>

SourceFault ==
  /\ passed.faults < SourceFaults
  /\ passed' = [passed EXCEPT !.faults = @ + 1]

\* The scheduler goes on with the next note, the command returns.
NoteFails ==
  /\ cycle.step = "notes" /\ cycle.todo # <<>>
  /\ SourceFault
  /\ cycle' = [cycle EXCEPT !.todo = IF cycle.who = "command" THEN <<>> ELSE Tail(@)]
  /\ last' = [last EXCEPT !.noted = FALSE]
  /\ UNCHANGED <<now, due, files, status>>

EndCycle ==
  /\ cycle.step = "notes" /\ cycle.todo = <<>>
  /\ cycle' = Waiting
  /\ UNCHANGED <<clocks, files, status, last>>

\* A success within 55 minutes, as far as whole hours tell.
MayBeFresh == \E s \in ToSet(Chain) : status[s].success # 0 /\ now - status[s].success <= 1

\* The process restarts: a recent forecast is not made again before the next
\* tick.  The files stay, also those being written.
RestartSources ==
  /\ cycle.step # "waiting"
  /\ SourceFault
  /\ due' \in IF cycle.who = "command" THEN {due} ELSE IF MayBeFresh THEN BOOLEAN ELSE {TRUE}
  /\ cycle' = Waiting
  /\ last' = NoOutcome
  /\ UNCHANGED <<now, files, status>>

SourcesNext ==
  \/ PassHour
  \/ BeginTick
  \/ BeginCommand
  \/ SelectRun
  \/ ReadField
  \/ DecodeField
  \/ RenameField
  \/ DirectFails
  \/ FetchPartition
  \/ RateLimited
  \/ MeteoFails
  \/ AllFail
  \/ Compute
  \/ HoursMissing
  \/ ComputeFails
  \/ WriteNote
  \/ NoteFails
  \/ EndCycle
  \/ RestartSources

-----------------------------------------------------------------------------
(* Between two forecasts of the scheduler the status page tells what the   *)
(* last one met: an error is shown of exactly the sources that failed in   *)
(* it, all of them when there is no forecast, and the source used is the   *)
(* first that did not fail, whatever older errors, restarts and commands   *)
(* left behind (poll_forecast, clear_stale_source_error).                  *)
SourcesTruthful ==
  cycle.step = "waiting" /\ last.noted /\ last.who = "scheduler" =>
    /\ \A s \in ToSet(Chain) :
         status[s].error <=> last.used = "" \/ s \in ToSet(last.failed)
    /\ last.used # "" =>
         /\ status[last.used].success >= last.at
         /\ last.failed \o <<last.used>> = SubSeq(Chain, 1, Len(last.failed) + 1)

(* A direct forecast is computed from whole fields of one run, interrupted *)
(* downloads before it notwithstanding, and the run has every step that is *)
(* sampled (materialize_field, select_run, fetch).                         *)
DirectSound ==
  /\ cycle.source = Direct /\ cycle.step = "compute" =>
       cycle.read = [run : {cycle.run}, field : 1..Fields, whole : {TRUE}]
  /\ cycle.step = "fields" =>
       \A v \in DirectHours(cycle.from) :
         LET step == v - cycle.run IN step - 24 >= 0 /\ step <= 144 /\ step % 3 = 0

(* A forecast that has its weather is refused for a missing hour only when *)
(* the clock moved on while the weather came: for the direct source past   *)
(* noon, or past the next hour sampled, four hours later at the earliest;  *)
(* past a full hour for the others.  What is published is less than three  *)
(* hours older than the weather (latest_available_hour, forecast_samples). *)
HoursMissedInTime ==
  /\ last.refused =>
       IF last.failed = <<>>
       THEN Noon(last.at) > Noon(last.from) \/ last.at >= last.from - (last.from % 3) + 6
       ELSE last.at > last.from
  /\ last.base # 0 => last.base <= last.at /\ last.at - last.base < 3 + (last.at - last.from)

(* Both of these: a forecast is made of the weather it was fetched for, and*)
(* of nothing that an interrupted or late download left behind.            *)
AcquisitionSound == DirectSound /\ HoursMissedInTime
=============================================================================
