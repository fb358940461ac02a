---------------------------- MODULE GroundTruth ----------------------------
(***************************************************************************)
(* The ground truth of the BLUE bulletins: an hourly refresh groups the    *)
(* FIRMS detections of a commune into windows of six hours, takes over the *)
(* confirmed ignitions, and compares both with every published bulletin    *)
(* whose period they fall in.  Its statements are calls of their own,      *)
(* between which detections, ignitions and bulletins keep coming; only the *)
(* comparisons of a refresh are one transaction.                           *)
(*                                                                         *)
(* Times are hours.  Detections reach the database in any order.  A        *)
(* bulletin archives a score for every commune and horizon (DailyArchives).*)
(*                                                                         *)
(* An operator defined just before another, with a longer form of its name *)
(* (UpdatedOccurrence, Updated), is that operator with a mistake in it.    *)
(***************************************************************************)
EXTENDS Integers, FiniteSets, FiniteSetsExt

CONSTANTS
  Detections,     \* detections that may come: commune and hour
  Ignitions,      \* confirmed ignitions that may come: commune and hour
  Bulletins,      \* bulletins that may be published: issued, scheduled,
                  \* and the scores by commune and horizon
  Threshold,      \* ALERT_THRESHOLD
  RefreshFaults   \* bound on failed refreshes

\* A bulletin is issued on the day it is scheduled for, and there is one a day.
ASSUME BulletinsAssumption ==
  /\ \A d \in Detections \cup Ignitions : d.hour \in Int
  /\ \A b \in Bulletins : b.issued \in Int /\ b.scheduled \in Int /\ b.scheduled <= b.issued
  /\ \A b, c \in Bulletins : b # c => b.issued < c.scheduled \/ c.issued < b.scheduled

VARIABLES
  detected,     \* public observations of FIRMS
  ignited,      \* active fire.ignition_events
  bulletins,    \* published bulletins
  observed,     \* blue.ground_truth_observations
  matches,      \* blue.ground_truth_matches
  refresh,      \* the refresh in progress, with what it has read
  compared      \* what the last refresh that ended had found

truth == <<detected, ignited, bulletins, observed, matches, refresh, compared>>

NoRefresh == [step |-> "waiting", begun |-> {}, archives |-> {}, observations |-> {}, faults |-> 0]

TruthInit ==
  /\ detected = {} /\ ignited = {} /\ bulletins = {}
  /\ observed = {} /\ matches = {}
  /\ compared = [detections |-> {}, archives |-> {}]
  /\ refresh = NoRefresh

-----------------------------------------------------------------------------
Detect(d) ==
  /\ d \notin detected
  /\ detected' = detected \cup {d}
  /\ UNCHANGED <<ignited, bulletins, observed, matches, refresh, compared>>

Ignite(e) ==
  /\ e \notin ignited
  /\ ignited' = ignited \cup {e}
  /\ UNCHANGED <<detected, bulletins, observed, matches, refresh, compared>>

PublishBulletin(b) ==
  /\ b \notin bulletins
  /\ bulletins' = bulletins \cup {b}
  /\ UNCHANGED <<detected, ignited, observed, matches, refresh, compared>>

Goto_(step) == refresh' = [refresh EXCEPT !.step = step]

Times_(group) == {d.hour : d \in group}
KeyOf(d) == <<d.commune, d.hour \div 6>>
Groups == {{d \in detected : KeyOf(d) = k} : k \in {KeyOf(d) : d \in detected}}

\* The window of a group, as it would be inserted.
Window(group) ==
  LET d == CHOOSE e \in group : TRUE
  IN [class |-> "satellite_signal", key |-> KeyOf(d), commune |-> d.commune,
      occurred |-> Min(Times_(group)), until |-> Max(Times_(group)), count |-> Cardinality(group)]

Known(key) == {o \in observed : o.key = key}

UpdatedOccurrence(o, w) == w

\* ON CONFLICT (observation_key) DO UPDATE: all but the time it occurred.
Updated(o, w) == [w EXCEPT !.occurred = o.occurred]

UpsertWindows ==
  /\ refresh.step = "waiting"
  /\ LET windows == {Window(g) : g \in Groups}
         kept == {o \in observed : \A w \in windows : w.key # o.key}
     IN observed' = kept \cup {w \in windows : Known(w.key) = {}}
                      \cup {Updated(CHOOSE o \in Known(w.key) : TRUE, w) :
                              w \in {v \in windows : Known(v.key) # {}}}
  /\ refresh' = [refresh EXCEPT !.step = "ignitions", !.begun = detected]
  /\ UNCHANGED <<detected, ignited, bulletins, matches, compared>>

\* ON CONFLICT (observation_key) DO NOTHING.
InsertIgnitions ==
  /\ refresh.step = "ignitions"
  /\ observed' = observed \cup
       {[class |-> "confirmed_ignition", key |-> <<e.commune, "ignition", e.hour>>, commune |-> e.commune,
         occurred |-> e.hour, until |-> e.hour, count |-> 1] : e \in ignited}
  /\ Goto_("archives")
  /\ UNCHANGED <<detected, ignited, bulletins, matches, compared>>

ReadArchives ==
  /\ refresh.step = "archives"
  /\ refresh' = [refresh EXCEPT !.step = "observations", !.archives = bulletins]
  /\ UNCHANGED <<detected, ignited, bulletins, observed, matches, compared>>

FirstArchive == CHOOSE b \in refresh.archives : \A c \in refresh.archives : b.scheduled <= c.scheduled

\* Those since the first of the archives was issued.
ReadObservations ==
  /\ refresh.step = "observations"
  /\ refresh' = [refresh EXCEPT !.step = "compare", !.observations =
       IF refresh.archives = {} THEN {}
       ELSE {o \in observed : o.occurred >= FirstArchive.issued}]
  /\ UNCHANGED <<detected, ignited, bulletins, observed, matches, compared>>

Horizons_ == {24, 48}

InPeriod(o, b, h) == o.occurred >= b.issued /\ o.occurred <= b.scheduled + h

Class(o, score) ==
  IF o.class = "confirmed_ignition"
  THEN IF score >= Threshold THEN "confirmed_hit" ELSE "confirmed_miss"
  ELSE IF score >= Threshold THEN "signal_covered" ELSE "signal_below_threshold"

\* A commune that the archive does not know is passed over.
Match(o, b, h) ==
  [class |-> o.class, key |-> o.key, bulletin |-> b.issued, horizon |-> h,
   classification |-> Class(o, b.scores[o.commune][h]), lead |-> o.occurred - b.issued]

Comparable_(observations, archives) ==
  {t \in observations \X archives \X Horizons_ :
     t[1].commune \in DOMAIN t[2].scores /\ InPeriod(t[1], t[2], t[3])}

SameMatch(m, n) == m.key = n.key /\ m.class = n.class /\ m.bulletin = n.bulletin /\ m.horizon = n.horizon

\* ON CONFLICT (observation_id, bulletin_id, horizon) DO NOTHING.
Kept_(new) == matches \cup {m \in new : \A n \in matches : ~SameMatch(m, n)}

\* The comparisons and the row of the refresh are committed together.
CompareAll ==
  /\ refresh.step = "compare"
  /\ matches' = Kept_({Match(t[1], t[2], t[3]) :
                         t \in Comparable_(refresh.observations, refresh.archives)})
  /\ compared' = [detections |-> refresh.begun, archives |-> refresh.archives]
  /\ refresh' = [NoRefresh EXCEPT !.faults = refresh.faults]
  /\ UNCHANGED <<detected, ignited, bulletins, observed>>

\* A statement fails or the process restarts: what was committed stays.
RefreshFails ==
  /\ refresh.step # "waiting" /\ refresh.faults < RefreshFaults
  /\ refresh' = [NoRefresh EXCEPT !.faults = refresh.faults + 1]
  /\ UNCHANGED <<detected, ignited, bulletins, observed, matches, compared>>

TruthNext ==
  \/ \E d \in Detections : Detect(d)
  \/ \E e \in Ignitions : Ignite(e)
  \/ \E b \in Bulletins : PublishBulletin(b)
  \/ UpsertWindows
  \/ InsertIgnitions
  \/ ReadArchives
  \/ ReadObservations
  \/ CompareAll
  \/ RefreshFails

-----------------------------------------------------------------------------
(* The counts of the summary: a signal and a confirmed fire are never      *)
(* counted together (blue_ground_truth_summary).                           *)
Of(classification) == Cardinality({m \in matches : m.classification = classification})

Summary ==
  [observations |-> Cardinality(observed),
   signals |-> Cardinality({o \in observed : o.class = "satellite_signal"}),
   confirmed |-> Cardinality({o \in observed : o.class = "confirmed_ignition"}),
   comparisons |-> Cardinality(matches),
   coverage |-> <<Of("signal_covered"), Of("signal_covered") + Of("signal_below_threshold")>>,
   recall |-> <<Of("confirmed_hit"), Of("confirmed_hit") + Of("confirmed_miss")>>]

-----------------------------------------------------------------------------
(* Whatever came between the statements of a refresh and whichever refresh *)
(* failed: once a refresh has ended, what there was in the detections and  *)
(* bulletins it had read is compared, each window with each bulletin and   *)
(* horizon it falls in; a comparison is about a period that holds its      *)
(* observation, there is one of each, and the rates of the summary count   *)
(* every comparison in the class of its observation                        *)
(* (refresh_blue_ground_truth, blue_ground_truth_summary).                 *)
ComparisonsComplete ==
  /\ \A d \in compared.detections :
       \E o \in observed :
         /\ o.class = "satellite_signal" /\ o.key = KeyOf(d) /\ o.until >= d.hour
         /\ \A b \in compared.archives, h \in Horizons_ :
              o.commune \in DOMAIN b.scores /\ InPeriod(o, b, h) =>
                \E m \in matches : m.key = o.key /\ m.bulletin = b.issued /\ m.horizon = h
  /\ \A m \in matches :
       \E o \in observed, b \in bulletins :
         /\ o.key = m.key /\ o.class = m.class /\ b.issued = m.bulletin
         /\ m.lead = o.occurred - b.issued
         /\ m.lead \in 0..(b.scheduled - b.issued + m.horizon)
  /\ \A m, n \in matches : SameMatch(m, n) => m = n
  /\ Summary.coverage[2] + Summary.recall[2] = Summary.comparisons
  /\ Summary.recall[2] = Cardinality({m \in matches : m.class = "confirmed_ignition"})
=============================================================================
