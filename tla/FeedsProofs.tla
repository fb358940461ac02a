---------------------------- MODULE FeedsProofs ----------------------------
(***************************************************************************)
(* Proofs about what comes in and goes out.  A behaviour of Feeds is one   *)
(* of each of its five parts (EachPart), so each part has an inductive     *)
(* invariant of its own, and its theorems are at the end:                  *)
(*   the weather, for any partitions, fields, hours and faults;            *)
(*   the live stream, for any partitions, boxes, requests and capacity;    *)
(*   the records of fires, for any files, audits and faults;               *)
(*   the ground truth, for any detections, ignitions and bulletins;        *)
(*   the search for evidence, for any listing, pages and answers.          *)
(***************************************************************************)
EXTENDS Feeds, FiniteSetTheorems, SequenceTheorems, WellFoundedInduction, TLAPS

Sources == {Chain[1], Chain[2], Chain[3]}
ForecastSteps == {"waiting", "select", "fields", "rename", "meteo", "compute", "notes"}
Askers == {"scheduler", "command"}
WholeFields == [run : Int, field : Nat, whole : {TRUE}]
Notes == [kind : {"error", "success", "clear"}, source : Sources \cup {CommandRow}]
Cycles ==
  [step : ForecastSteps, who : Askers, source : Sources, from : Nat, run : Int,
   read : SUBSET WholeFields, got : Seq(Nat), retried : BOOLEAN, failed : Seq(Sources),
   todo : Seq(Notes)]
Useds == Sources \cup {""}
Outcomes ==
  [who : Askers, used : Useds, failed : Seq(Sources), from : Nat, at : Nat, base : Int,
   refused : BOOLEAN, noted : BOOLEAN]

SourceTypes ==
  /\ now \in Nat
  /\ cycle \in Cycles
  /\ files \in SUBSET WholeFields
  /\ status \in [Sources \cup {CommandRow} -> [success : Nat, error : BOOLEAN]]
  /\ last \in Outcomes

\* The sources that failed are those before the one that is tried.
InChain(failed, source) ==
  \/ failed = <<>> /\ source = Chain[1]
  \/ failed = <<Chain[1]>> /\ source = Chain[2]
  \/ failed = <<Chain[1], Chain[2]>> /\ source = Chain[3]

TriedInv ==
  /\ cycle.step \notin {"waiting", "notes"} => InChain(cycle.failed, cycle.source)
  /\ cycle.step \in {"select", "fields", "rename"} => cycle.source = Direct
  /\ cycle.step = "meteo" => cycle.source # Direct
  /\ cycle.step = "waiting" => cycle.failed = <<>>

\* The weather came since the forecast was begun, partition by partition.
FetchedInv ==
  /\ cycle.from <= now /\ last.at <= now
  /\ \A k \in 1..Len(cycle.got) : cycle.got[1] <= cycle.got[k] /\ cycle.got[k] <= now
  /\ cycle.source = Direct => cycle.got = <<>>
  /\ cycle.step = "compute" /\ cycle.source # Direct =>
       cycle.got # <<>> /\ Len(cycle.got) = Partitions

\* The fields that were read are the first of the run, whole.
FirstFields(run, n) == [run : {run}, field : 1..n, whole : {TRUE}]
FieldsInv ==
  /\ cycle.step \in {"select", "meteo"} => cycle.read = {}
  /\ cycle.step \in {"fields", "rename"} => \E n \in Nat : cycle.read = FirstFields(cycle.run, n)
  /\ cycle.step = "compute" /\ cycle.source = Direct => cycle.read = FirstFields(cycle.run, Fields)
  /\ cycle.step \in {"fields", "rename"} =>
       \A v \in DirectHours(cycle.from) :
         LET step == v - cycle.run IN step - 24 >= 0 /\ step <= 144 /\ step % 3 = 0

\* What is noted, and is still to be noted, of the last forecast.
Erred(s) == last.used = "" \/ s \in ToSet(last.failed)
Pending(s) == \E n \in ToSet(cycle.todo) : n.source = s
SuccessPending == \E n \in ToSet(cycle.todo) : n.source = last.used /\ n.kind = "success"

LastNoted ==
  /\ \A n \in ToSet(cycle.todo) : n.source \in Sources /\ (n.kind = "error" <=> Erred(n.source))
  /\ \A s \in Sources : Pending(s) \/ (status[s].error <=> Erred(s))
  /\ last.used # "" =>
       /\ SuccessPending \/ status[last.used].success >= last.at
       /\ InChain(last.failed, last.used)

NotesInv ==
  /\ cycle.step = "waiting" => cycle.todo = <<>>
  /\ cycle.step = "notes" => cycle.who = last.who
  /\ cycle.step \notin {"notes", "waiting"} => ~last.noted
  /\ last.noted /\ last.who = "scheduler" => LastNoted

SourcesInv == SourceTypes /\ TriedInv /\ FetchedInv /\ FieldsInv /\ NotesInv /\ HoursMissedInTime

-----------------------------------------------------------------------------
\* Bounded sets of hours have a first and a last.
LEMMA LeastNumber ==
  ASSUME NEW S, S \subseteq Nat, S # {} PROVE \E x \in S : \A y \in S : x <= y
<1> DEFINE R == {rs \in Nat \X Nat : rs[1] < rs[2]}
<1>1. IsWellFoundedOn(R, Nat)
  BY NatLessThanWellFounded DEF OpToRel
<1> HIDE DEF R
<1>2. PICK x \in S : \A y \in S : ~ (<<y, x>> \in R)
  BY <1>1, WFMin
<1>3. ASSUME NEW y \in S PROVE x <= y
  <2>1. x \in Nat /\ y \in Nat /\ <<y, x>> \in Nat \X Nat
    OBVIOUS
  <2>2. ~(y < x)
    BY <1>2, <2>1 DEF R
  <2> QED
    BY <2>1, <2>2
<1> QED
  BY <1>3

LEMMA LastHour ==
  ASSUME NEW S, NEW a \in Int, NEW b \in Int, S \subseteq a..b, S # {}
  PROVE  Max(S) \in S /\ \A y \in S : y <= Max(S)
<1> DEFINE T == {b - x : x \in S}
<1>0. \A x \in S : x \in Int /\ b - x \in Nat
  OBVIOUS
<1>1. T \subseteq Nat /\ T # {}
  BY <1>0
<1>2. PICK t \in T : \A u \in T : t <= u
  BY <1>1, LeastNumber
<1>3. PICK x \in S : t = b - x
  BY <1>2
<1>4. ASSUME NEW y \in S PROVE x >= y
  <2>1. b - x <= b - y
    BY <1>2, <1>3
  <2>2. x \in Int /\ y \in Int
    OBVIOUS
  <2> QED
    BY <2>1, <2>2
<1>5. Max(S) \in S /\ \A y \in S : Max(S) >= y
  BY <1>4 DEF Max
<1> QED
  BY <1>5

LEMMA FirstHour ==
  ASSUME NEW S, NEW a \in Int, NEW b \in Int, S \subseteq a..b, S # {}
  PROVE  Min(S) \in S /\ \A y \in S : Min(S) <= y
<1> DEFINE T == {x - a : x \in S}
<1>0. \A x \in S : x \in Int /\ x - a \in Nat
  OBVIOUS
<1>1. T \subseteq Nat /\ T # {}
  BY <1>0
<1>2. PICK t \in T : \A u \in T : t <= u
  BY <1>1, LeastNumber
<1>3. PICK x \in S : t = x - a
  BY <1>2
<1>4. ASSUME NEW y \in S PROVE x <= y
  <2>1. x - a <= y - a
    BY <1>2, <1>3
  <2>2. x \in Int /\ y \in Int
    OBVIOUS
  <2> QED
    BY <2>1, <2>2
<1> QED
  BY <1>4 DEF Min

\* The hours of a forecast lie between the noon before its base and 48 hours
\* after it.
LEMMA NoonBefore ==
  ASSUME NEW v \in Int
  PROVE  Noon(v) \in Int /\ Noon(v) <= v /\ v < Noon(v) + 24 /\ Noon(v) % 24 = 12
BY DEF Noon

LEMMA NeededHours ==
  ASSUME NEW base \in Int
  PROVE  /\ Needed(base) \subseteq (base - 23)..(base + 48)
         /\ base \in Needed(base)
         /\ \A v \in Needed(base) :
              v \in {base, base + 6, base + 24, base + 48} \/ (v >= Noon(base) /\ v % 24 = 12)
<1>1. /\ Noon(base) \in Int /\ Noon(base) <= base /\ base < Noon(base) + 24
      /\ Noon(base + 48) \in Int /\ Noon(base + 48) <= base + 48
  BY NoonBefore
<1> QED
  BY <1>1 DEF Needed, Noons

LEMMA DirectHoursNeeded ==
  ASSUME NEW h \in Nat
  PROVE  /\ h - (h % 3) \in Int /\ h - (h % 3) <= h /\ h < h - (h % 3) + 3
         /\ (h - (h % 3)) % 3 = 0
         /\ \A v \in DirectHours(h) : v \in Int /\ v % 3 = 0
         /\ DirectHours(h) \subseteq (h - 25)..(h + 48)
         /\ h - (h % 3) \in DirectHours(h)
<1> DEFINE b == h - (h % 3)
<1>1. b \in Int /\ b <= h /\ h < b + 3 /\ b % 3 = 0
  OBVIOUS
<1> HIDE DEF b
<1>2. \A v \in Needed(b) : v \in Int /\ v % 3 = 0
  <2> SUFFICES ASSUME NEW v \in Needed(b) PROVE v \in Int /\ v % 3 = 0
    OBVIOUS
  <2>1. v \in Int
    BY <1>1, NeededHours
  <2>2. CASE v \in {b, b + 6, b + 24, b + 48}
    BY <1>1, <2>2
  <2>3. CASE v % 24 = 12
    BY <2>1, <2>3
  <2> QED
    BY <1>1, <2>1, <2>2, <2>3, NeededHours
<1>3. Needed(b) \subseteq (h - 25)..(h + 48)
  <2>1. Needed(b) \subseteq (b - 23)..(b + 48)
    BY <1>1, NeededHours
  <2>2. (b - 23)..(b + 48) \subseteq (h - 25)..(h + 48)
    BY ONLY <1>1, h \in Nat
  <2> QED
    BY ONLY <2>1, <2>2
<1> QED
  BY <1>1, <1>2, <1>3, NeededHours DEF DirectHours, b

\* The run that is chosen has every step that is sampled, and its day before.
LEMMA RunHasSteps ==
  ASSUME NEW h \in Nat, NEW r \in Candidates(h)
  PROVE  /\ r \in Int
         /\ \A v \in DirectHours(h) :
              LET step == v - r IN step - 24 >= 0 /\ step <= 144 /\ step % 3 = 0
<1> DEFINE D == DirectHours(h)
<1>1. /\ D \subseteq (h - 25)..(h + 48) /\ D # {}
      /\ \A v \in D : v \in Int /\ v % 3 = 0
  BY DirectHoursNeeded
<1>2. h - 25 \in Int /\ h + 48 \in Int
  OBVIOUS
<1> HIDE DEF D
<1>3. Max(D) \in D /\ (\A v \in D : v <= Max(D)) /\ Min(D) \in D /\ \A v \in D : Min(D) <= v
  BY <1>1, <1>2, LastHour, FirstHour
<1>4. Max(D) \in Int /\ Min(D) \in Int
  BY <1>1, <1>3
<1>5. r \in ((Min(D) - 24) \div 24 - 4) * 24..(Min(D) - 24) /\ r % 6 = 0 /\ Max(D) - r <= 144
  BY DEF Candidates, D
<1>6. r \in Int /\ r <= Min(D) - 24 /\ r % 3 = 0
  <2>1. ((Min(D) - 24) \div 24 - 4) * 24 \in Int
    BY <1>4
  <2>2. r \in Int /\ r <= Min(D) - 24
    BY <1>4, <1>5, <2>1
  <2>3. r % 3 = 0
    BY <1>5, <2>2
  <2> QED
    BY <2>2, <2>3
<1>7. ASSUME NEW v \in D PROVE v - r - 24 >= 0 /\ v - r <= 144 /\ (v - r) % 3 = 0
  <2>1. v \in Int /\ v % 3 = 0 /\ v <= Max(D) /\ Min(D) <= v
    BY <1>1, <1>3
  <2> QED
    BY <2>1, <1>4, <1>5, <1>6
<1> QED
  BY <1>6, <1>7 DEF D

\* The latest hour up to a moment.
LEMMA LatestHourIs ==
  ASSUME NEW hours, NEW a \in Int, NEW b \in Int, hours \subseteq a..b, NEW h \in Int,
         NEW v \in hours, v <= h
  PROVE  /\ LatestHour(hours, h) \in hours /\ LatestHour(hours, h) <= h
         /\ \A u \in hours : u <= h => u <= LatestHour(hours, h)
<1> DEFINE S == {u \in hours : u <= h}
<1>1. S \subseteq a..b /\ S # {}
  OBVIOUS
<1>2. Max(S) \in S /\ \A u \in S : u <= Max(S)
  BY <1>1, LastHour
<1> QED
  BY <1>2 DEF LatestHour

\* A direct forecast in time is based on the hour it was sampled for.
LEMMA DirectInTime ==
  ASSUME NEW h \in Nat, NEW n \in Nat, h <= n
  PROVE  LET base == LatestHour(DirectHours(h), n) IN
         /\ base \in Int /\ base <= n /\ h < base + 3
         /\ Noon(n) <= Noon(h) /\ n < h - (h % 3) + 6 => Needed(base) = DirectHours(h)
<1> DEFINE b == h - (h % 3)
           base == LatestHour(DirectHours(h), n)
<1>1. /\ b \in Int /\ b <= h /\ h < b + 3 /\ b % 3 = 0 /\ b \in DirectHours(h)
      /\ DirectHours(h) \subseteq (h - 25)..(h + 48) /\ DirectHours(h) = Needed(b)
  BY DirectHoursNeeded DEF DirectHours
<1>2. base \in DirectHours(h) /\ base <= n /\ b <= base
  <2> DEFINE hours == DirectHours(h)
             lo == h - 25
             hi == h + 48
  <2>1. lo \in Int /\ hi \in Int /\ hours \subseteq lo..hi /\ b \in hours /\ b <= n /\ n \in Int
    BY <1>1
  <2> HIDE DEF b, hours, lo, hi
  <2>2. /\ LatestHour(hours, n) \in hours /\ LatestHour(hours, n) <= n
        /\ b <= LatestHour(hours, n)
    BY <2>1, LatestHourIs
  <2> QED
    BY <2>2 DEF hours
<1> HIDE DEF b, base
<1>3. base \in Int
  BY <1>1, <1>2
<1>4. ASSUME Noon(n) <= Noon(h), n < b + 6 PROVE base = b
  <2>1. base = b \/ base >= b + 6 \/ base % 24 = 12
    <3>1. base \in {b, b + 6, b + 24, b + 48} \/ base % 24 = 12
      BY <1>1, <1>2, NeededHours
    <3> QED
      BY <1>1, <1>3, <3>1
  <2>2. base < b + 6
    BY <1>1, <1>2, <1>3, <1>4
  <2>3. CASE base % 24 = 12
    <3>1. /\ Noon(n) \in Int /\ Noon(n) <= n /\ n < Noon(n) + 24 /\ Noon(n) % 24 = 12
          /\ Noon(h) \in Int /\ Noon(h) <= h /\ Noon(h) % 24 = 12
      BY NoonBefore
    <3>2. base <= Noon(n)
      BY <1>2, <1>3, <2>3, <3>1
    <3>3. Noon(h) <= b
      BY <1>1, <3>1
    <3> QED
      BY <1>1, <1>2, <1>3, <1>4, <3>1, <3>2, <3>3
  <2> QED
    BY <1>1, <1>3, <2>1, <2>2, <2>3
<1> QED
  BY <1>1, <1>2, <1>3, <1>4 DEF base, b

\* So is a partition of Open-Meteo, within the hour.
LEMMA MeteoInTime ==
  ASSUME NEW t \in Nat, NEW n \in Nat, t <= n
  PROVE  LET base == LatestHour(MeteoHours(t), n) IN
         /\ base \in Int /\ base <= n /\ t <= base
         /\ n = t => Needed(base) \subseteq MeteoHours(t)
<1> DEFINE base == LatestHour(MeteoHours(t), n)
<1>1. base \in MeteoHours(t) /\ base <= n /\ t <= base
  <2>1. MeteoHours(t) \subseteq (t - 24)..(t + 48) /\ t \in MeteoHours(t) /\ t - 24 \in Int /\ t + 48 \in Int
    BY DEF MeteoHours
  <2> QED
    BY <2>1, LatestHourIs
<1> HIDE DEF base
<1>2. base \in Int
  BY <1>1 DEF MeteoHours
<1>3. n = t => Needed(base) \subseteq MeteoHours(t)
  <2>1. Needed(base) \subseteq (base - 23)..(base + 48)
    BY <1>2, NeededHours
  <2> QED
    BY <1>1, <1>2, <2>1 DEF MeteoHours
<1> QED
  BY <1>1, <1>2, <1>3 DEF base

-----------------------------------------------------------------------------
\* The fields that are read in order.
LEMMA RunFields ==
  ASSUME NEW run, NEW n, NEW x
  PROVE  x \in FirstFields(run, n) <=>
           x = [run |-> run, field |-> x.field, whole |-> TRUE] /\ x.field \in 1..n
<1>1. ASSUME x \in FirstFields(run, n)
      PROVE  x = [run |-> run, field |-> x.field, whole |-> TRUE] /\ x.field \in 1..n
  <2>1. /\ x = [run |-> x.run, field |-> x.field, whole |-> x.whole]
        /\ x.run = run /\ x.whole = TRUE /\ x.field \in 1..n
    BY <1>1 DEF FirstFields
  <2> QED
    BY <2>1
<1>2. ASSUME NEW k \in 1..n PROVE [run |-> run, field |-> k, whole |-> TRUE] \in FirstFields(run, n)
  BY <1>2 DEF FirstFields
<1> QED
  BY <1>1, <1>2

LEMMA FirstFieldsCount ==
  ASSUME NEW run, NEW n \in Nat
  PROVE  IsFiniteSet(FirstFields(run, n)) /\ Cardinality(FirstFields(run, n)) = n
<1> DEFINE F == FirstFields(run, n)
           f == [k \in 1..n |-> [run |-> run, field |-> k, whole |-> TRUE]]
<1>1. f \in Bijection(1..n, F)
  <2>1. \A k \in 1..n : f[k] \in F /\ f[k].field = k
    BY DEF FirstFields
  <2>2. f \in Injection(1..n, F)
    BY <2>1 DEF Injection, IsInjective
  <2>3. ASSUME NEW x \in F PROVE x.field \in 1..n /\ f[x.field] = x
    BY RunFields
  <2>4. f \in Surjection(1..n, F)
    BY <2>1, <2>3 DEF Surjection
  <2> QED
    BY <2>2, <2>4 DEF Bijection
<1>2. IsFiniteSet(1..n) /\ Cardinality(1..n) = n
  BY FS_Interval
<1>3. ExistsBijection(1..n, F)
  BY <1>1 DEF ExistsBijection
<1> HIDE DEF F
<1>4. IsFiniteSet(F) /\ Cardinality(F) = n
  BY <1>2, <1>3, FS_Bijection
<1> QED
  BY <1>4 DEF F

LEMMA NextFieldRead ==
  ASSUME NEW run, NEW n \in Nat, NEW f \in WholeFields, f.run = run, f.field = n + 1
  PROVE  FirstFields(run, n) \cup {f} = FirstFields(run, n + 1)
<1>1. f = [run |-> run, field |-> f.field, whole |-> TRUE]
  <2>1. f = [run |-> f.run, field |-> f.field, whole |-> f.whole] /\ f.whole = TRUE
    BY DEF WholeFields
  <2> QED
    BY <2>1
<1>2. 1..(n + 1) = 1..n \cup {n + 1}
  OBVIOUS
<1>3. ASSUME NEW x PROVE x \in FirstFields(run, n + 1) <=> x \in FirstFields(run, n) \cup {f}
  <2>1. x \in FirstFields(run, n + 1) <=>
          x = [run |-> run, field |-> x.field, whole |-> TRUE] /\ x.field \in 1..(n + 1)
    BY RunFields
  <2>2. x \in FirstFields(run, n) <=>
          x = [run |-> run, field |-> x.field, whole |-> TRUE] /\ x.field \in 1..n
    BY RunFields
  <2> QED
    BY <1>1, <1>2, <2>1, <2>2
<1> QED
  BY <1>3

-----------------------------------------------------------------------------
(* The steps of a forecast.                                                *)

LEMMA SourceNames ==
  /\ Chain = <<Chain[1], Chain[2], Chain[3]>> /\ Len(Chain) = 3 /\ Direct = Chain[1]
  /\ Chain[1] # Chain[2] /\ Chain[1] # Chain[3] /\ Chain[2] # Chain[3]
  /\ CommandRow \notin Sources /\ "" \notin Sources
BY DEF Chain, Direct, CommandRow, Sources

LEMMA NoOutcomeYet == NoOutcome \in Outcomes
<1>1. <<>> \in Seq(Sources)
  OBVIOUS
<1> QED
  BY <1>1 DEF NoOutcome, Outcomes, Useds, Askers

\* Before its outcome, a forecast leaves the notes alone.
LEMMA Underway ==
  ASSUME SourcesInv, ~last.noted, last' = last, now' = now, cycle'.step \notin {"waiting", "notes"}
  PROVE  NotesInv' /\ HoursMissedInTime'
<1>1. NotesInv'
  BY DEF SourcesInv, NotesInv
<1>2. HoursMissedInTime'
  BY DEF SourcesInv, HoursMissedInTime
<1> QED
  BY <1>1, <1>2

LEMMA HourStep == ASSUME SourcesInv, PassHour PROVE SourcesInv'
<1>1. now' = now + 1 /\ now \in Nat /\ UNCHANGED <<cycle, files, status, last>> /\ cycle.from \in Nat
      /\ last.at \in Nat /\ cycle.got \in Seq(Nat)
  BY DEF SourcesInv, SourceTypes, PassHour, Cycles, Outcomes
<1>2. SourceTypes' /\ TriedInv' /\ FieldsInv' /\ HoursMissedInTime'
  BY <1>1 DEF SourcesInv, SourceTypes, TriedInv, FieldsInv, HoursMissedInTime
<1>3. FetchedInv'
  BY <1>1 DEF SourcesInv, FetchedInv
<1>4. NotesInv'
  <2>1. LastNoted' <=> LastNoted
    BY <1>1 DEF LastNoted, Erred, Pending, SuccessPending
  <2> QED
    BY <1>1, <2>1 DEF SourcesInv, NotesInv
<1> QED
  BY <1>2, <1>3, <1>4 DEF SourcesInv

LEMMA BeginStep ==
  ASSUME SourcesInv, NEW who \in Askers, BeginForecast(who), UNCHANGED now
  PROVE  SourcesInv'
<1>1. /\ cycle' = [Waiting EXCEPT !.step = "select", !.who = who, !.from = now]
      /\ last' = NoOutcome /\ now \in Nat
  BY DEF BeginForecast, SourcesInv, SourceTypes
<1>2. /\ cycle' \in Cycles /\ cycle'.step = "select" /\ cycle'.source = Direct /\ cycle'.failed = <<>>
      /\ cycle'.from = now /\ cycle'.got = <<>> /\ cycle'.read = {}
  <2>1. /\ "select" \in ForecastSteps /\ Direct \in Sources /\ <<>> \in Seq(Sources) /\ <<>> \in Seq(Notes)
        /\ now \in Nat
    BY <1>1 DEF ForecastSteps, Sources, Direct
  <2>2. cycle' = [step |-> "select", who |-> who, source |-> Direct, from |-> now, run |-> 0, read |-> {},
                    got |-> <<>>, retried |-> FALSE, failed |-> <<>>, todo |-> <<>>]
    BY <1>1 DEF Waiting
  <2> QED
    BY <2>1, <2>2 DEF Cycles
<1>3. last' \in Outcomes /\ ~last'.noted /\ ~last'.refused /\ last'.base = 0 /\ last'.at = 0
  BY <1>1, NoOutcomeYet DEF NoOutcome
<1>4. SourceTypes'
  BY <1>2, <1>3 DEF SourcesInv, SourceTypes, BeginForecast
<1>5. TriedInv' /\ FetchedInv' /\ FieldsInv'
  BY <1>1, <1>2, <1>3 DEF TriedInv, FetchedInv, FieldsInv, InChain, Direct
<1>6. NotesInv' /\ HoursMissedInTime'
  BY <1>1, <1>2, <1>3 DEF NotesInv, HoursMissedInTime
<1> QED
  BY <1>4, <1>5, <1>6 DEF SourcesInv

\* A step of the direct download.
LEMMA SelectStep == ASSUME SourcesInv, SelectRun PROVE SourcesInv'
<1>1. PICK r \in Candidates(cycle.from) : cycle' = [cycle EXCEPT !.step = "fields", !.run = r]
  BY DEF SelectRun
<1>2. /\ cycle \in Cycles /\ cycle.step = "select" /\ cycle.from \in Nat
      /\ UNCHANGED <<now, files, status, last>>
  BY DEF SelectRun, SourcesInv, SourceTypes, Cycles, clocks
<1>3. r \in Int /\ \A v \in DirectHours(cycle.from) :
        LET step == v - r IN step - 24 >= 0 /\ step <= 144 /\ step % 3 = 0
  BY <1>2, RunHasSteps
<1>4. /\ cycle' \in Cycles /\ cycle'.step = "fields" /\ cycle'.run = r
      /\ \A x \in {"source", "failed", "from", "got", "read"} : cycle'[x] = cycle[x]
  BY <1>1, <1>2, <1>3 DEF Cycles, ForecastSteps
<1>5. /\ cycle'.source = cycle.source /\ cycle'.failed = cycle.failed /\ cycle'.from = cycle.from
      /\ cycle'.got = cycle.got /\ cycle'.read = cycle.read
  BY <1>1, <1>2 DEF Cycles
<1>6. SourceTypes' /\ TriedInv' /\ FetchedInv'
  BY <1>2, <1>4, <1>5 DEF SourcesInv, SourceTypes, TriedInv, FetchedInv
<1>7. cycle.read = FirstFields(r, 0)
  <2>1. FirstFields(r, 0) = {}
    BY FirstFieldsCount, FS_EmptySet
  <2> QED
    BY <1>2, <2>1 DEF SourcesInv, FieldsInv
<1>8. FieldsInv'
  BY <1>3, <1>4, <1>5, <1>7 DEF FieldsInv
<1>9. NotesInv' /\ HoursMissedInTime'
  BY <1>2, <1>4, Underway DEF SourcesInv, NotesInv
<1> QED
  BY <1>6, <1>8, <1>9 DEF SourcesInv

LEMMA FieldStep ==
  ASSUME SourcesInv, cycle.step \in {"fields", "rename"}, NEW f \in WholeFields,
         f.run = cycle.run, f.field = NextField, cycle' = WithField(f),
         files' \in SUBSET WholeFields, UNCHANGED <<now, status, last>>
  PROVE  SourcesInv'
<1>1. cycle \in Cycles /\ cycle.source = Direct
  BY DEF SourcesInv, SourceTypes, TriedInv
<1>2. PICK n \in Nat : cycle.read = FirstFields(cycle.run, n)
  BY DEF SourcesInv, FieldsInv
<1>3. NextField = n + 1 /\ cycle.read \cup {f} = FirstFields(cycle.run, n + 1)
  <2>1. NextField = n + 1
    BY <1>2, FirstFieldsCount DEF NextField
  <2> QED
    BY <1>2, <2>1, NextFieldRead
<1>4. /\ cycle'.step = (IF NextField = Fields THEN "compute" ELSE "fields")
      /\ cycle'.read = cycle.read \cup {f}
      /\ cycle'.source = cycle.source /\ cycle'.failed = cycle.failed /\ cycle'.from = cycle.from
      /\ cycle'.got = cycle.got /\ cycle'.run = cycle.run
      /\ cycle' \in Cycles
  BY <1>1 DEF WithField, Cycles, ForecastSteps
<1>5. SourceTypes' /\ TriedInv' /\ FetchedInv'
  BY <1>1, <1>4 DEF SourcesInv, SourceTypes, TriedInv, FetchedInv
<1>6. FieldsInv'
  <2>1. n + 1 \in Nat
    OBVIOUS
  <2> QED
    BY <1>2, <1>3, <1>4, <2>1 DEF SourcesInv, FieldsInv
<1>7. NotesInv' /\ HoursMissedInTime'
  BY <1>4, Underway DEF SourcesInv, NotesInv
<1> QED
  BY <1>5, <1>6, <1>7 DEF SourcesInv

LEMMA ReadStep == ASSUME SourcesInv, ReadField PROVE SourcesInv'
<1>1. PICK f \in files : f.run = cycle.run /\ f.field = NextField /\ cycle' = WithField(f)
  BY DEF ReadField, Cached
<1>2. f \in WholeFields /\ files' \in SUBSET WholeFields /\ UNCHANGED <<now, status, last>>
  BY DEF SourcesInv, SourceTypes, ReadField, clocks
<1> QED
  BY <1>1, <1>2, FieldStep DEF ReadField

LEMMA DecodeStep == ASSUME SourcesInv, DecodeField PROVE SourcesInv'
<1>1. /\ cycle \in Cycles /\ cycle.step = "fields" /\ cycle' = [cycle EXCEPT !.step = "rename"]
      /\ UNCHANGED <<now, files, status, last>>
  BY DEF DecodeField, Written, SourcesInv, SourceTypes, clocks
<1>2. /\ cycle' \in Cycles /\ cycle'.step = "rename" /\ cycle'.read = cycle.read
      /\ cycle'.source = cycle.source /\ cycle'.failed = cycle.failed /\ cycle'.from = cycle.from
      /\ cycle'.got = cycle.got /\ cycle'.run = cycle.run
  BY <1>1 DEF Cycles, ForecastSteps
<1>3. SourceTypes' /\ TriedInv' /\ FetchedInv' /\ FieldsInv'
  BY <1>1, <1>2 DEF SourcesInv, SourceTypes, TriedInv, FetchedInv, FieldsInv
<1>4. NotesInv' /\ HoursMissedInTime'
  BY <1>1, <1>2, Underway DEF SourcesInv, NotesInv
<1> QED
  BY <1>3, <1>4 DEF SourcesInv

LEMMA RenameStep == ASSUME SourcesInv, RenameField PROVE SourcesInv'
<1> DEFINE f == [run |-> cycle.run, field |-> NextField, whole |-> TRUE]
<1>1. /\ cycle.step = "rename" /\ cycle' = WithField(f) /\ files' = (files \ Cached) \cup {f}
      /\ UNCHANGED <<now, status, last>>
  BY DEF RenameField, clocks
<1>2. NextField \in Nat
  <2>1. PICK n \in Nat : cycle.read = FirstFields(cycle.run, n)
    BY <1>1 DEF SourcesInv, FieldsInv
  <2> QED
    BY <2>1, FirstFieldsCount DEF NextField
<1>3. f \in WholeFields /\ f.run = cycle.run /\ f.field = NextField
  BY <1>2 DEF WholeFields, SourcesInv, SourceTypes, Cycles
<1>4. files' \in SUBSET WholeFields
  BY <1>1, <1>3 DEF SourcesInv, SourceTypes
<1> QED
  BY <1>1, <1>3, <1>4, FieldStep

LEMMA AppendedToOne == ASSUME NEW x, NEW y PROVE Append(<<x>>, y) = <<x, y>>
<1>1. /\ <<x>> \in Seq({x, y}) /\ y \in {x, y} /\ <<x, y>> \in Seq({x, y})
      /\ Len(<<x>>) = 1 /\ Len(<<x, y>>) = 2
  OBVIOUS
<1>2. /\ Append(<<x>>, y) \in Seq({x, y}) /\ Len(Append(<<x>>, y)) = 2
      /\ Append(<<x>>, y)[1] = x /\ Append(<<x>>, y)[2] = y
  BY <1>1, AppendProperties
<1>3. \A i \in 1..2 : Append(<<x>>, y)[i] = <<x, y>>[i]
  BY <1>2
<1> QED
  BY <1>1, <1>2, <1>3, SeqEqual

\* A step that waits for the weather of Open-Meteo.
LEMMA FallBackStep ==
  ASSUME SourcesInv, NEW source \in Sources, cycle.step \in {"select", "fields", "rename", "meteo"},
         cycle' = FallBack(source), UNCHANGED <<now, files, status, last>>,
         source # Direct, InChain(Append(cycle.failed, cycle.source), source)
  PROVE  SourcesInv'
<1>1. cycle \in Cycles
  BY DEF SourcesInv, SourceTypes
<1>2. Append(cycle.failed, cycle.source) \in Seq(Sources)
  BY <1>1 DEF Cycles
<1>3. cycle' = [step |-> "meteo", who |-> cycle.who, source |-> source, from |-> 0, run |-> 0, read |-> {},
                got |-> <<>>, retried |-> FALSE, failed |-> Append(cycle.failed, cycle.source), todo |-> <<>>]
  BY DEF FallBack, Waiting
<1>4. /\ "meteo" \in ForecastSteps /\ cycle.who \in Askers /\ <<>> \in Seq(Nat) /\ <<>> \in Seq(Notes)
      /\ now \in Nat
  BY <1>1 DEF Cycles, ForecastSteps, SourcesInv, SourceTypes
<1>5. /\ cycle' \in Cycles /\ cycle'.step = "meteo" /\ cycle'.source = source /\ cycle'.from = 0
      /\ cycle'.failed = Append(cycle.failed, cycle.source) /\ cycle'.got = <<>> /\ cycle'.read = {}
  BY <1>2, <1>3, <1>4 DEF Cycles
<1>6. SourceTypes' /\ TriedInv' /\ FetchedInv' /\ FieldsInv'
  BY <1>4, <1>5 DEF SourcesInv, SourceTypes, TriedInv, FetchedInv, FieldsInv
<1>7. NotesInv' /\ HoursMissedInTime'
  BY <1>5, Underway DEF SourcesInv, NotesInv
<1> QED
  BY <1>6, <1>7 DEF SourcesInv

LEMMA DirectFailsStep == ASSUME SourcesInv, DirectFails PROVE SourcesInv'
<1>1. InChain(Append(cycle.failed, cycle.source), Chain[2])
  <2>1. cycle.failed = <<>> /\ cycle.source = Chain[1]
    BY SourceNames DEF DirectFails, SourcesInv, TriedInv, InChain
  <2> QED
    BY <2>1 DEF InChain
<1>2. Chain[2] \in Sources /\ Chain[2] # Direct
  BY SourceNames DEF Sources
<1> QED
  BY <1>1, <1>2, FallBackStep DEF DirectFails, clocks

LEMMA MeteoFailsStep == ASSUME SourcesInv, MeteoFails PROVE SourcesInv'
<1>1. InChain(Append(cycle.failed, cycle.source), Chain[3])
  <2>1. cycle.failed = <<Chain[1]>> /\ cycle.source = Chain[2]
    BY SourceNames DEF MeteoFails, SourcesInv, TriedInv, InChain
  <2>2. Append(<<Chain[1]>>, Chain[2]) = <<Chain[1], Chain[2]>>
    BY AppendedToOne
  <2> QED
    BY <2>1, <2>2 DEF InChain
<1>2. Chain[3] \in Sources /\ Chain[3] # Direct
  BY SourceNames DEF Sources
<1> QED
  BY <1>1, <1>2, FallBackStep DEF MeteoFails, clocks

LEMMA RateLimitedStep == ASSUME SourcesInv, RateLimited PROVE SourcesInv'
<1>1. /\ cycle \in Cycles /\ cycle.step = "meteo" /\ cycle' = [cycle EXCEPT !.retried = TRUE]
      /\ UNCHANGED <<now, files, status, last>>
  BY DEF RateLimited, SourcesInv, SourceTypes, clocks
<1>2. /\ cycle' \in Cycles /\ cycle'.step = "meteo" /\ cycle'.read = cycle.read
      /\ cycle'.source = cycle.source /\ cycle'.failed = cycle.failed /\ cycle'.from = cycle.from
      /\ cycle'.got = cycle.got
  BY <1>1 DEF Cycles
<1>3. SourceTypes' /\ TriedInv' /\ FetchedInv' /\ FieldsInv'
  BY <1>1, <1>2 DEF SourcesInv, SourceTypes, TriedInv, FetchedInv, FieldsInv
<1>4. NotesInv' /\ HoursMissedInTime'
  BY <1>1, <1>2, Underway DEF SourcesInv, NotesInv
<1> QED
  BY <1>3, <1>4 DEF SourcesInv

LEMMA FetchStep == ASSUME SourcesInv, FetchPartition PROVE SourcesInv'
<1>1. /\ cycle \in Cycles /\ cycle.step = "meteo" /\ cycle.source # Direct /\ now \in Nat
      /\ UNCHANGED <<now, files, status, last>>
      /\ cycle' = [cycle EXCEPT !.got = Append(cycle.got, now), !.retried = FALSE,
                      !.step = IF Len(cycle.got) + 1 = Partitions THEN "compute" ELSE "meteo"]
  BY DEF FetchPartition, SourcesInv, SourceTypes, TriedInv, clocks
<1>2. /\ Append(cycle.got, now) \in Seq(Nat) /\ Len(Append(cycle.got, now)) = Len(cycle.got) + 1
      /\ cycle.got \in Seq(Nat)
  BY <1>1 DEF Cycles
<1>3. /\ cycle' \in Cycles /\ cycle'.source = cycle.source /\ cycle'.failed = cycle.failed
      /\ cycle'.from = cycle.from /\ cycle'.got = Append(cycle.got, now) /\ cycle'.read = cycle.read
      /\ cycle'.step = IF Len(cycle.got) + 1 = Partitions THEN "compute" ELSE "meteo"
  BY <1>1, <1>2 DEF Cycles, ForecastSteps
<1>4. SourceTypes' /\ TriedInv' /\ FieldsInv'
  BY <1>1, <1>3 DEF SourcesInv, SourceTypes, TriedInv, FieldsInv
<1>5. FetchedInv'
  <2>1. \A k \in 1..Len(cycle.got) : cycle.got[1] <= cycle.got[k] /\ cycle.got[k] <= now
    BY DEF SourcesInv, FetchedInv
  <2> DEFINE got == Append(cycle.got, now)
  <2>2. \A k \in 1..Len(got) : got[1] <= got[k] /\ got[k] <= now
    BY <1>1, <1>2, <2>1
  <2>3. got # <<>>
    BY <1>2
  <2> QED
    BY <1>1, <1>2, <1>3, <2>2, <2>3 DEF SourcesInv, FetchedInv
<1>6. NotesInv' /\ HoursMissedInTime'
  BY <1>1, <1>3, Underway DEF SourcesInv, NotesInv
<1> QED
  BY <1>4, <1>5, <1>6 DEF SourcesInv

-----------------------------------------------------------------------------
(* The outcome.                                                            *)

LEMMA OneItem == ASSUME NEW x PROVE ToSet(<<x>>) = {x}
BY DEF ToSet

LEMMA TwoItems == ASSUME NEW x, NEW y PROVE ToSet(<<x, y>>) = {x, y}
BY DEF ToSet

LEMMA ThreeItems == ASSUME NEW x, NEW y, NEW z PROVE ToSet(<<x, y, z>>) = {x, y, z}
BY DEF ToSet

LEMMA NoItems == ToSet(<<>>) = {}
BY DEF ToSet

LEMMA JoinedItems ==
  ASSUME NEW S, NEW s \in Seq(S), NEW t \in Seq(S)
  PROVE  s \o t \in Seq(S) /\ ToSet(s \o t) = ToSet(s) \cup ToSet(t)
<1>1. /\ s \o t \in Seq(S) /\ Len(s \o t) = Len(s) + Len(t) /\ Len(s) \in Nat /\ Len(t) \in Nat
      /\ \A i \in 1..(Len(s) + Len(t)) : (s \o t)[i] = IF i <= Len(s) THEN s[i] ELSE t[i - Len(s)]
  BY ConcatProperties
<1>2. DOMAIN s = 1..Len(s) /\ DOMAIN t = 1..Len(t) /\ DOMAIN (s \o t) = 1..(Len(s) + Len(t))
  BY <1>1
<1> DEFINE j == s \o t
<1>3. /\ DOMAIN j = 1..(Len(s) + Len(t))
      /\ \A i \in DOMAIN j : j[i] = IF i <= Len(s) THEN s[i] ELSE t[i - Len(s)]
  BY <1>1, <1>2
<1> HIDE DEF j
<1>4. ASSUME NEW x \in ToSet(j) PROVE x \in ToSet(s) \cup ToSet(t)
  <2>1. PICK i \in DOMAIN j : x = j[i]
    BY <1>4 DEF ToSet
  <2>2. CASE i <= Len(s)
    BY <1>1, <1>2, <1>3, <2>1, <2>2 DEF ToSet
  <2>3. CASE ~(i <= Len(s))
    <3>1. i - Len(s) \in 1..Len(t) /\ x = t[i - Len(s)]
      BY <1>1, <1>3, <2>1, <2>3
    <3> QED
      BY <1>2, <3>1 DEF ToSet
  <2> QED
    BY <2>2, <2>3
<1>5. ASSUME NEW x \in ToSet(s) PROVE x \in ToSet(j)
  <2>1. PICK i \in 1..Len(s) : x = s[i]
    BY <1>2, <1>5 DEF ToSet
  <2>2. i \in DOMAIN j /\ j[i] = x
    BY <1>1, <1>3, <2>1
  <2> QED
    BY <2>2 DEF ToSet
<1>6. ASSUME NEW x \in ToSet(t) PROVE x \in ToSet(j)
  <2>1. PICK i \in 1..Len(t) : x = t[i]
    BY <1>2, <1>6 DEF ToSet
  <2>2. i + Len(s) \in DOMAIN j /\ j[i + Len(s)] = t[i]
    BY <1>1, <1>3, <2>1
  <2> QED
    BY <2>1, <2>2 DEF ToSet
<1> QED
  BY <1>1, <1>4, <1>5, <1>6 DEF j

LEMMA NoteItems ==
  ASSUME NEW kind \in {"error", "success", "clear"}, NEW s \in Seq(Sources \cup {CommandRow})
  PROVE  /\ Note(kind, s) \in Seq(Notes)
         /\ \A n : n \in ToSet(Note(kind, s)) <=>
                    \E x \in ToSet(s) : n = [kind |-> kind, source |-> x]
<1>1. Len(s) \in Nat /\ DOMAIN s = 1..Len(s) /\ \A i \in 1..Len(s) : s[i] \in Sources \cup {CommandRow}
  OBVIOUS
<1>2. Note(kind, s) \in [1..Len(s) -> Notes]
  BY <1>1 DEF Note, Notes
<1>3. Note(kind, s) \in Seq(Notes)
  BY <1>1, <1>2
<1>4. DOMAIN Note(kind, s) = DOMAIN s /\ \A i \in DOMAIN s : Note(kind, s)[i] = [kind |-> kind, source |-> s[i]]
  BY DEF Note
<1> QED
  BY <1>3, <1>4 DEF ToSet

LEMMA UntriedItems ==
  ASSUME cycle \in Cycles PROVE Untried \in Seq(Sources) /\ ToSet(Untried) = Sources \ Attempted
<1>1. ASSUME NEW s \in Sources
      PROVE  IfUntried(s) \in Seq(Sources) /\ ToSet(IfUntried(s)) = {s} \ Attempted
  BY OneItem, NoItems DEF IfUntried
<1>2. Chain[1] \in Sources /\ Chain[2] \in Sources /\ Chain[3] \in Sources
  BY DEF Sources
<1>a. PICK a \in Seq(Sources) : a = IfUntried(Chain[1]) /\ ToSet(a) = {Chain[1]} \ Attempted
  BY <1>1, <1>2
<1>b. PICK b \in Seq(Sources) : b = IfUntried(Chain[2]) /\ ToSet(b) = {Chain[2]} \ Attempted
  BY <1>1, <1>2
<1>c. PICK c \in Seq(Sources) : c = IfUntried(Chain[3]) /\ ToSet(c) = {Chain[3]} \ Attempted
  BY <1>1, <1>2
<1>3. Untried = (a \o b) \o c
  BY <1>a, <1>b, <1>c DEF Untried
<1>4. PICK d \in Seq(Sources) : d = a \o b /\ ToSet(d) = ToSet(a) \cup ToSet(b)
  <2>1. a \o b \in Seq(Sources) /\ ToSet(a \o b) = ToSet(a) \cup ToSet(b)
    BY ONLY JoinedItems
  <2> QED
    BY ONLY <2>1
<1>5. d \o c \in Seq(Sources) /\ ToSet(d \o c) = ToSet(d) \cup ToSet(c)
  BY JoinedItems
<1> QED
  BY <1>a, <1>b, <1>c, <1>3, <1>4, <1>5 DEF Sources

\* The notes of a forecast: an error of each source that failed, a success of
\* the one used, and by the scheduler something of each source.
LEMMA SuccessNotes ==
  ASSUME cycle \in Cycles, InChain(cycle.failed, cycle.source)
  PROVE  /\ AfterSuccess \in Seq(Notes)
         /\ \A n \in ToSet(AfterSuccess) :
              n.source \in Sources /\ (n.kind = "error" <=> n.source \in ToSet(cycle.failed))
         /\ \E n \in ToSet(AfterSuccess) : n.source = cycle.source /\ n.kind = "success"
         /\ cycle.who = "scheduler" => \A s \in Sources : \E n \in ToSet(AfterSuccess) : n.source = s
<1> DEFINE errors == Note("error", cycle.failed)
           success == Note("success", <<cycle.source>>)
           rest == IF cycle.who = "command" THEN <<>> ELSE Note("clear", Untried)
<1>1. cycle.failed \in Seq(Sources) /\ cycle.source \in Sources /\ ToSet(cycle.failed) \subseteq Sources
  BY DEF Cycles, ToSet
<1>2. cycle.source \notin ToSet(cycle.failed)
  <2>1. ToSet(<<Chain[1]>>) = {Chain[1]} /\ ToSet(<<Chain[1], Chain[2]>>) = {Chain[1], Chain[2]}
    BY OneItem, TwoItems
  <2> QED
    BY <2>1, NoItems, SourceNames DEF InChain
<1>3. /\ errors \in Seq(Notes)
      /\ \A n : n \in ToSet(errors) <=>
                 \E x \in ToSet(cycle.failed) : n = [kind |-> "error", source |-> x]
  <2>1. cycle.failed \in Seq(Sources \cup {CommandRow})
    BY <1>1
  <2> QED
    BY <2>1, NoteItems
<1>4. /\ success \in Seq(Notes)
      /\ \A n : n \in ToSet(success) <=> n = [kind |-> "success", source |-> cycle.source]
  <2>1. PICK s \in Seq(Sources \cup {CommandRow}) : s = <<cycle.source>> /\ ToSet(s) = {cycle.source}
    <3>1. <<cycle.source>> \in Seq(Sources \cup {CommandRow})
      BY <1>1
    <3> QED
      BY <3>1, OneItem
  <2>2. /\ Note("success", s) \in Seq(Notes)
        /\ \A n : n \in ToSet(Note("success", s)) <=> \E x \in ToSet(s) : n = [kind |-> "success", source |-> x]
    BY NoteItems
  <2> QED
    BY <2>1, <2>2
<1>5. /\ rest \in Seq(Notes)
      /\ \A n : n \in ToSet(rest) <=>
             cycle.who # "command" /\ \E x \in Sources \ Attempted : n = [kind |-> "clear", source |-> x]
  <2>1. Untried \in Seq(Sources \cup {CommandRow}) /\ ToSet(Untried) = Sources \ Attempted
    BY UntriedItems
  <2>2. /\ Note("clear", Untried) \in Seq(Notes)
        /\ \A n : n \in ToSet(Note("clear", Untried)) <=>
                   \E x \in Sources \ Attempted : n = [kind |-> "clear", source |-> x]
    BY <2>1, NoteItems
  <2>3. <<>> \in Seq(Notes)
    OBVIOUS
  <2> QED
    BY <2>2, <2>3, NoItems
<1>6. AfterSuccess = (errors \o success) \o rest
  BY DEF AfterSuccess
<1> HIDE DEF errors, success, rest
<1>7. /\ AfterSuccess \in Seq(Notes)
      /\ ToSet(AfterSuccess) = ToSet(errors) \cup ToSet(success) \cup ToSet(rest)
  <2>1. errors \o success \in Seq(Notes) /\ ToSet(errors \o success) = ToSet(errors) \cup ToSet(success)
    BY <1>3, <1>4, JoinedItems
  <2> DEFINE both == errors \o success
  <2>2. AfterSuccess = both \o rest /\ both \in Seq(Notes) /\ ToSet(both) = ToSet(errors) \cup ToSet(success)
    BY <1>6, <2>1
  <2> HIDE DEF both
  <2>3. both \o rest \in Seq(Notes) /\ ToSet(both \o rest) = ToSet(both) \cup ToSet(rest)
    BY <1>5, <2>2, JoinedItems
  <2> QED
    BY <2>2, <2>3
<1>8. Attempted = ToSet(cycle.failed) \cup {cycle.source}
  BY DEF Attempted
<1>9. ASSUME NEW n \in ToSet(AfterSuccess)
      PROVE  n.source \in Sources /\ (n.kind = "error" <=> n.source \in ToSet(cycle.failed))
  <2>1. CASE n \in ToSet(errors)
    BY <1>1, <1>3, <2>1
  <2>2. CASE n \in ToSet(success)
    BY <1>1, <1>2, <1>4, <2>2
  <2>3. CASE n \in ToSet(rest)
    BY <1>5, <1>8, <2>3
  <2> QED
    BY <1>7, <1>9, <2>1, <2>2, <2>3
<1>10. \E n \in ToSet(AfterSuccess) : n.source = cycle.source /\ n.kind = "success"
  <2> DEFINE n == [kind |-> "success", source |-> cycle.source]
  <2>1. n \in ToSet(AfterSuccess) /\ n.source = cycle.source /\ n.kind = "success"
    BY <1>4, <1>7
  <2> QED
    BY <2>1
<1>11. ASSUME cycle.who = "scheduler", NEW s \in Sources
       PROVE  \E n \in ToSet(AfterSuccess) : n.source = s
  <2>1. CASE s \in ToSet(cycle.failed)
    <3>1. [kind |-> "error", source |-> s] \in ToSet(errors)
      BY <1>3, <2>1
    <3> QED
      BY <1>7, <3>1
  <2>2. CASE s = cycle.source
    BY <1>10, <2>2
  <2>3. CASE s \notin Attempted
    <3>1. [kind |-> "clear", source |-> s] \in ToSet(rest)
      BY <1>5, <1>11, <2>3
    <3> QED
      BY <1>7, <3>1
  <2> QED
    BY <1>8, <2>1, <2>2, <2>3
<1> QED
  BY <1>7, <1>9, <1>10, <1>11

LEMMA ChainItems ==
  Chain \in Seq(Sources) /\ Chain \in Seq(Sources \cup {CommandRow}) /\ ToSet(Chain) = Sources
<1>1. /\ <<Chain[1], Chain[2], Chain[3]>> \in Seq(Sources)
      /\ <<Chain[1], Chain[2], Chain[3]>> \in Seq(Sources \cup {CommandRow})
  BY DEF Sources
<1>2. ToSet(<<Chain[1], Chain[2], Chain[3]>>) = Sources
  BY ThreeItems DEF Sources
<1> QED
  BY <1>1, <1>2, SourceNames

LEMMA FailureNotes ==
  /\ AfterFailure \in Seq(Notes)
  /\ cycle.who = "scheduler" =>
       /\ \A n \in ToSet(AfterFailure) : n.source \in Sources /\ n.kind = "error"
       /\ \A s \in Sources : \E n \in ToSet(AfterFailure) : n.source = s
<1>1. Chain \in Seq(Sources \cup {CommandRow}) /\ ToSet(Chain) = Sources
  BY ChainItems
<1>2. <<CommandRow>> \in Seq(Sources \cup {CommandRow})
  OBVIOUS
<1>3. /\ Note("error", Chain) \in Seq(Notes) /\ Note("error", <<CommandRow>>) \in Seq(Notes)
      /\ \A n : n \in ToSet(Note("error", Chain)) <=> \E x \in Sources : n = [kind |-> "error", source |-> x]
  <2>1. Chain \in Seq(Sources \cup {CommandRow})
    BY <1>1
  <2>2. /\ Note("error", Chain) \in Seq(Notes)
        /\ \A n : n \in ToSet(Note("error", Chain)) <=>
                   \E x \in ToSet(Chain) : n = [kind |-> "error", source |-> x]
    BY ONLY <2>1, NoteItems
  <2>3. Note("error", <<CommandRow>>) \in Seq(Notes)
    BY ONLY <1>2, NoteItems
  <2> QED
    BY <1>1, <2>2, <2>3
<1>4. ASSUME cycle.who = "scheduler" PROVE AfterFailure = Note("error", Chain)
  BY <1>4 DEF AfterFailure
<1>5. AfterFailure \in Seq(Notes)
  <2>1. CASE cycle.who = "command"
    BY <1>3, <2>1 DEF AfterFailure
  <2>2. CASE cycle.who # "command"
    BY <1>3, <2>2 DEF AfterFailure
  <2> QED
    BY <2>1, <2>2
<1>6. ASSUME cycle.who = "scheduler", NEW s \in Sources PROVE \E n \in ToSet(AfterFailure) : n.source = s
  <2>1. [kind |-> "error", source |-> s] \in ToSet(AfterFailure)
    BY <1>3, <1>4, <1>6
  <2> QED
    BY <2>1
<1> QED
  BY <1>3, <1>4, <1>5, <1>6

-----------------------------------------------------------------------------
\* When the weather came in time, it holds every hour that is needed.
LEMMA FirstFetched ==
  ASSUME cycle \in Cycles
  PROVE  /\ Head(cycle.got \o <<cycle.from>>) = IF cycle.got = <<>> THEN cycle.from ELSE cycle.got[1]
         /\ Head(cycle.got \o <<cycle.from>>) \in Nat
<1>1. PICK got \in Seq(Nat), from \in Nat : got = cycle.got /\ from = cycle.from
  BY DEF Cycles
<1>2. <<from>> \in Seq(Nat) /\ Len(<<from>>) = 1 /\ <<from>>[1] = from /\ Len(got) \in Nat
  OBVIOUS
<1>3. /\ got \o <<from>> \in Seq(Nat) /\ Len(got \o <<from>>) = Len(got) + 1
      /\ \A i \in 1..(Len(got) + 1) :
           (got \o <<from>>)[i] = IF i <= Len(got) THEN got[i] ELSE <<from>>[i - Len(got)]
  BY <1>2, ConcatProperties
<1>4. Head(got \o <<from>>) = (got \o <<from>>)[1]
  BY <1>2, <1>3
<1>5. CASE got = <<>>
  BY <1>1, <1>2, <1>3, <1>4, <1>5
<1>6. CASE got # <<>>
  <2>1. Len(got) >= 1
    BY <1>2, <1>6
  <2> QED
    BY <1>1, <1>2, <1>3, <1>4, <1>6, <2>1
<1> QED
  BY <1>5, <1>6

LEMMA BaseInTime ==
  ASSUME SourcesInv, cycle.step = "compute"
  PROVE  LET first == Head(cycle.got \o <<cycle.from>>) IN
         /\ Base \in Int /\ Base <= now /\ now - Base < 3 + (now - first)
         /\ ~HasHours =>
              IF cycle.failed = <<>>
              THEN Noon(now) > Noon(first) \/ now >= first - (first % 3) + 6
              ELSE now > first
<1> DEFINE first == Head(cycle.got \o <<cycle.from>>)
<1>1. /\ cycle \in Cycles /\ cycle.from \in Nat /\ cycle.got \in Seq(Nat) /\ now \in Nat
      /\ cycle.from <= now /\ InChain(cycle.failed, cycle.source)
  BY DEF SourcesInv, SourceTypes, Cycles, TriedInv, FetchedInv
<1>2. cycle.failed = <<>> <=> cycle.source = Direct
  <2>1. <<Chain[1]>> # <<>> /\ <<Chain[1], Chain[2]>> # <<>>
    OBVIOUS
  <2> QED
    BY <1>1, <2>1, SourceNames DEF InChain
<1>3. CASE cycle.source = Direct
  <2>1. first = cycle.from
    BY <1>1, <1>3, FirstFetched DEF SourcesInv, FetchedInv
  <2>2. \A k : HoursOf(k) = DirectHours(cycle.from)
    BY <1>3 DEF HoursOf
  <2>3. Base = LatestHour(DirectHours(cycle.from), now)
    BY <2>2 DEF Base
  <2>4. /\ Base \in Int /\ Base <= now /\ cycle.from < Base + 3
        /\ (Noon(now) <= Noon(cycle.from) /\ now < cycle.from - (cycle.from % 3) + 6) =>
             Needed(Base) = DirectHours(cycle.from)
    BY <1>1, <2>3, DirectInTime
  <2>5. ~HasHours => ~(Noon(now) <= Noon(cycle.from) /\ now < cycle.from - (cycle.from % 3) + 6)
    BY <2>2, <2>4 DEF HasHours
  <2>6. Noon(now) \in Int /\ Noon(cycle.from) \in Int /\ cycle.from % 3 \in Int
    <3>1. now \in Int /\ cycle.from \in Int /\ cycle.from % 3 \in Int
      BY <1>1
    <3> QED
      BY <3>1, NoonBefore
  <2>a. now \in Nat /\ cycle.from \in Nat
    BY <1>1
  <2> HIDE DEF first
  <2>7. ~HasHours => Noon(now) > Noon(first) \/ now >= first - (first % 3) + 6
    BY ONLY <2>a, <2>1, <2>5, <2>6
  <2>8. now - Base < 3 + (now - first)
    BY ONLY <2>a, <2>1, <2>4
  <2> QED
    BY <1>2, <1>3, <2>4, <2>7, <2>8 DEF first
<1>4. CASE cycle.source # Direct
  <2>1. /\ cycle.got # <<>> /\ Len(cycle.got) = Partitions
        /\ \A k \in 1..Len(cycle.got) : cycle.got[1] <= cycle.got[k] /\ cycle.got[k] <= now
    BY <1>4 DEF SourcesInv, FetchedInv
  <2>2. first = cycle.got[1] /\ first \in Nat /\ first <= now /\ DOMAIN cycle.got = 1..Partitions
    BY <1>1, <2>1, FirstFetched
  <2>3. \A k : HoursOf(k) = MeteoHours(cycle.got[k])
    BY <1>4 DEF HoursOf
  <2>4. Base = LatestHour(MeteoHours(first), now)
    BY <2>2, <2>3 DEF Base
  <2>5. /\ Base \in Int /\ Base <= now /\ first <= Base
        /\ now = first => Needed(Base) \subseteq MeteoHours(first)
    BY <1>1, <2>2, <2>4, MeteoInTime
  <2>6. ASSUME now = first PROVE HasHours
    <3>1. \A k \in 1..Partitions : cycle.got[k] = first
      BY <1>1, <2>1, <2>2, <2>6
    <3> QED
      BY <2>3, <2>5, <2>6, <3>1 DEF HasHours
  <2> QED
    BY <1>1, <1>2, <1>4, <2>2, <2>5, <2>6
<1> QED
  BY <1>3, <1>4

LEMMA EndedCycle ==
  ASSUME NEW c, NEW who \in Askers, NEW todo \in Seq(Notes),
         c = [step |-> "notes", who |-> who, source |-> Direct, from |-> 0, run |-> 0, read |-> {},
              got |-> <<>>, retried |-> FALSE, failed |-> <<>>, todo |-> todo]
  PROVE  /\ c \in Cycles /\ c.step = "notes" /\ c.who = who /\ c.source = Direct /\ c.from = 0
         /\ c.got = <<>> /\ Len(c.got) = 0 /\ c.todo = todo
<1>1. /\ "notes" \in ForecastSteps /\ Direct \in Sources
      /\ <<>> \in Seq(Nat) /\ <<>> \in Seq(Sources) /\ Len(<<>>) = 0
  BY EmptySeq DEF ForecastSteps, Sources, Direct
<1>2. c \in Cycles
  BY <1>1 DEF Cycles
<1> QED
  BY <1>1, <1>2

\* A forecast ends with its outcome, and with notes to be written of it.
LEMMA OutcomeStep ==
  ASSUME SourcesInv, cycle.step \in {"meteo", "compute"}, UNCHANGED <<now, files, status>>,
         NEW used \in Useds, NEW base \in Int, NEW refused \in BOOLEAN,
         last' = Outcome(used, base, refused),
         NEW todo \in Seq(Notes),
         cycle' = [Waiting EXCEPT !.step = "notes", !.who = cycle.who, !.todo = todo],
         used = "" \/ (used = cycle.source /\ InChain(cycle.failed, cycle.source)),
         cycle.who = "scheduler" =>
           /\ \A n \in ToSet(todo) :
                n.source \in Sources /\ (n.kind = "error" <=> used = "" \/ n.source \in ToSet(cycle.failed))
           /\ \A s \in Sources : \E n \in ToSet(todo) : n.source = s
           /\ used # "" => \E n \in ToSet(todo) : n.source = used /\ n.kind = "success",
         HoursMissedInTime'
  PROVE  SourcesInv'
<1>1. /\ cycle \in Cycles /\ cycle.who \in Askers /\ cycle.failed \in Seq(Sources) /\ now \in Nat
      /\ cycle.from \in Nat /\ cycle.got \in Seq(Nat)
  BY DEF SourcesInv, SourceTypes, Cycles
<1>2. Head(cycle.got \o <<cycle.from>>) \in Nat
  BY <1>1, FirstFetched
<1>3. /\ last' \in Outcomes /\ last'.who = cycle.who /\ last'.used = used /\ last'.failed = cycle.failed
      /\ last'.at = now
  BY <1>1, <1>2 DEF Outcome, Outcomes
<1>0. PICK who \in Askers : who = cycle.who
  BY <1>1
<1>a. cycle' = [step |-> "notes", who |-> who, source |-> Direct, from |-> 0, run |-> 0, read |-> {},
                got |-> <<>>, retried |-> FALSE, failed |-> <<>>, todo |-> todo]
  BY <1>0 DEF Waiting
<1>d. /\ cycle' \in Cycles /\ cycle'.step = "notes" /\ cycle'.who = cycle.who /\ cycle'.source = Direct
      /\ cycle'.from = 0 /\ cycle'.got = <<>> /\ Len(cycle'.got) = 0 /\ cycle'.todo = todo
  BY ONLY <1>0, <1>a, todo \in Seq(Notes), EndedCycle
<1>4. SourceTypes' /\ TriedInv' /\ FetchedInv' /\ FieldsInv'
  <2>1. SourceTypes'
    BY <1>3, <1>d DEF SourcesInv, SourceTypes
  <2>2. TriedInv' /\ FieldsInv'
    BY <1>d DEF TriedInv, FieldsInv
  <2>3. now' = now /\ now \in Nat
    BY <1>1
  <2>4. cycle'.from <= now' /\ last'.at <= now'
    <3>1. cycle'.from = 0
      BY ONLY <1>d
    <3>2. last'.at = now
      BY ONLY <1>3
    <3> QED
      BY ONLY <2>3, <3>1, <3>2
  <2>5. FetchedInv'
    <3>1. cycle'.step = "notes" /\ cycle'.source = Direct /\ cycle'.got = <<>> /\ Len(cycle'.got) = 0
      BY ONLY <1>d
    <3> QED
      BY ONLY <2>4, <3>1 DEF FetchedInv
  <2> QED
    BY <2>1, <2>2, <2>5
<1>5. ASSUME cycle.who = "scheduler" PROVE LastNoted'
  <2>1. \A s : Erred(s)' <=> used = "" \/ s \in ToSet(cycle.failed)
    BY <1>3 DEF Erred
  <2>2. \A s \in Sources : Pending(s)'
    BY <1>5, <1>d DEF Pending
  <2>3. last'.used # "" => SuccessPending' /\ InChain(last'.failed, last'.used)
    <3>1. used # "" => InChain(cycle.failed, used) /\ \E n \in ToSet(todo) : n.source = used /\ n.kind = "success"
      BY <1>5
    <3>2. last'.used = used /\ last'.failed = cycle.failed /\ cycle'.todo = todo
      BY ONLY <1>3, <1>d
    <3> QED
      BY ONLY <3>1, <3>2 DEF SuccessPending
  <2> QED
    BY <1>5, <1>d, <2>1, <2>2, <2>3 DEF LastNoted
<1>6. NotesInv'
  BY <1>3, <1>5, <1>d DEF NotesInv
<1> QED
  BY <1>4, <1>6 DEF SourcesInv

LEMMA FailStep ==
  ASSUME SourcesInv, cycle.step \in {"meteo", "compute"}, NEW refused \in BOOLEAN, Fail(refused),
         refused =>
           LET first == Head(cycle.got \o <<cycle.from>>)
           IN IF cycle.failed = <<>>
              THEN Noon(now) > Noon(first) \/ now >= first - (first % 3) + 6
              ELSE now > first
  PROVE  SourcesInv'
<1>1. /\ cycle' = [Waiting EXCEPT !.step = "notes", !.who = cycle.who, !.todo = AfterFailure]
      /\ last' = Outcome("", 0, refused) /\ UNCHANGED <<now, files, status>>
      /\ cycle.who \in Askers
  BY DEF Fail, clocks, SourcesInv, SourceTypes, Cycles
<1>2. PICK todo \in Seq(Notes) :
        /\ todo = AfterFailure
        /\ cycle.who = "scheduler" =>
             /\ \A n \in ToSet(todo) : n.source \in Sources /\ n.kind = "error"
             /\ \A s \in Sources : \E n \in ToSet(todo) : n.source = s
  BY FailureNotes
<1>3. cycle' = [Waiting EXCEPT !.step = "notes", !.who = cycle.who, !.todo = todo]
  BY <1>1, <1>2
<1>4. HoursMissedInTime'
  <2>1. /\ last'.failed = cycle.failed /\ last'.from = Head(cycle.got \o <<cycle.from>>) /\ last'.at = now
        /\ last'.base = 0 /\ last'.refused = refused
    BY <1>1 DEF Outcome
  <2> QED
    BY <2>1 DEF HoursMissedInTime
<1>5. /\ "" \in Useds /\ 0 \in Int
      /\ cycle.who = "scheduler" =>
           /\ \A n \in ToSet(todo) :
                n.source \in Sources /\ (n.kind = "error" <=> "" = "" \/ n.source \in ToSet(cycle.failed))
           /\ \A s \in Sources : \E n \in ToSet(todo) : n.source = s
           /\ "" # "" => \E n \in ToSet(todo) : n.source = "" /\ n.kind = "success"
  BY <1>2 DEF Useds
<1> QED
  BY <1>1, <1>3, <1>4, <1>5, OutcomeStep

LEMMA ComputeStep == ASSUME SourcesInv, Compute PROVE SourcesInv'
<1>1. /\ cycle.step = "compute" /\ last' = Outcome(cycle.source, Base, FALSE)
      /\ cycle' = [Waiting EXCEPT !.step = "notes", !.who = cycle.who, !.todo = AfterSuccess]
      /\ UNCHANGED <<now, files, status>>
      /\ cycle \in Cycles /\ cycle.who \in Askers /\ cycle.source \in Sources
      /\ InChain(cycle.failed, cycle.source)
  BY DEF Compute, clocks, SourcesInv, SourceTypes, TriedInv, Cycles
<1>2. PICK todo \in Seq(Notes) :
        /\ todo = AfterSuccess
        /\ \A n \in ToSet(todo) : n.source \in Sources /\ (n.kind = "error" <=> n.source \in ToSet(cycle.failed))
        /\ \E n \in ToSet(todo) : n.source = cycle.source /\ n.kind = "success"
        /\ cycle.who = "scheduler" => \A s \in Sources : \E n \in ToSet(todo) : n.source = s
  BY <1>1, SuccessNotes
<1>3. cycle' = [Waiting EXCEPT !.step = "notes", !.who = cycle.who, !.todo = todo]
  BY <1>1, <1>2
<1>4. Base \in Int /\ Base <= now /\ now - Base < 3 + (now - Head(cycle.got \o <<cycle.from>>))
  BY <1>1, BaseInTime
<1>5. HoursMissedInTime'
  <2>1. /\ last'.from = Head(cycle.got \o <<cycle.from>>) /\ last'.at = now
        /\ last'.base = Base /\ last'.refused = FALSE
    BY <1>1 DEF Outcome
  <2> QED
    BY <1>4, <2>1 DEF HoursMissedInTime
<1>6. cycle.source # "" /\ cycle.source \in Useds
  BY <1>1, SourceNames DEF Useds
<1> QED
  BY <1>1, <1>2, <1>3, <1>4, <1>5, <1>6, OutcomeStep

LEMMA AllFailStep == ASSUME SourcesInv, AllFail PROVE SourcesInv'
BY FailStep DEF AllFail

LEMMA ComputeFailsStep == ASSUME SourcesInv, ComputeFails PROVE SourcesInv'
BY FailStep DEF ComputeFails

LEMMA HoursMissingStep == ASSUME SourcesInv, HoursMissing PROVE SourcesInv'
<1>1. cycle.step = "compute" /\ ~HasHours /\ Fail(TRUE)
  BY DEF HoursMissing
<1>2. LET first == Head(cycle.got \o <<cycle.from>>)
      IN IF cycle.failed = <<>>
         THEN Noon(now) > Noon(first) \/ now >= first - (first % 3) + 6
         ELSE now > first
  BY <1>1, BaseInTime
<1> QED
  BY <1>1, <1>2, FailStep

-----------------------------------------------------------------------------
(* The notes.                                                              *)

LEMMA ItemsOfTail ==
  ASSUME NEW S, NEW s \in Seq(S), s # <<>>
  PROVE  ToSet(s) = {Head(s)} \cup ToSet(Tail(s)) /\ Tail(s) \in Seq(S) /\ Head(s) \in S
<1>1. /\ Head(s) = s[1] /\ Tail(s) \in Seq(S) /\ Len(Tail(s)) = Len(s) - 1 /\ Head(s) \in S
      /\ \A i \in 1..Len(Tail(s)) : Tail(s)[i] = s[i + 1]
      /\ Len(s) \in Nat /\ Len(s) # 0
  BY HeadTailProperties
<1>2. DOMAIN s = 1..Len(s) /\ DOMAIN Tail(s) = 1..(Len(s) - 1)
  BY <1>1
<1>3. ASSUME NEW i \in 1..Len(s) PROVE s[i] \in {Head(s)} \cup ToSet(Tail(s))
  <2>1. CASE i = 1
    BY <1>1, <2>1
  <2>2. CASE i # 1
    <3>1. i - 1 \in 1..(Len(s) - 1) /\ i - 1 + 1 = i
      BY <1>1, <2>2
    <3>2. Tail(s)[i - 1] = s[i]
      BY <1>1, <3>1
    <3> QED
      BY <1>2, <3>1, <3>2 DEF ToSet
  <2> QED
    BY <2>1, <2>2
<1>4. ASSUME NEW i \in 1..(Len(s) - 1) PROVE Tail(s)[i] \in ToSet(s)
  <2>1. i + 1 \in 1..Len(s) /\ Tail(s)[i] = s[i + 1]
    BY <1>1
  <2> QED
    BY <1>2, <2>1 DEF ToSet
<1>5. Head(s) \in ToSet(s)
  BY <1>1, <1>2 DEF ToSet
<1>6. \A x \in ToSet(s) : x \in {Head(s)} \cup ToSet(Tail(s))
  BY <1>2, <1>3 DEF ToSet
<1>7. \A x \in ToSet(Tail(s)) : x \in ToSet(s)
  BY <1>2, <1>4 DEF ToSet
<1> QED
  BY <1>1, <1>5, <1>6, <1>7

LEMMA ErrorSet ==
  ASSUME NEW r \in [success : Nat, error : BOOLEAN], NEW e \in BOOLEAN
  PROVE  [r EXCEPT !.error = e] = [success |-> r.success, error |-> e]
<1>1. r = [success |-> r.success, error |-> r.error]
  OBVIOUS
<1> QED
  BY <1>1

LEMMA WriteNoteStep == ASSUME SourcesInv, WriteNote PROVE SourcesInv'
<1>1. /\ cycle \in Cycles /\ cycle.step = "notes" /\ cycle.todo # <<>> /\ cycle.todo \in Seq(Notes)
      /\ status' = Noted(Head(cycle.todo)) /\ cycle' = [cycle EXCEPT !.todo = Tail(cycle.todo)]
      /\ now' = now /\ files' = files /\ last' = last /\ now \in Nat /\ last \in Outcomes
      /\ status \in [Sources \cup {CommandRow} -> [success : Nat, error : BOOLEAN]]
      /\ last.at <= now /\ last.at \in Nat
  BY DEF WriteNote, clocks, SourcesInv, SourceTypes, FetchedInv, Cycles, Outcomes
<1>2. PICK n \in Notes, rest \in Seq(Notes) :
        n = Head(cycle.todo) /\ rest = Tail(cycle.todo) /\ ToSet(cycle.todo) = {n} \cup ToSet(rest)
  <2> DEFINE h == Head(cycle.todo)
             t == Tail(cycle.todo)
  <2>1. h \in Notes /\ t \in Seq(Notes) /\ ToSet(cycle.todo) = {h} \cup ToSet(t)
    BY <1>1, ItemsOfTail
  <2> QED
    BY <2>1
<1>3. /\ n.kind \in {"error", "success", "clear"} /\ n.source \in Sources \cup {CommandRow}
      /\ status[n.source] \in [success : Nat, error : BOOLEAN]
  BY <1>1, <1>2 DEF Notes
<1>4. PICK row \in [success : Nat, error : BOOLEAN] :
        /\ status' = [status EXCEPT ![n.source] = row]
        /\ (row.error <=> n.kind = "error")
        /\ row.success = IF n.kind = "success" THEN now ELSE status[n.source].success
  <2> DEFINE old == status[n.source]
             row == [success |-> IF n.kind = "success" THEN now ELSE old.success, error |-> n.kind = "error"]
  <2>0. old = [success |-> old.success, error |-> old.error]
    BY <1>3
  <2>1. status' = [status EXCEPT ![n.source] = row]
    <3>1. CASE n.kind = "success"
      BY <1>1, <1>2, <3>1 DEF Noted
    <3>2. CASE n.kind = "error"
      <4>1. [old EXCEPT !.error = TRUE] = row
        <5>1. [old EXCEPT !.error = TRUE] = [success |-> old.success, error |-> TRUE]
          BY <1>3, ErrorSet
        <5>2. row = [success |-> old.success, error |-> TRUE]
          BY <3>2
        <5> QED
          BY <5>1, <5>2
      <4>2. status' = [status EXCEPT ![n.source] = [old EXCEPT !.error = TRUE]]
        BY <1>1, <1>2, <3>2 DEF Noted
      <4> QED
        BY <4>1, <4>2
    <3>3. CASE n.kind = "clear"
      <4>1. [old EXCEPT !.error = FALSE] = row
        <5>1. [old EXCEPT !.error = FALSE] = [success |-> old.success, error |-> FALSE]
          BY <1>3, ErrorSet
        <5>2. row = [success |-> old.success, error |-> FALSE]
          BY <3>3
        <5> QED
          BY <5>1, <5>2
      <4>2. status' = [status EXCEPT ![n.source] = [old EXCEPT !.error = FALSE]]
        BY <1>1, <1>2, <3>3 DEF Noted
      <4> QED
        BY <4>1, <4>2
    <3> QED
      BY <1>3, <3>1, <3>2, <3>3
  <2>2. /\ row \in [success : Nat, error : BOOLEAN] /\ (row.error <=> n.kind = "error")
        /\ row.success = IF n.kind = "success" THEN now ELSE old.success
    BY <1>1, <1>3
  <2> HIDE DEF row
  <2> QED
    BY <2>1, <2>2
<1>5. /\ cycle' \in Cycles /\ cycle'.step = "notes" /\ cycle'.who = cycle.who /\ cycle'.source = cycle.source
      /\ cycle'.from = cycle.from /\ cycle'.got = cycle.got /\ cycle'.todo = rest
  BY <1>1, <1>2 DEF Cycles
<1>6. SourceTypes'
  BY <1>1, <1>3, <1>4, <1>5 DEF SourcesInv, SourceTypes
<1>7. TriedInv' /\ FetchedInv' /\ FieldsInv'
  BY <1>1, <1>5 DEF SourcesInv, TriedInv, FetchedInv, FieldsInv
<1>8. ASSUME last.noted, last.who = "scheduler" PROVE LastNoted'
  <2>1. LastNoted
    BY <1>8 DEF SourcesInv, NotesInv
  <2>2. n.source \in Sources /\ (n.kind = "error" <=> Erred(n.source))
    BY <1>2, <2>1 DEF LastNoted
  <2>3. \A s \in Sources \cup {CommandRow} : status'[s] = IF s = n.source THEN row ELSE status[s]
    BY <1>1, <1>4
  <2>4. \A s : Erred(s)' <=> Erred(s)
    BY <1>1 DEF Erred
  <2>5. ASSUME NEW s \in Sources PROVE Pending(s)' \/ (status'[s].error <=> Erred(s))
    <3>1. CASE s = n.source
      BY <1>4, <2>2, <2>3, <3>1
    <3>2. CASE s # n.source
      <4>1. Pending(s) => Pending(s)'
        BY <1>2, <1>5, <3>2 DEF Pending
      <4>2. status'[s] = status[s]
        BY <2>3, <3>2
      <4>3. Pending(s) \/ (status[s].error <=> Erred(s))
        BY <2>1 DEF LastNoted
      <4> QED
        BY <4>1, <4>2, <4>3
    <3> QED
      BY <3>1, <3>2
  <2>6. ASSUME last.used # "" PROVE SuccessPending' \/ status'[last.used].success >= last.at
    <3>1. last.used \in Sources
      BY <1>1, <2>6 DEF Outcomes, Useds
    <3>2. SuccessPending \/ status[last.used].success >= last.at
      BY <2>1, <2>6 DEF LastNoted
    <3>3. CASE status[last.used].success >= last.at
      BY <1>1, <1>4, <2>3, <3>1, <3>3
    <3>4. CASE SuccessPending
      <4>1. PICK m \in ToSet(cycle.todo) : m.source = last.used /\ m.kind = "success"
        BY <3>4 DEF SuccessPending
      <4>2. CASE m = n
        BY <1>1, <1>4, <2>3, <3>1, <4>1, <4>2
      <4>3. CASE m \in ToSet(rest)
        BY <1>1, <1>5, <4>1, <4>3 DEF SuccessPending
      <4> QED
        BY <1>2, <4>2, <4>3
    <3> QED
      BY <3>2, <3>3, <3>4
  <2>7. \A m \in ToSet(cycle'.todo) : m.source \in Sources /\ (m.kind = "error" <=> Erred(m.source))
    BY <1>2, <1>5, <2>1 DEF LastNoted
  <2>8. last.used # "" => InChain(last.failed, last.used)
    BY <2>1 DEF LastNoted
  <2> QED
    BY <1>1, <2>4, <2>5, <2>6, <2>7, <2>8 DEF LastNoted
<1>9. NotesInv'
  BY <1>1, <1>5, <1>8 DEF SourcesInv, NotesInv
<1>10. HoursMissedInTime'
  BY <1>1 DEF SourcesInv, HoursMissedInTime
<1> QED
  BY <1>6, <1>7, <1>9, <1>10 DEF SourcesInv

LEMMA NoteFailsStep == ASSUME SourcesInv, NoteFails PROVE SourcesInv'
<1>1. /\ cycle \in Cycles /\ cycle.step = "notes" /\ cycle.todo # <<>> /\ cycle.todo \in Seq(Notes)
      /\ now' = now /\ files' = files /\ status' = status /\ last \in Outcomes
      /\ last' = [last EXCEPT !.noted = FALSE]
  BY DEF NoteFails, SourcesInv, SourceTypes, Cycles
<1>2. PICK rest \in Seq(Notes) : cycle' = [cycle EXCEPT !.todo = rest]
  <2>1. Tail(cycle.todo) \in Seq(Notes) /\ <<>> \in Seq(Notes)
    BY <1>1, ItemsOfTail
  <2>2. cycle' = [cycle EXCEPT !.todo = IF cycle.who = "command" THEN <<>> ELSE Tail(cycle.todo)]
    BY DEF NoteFails
  <2> QED
    BY <2>1, <2>2
<1>3. /\ cycle' \in Cycles /\ cycle'.step = "notes" /\ cycle'.who = cycle.who /\ cycle'.source = cycle.source
      /\ cycle'.from = cycle.from /\ cycle'.got = cycle.got
  BY <1>1, <1>2 DEF Cycles
<1>4. /\ last' \in Outcomes /\ ~last'.noted /\ last'.who = last.who /\ last'.at = last.at
      /\ last'.refused = last.refused /\ last'.failed = last.failed /\ last'.from = last.from
      /\ last'.base = last.base
  BY <1>1 DEF Outcomes
<1>5. SourceTypes' /\ TriedInv' /\ FetchedInv' /\ FieldsInv'
  BY <1>1, <1>3, <1>4 DEF SourcesInv, SourceTypes, TriedInv, FetchedInv, FieldsInv
<1>6. NotesInv' /\ HoursMissedInTime'
  BY <1>1, <1>3, <1>4 DEF SourcesInv, NotesInv, HoursMissedInTime
<1> QED
  BY <1>5, <1>6 DEF SourcesInv

LEMMA WaitingCycle ==
  /\ Waiting \in Cycles /\ Waiting.step = "waiting" /\ Waiting.source = Direct /\ Waiting.from = 0
  /\ Waiting.got = <<>> /\ Len(Waiting.got) = 0 /\ Waiting.failed = <<>> /\ Waiting.todo = <<>>
<1>1. /\ "waiting" \in ForecastSteps /\ Direct \in Sources /\ <<>> \in Seq(Nat) /\ <<>> \in Seq(Sources)
      /\ <<>> \in Seq(Notes) /\ Len(<<>>) = 0 /\ "scheduler" \in Askers
  BY EmptySeq DEF ForecastSteps, Sources, Direct, Askers
<1>2. Waiting \in Cycles
  BY <1>1 DEF Waiting, Cycles
<1> QED
  BY <1>1, <1>2 DEF Waiting

LEMMA EndStep == ASSUME SourcesInv, EndCycle PROVE SourcesInv'
<1>1. /\ cycle' = Waiting /\ now' = now /\ files' = files /\ status' = status /\ last' = last
      /\ cycle.todo = <<>> /\ now \in Nat /\ last.at <= now
  BY DEF EndCycle, clocks, SourcesInv, SourceTypes, FetchedInv
<1>2. SourceTypes' /\ TriedInv' /\ FetchedInv' /\ FieldsInv'
  BY <1>1, WaitingCycle DEF SourcesInv, SourceTypes, TriedInv, FetchedInv, FieldsInv
<1>3. LastNoted => LastNoted'
  BY <1>1, WaitingCycle DEF LastNoted, Erred, Pending, SuccessPending
<1>4. NotesInv' /\ HoursMissedInTime'
  BY <1>1, <1>3, WaitingCycle DEF SourcesInv, NotesInv, HoursMissedInTime
<1> QED
  BY <1>2, <1>4 DEF SourcesInv

LEMMA FreshStart ==
  ASSUME SourceTypes', cycle' = Waiting, last' = NoOutcome PROVE SourcesInv'
<1>1. now' \in Nat /\ ~last'.noted /\ ~last'.refused /\ last'.base = 0 /\ last'.at = 0
  BY DEF SourceTypes, NoOutcome
<1>2. TriedInv' /\ FetchedInv' /\ FieldsInv' /\ NotesInv' /\ HoursMissedInTime'
  BY <1>1, WaitingCycle DEF TriedInv, FetchedInv, FieldsInv, NotesInv, HoursMissedInTime
<1> QED
  BY <1>2 DEF SourcesInv

LEMMA RestartStep == ASSUME SourcesInv, RestartSources PROVE SourcesInv'
<1>1. /\ cycle' = Waiting /\ last' = NoOutcome /\ now' = now /\ files' = files /\ status' = status
  BY DEF RestartSources
<1>2. SourceTypes'
  BY <1>1, WaitingCycle, NoOutcomeYet DEF SourcesInv, SourceTypes
<1> QED
  BY <1>1, <1>2, FreshStart

LEMMA SourcesInitially == SourcesInit => SourcesInv
<1> SUFFICES ASSUME SourcesInit PROVE SourcesInv
  OBVIOUS
<1>1. ToSet(Chain) = Sources
  BY ChainItems
<1>2. now \in Nat /\ cycle = Waiting /\ files = {} /\ last = NoOutcome
      /\ status = [s \in Sources \cup {CommandRow} |-> [success |-> 0, error |-> FALSE]]
  BY <1>1, SourcesAssumption DEF SourcesInit
<1>3. SourceTypes
  BY <1>2, WaitingCycle, NoOutcomeYet DEF SourceTypes
<1>4. ~last.noted /\ ~last.refused /\ last.base = 0 /\ last.at = 0
  BY <1>2 DEF NoOutcome
<1>5. TriedInv /\ FetchedInv /\ FieldsInv /\ NotesInv /\ HoursMissedInTime
  BY <1>2, <1>4, WaitingCycle DEF TriedInv, FetchedInv, FieldsInv, NotesInv, HoursMissedInTime
<1> QED
  BY <1>3, <1>5 DEF SourcesInv

LEMMA SourcesStep == ASSUME SourcesInv, [SourcesNext]_feeds PROVE SourcesInv'
<1>1. CASE UNCHANGED feeds
  <2>1. now' = now /\ cycle' = cycle /\ files' = files /\ status' = status /\ last' = last
    BY <1>1 DEF feeds, clocks
  <2>2. SourceTypes' /\ TriedInv' /\ FetchedInv' /\ FieldsInv' /\ HoursMissedInTime'
    BY <2>1 DEF SourcesInv, SourceTypes, TriedInv, FetchedInv, FieldsInv, HoursMissedInTime
  <2>3. LastNoted => LastNoted'
    BY <2>1 DEF LastNoted, Erred, Pending, SuccessPending
  <2> QED
    BY <2>1, <2>2, <2>3 DEF SourcesInv, NotesInv
<1>2. BeginTick \/ BeginCommand => SourcesInv'
  <2>1. BeginTick => BeginForecast("scheduler") /\ UNCHANGED now
    BY DEF BeginTick, BeginForecast
  <2>2. BeginCommand => BeginForecast("command") /\ UNCHANGED now
    BY DEF BeginCommand, BeginForecast
  <2>3. "scheduler" \in Askers /\ "command" \in Askers
    BY DEF Askers
  <2> QED
    BY <2>1, <2>2, <2>3, BeginStep
<1> QED
  BY <1>1, <1>2, HourStep, SelectStep, ReadStep, DecodeStep, RenameStep, DirectFailsStep, FetchStep,
     RateLimitedStep, MeteoFailsStep, AllFailStep, ComputeStep, HoursMissingStep, ComputeFailsStep,
     WriteNoteStep, NoteFailsStep, EndStep, RestartStep DEF SourcesNext

\* A sequence is continued by the item that comes next.
LEMMA Beginning ==
  ASSUME NEW S, NEW c \in Seq(S), NEW f \in Seq(S), NEW u \in S,
         Len(f) < Len(c), \A i \in 1..Len(f) : f[i] = c[i], u = c[Len(f) + 1]
  PROVE  f \o <<u>> = SubSeq(c, 1, Len(f) + 1)
<1> DEFINE n == Len(f) + 1
           b == SubSeq(c, 1, n)
           j == f \o <<u>>
<1>1. Len(f) \in Nat /\ Len(c) \in Nat /\ n \in 1..Len(c) /\ n \in Nat
  OBVIOUS
<1>2. b \in Seq(S) /\ Len(b) = n /\ \A i \in 1..n : b[i] = c[i]
  <2>1. \A i \in 1..n : i + 1 - 1 = i /\ i \in Int
    BY <1>1
  <2>2. 1 \in 1..(Len(c) + 1) /\ n \in 0..Len(c) /\ 1 <= n + 1 /\ n - 1 + 1 = n
    BY <1>1
  <2> HIDE DEF n
  <2> QED
    BY <1>1, <2>1, <2>2, SubSeqProperties
<1>3. <<u>> \in Seq(S) /\ Len(<<u>>) = 1 /\ <<u>>[1] = u
  OBVIOUS
<1>4. /\ j \in Seq(S) /\ Len(j) = n
      /\ \A i \in 1..n : j[i] = IF i <= Len(f) THEN f[i] ELSE <<u>>[i - Len(f)]
  BY <1>3, ConcatProperties
<1>5. ASSUME NEW i \in 1..n PROVE j[i] = b[i]
  <2>1. CASE i <= Len(f)
    BY <1>1, <1>2, <1>4, <2>1
  <2>2. CASE ~(i <= Len(f))
    <3>1. i = n /\ i - Len(f) = 1
      BY <1>1, <2>2
    <3> QED
      BY <1>2, <1>3, <1>4, <2>2, <3>1
  <2> QED
    BY <2>1, <2>2
<1> HIDE DEF b, j
<1>6. j = b
  BY <1>2, <1>4, <1>5, SeqEqual
<1> QED
  BY <1>6 DEF b, j

LEMMA ChainBegins ==
  ASSUME NEW failed, NEW used, InChain(failed, used)
  PROVE  failed \o <<used>> = SubSeq(Chain, 1, Len(failed) + 1)
<1>1. /\ Chain \in Seq(Sources) /\ Len(Chain) = 3
      /\ Chain[1] \in Sources /\ Chain[2] \in Sources /\ Chain[3] \in Sources
  BY ChainItems, SourceNames DEF Sources
<1>2. /\ failed \in Seq(Sources) /\ used \in Sources /\ Len(failed) < 3
      /\ (\A i \in 1..Len(failed) : failed[i] = Chain[i]) /\ used = Chain[Len(failed) + 1]
  <2>1. CASE failed = <<>> /\ used = Chain[1]
    BY <1>1, <2>1
  <2>2. CASE failed = <<Chain[1]>> /\ used = Chain[2]
    <3>1. failed \in Seq(Sources) /\ Len(failed) = 1 /\ failed[1] = Chain[1]
      BY <1>1, <2>2
    <3> QED
      BY <1>1, <2>2, <3>1
  <2>3. CASE failed = <<Chain[1], Chain[2]>> /\ used = Chain[3]
    <3>1. failed \in Seq(Sources) /\ Len(failed) = 2 /\ failed[1] = Chain[1] /\ failed[2] = Chain[2]
      BY <1>1, <2>3
    <3> QED
      BY <1>1, <2>3, <3>1
  <2> QED
    BY <2>1, <2>2, <2>3 DEF InChain
<1> QED
  BY <1>1, <1>2, Beginning

LEMMA SourcesInvImplies == SourcesInv => SourcesTruthful /\ AcquisitionSound
<1> SUFFICES ASSUME SourcesInv PROVE SourcesTruthful /\ AcquisitionSound
  OBVIOUS
<1>1. SourcesTruthful
  <2> SUFFICES ASSUME cycle.step = "waiting", last.noted, last.who = "scheduler"
               PROVE  /\ \A s \in ToSet(Chain) :
                           status[s].error <=> last.used = "" \/ s \in ToSet(last.failed)
                      /\ last.used # "" =>
                           /\ status[last.used].success >= last.at
                           /\ last.failed \o <<last.used>> = SubSeq(Chain, 1, Len(last.failed) + 1)
    BY DEF SourcesTruthful
  <2>1. LastNoted /\ cycle.todo = <<>>
    BY DEF SourcesInv, NotesInv
  <2>2. ~SuccessPending /\ \A s : ~Pending(s)
    BY <2>1, NoItems DEF SuccessPending, Pending
  <2>3. ToSet(Chain) = Sources
    BY ChainItems
  <2>4. \A s \in ToSet(Chain) : status[s].error <=> last.used = "" \/ s \in ToSet(last.failed)
    BY <2>1, <2>2, <2>3 DEF LastNoted, Erred
  <2>5. ASSUME last.used # ""
        PROVE  last.failed \o <<last.used>> = SubSeq(Chain, 1, Len(last.failed) + 1)
    <3>1. InChain(last.failed, last.used)
      BY <2>1, <2>5 DEF LastNoted
    <3> QED
      BY <3>1, ChainBegins
  <2> QED
    BY <2>1, <2>2, <2>4, <2>5 DEF LastNoted
<1>2. DirectSound
  BY DEF SourcesInv, FieldsInv, FirstFields, DirectSound
<1> QED
  BY <1>1, <1>2 DEF SourcesInv, AcquisitionSound

-----------------------------------------------------------------------------
(* The live stream.                                                        *)

Requests == Boxes \cup {Malformed}
Cells == UNION (Boxes \cup {Everywhere})
Delivery == [update : Nat, cells : SUBSET Cells, asked : Nat]

StreamTypes ==
  /\ sent \in Nat /\ inbox \in Seq(Requests)
  /\ conn \in [open : BOOLEAN, joined : Nat, next : Nat \ {0}, skipped : Nat,
               box : Boxes \cup {Everywhere}, asked : Seq(Requests), got : Seq(Delivery)]

\* The box of a connection is that of its last readable request.
BoxInv == conn.box = LastReadable(conn.asked)

\* What was delivered is in order, and of the box of its time.
OrderInv ==
  \A i \in DOMAIN conn.got :
    /\ conn.got[i].update > (IF i = 1 THEN conn.joined ELSE conn.got[i - 1].update)
    /\ conn.got[i].update < conn.next
    /\ conn.got[i].asked <= Len(conn.asked)
    /\ conn.got[i].cells =
         CellsOf(conn.got[i].update) \cap LastReadable(SubSeq(conn.asked, 1, conn.got[i].asked))

\* Each update since the opening is delivered, skipped or still to come.
CountInv ==
  /\ conn.joined + Len(conn.got) + conn.skipped = conn.next - 1
  /\ conn.next <= sent + 1
  /\ conn.skipped > 0 => conn.skipped <= sent - conn.joined - Capacity

StreamInv == StreamTypes /\ BoxInv /\ OrderInv /\ CountInv

-----------------------------------------------------------------------------
\* A request changes the box if it is readable.
LEMMA LastAppended ==
  ASSUME NEW asked \in Seq(Requests), NEW r \in Requests
  PROVE  LastReadable(Append(asked, r)) = IF r = Malformed THEN LastReadable(asked) ELSE r
<1> DEFINE longer == Append(asked, r)
           n == Len(asked)
           lastOf(s) == {i \in DOMAIN s : s[i] # Malformed /\ \A j \in (i + 1)..Len(s) : s[j] = Malformed}
           values(s) == {s[i] : i \in lastOf(s)}
<1>1. /\ n \in Nat /\ DOMAIN asked = 1..n /\ DOMAIN longer = 1..(n + 1) /\ Len(longer) = n + 1
      /\ longer[n + 1] = r /\ \A i \in 1..n : longer[i] = asked[i]
  OBVIOUS
<1>2. \A s : LastReadable(s) = IF values(s) = {} THEN Everywhere ELSE CHOOSE box \in values(s) : TRUE
  BY DEF LastReadable
<1> HIDE DEF longer, n
<1>3. CASE r = Malformed
  <2>1. lastOf(longer) = lastOf(asked)
    <3>1. ASSUME NEW i \in 1..n
          PROVE  i \in lastOf(longer) <=> i \in lastOf(asked)
      BY <1>1, <1>3 DEF n
    <3>2. n + 1 \notin lastOf(longer)
      BY <1>1, <1>3
    <3> QED
      BY <1>1, <3>1, <3>2 DEF n
  <2>2. values(longer) = values(asked)
    BY <1>1, <2>1
  <2> QED
    BY <1>2, <1>3, <2>2 DEF longer
<1>4. CASE r # Malformed
  <2>1. lastOf(longer) = {n + 1}
    <3>1. ASSUME NEW i \in 1..n
          PROVE  i \notin lastOf(longer)
      BY <1>1, <1>4
    <3>2. n + 1 \in lastOf(longer)
      BY <1>1, <1>4
    <3> QED
      BY <1>1, <3>1, <3>2
  <2>2. values(longer) = {r}
    BY <1>1, <2>1
  <2> QED
    BY <1>2, <1>4, <2>2 DEF longer
<1> QED
  BY <1>3, <1>4

\* A later request leaves the earlier ones as they are.
LEMMA EarlierRequests ==
  ASSUME NEW asked \in Seq(Requests), NEW r \in Requests, NEW k \in 0..Len(asked)
  PROVE  /\ SubSeq(Append(asked, r), 1, k) = SubSeq(asked, 1, k)
         /\ SubSeq(asked, 1, Len(asked)) = asked
  OBVIOUS

\* The fields of a well-typed connection.
LEMMA StreamFields ==
  ASSUME StreamTypes
  PROVE  /\ sent \in Nat /\ inbox \in Seq(Requests)
         /\ conn.open \in BOOLEAN /\ conn.joined \in Nat /\ conn.next \in Nat \ {0}
         /\ conn.skipped \in Nat /\ conn.box \in Boxes \cup {Everywhere}
         /\ conn.asked \in Seq(Requests) /\ Len(conn.asked) \in Nat
         /\ conn.got \in Seq(Delivery) /\ Len(conn.got) \in Nat
         /\ \A i \in DOMAIN conn.got : conn.got[i].update \in Nat /\ conn.got[i].asked \in Nat
<1>1. /\ sent \in Nat /\ inbox \in Seq(Requests)
      /\ conn.open \in BOOLEAN /\ conn.joined \in Nat /\ conn.next \in Nat \ {0}
      /\ conn.skipped \in Nat /\ conn.box \in Boxes \cup {Everywhere}
      /\ conn.asked \in Seq(Requests) /\ conn.got \in Seq(Delivery)
  BY DEF StreamTypes
<1>2. ASSUME NEW i \in DOMAIN conn.got
      PROVE  conn.got[i].update \in Nat /\ conn.got[i].asked \in Nat
  <2>1. conn.got[i] \in Delivery
    BY <1>1
  <2> QED
    BY <2>1 DEF Delivery
<1> QED
  BY <1>1, <1>2

LEMMA StreamInitially == LiveInit => StreamInv
<1> SUFFICES ASSUME LiveInit PROVE StreamInv
  OBVIOUS
<1>1. LastReadable(<<>>) = Everywhere
  BY DEF LastReadable
<1> QED
  BY <1>1 DEF LiveInit, Closed, StreamInv, StreamTypes, BoxInv, OrderInv, CountInv

LEMMA StreamStep == StreamInv /\ [LiveNext]_live => StreamInv'
<1> SUFFICES ASSUME StreamInv, [LiveNext]_live PROVE StreamInv'
  OBVIOUS
<1>0. LastReadable(<<>>) = Everywhere
  BY DEF LastReadable
<1>f. /\ sent \in Nat /\ conn.joined \in Nat /\ conn.next \in Nat /\ conn.skipped \in Nat
      /\ Len(conn.asked) \in Nat /\ Len(conn.got) \in Nat
  BY StreamFields DEF StreamInv
<1>c. /\ conn.joined + Len(conn.got) + conn.skipped = conn.next - 1
      /\ conn.next <= sent + 1
  BY DEF StreamInv, CountInv
<1>d. conn.skipped > 0 => conn.skipped <= sent - conn.joined - Capacity
  BY DEF StreamInv, CountInv
<1>p. Capacity \in Nat
  BY CapacityAssumption
<1> DEFINE joined == conn.joined
           count == Len(conn.got)
           lost == conn.skipped
           next == conn.next
<1>g. /\ joined \in Nat /\ count \in Nat /\ lost \in Nat /\ next \in Nat
      /\ joined + count + lost = next - 1
  BY <1>f, <1>c
<1> HIDE DEF joined, count, lost, next
<1>1. CASE Send
  <2>1. sent' = sent + 1 /\ inbox' = inbox /\ conn' = conn
    BY <1>1 DEF Send
  <2>2. conn.next <= sent' + 1
    BY <1>c, <1>f, <2>1
  <2>3. conn.skipped > 0 => conn.skipped <= sent' - conn.joined - Capacity
    BY <1>d, <1>f, <1>p, <2>1
  <2>4. CountInv'
    BY <1>c, <2>1, <2>2, <2>3 DEF CountInv
  <2> QED
    BY <2>1, <2>4 DEF StreamInv, StreamTypes, BoxInv, OrderInv
<1>2. CASE Connect
  <2>1. sent' = sent /\ inbox' = <<>> /\ sent \in Nat
    BY <1>2 DEF Connect, StreamInv, StreamTypes
  <2>2. conn' = [open |-> TRUE, joined |-> sent, next |-> sent + 1, skipped |-> 0,
                 box |-> Everywhere, asked |-> <<>>, got |-> <<>>]
    BY <1>2 DEF Connect, Closed
  <2> QED
    BY <1>0, <2>1, <2>2 DEF StreamInv, StreamTypes, BoxInv, OrderInv, CountInv
<1>3. ASSUME NEW request \in Boxes \cup {Malformed}, Ask(request)
      PROVE  StreamInv'
  <2>1. sent' = sent /\ conn' = conn /\ inbox' \in Seq(Requests)
    BY <1>3 DEF Ask, Requests, StreamInv, StreamTypes
  <2> QED
    BY <2>1 DEF StreamInv, StreamTypes, BoxInv, OrderInv, CountInv
<1>4. CASE TakeRequest
  <2> DEFINE r == Head(inbox)
  <2>1. r \in Requests /\ Tail(inbox) \in Seq(Requests) /\ BoxFor(r) \in Boxes \cup {Everywhere}
    BY <1>4 DEF TakeRequest, BoxFor, StreamInv, StreamTypes, Requests
  <2>2. /\ sent' = sent /\ inbox' = Tail(inbox)
        /\ conn' = [conn EXCEPT !.box = BoxFor(r), !.asked = Append(conn.asked, r)]
    BY <1>4 DEF TakeRequest
  <2> HIDE DEF r
  <2>3. StreamTypes'
    <3>1. Append(conn.asked, r) \in Seq(Requests)
      BY <2>1, StreamFields DEF StreamInv
    <3> DEFINE longer == Append(conn.asked, r)
    <3> HIDE DEF longer
    <3> QED
      BY <2>1, <2>2, <3>1 DEF StreamInv, StreamTypes, longer
  <2>4. BoxInv'
    <3>1. LastReadable(Append(conn.asked, r)) = IF r = Malformed THEN conn.box ELSE r
      BY <2>1, LastAppended DEF StreamInv, StreamTypes, BoxInv
    <3> QED
      BY <2>2, <3>1 DEF StreamInv, StreamTypes, BoxInv, BoxFor
  <2>5. OrderInv'
    <3>1. conn'.got = conn.got /\ conn'.joined = conn.joined /\ conn'.next = conn.next
          /\ conn'.asked = Append(conn.asked, r)
      BY <2>2 DEF StreamInv, StreamTypes
    <3>2. ASSUME NEW i \in DOMAIN conn.got
          PROVE  /\ SubSeq(conn'.asked, 1, conn.got[i].asked) = SubSeq(conn.asked, 1, conn.got[i].asked)
                 /\ conn.got[i].asked <= Len(conn'.asked)
      <4>1. conn.asked \in Seq(Requests) /\ conn.got[i].asked \in 0..Len(conn.asked)
        BY StreamFields DEF StreamInv, OrderInv
      <4> QED
        BY <2>1, <3>1, <4>1, EarlierRequests
    <3>3. ASSUME NEW i \in DOMAIN conn.got
          PROVE  /\ conn'.got[i].update > (IF i = 1 THEN conn'.joined ELSE conn'.got[i - 1].update)
                 /\ conn'.got[i].update < conn'.next
                 /\ conn'.got[i].asked <= Len(conn'.asked)
                 /\ conn'.got[i].cells = CellsOf(conn'.got[i].update)
                      \cap LastReadable(SubSeq(conn'.asked, 1, conn'.got[i].asked))
      <4>1. /\ conn.got[i].update > (IF i = 1 THEN conn.joined ELSE conn.got[i - 1].update)
            /\ conn.got[i].update < conn.next
            /\ conn.got[i].cells = CellsOf(conn.got[i].update)
                 \cap LastReadable(SubSeq(conn.asked, 1, conn.got[i].asked))
        BY DEF StreamInv, OrderInv
      <4>2. conn'.got = conn.got /\ conn'.joined = conn.joined /\ conn'.next = conn.next
        BY <3>1
      <4> QED
        BY <3>2, <4>1, <4>2
    <3> QED
      BY <3>1, <3>3 DEF OrderInv
  <2>6. CountInv'
    BY <2>2 DEF StreamInv, StreamTypes, CountInv
  <2> QED
    BY <2>3, <2>4, <2>5, <2>6 DEF StreamInv
<1>5. CASE TakeUpdate
  <2> DEFINE new == [update |-> conn.next, cells |-> Filtered(conn.next), asked |-> Len(conn.asked)]
  <2>1. /\ sent' = sent /\ inbox' = inbox
        /\ conn' = [conn EXCEPT !.next = conn.next + 1, !.got = Append(conn.got, new)]
        /\ conn.next <= sent
    BY <1>5 DEF TakeUpdate, Oldest, StreamInv, StreamTypes
  <2>2. new \in Delivery
    BY DEF StreamInv, StreamTypes, Delivery, Filtered, Cells
  <2>3. new.cells = CellsOf(conn.next) \cap LastReadable(SubSeq(conn.asked, 1, new.asked))
    <3>1. SubSeq(conn.asked, 1, Len(conn.asked)) = conn.asked
      BY DEF StreamInv, StreamTypes
    <3> QED
      BY <3>1 DEF StreamInv, BoxInv, Filtered
  <2>4. new.update = conn.next /\ new.asked = Len(conn.asked)
    OBVIOUS
  <2> HIDE DEF new
  <2>5. StreamTypes'
    <3> DEFINE longer == Append(conn.got, new)
               after == conn.next + 1
    <3>1. longer \in Seq(Delivery) /\ after \in Nat \ {0}
      BY <1>f, <2>2, StreamFields DEF StreamInv
    <3>2. conn' = [conn EXCEPT !.next = after, !.got = longer]
      BY <2>1
    <3> HIDE DEF longer, after
    <3> QED
      BY <2>1, <3>1, <3>2 DEF StreamInv, StreamTypes
  <2>6. BoxInv'
    BY <2>1 DEF StreamInv, StreamTypes, BoxInv
  <2>7. OrderInv'
    <3> DEFINE n == Len(conn.got)
    <3>1. /\ n \in Nat /\ DOMAIN conn.got = 1..n /\ DOMAIN conn'.got = 1..(n + 1)
          /\ conn'.got[n + 1] = new /\ \A i \in 1..n : conn'.got[i] = conn.got[i]
      BY <2>1, <2>2 DEF StreamInv, StreamTypes
    <3>2. conn'.next = conn.next + 1 /\ conn'.asked = conn.asked /\ conn'.joined = conn.joined
          /\ conn.next \in Nat /\ conn.joined \in Nat /\ Len(conn.asked) \in Nat
      BY <2>1 DEF StreamInv, StreamTypes
    <3>3. ASSUME NEW i \in 1..n
          PROVE  /\ conn.got[i].update < conn'.next
                 /\ conn'.got[i] = conn.got[i]
                 /\ i # 1 => conn'.got[i - 1] = conn.got[i - 1]
      <4>1. conn.got[i].update \in Nat
        BY <3>1, StreamFields DEF StreamInv
      <4>2. conn.got[i].update < conn.next
        BY <3>1 DEF StreamInv, OrderInv
      <4>3. i # 1 => i - 1 \in 1..n
        BY <3>1
      <4>4. conn.got[i].update < conn.next + 1
        BY <1>f, <4>1, <4>2
      <4>5. conn'.got[i] = conn.got[i] /\ (i # 1 => conn'.got[i - 1] = conn.got[i - 1])
        BY <3>1, <4>3
      <4> HIDE DEF n
      <4> QED
        BY <3>2, <4>4, <4>5
    <3>4. conn.next > (IF n + 1 = 1 THEN conn.joined ELSE conn.got[n].update)
      <4>1. CASE n = 0
        <5>1. joined < next
          BY <1>g
        <5> QED
          BY <4>1, <5>1 DEF joined, next
      <4>2. CASE n # 0
        <5>1. n \in DOMAIN conn.got /\ n + 1 # 1
          <6> HIDE DEF n
          <6> QED
            BY <3>1, <4>2
        <5>2. conn.got[n].update < conn.next /\ conn.got[n].update \in Nat
          BY <5>1, StreamFields DEF StreamInv, OrderInv
        <5> HIDE DEF n
        <5> QED
          BY <3>2, <5>1, <5>2
      <4> QED
        BY <4>1, <4>2
    <3> HIDE DEF n
    <3>5. ASSUME NEW i \in 1..n
          PROVE  /\ conn'.got[i].update > (IF i = 1 THEN conn'.joined ELSE conn'.got[i - 1].update)
                 /\ conn'.got[i].update < conn'.next
                 /\ conn'.got[i].asked <= Len(conn'.asked)
                 /\ conn'.got[i].cells = CellsOf(conn'.got[i].update)
                      \cap LastReadable(SubSeq(conn'.asked, 1, conn'.got[i].asked))
      BY <3>1, <3>2, <3>3 DEF StreamInv, OrderInv
    <3>6. /\ conn'.got[n + 1].update > (IF n + 1 = 1 THEN conn'.joined ELSE conn'.got[n].update)
          /\ conn'.got[n + 1].update < conn'.next
          /\ conn'.got[n + 1].asked <= Len(conn'.asked)
          /\ conn'.got[n + 1].cells = CellsOf(conn'.got[n + 1].update)
               \cap LastReadable(SubSeq(conn'.asked, 1, conn'.got[n + 1].asked))
      BY <2>3, <2>4, <3>1, <3>2, <3>4
    <3> QED
      BY <3>1, <3>5, <3>6 DEF OrderInv
  <2>8. CountInv'
    <3>0. sent' = sent /\ conn.next <= sent
      BY <2>1
    <3>1. conn'.next = conn.next + 1 /\ conn'.joined = conn.joined /\ conn'.skipped = conn.skipped
      BY <2>1 DEF StreamInv, StreamTypes
    <3>2. Len(conn'.got) = Len(conn.got) + 1
      BY <2>1, <2>2 DEF StreamInv, StreamTypes
    <3>3. joined + (count + 1) + lost = (next + 1) - 1
      BY <1>g
    <3>4. conn'.joined + Len(conn'.got) + conn'.skipped = conn'.next - 1
      BY <3>1, <3>2, <3>3 DEF joined, count, lost, next
    <3>5. conn'.next <= sent' + 1
      BY <1>f, <3>0, <3>1
    <3>6. conn'.skipped > 0 => conn'.skipped <= sent' - conn'.joined - Capacity
      BY <1>d, <3>0, <3>1
    <3> QED
      BY <3>4, <3>5, <3>6 DEF CountInv
  <2> QED
    BY <2>5, <2>6, <2>7, <2>8 DEF StreamInv
<1>6. CASE Lag
  <2>1. /\ sent' = sent /\ inbox' = inbox /\ Oldest = sent - Capacity + 1 /\ Oldest > conn.next
        /\ conn' = [conn EXCEPT !.next = Oldest, !.skipped = conn.skipped + Oldest - conn.next]
    BY <1>p, <1>6 DEF Lag, Skipped, Oldest, StreamInv, StreamTypes
  <2>2. StreamTypes'
    <3> DEFINE k == Oldest
               more == conn.skipped + Oldest - conn.next
    <3>1. sent \in Nat /\ k = (sent - Capacity) + 1
      BY <1>f, <2>1
    <3>2. k \in Int
      BY <1>p, <3>1
    <3>3. k > next
      BY <2>1 DEF next
    <3>4. conn' = [conn EXCEPT !.next = k, !.skipped = more] /\ more = lost + k - next
      BY <2>1 DEF lost, next
    <3> HIDE DEF k, more
    <3>5. k \in Nat \ {0} /\ more \in Nat
      BY <1>g, <3>2, <3>3, <3>4
    <3> QED
      BY <2>1, <3>4, <3>5 DEF StreamInv, StreamTypes
  <2>3. BoxInv' /\ OrderInv'
    <3>1. conn'.got = conn.got /\ conn'.asked = conn.asked /\ conn'.joined = conn.joined
          /\ conn'.box = conn.box /\ conn'.next = Oldest
      BY <2>1 DEF StreamInv, StreamTypes
    <3>2. ASSUME NEW i \in DOMAIN conn.got
          PROVE  conn.got[i].update < Oldest
      <4>1. conn.got[i].update \in Nat /\ Oldest \in Int
        BY <1>f, <1>p, <2>1, StreamFields DEF StreamInv
      <4>2. conn.got[i].update < conn.next
        BY DEF StreamInv, OrderInv
      <4> QED
        BY <1>f, <2>1, <4>1, <4>2
    <3>3. BoxInv'
      BY <3>1 DEF StreamInv, BoxInv
    <3>4. OrderInv'
      BY <3>1, <3>2 DEF StreamInv, OrderInv
    <3> QED
      BY <3>3, <3>4
  <2>4. CountInv'
    <3> DEFINE k == (sent - Capacity) + 1
    <3>0. sent' = sent /\ k > conn.next
      BY <2>1
    <3>1. /\ conn'.next = k /\ conn'.joined = conn.joined /\ conn'.got = conn.got
          /\ conn'.skipped = conn.skipped + k - conn.next
      BY <2>1 DEF StreamInv, StreamTypes
    <3>2. /\ sent \in Nat /\ k \in Int /\ k = (sent - Capacity) + 1 
      BY <1>f, <1>p
    <3>a. joined + count + (lost + k - next) = k - 1
      BY <1>g, <3>2
    <3>b. lost + k - next <= sent - joined - Capacity
      BY <1>g, <1>p, <3>2
    <3>c. k <= sent + 1
      BY <1>p, <3>2
    <3> HIDE DEF k
    <3>3. conn'.joined + Len(conn'.got) + conn'.skipped = conn'.next - 1
      BY <3>1, <3>a DEF joined, count, lost, next
    <3>4. conn'.next <= sent' + 1
      BY <3>0, <3>1, <3>c
    <3>5. conn'.skipped <= sent' - conn'.joined - Capacity
      BY <3>0, <3>1, <3>b DEF joined, lost, next
    <3> QED
      BY <3>3, <3>4, <3>5 DEF CountInv
  <2> QED
    BY <2>2, <2>3, <2>4 DEF StreamInv
<1>7. CASE Disconnect
  <2>1. sent' = sent /\ inbox' = <<>> /\ conn' = Closed
    BY <1>7 DEF Disconnect
  <2> QED
    BY <1>0, <2>1 DEF Closed, StreamInv, StreamTypes, BoxInv, OrderInv, CountInv
<1>8. CASE UNCHANGED live
  BY <1>8 DEF live, StreamInv, StreamTypes, BoxInv, OrderInv, CountInv
<1> QED
  BY <1>1, <1>2, <1>3, <1>4, <1>5, <1>6, <1>7, <1>8 DEF LiveNext

-----------------------------------------------------------------------------
(* The records of fires.                                                   *)

StoredIds == {e \in Ids : events[e] # None}
At(X, p) == {e \in X : events[e].place = p}
EventOf(i, l) == [batch |-> i, line |-> l, place |-> Row(i, l).place]
Events == UNION {{EventOf(i, l) : l \in Rows(i)} : i \in Imports}
ImportSteps == {"begin", "persist", "finish", "fail", "done"}
AuditSteps == {"read", "layers", "rules", "register", "persist", "refused", "done"}
Statuses == {"none", "running", "failed", "succeeded", "partially_succeeded"}
Counts == [received : Nat, created : Nat, ignored : Int, rejected : Nat]
SeenRows == [place : Places, count : Nat]
Seens == UNION {[S -> SeenRows] : S \in SUBSET Ids}
Assessments == [count : Nat, layers : Nat]
Signalled == UNION {[signals : [t -> Nat]] : t \in Twins}

RecordTypes ==
  /\ import \in [Imports -> [step : ImportSteps, count : Counts]]
  /\ ledger \in [Imports -> [status : Statuses, count : Counts]]
  /\ events \in [Ids -> Events \cup {None}]
  /\ layers \in Nat
  /\ audit \in [Audits -> [step : AuditSteps, seen : Seens \cup {<<>>}, layers : Nat]]
  /\ groups \in [Places -> Nat]
  /\ assessed \in [Ids -> Assessments \cup {None}]
  /\ pairs \in [Twins -> Signalled \cup {None}]

\* What the counters of a batch say of its rows.
Accounted(i, c) ==
  /\ c.received = Len(FileOf[i])
  /\ c.received = c.created + c.ignored + c.rejected
  /\ c.created = Cardinality({e \in Ids : events[e] # None /\ events[e].batch = i})
  /\ (c.rejected = 0) <=> (\A l \in Rows(i) : <<i, l>> \in raw => Row(i, l).valid)
  /\ \A l \in Rows(i) : Row(i, l).valid =>
       \/ events[Row(i, l).id] # None
       \/ \E k \in 1..(l - 1) : Row(i, k).id = Row(i, l).id /\ ~Row(i, k).valid

\* Before its transaction an import has stored nothing; after it, it knows what.
ImportInv(i) ==
  /\ import[i].step \in {"begin", "persist"} =>
       /\ \A l \in Rows(i) : <<i, l>> \notin raw
       /\ \A e \in Ids : events[e] # None => events[e].batch # i
  /\ import[i].step # "done" => ledger[i].status \in {"none", "running"}
  /\ import[i].step = "finish" => Accounted(i, import[i].count)
  /\ ledger[i].status \in {"succeeded", "partially_succeeded"} =>
       /\ Accounted(i, ledger[i].count)
       /\ (ledger[i].status = "succeeded") <=> (ledger[i].count.rejected = 0)

ImportsInv == \A i \in Imports : ImportInv(i)

\* What an audit reads when X is the set of events.
SeenOf(a, X) ==
  [e \in ScopeOf[a] \cap X |->
    [place |-> events[e].place, count |-> Cardinality(At(X, events[e].place))]]

Holding == {"layers", "rules", "register", "persist", "refused"}
AuditedAt(p) == {e \in Ids : assessed[e] # None /\ events[e].place = p}

\* The sets of events that audits have read are nested, and each audit in
\* progress, and each group, is of one of them.
ReadAt(C) ==
  /\ \A X \in C : X \subseteq StoredIds
  /\ \A X, Y \in C : X \subseteq Y \/ Y \subseteq X
  /\ \A a \in Audits : audit[a].step \in Holding => \E X \in C : SeenBy(a) = SeenOf(a, X)
  /\ \A p \in Places :
       \/ groups[p] = 0 /\ AuditedAt(p) = {}
       \/ \E X \in C : groups[p] = Cardinality(At(X, p)) /\ groups[p] # 0 /\ AuditedAt(p) \subseteq X

ChainInv == \E C \in SUBSET SUBSET Ids : ReadAt(C)

AgreeInv ==
  /\ \A e \in Ids : assessed[e] # None =>
       events[e] # None /\ assessed[e].count = groups[events[e].place]
  /\ \A t \in Twins : pairs[t] # None =>
       \A e \in t : assessed[e] # None /\ pairs[t].signals[e] = assessed[e].count

RefusedInv ==
  \A a \in Audits : audit[a].step = "refused" =>
    \/ rules # None /\ rules # RulesOf[a]
    \/ \E e \in DOMAIN SeenBy(a) : groups[SeenBy(a)[e].place] \notin {0, SeenBy(a)[e].count}

RecordsInv == RecordTypes /\ ImportsInv /\ ChainInv /\ AgreeInv /\ RefusedInv

-----------------------------------------------------------------------------
(* Rows and events.                                                        *)

LEMMA PartsCounted ==
  ASSUME NEW S, IsFiniteSet(S), NEW T, T \subseteq S
  PROVE  /\ Cardinality(S) \in Nat /\ Cardinality(T) \in Nat /\ Cardinality(S \ T) \in Nat
         /\ Cardinality(S) = Cardinality(T) + Cardinality(S \ T)
         /\ Cardinality(S \ T) = 0 <=> S = T
<1>1. IsFiniteSet(T) /\ IsFiniteSet(S \ T)
  BY FS_Subset
<1>2. T \cup (S \ T) = S /\ T \cap (S \ T) = {} /\ (S \ T = {} <=> S = T)
  OBVIOUS
<1>3. Cardinality(T \cup (S \ T)) = Cardinality(T) + Cardinality(S \ T) - Cardinality(T \cap (S \ T))
  BY <1>1, FS_Union
<1>4. Cardinality(S) \in Nat /\ Cardinality(T) \in Nat /\ Cardinality(S \ T) \in Nat
  BY <1>1, FS_CardinalityType
<1>5. Cardinality({}) = 0 /\ (Cardinality(S \ T) = 0 <=> S \ T = {})
  BY <1>1, FS_EmptySet
<1>6. Cardinality(S) = Cardinality(T) + Cardinality(S \ T) - Cardinality({})
  BY <1>2, <1>3
<1>7. Cardinality(S \ T) = 0 <=> S = T
  BY <1>2, <1>5
<1> QED
  BY <1>4, <1>5, <1>6, <1>7

LEMMA RowsOfFile ==
  ASSUME NEW i \in Imports
  PROVE  /\ Rows(i) = 1..Len(FileOf[i]) /\ Len(FileOf[i]) \in Nat
         /\ IsFiniteSet(Rows(i)) /\ Cardinality(Rows(i)) = Len(FileOf[i])
         /\ \A l \in Rows(i) : Row(i, l).id \in Ids \cup {None}
                               /\ (Row(i, l).valid => Row(i, l).id \in Ids)
<1>1. Rows(i) = 1..Len(FileOf[i]) /\ Len(FileOf[i]) \in Nat
  BY FilesAssumption DEF Rows
<1>2. IsFiniteSet(1..Len(FileOf[i])) /\ Cardinality(1..Len(FileOf[i])) = Len(FileOf[i])
  BY <1>1, FS_Interval
<1> QED
  BY <1>1, <1>2, FilesAssumption DEF Rows, Row

LEMMA EventsOfRows ==
  ASSUME NEW i \in Imports, NEW l \in Rows(i)
  PROVE  /\ EventOf(i, l) \in Events /\ EventOf(i, l) # None
         /\ EventOf(i, l).batch = i /\ EventOf(i, l).place \in Places
<1>1. EventOf(i, l) \in [batch : {i}, line : {l}, place : {FileOf[i][l].place}]
  BY DEF EventOf, Row
<1>2. None \notin [batch : {i}, line : {l}, place : {FileOf[i][l].place}]
  BY RecordsAssumption DEF Rows
<1> QED
  BY <1>1, <1>2 DEF Events, EventOf, Places

LEMMA EventPlaces ==
  ASSUME RecordTypes, NEW e \in Ids, events[e] # None
  PROVE  events[e] \in Events /\ events[e].place \in Places
<1>1. events[e] \in Events
  BY DEF RecordTypes
<1>2. PICK i \in Imports : \E l \in Rows(i) : events[e] = EventOf(i, l)
  BY <1>1 DEF Events
<1>3. PICK l \in Rows(i) : events[e] = EventOf(i, l)
  BY <1>2
<1> QED
  BY <1>1, <1>3, EventsOfRows

LEMMA CountedRows ==
  ASSUME NEW i \in Imports
  PROVE  /\ CreatedRows(i) \subseteq ValidRows(i) /\ ValidRows(i) \subseteq NewRows(i)
         /\ NewRows(i) \subseteq Rows(i)
         /\ Counted(i) \in Counts /\ Counted(i).received = Len(FileOf[i])
         /\ Counted(i).created = Cardinality(CreatedRows(i))
         /\ Counted(i).received = Counted(i).created + Counted(i).ignored + Counted(i).rejected
         /\ (Counted(i).rejected = 0) <=> (ValidRows(i) = NewRows(i))
<1>1. /\ CreatedRows(i) \subseteq ValidRows(i) /\ ValidRows(i) \subseteq NewRows(i)
      /\ NewRows(i) \subseteq Rows(i)
  BY DEF CreatedRows, ValidRows, NewRows
<1>2. /\ IsFiniteSet(Rows(i)) /\ IsFiniteSet(NewRows(i)) /\ IsFiniteSet(ValidRows(i))
      /\ Len(FileOf[i]) \in Nat /\ Cardinality(Rows(i)) = Len(FileOf[i])
  BY <1>1, RowsOfFile, FS_Subset
<1>3. /\ Cardinality(NewRows(i)) \in Nat /\ Cardinality(ValidRows(i)) \in Nat
      /\ Cardinality(NewRows(i)) = Cardinality(ValidRows(i)) + Cardinality(NewRows(i) \ ValidRows(i))
      /\ Cardinality(NewRows(i) \ ValidRows(i)) \in Nat
      /\ (Cardinality(NewRows(i) \ ValidRows(i)) = 0 <=> NewRows(i) = ValidRows(i))
  BY <1>1, <1>2, PartsCounted
<1>4. /\ Cardinality(CreatedRows(i)) \in Nat /\ Cardinality(ValidRows(i) \ CreatedRows(i)) \in Nat
      /\ Cardinality(ValidRows(i)) = Cardinality(CreatedRows(i)) + Cardinality(ValidRows(i) \ CreatedRows(i))
  BY <1>1, <1>2, PartsCounted
<1> DEFINE n == Cardinality(NewRows(i))
           v == Cardinality(ValidRows(i))
           c == Cardinality(CreatedRows(i))
           w == Cardinality(ValidRows(i) \ CreatedRows(i))
           x == Cardinality(NewRows(i) \ ValidRows(i))
           f == Len(FileOf[i])
<1>5. Counted(i) = [received |-> f, created |-> c, ignored |-> f - n + w, rejected |-> x]
  BY DEF Counted
<1>6. f \in Nat /\ n \in Nat /\ v \in Nat /\ c \in Nat /\ w \in Nat /\ x \in Nat /\ n = v + x /\ v = c + w
  BY <1>2, <1>3, <1>4
<1> HIDE DEF n, v, c, w, x, f
<1>7. f - n + w \in Int /\ f = c + (f - n + w) + x
  BY <1>6
<1>8. Counted(i) \in Counts
  BY <1>5, <1>6, <1>7 DEF Counts
<1> QED
  BY <1>1, <1>3, <1>5, <1>7, <1>8 DEF f, c, x

-----------------------------------------------------------------------------
(* The import.                                                             *)

\* Events are only added.
EventsGrow ==
  /\ events' \in [Ids -> Events \cup {None}]
  /\ \A e \in Ids : events[e] # None => events'[e] = events[e]

LEMMA StoredEvents ==
  ASSUME RecordTypes, NEW i \in Imports, Stored(i)
  PROVE  /\ EventsGrow
         /\ \A l \in CreatedRows(i) : Row(i, l).id \in Ids /\ events[Row(i, l).id] = None
         /\ \A e \in Ids : IF \E l \in CreatedRows(i) : Row(i, l).id = e
                           THEN events'[e] # None /\ events'[e].batch = i
                           ELSE events'[e] = events[e]
<1>1. ASSUME NEW l \in CreatedRows(i)
      PROVE  l \in Rows(i) /\ Row(i, l).id \in Ids /\ events[Row(i, l).id] = None
  <2>1. l \in Rows(i) /\ Row(i, l).valid /\ events[Row(i, l).id] = None
    BY DEF CreatedRows, ValidRows, NewRows
  <2> QED
    BY <2>1, RowsOfFile
<1>2. ASSUME NEW e \in Ids
      PROVE  IF \E l \in CreatedRows(i) : Row(i, l).id = e
             THEN events'[e] \in Events /\ events'[e] # None /\ events'[e].batch = i
             ELSE events'[e] = events[e]
  <2>1. CASE \E l \in CreatedRows(i) : Row(i, l).id = e
    <3> DEFINE m == CHOOSE l \in CreatedRows(i) : Row(i, l).id = e
    <3>1. m \in CreatedRows(i)
      BY <2>1
    <3>2. events'[e] = EventOf(i, m)
      BY <2>1 DEF Stored, EventOf
    <3> QED
      BY <1>1, <2>1, <3>1, <3>2, EventsOfRows
  <2>2. CASE ~ \E l \in CreatedRows(i) : Row(i, l).id = e
    BY <2>2 DEF Stored
  <2> QED
    BY <2>1, <2>2
<1>3. events' = [e \in Ids |-> events'[e]]
  BY DEF Stored
<1>4. \A e \in Ids : events'[e] \in Events \cup {None}
  BY <1>2 DEF RecordTypes
<1>5. EventsGrow
  BY <1>1, <1>2, <1>3, <1>4 DEF EventsGrow
<1> QED
  BY <1>1, <1>2, <1>5

\* The events that an import creates are those of its created rows, one each.
LEMMA CreatedEvents ==
  ASSUME RecordTypes, NEW i \in Imports, Stored(i),
         \A e \in Ids : events[e] # None => events[e].batch # i
  PROVE  Cardinality({e \in Ids : events'[e] # None /\ events'[e].batch = i}) = Cardinality(CreatedRows(i))
<1> DEFINE E == {e \in Ids : events'[e] # None /\ events'[e].batch = i}
           f == [l \in CreatedRows(i) |-> Row(i, l).id]
<1>1. \A e \in Ids : e \in E <=> \E l \in CreatedRows(i) : Row(i, l).id = e
  BY StoredEvents
<1>2. \A l \in CreatedRows(i) : Row(i, l).id \in Ids
  BY StoredEvents
<1>3. ASSUME NEW k \in CreatedRows(i), NEW l \in CreatedRows(i), Row(i, k).id = Row(i, l).id PROVE k = l
  <2>1. k \in NewRows(i) /\ l \in NewRows(i) /\ k \in Nat /\ l \in Nat /\ k >= 1 /\ l >= 1
    BY RowsOfFile DEF CreatedRows, ValidRows, NewRows
  <2>2. Row(i, l).id # None
    BY <1>2, RecordsAssumption
  <2>3. ~(k < l)
    BY <1>3, <2>1, <2>2 DEF NewRows
  <2>4. ~(l < k)
    BY <1>3, <2>1, <2>2 DEF NewRows
  <2> QED
    BY <2>1, <2>3, <2>4
<1>4. f \in Bijection(CreatedRows(i), E)
  <2>1. f \in [CreatedRows(i) -> E]
    BY <1>1, <1>2
  <2>2. \A k, l \in CreatedRows(i) : f[k] = f[l] => k = l
    BY <1>3
  <2>3. \A e \in E : \E l \in CreatedRows(i) : f[l] = e
    BY <1>1
  <2> HIDE DEF f, E
  <2> QED
    BY <2>1, <2>2, <2>3 DEF Bijection, Injection, IsInjective, Surjection
<1>5. IsFiniteSet(CreatedRows(i))
  BY CountedRows, RowsOfFile, FS_Subset
<1>6. ExistsBijection(CreatedRows(i), E)
  BY <1>4 DEF ExistsBijection
<1> HIDE DEF E
<1>7. Cardinality(E) = Cardinality(CreatedRows(i))
  BY <1>5, <1>6, FS_Bijection
<1> QED
  BY <1>7 DEF E

LEMMA StoredAccounted ==
  ASSUME RecordTypes, NEW i \in Imports, Stored(i),
         \A e \in Ids : events[e] # None => events[e].batch # i,
         \A l \in Rows(i) : <<i, l>> \notin raw,
         NEW c, c = Counted(i)
  PROVE  Accounted(i, c)'
<1>1. /\ c.received = Len(FileOf[i]) /\ c.received = c.created + c.ignored + c.rejected
      /\ c.created = Cardinality({e \in Ids : events'[e] # None /\ events'[e].batch = i})
      /\ (c.rejected = 0) <=> (ValidRows(i) = NewRows(i))
  BY CountedRows, CreatedEvents
<1>2. \A l \in Rows(i) : <<i, l>> \in raw' <=> l \in NewRows(i)
  BY DEF Stored
<1>3. (c.rejected = 0) <=> (\A l \in Rows(i) : <<i, l>> \in raw' => Row(i, l).valid)
  BY <1>1, <1>2 DEF ValidRows, NewRows
<1>4. ASSUME NEW l \in Rows(i), Row(i, l).valid
      PROVE  \/ events'[Row(i, l).id] # None
             \/ \E k \in 1..(l - 1) : Row(i, k).id = Row(i, l).id /\ ~Row(i, k).valid
  <2> DEFINE id == Row(i, l).id
             Same == {k \in 1..l : Row(i, k).id = id}
  <2>1. id \in Ids /\ l \in Nat /\ l \in 1..l /\ 1..l \subseteq Rows(i)
    BY <1>4, RowsOfFile
  <2>2. PICK k \in Same : \A m \in Same : k <= m
    <3>1. Same \subseteq Nat /\ Same # {}
      BY <2>1
    <3> HIDE DEF Same
    <3> QED
      BY <3>1, LeastNumber
  <2>3. k \in Rows(i) /\ k <= l /\ k \in Nat /\ k >= 1 /\ Row(i, k).id = id
    BY <2>1, <2>2
  <2>4. k \in NewRows(i)
    <3>1. ASSUME NEW m \in 1..(k - 1) PROVE Row(i, m).id # id
      BY <2>1, <2>2, <2>3
    <3> QED
      BY <2>3, <3>1 DEF NewRows
  <2>5. CASE Row(i, k).valid
    <3>1. events[id] # None \/ k \in CreatedRows(i)
      BY <2>3, <2>4, <2>5 DEF CreatedRows, ValidRows
    <3>2. events'[id] # None
      BY <2>1, <2>3, <3>1, StoredEvents DEF EventsGrow
    <3> QED
      BY <3>2
  <2>6. CASE ~Row(i, k).valid
    <3>1. k # l
      BY <1>4, <2>6
    <3>2. k \in 1..(l - 1)
      BY <2>1, <2>3, <3>1
    <3> QED
      BY <2>3, <2>6, <3>2
  <2> QED
    BY <2>5, <2>6
<1> QED
  BY <1>1, <1>3, <1>4 DEF Accounted

\* What was accounted for stays so, whatever others import.
LEMMA AccountedStays ==
  ASSUME EventsGrow, NEW j \in Imports, NEW c, Accounted(j, c),
         \A l \in Rows(j) : <<j, l>> \in raw' <=> <<j, l>> \in raw,
         \A e \in Ids : events[e] = None => events'[e] = None \/ events'[e].batch # j
  PROVE  Accounted(j, c)'
<1>1. {e \in Ids : events'[e] # None /\ events'[e].batch = j} = {e \in Ids : events[e] # None /\ events[e].batch = j}
  BY DEF EventsGrow
<1>2. ASSUME NEW l \in Rows(j), Row(j, l).valid
      PROVE  \/ events'[Row(j, l).id] # None
             \/ \E k \in 1..(l - 1) : Row(j, k).id = Row(j, l).id /\ ~Row(j, k).valid
  <2>1. Row(j, l).id \in Ids
    BY <1>2, RowsOfFile
  <2>2. events[Row(j, l).id] # None => events'[Row(j, l).id] # None
    BY <2>1 DEF EventsGrow
  <2> QED
    BY <1>2, <2>2 DEF Accounted
<1>3. (c.rejected = 0) <=> (\A l \in Rows(j) : <<j, l>> \in raw' => Row(j, l).valid)
  BY DEF Accounted
<1> QED
  BY <1>1, <1>2, <1>3 DEF Accounted

\* A step of one import is enough to look at.
LEMMA OtherImports ==
  ASSUME RecordTypes, ImportsInv, NEW i \in Imports,
         \A j \in Imports \ {i} : import'[j] = import[j] /\ ledger'[j] = ledger[j],
         Stored(i) \/ UNCHANGED <<raw, events>>,
         ImportInv(i)'
  PROVE  ImportsInv' /\ EventsGrow
<1>1. /\ EventsGrow
      /\ \A e \in Ids : events[e] = None => events'[e] = None \/ events'[e].batch = i
  <2>1. CASE Stored(i)
    BY <2>1, StoredEvents
  <2>2. CASE UNCHANGED <<raw, events>>
    BY <2>2 DEF RecordTypes, EventsGrow
  <2> QED
    BY <2>1, <2>2
<1>2. ASSUME NEW j \in Imports, j # i PROVE ImportInv(j)'
  <2>1. \A l \in Rows(j) : <<j, l>> \in raw' <=> <<j, l>> \in raw
    BY <1>2 DEF Stored
  <2>2. \A e \in Ids : events[e] = None => events'[e] = None \/ events'[e].batch # j
    BY <1>1, <1>2
  <2>3. \A e \in Ids : events'[e] # None /\ events'[e].batch = j => events[e] # None /\ events[e].batch = j
    BY <1>1, <2>2 DEF EventsGrow
  <2>4. import'[j] = import[j] /\ ledger'[j] = ledger[j] /\ ImportInv(j)
    BY <1>2 DEF ImportsInv
  <2>5. \A c : Accounted(j, c) => Accounted(j, c)'
    BY <1>1, <2>1, <2>2, AccountedStays
  <2>6. import[j].step = "finish" => Accounted(j, import[j].count)'
    <3>1. PICK c : c = import[j].count
      OBVIOUS
    <3>2. Accounted(j, c) => Accounted(j, c)'
      BY <2>5
    <3>3. import'[j].count = c
      BY <2>4, <3>1
    <3>4. import[j].step = "finish" => Accounted(j, c)
      BY <2>4, <3>1 DEF ImportInv
    <3> QED
      BY <3>2, <3>3, <3>4 DEF Accounted
  <2>7. ledger[j].status \in {"succeeded", "partially_succeeded"} => Accounted(j, ledger[j].count)'
    <3>1. PICK c : c = ledger[j].count
      OBVIOUS
    <3>2. Accounted(j, c) => Accounted(j, c)'
      BY <2>5
    <3>3. ledger'[j].count = c
      BY <2>4, <3>1
    <3>4. ledger[j].status \in {"succeeded", "partially_succeeded"} => Accounted(j, c)
      BY <2>4, <3>1 DEF ImportInv
    <3> QED
      BY <3>2, <3>3, <3>4 DEF Accounted
  <2>8. import[j].step \in {"begin", "persist"} =>
          (\A l \in Rows(j) : <<j, l>> \notin raw') /\ (\A e \in Ids : events'[e] # None => events'[e].batch # j)
    BY <2>1, <2>3, <2>4 DEF ImportInv
  <2> QED
    BY <2>4, <2>6, <2>7, <2>8 DEF ImportInv
<1> QED
  BY <1>1, <1>2 DEF ImportsInv

\* The progress of an import and its row in the ledger.
LEMMA ImportTypes ==
  ASSUME RecordTypes, NEW i \in Imports
  PROVE  /\ import[i] \in [step : ImportSteps, count : Counts]
         /\ ledger[i] \in [status : Statuses, count : Counts]
         /\ import \in [Imports -> [step : ImportSteps, count : Counts]]
         /\ ledger \in [Imports -> [status : Statuses, count : Counts]]
BY DEF RecordTypes

LEMMA NothingCounted == NoCount \in Counts
BY DEF NoCount, Counts

\* An import moves to another step, and may end with a row of the ledger.
LEMMA ImportMoves ==
  ASSUME RecordTypes, ImportsInv, NEW i \in Imports,
         NEW step \in ImportSteps, NEW count \in Counts, NEW row \in [status : Statuses, count : Counts],
         import' = [import EXCEPT ![i] = [step |-> step, count |-> count]],
         ledger' = [ledger EXCEPT ![i] = row],
         Stored(i) \/ UNCHANGED <<raw, events>>, UNCHANGED <<layers, auditing>>,
         step = "persist" => import[i].step = "begin" /\ UNCHANGED <<raw, events>>,
         step # "begin",
         step # "done" => row.status \in {"none", "running"},
         step = "finish" => Accounted(i, count)',
         row.status \in {"succeeded", "partially_succeeded"} =>
           /\ Accounted(i, row.count)'
           /\ (row.status = "succeeded") <=> (row.count.rejected = 0)
  PROVE  RecordTypes' /\ ImportsInv' /\ EventsGrow
<1>1. /\ import'[i] = [step |-> step, count |-> count] /\ ledger'[i] = row
      /\ \A j \in Imports \ {i} : import'[j] = import[j] /\ ledger'[j] = ledger[j]
      /\ import' \in [Imports -> [step : ImportSteps, count : Counts]]
      /\ ledger' \in [Imports -> [status : Statuses, count : Counts]]
  BY ImportTypes
<1>2. step = "persist" => /\ \A l \in Rows(i) : <<i, l>> \notin raw'
                          /\ \A e \in Ids : events'[e] # None => events'[e].batch # i
  BY DEF ImportsInv, ImportInv
<1>3. import'[i].step = step /\ import'[i].count = count
  BY <1>1
<1>4. ImportInv(i)'
  BY <1>1, <1>2, <1>3 DEF ImportInv, Accounted
<1>5. ImportsInv' /\ EventsGrow
  BY <1>1, <1>4, OtherImports
<1> QED
  BY <1>1, <1>5 DEF RecordTypes, EventsGrow, auditing

LEMMA ImportSteps_ ==
  ASSUME RecordTypes, ImportsInv, NEW i \in Imports,
         \/ BeginImport(i) \/ ReadFails(i) \/ Persist(i) \/ PersistFails(i)
         \/ FinishImport(i) \/ ImportStops(i)
  PROVE  RecordTypes' /\ ImportsInv' /\ EventsGrow /\ UNCHANGED <<layers, auditing>>
<1>1. /\ import[i] \in [step : ImportSteps, count : Counts]
      /\ ledger[i] \in [status : Statuses, count : Counts]
      /\ import \in [Imports -> [step : ImportSteps, count : Counts]]
      /\ ledger \in [Imports -> [status : Statuses, count : Counts]]
      /\ ImportInv(i)
  BY ImportTypes DEF ImportsInv
<1>2. PICK step, count : import[i] = [step |-> step, count |-> count] /\ step \in ImportSteps /\ count \in Counts
  BY <1>1
<1>3. PICK row \in [status : Statuses, count : Counts] : row = ledger[i]
  BY <1>1
<1>4. ASSUME NEW s
      PROVE  [import EXCEPT ![i].step = s] = [import EXCEPT ![i] = [step |-> s, count |-> count]]
  <2>1. [import[i] EXCEPT !.step = s] = [step |-> s, count |-> count]
    BY <1>2
  <2>2. [import EXCEPT ![i].step = s] = [import EXCEPT ![i] = [import[i] EXCEPT !.step = s]]
    OBVIOUS
  <2> QED
    BY <2>1, <2>2
<1>5. UNCHANGED ledger => ledger' = [ledger EXCEPT ![i] = row]
  BY <1>1, <1>3
<1>6. "persist" \in ImportSteps /\ "finish" \in ImportSteps /\ "fail" \in ImportSteps /\ "done" \in ImportSteps
  BY DEF ImportSteps
<1>7. UNCHANGED <<layers, auditing>>
  BY DEF BeginImport, ReadFails, Persist, PersistFails, FinishImport, ImportStops
<1>8. /\ import[i].step = step /\ import[i].count = count
      /\ step # "done" => row.status \in {"none", "running"}
  BY <1>1, <1>2, <1>3 DEF ImportInv
<1>9. CASE BeginImport(i)
  <2>1. import' = [import EXCEPT ![i] = [step |-> "persist", count |-> count]]
    BY <1>4, <1>9 DEF BeginImport
  <2> DEFINE new == [status |-> "running", count |-> row.count]
  <2>2. ledger' = [ledger EXCEPT ![i] = new]
    <3>1. row = [status |-> row.status, count |-> row.count]
      OBVIOUS
    <3>2. [row EXCEPT !.status = "running"] = new
      BY <3>1
    <3>3. ledger' = [ledger EXCEPT ![i] = [ledger[i] EXCEPT !.status = "running"]]
      BY <1>9 DEF BeginImport
    <3> QED
      BY <1>3, <3>2, <3>3
  <2>3. new \in [status : Statuses, count : Counts] /\ new.status = "running"
    BY <1>3 DEF Statuses
  <2>4. UNCHANGED <<raw, events>> /\ import[i].step = "begin"
    BY <1>9 DEF BeginImport
  <2> HIDE DEF new
  <2>5. RecordTypes' /\ ImportsInv' /\ EventsGrow
    BY <1>2, <1>6, <1>7, <2>1, <2>2, <2>3, <2>4, ImportMoves
  <2> QED
    BY <1>7, <2>5
<1>10. ASSUME ReadFails(i) \/ ImportStops(i) \/ PersistFails(i) PROVE RecordTypes' /\ ImportsInv' /\ EventsGrow
  <2>1. PICK s \in {"fail", "done"} : import' = [import EXCEPT ![i] = [step |-> s, count |-> count]]
    BY <1>4, <1>10 DEF ReadFails, ImportStops, PersistFails
  <2>2. UNCHANGED ledger /\ (Stored(i) \/ UNCHANGED <<raw, events>>) /\ import[i].step # "done"
    BY <1>10 DEF ReadFails, ImportStops, PersistFails
  <2>3. row.status \in {"none", "running"}
    BY <1>8, <2>2
  <2> QED
    <3>1. s \in ImportSteps /\ s \notin {"begin", "persist", "finish"}
      BY ONLY <1>6, s \in {"fail", "done"}
    <3>2. ledger' = [ledger EXCEPT ![i] = row]
      BY <1>5, <2>2
    <3>3. row.status \notin {"succeeded", "partially_succeeded"}
      BY ONLY <2>3
    <3>4. count \in Counts /\ row \in [status : Statuses, count : Counts]
      BY <1>2, <1>3
    <3>5. Stored(i) \/ UNCHANGED <<raw, events>>
      BY <2>2
    <3> QED
      BY ONLY RecordTypes, ImportsInv, i \in Imports, <1>7, <2>1, <2>3, <3>1, <3>2, <3>3, <3>4, <3>5, ImportMoves
<1>11. CASE Persist(i)
  <2>1. PICK c \in Counts : c = Counted(i)
    BY CountedRows
  <2>2. import' = [import EXCEPT ![i] = [step |-> "finish", count |-> c]]
    BY <1>11, <2>1 DEF Persist
  <2>3. UNCHANGED ledger /\ Stored(i) /\ import[i].step = "persist"
    BY <1>11 DEF Persist
  <2>4. Accounted(i, c)'
    BY <1>1, <2>1, <2>3, StoredAccounted DEF ImportInv
  <2>5. row.status \in {"none", "running"}
    BY <1>8, <2>3
  <2> QED
    BY <1>5, <1>6, <1>7, <2>2, <2>3, <2>4, <2>5, ImportMoves
<1>12. CASE FinishImport(i)
  <2>1. import' = [import EXCEPT ![i] = [step |-> "done", count |-> count]]
    BY <1>4, <1>12 DEF FinishImport
  <2>2. UNCHANGED <<raw, events>> /\ ledger' = [ledger EXCEPT ![i] = Finished(i)] /\ step \in {"finish", "fail"}
    BY <1>8, <1>12 DEF FinishImport
  <2>3. ASSUME step = "fail" PROVE RecordTypes' /\ ImportsInv' /\ EventsGrow
    <3> DEFINE new == [status |-> "failed", count |-> NoCount]
    <3>1. ledger' = [ledger EXCEPT ![i] = new] /\ new.status = "failed"
      BY <1>8, <2>2, <2>3 DEF Finished
    <3>2. new \in [status : Statuses, count : Counts]
      BY NothingCounted DEF Statuses
    <3> HIDE DEF new
    <3>3. PICK n \in [status : Statuses, count : Counts] : n = new
      BY <3>2
    <3>4. ledger' = [ledger EXCEPT ![i] = n] /\ n.status = "failed"
      BY <3>1, <3>3
    <3>5. n.status \in {"succeeded", "partially_succeeded"} =>
            /\ Accounted(i, n.count)'
            /\ (n.status = "succeeded") <=> (n.count.rejected = 0)
      BY <3>4
    <3>6. UNCHANGED <<raw, events>> /\ "done" \in ImportSteps /\ count \in Counts
      BY <1>2, <1>6, <2>2
    <3>7. ~("done" = "persist") /\ "done" # "begin" /\ ~("done" = "finish")
      OBVIOUS
    <3> HIDE DEF new
    <3> QED
      BY ONLY RecordTypes, ImportsInv, i \in Imports, n \in [status : Statuses, count : Counts],
              <1>7, <2>1, <3>4, <3>5, <3>6, <3>7, ImportMoves
  <2>4. ASSUME step = "finish" PROVE RecordTypes' /\ ImportsInv' /\ EventsGrow
    <3> DEFINE new == [status |-> IF count.rejected > 0 THEN "partially_succeeded" ELSE "succeeded",
                       count |-> count]
    <3>1. ledger' = [ledger EXCEPT ![i] = new] /\ new.count = count
      BY <1>8, <2>2, <2>4 DEF Finished
    <3>2. new \in [status : Statuses, count : Counts]
      BY <1>2 DEF Statuses
    <3>3. count.rejected \in Nat
      BY <1>2 DEF Counts
    <3>4. (new.status = "succeeded") <=> (new.count.rejected = 0)
      BY <3>3
    <3>5. Accounted(i, count)
      BY <1>1, <1>8, <2>4 DEF ImportInv
    <3>6. Accounted(i, count)'
      BY <2>2, <3>5 DEF Accounted
    <3> HIDE DEF new
    <3>7. PICK n \in [status : Statuses, count : Counts] : n = new
      BY <3>2
    <3>8. Accounted(i, n.count)'
      BY <3>1, <3>6, <3>7
    <3> QED
      BY <1>2, <1>6, <1>7, <2>1, <2>2, <3>1, <3>4, <3>7, <3>8, ImportMoves
  <2>5. RecordTypes' /\ ImportsInv' /\ EventsGrow
    BY <2>2, <2>3, <2>4
  <2> QED
    BY <1>7, <2>5
<1> QED
  BY <1>7, <1>9, <1>10, <1>11, <1>12

-----------------------------------------------------------------------------
(* The audits.                                                             *)

LEMMA FiniteSets_ ==
  ASSUME NEW X, X \subseteq Ids, NEW p
  PROVE  /\ IsFiniteSet(At(X, p)) /\ Cardinality(At(X, p)) \in Nat
         /\ (Cardinality(At(X, p)) = 0 <=> At(X, p) = {})
<1>1. At(X, p) \subseteq Ids
  BY DEF At
<1>2. IsFiniteSet(At(X, p))
  BY <1>1, FS_Subset, RecordsAssumption
<1> QED
  BY <1>2, FS_CardinalityType, FS_EmptySet

\* What audits have read stays what it was when events are added.
LEMMA EventsKeepReads ==
  ASSUME EventsGrow, NEW X, X \subseteq StoredIds
  PROVE  /\ X \subseteq StoredIds'
         /\ \A p : At(X, p)' = At(X, p)
         /\ \A a \in Audits : SeenOf(a, X)' = SeenOf(a, X)
<1>1. \A e \in X : e \in Ids /\ events[e] # None /\ events'[e] = events[e]
  BY DEF StoredIds, EventsGrow
<1>2. X \subseteq StoredIds'
  BY <1>1 DEF StoredIds
<1>3. \A p : {e \in X : events'[e].place = p} = {e \in X : events[e].place = p}
  BY <1>1
<1>4. ASSUME NEW a \in Audits PROVE SeenOf(a, X)' = SeenOf(a, X)
  <2>1. \A e \in ScopeOf[a] \cap X :
          /\ events'[e].place = events[e].place
          /\ {x \in X : events'[x].place = events'[e].place} = {x \in X : events[x].place = events[e].place}
    BY <1>1
  <2> QED
    BY <2>1 DEF SeenOf, At
<1> QED
  BY <1>2, <1>3, <1>4 DEF At

LEMMA AuditsKept ==
  ASSUME RecordTypes, ChainInv, AgreeInv, RefusedInv, EventsGrow, UNCHANGED auditing
  PROVE  ChainInv' /\ AgreeInv' /\ RefusedInv'
<1>0. UNCHANGED <<rules, audit, groups, assessed, pairs>>
  BY DEF auditing
<1>1. \A e \in Ids : assessed[e] # None => events[e] # None /\ events'[e] = events[e]
  BY DEF AgreeInv, EventsGrow
<1>2. \A p : AuditedAt(p)' = AuditedAt(p)
  BY <1>0, <1>1 DEF AuditedAt
<1>3. PICK C \in SUBSET SUBSET Ids : ReadAt(C)
  BY DEF ChainInv
<1>4. \A X \in C : /\ X \subseteq StoredIds'
                   /\ \A p : At(X, p)' = At(X, p)
                   /\ \A a \in Audits : SeenOf(a, X)' = SeenOf(a, X)
  BY <1>3, EventsKeepReads DEF ReadAt
<1>5. ReadAt(C)'
  <2>1. ASSUME NEW a \in Audits, audit'[a].step \in Holding PROVE \E X \in C : SeenBy(a)' = SeenOf(a, X)'
    <3>1. PICK X \in C : SeenBy(a) = SeenOf(a, X)
      BY <1>0, <1>3, <2>1 DEF ReadAt
    <3> QED
      BY <1>0, <1>4, <3>1 DEF SeenBy
  <2>2. ASSUME NEW p \in Places
        PROVE  \/ groups'[p] = 0 /\ AuditedAt(p)' = {}
               \/ \E X \in C : groups'[p] = Cardinality(At(X, p)') /\ groups'[p] # 0 /\ AuditedAt(p)' \subseteq X
    <3>1. \/ groups[p] = 0 /\ AuditedAt(p) = {}
          \/ \E X \in C : groups[p] = Cardinality(At(X, p)) /\ groups[p] # 0 /\ AuditedAt(p) \subseteq X
      BY <1>3 DEF ReadAt
    <3> QED
      BY <1>0, <1>2, <1>4, <3>1
  <2> QED
    BY <1>3, <1>4, <2>1, <2>2 DEF ReadAt
<1>6. AgreeInv'
  BY <1>0, <1>1 DEF AgreeInv
<1>7. RefusedInv'
  BY <1>0 DEF RefusedInv, SeenBy
<1> QED
  BY <1>5, <1>6, <1>7 DEF ChainInv

LEMMA AuditTypes ==
  ASSUME RecordTypes, NEW a \in Audits
  PROVE  /\ audit[a] \in [step : AuditSteps, seen : Seens \cup {<<>>}, layers : Nat]
         /\ audit \in [Audits -> [step : AuditSteps, seen : Seens \cup {<<>>}, layers : Nat]]
BY DEF RecordTypes

\* An audit moves on with what it has read, or ends.
LEMMA AuditMoves ==
  ASSUME RecordTypes, NEW a \in Audits, audit[a].step \in Holding,
         NEW step \in AuditSteps, NEW lay \in Nat,
         audit' = [audit EXCEPT ![a] =
           IF step = "done" THEN [step |-> "done", seen |-> <<>>, layers |-> 0]
           ELSE [step |-> step, seen |-> audit[a].seen, layers |-> lay]]
  PROVE  /\ audit' \in [Audits -> [step : AuditSteps, seen : Seens \cup {<<>>}, layers : Nat]]
         /\ audit'[a].step = step
         /\ \A b \in Audits : b # a => audit'[b] = audit[b]
         /\ step # "done" => audit'[a].seen = audit[a].seen
<1> DEFINE new == IF step = "done" THEN [step |-> "done", seen |-> <<>>, layers |-> 0]
                  ELSE [step |-> step, seen |-> audit[a].seen, layers |-> lay]
<1>1. new \in [step : AuditSteps, seen : Seens \cup {<<>>}, layers : Nat] /\ new.step = step
      /\ (step # "done" => new.seen = audit[a].seen)
  BY AuditTypes
<1>2. audit' = [audit EXCEPT ![a] = new]
  OBVIOUS
<1> HIDE DEF new
<1>3. audit'[a] = new /\ \A b \in Audits : b # a => audit'[b] = audit[b]
  BY <1>2, AuditTypes
<1>4. audit' \in [Audits -> [step : AuditSteps, seen : Seens \cup {<<>>}, layers : Nat]]
  BY <1>1, <1>2, AuditTypes
<1> QED
  BY <1>1, <1>3, <1>4

\* While an audit moves and stores nothing, what was stored agrees.
LEMMA NothingStored ==
  ASSUME RecordTypes, ChainInv, AgreeInv, UNCHANGED <<events, groups, assessed, pairs>>,
         \A b \in Audits : audit'[b].step \in Holding =>
           audit[b].step \in Holding /\ audit'[b].seen = audit[b].seen
  PROVE  ChainInv' /\ AgreeInv'
<1>1. PICK C \in SUBSET SUBSET Ids : ReadAt(C)
  BY DEF ChainInv
<1>2. \A X, p : At(X, p)' = At(X, p)
  BY DEF At
<1>3. \A p : AuditedAt(p)' = AuditedAt(p)
  BY DEF AuditedAt
<1>4. \A a, X : SeenOf(a, X)' = SeenOf(a, X)
  BY DEF SeenOf, At
<1>5. ReadAt(C)'
  <2>1. ASSUME NEW a \in Audits, audit'[a].step \in Holding PROVE \E X \in C : SeenBy(a)' = SeenOf(a, X)'
    <3>1. PICK X \in C : SeenBy(a) = SeenOf(a, X)
      BY <1>1, <2>1 DEF ReadAt
    <3> QED
      BY <1>4, <2>1, <3>1 DEF SeenBy
  <2>2. StoredIds' = StoredIds
    BY DEF StoredIds
  <2> QED
    BY <1>1, <1>2, <1>3, <2>1, <2>2 DEF ReadAt
<1>6. AgreeInv'
  BY DEF AgreeInv
<1> QED
  BY <1>5, <1>6 DEF ChainInv

\* A reading of the events adds the present set of events to those that were read.
LEMMA EventsRead ==
  ASSUME RecordTypes, ChainInv, AgreeInv, RefusedInv, NEW a \in Audits, ReadEvents(a)
  PROVE  RecordTypes' /\ ChainInv' /\ AgreeInv' /\ RefusedInv'
<1>0. /\ UNCHANGED <<import, ledger, raw, events, layers, rules, groups, assessed, pairs>>
      /\ audit' = [audit EXCEPT ![a] = [step |-> "layers", seen |-> Seen(a), layers |-> 0]]
  BY DEF ReadEvents, importing
<1>1. PICK C \in SUBSET SUBSET Ids : ReadAt(C)
  BY DEF ChainInv
<1>2. PICK Z \in SUBSET Ids : Z = StoredIds
  BY DEF StoredIds
<1>11. PICK D \in SUBSET SUBSET Ids : D = C \cup {Z}
  OBVIOUS
<1>3. Seen(a) = SeenOf(a, StoredIds)
  <2>1. {x \in ScopeOf[a] : events[x] # None} = ScopeOf[a] \cap StoredIds
    BY RecordsAssumption DEF StoredIds
  <2>2. \A p : CountAt(p) = Cardinality(At(StoredIds, p))
    <3>1. \A p : {e \in Ids : events[e] # None /\ events[e].place = p} = At(StoredIds, p)
      BY DEF At, StoredIds
    <3> QED
      BY <3>1 DEF CountAt
  <2> QED
    BY <2>1, <2>2 DEF Seen, SeenOf
<1>4. Seen(a) \in Seens
  <2>1. \A e \in ScopeOf[a] \cap StoredIds :
          [place |-> events[e].place, count |-> Cardinality(At(StoredIds, events[e].place))] \in SeenRows
    BY <1>2, EventPlaces, FiniteSets_ DEF SeenRows, StoredIds
  <2>2. SeenOf(a, StoredIds) \in [ScopeOf[a] \cap StoredIds -> SeenRows]
    BY <2>1 DEF SeenOf
  <2>3. ScopeOf[a] \cap StoredIds \in SUBSET Ids
    BY <1>2
  <2> QED
    BY <1>3, <2>2, <2>3 DEF Seens
<1>5. /\ audit'[a] = [step |-> "layers", seen |-> Seen(a), layers |-> 0]
      /\ \A b \in Audits : b # a => audit'[b] = audit[b]
      /\ audit' \in [Audits -> [step : AuditSteps, seen : Seens \cup {<<>>}, layers : Nat]]
  <2>1. [step |-> "layers", seen |-> Seen(a), layers |-> 0]
          \in [step : AuditSteps, seen : Seens \cup {<<>>}, layers : Nat]
    BY <1>4 DEF AuditSteps
  <2> QED
    BY <1>0, <2>1, AuditTypes
<1>6. (\A X, p : At(X, p)' = At(X, p)) /\ (\A b, X : SeenOf(b, X)' = SeenOf(b, X))
      /\ (\A p : AuditedAt(p)' = AuditedAt(p)) /\ StoredIds' = StoredIds
  BY <1>0 DEF At, SeenOf, AuditedAt, StoredIds
<1>7. ReadAt(D)'
  <2>1. ASSUME NEW b \in Audits, audit'[b].step \in Holding PROVE \E X \in D : SeenBy(b)' = SeenOf(b, X)'
    <3>1. CASE b = a
      <4>1. SeenBy(a)' = SeenOf(a, Z)
        BY <1>2, <1>3, <1>5 DEF SeenBy
      <4>2. SeenOf(a, Z)' = SeenOf(a, Z)
        BY <1>6
      <4>3. Z \in D
        BY <1>11
      <4> QED
        BY <3>1, <4>1, <4>2, <4>3
    <3>2. CASE b # a
      <4>1. PICK X \in C : SeenBy(b) = SeenOf(b, X)
        BY <1>1, <1>5, <2>1, <3>2 DEF ReadAt
      <4>2. SeenBy(b)' = SeenOf(b, X)'
        BY <1>5, <1>6, <3>2, <4>1 DEF SeenBy
      <4> QED
        BY <1>11, <4>2
    <3> QED
      BY <3>1, <3>2
  <2>2. \A X, Y \in D : X \subseteq Y \/ Y \subseteq X
    BY <1>1, <1>2, <1>11 DEF ReadAt
  <2>3. \A X \in D : X \subseteq StoredIds'
    BY <1>1, <1>2, <1>6, <1>11 DEF ReadAt
  <2>4. ASSUME NEW p \in Places
        PROVE  \/ groups'[p] = 0 /\ AuditedAt(p)' = {}
               \/ \E X \in D : groups'[p] = Cardinality(At(X, p)') /\ groups'[p] # 0 /\ AuditedAt(p)' \subseteq X
    <3>1. \/ groups[p] = 0 /\ AuditedAt(p) = {}
          \/ \E X \in C : groups[p] = Cardinality(At(X, p)) /\ groups[p] # 0 /\ AuditedAt(p) \subseteq X
      BY <1>1 DEF ReadAt
    <3> QED
      BY <1>0, <1>6, <1>11, <3>1
  <2> QED
    BY <2>1, <2>2, <2>3, <2>4 DEF ReadAt
<1>8. AgreeInv'
  BY <1>0 DEF AgreeInv
<1>9. RefusedInv'
  <2>1. ASSUME NEW b \in Audits, audit'[b].step = "refused" PROVE b # a
    BY <1>5, <2>1
  <2> QED
    BY <1>0, <1>5, <2>1 DEF RefusedInv, SeenBy
<1>10. RecordTypes'
  BY <1>0, <1>5 DEF RecordTypes
<1> QED
  BY <1>7, <1>8, <1>9, <1>10 DEF ChainInv


\* What an audit has read of the events of its scope.
LEMMA SeenFacts ==
  ASSUME RecordTypes, NEW a \in Audits, NEW X, X \subseteq StoredIds, SeenBy(a) = SeenOf(a, X)
  PROVE  /\ DOMAIN SeenBy(a) = ScopeOf[a] \cap X
         /\ \A e \in DOMAIN SeenBy(a) :
              /\ e \in Ids /\ e \in X /\ events[e] # None /\ events[e].place \in Places
              /\ SeenBy(a)[e].place = events[e].place
              /\ SeenBy(a)[e].count = Cardinality(At(X, events[e].place))
              /\ SeenBy(a)[e].count \in Nat /\ SeenBy(a)[e].count # 0
<1>1. DOMAIN SeenBy(a) = ScopeOf[a] \cap X
  BY DEF SeenOf
<1>2. ASSUME NEW e \in DOMAIN SeenBy(a)
      PROVE  /\ e \in Ids /\ e \in X /\ events[e] # None /\ events[e].place \in Places
             /\ SeenBy(a)[e].place = events[e].place
             /\ SeenBy(a)[e].count = Cardinality(At(X, events[e].place))
             /\ SeenBy(a)[e].count \in Nat /\ SeenBy(a)[e].count # 0
  <2>1. e \in X /\ e \in Ids /\ events[e] # None /\ X \subseteq Ids
    BY <1>1 DEF StoredIds
  <2>2. events[e].place \in Places
    BY <2>1, EventPlaces
  <2>3. SeenBy(a)[e] = [place |-> events[e].place, count |-> Cardinality(At(X, events[e].place))]
    BY <1>1 DEF SeenOf
  <2>4. e \in At(X, events[e].place)
    BY <2>1 DEF At
  <2>5. Cardinality(At(X, events[e].place)) \in Nat /\ Cardinality(At(X, events[e].place)) # 0
    BY <2>1, <2>4, FiniteSets_
  <2> QED
    BY <2>1, <2>2, <2>3, <2>5
<1> QED
  BY <1>1, <1>2

LEMMA GoMoves ==
  ASSUME RecordTypes, NEW a \in Audits, audit[a].step \in Holding, NEW step \in AuditSteps, Go(a, step)
  PROVE  /\ audit' \in [Audits -> [step : AuditSteps, seen : Seens \cup {<<>>}, layers : Nat]]
         /\ audit'[a].step = step
         /\ \A b \in Audits : b # a => audit'[b] = audit[b]
         /\ step # "done" => audit'[a].seen = audit[a].seen
<1>1. PICK s, seen, lay : audit[a] = [step |-> s, seen |-> seen, layers |-> lay] /\ lay \in Nat
  BY AuditTypes
<1>2. [audit[a] EXCEPT !.step = step] = [step |-> step, seen |-> seen, layers |-> lay]
  BY <1>1
<1>3. audit[a].seen = seen
  BY <1>1
<1>4. audit' = [audit EXCEPT ![a] =
         IF step = "done" THEN [step |-> "done", seen |-> <<>>, layers |-> 0]
         ELSE [step |-> step, seen |-> audit[a].seen, layers |-> lay]]
  <2>1. audit' = [audit EXCEPT ![a] =
          IF step = "done" THEN [step |-> step, seen |-> <<>>, layers |-> 0]
          ELSE [audit[a] EXCEPT !.step = step]]
    BY DEF Go
  <2> QED
    BY <1>2, <1>3, <2>1
<1> QED
  BY ONLY RecordTypes, a \in Audits, audit[a].step \in Holding, step \in AuditSteps, <1>1, <1>4, AuditMoves

\* What audits have stored is only added to.
AuditsGrow ==
  /\ \A e \in Ids : assessed[e] # None => assessed'[e] = assessed[e]
  /\ \A t \in Twins : pairs[t] # None => pairs'[t] = pairs[t]
  /\ \A p \in Places : groups[p] # 0 => groups'[p] = groups[p]

\* An audit stores what it computed from the events it read.
LEMMA AuditStored ==
  ASSUME RecordTypes, ChainInv, AgreeInv, NEW a \in Audits, audit[a].step = "persist",
         GroupsFound(a), GroupsKept(a), AssessmentsKept(a), PairsKept(a), Go(a, "done"),
         UNCHANGED <<importing, layers, rules>>
  PROVE  RecordTypes' /\ ChainInv' /\ AgreeInv' /\ AuditsGrow
<1>0. UNCHANGED <<import, ledger, raw, events, layers, rules>>
  BY DEF importing
<1>1. PICK C \in SUBSET SUBSET Ids : ReadAt(C)
  BY DEF ChainInv
<1>2. PICK X \in C : SeenBy(a) = SeenOf(a, X)
  BY <1>1 DEF ReadAt, Holding
<1>3. PICK S : S = DOMAIN SeenBy(a)
  OBVIOUS
<1>4. S \subseteq X /\ X \subseteq StoredIds
  <2>1. X \subseteq StoredIds
    BY <1>1 DEF ReadAt
  <2>2. DOMAIN SeenBy(a) = ScopeOf[a] \cap X
    BY ONLY RecordTypes, a \in Audits, <1>2, <2>1, SeenFacts
  <2> QED
    BY ONLY <1>3, <2>1, <2>2
<1>5. PICK n : n = [e \in S |-> SeenBy(a)[e].count]
  OBVIOUS
<1>6. \A e \in S : /\ e \in Ids /\ e \in X /\ events[e] # None /\ events[e].place \in Places
                   /\ SeenBy(a)[e].place = events[e].place /\ SeenBy(a)[e].count = n[e]
                   /\ n[e] = Cardinality(At(X, events[e].place)) /\ n[e] \in Nat /\ n[e] # 0
                   /\ groups[events[e].place] \in {0, n[e]}
  <2>1. \A e \in S : groups[SeenBy(a)[e].place] \in {0, SeenBy(a)[e].count}
    BY <1>3 DEF GroupsFound
  <2>2. \A e \in S : /\ e \in Ids /\ e \in X /\ events[e] # None /\ events[e].place \in Places
                     /\ SeenBy(a)[e].place = events[e].place
                     /\ SeenBy(a)[e].count = Cardinality(At(X, events[e].place))
                     /\ SeenBy(a)[e].count \in Nat /\ SeenBy(a)[e].count # 0
    BY <1>2, <1>3, <1>4, SeenFacts
  <2>3. \A e \in S : SeenBy(a)[e].count = n[e]
    BY <1>5
  <2> QED
    BY <2>1, <2>2, <2>3
<1>7. /\ audit' \in [Audits -> [step : AuditSteps, seen : Seens \cup {<<>>}, layers : Nat]]
      /\ audit'[a].step = "done" /\ \A b \in Audits : b # a => audit'[b] = audit[b]
  BY GoMoves DEF Holding, AuditSteps
<1>8. ASSUME NEW p \in Places
      PROVE  IF groups[p] = 0 /\ \E e \in S : events[e].place = p
             THEN groups'[p] = Cardinality(At(X, p)) /\ groups'[p] \in Nat /\ groups'[p] # 0
             ELSE groups'[p] = groups[p]
  <2>1. CASE groups[p] = 0 /\ \E e \in S : events[e].place = p
    <3>1. groups'[p] = SeenBy(a)[GroupSeen(a, p)].count
      BY <1>3, <1>6, <2>1 DEF GroupsKept
    <3>2. GroupSeen(a, p) \in S /\ SeenBy(a)[GroupSeen(a, p)].place = p
      BY <1>3, <1>6, <2>1 DEF GroupSeen
    <3>3. PICK g \in S : g = GroupSeen(a, p)
      BY <3>2
    <3>4. groups'[p] = n[g] /\ events[g].place = p
      BY <1>6, <3>1, <3>2, <3>3
    <3> QED
      BY <1>6, <2>1, <3>4
  <2>2. CASE ~(groups[p] = 0 /\ \E e \in S : events[e].place = p)
    BY <1>3, <1>6, <2>2 DEF GroupsKept
  <2> QED
    BY <2>1, <2>2
<1>9. \A p \in Places : groups[p] \in Nat
  BY DEF RecordTypes
<1>10. groups' \in [Places -> Nat]
  <2>1. \A p \in Places : groups'[p] \in Nat
    BY <1>8, <1>9
  <2>2. groups' = [p \in Places |-> groups'[p]]
    BY DEF GroupsKept
  <2> QED
    BY <2>1, <2>2
<1>11. PICK lay \in Nat : lay = audit[a].layers
  BY AuditTypes
<1>12. ASSUME NEW e \in Ids
       PROVE  IF e \in S /\ assessed[e] = None
              THEN assessed'[e] \in Assessments /\ assessed'[e] # None /\ assessed'[e].count = n[e]
              ELSE assessed'[e] = assessed[e]
  <2>1. CASE e \in S /\ assessed[e] = None
    <3>1. PICK new : new = [count |-> n[e], layers |-> lay]
      OBVIOUS
    <3>2. assessed'[e] = new
      BY <1>3, <1>6, <1>11, <2>1, <3>1 DEF AssessmentsKept, Assessment
    <3>3. new \in Assessments /\ new # None /\ new.count = n[e]
      BY <1>6, <1>11, <2>1, <3>1, RecordsAssumption DEF Assessments
    <3> QED
      BY <2>1, <3>2, <3>3
  <2>2. CASE ~(e \in S /\ assessed[e] = None)
    BY <1>3, <2>2 DEF AssessmentsKept
  <2> QED
    BY <2>1, <2>2
<1>14. assessed' \in [Ids -> Assessments \cup {None}]
  <2>1. \A e \in Ids : assessed'[e] \in Assessments \cup {None}
    BY <1>12 DEF RecordTypes
  <2>2. assessed' = [e \in Ids |-> assessed'[e]]
    BY DEF AssessmentsKept
  <2> QED
    BY <2>1, <2>2
<1>13. \A t \in Twins : pairs[t] \in Signalled \cup {None}
  BY DEF RecordTypes
<1>15. ASSUME NEW t \in Twins
       PROVE  IF t \subseteq S /\ pairs[t] = None
              THEN pairs'[t] \in Signalled /\ \A e \in t : pairs'[t].signals[e] = n[e]
              ELSE pairs'[t] = pairs[t]
  <2>1. CASE t \subseteq S /\ pairs[t] = None
    <3>1. PICK sig : sig = [e \in t |-> n[e]]
      OBVIOUS
    <3>2. Pair(a, t) = sig
      BY <1>6, <2>1, <3>1 DEF Pair
    <3>3. sig \in [t -> Nat] /\ \A e \in t : sig[e] = n[e]
      BY <1>6, <2>1, <3>1
    <3>4. PICK new : new = [signals |-> sig]
      OBVIOUS
    <3>5. new \in [signals : [t -> Nat]] /\ new.signals = sig
      BY <3>3, <3>4
    <3>6. pairs'[t] = new
      BY <1>3, <2>1, <3>2, <3>4 DEF PairsKept
    <3>7. new \in Signalled
      BY <3>5 DEF Signalled
    <3> QED
      BY <2>1, <3>3, <3>5, <3>6, <3>7
  <2>2. CASE ~(t \subseteq S /\ pairs[t] = None)
    BY <1>3, <2>2 DEF PairsKept
  <2> QED
    BY <2>1, <2>2
<1>16. pairs' \in [Twins -> Signalled \cup {None}]
  <2>1. \A t \in Twins : pairs'[t] \in Signalled \cup {None}
    BY <1>13, <1>15
  <2>2. pairs' = [t \in Twins |-> pairs'[t]]
    BY DEF PairsKept
  <2> QED
    BY <2>1, <2>2
<1>17. RecordTypes'
  BY <1>0, <1>7, <1>10, <1>14, <1>16 DEF RecordTypes
<1>18. AuditsGrow
  BY <1>8, <1>12, <1>15 DEF AuditsGrow
<1>19. \A p \in Places, e \in Ids : e \in AuditedAt(p) => groups[p] # 0
  BY <1>1 DEF ReadAt
<1>20. \A e \in Ids : assessed[e] # None =>
         /\ events[e] # None /\ events[e].place \in Places
         /\ assessed[e].count = groups[events[e].place] /\ groups[events[e].place] # 0
  <2>1. \A e \in Ids : assessed[e] # None => events[e] # None /\ assessed[e].count = groups[events[e].place]
    BY DEF AgreeInv
  <2>2. \A e \in Ids : events[e] # None => events[e].place \in Places
    BY EventPlaces
  <2> QED
    BY <1>19, <2>1, <2>2 DEF AuditedAt
<1>21. ChainInv'
  <2>1. (\A Y, p : At(Y, p)' = At(Y, p)) /\ (\A b, Y : SeenOf(b, Y)' = SeenOf(b, Y)) /\ StoredIds' = StoredIds
    BY <1>0 DEF At, SeenOf, StoredIds
  <2>2. \A p : AuditedAt(p)' \subseteq AuditedAt(p) \cup {e \in S : events[e].place = p}
    BY <1>0, <1>12 DEF AuditedAt
  <2>3. ASSUME NEW b \in Audits, audit'[b].step \in Holding PROVE \E Y \in C : SeenBy(b)' = SeenOf(b, Y)'
    <3>1. b # a
      BY <1>7, <2>3 DEF Holding
    <3>2. PICK Y \in C : SeenBy(b) = SeenOf(b, Y)
      BY <1>1, <1>7, <2>3, <3>1 DEF ReadAt
    <3> QED
      BY <1>7, <2>1, <3>1, <3>2 DEF SeenBy
  <2>4. ASSUME NEW p \in Places
        PROVE  \/ groups'[p] = 0 /\ AuditedAt(p)' = {}
               \/ \E Y \in C : groups'[p] = Cardinality(At(Y, p)') /\ groups'[p] # 0 /\ AuditedAt(p)' \subseteq Y
    <3>1. CASE \E e \in S : events[e].place = p
      <4>1. PICK e \in S : events[e].place = p
        BY <3>1
      <4>2. n[e] = Cardinality(At(X, p)) /\ groups[p] \in {0, n[e]} /\ n[e] # 0
        BY <1>6, <4>1
      <4>3. groups'[p] = Cardinality(At(X, p)) /\ groups'[p] # 0
        BY <1>8, <4>1, <4>2
      <4>4. CASE AuditedAt(p) \subseteq X
        <5>1. AuditedAt(p)' \subseteq X
          BY <1>4, <2>2, <4>4
        <5> QED
          BY <2>1, <4>3, <5>1
      <4>5. CASE ~(AuditedAt(p) \subseteq X)
        <5>1. PICK Y \in C : groups[p] = Cardinality(At(Y, p)) /\ groups[p] # 0 /\ AuditedAt(p) \subseteq Y
          BY <1>1, <4>5 DEF ReadAt
        <5>2. X \subseteq Y
          BY <1>1, <4>5, <5>1 DEF ReadAt
        <5>3. AuditedAt(p)' \subseteq Y
          BY <1>4, <2>2, <5>1, <5>2
        <5>4. groups'[p] = Cardinality(At(Y, p))
          BY <4>2, <4>3, <5>1
        <5> QED
          BY <2>1, <4>3, <5>3, <5>4
      <4> QED
        BY <4>4, <4>5
    <3>2. CASE ~ \E e \in S : events[e].place = p
      <4>1. groups'[p] = groups[p] /\ AuditedAt(p)' \subseteq AuditedAt(p)
        BY <1>8, <2>2, <3>2
      <4>2. \/ groups[p] = 0 /\ AuditedAt(p) = {}
            \/ \E Y \in C : groups[p] = Cardinality(At(Y, p)) /\ groups[p] # 0 /\ AuditedAt(p) \subseteq Y
        BY <1>1 DEF ReadAt
      <4>3. CASE groups[p] = 0 /\ AuditedAt(p) = {}
        BY <4>1, <4>3
      <4>4. CASE \E Y \in C : groups[p] = Cardinality(At(Y, p)) /\ groups[p] # 0 /\ AuditedAt(p) \subseteq Y
        <5>1. PICK Y \in C : groups[p] = Cardinality(At(Y, p)) /\ groups[p] # 0 /\ AuditedAt(p) \subseteq Y
          BY <4>4
        <5>2. groups'[p] = Cardinality(At(Y, p)') /\ groups'[p] # 0 /\ AuditedAt(p)' \subseteq Y
          BY <2>1, <4>1, <5>1
        <5> QED
          BY <5>2
      <4> QED
        BY <4>2, <4>3, <4>4
    <3> QED
      BY <3>1, <3>2
  <2>5. ReadAt(C)'
    BY <1>1, <2>1, <2>3, <2>4 DEF ReadAt
  <2> QED
    BY <2>5 DEF ChainInv
<1>22. ASSUME NEW e \in Ids, assessed'[e] # None
       PROVE  events'[e] # None /\ assessed'[e].count = groups'[events'[e].place]
  <2>1. CASE assessed[e] # None
    <3>1. groups'[events[e].place] = groups[events[e].place]
      BY <1>8, <1>20, <2>1
    <3>2. assessed'[e] = assessed[e]
      BY <1>12, <2>1
    <3> QED
      BY <1>0, <1>20, <2>1, <3>1, <3>2
  <2>2. CASE assessed[e] = None
    <3>1. e \in S /\ assessed'[e].count = n[e]
      BY <1>12, <1>22, <2>2
    <3>2. groups'[events[e].place] = n[e]
      BY <1>6, <1>8, <3>1
    <3> QED
      BY <1>0, <1>6, <3>1, <3>2
  <2> QED
    BY <2>1, <2>2
<1>23. ASSUME NEW t \in Twins, pairs'[t] # None, NEW e \in t
       PROVE  assessed'[e] # None /\ pairs'[t].signals[e] = assessed'[e].count
  <2>1. e \in Ids
    BY RecordsAssumption
  <2>2. CASE t \subseteq S /\ pairs[t] = None
    <3>1. pairs'[t].signals[e] = n[e] /\ e \in S
      BY <1>15, <2>2
    <3>2. CASE assessed[e] = None
      BY <1>12, <2>1, <3>1, <3>2
    <3>3. CASE assessed[e] # None
      <4>1. assessed'[e] = assessed[e]
        BY <1>12, <2>1, <3>3
      <4>2. assessed[e].count = n[e]
        BY <1>6, <1>20, <2>1, <3>1, <3>3
      <4> QED
        BY <3>1, <3>3, <4>1, <4>2
    <3> QED
      BY <3>2, <3>3
  <2>3. CASE ~(t \subseteq S /\ pairs[t] = None)
    <3>1. pairs'[t] = pairs[t] /\ pairs[t] # None
      BY <1>15, <1>23, <2>3
    <3>2. assessed[e] # None /\ pairs[t].signals[e] = assessed[e].count
      BY <3>1 DEF AgreeInv
    <3>3. assessed'[e] = assessed[e]
      BY <1>12, <2>1, <3>2
    <3> QED
      BY <3>1, <3>2, <3>3
  <2> QED
    BY <2>2, <2>3
<1> QED
  BY <1>17, <1>18, <1>21, <1>22, <1>23 DEF AgreeInv

\* The cause for which an audit is refused.
Cause(a) ==
  \/ rules # None /\ rules # RulesOf[a]
  \/ \E e \in DOMAIN SeenBy(a) : groups[SeenBy(a)[e].place] \notin {0, SeenBy(a)[e].count}

\* What refused an audit does not go away.
LEMMA CausesStay ==
  ASSUME RecordTypes, ChainInv, NEW b \in Audits, audit[b].step \in Holding, Cause(b),
         audit'[b].seen = audit[b].seen, rules # None => rules' = rules, AuditsGrow
  PROVE  Cause(b)'
<1>1. CASE rules # None /\ rules # RulesOf[b]
  BY <1>1 DEF Cause
<1>2. CASE \E e \in DOMAIN SeenBy(b) : groups[SeenBy(b)[e].place] \notin {0, SeenBy(b)[e].count}
  <2>1. PICK C \in SUBSET SUBSET Ids : ReadAt(C)
    BY DEF ChainInv
  <2>2. PICK X \in C : SeenBy(b) = SeenOf(b, X) /\ X \subseteq StoredIds
    BY <2>1 DEF ReadAt
  <2>3. PICK e \in DOMAIN SeenBy(b) : groups[SeenBy(b)[e].place] \notin {0, SeenBy(b)[e].count}
    BY <1>2
  <2>4. SeenBy(b)[e].place \in Places
    <3>1. \A x \in DOMAIN SeenBy(b) : events[x].place \in Places /\ SeenBy(b)[x].place = events[x].place
      BY ONLY RecordTypes, b \in Audits, <2>2, SeenFacts
    <3> QED
      BY <2>3, <3>1
  <2>5. PICK p \in Places : p = SeenBy(b)[e].place
    BY <2>4
  <2>6. groups'[p] = groups[p]
    BY <2>3, <2>5 DEF AuditsGrow
  <2>7. SeenBy(b)' = SeenBy(b)
    BY DEF SeenBy
  <2>8. PICK s : s = SeenBy(b)
    OBVIOUS
  <2>9. e \in DOMAIN s /\ p = s[e].place /\ groups'[p] \notin {0, s[e].count} /\ SeenBy(b)' = s
    BY <2>3, <2>5, <2>6, <2>7, <2>8
  <2> QED
    BY <2>9 DEF Cause
<1> QED
  BY <1>1, <1>2 DEF Cause

\* An audit moves and stores nothing but the rules.
LEMMA AuditGoes ==
  ASSUME RecordTypes, ChainInv, AgreeInv, RefusedInv, NEW a \in Audits, audit[a].step \in Holding,
         NEW step \in AuditSteps,
         audit' \in [Audits -> [step : AuditSteps, seen : Seens \cup {<<>>}, layers : Nat]],
         audit'[a].step = step,
         \A b \in Audits : b # a => audit'[b] = audit[b],
         step # "done" => audit'[a].seen = audit[a].seen,
         UNCHANGED <<importing, layers, groups, assessed, pairs>>,
         rules # None => rules' = rules,
         step = "refused" => Cause(a)
  PROVE  RecordTypes' /\ ChainInv' /\ AgreeInv' /\ RefusedInv' /\ AuditsGrow
<1>0. UNCHANGED <<import, ledger, raw, events, layers, groups, assessed, pairs>>
  BY DEF importing
<1>1. RecordTypes'
  BY <1>0 DEF RecordTypes
<1>2. AuditsGrow
  BY <1>0 DEF AuditsGrow
<1>3. \A b \in Audits : audit'[b].step \in Holding =>
        audit[b].step \in Holding /\ audit'[b].seen = audit[b].seen
  BY DEF Holding
<1>4. ChainInv' /\ AgreeInv'
  BY <1>0, <1>3, NothingStored
<1>5. ASSUME NEW b \in Audits, audit'[b].step = "refused" PROVE Cause(b)'
  <2>1. audit[b].step \in Holding /\ audit'[b].seen = audit[b].seen
    BY <1>3, <1>5 DEF Holding
  <2>2. Cause(b)
    <3>1. b # a => audit[b].step = "refused"
      BY <1>5
    <3> QED
      BY <1>5, <3>1 DEF RefusedInv, Cause
  <2> QED
    BY <1>2, <2>1, <2>2, CausesStay
<1>6. RefusedInv'
  BY <1>5 DEF RefusedInv, Cause
<1> QED
  BY <1>1, <1>2, <1>4, <1>6

LEMMA AuditSteps_ ==
  ASSUME RecordTypes, ChainInv, AgreeInv, RefusedInv, NEW a \in Audits,
         \/ ReadEvents(a) \/ ReadLayers(a) \/ DryRun(a) \/ ReadRules(a)
         \/ RegisterRules(a) \/ PersistAudit(a) \/ AuditStops(a)
  PROVE  /\ RecordTypes' /\ ChainInv' /\ AgreeInv' /\ RefusedInv' /\ AuditsGrow
         /\ UNCHANGED importing
<1>1. "rules" \in AuditSteps /\ "done" \in AuditSteps /\ "register" \in AuditSteps
      /\ "persist" \in AuditSteps /\ "refused" \in AuditSteps
  BY DEF AuditSteps
<1>2. UNCHANGED importing
  BY DEF ReadEvents, ReadLayers, DryRun, ReadRules, RegisterRules, PersistAudit, AuditStops
<1>3. ASSUME audit[a].step \in Holding, NEW step \in AuditSteps, Go(a, step),
             UNCHANGED <<importing, layers, groups, assessed, pairs>>,
             rules # None => rules' = rules, step = "refused" => Cause(a)
      PROVE  RecordTypes' /\ ChainInv' /\ AgreeInv' /\ RefusedInv' /\ AuditsGrow
  <2>1. /\ audit' \in [Audits -> [step : AuditSteps, seen : Seens \cup {<<>>}, layers : Nat]]
        /\ audit'[a].step = step
        /\ \A b \in Audits : b # a => audit'[b] = audit[b]
        /\ step # "done" => audit'[a].seen = audit[a].seen
    BY <1>3, GoMoves
  <2> QED
    BY <1>3, <2>1, AuditGoes
<1>4. CASE ReadEvents(a)
  <2>1. AuditsGrow
    BY <1>4 DEF ReadEvents, AuditsGrow
  <2> QED
    BY <1>2, <1>4, <2>1, EventsRead
<1>5. CASE ReadLayers(a)
  <2>1. PICK s, seen, lay : audit[a] = [step |-> s, seen |-> seen, layers |-> lay]
    BY AuditTypes
  <2>2. PICK l \in Nat : l = layers
    BY DEF RecordTypes
  <2>3. audit' = [audit EXCEPT ![a] = [step |-> "rules", seen |-> seen, layers |-> l]]
    <3>3. [audit[a] EXCEPT !.step = "rules"] = [step |-> "rules", seen |-> seen, layers |-> lay]
      BY <2>1
    <3>4. [[step |-> "rules", seen |-> seen, layers |-> lay] EXCEPT !.layers = l]
            = [step |-> "rules", seen |-> seen, layers |-> l]
      OBVIOUS
    <3>1. [[audit[a] EXCEPT !.step = "rules"] EXCEPT !.layers = l] = [step |-> "rules", seen |-> seen, layers |-> l]
      BY <3>3, <3>4
    <3>2. audit' = [audit EXCEPT ![a] = [[audit[a] EXCEPT !.step = "rules"] EXCEPT !.layers = l]]
      BY <1>5, <2>2, AuditTypes DEF ReadLayers
    <3> QED
      BY <3>1, <3>2
  <2>4. audit' = [audit EXCEPT ![a] =
           IF "rules" = "done" THEN [step |-> "done", seen |-> <<>>, layers |-> 0]
           ELSE [step |-> "rules", seen |-> audit[a].seen, layers |-> l]]
    BY <2>1, <2>3
  <2>5. audit[a].step \in Holding /\ UNCHANGED <<importing, layers, rules, groups, assessed, pairs>>
    BY <1>5 DEF ReadLayers, Holding
  <2>6. /\ audit' \in [Audits -> [step : AuditSteps, seen : Seens \cup {<<>>}, layers : Nat]]
        /\ audit'[a].step = "rules"
        /\ \A b \in Audits : b # a => audit'[b] = audit[b]
        /\ audit'[a].seen = audit[a].seen
    BY <1>1, <2>4, <2>5, AuditMoves
  <2> QED
    BY <1>1, <1>2, <2>5, <2>6, AuditGoes
<1>6. CASE DryRun(a) \/ AuditStops(a)
  <2>1. /\ audit[a].step \in Holding /\ Go(a, "done")
        /\ UNCHANGED <<importing, layers, rules, groups, assessed, pairs>>
    BY <1>6 DEF DryRun, AuditStops, Holding
  <2>2. RecordTypes' /\ ChainInv' /\ AgreeInv' /\ RefusedInv' /\ AuditsGrow
    BY <1>1, <1>3, <2>1
  <2> QED
    BY <1>2, <2>2
<1>7. CASE ReadRules(a)
  <2>1. audit[a].step \in Holding /\ UNCHANGED <<importing, layers, rules, groups, assessed, pairs>>
    BY <1>7 DEF ReadRules, Holding
  <2>2. PICK step \in AuditSteps : Go(a, step) /\ (step = "refused" => Cause(a))
    <3>1. CASE rules = None
      BY <1>1, <1>7, <3>1 DEF ReadRules
    <3>2. CASE rules # None /\ rules = RulesOf[a]
      BY <1>1, <1>7, <3>2 DEF ReadRules
    <3>3. CASE rules # None /\ rules # RulesOf[a]
      BY <1>1, <1>7, <3>3 DEF ReadRules, Cause
    <3> QED
      BY <3>1, <3>2, <3>3
  <2>3. RecordTypes' /\ ChainInv' /\ AgreeInv' /\ RefusedInv' /\ AuditsGrow
    BY <1>3, <2>1, <2>2
  <2> QED
    BY <1>2, <2>3
<1>8. CASE RegisterRules(a)
  <2>1. /\ audit[a].step \in Holding /\ UNCHANGED <<importing, layers, groups, assessed, pairs>>
        /\ rules # None => rules' = rules
    BY <1>8 DEF RegisterRules, Holding
  <2>2. PICK step \in {"persist", "done"} : Go(a, step)
    BY <1>8 DEF RegisterRules
  <2>3. RecordTypes' /\ ChainInv' /\ AgreeInv' /\ RefusedInv' /\ AuditsGrow
    BY <1>1, <1>3, <2>1, <2>2
  <2> QED
    BY <1>2, <2>3
<1>9. CASE PersistAudit(a)
  <2>1. audit[a].step \in Holding /\ audit[a].step = "persist" /\ UNCHANGED <<importing, layers, rules>>
    BY <1>9 DEF PersistAudit, Holding
  <2>2. CASE GroupsFound(a)
    <3>1. GroupsKept(a) /\ AssessmentsKept(a) /\ PairsKept(a) /\ Go(a, "done")
      BY <1>9, <2>2 DEF PersistAudit
    <3>2. RecordTypes' /\ ChainInv' /\ AgreeInv' /\ AuditsGrow
      BY <2>1, <2>2, <3>1, AuditStored
    <3>3. audit'[a].step = "done" /\ \A b \in Audits : b # a => audit'[b] = audit[b]
      BY <1>1, <2>1, <3>1, GoMoves
    <3>4. ASSUME NEW b \in Audits, audit'[b].step = "refused" PROVE Cause(b)'
      <4>1. audit[b].step \in Holding /\ audit'[b].seen = audit[b].seen /\ audit[b].step = "refused"
        BY <3>3, <3>4 DEF Holding
      <4>2. Cause(b)
        BY <4>1 DEF RefusedInv, Cause
      <4> QED
        BY <2>1, <3>2, <4>1, <4>2, CausesStay
    <3>5. RefusedInv'
      BY <3>4 DEF RefusedInv, Cause
    <3> QED
      BY <1>2, <3>2, <3>5
  <2>3. CASE ~GroupsFound(a)
    <3>1. UNCHANGED <<groups, assessed, pairs>> /\ Go(a, "refused")
      BY <1>9, <2>3 DEF PersistAudit
    <3>2. Cause(a)
      BY <2>3 DEF GroupsFound, Cause
    <3>3. RecordTypes' /\ ChainInv' /\ AgreeInv' /\ RefusedInv' /\ AuditsGrow
      BY <1>1, <1>3, <2>1, <3>1, <3>2
    <3> QED
      BY <1>2, <3>3
  <2> QED
    BY <2>2, <2>3
<1> QED
  BY <1>4, <1>5, <1>6, <1>7, <1>8, <1>9

\* Every step of the records, and what it adds to.
LEMMA RecordsStep ==
  ASSUME RecordsInv, [Next]_vars
  PROVE  RecordsInv' /\ AuditsGrow /\ raw \subseteq raw' /\ \A e \in Ids : events[e] # None => events'[e] = events[e]
<1>1. RecordTypes /\ ImportsInv /\ ChainInv /\ AgreeInv /\ RefusedInv
  BY DEF RecordsInv
<1>2. ASSUME NEW i \in Imports,
             \/ BeginImport(i) \/ ReadFails(i) \/ Persist(i) \/ PersistFails(i)
             \/ FinishImport(i) \/ ImportStops(i)
      PROVE  RecordsInv' /\ AuditsGrow /\ raw \subseteq raw' /\ EventsGrow
  <2>1. RecordTypes' /\ ImportsInv' /\ EventsGrow /\ UNCHANGED <<layers, auditing>>
    BY <1>1, <1>2, ImportSteps_
  <2>2. ChainInv' /\ AgreeInv' /\ RefusedInv'
    BY <1>1, <2>1, AuditsKept
  <2>3. raw \subseteq raw'
    BY <1>2 DEF BeginImport, ReadFails, Persist, PersistFails, FinishImport, ImportStops, Stored
  <2>4. AuditsGrow
    BY <2>1 DEF AuditsGrow, auditing
  <2> QED
    BY <2>1, <2>2, <2>3, <2>4 DEF RecordsInv
<1>3. ASSUME UNCHANGED importing PROVE ImportsInv' /\ raw \subseteq raw' /\ \A e \in Ids : events[e] # None => events'[e] = events[e]
  <2>1. UNCHANGED <<import, ledger, raw, events>>
    BY <1>3 DEF importing
  <2>2. ASSUME NEW i \in Imports PROVE ImportInv(i)'
    <3>1. \A c : Accounted(i, c)' <=> Accounted(i, c)
      BY <2>1 DEF Accounted
    <3>2. ImportInv(i)
      BY <1>1 DEF ImportsInv
    <3>3. PICK m, l : m = import[i].count /\ l = ledger[i].count
      OBVIOUS
    <3>4. (Accounted(i, m)' <=> Accounted(i, m)) /\ (Accounted(i, l)' <=> Accounted(i, l))
      BY <3>1
    <3> QED
      BY <2>1, <3>2, <3>3, <3>4 DEF ImportInv, Accounted
  <2> QED
    BY <2>1, <2>2 DEF ImportsInv
<1>4. ASSUME NEW a \in Audits,
             \/ ReadEvents(a) \/ ReadLayers(a) \/ DryRun(a) \/ ReadRules(a)
             \/ RegisterRules(a) \/ PersistAudit(a) \/ AuditStops(a)
      PROVE  RecordsInv' /\ AuditsGrow /\ UNCHANGED importing
  <2>1. /\ RecordTypes' /\ ChainInv' /\ AgreeInv' /\ RefusedInv' /\ AuditsGrow
        /\ UNCHANGED importing
    BY <1>1, <1>4, AuditSteps_
  <2> QED
    BY <1>3, <2>1 DEF RecordsInv
<1>5. ASSUME UNCHANGED <<importing, auditing>>, layers' \in Nat
      PROVE  RecordsInv' /\ AuditsGrow /\ UNCHANGED importing
  <2>1. UNCHANGED <<import, ledger, raw, events, rules, audit, groups, assessed, pairs>>
    BY <1>5 DEF importing, auditing
  <2>2. RecordTypes'
    BY <1>1, <1>5, <2>1 DEF RecordTypes
  <2>3. ChainInv' /\ AgreeInv'
    BY <1>1, <2>1, NothingStored
  <2>4. RefusedInv'
    BY <1>1, <2>1 DEF RefusedInv, SeenBy
  <2>5. AuditsGrow
    BY <2>1 DEF AuditsGrow
  <2> QED
    BY <1>3, <1>5, <2>2, <2>3, <2>4, <2>5 DEF RecordsInv
<1>6. CASE RefreshLayers
  <2>1. UNCHANGED <<importing, auditing>> /\ layers' \in Nat
    BY <1>1, <1>6 DEF RefreshLayers, RecordTypes
  <2> QED
    BY <1>3, <1>5, <2>1
<1>7. CASE UNCHANGED vars
  <2>1. UNCHANGED <<importing, auditing>> /\ layers' \in Nat
    BY <1>1, <1>7 DEF vars, importing, auditing, RecordTypes
  <2> QED
    BY <1>3, <1>5, <2>1
<1>8. CASE \E i \in Imports : \/ BeginImport(i) \/ ReadFails(i) \/ Persist(i) \/ PersistFails(i)
                              \/ FinishImport(i) \/ ImportStops(i)
  BY <1>2, <1>8 DEF EventsGrow
<1>9. CASE \E a \in Audits : \/ ReadEvents(a) \/ ReadLayers(a) \/ DryRun(a) \/ ReadRules(a)
                             \/ RegisterRules(a) \/ PersistAudit(a) \/ AuditStops(a)
  BY <1>3, <1>4, <1>9
<1> QED
  BY <1>6, <1>7, <1>8, <1>9 DEF Next

LEMMA RecordsInitially == Init => RecordsInv
<1> SUFFICES ASSUME Init PROVE RecordsInv
  OBVIOUS
<1>1. RecordTypes
  BY NothingCounted DEF Init, RecordTypes, ImportSteps, Statuses, AuditSteps
<1>2. ImportsInv
  BY DEF Init, ImportsInv, ImportInv
<1>3. ChainInv
  <2>1. \A a \in Audits : audit[a].step = "read"
    BY DEF Init
  <2>2. \A p \in Places : groups[p] = 0 /\ AuditedAt(p) = {}
    BY DEF Init, AuditedAt
  <2>3. ReadAt({})
    BY <2>1, <2>2 DEF ReadAt, Holding
  <2> QED
    BY <2>3 DEF ChainInv
<1>4. AgreeInv /\ RefusedInv
  BY DEF Init, AgreeInv, RefusedInv
<1> QED
  BY <1>1, <1>2, <1>3, <1>4 DEF RecordsInv

LEMMA RecordsInvImplies ==
  ASSUME RecordsInv PROVE ImportAccounted /\ AuditsAgree /\ RefusedForCause
<1>1. RecordTypes /\ ImportsInv /\ ChainInv /\ AgreeInv /\ RefusedInv
  BY DEF RecordsInv
<1>2. ImportAccounted
  <2>1. ASSUME NEW i \in Imports, ledger[i].status \in {"succeeded", "partially_succeeded"}
        PROVE  /\ Accounted(i, ledger[i].count)
               /\ (ledger[i].status = "succeeded") = (\A l \in Rows(i) : <<i, l>> \in raw => Row(i, l).valid)
    <3>1. /\ Accounted(i, ledger[i].count)
          /\ (ledger[i].status = "succeeded") <=> (ledger[i].count.rejected = 0)
      BY <1>1, <2>1 DEF ImportsInv, ImportInv
    <3>2. (ledger[i].count.rejected = 0) <=> (\A l \in Rows(i) : <<i, l>> \in raw => Row(i, l).valid)
      BY <3>1 DEF Accounted
    <3>3. (ledger[i].status = "succeeded") <=> (\A l \in Rows(i) : <<i, l>> \in raw => Row(i, l).valid)
      BY <3>1, <3>2
    <3> QED
      BY <3>1, <3>3
  <2> QED
    BY <2>1 DEF ImportAccounted, Accounted
<1>3. PICK C \in SUBSET SUBSET Ids : ReadAt(C)
  BY <1>1 DEF ChainInv
<1>4. AuditsAgree
  <2>1. ASSUME NEW p \in Places
        PROVE  groups[p] <= CountAt(p) /\ groups[p] >= Cardinality(AuditedAt(p))
    <3>1. StoredIds \subseteq Ids /\ CountAt(p) = Cardinality(At(StoredIds, p))
      <4>1. {e \in Ids : events[e] # None /\ events[e].place = p} = At(StoredIds, p)
        BY DEF At, StoredIds
      <4> QED
        BY <4>1 DEF CountAt, StoredIds
    <3>2. IsFiniteSet(At(StoredIds, p)) /\ Cardinality(At(StoredIds, p)) \in Nat
      BY <3>1, FiniteSets_
    <3>3. CASE groups[p] = 0 /\ AuditedAt(p) = {}
      <4>1. Cardinality(AuditedAt(p)) = 0
        BY <3>3, FS_EmptySet
      <4> QED
        BY <3>1, <3>2, <3>3, <4>1
    <3>4. CASE \E X \in C : groups[p] = Cardinality(At(X, p)) /\ groups[p] # 0 /\ AuditedAt(p) \subseteq X
      <4>1. PICK X \in C : groups[p] = Cardinality(At(X, p)) /\ groups[p] # 0 /\ AuditedAt(p) \subseteq X
        BY <3>4
      <4>2. X \subseteq StoredIds /\ X \subseteq Ids
        BY <1>3 DEF ReadAt
      <4>3. At(X, p) \subseteq At(StoredIds, p) /\ AuditedAt(p) \subseteq At(X, p)
        BY <4>1, <4>2 DEF At, AuditedAt
      <4>4. IsFiniteSet(At(X, p)) /\ Cardinality(At(X, p)) \in Nat
        BY <4>2, FiniteSets_
      <4>5. Cardinality(At(X, p)) <= Cardinality(At(StoredIds, p))
        BY <3>2, <4>3, FS_Subset
      <4>6. Cardinality(AuditedAt(p)) <= Cardinality(At(X, p)) /\ Cardinality(AuditedAt(p)) \in Nat
        BY <4>3, <4>4, FS_Subset, FS_CardinalityType
      <4> QED
        BY <3>1, <3>2, <4>1, <4>4, <4>5, <4>6
    <3> QED
      BY <1>3, <3>3, <3>4 DEF ReadAt
  <2> QED
    BY <1>1, <2>1 DEF AuditsAgree, AgreeInv, AuditedAt
<1>5. RefusedForCause
  <2>1. ASSUME NEW a \in Audits, audit[a].step = "refused", rules = RulesOf[a]
        PROVE  \E e \in DOMAIN SeenBy(a) : groups[events[e].place] # SeenBy(a)[e].count
    <3>1. PICK e \in DOMAIN SeenBy(a) : groups[SeenBy(a)[e].place] \notin {0, SeenBy(a)[e].count}
      BY <1>1, <2>1 DEF RefusedInv
    <3>2. PICK X \in C : SeenBy(a) = SeenOf(a, X) /\ X \subseteq StoredIds
      BY <1>3, <2>1 DEF ReadAt, Holding
    <3>3. \A x \in DOMAIN SeenBy(a) : SeenBy(a)[x].place = events[x].place
      BY <1>1, <3>2, SeenFacts
    <3> QED
      BY <3>1, <3>3
  <2> QED
    BY <2>1 DEF RefusedForCause
<1> QED
  BY <1>2, <1>4, <1>5

-----------------------------------------------------------------------------
(* The ground truth.                                                       *)

LEMMA ImageFinite ==
  ASSUME NEW S, IsFiniteSet(S), NEW f, DOMAIN f = S
  PROVE  IsFiniteSet({f[x] : x \in S})
<1> DEFINE T == {f[x] : x \in S}
           g == [x \in S |-> f[x]]
<1>1. g \in Surjection(S, T)
  BY DEF Surjection
<1> QED
  BY <1>1, FS_Surjection

LEMMA GreatestOf ==
  ASSUME NEW S, IsFiniteSet(S), S # {}, S \subseteq Int
  PROVE  \E x \in S : \A y \in S : y <= x
<1> DEFINE Greatest(T, x) == x \in T /\ \A y \in T : y <= x
           Bad == {T \in SUBSET S : T # {} /\ ~ \E x \in T : Greatest(T, x)}
           N == {Cardinality(T) : T \in Bad}
<1>1. SUFFICES ASSUME S \in Bad PROVE FALSE
  OBVIOUS
<1>2. \A T \in Bad : IsFiniteSet(T) /\ Cardinality(T) \in Nat
  BY FS_Subset, FS_CardinalityType
<1>3. N \subseteq Nat /\ N # {}
  BY <1>1, <1>2
<1>4. PICK n \in N : \A m \in N : n <= m
  <2> HIDE DEF N
  <2> QED
    BY <1>3, LeastNumber
<1>5. PICK T \in Bad : n = Cardinality(T)
  BY <1>4
<1>6. PICK t \in T : t \in Int
  BY <1>5
<1>7. IsFiniteSet(T \ {t}) /\ Cardinality(T \ {t}) = n - 1 /\ n \in Nat
  BY <1>2, <1>5, <1>6, FS_RemoveElement
<1>8. T \ {t} \notin Bad
  <2>1. ASSUME T \ {t} \in Bad PROVE FALSE
    <3>1. n - 1 \in N
      BY <1>7, <2>1
    <3> QED
      BY <1>4, <1>7, <3>1
  <2> QED
    BY <2>1
<1>9. CASE T \ {t} = {}
  <2>1. Greatest(T, t)
    BY <1>6, <1>9
  <2> QED
    BY <1>5, <2>1
<1>10. CASE T \ {t} # {}
  <2>1. PICK m \in T \ {t} : Greatest(T \ {t}, m)
    BY <1>5, <1>8, <1>10
  <2>2. m \in Int /\ m \in T /\ \A y \in T : y \in Int
    BY <1>5, <2>1
  <2>3. Greatest(T, m) \/ Greatest(T, t)
    BY <1>6, <2>1, <2>2
  <2> QED
    BY <1>5, <1>6, <2>2, <2>3
<1> QED
  BY <1>9, <1>10

LEMMA LeastOf ==
  ASSUME NEW S, IsFiniteSet(S), S # {}, S \subseteq Int
  PROVE  \E x \in S : \A y \in S : x <= y
<1> DEFINE f == [x \in S |-> -x]
           T == {f[x] : x \in S}
<1>1. IsFiniteSet(T)
  BY ImageFinite
<1>2. T # {} /\ T \subseteq Int
  OBVIOUS
<1>3. PICK m \in T : \A y \in T : y <= m
  <2> HIDE DEF T
  <2> QED
    BY <1>1, <1>2, GreatestOf
<1>4. PICK x \in S : m = -x
  BY <1>3
<1>5. ASSUME NEW y \in S PROVE x <= y
  <2>1. -y \in T /\ y \in Int /\ x \in Int
    OBVIOUS
  <2>2. -y <= -x
    BY <1>3, <1>4, <2>1
  <2> QED
    BY <2>1, <2>2
<1> QED
  BY <1>5

-----------------------------------------------------------------------------
\* The windows of a commune and of six hours, and the ignitions.
Signals ==
  UNION {[class : {"satellite_signal"}, key : {KeyOf(d)}, commune : {d.commune},
          occurred : Int, until : Int, count : Nat] : d \in Detections}
IgnitionOf(e) ==
  [class |-> "confirmed_ignition", key |-> <<e.commune, "ignition", e.hour>>, commune |-> e.commune,
   occurred |-> e.hour, until |-> e.hour, count |-> 1]
Confirmed_ == {IgnitionOf(e) : e \in Ignitions}
RefreshSteps == {"waiting", "ignitions", "archives", "observations", "compare"}

RefreshTypes ==
  refresh \in [step : RefreshSteps, begun : SUBSET Detections, archives : SUBSET Bulletins,
               observations : SUBSET (Signals \cup Confirmed_), faults : Nat]

TruthTypes ==
  /\ detected \subseteq Detections /\ IsFiniteSet(detected)
  /\ ignited \subseteq Ignitions /\ IsFiniteSet(ignited)
  /\ bulletins \subseteq Bulletins /\ IsFiniteSet(bulletins)
  /\ observed \subseteq Signals \cup Confirmed_ /\ IsFiniteSet(observed)
  /\ \A o, p \in observed : o.key = p.key => o = p
  /\ IsFiniteSet(matches)
  /\ RefreshTypes
  /\ refresh.begun \subseteq detected /\ refresh.archives \subseteq bulletins
  /\ compared \in [detections : SUBSET detected, archives : SUBSET bulletins]

\* Each of some detections is in a window that was stored.
Covered(D) ==
  \A d \in D : \E o \in observed :
    o.class = "satellite_signal" /\ o.key = KeyOf(d) /\ o.until >= d.hour

ReadInv ==
  /\ (refresh.step # "compare" \/ refresh.archives = {}) => refresh.observations = {}
  /\ refresh.step = "compare" /\ refresh.archives # {} =>
       refresh.observations = {o \in observed : o.occurred >= FirstArchive.issued}
  /\ Covered(refresh.begun) /\ Covered(compared.detections)

Compared_(o, b, h) ==
  o.commune \in DOMAIN b.scores /\ InPeriod(o, b, h) =>
    \E m \in matches : m.key = o.key /\ m.bulletin = b.issued /\ m.horizon = h

ComparedInv ==
  \A d \in compared.detections, o \in observed : o.key = KeyOf(d) =>
    \A b \in compared.archives, h \in Horizons_ : Compared_(o, b, h)

\* A comparison is of an observation with a bulletin in whose period it is.
OfObservation(m, o, b) ==
  /\ o.key = m.key /\ o.class = m.class /\ b.issued = m.bulletin
  /\ m.lead = o.occurred - b.issued
  /\ m.lead \in 0..(b.scheduled - b.issued + m.horizon)
Classes(class) ==
  IF class = "confirmed_ignition" THEN {"confirmed_hit", "confirmed_miss"}
  ELSE {"signal_covered", "signal_below_threshold"}

MatchesInv ==
  /\ \A m \in matches :
       /\ \E o \in observed, b \in bulletins : OfObservation(m, o, b)
       /\ m.classification \in Classes(m.class)
  /\ \A m, n \in matches : SameMatch(m, n) => m = n

TruthInv == TruthTypes /\ ReadInv /\ ComparedInv /\ MatchesInv

-----------------------------------------------------------------------------
LEMMA SignalFacts ==
  /\ \A o \in Signals : /\ o.class = "satellite_signal" /\ o.occurred \in Int /\ o.until \in Int
                        /\ \E d \in Detections : o.key = KeyOf(d) /\ o.commune = d.commune
  /\ \A o \in Confirmed_ : /\ o.class = "confirmed_ignition" /\ o.occurred \in Int
                           /\ \E e \in Ignitions : o = IgnitionOf(e)
  /\ \A d, e : KeyOf(d) # <<e.commune, "ignition", e.hour>>
  /\ \A d, e : KeyOf(d) = KeyOf(e) => d.commune = e.commune
<1>1. ASSUME NEW o \in Signals
      PROVE  /\ o.class = "satellite_signal" /\ o.occurred \in Int /\ o.until \in Int
             /\ \E d \in Detections : o.key = KeyOf(d) /\ o.commune = d.commune
  BY DEF Signals
<1>2. ASSUME NEW o \in Confirmed_
      PROVE  /\ o.class = "confirmed_ignition" /\ o.occurred \in Int
             /\ \E e \in Ignitions : o = IgnitionOf(e)
  BY BulletinsAssumption DEF Confirmed_, IgnitionOf
<1>3. \A d, e : KeyOf(d) # <<e.commune, "ignition", e.hour>>
  <2>1. \A d, e : Len(KeyOf(d)) = 2 /\ Len(<<e.commune, "ignition", e.hour>>) = 3
    BY DEF KeyOf
  <2> QED
    BY <2>1
<1>4. \A d, e : KeyOf(d) = KeyOf(e) => d.commune = e.commune
  BY DEF KeyOf
<1> QED
  BY <1>1, <1>2, <1>3, <1>4

LEMMA ObservedFacts ==
  ASSUME TruthTypes, NEW o \in observed
  PROVE  /\ o.occurred \in Int
         /\ o.class \in {"satellite_signal", "confirmed_ignition"}
         /\ \A d : o.key = KeyOf(d) => o \in Signals /\ o.commune = d.commune
<1>1. o \in Signals \/ o \in Confirmed_
  BY DEF TruthTypes
<1>2. CASE o \in Signals
  <2>1. PICK e \in Detections : o.key = KeyOf(e) /\ o.commune = e.commune
    BY <1>2, SignalFacts
  <2>2. \A d : o.key = KeyOf(d) => o.commune = d.commune
    BY <2>1, SignalFacts
  <2> QED
    BY <1>2, <2>2, SignalFacts
<1>3. CASE o \in Confirmed_
  <2>1. PICK e \in Ignitions : o = IgnitionOf(e)
    BY <1>3, SignalFacts
  <2>2. o.key = <<e.commune, "ignition", e.hour>>
    BY <2>1 DEF IgnitionOf
  <2> QED
    BY <1>3, <2>2, SignalFacts
<1> QED
  BY <1>1, <1>2, <1>3

\* The window of a group covers its detections.
LEMMA WindowOfGroup ==
  ASSUME TruthTypes, NEW g \in Groups
  PROVE  /\ Window(g) \in Signals
         /\ \A d \in g : d \in detected /\ Window(g).key = KeyOf(d) /\ d.hour <= Window(g).until
         /\ g # {}
<1>1. PICK x \in detected : g = {d \in detected : KeyOf(d) = KeyOf(x)}
  BY DEF Groups
<1>2. x \in g /\ g \subseteq detected /\ \A d \in g : KeyOf(d) = KeyOf(x) /\ d \in Detections /\ d.hour \in Int
  BY <1>1, BulletinsAssumption DEF TruthTypes
<1> DEFINE y == CHOOSE e \in g : TRUE
<1>3. y \in g
  BY <1>2
<1>4. IsFiniteSet(g) /\ IsFiniteSet(Times_(g)) /\ Times_(g) # {} /\ Times_(g) \subseteq Int
      /\ \A d \in g : d.hour \in Times_(g)
  <2>1. IsFiniteSet(g)
    BY <1>2, FS_Subset DEF TruthTypes
  <2> DEFINE f == [d \in g |-> d.hour]
  <2>2. IsFiniteSet({f[d] : d \in g})
    BY <2>1, ImageFinite
  <2>3. {f[d] : d \in g} = Times_(g)
    BY DEF Times_
  <2> QED
    BY <1>2, <2>1, <2>2, <2>3 DEF Times_
<1>5. PICK T : T = Times_(g)
  OBVIOUS
<1>6. Max(T) \in T /\ (\A t \in T : t <= Max(T)) /\ Min(T) \in T
  <2>1. \E m \in T : \A t \in T : m >= t
    BY <1>4, <1>5, GreatestOf
  <2>2. \E m \in T : \A t \in T : m <= t
    BY <1>4, <1>5, LeastOf
  <2>3. Max(T) \in T /\ \A t \in T : Max(T) >= t
    BY <2>1 DEF Max
  <2>4. Min(T) \in T
    BY <2>2 DEF Min
  <2> QED
    BY <1>4, <1>5, <2>3, <2>4
<1>7. PICK lo, hi, n : lo = Min(T) /\ hi = Max(T) /\ n = Cardinality(g)
  OBVIOUS
<1>8. lo \in Int /\ hi \in Int /\ n \in Nat
  BY <1>4, <1>5, <1>6, <1>7, FS_CardinalityType
<1>9. Window(g) = [class |-> "satellite_signal", key |-> KeyOf(y), commune |-> y.commune,
                   occurred |-> lo, until |-> hi, count |-> n]
  BY <1>5, <1>7 DEF Window
<1>10. PICK k, c : k = KeyOf(y) /\ c = y.commune
  OBVIOUS
<1>11. y \in Detections /\ KeyOf(y) = KeyOf(x)
  BY <1>2, <1>3
<1> HIDE DEF y
<1>12. [class |-> "satellite_signal", key |-> k, commune |-> c, occurred |-> lo, until |-> hi, count |-> n]
         \in [class : {"satellite_signal"}, key : {KeyOf(y)}, commune : {y.commune},
              occurred : Int, until : Int, count : Nat]
  BY <1>8, <1>10
<1>13. Window(g) \in Signals
  BY <1>9, <1>10, <1>11, <1>12 DEF Signals
<1>14. Window(g).key = KeyOf(x) /\ Window(g).until = hi
  BY <1>9, <1>11
<1> QED
  BY <1>2, <1>4, <1>5, <1>6, <1>7, <1>13, <1>14

Windows == {Window(g) : g \in Groups}

LEMMA WindowsFacts ==
  ASSUME TruthTypes
  PROVE  /\ IsFiniteSet(Windows) /\ Windows \subseteq Signals
         /\ \A d \in detected : \E w \in Windows : w.key = KeyOf(d) /\ w.until >= d.hour
         /\ \A w \in Windows : \E d \in detected : w.key = KeyOf(d)
         /\ \A v, w \in Windows : v.key = w.key => v = w
<1>1. IsFiniteSet(Groups)
  <2>3. PICK f : f = [x \in detected |-> {d \in detected : KeyOf(d) = KeyOf(x)}]
    OBVIOUS
  <2>4. IsFiniteSet(detected) /\ DOMAIN f = detected
    BY <2>3 DEF TruthTypes
  <2>1. IsFiniteSet({f[x] : x \in detected})
    BY <2>4, ImageFinite
  <2>5. Groups = {{d \in detected : KeyOf(d) = KeyOf(x)} : x \in detected}
    BY DEF Groups
  <2>2. {f[x] : x \in detected} = Groups
    BY <2>3, <2>5
  <2> QED
    BY <2>1, <2>2
<1>2. IsFiniteSet(Windows)
  <2> DEFINE f == [g \in Groups |-> Window(g)]
  <2>1. IsFiniteSet({f[g] : g \in Groups})
    BY <1>1, ImageFinite
  <2>2. {f[g] : g \in Groups} = Windows
    BY DEF Windows
  <2> QED
    BY <2>1, <2>2
<1>3. ASSUME NEW d \in detected PROVE \E w \in Windows : w.key = KeyOf(d) /\ w.until >= d.hour
  <2>1. PICK g \in Groups : d \in g
    <3>1. {e \in detected : KeyOf(e) = KeyOf(d)} \in Groups
      BY DEF Groups
    <3>2. d \in {e \in detected : KeyOf(e) = KeyOf(d)}
      OBVIOUS
    <3> QED
      BY <3>1, <3>2
  <2>2. Window(g) \in Windows /\ Window(g) \in Signals /\ Window(g).key = KeyOf(d) /\ d.hour <= Window(g).until
    BY <2>1, WindowOfGroup DEF Windows
  <2>3. Window(g).until \in Int /\ d.hour \in Int
    BY <2>2, SignalFacts, BulletinsAssumption DEF TruthTypes
  <2>4. Window(g).until >= d.hour
    BY <2>2, <2>3
  <2> QED
    BY <2>2, <2>4
<1>4. ASSUME NEW w \in Windows PROVE w \in Signals /\ \E d \in detected : w.key = KeyOf(d)
  BY WindowOfGroup DEF Windows
<1>5. ASSUME NEW v \in Windows, NEW w \in Windows, v.key = w.key PROVE v = w
  <2>1. PICK g \in Groups, h \in Groups : v = Window(g) /\ w = Window(h)
    BY DEF Windows
  <2>2. PICK x \in detected, y \in detected :
          g = {d \in detected : KeyOf(d) = KeyOf(x)} /\ h = {d \in detected : KeyOf(d) = KeyOf(y)}
    BY DEF Groups
  <2>3. x \in g /\ y \in h
    BY <2>2
  <2>4. KeyOf(x) = v.key /\ KeyOf(y) = w.key
    BY <2>1, <2>3, WindowOfGroup
  <2>5. g = h
    BY <1>5, <2>2, <2>4
  <2> QED
    BY <2>1, <2>5
<1> QED
  BY <1>2, <1>3, <1>4, <1>5

LEMMA SignalUpdated ==
  ASSUME NEW w \in Signals, NEW v \in Int
  PROVE  LET x == [w EXCEPT !.occurred = v] IN
         /\ x \in Signals /\ x.occurred = v
         /\ x.class = w.class /\ x.key = w.key /\ x.commune = w.commune /\ x.until = w.until
<1>1. PICK d \in Detections :
        w \in [class : {"satellite_signal"}, key : {KeyOf(d)}, commune : {d.commune},
               occurred : Int, until : Int, count : Nat]
  BY DEF Signals
<1>2. PICK k, c : k = KeyOf(d) /\ c = d.commune
  OBVIOUS
<1>3. w \in [class : {"satellite_signal"}, key : {k}, commune : {c}, occurred : Int, until : Int, count : Nat]
  BY <1>1, <1>2
<1>4. PICK x : x = [w EXCEPT !.occurred = v]
  OBVIOUS
<1>5. /\ x \in [class : {"satellite_signal"}, key : {k}, commune : {c}, occurred : Int, until : Int, count : Nat]
      /\ x.occurred = v /\ x.class = w.class /\ x.key = w.key /\ x.commune = w.commune /\ x.until = w.until
  BY <1>3, <1>4
<1>6. x \in Signals
  BY <1>2, <1>5 DEF Signals
<1> QED
  BY <1>4, <1>5, <1>6

\* An observation may be updated, but neither what it is of nor when it occurred.
ObservedGrows ==
  \A p \in observed : \E o \in observed' :
    o.key = p.key /\ o.class = p.class /\ o.commune = p.commune /\ o.occurred = p.occurred

ObservedTypes ==
  /\ observed \subseteq Signals \cup Confirmed_ /\ IsFiniteSet(observed)
  /\ \A o, p \in observed : o.key = p.key => o = p

LEMMA WindowsUpserted ==
  ASSUME TruthTypes, UpsertWindows
  PROVE  /\ ObservedTypes' /\ ObservedGrows
         /\ \A d \in detected : \E o \in observed' :
              o.class = "satellite_signal" /\ o.key = KeyOf(d) /\ o.until >= d.hour
<1> DEFINE Old(w) == CHOOSE o \in Known(w.key) : TRUE
           New(w) == IF Known(w.key) = {} THEN w ELSE Updated(Old(w), w)
           K == {o \in observed : \A w \in Windows : w.key # o.key}
<1>1. observed' = K \cup {New(w) : w \in Windows}
  <2>1. observed' = K \cup {w \in Windows : Known(w.key) = {}}
                      \cup {Updated(Old(w), w) : w \in {v \in Windows : Known(v.key) # {}}}
    BY DEF UpsertWindows, Windows
  <2>2. {New(w) : w \in Windows} =
          {w \in Windows : Known(w.key) = {}} \cup {Updated(Old(w), w) : w \in {v \in Windows : Known(v.key) # {}}}
    <3>1. ASSUME NEW x \in {New(w) : w \in Windows}
          PROVE  x \in {w \in Windows : Known(w.key) = {}}
                       \cup {Updated(Old(w), w) : w \in {v \in Windows : Known(v.key) # {}}}
      <4> HIDE DEF Old
      <4> QED
        OBVIOUS
    <3>2. ASSUME NEW x \in {w \in Windows : Known(w.key) = {}}
                       \cup {Updated(Old(w), w) : w \in {v \in Windows : Known(v.key) # {}}}
          PROVE  x \in {New(w) : w \in Windows}
      <4> HIDE DEF Old
      <4> QED
        OBVIOUS
    <3> HIDE DEF Old, New
    <3> QED
      BY <3>1, <3>2
  <2> HIDE DEF Old, New, K
  <2> QED
    BY <2>1, <2>2
<1>2. ASSUME NEW w \in Windows
      PROVE  /\ New(w) \in Signals /\ New(w).class = "satellite_signal" /\ New(w).key = w.key
             /\ New(w).commune = w.commune /\ New(w).until = w.until
             /\ \A o \in observed : o.key = w.key => New(w).occurred = o.occurred
  <2>1. w \in Signals /\ w.class = "satellite_signal"
    BY WindowsFacts, SignalFacts
  <2>2. CASE Known(w.key) = {}
    BY <2>1, <2>2 DEF Known
  <2>3. CASE Known(w.key) # {}
    <3>1. Old(w) \in observed /\ Old(w).key = w.key
      BY <2>3 DEF Known
    <3>2. PICK o \in observed : o = Old(w)
      BY <3>1
    <3>3. o.occurred \in Int /\ o.key = w.key
      BY <3>1, <3>2, ObservedFacts
    <3>4. New(w) = [w EXCEPT !.occurred = o.occurred]
      BY <2>3, <3>2 DEF Updated
    <3>5. PICK v \in Int : v = o.occurred
      BY <3>3
    <3>6. New(w) = [w EXCEPT !.occurred = v]
      BY <3>4, <3>5
    <3>7. \A p \in observed : p.key = w.key => p = o
      BY <3>3 DEF TruthTypes
    <3> HIDE DEF New
    <3> QED
      BY <2>1, <3>5, <3>6, <3>7, SignalUpdated
  <2> HIDE DEF New
  <2> QED
    BY <2>2, <2>3
<1> HIDE DEF New
<1>3. ObservedTypes'
  <2>1. K \subseteq Signals \cup Confirmed_ /\ IsFiniteSet(K)
    BY FS_Subset DEF TruthTypes
  <2>2. IsFiniteSet({New(w) : w \in Windows})
    <3> DEFINE f == [w \in Windows |-> New(w)]
    <3>1. IsFiniteSet(Windows)
      BY WindowsFacts
    <3>2. IsFiniteSet({f[w] : w \in Windows})
      BY <3>1, ImageFinite
    <3>3. {f[w] : w \in Windows} = {New(w) : w \in Windows}
      OBVIOUS
    <3> QED
      BY <3>2, <3>3
  <2>3. IsFiniteSet(observed')
    BY <1>1, <2>1, <2>2, FS_Union
  <2>4. ASSUME NEW o \in observed', NEW p \in observed', o.key = p.key PROVE o = p
    <3>1. CASE o \in K /\ p \in K
      BY <2>4, <3>1 DEF TruthTypes
    <3>2. \A x \in K, w \in Windows : x.key # New(w).key
      BY <1>2
    <3>3. \A v, w \in Windows : New(v).key = New(w).key => v = w
      BY <1>2, WindowsFacts
    <3> HIDE DEF K
    <3> QED
      BY <1>1, <2>4, <3>1, <3>2, <3>3
  <2>5. observed' \subseteq Signals \cup Confirmed_
    BY <1>1, <1>2, <2>1
  <2>6. \A d : KeyOf(d)' = KeyOf(d)
    BY DEF KeyOf
  <2> QED
    BY <2>3, <2>4, <2>5 DEF ObservedTypes
<1>4. ASSUME NEW p \in observed
      PROVE  \E o \in observed' :
               o.key = p.key /\ o.class = p.class /\ o.commune = p.commune /\ o.occurred = p.occurred
  <2>1. CASE \A w \in Windows : w.key # p.key
    BY <1>1, <2>1
  <2>2. CASE \E w \in Windows : w.key = p.key
    <3>1. PICK w \in Windows : w.key = p.key
      BY <2>2
    <3>2. w \in Signals
      BY WindowsFacts
    <3>3. PICK d \in Detections : w.key = KeyOf(d) /\ w.commune = d.commune
      BY <3>2, SignalFacts
    <3>4. p \in Signals /\ p.commune = d.commune
      BY <3>1, <3>3, ObservedFacts
    <3>5. p.class = "satellite_signal"
      BY <3>4, SignalFacts
    <3>6. New(w) \in observed'
      BY <1>1
    <3> QED
      BY <1>2, <3>1, <3>3, <3>4, <3>5, <3>6
  <2> QED
    BY <2>1, <2>2
<1>5. ASSUME NEW d \in detected
      PROVE  \E o \in observed' : o.class = "satellite_signal" /\ o.key = KeyOf(d) /\ o.until >= d.hour
  <2>1. PICK w \in Windows : w.key = KeyOf(d) /\ w.until >= d.hour
    BY WindowsFacts
  <2>2. New(w) \in observed'
    BY <1>1
  <2> QED
    BY <1>2, <2>1, <2>2
<1> QED
  BY <1>3, <1>4, <1>5 DEF ObservedGrows

LEMMA IgnitionsInserted ==
  ASSUME TruthTypes, InsertIgnitions
  PROVE  ObservedTypes' /\ ObservedGrows /\ observed \subseteq observed'
<1> DEFINE I == {IgnitionOf(e) : e \in ignited}
<1>1. observed' = observed \cup I
  BY DEF InsertIgnitions, IgnitionOf
<1>2. I \subseteq Confirmed_
  BY DEF TruthTypes, Confirmed_
<1>3. IsFiniteSet(I)
  <2> DEFINE f == [e \in ignited |-> IgnitionOf(e)]
  <2>3. IsFiniteSet(ignited) /\ DOMAIN f = ignited
    BY DEF TruthTypes
  <2> HIDE DEF f
  <2>1. IsFiniteSet({f[e] : e \in ignited})
    BY <2>3, ImageFinite
  <2> USE DEF f
  <2>2. {f[e] : e \in ignited} = I
    OBVIOUS
  <2> QED
    BY <2>1, <2>2
<1>4. ASSUME NEW o \in observed, NEW x \in I, o.key = x.key PROVE o = x
  <2>1. PICK e \in ignited : x = IgnitionOf(e)
    OBVIOUS
  <2>2. x.key = <<e.commune, "ignition", e.hour>>
    BY <2>1 DEF IgnitionOf
  <2>3. ASSUME o \in Signals PROVE FALSE
    <3>1. PICK d \in Detections : o.key = KeyOf(d)
      BY <2>3, SignalFacts
    <3>2. KeyOf(d) # <<e.commune, "ignition", e.hour>>
      BY SignalFacts
    <3> QED
      BY <1>4, <2>2, <3>1, <3>2
  <2>4. PICK y \in Ignitions : o = IgnitionOf(y)
    BY <2>3, SignalFacts DEF TruthTypes
  <2>5. o.key = <<y.commune, "ignition", y.hour>>
    BY <2>4 DEF IgnitionOf
  <2>6. y.commune = e.commune /\ y.hour = e.hour
    BY <1>4, <2>2, <2>5
  <2> QED
    BY <2>1, <2>4, <2>6 DEF IgnitionOf
<1>5. ASSUME NEW u \in I, NEW x \in I, u.key = x.key PROVE u = x
  <2>1. PICK e \in ignited, y \in ignited : x = IgnitionOf(e) /\ u = IgnitionOf(y)
    OBVIOUS
  <2>2. x.key = <<e.commune, "ignition", e.hour>> /\ u.key = <<y.commune, "ignition", y.hour>>
    BY <2>1 DEF IgnitionOf
  <2>3. y.commune = e.commune /\ y.hour = e.hour
    BY <1>5, <2>2
  <2> QED
    BY <2>1, <2>3 DEF IgnitionOf
<1> HIDE DEF I
<1>6. IsFiniteSet(observed')
  BY <1>1, <1>3, FS_Union DEF TruthTypes
<1>7. ObservedTypes'
  BY <1>1, <1>2, <1>4, <1>5, <1>6 DEF ObservedTypes, TruthTypes
<1> QED
  BY <1>1, <1>7 DEF ObservedGrows

\* What was compared stays compared while observations are added and updated.
LEMMA ComparedStays ==
  ASSUME TruthTypes, ComparedInv, MatchesInv, Covered(compared.detections), ObservedTypes', ObservedGrows,
         bulletins \subseteq bulletins', UNCHANGED <<matches, compared>>
  PROVE  ComparedInv' /\ MatchesInv'
<1>1. ASSUME NEW d \in compared.detections, NEW o \in observed', o.key = KeyOf(d),
             NEW b \in compared.archives, NEW h \in Horizons_, o.commune \in DOMAIN b.scores, InPeriod(o, b, h)
      PROVE  \E m \in matches : m.key = o.key /\ m.bulletin = b.issued /\ m.horizon = h
  <2>1. PICK p \in observed : p.key = KeyOf(d)
    BY DEF Covered
  <2>2. PICK q \in observed' : q.key = p.key /\ q.commune = p.commune /\ q.occurred = p.occurred
    BY DEF ObservedGrows
  <2>3. q = o
    BY <1>1, <2>1, <2>2 DEF ObservedTypes
  <2>4. Compared_(p, b, h)
    BY <2>1 DEF ComparedInv
  <2> QED
    BY <1>1, <2>1, <2>2, <2>3, <2>4 DEF Compared_, InPeriod
<1>2. ComparedInv'
  BY <1>1 DEF ComparedInv, Compared_, InPeriod, KeyOf
<1>3. ASSUME NEW m \in matches PROVE \E o \in observed', b \in bulletins' : OfObservation(m, o, b)
  <2>1. PICK p \in observed, b \in bulletins : OfObservation(m, p, b)
    BY DEF MatchesInv
  <2>2. PICK o \in observed' : o.key = p.key /\ o.class = p.class /\ o.commune = p.commune /\ o.occurred = p.occurred
    BY DEF ObservedGrows
  <2>3. OfObservation(m, o, b)
    BY <2>1, <2>2 DEF OfObservation
  <2> QED
    BY <2>3
<1>4. MatchesInv'
  BY <1>3 DEF MatchesInv, OfObservation, Classes, SameMatch
<1> QED
  BY <1>2, <1>4

\* The first of the archives was issued before all of them.
LEMMA FirstIssued ==
  ASSUME TruthTypes, refresh.archives # {}, NEW b \in refresh.archives
  PROVE  FirstArchive \in refresh.archives /\ FirstArchive.issued <= b.issued
<1>1. PICK A : A = refresh.archives
  OBVIOUS
<1>2. A \subseteq Bulletins /\ IsFiniteSet(A) /\ b \in A
  <2>1. A \subseteq bulletins /\ bulletins \subseteq Bulletins /\ IsFiniteSet(bulletins)
    BY <1>1 DEF TruthTypes
  <2> QED
    BY <1>1, <2>1, FS_Subset
<1>3. \A x \in A : x.issued \in Int /\ x.scheduled \in Int /\ x.scheduled <= x.issued
  BY <1>2, BulletinsAssumption
<1>4. \E x \in A : \A y \in A : x.scheduled <= y.scheduled
  <2>1. PICK f : f = [x \in A |-> x.scheduled]
    OBVIOUS
  <2>2. PICK S : S = {f[x] : x \in A}
    OBVIOUS
  <2>3. IsFiniteSet(S)
    BY <1>2, <2>1, <2>2, ImageFinite
  <2>4. S # {} /\ S \subseteq Int
    BY <1>2, <1>3, <2>1, <2>2
  <2>5. PICK s \in S : \A t \in S : s <= t
    BY <2>3, <2>4, LeastOf
  <2>6. PICK x \in A : s = x.scheduled
    BY <2>1, <2>2
  <2>7. \A y \in A : y.scheduled \in S
    BY <2>1, <2>2
  <2> QED
    BY <2>5, <2>6, <2>7
<1>5. PICK c : c = FirstArchive
  OBVIOUS
<1>6. c \in A /\ \A y \in A : c.scheduled <= y.scheduled
  BY <1>1, <1>4, <1>5 DEF FirstArchive
<1>7. c.issued <= b.issued
  <2>1. CASE c = b
    BY <1>2, <1>3, <2>1
  <2>2. CASE c # b
    <3>1. c \in Bulletins /\ b \in Bulletins /\ c.scheduled <= b.scheduled
      BY <1>2, <1>6
    <3>2. c.issued < b.scheduled \/ b.issued < c.scheduled
      BY <2>2, <3>1, BulletinsAssumption
    <3>3. c.issued \in Int /\ b.issued \in Int /\ c.scheduled \in Int /\ b.scheduled \in Int
          /\ b.scheduled <= b.issued /\ c.scheduled <= c.issued
      BY <1>2, <1>3, <1>6
    <3> QED
      BY <3>1, <3>2, <3>3
  <2> QED
    BY <2>1, <2>2
<1> QED
  BY <1>1, <1>5, <1>6, <1>7

LEMMA MatchFacts ==
  ASSUME TruthTypes, NEW o \in observed, NEW b \in bulletins, NEW h \in Horizons_, InPeriod(o, b, h)
  PROVE  /\ OfObservation(Match(o, b, h), o, b)
         /\ Match(o, b, h).classification \in Classes(o.class)
         /\ Match(o, b, h).class = o.class /\ Match(o, b, h).key = o.key
         /\ Match(o, b, h).bulletin = b.issued /\ Match(o, b, h).horizon = h
<1>1. o.occurred \in Int /\ b.issued \in Int /\ b.scheduled \in Int /\ h \in Int
  BY ObservedFacts, BulletinsAssumption DEF TruthTypes, Horizons_
<1>2. PICK m : m = Match(o, b, h)
  OBVIOUS
<1>3. PICK c : c = Class(o, b.scores[o.commune][h])
  OBVIOUS
<1>4. c \in Classes(o.class)
  BY <1>3 DEF Class, Classes
<1>5. /\ m.class = o.class /\ m.key = o.key /\ m.bulletin = b.issued /\ m.horizon = h
      /\ m.classification = c /\ m.lead = o.occurred - b.issued
  BY <1>2, <1>3 DEF Match
<1>6. o.occurred - b.issued \in 0..(b.scheduled - b.issued + h)
  BY <1>1 DEF InPeriod
<1>7. OfObservation(m, o, b)
  BY <1>5, <1>6 DEF OfObservation
<1> QED
  BY <1>2, <1>4, <1>5, <1>7

LEMMA AllCompared ==
  ASSUME TruthInv, CompareAll
  PROVE  IsFiniteSet(matches') /\ ComparedInv' /\ MatchesInv'
<1>0. TruthTypes /\ ReadInv /\ ComparedInv /\ MatchesInv
  BY DEF TruthInv
<1>1. PICK O, A : O = refresh.observations /\ A = refresh.archives
  OBVIOUS
<1>2. /\ O \subseteq observed /\ A \subseteq bulletins /\ A \subseteq Bulletins /\ IsFiniteSet(O) /\ IsFiniteSet(A)
      /\ \A o \in observed, b \in A : o.occurred >= b.issued => o \in O
  <2>1. refresh.step = "compare"
    BY DEF CompareAll
  <2>2. A \subseteq bulletins /\ A \subseteq Bulletins /\ IsFiniteSet(A)
    BY <1>0, <1>1, FS_Subset DEF TruthTypes
  <2>3. CASE A = {}
    <3>1. O \subseteq observed
      BY <1>0, <1>1, <2>1, <2>3 DEF ReadInv
    <3> QED
      BY <1>0, <2>2, <2>3, <3>1, FS_Subset DEF TruthTypes
  <2>4. CASE A # {}
    <3>1. O = {o \in observed : o.occurred >= FirstArchive.issued}
      BY <1>0, <1>1, <2>1, <2>4 DEF ReadInv
    <3>2. IsFiniteSet(O) /\ O \subseteq observed
      BY <1>0, <3>1, FS_Subset DEF TruthTypes
    <3>3. ASSUME NEW o \in observed, NEW b \in A, o.occurred >= b.issued PROVE o \in O
      <4>1. FirstArchive \in A /\ FirstArchive.issued <= b.issued
        BY <1>0, <1>1, FirstIssued
      <4>2. FirstArchive.issued \in Int /\ b.issued \in Int /\ o.occurred \in Int
        BY <1>0, <2>2, <4>1, BulletinsAssumption, ObservedFacts
      <4> QED
        BY <3>1, <3>3, <4>1, <4>2
    <3> QED
      BY <2>2, <3>2, <3>3
  <2> QED
    BY <2>3, <2>4
<1>3. PICK New : New = {Match(t[1], t[2], t[3]) : t \in Comparable_(O, A)}
  OBVIOUS
<1>4. /\ matches' = matches \cup {m \in New : \A n \in matches : ~SameMatch(m, n)}
      /\ compared' = [detections |-> refresh.begun, archives |-> A]
      /\ UNCHANGED <<detected, ignited, bulletins, observed>>
  BY <1>1, <1>3 DEF CompareAll, Kept_
<1>5. ASSUME NEW m \in New
      PROVE  \E o \in O, b \in A, h \in Horizons_ :
               /\ m = Match(o, b, h) /\ OfObservation(m, o, b) /\ m.classification \in Classes(m.class)
               /\ m.key = o.key /\ m.bulletin = b.issued /\ m.horizon = h
  <2>1. PICK t \in Comparable_(O, A) : m = Match(t[1], t[2], t[3])
    BY <1>3
  <2>2. t[1] \in O /\ t[2] \in A /\ t[3] \in Horizons_ /\ InPeriod(t[1], t[2], t[3])
    BY <2>1 DEF Comparable_
  <2>3. PICK o \in O, b \in A, h \in Horizons_ : o = t[1] /\ b = t[2] /\ h = t[3]
    BY <2>2
  <2>4. m = Match(o, b, h) /\ InPeriod(o, b, h) /\ o \in observed /\ b \in bulletins
    BY <1>2, <2>1, <2>2, <2>3
  <2> QED
    BY <1>0, <2>4, MatchFacts
<1>6. ASSUME NEW o \in O, NEW b \in A, NEW h \in Horizons_, o.commune \in DOMAIN b.scores, InPeriod(o, b, h)
      PROVE  Match(o, b, h) \in New
  <2>1. <<o, b, h>> \in Comparable_(O, A)
    BY <1>6 DEF Comparable_
  <2> QED
    BY <1>3, <2>1
<1>7. IsFiniteSet(New)
  <2>1. \A h \in Horizons_ : IsFiniteSet({Match(t[1], t[2], h) : t \in O \X A})
    <3> SUFFICES ASSUME NEW h \in Horizons_ PROVE IsFiniteSet({Match(t[1], t[2], h) : t \in O \X A})
      OBVIOUS
    <3>1. PICK f : f = [t \in O \X A |-> Match(t[1], t[2], h)]
      OBVIOUS
    <3>2. IsFiniteSet(O \X A)
      BY <1>2, FS_Product
    <3>3. IsFiniteSet({f[t] : t \in O \X A})
      BY <3>1, <3>2, ImageFinite
    <3>4. {f[t] : t \in O \X A} = {Match(t[1], t[2], h) : t \in O \X A}
      BY <3>1
    <3> QED
      BY <3>3, <3>4
  <2>2. PICK M, N : M = {Match(t[1], t[2], 24) : t \in O \X A} /\ N = {Match(t[1], t[2], 48) : t \in O \X A}
    OBVIOUS
  <2>3. IsFiniteSet(M \cup N)
    <3>1. IsFiniteSet(M) /\ IsFiniteSet(N)
      BY <2>1, <2>2 DEF Horizons_
    <3> QED
      BY <3>1, FS_Union
  <2>4. ASSUME NEW m \in New PROVE m \in M \cup N
    <3>1. PICK o \in O, b \in A, h \in Horizons_ : m = Match(o, b, h)
      BY <1>5
    <3>2. <<o, b>> \in O \X A /\ <<o, b>>[1] = o /\ <<o, b>>[2] = b
      OBVIOUS
    <3>3. h = 24 \/ h = 48
      BY DEF Horizons_
    <3> QED
      BY <2>2, <3>1, <3>2, <3>3
  <2>5. New \subseteq M \cup N
    BY <2>4
  <2> QED
    BY <2>3, <2>5, FS_Subset
<1>8. IsFiniteSet(matches')
  <2>1. IsFiniteSet({m \in New : \A n \in matches : ~SameMatch(m, n)})
    BY <1>7, FS_Subset
  <2> QED
    BY <1>0, <1>4, <2>1, FS_Union DEF TruthTypes
<1>9. ASSUME NEW d \in refresh.begun, NEW o \in observed, o.key = KeyOf(d),
             NEW b \in A, NEW h \in Horizons_, o.commune \in DOMAIN b.scores, InPeriod(o, b, h)
      PROVE  \E m \in matches' : m.key = o.key /\ m.bulletin = b.issued /\ m.horizon = h
  <2>1. o \in O
    BY <1>2, <1>9 DEF InPeriod
  <2>2. PICK m \in New : m = Match(o, b, h)
    BY <1>6, <1>9, <2>1
  <2>3. m.key = o.key /\ m.bulletin = b.issued /\ m.horizon = h
    BY <1>0, <1>2, <1>9, <2>2, MatchFacts
  <2>4. CASE \A n \in matches : ~SameMatch(m, n)
    BY <1>4, <2>3, <2>4
  <2>5. CASE \E n \in matches : SameMatch(m, n)
    <3>1. PICK n \in matches : SameMatch(m, n)
      BY <2>5
    <3> QED
      BY <1>4, <2>3, <3>1 DEF SameMatch
  <2> QED
    BY <2>4, <2>5
<1>10. ComparedInv'
  <2>1. compared'.detections = refresh.begun /\ compared'.archives = A /\ observed' = observed
    BY <1>4
  <2> QED
    BY <1>9, <2>1 DEF ComparedInv, Compared_, InPeriod, KeyOf
<1>11. ASSUME NEW m \in matches'
       PROVE  (\E o \in observed, b \in bulletins : OfObservation(m, o, b)) /\ m.classification \in Classes(m.class)
  <2>1. CASE m \in matches
    BY <1>0, <2>1 DEF MatchesInv
  <2>2. CASE m \in New
    BY <1>2, <1>5, <2>2
  <2> QED
    BY <1>4, <2>1, <2>2
<1>12. ASSUME NEW m \in matches', NEW n \in matches', SameMatch(m, n) PROVE m = n
  <2>1. CASE m \in matches /\ n \in matches
    BY <1>0, <1>12, <2>1 DEF MatchesInv
  <2>2. CASE m \in New /\ n \in New
    <3>1. PICK o \in O, b \in A, h \in Horizons_ :
            m = Match(o, b, h) /\ m.key = o.key /\ m.bulletin = b.issued /\ m.horizon = h
      BY <1>5, <2>2
    <3>2. PICK p \in O, c \in A, k \in Horizons_ :
            n = Match(p, c, k) /\ n.key = p.key /\ n.bulletin = c.issued /\ n.horizon = k
      BY <1>5, <2>2
    <3>3. o.key = p.key /\ b.issued = c.issued /\ h = k
      BY <1>12, <3>1, <3>2 DEF SameMatch
    <3>4. o = p
      BY <1>0, <1>2, <3>3 DEF TruthTypes
    <3>5. b = c
      <4>1. b \in Bulletins /\ c \in Bulletins
        BY <1>2
      <4>2. b.issued \in Int /\ b.scheduled \in Int /\ b.scheduled <= b.issued /\ c.scheduled \in Int
            /\ c.scheduled <= c.issued /\ c.issued \in Int
        BY <4>1, BulletinsAssumption
      <4>3. b # c => b.issued < c.scheduled \/ c.issued < b.scheduled
        BY <4>1, BulletinsAssumption
      <4> QED
        BY <3>3, <4>2, <4>3
    <3> QED
      BY <3>1, <3>2, <3>3, <3>4, <3>5
  <2>3. \A x \in matches', y \in matches : SameMatch(x, y) => x \in matches
    BY <1>4
  <2>4. SameMatch(n, m)
    BY <1>12 DEF SameMatch
  <2> QED
    BY <1>4, <1>12, <2>1, <2>2, <2>3, <2>4
<1>13. MatchesInv'
  <2>1. UNCHANGED <<observed, bulletins>>
    BY <1>4
  <2> QED
    BY <1>11, <1>12, <2>1 DEF MatchesInv, OfObservation, Classes, SameMatch
<1> QED
  BY <1>8, <1>10, <1>13

RefreshRows ==
  [step : RefreshSteps, begun : SUBSET Detections, archives : SUBSET Bulletins,
   observations : SUBSET (Signals \cup Confirmed_), faults : Nat]

\* A step that leaves the observations and the comparisons.
LEMMA NothingObserved ==
  ASSUME TruthInv, UNCHANGED <<observed, matches, compared>>,
         detected \subseteq detected', detected' \subseteq Detections, IsFiniteSet(detected'),
         ignited' \subseteq Ignitions, IsFiniteSet(ignited'),
         bulletins \subseteq bulletins', bulletins' \subseteq Bulletins, IsFiniteSet(bulletins'),
         RefreshTypes', refresh'.begun \subseteq detected', refresh'.archives \subseteq bulletins',
         (refresh'.step # "compare" \/ refresh'.archives = {}) => refresh'.observations = {},
         refresh'.step = "compare" /\ refresh'.archives # {} =>
           refresh'.observations = {o \in observed : o.occurred >= FirstArchive'.issued},
         Covered(refresh'.begun)
  PROVE  TruthInv'
<1>0. TruthTypes /\ ReadInv /\ ComparedInv /\ MatchesInv
  BY DEF TruthInv
<1>1. compared \in [detections : SUBSET detected', archives : SUBSET bulletins']
  <2>1. compared \in [detections : SUBSET detected, archives : SUBSET bulletins]
    BY <1>0 DEF TruthTypes
  <2> QED
    BY <2>1
<1>2. TruthTypes'
  BY <1>0, <1>1 DEF TruthTypes
<1>3. \A d : KeyOf(d)' = KeyOf(d)
  BY DEF KeyOf
<1>4. PICK D, B : D = compared.detections /\ B = refresh'.begun
  OBVIOUS
<1>5. Covered(D) /\ Covered(B)
  BY <1>0, <1>4 DEF ReadInv
<1>6. Covered(D)' /\ Covered(B)'
  BY <1>5 DEF Covered, KeyOf
<1>7. ReadInv'
  <2>1. compared'.detections = D /\ refresh'.begun = B
    BY <1>4
  <2> QED
    BY <1>6, <2>1 DEF ReadInv, Covered
<1>8. ObservedTypes' /\ ObservedGrows
  BY <1>0 DEF TruthTypes, ObservedTypes, ObservedGrows
<1>9. ComparedInv' /\ MatchesInv'
  BY <1>0, <1>8, ComparedStays DEF ReadInv
<1> QED
  BY <1>2, <1>7, <1>9 DEF TruthInv

LEMMA RefreshRow ==
  ASSUME TruthTypes
  PROVE  \E step \in RefreshSteps, begun \in SUBSET Detections, archives \in SUBSET Bulletins,
            observations \in SUBSET (Signals \cup Confirmed_), failures \in Nat :
              refresh = [step |-> step, begun |-> begun, archives |-> archives,
                         observations |-> observations, faults |-> failures]
<1>1. refresh \in RefreshRows
  BY DEF TruthTypes, RefreshTypes, RefreshRows
<1> QED
  BY <1>1 DEF RefreshRows

LEMMA TruthStep ==
  ASSUME TruthInv, [TruthNext]_truth PROVE TruthInv'
<1>0. TruthTypes /\ ReadInv /\ ComparedInv /\ MatchesInv
  BY DEF TruthInv
<1>1. PICK step \in RefreshSteps, begun \in SUBSET Detections, archives \in SUBSET Bulletins,
           observations \in SUBSET (Signals \cup Confirmed_), failures \in Nat :
        refresh = [step |-> step, begun |-> begun, archives |-> archives,
                   observations |-> observations, faults |-> failures]
  BY <1>0, RefreshRow
<1>2. /\ refresh.step = step /\ refresh.begun = begun /\ refresh.archives = archives
      /\ refresh.observations = observations /\ refresh.faults = failures
  BY <1>1
<1>3. begun \subseteq detected /\ archives \subseteq bulletins /\ Covered(begun) /\ Covered(compared.detections)
      /\ ((step # "compare" \/ archives = {}) => observations = {})
  BY <1>0, <1>2 DEF TruthTypes, ReadInv
<1>4. ASSUME UNCHANGED <<observed, matches, refresh, compared>>,
             detected \subseteq detected', detected' \subseteq Detections, IsFiniteSet(detected'),
             ignited' \subseteq Ignitions, IsFiniteSet(ignited'),
             bulletins \subseteq bulletins', bulletins' \subseteq Bulletins, IsFiniteSet(bulletins')
      PROVE  TruthInv'
  <2>1. FirstArchive' = FirstArchive /\ RefreshTypes'
    BY <1>0, <1>4 DEF FirstArchive, TruthTypes, RefreshTypes
  <2>2. /\ refresh'.begun \subseteq detected' /\ refresh'.archives \subseteq bulletins' /\ Covered(refresh'.begun)
        /\ ((refresh'.step # "compare" \/ refresh'.archives = {}) => refresh'.observations = {})
        /\ (refresh'.step = "compare" /\ refresh'.archives # {} =>
              refresh'.observations = {o \in observed : o.occurred >= FirstArchive'.issued})
    <3>1. refresh' = refresh
      BY <1>4
    <3>2. Covered(refresh'.begun)
      BY <1>2, <1>3, <3>1
    <3>3. (refresh'.step # "compare" \/ refresh'.archives = {}) => refresh'.observations = {}
      BY <1>2, <1>3, <3>1
    <3>4. refresh'.step = "compare" /\ refresh'.archives # {} =>
              refresh'.observations = {o \in observed : o.occurred >= FirstArchive'.issued}
      BY <1>0, <2>1, <3>1 DEF ReadInv
    <3> QED
      BY <1>2, <1>3, <1>4, <3>1, <3>2, <3>3, <3>4
  <2> QED
    BY <1>4, <2>1, <2>2, NothingObserved
<1>5. /\ detected \subseteq Detections /\ IsFiniteSet(detected) /\ ignited \subseteq Ignitions /\ IsFiniteSet(ignited)
      /\ bulletins \subseteq Bulletins /\ IsFiniteSet(bulletins)
  BY <1>0 DEF TruthTypes
<1>6. ASSUME NEW d \in Detections, Detect(d) PROVE TruthInv'
  <2>1. detected' = detected \cup {d} /\ UNCHANGED <<ignited, bulletins, observed, matches, refresh, compared>>
    BY <1>6 DEF Detect
  <2>2. IsFiniteSet(detected')
    BY <1>5, <2>1, FS_AddElement
  <2> QED
    BY <1>4, <1>5, <2>1, <2>2
<1>7. ASSUME NEW e \in Ignitions, Ignite(e) PROVE TruthInv'
  <2>1. ignited' = ignited \cup {e} /\ UNCHANGED <<detected, bulletins, observed, matches, refresh, compared>>
    BY <1>7 DEF Ignite
  <2>2. IsFiniteSet(ignited')
    BY <1>5, <2>1, FS_AddElement
  <2> QED
    BY <1>4, <1>5, <2>1, <2>2
<1>8. ASSUME NEW b \in Bulletins, PublishBulletin(b) PROVE TruthInv'
  <2>1. bulletins' = bulletins \cup {b} /\ UNCHANGED <<detected, ignited, observed, matches, refresh, compared>>
    BY <1>8 DEF PublishBulletin
  <2>2. IsFiniteSet(bulletins')
    BY <1>5, <2>1, FS_AddElement
  <2> QED
    BY <1>4, <1>5, <2>1, <2>2
<1>9. ASSUME UNCHANGED <<detected, ignited, bulletins, observed, matches, compared>>,
             NEW s \in RefreshSteps, NEW b \in {begun, {}}, NEW a \in SUBSET bulletins,
             NEW o \in SUBSET (Signals \cup Confirmed_), NEW f \in Nat,
             refresh' = [step |-> s, begun |-> b, archives |-> a, observations |-> o, faults |-> f],
             (s # "compare" \/ a = {}) => o = {},
             s = "compare" /\ a # {} => o = {x \in observed : x.occurred >= FirstArchive'.issued}
      PROVE  TruthInv'
  <2>1. /\ refresh'.step = s /\ refresh'.begun = b /\ refresh'.archives = a
        /\ refresh'.observations = o /\ refresh'.faults = f
    BY <1>9
  <2>2. b \subseteq detected /\ b \subseteq Detections /\ Covered(b) /\ a \subseteq Bulletins
    BY <1>3, <1>5, <1>9 DEF Covered
  <2>3. RefreshTypes'
    BY <1>9, <2>2 DEF RefreshTypes
  <2> QED
    BY <1>5, <1>9, <2>1, <2>2, <2>3, NothingObserved
<1>10. CASE ReadArchives
  <2>1. step = "archives" /\ UNCHANGED <<detected, ignited, bulletins, observed, matches, compared>>
    BY <1>2, <1>10 DEF ReadArchives
  <2>2. PICK a \in SUBSET bulletins : a = bulletins
    OBVIOUS
  <2>3. refresh' = [step |-> "observations", begun |-> begun, archives |-> a, observations |-> {}, faults |-> failures]
    <3>1. refresh' = [[refresh EXCEPT !.step = "observations"] EXCEPT !.archives = a]
      BY <1>10, <1>1, <2>2 DEF ReadArchives
    <3>2. [refresh EXCEPT !.step = "observations"] =
            [step |-> "observations", begun |-> begun, archives |-> archives, observations |-> {}, faults |-> failures]
      BY <1>1, <1>3, <2>1
    <3> QED
      BY <3>1, <3>2
  <2> QED
    BY <1>9, <2>1, <2>3 DEF RefreshSteps
<1>11. CASE ReadObservations
  <2>1. step = "observations" /\ UNCHANGED <<detected, ignited, bulletins, observed, matches, compared>>
    BY <1>2, <1>11 DEF ReadObservations
  <2>2. PICK o : o = IF archives = {} THEN {} ELSE {x \in observed : x.occurred >= FirstArchive.issued}
    OBVIOUS
  <2>3. refresh' = [step |-> "compare", begun |-> begun, archives |-> archives, observations |-> o, faults |-> failures]
    <3>1. refresh' = [[refresh EXCEPT !.step = "compare"] EXCEPT !.observations = o]
      BY <1>11, <1>1, <1>2, <2>2 DEF ReadObservations
    <3>2. [refresh EXCEPT !.step = "compare"] =
            [step |-> "compare", begun |-> begun, archives |-> archives, observations |-> observations, faults |-> failures]
      BY <1>1
    <3> QED
      BY <3>1, <3>2
  <2>4. FirstArchive' = FirstArchive
    <3>1. refresh'.archives = refresh.archives
      BY <1>2, <2>3
    <3> QED
      BY <3>1 DEF FirstArchive
  <2>5. o \subseteq observed /\ observed \subseteq Signals \cup Confirmed_
    BY <1>0, <2>2 DEF TruthTypes
  <2> QED
    BY <1>3, <1>9, <2>1, <2>2, <2>3, <2>4, <2>5 DEF RefreshSteps
<1>12. CASE RefreshFails
  <2>1. UNCHANGED <<detected, ignited, bulletins, observed, matches, compared>>
    BY <1>12 DEF RefreshFails
  <2>2. refresh' = [step |-> "waiting", begun |-> {}, archives |-> {}, observations |-> {}, faults |-> failures + 1]
    BY <1>2, <1>12 DEF RefreshFails, NoRefresh
  <2>3. failures + 1 \in Nat /\ {} \in SUBSET bulletins /\ {} \in SUBSET (Signals \cup Confirmed_)
    OBVIOUS
  <2> QED
    BY <1>9, <2>1, <2>2, <2>3 DEF RefreshSteps
<1>13. ASSUME UNCHANGED <<detected, ignited, bulletins, matches, compared>>, ObservedTypes', ObservedGrows,
              NEW s \in RefreshSteps, s # "compare", NEW b \in SUBSET detected,
              refresh' = [step |-> s, begun |-> b, archives |-> archives, observations |-> {}, faults |-> failures],
              Covered(b)', Covered(compared.detections)'
       PROVE  TruthInv'
  <2>1. /\ refresh'.step = s /\ refresh'.begun = b /\ refresh'.archives = archives
        /\ refresh'.observations = {} /\ refresh'.faults = failures
    BY <1>13
  <2>2. RefreshTypes'
    BY <1>5, <1>13 DEF RefreshTypes
  <2>3. TruthTypes'
    BY <1>0, <1>3, <1>13, <2>1, <2>2 DEF TruthTypes, ObservedTypes
  <2>4. ReadInv'
    BY <1>13, <2>1 DEF ReadInv, Covered
  <2>5. ComparedInv' /\ MatchesInv'
    BY <1>0, <1>3, <1>13, ComparedStays
  <2> QED
    BY <2>3, <2>4, <2>5 DEF TruthInv
<1>14. compared.detections \subseteq detected
  BY <1>0 DEF TruthTypes
<1>15. CASE UpsertWindows
  <2>1. step = "waiting" /\ UNCHANGED <<detected, ignited, bulletins, matches, compared>>
    BY <1>2, <1>15 DEF UpsertWindows
  <2>2. PICK b \in SUBSET detected : b = detected
    OBVIOUS
  <2>3. refresh' = [step |-> "ignitions", begun |-> b, archives |-> archives, observations |-> {}, faults |-> failures]
    <3>1. refresh' = [[refresh EXCEPT !.step = "ignitions"] EXCEPT !.begun = b]
      BY <1>1, <1>15, <2>2 DEF UpsertWindows
    <3>2. [refresh EXCEPT !.step = "ignitions"] =
            [step |-> "ignitions", begun |-> begun, archives |-> archives, observations |-> {}, faults |-> failures]
      BY <1>1, <1>3, <2>1
    <3> QED
      BY <3>1, <3>2
  <2>4. ObservedTypes' /\ ObservedGrows
    BY <1>0, <1>15, WindowsUpserted
  <2>5. Covered(b)' /\ Covered(compared.detections)'
    <3>1. \A d \in detected : \E o \in observed' :
            o.class = "satellite_signal" /\ o.key = KeyOf(d) /\ o.until >= d.hour
      BY <1>0, <1>15, WindowsUpserted
    <3> QED
      BY <1>14, <2>1, <3>1 DEF Covered, KeyOf
  <2> QED
    BY <1>13, <2>1, <2>3, <2>4, <2>5 DEF RefreshSteps
<1>16. CASE InsertIgnitions
  <2>1. step = "ignitions" /\ UNCHANGED <<detected, ignited, bulletins, matches, compared>>
    BY <1>2, <1>16 DEF InsertIgnitions
  <2>2. refresh' = [step |-> "archives", begun |-> begun, archives |-> archives, observations |-> {}, faults |-> failures]
    <3>1. refresh' = [refresh EXCEPT !.step = "archives"]
      BY <1>16 DEF InsertIgnitions, Goto_
    <3> QED
      BY <1>1, <1>3, <2>1, <3>1
  <2>3. ObservedTypes' /\ ObservedGrows /\ observed \subseteq observed'
    BY <1>0, <1>16, IgnitionsInserted
  <2>4. Covered(begun)' /\ Covered(compared.detections)'
    BY <1>3, <2>1, <2>3 DEF Covered, KeyOf
  <2> QED
    BY <1>3, <1>13, <2>1, <2>2, <2>3, <2>4 DEF RefreshSteps
<1>17. CASE CompareAll
  <2>1. /\ UNCHANGED <<detected, ignited, bulletins, observed>>
        /\ compared' = [detections |-> begun, archives |-> archives]
    BY <1>2, <1>17 DEF CompareAll
  <2>2. refresh' = [step |-> "waiting", begun |-> {}, archives |-> {}, observations |-> {}, faults |-> failures]
    BY <1>2, <1>17 DEF CompareAll, NoRefresh
  <2>3. IsFiniteSet(matches') /\ ComparedInv' /\ MatchesInv'
    BY <1>17, AllCompared
  <2>4. RefreshTypes'
    BY <2>2 DEF RefreshTypes, RefreshSteps
  <2>5. TruthTypes'
    BY <1>0, <1>3, <2>1, <2>2, <2>3, <2>4 DEF TruthTypes
  <2>6. compared'.detections = begun /\ refresh'.begun = {} /\ refresh'.step = "waiting"
        /\ refresh'.archives = {} /\ refresh'.observations = {}
    BY <2>1, <2>2
  <2>7. ReadInv'
    BY <1>3, <2>1, <2>6 DEF ReadInv, Covered, KeyOf
  <2> QED
    BY <2>3, <2>5, <2>7 DEF TruthInv
<1>18. CASE UNCHANGED truth
  BY <1>4, <1>5, <1>18 DEF truth
<1> QED
  BY <1>6, <1>7, <1>8, <1>10, <1>11, <1>12, <1>15, <1>16, <1>17, <1>18 DEF TruthNext

LEMMA TruthInitially == TruthInit => TruthInv
<1> SUFFICES ASSUME TruthInit PROVE TruthInv
  OBVIOUS
<1>1. TruthTypes
  BY FS_EmptySet DEF TruthInit, TruthTypes, RefreshTypes, NoRefresh, RefreshSteps
<1>2. ReadInv
  BY DEF TruthInit, ReadInv, NoRefresh, Covered
<1>3. ComparedInv /\ MatchesInv
  BY DEF TruthInit, ComparedInv, MatchesInv
<1> QED
  BY <1>1, <1>2, <1>3 DEF TruthInv

\* A comparison is counted in the class of its observation.
LEMMA SummaryAdds ==
  ASSUME TruthInv
  PROVE  /\ Summary.coverage[2] + Summary.recall[2] = Summary.comparisons
         /\ Summary.recall[2] = Cardinality({m \in matches : m.class = "confirmed_ignition"})
<1> DEFINE H == {m \in matches : m.classification = "confirmed_hit"}
           M == {m \in matches : m.classification = "confirmed_miss"}
           C == {m \in matches : m.classification = "signal_covered"}
           B == {m \in matches : m.classification = "signal_below_threshold"}
           K == {m \in matches : m.class = "confirmed_ignition"}
<1>1. IsFiniteSet(matches) /\ \A m \in matches : m.classification \in Classes(m.class)
  BY DEF TruthInv, TruthTypes, MatchesInv
<1>2. /\ K = H \cup M /\ matches \ K = C \cup B /\ H \cap M = {} /\ C \cap B = {}
  BY <1>1 DEF Classes
<1>3. IsFiniteSet(H) /\ IsFiniteSet(M) /\ IsFiniteSet(C) /\ IsFiniteSet(B) /\ IsFiniteSet(K)
  BY <1>1, FS_Subset
<1>4. /\ Summary.coverage = <<Cardinality(C), Cardinality(C) + Cardinality(B)>>
      /\ Summary.recall = <<Cardinality(H), Cardinality(H) + Cardinality(M)>>
      /\ Summary.comparisons = Cardinality(matches)
  BY DEF Summary, Of
<1> HIDE DEF H, M, C, B, K
<1>5. Cardinality(K) = Cardinality(H) + Cardinality(M)
  <2>1. Cardinality(H \cup M) = Cardinality(H) + Cardinality(M) - Cardinality({})
    BY <1>2, <1>3, FS_Union
  <2> QED
    BY <1>2, <1>3, <2>1, FS_EmptySet, FS_CardinalityType
<1>6. Cardinality(matches \ K) = Cardinality(C) + Cardinality(B)
  <2>1. Cardinality(C \cup B) = Cardinality(C) + Cardinality(B) - Cardinality({})
    BY <1>2, <1>3, FS_Union
  <2>2. Cardinality(matches \ K) = Cardinality(C \cup B)
    BY <1>2
  <2>3. Cardinality(C) \in Nat /\ Cardinality(B) \in Nat /\ Cardinality({}) = 0
    BY <1>3, FS_EmptySet, FS_CardinalityType
  <2> QED
    BY <2>1, <2>2, <2>3
<1>7. Cardinality(matches) = Cardinality(K) + Cardinality(matches \ K)
  <2>1. K \subseteq matches
    BY DEF K
  <2> QED
    BY <1>1, <2>1, PartsCounted
<1>8. Cardinality(H) \in Nat /\ Cardinality(M) \in Nat /\ Cardinality(C) \in Nat /\ Cardinality(B) \in Nat
  BY <1>3, FS_CardinalityType
<1>9. Summary.coverage[2] = Cardinality(C) + Cardinality(B) /\ Summary.recall[2] = Cardinality(H) + Cardinality(M)
  BY <1>4
<1>10. Summary.coverage[2] + Summary.recall[2] = Summary.comparisons /\ Summary.recall[2] = Cardinality(K)
  BY <1>4, <1>5, <1>6, <1>7, <1>8, <1>9
<1> QED
  BY <1>10 DEF K

LEMMA TruthInvImplies == TruthInv => ComparisonsComplete
<1> SUFFICES ASSUME TruthInv PROVE ComparisonsComplete
  OBVIOUS
<1>1. ReadInv /\ ComparedInv /\ MatchesInv
  BY DEF TruthInv
<1>2. ASSUME NEW d \in compared.detections
      PROVE  \E o \in observed :
         /\ o.class = "satellite_signal" /\ o.key = KeyOf(d) /\ o.until >= d.hour
         /\ \A b \in compared.archives, h \in Horizons_ :
              o.commune \in DOMAIN b.scores /\ InPeriod(o, b, h) =>
                \E m \in matches : m.key = o.key /\ m.bulletin = b.issued /\ m.horizon = h
  <2>1. PICK o \in observed : o.class = "satellite_signal" /\ o.key = KeyOf(d) /\ o.until >= d.hour
    BY <1>1 DEF ReadInv, Covered
  <2>2. \A b \in compared.archives, h \in Horizons_ : Compared_(o, b, h)
    BY <1>1, <2>1 DEF ComparedInv
  <2> QED
    BY <2>1, <2>2 DEF Compared_
<1>3. \A m \in matches :
       \E o \in observed, b \in bulletins :
         /\ o.key = m.key /\ o.class = m.class /\ b.issued = m.bulletin
         /\ m.lead = o.occurred - b.issued
         /\ m.lead \in 0..(b.scheduled - b.issued + m.horizon)
  BY <1>1 DEF MatchesInv, OfObservation
<1>4. \A m, n \in matches : SameMatch(m, n) => m = n
  BY <1>1 DEF MatchesInv
<1> QED
  BY <1>2, <1>3, <1>4, SummaryAdds DEF ComparisonsComplete

-----------------------------------------------------------------------------
(* The search for evidence: what an answer that was checked stands on.     *)

\* A verdict that is not positive keeps nothing; a positive one only accepted sources.
LEMMA ValidatedGrounded ==
  ASSUME NEW found, NEW returned, found.returned = returned
  PROVE  /\ Validated(found).verdict \in Positive =>
              /\ Validated(found).event = "window" /\ Validated(found).sources # {}
              /\ \A s \in Validated(found).sources :
                   PageOf[s.url] \in returned /\ s.published = "period" /\ s.names /\ Site(s) \in Trusted
         /\ Validated(found).verdict = "confirmed" =>
              \E s \in Validated(found).sources : Site(s) = "authority" /\ s.strength = "direct"
         /\ Validated(found).verdict \notin Positive =>
              Validated(found).sources = {} /\ Validated(found).event = "none"
<1>1. CASE found.verdict \notin Positive
  <2>1. Validated(found) = [verdict |-> found.verdict, sources |-> {}, event |-> "none"]
    BY <1>1 DEF Validated, Undecided
  <2> QED BY <1>1, <2>1 DEF Positive
<1>2. CASE found.verdict \in Positive /\ Rejected(found)
  <2>1. Validated(found) = [verdict |-> "invalid", sources |-> {}, event |-> "none"]
    BY <1>2 DEF Validated, Invalid, Undecided
  <2> QED BY <2>1 DEF Positive
<1>3. CASE found.verdict \in Positive /\ ~Rejected(found)
  <2>1. /\ Validated(found).verdict = IF found.verdict = "confirmed" /\ ~DirectAuthority(found.sources)
                                      THEN "probable" ELSE found.verdict
        /\ Validated(found).sources = found.sources /\ Validated(found).event = found.event
    BY <1>3 DEF Validated
  <2>2. /\ found.event = "window" /\ found.sources # {}
        /\ \A s \in found.sources : Accepted(s, found)
    BY <1>3 DEF Rejected
  <2>3. Validated(found).verdict \in Positive
    BY <1>3, <2>1 DEF Positive
  <2>4. Validated(found).verdict = "confirmed" => DirectAuthority(found.sources)
    BY <2>1
  <2>5. Validated(found).verdict = "confirmed" =>
          \E s \in Validated(found).sources : Site(s) = "authority" /\ s.strength = "direct"
    BY <2>1, <2>4 DEF DirectAuthority
  <2>6. \A s \in Validated(found).sources :
          PageOf[s.url] \in returned /\ s.published = "period" /\ s.names /\ Site(s) \in Trusted
    BY <2>1, <2>2 DEF Accepted
  <2> QED BY <2>1, <2>2, <2>3, <2>5, <2>6
<1> QED BY <1>1, <1>2, <1>3

\* The indices of the items that are kept: of a readable URL, the first.
Cited(items) ==
  {i \in DOMAIN items : /\ items[i].url \in DOMAIN PageOf
                        /\ \A j \in 1..(i - 1) : items[j].url # items[i].url}

\* KeptItems keeps the items cited.
LEMMA KeptCited ==
  ASSUME NEW answer \in Answers
  PROVE  KeptItems(answer.items) = {answer.items[i] : i \in Cited(answer.items)}
<1> DEFINE items == answer.items
           readable == {i \in DOMAIN items : items[i].url \in DOMAIN PageOf}
           first == {i \in readable : \A j \in readable : j < i => items[j].url # items[i].url}
<1>1. items \in Seq({items[i] : i \in DOMAIN items})
  BY SearchAssumption
<1>2. PICK n \in Nat : DOMAIN items = 1..n
  BY <1>1
<1>3. ASSUME NEW i \in first PROVE i \in Cited(items)
  <2>1. i \in 1..n /\ items[i].url \in DOMAIN PageOf
    BY <1>2
  <2>2. ASSUME NEW j \in 1..(i - 1), items[j].url = items[i].url PROVE FALSE
    <3>1. j \in 1..n /\ j < i
      BY <2>1
    <3>2. j \in readable
      BY <3>1, <2>1, <2>2, <1>2
    <3> QED BY <3>1, <3>2, <2>2
  <2> QED BY <2>1, <2>2, <1>2 DEF Cited
<1>4. ASSUME NEW i \in Cited(items) PROVE i \in first
  <2>1. i \in 1..n /\ i \in readable /\ \A j \in 1..(i - 1) : items[j].url # items[i].url
    BY <1>2 DEF Cited
  <2>2. ASSUME NEW j \in readable, j < i PROVE items[j].url # items[i].url
    <3>1. j \in 1..(i - 1)
      BY <1>2, <2>1, <2>2
    <3> QED BY <3>1, <2>1
  <2> QED BY <2>1, <2>2
<1>5. first = Cited(items)
  BY <1>3, <1>4
<1>6. KeptItems(items) = {items[i] : i \in first}
  BY DEF KeptItems
<1> QED BY <1>5, <1>6

\* An answer that is good in all it keeps.
SoundAnswer(answer) ==
  /\ answer.searched /\ answer.event = "window" /\ answer.place = "named"
  /\ KeptItems(answer.items) # {}
  /\ \A s \in KeptItems(answer.items) :
       /\ PageOf[s.url] \in answer.returned /\ s.published = "period"
       /\ s.names /\ Site(s) # "other"

\* What becomes of a positive answer, from the items it keeps.
LEMMA AnswerChecked ==
  ASSUME NEW answer \in Answers, answer.verdict \in Positive,
         \A s \in KeptItems(answer.items) : s.url \in DOMAIN PageOf
  PROVE  /\ SoundAnswer(answer) =>
              Validated(Parsed(answer)).verdict =
                IF answer.verdict = "confirmed" /\ ~DirectAuthority(KeptItems(answer.items))
                THEN "probable" ELSE answer.verdict
         /\ ~SoundAnswer(answer) =>
              Validated(Parsed(answer)).verdict =
                IF KeptItems(answer.items) = {} /\ answer.verdict # "confirmed"
                THEN "inconclusive" ELSE "invalid"
<1>0. PICK kept : kept = KeptItems(answer.items)
  OBVIOUS
<1> DEFINE sound == SoundAnswer(answer)
           authority == DirectAuthority(kept)
           direct == \E s \in kept : s.strength = "direct"
           verdict == CASE answer.verdict = "confirmed" /\ kept # {} /\ ~direct -> "probable"
                        [] answer.verdict \in {"probable", "signal_observed"} /\ kept = {} -> "inconclusive"
                        [] OTHER -> answer.verdict
           found == [verdict |-> verdict, sources |-> kept, event |-> answer.event, place |-> answer.place,
                     searched |-> answer.searched, returned |-> answer.returned]
<1>1. Parsed(answer) = found
  BY <1>0 DEF Parsed
<1>2. /\ found.verdict = verdict /\ found.sources = kept /\ found.event = answer.event
      /\ found.place = answer.place /\ found.returned = answer.returned
      /\ found.searched = answer.searched
  OBVIOUS
<1>3. \A s \in kept : Site(s) # "other" <=> Site(s) \in Trusted
  BY <1>0, SearchAssumption DEF Site, Trusted
<1>4. \A s \in kept : Accepted(s, found) <=> /\ PageOf[s.url] \in answer.returned /\ s.published = "period"
                                             /\ s.names /\ Site(s) # "other"
  BY <1>2, <1>3 DEF Accepted
<1>5. sound <=> ~Rejected(found)
  BY <1>0, <1>2, <1>4, Zenon DEF Rejected, SoundAnswer
<1>6. authority => direct
  BY DEF DirectAuthority
<1>7. DirectAuthority(kept) <=> authority
  OBVIOUS
<1> HIDE DEF sound, authority
<1>8. kept # {} => verdict = IF answer.verdict = "confirmed" /\ ~direct THEN "probable" ELSE answer.verdict
  BY DEF Positive
<1>9. kept = {} => verdict = IF answer.verdict = "confirmed" THEN "confirmed" ELSE "inconclusive"
  BY DEF Positive
<1>10. CASE sound
  <2>1. kept # {}
    BY <1>0, <1>10 DEF sound, SoundAnswer
  <2>2. verdict \in Positive
    BY <1>8, <2>1 DEF Positive
  <2>3. Validated(found).verdict = IF verdict = "confirmed" /\ ~authority THEN "probable" ELSE verdict
    BY <1>10, <1>5, <1>2, <1>7, <2>2 DEF Validated
  <2> QED BY <1>0, <1>1, <1>8, <1>6, <1>10, <2>1, <2>3 DEF sound, authority
<1>11. CASE ~sound /\ kept # {}
  <2>1. verdict \in Positive
    BY <1>8, <1>11 DEF Positive
  <2>2. Validated(found).verdict = "invalid"
    BY <1>11, <1>5, <1>2, <2>1 DEF Validated, Invalid, Undecided
  <2> QED BY <1>0, <1>1, <1>11, <2>2 DEF sound
<1>12. CASE ~sound /\ kept = {} /\ answer.verdict # "confirmed"
  <2>1. found.verdict = "inconclusive"
    BY <1>9, <1>12, <1>2
  <2>2. Validated(found).verdict = "inconclusive"
    BY <2>1 DEF Validated, Undecided, Positive
  <2> QED BY <1>0, <1>1, <1>12, <2>2 DEF sound
<1>13. CASE ~sound /\ kept = {} /\ answer.verdict = "confirmed"
  <2>1. found.verdict \in Positive
    BY <1>9, <1>13, <1>2 DEF Positive
  <2>2. Validated(found).verdict = "invalid"
    BY <1>13, <1>5, <2>1 DEF Validated, Invalid, Undecided
  <2> QED BY <1>0, <1>1, <1>13, <2>2 DEF sound
<1> QED BY <1>0, <1>10, <1>11, <1>12, <1>13 DEF sound, authority

-----------------------------------------------------------------------------
(* The search for evidence: the invariant.                                 *)

ReviewShape ==
  /\ listing \in Seq(DOMAIN EntryOf)
  /\ review \in [step : {"begin", "page", "resolve", "ask", "done"}, page : Nat, total : Nat,
                 entries : Seq(DOMAIN EntryOf), found : {"none", "nothing", "refused", "report", "failed"},
                 answer : {review.answer}, result : {review.result}, changes : {review.changes},
                 withdrawn : BOOLEAN, faults : {review.faults}]

\* A review is decided once: by an answer that was checked, or by a report.
Unanswered(result) ==
  \/ result \in {Undecided, Failed}
  \/ \E r \in DOMAIN EntryOf : result = Validated(OfReport(r))

ReviewDecided ==
  /\ review.step # "done" => review.answer = NoAnswer /\ review.result = Undecided
  /\ \/ review.answer = NoAnswer /\ Unanswered(review.result)
     \/ review.answer \in Answers /\ review.result = Validated(Parsed(review.answer))

\* A report listed at the beginning that the lookup is there to find.
Awaited(i) ==
  /\ i \in DOMAIN listing
  /\ \E j \in DOMAIN FirstListed : FirstListed[j] = listing[i]
  /\ EntryOf[listing[i]].here /\ Genuine(listing[i])

\* Such a report is on the page read or on a later one.
LookupAhead ==
  /\ review.step = "begin" => review.page = 0
  /\ review.page < MaxPages
  /\ review.found = "nothing" => review.step \in {"ask", "done"}
  /\ ~review.withdrawn =>
       /\ review.step = "page" => \A i \in Nat : Awaited(i) => i > review.page * PageSize
       /\ review.step = "resolve" =>
            \A i \in Nat : Awaited(i) =>
              \/ \E j \in DOMAIN review.entries : review.entries[j] = listing[i]
              \/ i > (review.page + 1) * PageSize /\ review.total > (review.page + 1) * PageSize
       /\ review.found = "nothing" => \A i \in Nat : Awaited(i) => i > PageSize * MaxPages

SearchInv == ReviewShape /\ ReviewDecided /\ LookupAhead

LEMMA SearchInitially ==
  EvidenceInit => SearchInv
<1> SUFFICES ASSUME EvidenceInit PROVE SearchInv
  OBVIOUS
<1> USE SearchAssumption DEF EvidenceInit
<1>1. ReviewShape
  BY DEF ReviewShape
<1>2. ReviewDecided
  BY DEF ReviewDecided, Unanswered
<1>3. LookupAhead
  BY DEF LookupAhead
<1> QED BY <1>1, <1>2, <1>3 DEF SearchInv

\* The invariant has what the runs check.
LEMMA SearchInvImplies ==
  SearchInv => AnswersGrounded /\ AnswersKept /\ ReportsFound
<1> SUFFICES ASSUME SearchInv PROVE AnswersGrounded /\ AnswersKept /\ ReportsFound
  OBVIOUS
<1>1. AnswersGrounded
  <2> DEFINE result == review.result
             returned == IF review.answer = NoAnswer THEN {PageOf[ReportUrl]} ELSE review.answer.returned
             Grounded ==
               /\ result.verdict \in Positive =>
                    /\ result.event = "window" /\ result.sources # {}
                    /\ \A s \in result.sources :
                         PageOf[s.url] \in returned /\ s.published = "period" /\ s.names /\ Site(s) \in Trusted
               /\ result.verdict = "confirmed" =>
                    \E s \in result.sources : Site(s) = "authority" /\ s.strength = "direct"
               /\ result.verdict \notin Positive => result.sources = {} /\ result.event = "none"
  <2>1. CASE result \in {Undecided, Failed}
    <3>1. result.verdict \in {"none", "failed"} /\ result.sources = {} /\ result.event = "none"
      BY <2>1 DEF Undecided, Failed
    <3>2. result.verdict \notin Positive /\ result.verdict # "confirmed"
      BY <3>1 DEF Positive
    <3> QED BY <3>1, <3>2 DEF AnswersGrounded
  <2>2. ASSUME review.answer = NoAnswer, NEW r \in DOMAIN EntryOf, result = Validated(OfReport(r))
        PROVE  Grounded
    <3>1. OfReport(r).returned = returned
      BY <2>2 DEF OfReport
    <3> QED BY <3>1, <2>2, ValidatedGrounded
  <2>3. ASSUME review.answer \in Answers, result = Validated(Parsed(review.answer)) PROVE Grounded
    <3>1. Parsed(review.answer).returned = returned
      BY <2>3, SearchAssumption DEF Parsed, NoAnswer
    <3> QED BY <3>1, <2>3, ValidatedGrounded
  <2>4. Grounded => AnswersGrounded
    BY DEF AnswersGrounded
  <2> QED BY <2>1, <2>2, <2>3, <2>4 DEF SearchInv, ReviewDecided, Unanswered
<1>2. AnswersKept
  <2> DEFINE answer == review.answer
             first(i) == \A j \in 1..(i - 1) : answer.items[j].url # answer.items[i].url
             cited == {i \in DOMAIN answer.items : answer.items[i].url \in DOMAIN PageOf /\ first(i)}
             good(i) == LET s == answer.items[i] IN
                          /\ PageOf[s.url] \in answer.returned /\ s.published = "period"
                          /\ s.names /\ Site(s) # "other"
             sound == /\ answer.searched /\ answer.event = "window" /\ answer.place = "named"
                      /\ cited # {} /\ \A i \in cited : good(i)
             authority == \E i \in cited : Site(answer.items[i]) = "authority"
                                           /\ answer.items[i].strength = "direct"
             kept == {answer.items[i] : i \in cited}
  <2> SUFFICES ASSUME answer # NoAnswer, answer.verdict \in Positive
               PROVE  IF sound THEN review.result.verdict =
                                      IF answer.verdict = "confirmed" /\ ~authority THEN "probable"
                                      ELSE answer.verdict
                      ELSE review.result.verdict =
                             IF cited = {} /\ answer.verdict # "confirmed" THEN "inconclusive" ELSE "invalid"
    BY DEF AnswersKept
  <2>1. answer \in Answers /\ review.result = Validated(Parsed(answer))
    BY DEF SearchInv, ReviewDecided
  <2>2. kept = KeptItems(answer.items)
    BY <2>1, KeptCited DEF Cited
  <2>3. kept = {} <=> cited = {}
    OBVIOUS
  <2>4. sound <=> SoundAnswer(answer)
    <3>1. sound <=> /\ answer.searched /\ answer.event = "window" /\ answer.place = "named"
                    /\ kept # {}
                    /\ \A s \in kept : /\ PageOf[s.url] \in answer.returned /\ s.published = "period"
                                       /\ s.names /\ Site(s) # "other"
      BY <2>3
    <3> HIDE DEF kept, sound
    <3> QED BY <3>1, <2>2 DEF SoundAnswer
  <2>5. authority <=> DirectAuthority(KeptItems(answer.items))
    <3>1. authority <=> \E s \in kept : Site(s) = "authority" /\ s.strength = "direct"
      OBVIOUS
    <3> HIDE DEF kept, authority
    <3> QED BY <3>1, <2>2 DEF DirectAuthority
  <2>6. \A s \in KeptItems(answer.items) : s.url \in DOMAIN PageOf
    <3>1. \A s \in kept : s.url \in DOMAIN PageOf
      OBVIOUS
    <3> QED BY <3>1, <2>2
  <2>7. /\ sound => Validated(Parsed(answer)).verdict =
                      IF answer.verdict = "confirmed" /\ ~authority THEN "probable" ELSE answer.verdict
        /\ ~sound => Validated(Parsed(answer)).verdict =
                       IF kept = {} /\ answer.verdict # "confirmed" THEN "inconclusive" ELSE "invalid"
    <3> HIDE DEF kept, sound, authority
    <3>1. /\ SoundAnswer(answer) =>
               Validated(Parsed(answer)).verdict =
                 IF answer.verdict = "confirmed" /\ ~DirectAuthority(KeptItems(answer.items))
                 THEN "probable" ELSE answer.verdict
          /\ ~SoundAnswer(answer) =>
               Validated(Parsed(answer)).verdict =
                 IF KeptItems(answer.items) = {} /\ answer.verdict # "confirmed"
                 THEN "inconclusive" ELSE "invalid"
      <4>1. answer \in Answers /\ answer.verdict \in Positive
        BY <2>1
      <4> HIDE DEF answer
      <4> QED BY ONLY <4>1, <2>6, AnswerChecked
    <3> QED BY ONLY <2>2, <2>4, <2>5, <3>1
  <2> QED BY <2>1, <2>3, <2>7
<1>3. ReportsFound
  <2> SUFFICES ASSUME review.found = "nothing", ~review.withdrawn, NEW i \in DOMAIN listing,
                      \E j \in DOMAIN FirstListed : FirstListed[j] = listing[i], i <= PageSize * MaxPages,
                      EntryOf[listing[i]].here, Genuine(listing[i])
               PROVE  FALSE
    BY DEF ReportsFound
  <2>1. i \in Nat /\ Awaited(i)
    BY DEF Awaited, SearchInv, ReviewShape
  <2>2. i > PageSize * MaxPages
    BY <2>1 DEF SearchInv, LookupAhead
  <2>3. PageSize * MaxPages \in Nat
    BY SearchAssumption
  <2> QED BY <2>1, <2>2, <2>3
<1> QED BY <1>1, <1>2, <1>3

-----------------------------------------------------------------------------
(* The search for evidence: its steps.                                     *)

\* The limits of two pages that follow each other.
LEMMA PageLimits ==
  ASSUME NEW k \in Nat
  PROVE  /\ k * PageSize \in Nat /\ (k + 1) * PageSize = k * PageSize + PageSize
         /\ PageSize \in Nat \ {0} /\ 0 * PageSize = 0
         /\ k + 1 = MaxPages => (k + 1) * PageSize = PageSize * MaxPages
<1> USE SearchAssumption
<1>1. k * PageSize \in Nat /\ (k + 1) * PageSize = k * PageSize + PageSize /\ 0 * PageSize = 0
  OBVIOUS
<1>2. MaxPages * PageSize = PageSize * MaxPages
  OBVIOUS
<1> QED BY <1>1, <1>2

\* A page of the listing has the entries between its limits.
LEMMA PageEntries ==
  ASSUME ReviewShape, NEW k \in Nat
  PROVE  /\ Page(k) \in Seq(DOMAIN EntryOf)
         /\ Page(k) = <<>> => Len(listing) <= k * PageSize
         /\ \A i \in DOMAIN listing :
              i > k * PageSize /\ i <= (k + 1) * PageSize =>
                \E j \in DOMAIN Page(k) : Page(k)[j] = listing[i]
<1> DEFINE low == k * PageSize
           high == (k + 1) * PageSize
           n == Len(listing)
           final == Min({high, n})
<1>1. low \in Nat /\ high = low + PageSize /\ PageSize \in Nat \ {0} /\ n \in Nat
  BY PageLimits DEF ReviewShape
<1>2. final = IF high <= n THEN high ELSE n
  BY <1>1 DEF Min
<1>3. Page(k) = SubSeq(listing, low + 1, final)
  BY DEF Page
<1> HIDE DEF low, high, final, n
<1>4. final \in Nat /\ final <= n /\ final <= high
  BY <1>1, <1>2
<1>5. /\ Page(k) \in Seq(DOMAIN EntryOf)
      /\ Len(Page(k)) = IF low + 1 <= final THEN final - low ELSE 0
      /\ \A j \in 1..(final - low) : Page(k)[j] = listing[low + j]
  <2>1. \A j \in (low + 1)..final : listing[j] \in DOMAIN EntryOf
    BY <1>1, <1>4 DEF ReviewShape, n
  <2>2. \A i \in (low + 1)..final : listing[i] \in DOMAIN EntryOf
    BY <2>1
  <2>3. low + 1 \in Int /\ final \in Int
    BY <1>1, <1>4
  <2>4. /\ Page(k) \in Seq(DOMAIN EntryOf)
        /\ Len(Page(k)) = IF low + 1 <= final THEN final - (low + 1) + 1 ELSE 0
        /\ \A i \in 1..(final - (low + 1) + 1) : Page(k)[i] = listing[(low + 1) + i - 1]
    BY ONLY <1>3, <2>2, <2>3, SubSeqProperties
  <2>5. final - (low + 1) + 1 = final - low /\ \A j \in 1..(final - low) : (low + 1) + j - 1 = low + j
    BY <1>1, <1>4
  <2> QED BY <2>4, <2>5
<1>6. Page(k) = <<>> => n <= low
  BY <1>1, <1>2, <1>4, <1>5
<1>7. ASSUME NEW i \in DOMAIN listing, i > low, i <= high
      PROVE  \E j \in DOMAIN Page(k) : Page(k)[j] = listing[i]
  <2>1. i \in Nat /\ i <= n
    BY DEF ReviewShape, n
  <2>2. i <= final /\ low + 1 <= final
    BY <1>1, <1>2, <1>7, <2>1
  <2>3. i - low \in 1..(final - low) /\ low + (i - low) = i
    BY <1>1, <1>4, <1>7, <2>1, <2>2
  <2>4. i - low \in DOMAIN Page(k)
    BY <1>1, <1>4, <1>5, <2>2, <2>3
  <2> QED BY <1>5, <2>3, <2>4
<1> QED BY <1>5, <1>6, <1>7 DEF low, high, n

\* What a lookup that ended has left of its review.
LEMMA EndedIs ==
  ASSUME ReviewShape, NEW found \in {"nothing", "refused", "report", "failed"}, NEW step \in {"ask", "done"}
  PROVE  Ended(found, step) \in
           [step : {step}, page : {0}, total : {0}, entries : {<<>>}, found : {found},
            answer : {review.answer}, result : {review.result}, changes : {review.changes},
            withdrawn : {review.withdrawn}, faults : {review.faults}]
BY DEF Ended, ReviewShape

\* No more is awaited after a step that leaves the listing alone.
LEMMA AwaitedStays ==
  ASSUME UNCHANGED listing, retracted \subseteq retracted', NEW i, Awaited(i)'
  PROVE  Awaited(i)
BY DEF Awaited, Genuine

\* A review whose lookup has ended is one.
LEMMA EndedShape ==
  ASSUME ReviewShape, UNCHANGED listing,
         review' \in [step : {"ask", "done"}, page : {0}, total : {0}, entries : {<<>>},
                      found : {"nothing", "refused", "report", "failed"},
                      answer : {review'.answer}, result : {review'.result}, changes : {review'.changes},
                      withdrawn : {review.withdrawn}, faults : {review'.faults}]
  PROVE  ReviewShape'
<1>1. review.withdrawn \in BOOLEAN /\ listing' \in Seq(DOMAIN EntryOf)
  BY DEF ReviewShape
<1>2. <<>> \in Seq(DOMAIN EntryOf) /\ 0 \in Nat
  OBVIOUS
<1>3. review' \in [step : {"begin", "page", "resolve", "ask", "done"}, page : Nat, total : Nat,
                   entries : Seq(DOMAIN EntryOf), found : {"none", "nothing", "refused", "report", "failed"},
                   answer : {review'.answer}, result : {review'.result}, changes : {review'.changes},
                   withdrawn : BOOLEAN, faults : {review'.faults}]
  BY <1>1, <1>2
<1> QED BY <1>1, <1>3 DEF ReviewShape

\* A review that goes on is not decided.
LEMMA DecisionWaits ==
  ASSUME SearchInv, review.step # "done",
         review'.answer = review.answer, review'.result = review.result
  PROVE  ReviewDecided'
<1>1. review.answer = NoAnswer /\ review.result = Undecided
  BY DEF SearchInv, ReviewDecided
<1>2. review'.answer = NoAnswer /\ review'.result = Undecided
  BY <1>1
<1> QED BY <1>2 DEF ReviewDecided, Unanswered

\* A lookup ends without having found that there is nothing.
LEMMA LookupLeft ==
  ASSUME SearchInv,
         review'.step \in {"ask", "done"}, review'.page = 0,
         review'.found \in {"none", "refused", "report", "failed"}
  PROVE  LookupAhead'
BY SearchAssumption DEF LookupAhead

LEMMA BeginPreserves ==
  ASSUME SearchInv, Begin
  PROVE  SearchInv'
<1> USE DEF SearchInv
<1>1. PICK step \in {"page", "ask"} : review' = [review EXCEPT !.step = step]
  BY DEF Begin
<1>2. review.step = "begin" /\ UNCHANGED <<listing, retracted>>
  BY DEF Begin
<1>3. /\ review'.step = step /\ review'.page = review.page /\ review'.found = review.found
      /\ review'.answer = review.answer /\ review'.result = review.result
      /\ review'.withdrawn = review.withdrawn
  BY <1>1 DEF ReviewShape
<1>4. ReviewShape'
  BY <1>1, <1>2 DEF ReviewShape
<1>5. ReviewDecided'
  BY <1>2, <1>3, DecisionWaits
<1>6. review.page = 0 /\ review.found # "nothing" /\ review.page < MaxPages
  BY <1>2 DEF LookupAhead
<1>7. ASSUME NEW i \in Nat, Awaited(i)' PROVE i > 0 * PageSize
  <2>1. i \in DOMAIN listing
    BY <1>2, <1>7 DEF Awaited
  <2>2. i > 0 /\ 0 * PageSize = 0
    BY <2>1, PageLimits DEF ReviewShape
  <2> QED BY <2>2
<1>8. LookupAhead'
  BY <1>3, <1>6, <1>7 DEF LookupAhead
<1> QED BY <1>4, <1>5, <1>8

LEMMA ReadPagePreserves ==
  ASSUME SearchInv, ReadPage
  PROVE  SearchInv'
<1> USE DEF SearchInv
<1>1. review.step = "page" /\ UNCHANGED <<listing, retracted>>
  BY DEF ReadPage
<1>2. ReviewShape /\ review.page \in Nat /\ review.page < MaxPages /\ review.found # "nothing"
  BY <1>1 DEF ReviewShape, LookupAhead
<1>3. \A i \in Nat : Awaited(i)' => Awaited(i)
  BY <1>1, AwaitedStays
<1>4. CASE Page(review.page) = <<>>
  <2>1. review' = Ended("nothing", "ask")
    BY <1>4 DEF ReadPage
  <2>2. /\ review'.step = "ask" /\ review'.page = 0 /\ review'.found = "nothing"
        /\ review'.answer = review.answer /\ review'.result = review.result
        /\ review'.withdrawn = review.withdrawn
    BY <1>2, <2>1, EndedIs
  <2>3. ReviewShape'
    <3>1. review' \in [step : {"ask", "done"}, page : {0}, total : {0}, entries : {<<>>},
                       found : {"nothing", "refused", "report", "failed"},
                       answer : {review'.answer}, result : {review'.result}, changes : {review'.changes},
                       withdrawn : {review.withdrawn}, faults : {review'.faults}]
      BY <1>2, <2>1, EndedIs
    <3> QED BY <1>1, <1>2, <3>1, EndedShape
  <2>4. ReviewDecided'
    BY <1>1, <2>2, DecisionWaits
  <2>5. Len(listing) <= review.page * PageSize
    BY <1>2, <1>4, PageEntries
  <2>6. ASSUME ~review.withdrawn, NEW i \in Nat, Awaited(i)' PROVE FALSE
    <3>1. i > review.page * PageSize
      BY <1>1, <1>3, <2>6 DEF LookupAhead
    <3>2. i <= Len(listing) /\ Len(listing) \in Nat
      BY <1>3, <2>6 DEF Awaited, ReviewShape
    <3>3. review.page * PageSize \in Nat
      BY <1>2, SearchAssumption
    <3> QED BY <2>5, <3>1, <3>2, <3>3
  <2>7. LookupAhead'
    BY <2>2, <2>6, SearchAssumption DEF LookupAhead
  <2> QED BY <2>3, <2>4, <2>7
<1>5. CASE Page(review.page) # <<>>
  <2>1. review' = [review EXCEPT !.step = "resolve", !.total = Len(listing), !.entries = Page(review.page)]
    BY <1>5 DEF ReadPage
  <2>2. Page(review.page) \in Seq(DOMAIN EntryOf) /\ Len(listing) \in Nat
    BY <1>2, PageEntries DEF ReviewShape
  <2>3. /\ review'.step = "resolve" /\ review'.page = review.page /\ review'.found = review.found
        /\ review'.total = Len(listing) /\ review'.entries = Page(review.page)
        /\ review'.answer = review.answer /\ review'.result = review.result
        /\ review'.withdrawn = review.withdrawn
    BY <2>1 DEF ReviewShape
  <2>4. ReviewShape'
    BY <1>1, <2>1, <2>2 DEF ReviewShape
  <2>5. ReviewDecided'
    BY <1>1, <2>3, DecisionWaits
  <2>6. ASSUME ~review.withdrawn, NEW i \in Nat, Awaited(i)', 
               ~ \E j \in DOMAIN Page(review.page) : Page(review.page)[j] = listing[i]
        PROVE  i > (review.page + 1) * PageSize /\ Len(listing) > (review.page + 1) * PageSize
    <3>1. i > review.page * PageSize
      BY <1>1, <1>3, <2>6 DEF LookupAhead
    <3>2. i <= Len(listing) /\ i \in DOMAIN listing
      BY <1>3, <2>6 DEF Awaited, ReviewShape
    <3>3. ~(i <= (review.page + 1) * PageSize)
      BY <1>2, <2>6, <3>1, <3>2, PageEntries
    <3>4. review.page + 1 \in Nat /\ PageSize \in Nat
      BY <1>2, SearchAssumption
    <3>5. (review.page + 1) * PageSize \in Nat
      BY <3>4
    <3> QED BY <2>2, <3>2, <3>3, <3>5
  <2>7. ~review'.withdrawn => \A i \in Nat : Awaited(i)' =>
          \/ \E j \in DOMAIN review'.entries : review'.entries[j] = listing'[i]
          \/ i > (review'.page + 1) * PageSize /\ review'.total > (review'.page + 1) * PageSize
    BY <1>1, <2>3, <2>6
  <2>8. LookupAhead'
    BY <1>2, <2>3, <2>7 DEF LookupAhead
  <2> QED BY <2>4, <2>5, <2>8
<1> QED BY <1>4, <1>5

LEMMA ResolvePreserves ==
  ASSUME SearchInv, Resolve
  PROVE  SearchInv'
<1> USE DEF SearchInv
<1> DEFINE r == Head(review.entries)
           result == Validated(OfReport(r))
<1>1. /\ review.step = "resolve" /\ review.entries # <<>> /\ UNCHANGED <<listing, retracted>>
      /\ review' = IF ~(EntryOf[r].here /\ Genuine(r)) THEN [review EXCEPT !.entries = Tail(@)]
                   ELSE IF result = Invalid THEN Ended("refused", "ask")
                   ELSE [Ended("report", "done") EXCEPT !.result = result]
  BY DEF Resolve
<1>2. /\ ReviewShape /\ review.page \in Nat /\ review.page < MaxPages /\ review.found # "nothing"
      /\ review.entries \in Seq(DOMAIN EntryOf)
  BY <1>1 DEF ReviewShape, LookupAhead
<1>3. r \in DOMAIN EntryOf /\ r = review.entries[1]
  BY <1>1, <1>2
<1>4. CASE ~(EntryOf[r].here /\ Genuine(r))
  <2>1. review' = [review EXCEPT !.entries = Tail(review.entries)]
    BY <1>1, <1>4 DEF ReviewShape
  <2>2. Tail(review.entries) \in Seq(DOMAIN EntryOf)
    BY <1>1, <1>2, HeadTailProperties
  <2>3. /\ review'.step = "resolve" /\ review'.page = review.page /\ review'.found = review.found
        /\ review'.total = review.total /\ review'.entries = Tail(review.entries)
        /\ review'.answer = review.answer /\ review'.result = review.result
        /\ review'.withdrawn = review.withdrawn
    BY <1>1, <2>1 DEF ReviewShape
  <2>4. ReviewShape'
    BY <1>1, <2>1, <2>2 DEF ReviewShape
  <2>5. ReviewDecided'
    BY <1>1, <2>3, DecisionWaits
  <2>6. ASSUME NEW i \in Nat, Awaited(i)',
               \E j \in DOMAIN review.entries : review.entries[j] = listing[i]
        PROVE  \E j \in DOMAIN Tail(review.entries) : Tail(review.entries)[j] = listing[i]
    <3>1. PICK j \in DOMAIN review.entries : review.entries[j] = listing[i]
      BY <2>6
    <3>2. j # 1
      BY <1>1, <1>3, <1>4, <2>6, <3>1 DEF Awaited, Genuine
    <3>3. j - 1 \in DOMAIN Tail(review.entries) /\ Tail(review.entries)[j - 1] = review.entries[j]
      BY <1>1, <1>2, <3>1, <3>2, HeadTailProperties
    <3> QED BY <3>1, <3>3
  <2>7. \A i \in Nat : Awaited(i)' => Awaited(i)
    BY <1>1, AwaitedStays
  <2>8. ~review'.withdrawn => \A i \in Nat : Awaited(i)' =>
          \/ \E j \in DOMAIN review'.entries : review'.entries[j] = listing'[i]
          \/ i > (review'.page + 1) * PageSize /\ review'.total > (review'.page + 1) * PageSize
    <3> SUFFICES ASSUME ~review'.withdrawn, NEW i \in Nat, Awaited(i)'
                 PROVE  \/ \E j \in DOMAIN Tail(review.entries) : Tail(review.entries)[j] = listing[i]
                        \/ i > (review.page + 1) * PageSize /\ review.total > (review.page + 1) * PageSize
      BY <1>1, <2>3
    <3>1. Awaited(i) /\ ~review.withdrawn
      BY <2>3, <2>7
    <3>2. \/ \E j \in DOMAIN review.entries : review.entries[j] = listing[i]
          \/ i > (review.page + 1) * PageSize /\ review.total > (review.page + 1) * PageSize
      BY <1>1, <3>1 DEF LookupAhead
    <3> QED BY <2>6, <3>2
  <2>9. LookupAhead'
    BY <1>2, <2>3, <2>8 DEF LookupAhead
  <2> QED BY <2>4, <2>5, <2>9
<1>5. CASE EntryOf[r].here /\ Genuine(r) /\ result = Invalid
  <2>1. review' = Ended("refused", "ask")
    BY <1>1, <1>5
  <2>2. /\ review'.step = "ask" /\ review'.page = 0 /\ review'.found = "refused"
        /\ review'.answer = review.answer /\ review'.result = review.result
    BY <1>2, <2>1, EndedIs
  <2>3. review' \in [step : {"ask"}, page : {0}, total : {0}, entries : {<<>>}, found : {"refused"},
                     answer : {review.answer}, result : {review.result}, changes : {review.changes},
                     withdrawn : {review.withdrawn}, faults : {review.faults}]
    BY <1>2, <2>1, EndedIs
  <2>4. ReviewShape'
    <3>1. review' \in [step : {"ask", "done"}, page : {0}, total : {0}, entries : {<<>>},
                       found : {"nothing", "refused", "report", "failed"},
                       answer : {review'.answer}, result : {review'.result}, changes : {review'.changes},
                       withdrawn : {review.withdrawn}, faults : {review'.faults}]
      BY <2>3
    <3> QED BY <1>1, <1>2, <3>1, EndedShape
  <2> QED BY <1>1, <2>2, <2>4, DecisionWaits, LookupLeft
<1>6. CASE EntryOf[r].here /\ Genuine(r) /\ result # Invalid
  <2> HIDE DEF result
  <2>1. PICK ended : ended = Ended("report", "done")
    OBVIOUS
  <2>2. review' = [ended EXCEPT !.result = result]
    BY <1>1, <1>6, <2>1
  <2>3. ended \in [step : {"done"}, page : {0}, total : {0}, entries : {<<>>}, found : {"report"},
                   answer : {review.answer}, result : {review.result}, changes : {review.changes},
                   withdrawn : {review.withdrawn}, faults : {review.faults}]
    BY <1>2, <2>1, EndedIs
  <2>4. review' \in [step : {"done"}, page : {0}, total : {0}, entries : {<<>>}, found : {"report"},
                     answer : {review.answer}, result : {result}, changes : {review.changes},
                     withdrawn : {review.withdrawn}, faults : {review.faults}]
    BY <2>2, <2>3
  <2>5. /\ review'.step = "done" /\ review'.page = 0 /\ review'.found = "report"
        /\ review'.answer = review.answer /\ review'.result = result
    BY <2>4
  <2>6. ReviewShape'
    <3>1. review' \in [step : {"ask", "done"}, page : {0}, total : {0}, entries : {<<>>},
                       found : {"nothing", "refused", "report", "failed"},
                       answer : {review'.answer}, result : {review'.result}, changes : {review'.changes},
                       withdrawn : {review.withdrawn}, faults : {review'.faults}]
      BY <2>4
    <3> QED BY <1>1, <1>2, <3>1, EndedShape
  <2>7. review.answer = NoAnswer
    BY <1>1 DEF ReviewDecided
  <2>8. \E q \in DOMAIN EntryOf : review'.result = Validated(OfReport(q))
    BY <1>3, <2>5 DEF result
  <2>9. ReviewDecided'
    BY <2>5, <2>7, <2>8 DEF ReviewDecided, Unanswered
  <2> QED BY <2>5, <2>6, <2>9, LookupLeft
<1> QED BY <1>4, <1>5, <1>6

LEMMA NextPagePreserves ==
  ASSUME SearchInv, NextPage
  PROVE  SearchInv'
<1> USE DEF SearchInv
<1> DEFINE final == (review.page + 1) * PageSize >= review.total \/ review.page + 1 = MaxPages
<1>1. /\ review.step = "resolve" /\ review.entries = <<>> /\ UNCHANGED <<listing, retracted>>
      /\ review' = IF final THEN Ended("nothing", "ask") ELSE [review EXCEPT !.step = "page", !.page = @ + 1]
  BY DEF NextPage
<1>2. ReviewShape /\ review.page \in Nat /\ review.total \in Nat /\ review.page < MaxPages
      /\ review.found # "nothing" /\ (review.page + 1) * PageSize \in Nat
  <2>1. ReviewShape /\ review.page \in Nat /\ review.total \in Nat /\ review.page < MaxPages
        /\ review.found # "nothing"
    BY <1>1 DEF ReviewShape, LookupAhead
  <2>2. review.page + 1 \in Nat /\ PageSize \in Nat
    BY <2>1, SearchAssumption
  <2>3. (review.page + 1) * PageSize \in Nat
    BY <2>2
  <2> QED BY <2>1, <2>3
<1>3. ASSUME ~review.withdrawn, NEW i \in Nat, Awaited(i)'
      PROVE  i > (review.page + 1) * PageSize /\ review.total > (review.page + 1) * PageSize
  <2>1. Awaited(i)
    BY <1>1, <1>3, AwaitedStays
  <2>2. ~ \E j \in DOMAIN review.entries : review.entries[j] = listing[i]
    BY <1>1
  <2> QED BY <1>1, <1>3, <2>1, <2>2 DEF LookupAhead
<1>4. CASE final
  <2>1. review' = Ended("nothing", "ask")
    BY <1>1, <1>4
  <2>2. /\ review'.step = "ask" /\ review'.page = 0 /\ review'.found = "nothing"
        /\ review'.answer = review.answer /\ review'.result = review.result
        /\ review'.withdrawn = review.withdrawn
    BY <1>2, <2>1, EndedIs
  <2>3. ReviewShape'
    <3>1. review' \in [step : {"ask", "done"}, page : {0}, total : {0}, entries : {<<>>},
                       found : {"nothing", "refused", "report", "failed"},
                       answer : {review'.answer}, result : {review'.result}, changes : {review'.changes},
                       withdrawn : {review.withdrawn}, faults : {review'.faults}]
      BY <1>2, <2>1, EndedIs
    <3> QED BY <1>1, <1>2, <3>1, EndedShape
  <2>4. ReviewDecided'
    BY <1>1, <2>2, DecisionWaits
  <2>5. ASSUME ~review.withdrawn, NEW i \in Nat, Awaited(i)' PROVE i > PageSize * MaxPages
    <3>1. i > (review.page + 1) * PageSize /\ review.total > (review.page + 1) * PageSize
      BY <1>3, <2>5
    <3>2. review.page + 1 = MaxPages
      BY <1>2, <1>4, <3>1
    <3>3. (review.page + 1) * PageSize = PageSize * MaxPages
      BY <1>2, <3>2, PageLimits
    <3> QED BY <3>1, <3>3
  <2>6. LookupAhead'
    BY <2>2, <2>5, SearchAssumption DEF LookupAhead
  <2> QED BY <2>3, <2>4, <2>6
<1>5. CASE ~final
  <2>1. review' = [review EXCEPT !.step = "page", !.page = review.page + 1]
    BY <1>1, <1>5 DEF ReviewShape
  <2>2. /\ review'.step = "page" /\ review'.page = review.page + 1 /\ review'.found = review.found
        /\ review'.answer = review.answer /\ review'.result = review.result
        /\ review'.withdrawn = review.withdrawn
    BY <2>1 DEF ReviewShape
  <2>3. ReviewShape'
    <3>1. review.page + 1 \in Nat
      BY <1>2
    <3>2. review' \in [step : {"page"}, page : Nat, total : {review.total}, entries : {review.entries},
                       found : {review.found}, answer : {review'.answer}, result : {review'.result},
                       changes : {review'.changes}, withdrawn : {review.withdrawn},
                       faults : {review'.faults}]
      BY <1>2, <2>1, <3>1 DEF ReviewShape
    <3>3. /\ review.total \in Nat /\ review.entries \in Seq(DOMAIN EntryOf)
          /\ review.found \in {"none", "nothing", "refused", "report", "failed"}
          /\ review.withdrawn \in BOOLEAN /\ listing' \in Seq(DOMAIN EntryOf)
      BY <1>1, <1>2 DEF ReviewShape
    <3> QED BY <3>2, <3>3 DEF ReviewShape
  <2>4. ReviewDecided'
    BY <1>1, <2>2, DecisionWaits
  <2>5. review.page + 1 < MaxPages
    BY <1>2, <1>5, SearchAssumption
  <2>6. ~review'.withdrawn => \A i \in Nat : Awaited(i)' => i > review'.page * PageSize
    BY <1>3, <2>2
  <2>7. LookupAhead'
    BY <1>2, <2>2, <2>5, <2>6 DEF LookupAhead
  <2> QED BY <2>3, <2>4, <2>7
<1> QED BY <1>4, <1>5

LEMMA LookupFailsPreserves ==
  ASSUME SearchInv, LookupFails
  PROVE  SearchInv'
<1> USE DEF SearchInv
<1>1. /\ review.step \in {"page", "resolve"} /\ UNCHANGED <<listing, retracted>>
      /\ review' = [Ended("failed", "ask") EXCEPT !.faults = @ + 1]
  BY DEF LookupFails
<1>2. PICK ended : ended = Ended("failed", "ask")
  OBVIOUS
<1>3. ended \in [step : {"ask"}, page : {0}, total : {0}, entries : {<<>>}, found : {"failed"},
                 answer : {review.answer}, result : {review.result}, changes : {review.changes},
                 withdrawn : {review.withdrawn}, faults : {review.faults}]
  BY <1>2, EndedIs
<1>4. PICK failures : failures = ended.faults + 1
  OBVIOUS
<1>5. review' = [ended EXCEPT !.faults = failures]
  BY <1>1, <1>2, <1>3, <1>4
<1>6. review' \in [step : {"ask"}, page : {0}, total : {0}, entries : {<<>>}, found : {"failed"},
                   answer : {review.answer}, result : {review.result}, changes : {review.changes},
                   withdrawn : {review.withdrawn}, faults : {failures}]
  BY <1>3, <1>5
<1>7. /\ review'.step = "ask" /\ review'.page = 0 /\ review'.found = "failed"
      /\ review'.answer = review.answer /\ review'.result = review.result
  BY <1>6
<1>8. ReviewShape'
  <2>1. review' \in [step : {"ask", "done"}, page : {0}, total : {0}, entries : {<<>>},
                     found : {"nothing", "refused", "report", "failed"},
                     answer : {review'.answer}, result : {review'.result}, changes : {review'.changes},
                     withdrawn : {review.withdrawn}, faults : {review'.faults}]
    BY <1>6
  <2> QED BY <1>1, <2>1, EndedShape
<1> QED BY <1>1, <1>7, <1>8, DecisionWaits, LookupLeft

\* What the lookup has found stays when the review is decided.
LEMMA LookupOver ==
  ASSUME SearchInv, UNCHANGED <<listing, retracted>>, review.step = "ask",
         review'.step = "done", review'.page = review.page, review'.found = review.found,
         review'.withdrawn = review.withdrawn
  PROVE  LookupAhead'
<1>1. \A i \in Nat : Awaited(i)' => Awaited(i)
  BY AwaitedStays
<1> QED BY <1>1 DEF LookupAhead, SearchInv

LEMMA AnswerPreserves ==
  ASSUME SearchInv, Answer \/ AnswerFails
  PROVE  SearchInv'
<1> USE DEF SearchInv
<1>1. PICK answer, result :
        /\ review' = [review EXCEPT !.step = "done", !.answer = answer, !.result = result]
        /\ \/ answer \in Answers /\ result = Validated(Parsed(answer))
           \/ answer = NoAnswer /\ result = Failed
  <2>1. CASE Answer
    BY <2>1 DEF Answer
  <2>2. CASE AnswerFails
    <3>1. review.answer = NoAnswer /\ review' = [review EXCEPT !.step = "done", !.result = Failed]
      BY <2>2 DEF AnswerFails, ReviewDecided
    <3>2. review' = [review EXCEPT !.step = "done", !.answer = NoAnswer, !.result = Failed]
      BY <3>1 DEF ReviewShape
    <3> QED BY <3>2
  <2> QED BY <2>1, <2>2
<1>2. review.step = "ask" /\ UNCHANGED <<listing, retracted>>
  BY DEF Answer, AnswerFails
<1>3. /\ review'.step = "done" /\ review'.answer = answer /\ review'.result = result
      /\ review'.page = review.page /\ review'.found = review.found
      /\ review'.withdrawn = review.withdrawn
  BY <1>1 DEF ReviewShape
<1>4. ReviewShape'
  <2>1. review' \in [step : {"begin", "page", "resolve", "ask", "done"}, page : Nat, total : Nat,
                     entries : Seq(DOMAIN EntryOf), found : {"none", "nothing", "refused", "report", "failed"},
                     answer : {answer}, result : {result}, changes : {review.changes},
                     withdrawn : BOOLEAN, faults : {review.faults}]
    BY <1>1 DEF ReviewShape
  <2>2. review'.changes = review.changes /\ review'.faults = review.faults
    BY <2>1
  <2> QED BY <1>2, <1>3, <2>1, <2>2 DEF ReviewShape
<1>5. ReviewDecided'
  BY <1>1, <1>3 DEF ReviewDecided, Unanswered
<1>6. LookupAhead'
  BY <1>2, <1>3, LookupOver
<1> QED BY <1>4, <1>5, <1>6

-----------------------------------------------------------------------------
(* The search for evidence: what others do to the site.                    *)

\* A change to the listing during the lookup leaves the rest of the review alone.
LEMMA ChangesLeave ==
  ASSUME SearchInv, NEW withdrawn \in BOOLEAN, Changes(withdrawn)
  PROVE  /\ review.step \in {"page", "resolve"} /\ review'.step = review.step
         /\ review'.page = review.page /\ review'.total = review.total
         /\ review'.entries = review.entries /\ review'.found = review.found
         /\ review'.withdrawn = withdrawn
         /\ listing' \in Seq(DOMAIN EntryOf) => ReviewShape'
         /\ ReviewDecided' /\ review.page < MaxPages /\ review.found # "nothing"
<1> USE DEF SearchInv
<1>1. review.step \in {"page", "resolve"}
  BY DEF Changes
<1>2. PICK changes : review' = [review EXCEPT !.changes = changes, !.withdrawn = withdrawn]
  BY DEF Changes, ReviewShape
<1>3. review' \in [step : {review.step}, page : {review.page}, total : {review.total},
                   entries : {review.entries}, found : {review.found}, answer : {review.answer},
                   result : {review.result}, changes : {changes}, withdrawn : {withdrawn},
                   faults : {review.faults}]
  BY <1>2 DEF ReviewShape
<1>4. /\ review'.step = review.step
      /\ review'.page = review.page /\ review'.total = review.total
      /\ review'.entries = review.entries /\ review'.found = review.found
      /\ review'.withdrawn = withdrawn
      /\ review'.answer = review.answer /\ review'.result = review.result
      /\ review'.changes = changes /\ review'.faults = review.faults
  BY <1>3
<1>5. listing' \in Seq(DOMAIN EntryOf) => ReviewShape'
  BY <1>3, <1>4 DEF ReviewShape
<1>6. ReviewDecided'
  BY <1>1, <1>4, DecisionWaits
<1>7. review.page < MaxPages /\ review.found # "nothing"
  BY <1>1 DEF LookupAhead
<1> QED BY <1>1, <1>4, <1>5, <1>6, <1>7

LEMMA AppearPreserves ==
  ASSUME SearchInv, NEW r \in DOMAIN EntryOf, Appear(r)
  PROVE  SearchInv'
<1> USE DEF SearchInv
<1>1. /\ Changes(review.withdrawn) /\ listing' = <<r>> \o listing /\ UNCHANGED retracted
      /\ \A j \in DOMAIN FirstListed : FirstListed[j] # r
  BY DEF Appear
<1>2. listing \in Seq(DOMAIN EntryOf) /\ review.withdrawn \in BOOLEAN
      /\ review.page \in Nat /\ review.total \in Nat
  BY DEF ReviewShape
<1>3. PICK n \in Nat : n = Len(listing) /\ DOMAIN listing = 1..n
  BY <1>2
<1>4. /\ listing' \in Seq(DOMAIN EntryOf) /\ DOMAIN listing' = 1..(n + 1)
      /\ listing'[1] = r /\ \A i \in 1..n : listing'[i + 1] = listing[i]
  <2>1. <<r>> \in Seq(DOMAIN EntryOf) /\ Len(<<r>>) = 1 /\ <<r>>[1] = r
    OBVIOUS
  <2> QED BY <1>1, <1>2, <1>3, <2>1
<1>5. ASSUME NEW i \in Nat, Awaited(i)' PROVE i - 1 \in Nat /\ Awaited(i - 1) /\ listing'[i] = listing[i - 1]
  <2>1. i \in 1..(n + 1) /\ i # 1
    BY <1>1, <1>4, <1>5 DEF Awaited
  <2>2. i - 1 \in 1..n /\ (i - 1) + 1 = i
    BY <2>1
  <2>3. listing'[i] = listing[i - 1]
    BY <1>4, <2>2
  <2> QED BY <1>1, <1>3, <1>5, <2>2, <2>3 DEF Awaited, Genuine
<1>6. /\ review.step \in {"page", "resolve"} /\ review'.step = review.step
      /\ review'.page = review.page /\ review'.total = review.total
      /\ review'.entries = review.entries /\ review'.found = review.found
      /\ review'.withdrawn = review.withdrawn
      /\ ReviewShape' /\ ReviewDecided' /\ review.page < MaxPages /\ review.found # "nothing"
  BY <1>1, <1>2, <1>4, ChangesLeave
<1>7. ASSUME ~review.withdrawn, review.step = "page", NEW i \in Nat, Awaited(i)'
      PROVE  i > review.page * PageSize
  <2>1. i - 1 > review.page * PageSize
    BY <1>5, <1>7 DEF LookupAhead
  <2>2. review.page * PageSize \in Nat
    BY <1>2, SearchAssumption
  <2> QED BY <2>1, <2>2
<1>8. ASSUME ~review.withdrawn, review.step = "resolve", NEW i \in Nat, Awaited(i)'
      PROVE  \/ \E j \in DOMAIN review.entries : review.entries[j] = listing'[i]
             \/ i > (review.page + 1) * PageSize /\ review.total > (review.page + 1) * PageSize
  <2>1. \/ \E j \in DOMAIN review.entries : review.entries[j] = listing[i - 1]
        \/ i - 1 > (review.page + 1) * PageSize /\ review.total > (review.page + 1) * PageSize
    BY <1>5, <1>8 DEF LookupAhead
  <2>2. review.page + 1 \in Nat /\ PageSize \in Nat
    BY <1>2, SearchAssumption
  <2>3. (review.page + 1) * PageSize \in Nat
    BY <2>2
  <2> QED BY <1>5, <1>8, <2>1, <2>3
<1>9. LookupAhead'
  BY <1>6, <1>7, <1>8 DEF LookupAhead
<1> QED BY <1>6, <1>9

LEMMA WithdrawPreserves ==
  ASSUME SearchInv, NEW i \in DOMAIN listing, Withdraw(i)
  PROVE  SearchInv'
<1> USE DEF SearchInv
<1>1. /\ Changes(TRUE) /\ UNCHANGED retracted
      /\ listing' = SubSeq(listing, 1, i - 1) \o SubSeq(listing, i + 1, Len(listing))
  BY DEF Withdraw
<1>2. listing \in Seq(DOMAIN EntryOf) /\ Len(listing) \in Nat /\ i \in 1..Len(listing)
  BY DEF ReviewShape
<1>3. SubSeq(listing, 1, i - 1) \in Seq(DOMAIN EntryOf)
  BY <1>2, SubSeqProperties
<1>4. SubSeq(listing, i + 1, Len(listing)) \in Seq(DOMAIN EntryOf)
  BY <1>2, SubSeqProperties
<1>5. listing' \in Seq(DOMAIN EntryOf)
  BY <1>1, <1>3, <1>4
<1>6. /\ review.step \in {"page", "resolve"} /\ review'.step = review.step
      /\ review'.page = review.page /\ review'.found = review.found /\ review'.withdrawn
      /\ ReviewShape' /\ ReviewDecided' /\ review.page < MaxPages /\ review.found # "nothing"
  BY <1>1, <1>5, ChangesLeave
<1>7. LookupAhead'
  BY <1>6 DEF LookupAhead
<1> QED BY <1>6, <1>7

LEMMA RetractPreserves ==
  ASSUME SearchInv, NEW r \in DOMAIN EntryOf, Retract(r)
  PROVE  SearchInv'
<1> USE DEF SearchInv
<1>1. Changes(review.withdrawn) /\ UNCHANGED listing /\ retracted \subseteq retracted'
  BY DEF Retract
<1>2. listing' \in Seq(DOMAIN EntryOf) /\ review.withdrawn \in BOOLEAN
  BY <1>1 DEF ReviewShape
<1>3. /\ review.step \in {"page", "resolve"} /\ review'.step = review.step
      /\ review'.page = review.page /\ review'.total = review.total
      /\ review'.entries = review.entries /\ review'.found = review.found
      /\ review'.withdrawn = review.withdrawn
      /\ ReviewShape' /\ ReviewDecided' /\ review.page < MaxPages /\ review.found # "nothing"
  BY <1>1, <1>2, ChangesLeave
<1>4. \A i \in Nat : Awaited(i)' => Awaited(i)
  BY <1>1, AwaitedStays
<1>5. LookupAhead'
  BY <1>1, <1>3, <1>4 DEF LookupAhead
<1> QED BY <1>3, <1>5

\* Every step of the search preserves the invariant.
LEMMA SearchStep ==
  ASSUME SearchInv, [EvidenceNext]_search
  PROVE  SearchInv'
<1>1. CASE UNCHANGED search
  BY <1>1 DEF search, SearchInv, ReviewShape, ReviewDecided, LookupAhead, Awaited, Genuine
<1>2. CASE EvidenceNext
  BY <1>2, BeginPreserves, ReadPagePreserves, ResolvePreserves, NextPagePreserves,
     LookupFailsPreserves, AnswerPreserves, AppearPreserves, WithdrawPreserves, RetractPreserves
     DEF EvidenceNext
<1> QED BY <1>1, <1>2

-----------------------------------------------------------------------------
(* The parts together.                                                     *)

\* Whatever part a behaviour is of, it is one of each of the parts.
LEMMA EachPart ==
  /\ FeedsInit => Init /\ SourcesInit /\ TruthInit /\ EvidenceInit /\ LiveInit
  /\ [FeedsNext]_<<part, vars, feeds, truth, search, live>> =>
       /\ [Next]_vars /\ [SourcesNext]_feeds /\ [TruthNext]_truth
       /\ [EvidenceNext]_search /\ [LiveNext]_live
BY DEF FeedsInit, FeedsNext

\* Every row of a file is accounted for, and the audits agree with the events
\* that they read.  The invariant follows the sets of events that the audits
\* have read, each of which holds the ones before it (ChainInv).
THEOREM RecordsSoundHolds == FeedsSpec => []RecordsSound
<1>1. FeedsSpec => []RecordsInv
  BY EachPart, RecordsInitially, RecordsStep, PTL DEF FeedsSpec
<1>2. RecordsInv => RecordsSound
  BY RecordsInvImplies DEF RecordsSound
<1> QED
  BY <1>1, <1>2, PTL

\* Events, assessments, pairs and the sizes of the groups are written once: a
\* step that writes one finds none there (AuditsGrow).
THEOREM RecordsFinalHolds == FeedsSpec => RecordsFinal
<1>1. RecordsInv /\ [Next]_vars => [RecordsKept]_vars
  BY RecordsStep DEF AuditsGrow, RecordsKept
<1>2. FeedsSpec => []RecordsInv /\ [][Next]_vars
  BY EachPart, RecordsInitially, RecordsStep, PTL DEF FeedsSpec
<1> QED
  BY <1>1, <1>2, PTL DEF RecordsFinal

\* What the sources are noted to have met is what the last forecast met.  The
\* invariant says what the notes still to be written will set right (LastNoted),
\* and that the sources that failed are those before the one used (TriedInv).
THEOREM SourcesTruthfulHolds == FeedsSpec => []SourcesTruthful
<1>1. FeedsSpec => []SourcesInv
  BY EachPart, SourcesInitially, SourcesStep, PTL DEF FeedsSpec
<1> QED
  BY <1>1, SourcesInvImplies, PTL

\* A direct forecast is of whole fields of one run that has every hour sampled
\* (FieldsInv, RunHasSteps), and one is refused for a missing hour only when the
\* clock moved on while the weather came (DirectInTime, MeteoInTime).
THEOREM AcquisitionSoundHolds == FeedsSpec => []AcquisitionSound
<1>1. FeedsSpec => []SourcesInv
  BY EachPart, SourcesInitially, SourcesStep, PTL DEF FeedsSpec
<1> QED
  BY <1>1, SourcesInvImplies, PTL

\* What a refresh that ended had read is compared, window by window and bulletin
\* by bulletin, and every comparison is counted once.  What was observed only
\* grows (ObservedGrows), so what is compared stays so (ComparedInv, MatchesInv).
THEOREM ComparisonsCompleteHolds == FeedsSpec => []ComparisonsComplete
<1>1. FeedsSpec => []TruthInv
  BY EachPart, TruthInitially, TruthStep, PTL DEF FeedsSpec
<1> QED
  BY <1>1, TruthInvImplies, PTL

\* A review ends with what its sources support, and a lookup that found nothing
\* has missed nothing.  A report awaited is on the page read or on a later one
\* until something is withdrawn (LookupAhead).
THEOREM EvidenceSoundHolds == FeedsSpec => []EvidenceSound
<1>1. FeedsSpec => []SearchInv
  BY EachPart, SearchInitially, SearchStep, PTL DEF FeedsSpec
<1>2. SearchInv => EvidenceSound
  BY SearchInvImplies DEF EvidenceSound
<1> QED
  BY <1>1, <1>2, PTL

\* The stream keeps its promise to every connection.  What was delivered is
\* compared with the requests of its time, so the invariant follows the box
\* (BoxInv) and the place of each delivery before the next one (OrderInv).
THEOREM StreamFaithfulHolds == FeedsSpec => []StreamFaithful
<1>1. StreamInv => StreamFaithful
  BY DEF StreamInv, OrderInv, CountInv, StreamFaithful
<1> QED
  BY <1>1, EachPart, StreamInitially, StreamStep, PTL DEF FeedsSpec
=============================================================================
