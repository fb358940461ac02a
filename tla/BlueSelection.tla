--------------------------- MODULE BlueSelection ---------------------------
(***************************************************************************)
(* The evidence cases of one published BLUE bulletin, inserted by tasks    *)
(* that share nothing but the table: the forecast task and the evidence    *)
(* task both ensure the proactive selection (is there any case? then read  *)
(* the alerts, choose, and insert in one transaction), and the ground      *)
(* truth task adds reactive cases with one statement computed from the     *)
(* table as it was when the statement began.                               *)
(*                                                                         *)
(* The order of the communes' numbers stands for the order of their names  *)
(* and of their INSEE codes.  A score of 0 is an index under the alert     *)
(* threshold: such a commune has no alert, and no signal in it is covered. *)
(*                                                                         *)
(* An operator defined just before another, with a longer form of its name *)
(* (InsertSkips, Insert), is that operator with a mistake in it; nothing   *)
(* uses it but the check that the properties notice the mistake.           *)
(***************************************************************************)
EXTENDS Integers, FiniteSets

CONSTANTS
  Communes,      \* communes of the forecast, a set of numbers
  Department,    \* department_code of a commune, or None
  None,
  Previous,      \* score in the previous bulletin, 0 without an alert in it
  MaxScore,      \* scores of an alert are 1..MaxScore, 1 the alert threshold
  National, Territorial, Acceleration,  \* the quotas of the selection
  ProactiveLimit, ReactiveLimit, DailyLimit,
  Callers,       \* tasks that ensure the proactive selection
  Watched,       \* bound: the communes that signals may be observed in
  MaxFaults      \* bound on failed database calls

ASSUME CommunesAssumption ==
  /\ Communes \subseteq Nat /\ IsFiniteSet(Communes) /\ Watched \subseteq Communes
  /\ Previous \in [Communes -> Nat]
ASSUME LimitsAssumption ==
  /\ {National, Territorial, Acceleration, MaxScore, MaxFaults} \subseteq Nat
  /\ {ProactiveLimit, ReactiveLimit, DailyLimit} \subseteq Nat
  /\ ProactiveLimit + ReactiveLimit <= DailyLimit
\* crates/store/src/blue.rs:14-17: the three quotas fit the proactive limit.
ASSUME QuotasAssumption ==
  National + Territorial + Acceleration <= ProactiveLimit

VARIABLES
  score,   \* selection_score: the highest alert index of a commune
  signal,  \* highest score of a covered satellite signal, 0 without one
  cases,   \* blue.evidence_cases of the bulletin
  chosen,  \* rows a caller is about to insert
  plan,    \* rows of the reactive statement in progress
  faults   \* failed calls so far

vars == <<score, signal, cases, chosen, plan, faults>>

Reasons == {"national_top", "territorial_top", "risk_acceleration", "reactive_signal"}
Case == [commune : Communes, rank : 1..DailyLimit, reason : Reasons]

TypeOK ==
  /\ score \in [Communes -> 0..MaxScore]
  /\ signal \in [Communes -> 0..MaxScore]
  /\ cases \subseteq Case
  /\ chosen \in [Callers -> SUBSET Case]
  /\ plan \subseteq [commune : Communes, rank : Nat, reason : {"reactive_signal"}]
  /\ faults \in 0..MaxFaults

Least(a, b) == IF a < b THEN a ELSE b

-----------------------------------------------------------------------------
(* The choice: select_blue_evidence_candidates.                            *)

Candidates == {c \in Communes : score[c] > 0}

Pairs == Communes \X Communes

\* An order is the set of pairs whose first commune comes before the second.
HigherScore ==
  {ab \in Pairs : \/ score[ab[1]] > score[ab[2]]
                  \/ score[ab[1]] = score[ab[2]] /\ ab[1] < ab[2]}

\* How much the index grew, from the threshold for a commune without an alert
\* in the previous bulletin.
Growth(c) == score[c] - (IF Previous[c] = 0 THEN 1 ELSE Previous[c])
FasterGrowth ==
  {ab \in Pairs : \/ Growth(ab[1]) > Growth(ab[2])
                  \/ Growth(ab[1]) = Growth(ab[2]) /\ ab \in HigherScore}

\* The place of c in the set S sorted by an order, from 1.
Place(c, S, order) == Cardinality({d \in S : <<d, c>> \in order}) + 1
Top(n, S, order) == {c \in S : Place(c, S, order) <= n}

LeadersOfUnknown(S, order) ==
  {c \in S : \A d \in S : Department[d] = Department[c] => c = d \/ <<c, d>> \in order}

\* The first of each department among the communes of S.
Leaders(S, order) ==
  {c \in S : /\ Department[c] # None
             /\ \A d \in S : Department[d] = Department[c] => c = d \/ <<c, d>> \in order}

\* The rows of a group, ranked by an order after the first ranks.
Rows(first, group, reason, order) ==
  {[commune |-> c, rank |-> first + Place(c, group, order), reason |-> reason] : c \in group}

\* The best indices, then the best departments among the others, then the
\* fastest growth; what remains follows by score.
Ranking ==
  LET nation == Top(National, Candidates, HigherScore)
      territories == Top(Territorial, Leaders(Candidates \ nation, HigherScore), HigherScore)
      others == Candidates \ (nation \cup territories)
      growing == Top(Acceleration, others, FasterGrowth)
      two == Cardinality(nation) + Cardinality(territories)
  IN Rows(0, nation, "national_top", HigherScore)
     \cup Rows(Cardinality(nation), territories, "territorial_top", HigherScore)
     \cup Rows(two, growing, "risk_acceleration", FasterGrowth)
     \cup Rows(two + Cardinality(growing), others \ growing, "national_top", HigherScore)

SelectionOfDay == {k \in Ranking : k.rank <= DailyLimit}

\* The call asks for the day's limit and is given the proactive limit at most.
Selection == {k \in Ranking : k.rank <= Least(DailyLimit, ProactiveLimit)}

-----------------------------------------------------------------------------
Init ==
  /\ score \in [Communes -> 0..MaxScore]
  /\ signal = [c \in Communes |-> 0]
  /\ cases = {}
  /\ chosen = [p \in Callers |-> {}]
  /\ plan = {}
  /\ faults = 0

\* A ground truth refresh stores a covered match: its score is the index of
\* the horizon it fell in, the commune's highest or a lower one.
Signal(c, v) ==
  /\ v > signal[c] /\ v <= score[c]
  /\ signal' = [signal EXCEPT ![c] = v]
  /\ UNCHANGED <<score, cases, chosen, plan, faults>>

\* A bulletin with any case is left alone; without one, the alerts are read
\* and the selection is chosen in memory.
Choose(p) ==
  /\ chosen[p] = {}
  /\ cases = {}
  /\ Candidates # {}
  /\ chosen' = [chosen EXCEPT ![p] = Selection]
  /\ UNCHANGED <<score, signal, cases, plan, faults>>

HasCase(c) == \E k \in cases : k.commune = c

InsertKeepsRank(rows) ==
  cases' = cases \cup {k \in rows : ~HasCase(k.commune) /\ k.rank <= DailyLimit}

\* INSERT ... ON CONFLICT (bulletin_id, insee_code) DO NOTHING: a rank that
\* another case holds, or beyond the last, is an error that undoes them all.
Insert(rows) ==
  LET new == {k \in rows : ~HasCase(k.commune)}
      refused == \E k \in new : k.rank > DailyLimit \/ \E l \in cases : l.rank = k.rank
  IN cases' = IF refused THEN cases ELSE cases \cup new

InsertSelection(p) ==
  /\ chosen[p] # {}
  /\ Insert(chosen[p])
  /\ chosen' = [chosen EXCEPT ![p] = {}]
  /\ UNCHANGED <<score, signal, plan, faults>>

ReactiveCases == {k \in cases : k.reason = "reactive_signal"}
HighestReactiveRank ==
  IF ReactiveCases = {} THEN 0
  ELSE CHOOSE r \in {k.rank : k \in ReactiveCases} : \A k \in ReactiveCases : k.rank <= r

HighestRank ==
  IF cases = {} THEN 0
  ELSE CHOOSE r \in {k.rank : k \in cases} : \A k \in cases : k.rank <= r

\* Free slots of the day and of the reactive reviews.
Slots ==
  LET free(limit, taken) == IF limit > taken THEN limit - taken ELSE 0
  IN Least(free(DailyLimit, Cardinality(cases)),
           free(ReactiveLimit, Cardinality(ReactiveCases)))

\* The statement reads the table: the signals with the highest scores, the
\* latest first among equals, take the free slots after the highest rank.
ReadSignals ==
  LET eligible == {c \in Communes : signal[c] > 0 /\ ~HasCase(c)}
      size == Least(Slots, Cardinality(eligible))
  IN /\ plan = {}
     /\ \E ranked \in [1..size -> eligible] :
          /\ \A i \in 1..size :
               /\ \A j \in 1..(i - 1) : ranked[j] # ranked[i]
               /\ \A c \in eligible \ {ranked[j] : j \in 1..i} :
                    signal[c] <= signal[ranked[i]]
          /\ plan' = {[commune |-> ranked[i], rank |-> HighestRank + i,
                       reason |-> "reactive_signal"] : i \in 1..size}
     /\ plan' # {}
     /\ UNCHANGED <<score, signal, cases, chosen, faults>>

\* The statement writes its rows, or fails on a rank taken meanwhile.
InsertSignals ==
  /\ plan # {}
  /\ Insert(plan)
  /\ plan' = {}
  /\ UNCHANGED <<score, signal, chosen, faults>>

\* A call fails: its transaction is rolled back, the error is logged and the
\* task waits for its next tick.
CallFails(p) ==
  /\ faults < MaxFaults
  /\ faults' = faults + 1
  /\ chosen[p] # {}
  /\ chosen' = [chosen EXCEPT ![p] = {}]
  /\ UNCHANGED <<score, signal, cases, plan>>

StatementFails ==
  /\ faults < MaxFaults
  /\ faults' = faults + 1
  /\ plan # {}
  /\ plan' = {}
  /\ UNCHANGED <<score, signal, cases, chosen>>

Next ==
  \/ \E c \in Watched, v \in 1..MaxScore : Signal(c, v)
  \/ \E p \in Callers : Choose(p)
  \/ \E p \in Callers : InsertSelection(p)
  \/ ReadSignals
  \/ InsertSignals
  \/ \E p \in Callers : CallFails(p)
  \/ StatementFails

Spec == Init /\ [][Next]_vars

\* The ground truth task ticks for ever and its statement returns; so do the
\* tasks that ensure the selection.
SignalsSpec == Spec /\ WF_vars(ReadSignals) /\ WF_vars(InsertSignals)
FairSpec ==
  /\ SignalsSpec
  /\ \A p \in Callers : WF_vars(Choose(p)) /\ WF_vars(InsertSelection(p))

-----------------------------------------------------------------------------
ProactiveCases == cases \ ReactiveCases

\* However the three tasks interleave, and although each counts before it
\* inserts, the ranks are 1, 2, ... without a gap or a tie, no commune has two
\* cases, and the limits of the day hold: the pages list cases by daily_rank.
RanksWithinLimits ==
  /\ TypeOK
  /\ {k.rank : k \in cases} = 1..Cardinality(cases)
  /\ \A k, l \in cases : k.commune = l.commune => k = l
  /\ Cardinality(cases) <= DailyLimit
  /\ Cardinality(ReactiveCases) <= ReactiveLimit
  /\ Cardinality(ProactiveCases) <= ProactiveLimit

\* Two tasks that select at the same time, or a reactive case that slips in
\* between, never leave a part of the proactive selection: once it has a case,
\* each of its communes has one.
WholeSelection ==
  /\ ProactiveCases \subseteq Selection
  /\ \A k \in Selection : HasCase(k.commune)

\* Why a commune with an alert is left out of the selection: the selection is
\* full, and enough of it has a higher index; beyond the nation's first its
\* department is there, or enough departments come before it; and enough of
\* the selection grew faster.
Diversified ==
  LET selected == {k.commune : k \in Selection} IN
  \A c \in Candidates \ selected :
    LET ahead == {d \in selected : <<d, c>> \in HigherScore}
        beyond == {d \in selected : Place(d, Candidates, HigherScore) > National} IN
    /\ Cardinality(selected) = ProactiveLimit
    /\ Cardinality(ahead) >= National
    /\ \/ Department[c] = None
       \/ \E d \in beyond : Department[d] = Department[c]
       \/ Cardinality({Department[d] : d \in ahead \cap beyond} \ {None}) >= Territorial
    /\ Cardinality({d \in selected : <<d, c>> \in FasterGrowth}) >= Acceleration

\* Once the bulletin has a proactive case, its selection is there whole, and
\* leaves out only communes that every quota justifies leaving out.
SelectionSound == ProactiveCases # {} => WholeSelection /\ Diversified

\* A covered signal outside the selection is reviewed as long as a reactive
\* slot is free: a statement that lost its race is made again.
SignalsReviewed ==
  \A c \in Watched :
    signal[c] > 0 ~> HasCase(c) \/ Slots = 0

\* What the daily set promises, whatever the tasks do (BlueDailySet).
DailySet == INSTANCE BlueDailySet

DailySetSpec == DailySet!Spec
=============================================================================
