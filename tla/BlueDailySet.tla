---------------------------- MODULE BlueDailySet ----------------------------
(***************************************************************************)
(* What the daily evidence set of one BLUE bulletin promises, with every   *)
(* concurrent task, stale read and failed call hidden: the proactive       *)
(* cases enter together and once, and groups of reactive cases before or   *)
(* after them, within the limits of each kind and of the day; the ranks    *)
(* have no gap or tie, and no case ever leaves or changes.                 *)
(* BlueSelection implements this specification.                            *)
(***************************************************************************)
EXTENDS Naturals, FiniteSets

CONSTANTS
  ProactiveLimit,  \* cases the proactive selection may have
  ReactiveLimit,   \* reactive cases of one bulletin
  DailyLimit       \* cases of one bulletin

VARIABLE cases     \* the cases: commune, daily_rank and selection_reason

Reactive(set) == {k \in set : k.reason = "reactive_signal"}
Proactive(set) == set \ Reactive(set)

\* Ranks 1, 2, ... without a gap, and every commune once.
Ranked(set) ==
  /\ {k.rank : k \in set} = 1..Cardinality(set)
  /\ \A k, l \in set : k.commune = l.commune => k = l

Init == cases = {}

Grow ==
  /\ cases \subseteq cases'
  /\ Ranked(cases')
  /\ Cardinality(cases') <= DailyLimit

Select ==
  /\ Grow
  /\ Proactive(cases) = {}
  /\ Reactive(cases') = Reactive(cases)
  /\ Cardinality(Proactive(cases')) <= ProactiveLimit

React ==
  /\ Grow
  /\ Proactive(cases') = Proactive(cases)
  /\ Cardinality(Reactive(cases')) <= ReactiveLimit

Spec == Init /\ [][Select \/ React]_cases
=============================================================================
