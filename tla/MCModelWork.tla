---------------------------- MODULE MCModelWork ----------------------------
(***************************************************************************)
(* Data: fires 1 and 3 are on one cell-day; fire 2 comes late, on a        *)
(* cell-day that is tried as one without a fire; fire 4 is on one whose    *)
(* cell cannot be read; fire 5 is out of the period; fire 6 is natural, on *)
(* the cell-day tried first.  Studies: rows 11..15 are of years 1 to 5,    *)
(* rows 21..25 too; the rows of a version may grow by one while a command  *)
(* reads it.                                                               *)
(***************************************************************************)
EXTENDS ModelWork

SplitOfDay(d) == IF d = "d5" THEN None ELSE "train"
NearDay(d, f) == d = "d3" /\ f = "d2"
PoolOf(s) == <<"d6", "d2", "d3", "d7">>
FireDay(e) == CASE e \in {1, 3} -> "d1" [] e = 2 -> "d2" [] e = 4 -> "d4" [] e = 5 -> "d5" [] OTHER -> "d6"
SeedsGiven == <<{1}, {1, 2}>>
PrincipalVersion == <<"candidate", "inclusive">>
LoadsGiven == <<"x", "y", "x">>
Sym == Permutations(Builders) \cup Permutations(Registrars)

Year(r) == r % 10
Parent(r) == r \div 10
RowsGiven == {11, 12, 13, 14, 15, 21, 22, 23, 24, 25}
StudyVersionsGiven == <<"inclusive", "strict", "window">>
BuiltGiven ==
  [inclusive |-> [before |-> RowsGiven \ {22, 25}, after |-> RowsGiven],
   strict |-> [before |-> {11, 12, 13, 14, 15}, after |-> {11, 12, 13, 14, 15, 23}],
   window |-> [before |-> {}, after |-> {11, 12, 14, 25}],
   other |-> [before |-> {11, 14}, after |-> {11, 14, 15}]]
F(c, d) == [cell |-> c, day |-> d]
PastFiresGiven == {F("a", 1), F("a", 2), F("b", 3), F("a", 4)}
IntervalsGiven ==
  {[train |-> <<1, 2>>, validation |-> <<3, 4>>], [train |-> <<2, 3>>, validation |-> <<4, 4>>],
   [train |-> <<1, 3>>, validation |-> <<3, 4>>]}
TrainedGiven ==
  [given |-> [train |-> <<1, 2>>, validation |-> <<3, 4>>], train |-> {F("a", 1)},
   validation |-> {F("b", 3)}, controls |-> {F("a", 2)}, validationControls |-> {F("a", 3)},
   active |-> TRUE]
CellsGiven == <<"a", "b", "c">>
FirstGiven(cell, interval) == IF cell = "a" THEN 0 ELSE 1
PastGiven == <<F("b", 0), F("a", 1), F("b", 2), F("a", 2), F("c", 3), F("a", 3), F("b", 5)>>
PeriodGiven == [warm |-> 2, from |-> 3, to |-> 5]
=============================================================================
