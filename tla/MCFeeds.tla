------------------------------ MODULE MCFeeds ------------------------------
(***************************************************************************)
(* Two files that share an event, the second of which has a later event at *)
(* a place of the first, an unreadable row and a repeated identifier; three*)
(* audits, one of them of a single record, one with other rules.  Four     *)
(* detections in three windows, one of a commune that no archive knows,    *)
(* and two bulletins whose periods overlap.  Three partitions with four    *)
(* cells, of which the clients ask for one of two boxes.  A listing of     *)
(* community reports read by pages of two, and answers of up to two items  *)
(* on four pages of four kinds of site.  Hours around a noon, and those up *)
(* to the next hour sampled of an afternoon.                               *)
(***************************************************************************)
EXTENDS Feeds

CONSTANTS e1, e2, e3, north, south

R(id, valid, place) == [id |-> id, valid |-> valid, place |-> place]

FilesGiven ==
  [i \in {1, 2} |->
    IF i = 1 THEN <<R(e1, TRUE, north), R(e2, TRUE, south), R(e2, TRUE, north)>>
    ELSE <<R(None, FALSE, south), R(e1, TRUE, south), R(e3, FALSE, north), R(e3, TRUE, north)>>]
ScopesGiven == [a \in {1, 2, 3} |-> IF a = 1 THEN {e2} ELSE {e1, e2, e3}]
RulesGiven == [a \in {1, 2, 3} |-> IF a = 3 THEN "changed" ELSE "v1"]
TwinsGiven == {{e1, e2}, {e1, e3}}

D(commune, hour) == [commune |-> commune, hour |-> hour]
DetectionsGiven == {D("a", 6), D("a", 8), D("b", 36), D("c", 7)}
IgnitionsGiven == {D("a", 54)}
S(low, high) == (24 :> low) @@ (48 :> high)
BulletinsGiven ==
  {[issued |-> 7, scheduled |-> 6, scores |-> ("a" :> S(2, 3)) @@ ("b" :> S(1, 1))],
   [issued |-> 30, scheduled |-> 30, scores |-> ("a" :> S(1, 2)) @@ ("b" :> S(2, 1))]}

HoursGiven == 131..133 \cup 158..162

AreasGiven == <<{"a", "b"}, {"c"}, {"d"}>>
BoxesGiven == {{"a", "c"}, {"b", "d"}}

E(here, date) == [here |-> here, date |-> date]
EntryGiven ==
  ("other" :> E(FALSE, "window")) @@ ("old" :> E(TRUE, "before")) @@ ("fire" :> E(TRUE, "window"))
    @@ ("far" :> E(FALSE, "before")) @@ ("ahead" :> E(TRUE, "future"))
    @@ ("new" :> E(TRUE, "after")) @@ ("newest" :> E(FALSE, "window"))
ListedGiven == <<"other", "fire", "old", "far">>

PageGiven ==
  ("prefect" :> "prefect") @@ ("prefect?p=2" :> "prefect") @@ ("daily" :> "daily")
    @@ ("report" :> "report") @@ ("blog" :> "blog")
SiteGiven ==
  ("prefect" :> "authority") @@ ("daily" :> "press") @@ ("report" :> "community")
    @@ ("blog" :> "other")

I(url, strength, published, names) ==
  [url |-> url, strength |-> strength, published |-> published, names |-> names]
ItemsGiven ==
  {I(url, strength, "period", TRUE) : url \in DOMAIN PageGiven, strength \in {"direct", "weak"}}
    \cup {I("ftp", "direct", "period", TRUE), I("daily", "direct", "period", FALSE)}
    \cup {I("prefect", "direct", published, TRUE) : published \in {"before", "future", "none"}}
AnswerOf(verdict, event, place, searched, items, returned) ==
  [verdict |-> verdict, event |-> event, place |-> place, searched |-> searched,
   items |-> items, returned |-> returned]
VerdictsGiven == {"confirmed", "probable", "signal_observed", "no_evidence_found"}
Lists == {<<>>} \cup {<<i>> : i \in ItemsGiven} \cup (ItemsGiven \X ItemsGiven)
AnswersGiven ==
  {AnswerOf(verdict, "window", "named", TRUE, items, returned) :
     verdict \in VerdictsGiven, items \in Lists,
     returned \in {DOMAIN SiteGiven, {"prefect"}}}
  \cup
  {AnswerOf(verdict, event, place, searched, <<I("prefect", "direct", "period", TRUE)>>, {"prefect"}) :
     verdict \in VerdictsGiven, event \in {"before", "window", "after", "none"},
     place \in {"named", "elsewhere", "none"}, searched \in BOOLEAN}
=============================================================================
