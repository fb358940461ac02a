--------------------------- MODULE EvidenceSearch ---------------------------
(***************************************************************************)
(* The search behind one review of an evidence case: the recent reports of *)
(* a community site are looked up page by page, and if that gives nothing  *)
(* or fails, a language model searches the web and its answer is checked.  *)
(* Reports appear, are withdrawn or found false between the calls.         *)
(*                                                                         *)
(* Dates are classes: an event is before, in (window) or after the window  *)
(* of the alert; a publication before the bulletin, in the period up to    *)
(* the check, or in the future.  A report in the window may be dated after *)
(* the check.  The site and the model are external.                        *)
(*                                                                         *)
(* An operator defined just before another, with a longer form of its name *)
(* (DirectAuthorityOrPress, DirectAuthority), is that operator with a      *)
(* mistake in it.                                                          *)
(***************************************************************************)
EXTENDS Integers, Sequences, FiniteSets, FiniteSetsExt

CONSTANTS
  EntryOf,       \* reports: whether of the commune, and their date
  FirstListed,   \* the reports listed at the beginning, the latest first
  PageSize, MaxPages,
  PageOf,        \* the page of each readable URL, its query left out
  SiteOf,        \* the kind of site of each page
  ReportUrl,     \* the URL of a community report
  Answers,       \* bound: the answers of the model
  MaxChanges,    \* bound on what happens to the listing during the lookup
  SearchFaults   \* bound on failed calls of the lookup

\* There are pages to read, an answer cites a sequence of items, and no answer is none.
ASSUME SearchAssumption ==
  /\ PageSize \in Nat \ {0} /\ MaxPages \in Nat \ {0}
  /\ FirstListed \in Seq(DOMAIN EntryOf)
  /\ \A p \in DOMAIN PageOf : SiteOf[PageOf[p]] \in {"authority", "press", "community", "other"}
  /\ \A a \in Answers : /\ a # [verdict |-> "none"]
                        /\ a.items \in Seq({a.items[i] : i \in DOMAIN a.items})

VARIABLES
  listing,    \* the community reports, the latest first
  retracted,  \* reports whose title says that they were false alerts
  review      \* the review in progress; what became of the listing meanwhile

search == <<listing, retracted, review>>

Undecided == [verdict |-> "none", sources |-> {}, event |-> "none"]
Invalid == [Undecided EXCEPT !.verdict = "invalid"]
Failed == [Undecided EXCEPT !.verdict = "failed"]
NoAnswer == [verdict |-> "none"]

EvidenceInit ==
  /\ listing = FirstListed
  /\ retracted = {}
  /\ review = [step |-> "begin", page |-> 0, total |-> 0, entries |-> <<>>, found |-> "none",
               answer |-> NoAnswer, result |-> Undecided,
               changes |-> 0, withdrawn |-> FALSE, faults |-> 0]

-----------------------------------------------------------------------------
(* The checks: parse_response and validate_evidence_result.                *)

Positive == {"confirmed", "probable", "signal_observed"}
Trusted == {"authority", "press", "community"}

Site(source) == SiteOf[PageOf[source.url]]

\* Items without a readable URL are dropped, and of a URL the first is kept.
KeptItems(items) ==
  LET readable == {i \in DOMAIN items : items[i].url \in DOMAIN PageOf}
  IN {items[i] : i \in {i \in readable :
                          \A j \in readable : j < i => items[j].url # items[i].url}}

Parsed(answer) ==
  LET kept == KeptItems(answer.items)
      direct == \E s \in kept : s.strength = "direct"
      verdict == CASE answer.verdict = "confirmed" /\ kept # {} /\ ~direct -> "probable"
                   [] answer.verdict \in {"probable", "signal_observed"} /\ kept = {} -> "inconclusive"
                   [] OTHER -> answer.verdict
  IN [verdict |-> verdict, sources |-> kept, event |-> answer.event, place |-> answer.place,
      searched |-> answer.searched, returned |-> answer.returned]

\* A source is on a page that the search returned, dated within the period,
\* names the commune and is of a trusted site.
Accepted(source, found) ==
  /\ PageOf[source.url] \in found.returned
  /\ source.published = "period"
  /\ source.names
  /\ Site(source) \in Trusted

Rejected(found) ==
  \/ ~found.searched
  \/ found.event # "window"
  \/ found.place # "named"
  \/ found.sources = {}
  \/ \E s \in found.sources : ~Accepted(s, found)

DirectAuthorityOrPress(sources) ==
  \E s \in sources : Site(s) \in {"authority", "press"} /\ s.strength = "direct"

DirectAuthority(sources) ==
  \E s \in sources : Site(s) = "authority" /\ s.strength = "direct"

\* A verdict that is not positive keeps nothing; one bad source rejects it all.
Validated(found) ==
  IF found.verdict \notin Positive THEN [Undecided EXCEPT !.verdict = found.verdict]
  ELSE IF Rejected(found) THEN Invalid
  ELSE [verdict |-> IF found.verdict = "confirmed" /\ ~DirectAuthority(found.sources)
                    THEN "probable" ELSE found.verdict,
        sources |-> found.sources, event |-> found.event]

\* What the lookup makes of a report: a direct signal of a community site.
OfReport(r) ==
  [verdict |-> "probable", event |-> "window", place |-> "named", searched |-> TRUE,
   returned |-> {PageOf[ReportUrl]},
   sources |-> {[url |-> ReportUrl, strength |-> "direct", names |-> TRUE,
                 published |-> IF EntryOf[r].date = "future" THEN "future" ELSE "period"]}]

-----------------------------------------------------------------------------
(* The lookup: find_report.                                                *)

\* Without a client for the site the model is asked at once.
Begin ==
  /\ review.step = "begin"
  /\ \E step \in {"page", "ask"} : review' = [review EXCEPT !.step = step]
  /\ UNCHANGED <<listing, retracted>>

\* The lookup ends, with a report or what became of it.
Ended(found, step) ==
  [review EXCEPT !.step = step, !.found = found, !.page = 0, !.total = 0, !.entries = <<>>]

\* The entries of a page of the listing as it is now.
Page(k) == SubSeq(listing, k * PageSize + 1, Min({(k + 1) * PageSize, Len(listing)}))

\* One page is read; an empty page is the end.
ReadPage ==
  /\ review.step = "page"
  /\ review' =
       IF Page(review.page) = <<>> THEN Ended("nothing", "ask")
       ELSE [review EXCEPT !.step = "resolve", !.total = Len(listing), !.entries = Page(review.page)]
  /\ UNCHANGED <<listing, retracted>>

Genuine(r) == EntryOf[r].date \in {"window", "future"} /\ r \notin retracted

\* An entry of another commune is passed over.  A report of the commune is read:
\* a false alert, or a date out of the window, is passed over; the first other
\* ends the lookup.
Resolve ==
  LET r == Head(review.entries)
      result == Validated(OfReport(r))
  IN /\ review.step = "resolve" /\ review.entries # <<>>
     /\ review' =
          IF ~(EntryOf[r].here /\ Genuine(r)) THEN [review EXCEPT !.entries = Tail(@)]
          ELSE IF result = Invalid THEN Ended("refused", "ask")
          ELSE [Ended("report", "done") EXCEPT !.result = result]
     /\ UNCHANGED <<listing, retracted>>

\* The next page, if the listing had more when this one was read.
NextPage ==
  LET last == (review.page + 1) * PageSize >= review.total \/ review.page + 1 = MaxPages
  IN /\ review.step = "resolve" /\ review.entries = <<>>
     /\ review' = IF last THEN Ended("nothing", "ask")
                  ELSE [review EXCEPT !.step = "page", !.page = @ + 1]
     /\ UNCHANGED <<listing, retracted>>

\* A call of the lookup fails or times out: the model is asked instead.
LookupFails ==
  /\ \/ review.step = "page"
     \/ review.step = "resolve" /\ review.entries # <<>> /\ EntryOf[Head(review.entries)].here
  /\ review.faults < SearchFaults
  /\ review' = [Ended("failed", "ask") EXCEPT !.faults = @ + 1]
  /\ UNCHANGED <<listing, retracted>>

\* The model answers; the answer is parsed and checked.
Answer ==
  /\ review.step = "ask"
  /\ \E answer \in Answers :
       review' = [review EXCEPT !.step = "done", !.answer = answer,
                                !.result = Validated(Parsed(answer))]
  /\ UNCHANGED <<listing, retracted>>

\* No answer, an error status, or a body that cannot be read.
AnswerFails ==
  /\ review.step = "ask"
  /\ review' = [review EXCEPT !.step = "done", !.result = Failed]
  /\ UNCHANGED <<listing, retracted>>

-----------------------------------------------------------------------------
(* What others do to the site during the lookup.                           *)

Listed == {listing[i] : i \in DOMAIN listing}

Changes(withdrawn) ==
  /\ review.step \in {"page", "resolve"}
  /\ review.changes < MaxChanges
  /\ review' = [review EXCEPT !.changes = @ + 1, !.withdrawn = withdrawn]

Appear(r) ==
  /\ Changes(review.withdrawn)
  /\ r \notin Listed /\ \A i \in DOMAIN FirstListed : FirstListed[i] # r
  /\ listing' = <<r>> \o listing
  /\ UNCHANGED retracted

Withdraw(i) ==
  /\ Changes(TRUE)
  /\ listing' = SubSeq(listing, 1, i - 1) \o SubSeq(listing, i + 1, Len(listing))
  /\ UNCHANGED retracted

Retract(r) ==
  /\ Changes(review.withdrawn)
  /\ r \in Listed \ retracted
  /\ retracted' = retracted \cup {r}
  /\ UNCHANGED listing

EvidenceNext ==
  \/ Begin
  \/ ReadPage
  \/ Resolve
  \/ NextPage
  \/ LookupFails
  \/ Answer
  \/ AnswerFails
  \/ \E r \in DOMAIN EntryOf : Appear(r)
  \/ \E i \in DOMAIN listing : Withdraw(i)
  \/ \E r \in DOMAIN EntryOf : Retract(r)

-----------------------------------------------------------------------------
(* A positive verdict recorded stands on sources that were returned by the *)
(* search, each dated, trusted and naming the commune, on an event in the  *)
(* window, and is "confirmed" on the word of an authority only: neither    *)
(* the press nor the community confirms.                                   *)
AnswersGrounded ==
  LET result == review.result
      returned == IF review.answer = NoAnswer THEN {PageOf[ReportUrl]} ELSE review.answer.returned
  IN /\ result.verdict \in Positive =>
          /\ result.event = "window" /\ result.sources # {}
          /\ \A s \in result.sources :
               PageOf[s.url] \in returned /\ s.published = "period" /\ s.names /\ Site(s) \in Trusted
     /\ result.verdict = "confirmed" => \E s \in result.sources : Site(s) = "authority"
                                                                  /\ s.strength = "direct"
     /\ result.verdict \notin Positive => result.sources = {} /\ result.event = "none"

(* Nor is a sound answer lost: a positive claim whose sources are all good *)
(* is recorded, at most weakened from confirmed to probable and then for   *)
(* want of an authority; it is answered "inconclusive" only without any    *)
(* readable source, and rejected, to be tried again, only for a cause.     *)
AnswersKept ==
  LET answer == review.answer
      first(i) == \A j \in 1..(i - 1) : answer.items[j].url # answer.items[i].url
      cited == {i \in DOMAIN answer.items : answer.items[i].url \in DOMAIN PageOf /\ first(i)}
      good(i) == LET s == answer.items[i] IN
                   /\ PageOf[s.url] \in answer.returned /\ s.published = "period"
                   /\ s.names /\ Site(s) # "other"
      sound == /\ answer.searched /\ answer.event = "window" /\ answer.place = "named"
               /\ cited # {} /\ \A i \in cited : good(i)
      authority == \E i \in cited : Site(answer.items[i]) = "authority"
                                    /\ answer.items[i].strength = "direct"
  IN answer # NoAnswer /\ answer.verdict \in Positive =>
       IF sound THEN review.result.verdict =
                       IF answer.verdict = "confirmed" /\ ~authority THEN "probable"
                       ELSE answer.verdict
       ELSE review.result.verdict =
              IF cited = {} /\ answer.verdict # "confirmed" THEN "inconclusive" ELSE "invalid"

(* The pages are read while the listing moves: a lookup that ends without  *)
(* a report has missed none that was listed all along within its reach and *)
(* never retracted, unless one was withdrawn meanwhile, be it one that had *)
(* appeared meanwhile (find_report).                                       *)
ReportsFound ==
  review.found = "nothing" /\ ~review.withdrawn =>
    \A i \in DOMAIN listing :
      (\E j \in DOMAIN FirstListed : FirstListed[j] = listing[i]) /\ i <= PageSize * MaxPages
        => ~(EntryOf[listing[i]].here /\ Genuine(listing[i]))
=============================================================================
