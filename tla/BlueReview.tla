----------------------------- MODULE BlueReview -----------------------------
(***************************************************************************)
(* What the BLUE evidence workflow promises about one case, with every     *)
(* attempt, retry, worker and database failure hidden: an early search     *)
(* after the +24 h horizon yields a provisional verdict, a search after    *)
(* the +48 h horizon yields the final one, and a closed case never moves.  *)
(* BlueEvidence implements this specification.                             *)
(***************************************************************************)

CONSTANTS
  Cases,     \* the evidence cases of one bulletin
  Alerts24,  \* the cases whose commune has a +24 h alert
  Alerts48   \* the cases whose commune has a +48 h alert

VARIABLES
  stage,        \* the next search of a case: hours_24, hours_48 or completed
  provisional,  \* the verdict of the +24 h search
  verdict       \* the verdict the case shows

vars == <<stage, provisional, verdict>>

Findings == {"observed", "no_evidence_found", "inconclusive"}
Verdicts == Findings \cup {"pending"}

Init ==
  /\ stage \in [Cases -> {"hours_24", "hours_48"}]
  /\ \A c \in Cases : c \in IF stage[c] = "hours_24" THEN Alerts24 ELSE Alerts48
  /\ provisional = [c \in Cases |-> "pending"]
  /\ verdict = [c \in Cases |-> "pending"]

AfterEarly(c) == IF c \in Alerts48 THEN "hours_48" ELSE "completed"

\* The +24 h search answers: the finding is provisional, and shown meanwhile.
PublishProvisional(c, f) ==
  /\ stage[c] = "hours_24"
  /\ provisional' = [provisional EXCEPT ![c] = f]
  /\ verdict' = [verdict EXCEPT ![c] = f]
  /\ stage' = [stage EXCEPT ![c] = AfterEarly(c)]

\* The +24 h search is given up: nothing is said about the case.
GiveUpEarly(c) ==
  /\ stage[c] = "hours_24"
  /\ stage' = [stage EXCEPT ![c] = AfterEarly(c)]
  /\ UNCHANGED <<provisional, verdict>>

\* The +48 h search found nothing and will be repeated.
SearchAgain(c) ==
  /\ stage[c] = "hours_48"
  /\ verdict' = [verdict EXCEPT ![c] = "no_evidence_found"]
  /\ UNCHANGED <<stage, provisional>>

\* The final verdict; "inconclusive" also when the +48 h search is given up.
Conclude(c, f) ==
  /\ stage[c] = "hours_48"
  /\ verdict' = [verdict EXCEPT ![c] = f]
  /\ stage' = [stage EXCEPT ![c] = "completed"]
  /\ UNCHANGED provisional

Next ==
  \E c \in Cases :
    \/ \E f \in Findings : PublishProvisional(c, f) \/ Conclude(c, f)
    \/ GiveUpEarly(c)
    \/ SearchAgain(c)

Spec == Init /\ [][Next]_vars
=============================================================================
