--------------------------- MODULE BlueEvidenceInv ---------------------------
(***************************************************************************)
(* The inductive invariant of the evidence queue: what each row says of    *)
(* the runs of its case, and what each reviewer in memory says of its row. *)
(* TLC checks it in the runs of MCBlueEvidence; BlueEvidenceProofs proves  *)
(* it and derives the properties of BlueEvidence from it.                  *)
(***************************************************************************)
EXTENDS BlueEvidence

Taken(c, h, n) == runs[<<c, h, n>>] # "none"

\* A closed row is completed and no other is; an open stage has its alert.
StageInv(c) ==
  /\ row[c].stage = "completed" <=> row[c].status \in {"reviewed", "failed"}
  /\ row[c].stage = "hours_24" => c \in Alerts24
  /\ row[c].stage = "hours_48" => c \in Alerts48

\* The runs of the stage are those its counter counts, except that the last
\* one may be missing while the row is claimed.
LedgerInv(c) ==
  /\ row[c].stage = "hours_24" => \A n \in 1..3 : ~Taken(c, "hours_48", n)
  /\ Open(row[c]) =>
       /\ row[c].tries < 3
       /\ \A n \in 1..3 : Taken(c, row[c].stage, n) <=> n <= row[c].tries
  /\ row[c].status = "researching" =>
       /\ row[c].tries >= 1
       /\ \A n \in 1..3 : /\ n < row[c].tries => Taken(c, row[c].stage, n)
                          /\ n > row[c].tries => ~Taken(c, row[c].stage, n)

\* A reviewer holds a claimed row, remembers its stage and counter, and has
\* the run of that number to insert or to end.
JobInv ==
  \A j \in jobs :
    /\ row[j.case].status = "researching"
    /\ row[j.case].stage = j.horizon
    /\ row[j.case].tries = j.no
    /\ runs[KeyOf(j)] = IF j.step = "claimed" THEN "none" ELSE "started"
    /\ \A k \in jobs : k.case = j.case => k = j

\* Only a fault separates a claimed row from its reviewer.
HeldInv ==
  faults = 0 => \A c \in Cases :
    row[c].status = "researching" => \E j \in jobs : j.case = c

\* What the claims and the ends of runs maintain together.
QueueInv ==
  /\ TypeOK
  /\ JobInv
  /\ HeldInv
  /\ \A c \in Cases : StageInv(c) /\ LedgerInv(c)

\* At most three attempts are spent before the +48 h stage.
AttemptInv ==
  \A c \in Cases :
    /\ row[c].stage = "hours_24" => row[c].attempts <= row[c].tries
    /\ row[c].stage = "hours_48" => row[c].attempts <= 3 + row[c].tries

\* The third try is reached, or promised, only past a malformed second one.
ThirdTryInv ==
  \A c \in Cases :
    /\ Open(row[c]) /\ row[c].tries = 2 => runs[<<c, row[c].stage, 2>>] = "invalid"
    /\ row[c].status = "researching" /\ row[c].tries = 3 =>
         runs[<<c, row[c].stage, 2>>] = "invalid"

\* The verdict a closed case must show.
Settled(c) ==
  IF row[c].status = "reviewed"
  THEN LastFinding(c, IF c \in Alerts48 THEN "hours_48" ELSE "hours_24", row[c].verdict)
  ELSE row[c].verdict = IF c \in Alerts48 THEN "inconclusive" ELSE "pending"

\* The verdict and its horizon are those of the last step that closed the case.
VerdictOK(c) ==
  /\ row[c].stage = "completed" => Settled(c)
  /\ c \in Alerts48 => (row[c].closed = "set" <=> row[c].stage = "completed")
  /\ c \notin Alerts48 /\ row[c].stage # "completed" => row[c].verdict = "pending"
  /\ row[c].status = "reviewed" => row[c].verdict \in Findings

VerdictInv == \A c \in Cases : VerdictOK(c)

\* A row that waits for a further try of its stage has that try's own date.
DelayInv ==
  \A c \in Cases : Open(row[c]) /\ row[c].tries > 0 => row[c].next # "null"

\* A proactive row that is being or has been tried in its stage waited for it.
WaitInv ==
  \A c \in Cases \ Reactive :
    /\ row[c].stage = "hours_24" => row[c].after = 1
    /\ row[c].stage = "hours_48" => row[c].after = 2
    /\ row[c].stage # "completed" /\ (row[c].tries > 0 \/ row[c].next # "null") =>
         row[c].after <= clock

IInv ==
  /\ QueueInv /\ OneReviewer /\ RunLedger
  /\ AttemptInv /\ NoFrozenCase
  /\ ThirdTryInv /\ ThirdTryReserved
  /\ FinalSearchMade
  /\ VerdictInv /\ FinalVerdict
  /\ EvaluationFollowsRuns
  /\ DelayInv
  /\ WaitInv /\ SearchesWaitForHorizon
=============================================================================
