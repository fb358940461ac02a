-------------------------- MODULE MCDailyArchives --------------------------
(***************************************************************************)
(* DailyArchives with the server, which archives what it publishes, and    *)
(* the forecast command beside it.                                         *)
(***************************************************************************)
EXTENDS DailyArchives

\* The first batch is computed before 06:00 and is valid on the first day; the
\* later ones are due for both archives of their day, if their weather is not
\* stale.
MCSnapshotDay == [b \in Times |-> IF b = 2 THEN None ELSE 1]
MCBulletinDay == [b \in Times |-> IF b = 1 THEN None ELSE 1]
=============================================================================
