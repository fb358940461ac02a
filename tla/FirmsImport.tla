---------------------------- MODULE FirmsImport ----------------------------
(***************************************************************************)
(* The import of NASA FIRMS detections: a tracked batch is begun, the CSV  *)
(* documents of the retrieval are fetched, their rows are stored raw and   *)
(* as public observations in one transaction, and the batch is finished    *)
(* with its counts.  The scheduler and the backfill command import at the  *)
(* same time and often the same detections; a process may stop anywhere.   *)
(*                                                                         *)
(* A document is a sequence of rows; a row is a detection, named by its    *)
(* dedupe key, or Unreadable.  A row of a retrieval has a place: the       *)
(* number of its document and its number in it.                            *)
(*                                                                         *)
(* An operator defined just before another, with a longer form of its name *)
(* (RawRowsNew, RawRows), is that operator with a mistake in it; nothing   *)
(* uses it but the check that the properties notice the mistake.           *)
(***************************************************************************)
EXTENDS Naturals, Sequences, FiniteSets

CONSTANTS
  Importers,   \* tasks that import
  Detections,  \* dedupe keys
  Retrieved,   \* what each importer may retrieve: sets of document sequences
  Unreadable,  \* a row that cannot be parsed or normalized
  MaxImports,  \* bound on the imports ever begun
  MaxFaults    \* bound on restarts, failed and lost calls

ASSUME BoundsAssumption == MaxImports \in Nat /\ MaxFaults \in Nat

\* A dedupe key is never the identity of an unreadable row.
ASSUME RowsAssumption ==
  /\ \A p \in Importers : \A d \in Retrieved[p] : d \in Seq(Seq(Detections \cup {Unreadable}))
  /\ Unreadable \notin Detections
  /\ \A k \in Detections : k \notin Nat

VARIABLES
  begun,    \* number of imports begun
  batch,    \* ops.import_batches, and the pipeline run that follows it
  raw,      \* raw.firms_observations: the rows of each batch
  public,   \* dedupe keys of the public observations of FIRMS
  source,   \* the FIRMS row of source_status: no row, fine or in error
  task,     \* what each importer does
  faults    \* faults so far

vars == <<begun, batch, raw, public, source, task, faults>>

Imports == 1..MaxImports
States == {"none", "running", "succeeded", "partially_succeeded", "failed"}
Counts == [received : Nat, inserted : Nat, ignored : Nat, rejected : Nat]
Zero == [received |-> 0, inserted |-> 0, ignored |-> 0, rejected |-> 0]
IdleTask == [step |-> "idle", import |-> 0, documents |-> <<>>, result |-> Zero]

TypeOK ==
  /\ begun \in 0..MaxImports
  /\ batch \in [Imports -> [state : States, counts : Counts]]
  /\ source \in {"none", "fine", "error"}
  /\ \A p \in Importers :
       /\ task[p].step \in {"idle", "fetch", "persist", "finish", "fail"}
       /\ task[p].result \in Counts
       /\ task[p].import \in 0..MaxImports
  /\ faults \in 0..MaxFaults

Init ==
  /\ begun = 0
  /\ batch = [i \in Imports |-> [state |-> "none", counts |-> Zero]]
  /\ raw = [i \in Imports |-> {}]
  /\ public = {}
  /\ source = "none"
  /\ task = [p \in Importers |-> IdleTask]
  /\ faults = 0

-----------------------------------------------------------------------------
Fault ==
  /\ faults < MaxFaults
  /\ faults' = faults + 1

Goto(p, step) == task' = [task EXCEPT ![p].step = step]

\* The batch and its run are created and marked running in one transaction.
Begin(p) ==
  /\ task[p].step = "idle"
  /\ begun < MaxImports
  /\ begun' = begun + 1
  /\ batch' = [batch EXCEPT ![begun + 1].state = "running"]
  /\ task' = [task EXCEPT ![p].step = "fetch", ![p].import = begun + 1]
  /\ UNCHANGED <<raw, public, source, faults>>

\* The rows of a retrieval with their source_record_id: the dedupe key, or the
\* number of the row in its document.
RowsOf(documents) ==
  LET key(n) == documents[n[1]][n[2]]
  IN [n \in UNION {{k} \X DOMAIN documents[k] : k \in DOMAIN documents} |->
        [id |-> IF key(n) = Unreadable THEN n[2] ELSE key(n), key |-> key(n)]]

FetchNonEmpty(p) ==
  /\ task[p].step = "fetch"
  /\ \E d \in Retrieved[p] :
       task' = [task EXCEPT ![p] =
                  IF DOMAIN RowsOf(d) = {} THEN IdleTask
                  ELSE [@ EXCEPT !.step = "persist", !.documents = d]]
  /\ UNCHANGED <<begun, batch, raw, public, source, faults>>

\* Every document of the retrieval is fetched and parsed before any is stored.
Fetch(p) ==
  /\ task[p].step = "fetch"
  /\ \E d \in Retrieved[p] : task' = [task EXCEPT ![p].step = "persist", ![p].documents = d]
  /\ UNCHANGED <<begun, batch, raw, public, source, faults>>

\* The source cannot be reached, or a document of it cannot be decoded.
FetchFails(p) ==
  /\ task[p].step = "fetch"
  /\ Goto(p, "fail")
  /\ UNCHANGED <<begun, batch, raw, public, source, faults>>

Earlier(m, n) == m[1] < n[1] \/ (m[1] = n[1] /\ m[2] < n[2])
First(rows) ==
  {n \in DOMAIN rows : ~\E m \in DOMAIN rows : Earlier(m, n) /\ rows[m].id = rows[n].id}

\* ON CONFLICT (import_batch_id, source_record_id) DO NOTHING: the rows that
\* are inserted raw are the first of each identity.
RawRows(rows) == First(rows)

Readable(rows) == {n \in RawRows(rows) : rows[n].key # Unreadable}

PublicRowsAgain(rows) == Readable(rows)

\* ON CONFLICT (source, dedupe_key) DO NOTHING: those of them that are
\* inserted as observations were in no earlier import.
PublicRows(rows) == {n \in Readable(rows) : rows[n].key \notin public}

ResultForgets(rows) ==
  [received |-> Cardinality(DOMAIN rows),
   inserted |-> Cardinality(PublicRows(rows)),
   ignored  |-> Cardinality(Readable(rows) \ PublicRows(rows)),
   rejected |-> Cardinality(RawRows(rows) \ Readable(rows))]

\* The counters of the transaction: a row is ignored when its identity was
\* already in the batch, or its detection already public.
Result(rows) ==
  [received |-> Cardinality(DOMAIN rows),
   inserted |-> Cardinality(PublicRows(rows)),
   ignored  |-> Cardinality(DOMAIN rows \ RawRows(rows))
                  + Cardinality(Readable(rows) \ PublicRows(rows)),
   rejected |-> Cardinality(RawRows(rows) \ Readable(rows))]

\* The raw rows and the observations are committed together.
Store(p) ==
  LET rows == RowsOf(task[p].documents)
      i == task[p].import
  IN /\ task[p].step = "persist"
     /\ raw' = [raw EXCEPT ![i] = @ \cup {rows[n] : n \in RawRows(rows)}]
     /\ public' = public \cup {rows[n].key : n \in PublicRows(rows)}

Persist(p) ==
  /\ Store(p)
  /\ task' = [task EXCEPT ![p].step = "finish",
                          ![p].result = Result(RowsOf(task[p].documents))]
  /\ UNCHANGED <<begun, batch, source, faults>>

\* The transaction is rolled back, or committed though its reply is lost: the
\* import is failed either way.
PersistFails(p) ==
  /\ Fault
  /\ \/ task[p].step = "persist" /\ UNCHANGED <<raw, public>>
     \/ Store(p)
  /\ Goto(p, "fail")
  /\ UNCHANGED <<begun, batch, source>>

\* terminal_state: partial when a row could not be normalized.
FinalState(result) ==
  IF result.rejected > 0 THEN "partially_succeeded" ELSE "succeeded"

End(p, state, counts) ==
  /\ batch' = [batch EXCEPT ![task[p].import] = [state |-> state, counts |-> counts]]
  /\ source' = IF state = "failed" THEN "error" ELSE "fine"
  /\ task' = [task EXCEPT ![p] = IdleTask]
  /\ UNCHANGED <<begun, raw, public, faults>>

\* The batch, its run and the status of the source change in one transaction.
Finish(p) ==
  /\ task[p].step = "finish"
  /\ End(p, FinalState(task[p].result), task[p].result)

FinalizeFailure(p) ==
  /\ task[p].step = "fail"
  /\ End(p, "failed", Zero)

\* The batch cannot be finished, or the process stops: the batch stays as it
\* is, marked as running.
Stop(p) ==
  /\ Fault
  /\ task[p].step # "idle"
  /\ task' = [task EXCEPT ![p] = IdleTask]
  /\ UNCHANGED <<begun, batch, raw, public, source>>

Step(p) == Fetch(p) \/ Persist(p) \/ Finish(p) \/ FinalizeFailure(p)

Next ==
  \E p \in Importers :
    \/ Begin(p)
    \/ Fetch(p)
    \/ FetchFails(p)
    \/ Persist(p)
    \/ PersistFails(p)
    \/ Finish(p)
    \/ FinalizeFailure(p)
    \/ Stop(p)

Spec == Init /\ [][Next]_vars

\* An import that was begun goes on until the process stops.
FairSpec == Spec /\ \A p \in Importers : WF_vars(Step(p))
-----------------------------------------------------------------------------
Ended(i) == batch[i].state \in {"succeeded", "partially_succeeded", "failed"}

\* The credits, one for each observation inserted, that the ended batches
\* report and that imports not yet finished have committed.
Finishing == {p \in Importers : task[p].step = "finish"}
Reported == UNION {{i} \X (1..batch[i].counts.inserted) : i \in Imports}
Committed == UNION {{p} \X (1..task[p].result.inserted) : p \in Finishing}
Credited == Cardinality(Reported) + Cardinality(Committed)

\* Every row received is inserted, ignored or rejected, and no row is two of
\* these (the counters of persist_firms_import).
RowsAccounted ==
  \A i \in Imports :
    LET c == batch[i].counts IN c.received = c.inserted + c.ignored + c.rejected

\* However the imports of two tasks interleave, a public observation is
\* credited to one import at most, and to one exactly unless a fault lost the
\* result of a transaction (rows_affected of the two ON CONFLICT clauses).
CreditedOnce ==
  /\ Credited <= Cardinality(public)
  /\ faults = 0 => Credited = Cardinality(public)

\* A transaction leaves every detection of the retrieval raw in its own batch,
\* also those another import had stored first, and public once: what is public
\* can be traced to a batch.
RetrievalKept ==
  /\ \A p \in Finishing :
       LET i == task[p].import
           kept == {r.key : r \in raw[i]}
           rows == RowsOf(task[p].documents)
           read == {rows[n].key : n \in DOMAIN rows}
       IN kept = read /\ read \ {Unreadable} \subseteq public
  /\ public \subseteq {r.key : r \in UNION {raw[i] : i \in Imports}}

\* What a batch says of itself agrees with its raw rows: it is partial when one
\* of them is unreadable, whole when none is, and a failed one has no raw rows
\* unless the reply of its transaction was lost.
StateMatchesRows ==
  \A i \in Imports :
    LET unreadable == \E r \in raw[i] : r.key = Unreadable
    IN /\ batch[i].state = "partially_succeeded" => unreadable
       /\ batch[i].state = "succeeded" => ~unreadable
       /\ batch[i].state = "failed" /\ faults = 0 => raw[i] = {}

\* A batch says of its retrieval what became of it: its counts, its state and
\* its raw rows agree, whatever was stored by others meanwhile.
BatchesHonest == TypeOK /\ RowsAccounted /\ RetrievalKept /\ StateMatchesRows

\* The batch of an import that no fault interrupts ends.
ImportsEnd ==
  \A i \in Imports : batch[i].state = "running" ~> (Ended(i) \/ faults > 0)
=============================================================================
