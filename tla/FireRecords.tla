---------------------------- MODULE FireRecords ----------------------------
(***************************************************************************)
(* The official fire records: BDIFF files are imported into raw, staging   *)
(* and fire tables, and a quality audit stores an immutable assessment of  *)
(* the events it read.  Imports and audits are commands; several may run,  *)
(* and an audit computes from what it read some statements ago.            *)
(*                                                                         *)
(* An operator defined just before another, with a longer form of its name *)
(* is that operator with a mistake in it.                                  *)
(***************************************************************************)
EXTENDS Naturals, Sequences, FiniteSets

CONSTANTS
  Imports,      \* runs of the import command
  FileOf,       \* the rows of the file of an import
  Ids,          \* source_record_id values
  None,
  Audits,       \* runs of the audit command
  ScopeOf,      \* the identifiers an audit's year or record filter selects
  RulesOf,      \* the version of the rules in the code of an audit
  Twins,        \* pairs of identifiers that are duplicate candidates
  MaxFaults,    \* bound on failed calls and stopped commands
  MaxRefresh    \* bound on refreshes of the static layers

ASSUME FilesAssumption ==
  \A i \in Imports :
    /\ FileOf[i] \in Seq({FileOf[i][l] : l \in DOMAIN FileOf[i]})
    /\ \A l \in DOMAIN FileOf[i] :
         /\ FileOf[i][l].id \in Ids \cup {None}
         /\ FileOf[i][l].valid => FileOf[i][l].id # None

\* None is no event and no assessment.
ASSUME RecordsAssumption ==
  /\ IsFiniteSet(Ids) /\ None \notin Ids
  /\ \A i \in Imports : \A l \in DOMAIN FileOf[i] :
       None \notin [batch : {i}, line : {l}, place : {FileOf[i][l].place}]
  /\ None \notin [count : Nat, layers : Nat]
  /\ \A t \in Twins : t \subseteq Ids
  /\ \A a \in Audits : ScopeOf[a] \subseteq Ids

VARIABLES
  import,     \* progress of an import and what it has counted
  ledger,     \* ops.import_batches: status and counters
  raw,        \* raw.bdiff_records with their staging rows: <<import, line>>
  events,     \* fire.ignition_events by identifier
  layers,     \* version of cell_static
  rules,      \* validation.rule_versions: the registered version
  audit,      \* progress of an audit and what it has read
  groups,     \* validation.coordinate_groups: event count of a place, or 0
  assessed,   \* the label, geographic and combustibility assessments of an event
  pairs,      \* the duplicate pairs and groups
  faults

vars == <<import, ledger, raw, events, layers, rules, audit, groups, assessed, pairs, faults>>
importing == <<import, ledger, raw, events>>
auditing == <<rules, audit, groups, assessed, pairs>>

Rows(i) == DOMAIN FileOf[i]
Row(i, l) == FileOf[i][l]
Places == UNION {{Row(i, l).place : l \in Rows(i)} : i \in Imports}

NoCount == [received |-> 0, created |-> 0, ignored |-> 0, rejected |-> 0]

Init ==
  /\ import = [i \in Imports |-> [step |-> "begin", count |-> NoCount]]
  /\ ledger = [i \in Imports |-> [status |-> "none", count |-> NoCount]]
  /\ raw = {}
  /\ events = [e \in Ids |-> None]
  /\ layers = 0
  /\ rules = None
  /\ audit = [a \in Audits |-> [step |-> "read", seen |-> <<>>, layers |-> 0]]
  /\ groups = [p \in Places |-> 0]
  /\ assessed = [e \in Ids |-> None]
  /\ pairs = [t \in Twins |-> None]
  /\ faults = 0

-----------------------------------------------------------------------------
(* The import.                                                             *)

BeginImport(i) ==
  /\ import[i].step = "begin"
  /\ import' = [import EXCEPT ![i].step = "persist"]
  /\ ledger' = [ledger EXCEPT ![i].status = "running"]
  /\ UNCHANGED <<raw, events, layers, auditing, faults>>

\* The file cannot be read or decoded.
ReadFails(i) ==
  /\ import[i].step = "persist"
  /\ faults < MaxFaults /\ faults' = faults + 1
  /\ import' = [import EXCEPT ![i].step = "fail"]
  /\ UNCHANGED <<ledger, raw, events, layers, auditing>>

\* A row is inserted unless an earlier row of the batch has its identifier.
NewRows(i) ==
  {l \in Rows(i) : \A k \in 1..(l - 1) : Row(i, k).id = None \/ Row(i, k).id # Row(i, l).id}

ValidRows(i) == {l \in NewRows(i) : Row(i, l).valid}

CreatedRowsAnew(i) == ValidRows(i)

\* ON CONFLICT (source_id, source_record_id) DO NOTHING.
CreatedRows(i) == {l \in ValidRows(i) : events[Row(i, l).id] = None}

Counted(i) ==
  [received |-> Len(FileOf[i]),
   created  |-> Cardinality(CreatedRows(i)),
   ignored  |-> Len(FileOf[i]) - Cardinality(NewRows(i))
                  + Cardinality(ValidRows(i) \ CreatedRows(i)),
   rejected |-> Cardinality(NewRows(i) \ ValidRows(i))]

Stored(i) ==
  /\ raw' = raw \cup ({i} \X NewRows(i))
  /\ events' = [e \in Ids |->
       IF \E l \in CreatedRows(i) : Row(i, l).id = e
       THEN LET l == CHOOSE l \in CreatedRows(i) : Row(i, l).id = e
            IN [batch |-> i, line |-> l, place |-> Row(i, l).place]
       ELSE events[e]]

\* One transaction over the three layers.
Persist(i) ==
  /\ import[i].step = "persist"
  /\ Stored(i)
  /\ import' = [import EXCEPT ![i] = [step |-> "finish", count |-> Counted(i)]]
  /\ UNCHANGED <<ledger, layers, auditing, faults>>

\* The transaction is rolled back, or it is committed and the reply is lost.
PersistFails(i) ==
  /\ import[i].step = "persist"
  /\ faults < MaxFaults /\ faults' = faults + 1
  /\ Stored(i) \/ UNCHANGED <<raw, events>>
  /\ import' = [import EXCEPT ![i].step = "fail"]
  /\ UNCHANGED <<ledger, layers, auditing>>

\* A failure is recorded without counters.
Finished(i) ==
  IF import[i].step = "fail"
  THEN [status |-> "failed", count |-> NoCount]
  ELSE [status |-> IF import[i].count.rejected > 0 THEN "partially_succeeded" ELSE "succeeded",
        count |-> import[i].count]

FinishImport(i) ==
  /\ import[i].step \in {"finish", "fail"}
  /\ ledger' = [ledger EXCEPT ![i] = Finished(i)]
  /\ import' = [import EXCEPT ![i].step = "done"]
  /\ UNCHANGED <<raw, events, layers, auditing, faults>>

\* The last call fails or the command stops: the batch stays running.
ImportStops(i) ==
  /\ import[i].step \in {"persist", "finish", "fail"}
  /\ faults < MaxFaults /\ faults' = faults + 1
  /\ import' = [import EXCEPT ![i].step = "done"]
  /\ UNCHANGED <<ledger, raw, events, layers, auditing>>

-----------------------------------------------------------------------------
(* The audit.                                                              *)

\* The static layers are refreshed by the server.
RefreshLayers ==
  /\ layers < MaxRefresh
  /\ layers' = layers + 1
  /\ UNCHANGED <<importing, auditing, faults>>

Go(a, step) ==
  audit' = [audit EXCEPT ![a] =
    IF step = "done" THEN [step |-> step, seen |-> <<>>, layers |-> 0]
    ELSE [@ EXCEPT !.step = step]]

CountAt(p) == Cardinality({e \in Ids : events[e] # None /\ events[e].place = p})

SelectedCountAt(a, p) ==
  Cardinality({e \in ScopeOf[a] : events[e] # None /\ events[e].place = p})

\* The events of the scope; those that share a coordinate are counted over all.
SeenInScope(a) ==
  [e \in {x \in ScopeOf[a] : events[x] # None} |->
    [place |-> events[e].place, count |-> SelectedCountAt(a, events[e].place)]]

Seen(a) ==
  [e \in {x \in ScopeOf[a] : events[x] # None} |->
    [place |-> events[e].place, count |-> CountAt(events[e].place)]]

ReadEvents(a) ==
  /\ audit[a].step = "read"
  /\ audit' = [audit EXCEPT ![a] = [step |-> "layers", seen |-> Seen(a), layers |-> 0]]
  /\ UNCHANGED <<importing, layers, rules, groups, assessed, pairs, faults>>

ReadLayers(a) ==
  /\ audit[a].step = "layers"
  /\ audit' = [audit EXCEPT ![a].step = "rules", ![a].layers = layers]
  /\ UNCHANGED <<importing, layers, rules, groups, assessed, pairs, faults>>

\* A dry run reports and ends.
DryRun(a) ==
  /\ audit[a].step = "rules"
  /\ Go(a, "done")
  /\ UNCHANGED <<importing, layers, rules, groups, assessed, pairs, faults>>

\* A rule is registered once; an audit whose code has another one is refused.
ReadRules(a) ==
  /\ audit[a].step = "rules"
  /\ Go(a, CASE rules = None -> "register"
             [] rules = RulesOf[a] -> "persist"
             [] OTHER -> "refused")
  /\ UNCHANGED <<importing, layers, rules, groups, assessed, pairs, faults>>

\* The name of a rule is unique: of two audits that found none, one fails.
RegisterRules(a) ==
  /\ audit[a].step = "register"
  /\ IF rules = None
     THEN rules' = RulesOf[a] /\ Go(a, "persist")
     ELSE rules' = rules /\ Go(a, "done")
  /\ UNCHANGED <<importing, layers, groups, assessed, pairs, faults>>

SeenBy(a) == audit[a].seen
GroupSeen(a, p) == (CHOOSE e \in DOMAIN SeenBy(a) : SeenBy(a)[e].place = p)

\* Stored groups are kept, and an event must find the group it was computed
\* with: another audit may have stored that place with another count.
GroupsFound(a) ==
  \A e \in DOMAIN SeenBy(a) : groups[SeenBy(a)[e].place] \in {0, SeenBy(a)[e].count}

GroupsKept(a) ==
  groups' = [p \in Places |->
    IF groups[p] = 0 /\ \E e \in DOMAIN SeenBy(a) : SeenBy(a)[e].place = p
    THEN SeenBy(a)[GroupSeen(a, p)].count ELSE groups[p]]

Assessment(a, e) == [count |-> SeenBy(a)[e].count, layers |-> audit[a].layers]

AssessmentsReplaced(a) ==
  assessed' = [e \in Ids |-> IF e \in DOMAIN SeenBy(a) THEN Assessment(a, e) ELSE assessed[e]]

\* ON CONFLICT DO NOTHING.
AssessmentsKept(a) ==
  assessed' = [e \in Ids |->
    IF e \in DOMAIN SeenBy(a) /\ assessed[e] = None THEN Assessment(a, e) ELSE assessed[e]]

Pair(a, t) == [e \in t |-> SeenBy(a)[e].count]

\* A stored pair is kept; the members of its group refer to the stored pair if
\* it has the checksum that was just computed.
PairsKept(a) ==
  pairs' = [t \in Twins |->
    IF t \subseteq DOMAIN SeenBy(a) /\ pairs[t] = None
    THEN [signals |-> Pair(a, t)] ELSE pairs[t]]

\* One transaction.
PersistAudit(a) ==
  /\ audit[a].step = "persist"
  /\ IF GroupsFound(a)
     THEN GroupsKept(a) /\ AssessmentsKept(a) /\ PairsKept(a) /\ Go(a, "done")
     ELSE UNCHANGED <<groups, assessed, pairs>> /\ Go(a, "refused")
  /\ UNCHANGED <<importing, layers, rules, faults>>

\* A call fails, its transaction rolled back, or the command stops.
AuditStops(a) ==
  /\ audit[a].step \in {"layers", "rules", "register", "persist"}
  /\ faults < MaxFaults /\ faults' = faults + 1
  /\ Go(a, "done")
  /\ UNCHANGED <<importing, layers, rules, groups, assessed, pairs>>

Next ==
  \/ \E i \in Imports :
       \/ BeginImport(i)
       \/ ReadFails(i)
       \/ Persist(i)
       \/ PersistFails(i)
       \/ FinishImport(i)
       \/ ImportStops(i)
  \/ RefreshLayers
  \/ \E a \in Audits :
       \/ ReadEvents(a)
       \/ ReadLayers(a)
       \/ DryRun(a)
       \/ ReadRules(a)
       \/ RegisterRules(a)
       \/ PersistAudit(a)
       \/ AuditStops(a)

Spec == Init /\ [][Next]_vars

-----------------------------------------------------------------------------
\* The counters of a batch account for every row of its file and agree with
\* the tables, whatever other imports stored meanwhile; a batch that is
\* reported as successful has stored all its rows.
ImportAccounted ==
  \A i \in Imports : LET c == ledger[i].count IN
    ledger[i].status \in {"succeeded", "partially_succeeded"} =>
      /\ c.received = Len(FileOf[i])
      /\ c.received = c.created + c.ignored + c.rejected
      /\ c.created = Cardinality({e \in Ids : events[e] # None /\ events[e].batch = i})
      /\ (ledger[i].status = "succeeded") = (\A l \in Rows(i) : <<i, l>> \in raw => Row(i, l).valid)
      /\ \A l \in Rows(i) : Row(i, l).valid =>
           \/ events[Row(i, l).id] # None
           \/ \E k \in 1..(l - 1) : Row(i, k).id = Row(i, l).id /\ ~Row(i, k).valid

\* What audits stored belongs together, although they read and store at
\* different times: an event, the group of its place with the same count, and
\* pairs computed from the stored assessments.  A group counts the events its
\* place had when it was first audited: all that are assessed, none that came later.
AuditsAgree ==
  /\ \A e \in Ids : assessed[e] # None =>
       events[e] # None /\ assessed[e].count = groups[events[e].place]
  /\ \A t \in Twins : pairs[t] # None =>
       \A e \in t : assessed[e] # None /\ pairs[t].signals[e] = assessed[e].count
  /\ \A p \in Places :
       /\ groups[p] <= CountAt(p)
       /\ groups[p] >= Cardinality({e \in Ids : assessed[e] # None /\ events[e].place = p})

RecordsKept ==
  /\ raw \subseteq raw'
  /\ \A e \in Ids : events[e] # None => events'[e] = events[e]
  /\ \A e \in Ids : assessed[e] # None => assessed'[e] = assessed[e]
  /\ \A t \in Twins : pairs[t] # None => pairs'[t] = pairs[t]
  /\ \A p \in Places : groups[p] # 0 => groups'[p] = groups[p]

\* Records and assessments are append-only: a later file or audit with other
\* values for the same event, place or pair changes nothing.
RecordsFinal == [][RecordsKept]_vars

\* An audit is refused only for rules of another version, or for a place whose
\* events increased in number since it was grouped, or during the audit.
RefusedForCause ==
  \A a \in Audits : audit[a].step = "refused" =>
    \/ rules # RulesOf[a]
    \/ \E e \in DOMAIN SeenBy(a) :
         groups[events[e].place] # SeenBy(a)[e].count
=============================================================================
