------------------------- MODULE FirmsImportProofs -------------------------
(***************************************************************************)
(* Proofs about FirmsImport, for any importers, retrievals and faults:     *)
(* whatever the imports of several tasks do to each other's rows, and      *)
(* wherever a process stops, a batch says of its retrieval what became of  *)
(* it (BatchesHonest), and no public observation is credited twice, or to  *)
(* none unless a fault lost the result of a transaction (CreditedOnce).    *)
(***************************************************************************)
EXTENDS FirmsImport, FiniteSetTheorems, TLAPS

Words == Detections \cup {Unreadable}
Retrievals == Seq(Seq(Words))
RawRow == [id : Nat \cup Detections, key : Words]
Steps == {"idle", "fetch", "persist", "finish", "fail"}
Tasks == [step : Steps, import : 0..MaxImports, documents : Retrievals, result : Counts]

\* The types, those of the rows included.
StateTypes ==
  /\ begun \in 0..MaxImports
  /\ batch \in [Imports -> [state : States, counts : Counts]]
  /\ raw \in [Imports -> SUBSET RawRow]
  /\ public \subseteq Detections
  /\ source \in {"none", "fine", "error"}
  /\ task \in [Importers -> Tasks]
  /\ faults \in 0..MaxFaults

\* A task at work has a batch of its own, which is running.
OwnBatch ==
  /\ \A p \in Importers : task[p].step # "idle" =>
       task[p].import \in 1..begun /\ batch[task[p].import].state = "running"
  /\ \A p, q \in Importers :
       p # q /\ task[p].step # "idle" /\ task[q].step # "idle" => task[p].import # task[q].import
  /\ \A i \in Imports : i > begun => batch[i].state = "none" /\ raw[i] = {}

\* Nothing is stored of a batch before its transaction, and only a lost reply
\* leaves rows to a batch that will fail.
RawInv ==
  \A p \in Importers :
    /\ task[p].step \in {"fetch", "persist"} => raw[task[p].import] = {}
    /\ task[p].step = "fail" /\ faults = 0 => raw[task[p].import] = {}

Adds(c) == c.received = c.inserted + c.ignored + c.rejected
KeysOf(rows) == {rows[n].key : n \in DOMAIN rows}
Kept(i) == {r.key : r \in raw[i]}

\* What a task knows at the end of its transaction is what its batch has.
FinishInv ==
  \A p \in Importers : task[p].step = "finish" =>
    /\ Adds(task[p].result)
    /\ Kept(task[p].import) = KeysOf(RowsOf(task[p].documents))
    /\ KeysOf(RowsOf(task[p].documents)) \ {Unreadable} \subseteq public
    /\ task[p].result.rejected > 0 <=> Unreadable \in Kept(task[p].import)

Traced == \A k \in public : \E i \in Imports : k \in Kept(i)

ImportInv ==
  /\ StateTypes /\ OwnBatch /\ RawInv /\ FinishInv /\ Traced
  /\ RowsAccounted /\ StateMatchesRows

-----------------------------------------------------------------------------
(* The rows of one retrieval.                                              *)

\* The rows of a retrieval are finitely many, and their identities tell the
\* readable from the unreadable.
LEMMA RowsShape ==
  ASSUME NEW documents \in Retrievals, NEW rows, rows = RowsOf(documents)
  PROVE  /\ IsFiniteSet(DOMAIN rows)
         /\ DOMAIN rows \subseteq Nat \X Nat
         /\ rows \in [DOMAIN rows -> RawRow]
         /\ \A n \in DOMAIN rows : rows[n].key # Unreadable => rows[n].id = rows[n].key
         /\ \A n \in DOMAIN rows : rows[n].key = Unreadable => rows[n].id \in Nat
<1> DEFINE places == {{k} \X DOMAIN documents[k] : k \in DOMAIN documents}
           key(n) == documents[n[1]][n[2]]
<1>1. /\ DOMAIN documents = 1..Len(documents) /\ Len(documents) \in Nat
      /\ \A k \in DOMAIN documents :
           /\ documents[k] \in Seq(Words)
           /\ DOMAIN documents[k] = 1..Len(documents[k]) /\ Len(documents[k]) \in Nat
  BY DEF Retrievals
<1>2. \A k \in DOMAIN documents : IsFiniteSet({k} \X DOMAIN documents[k])
  <2> TAKE k \in DOMAIN documents
  <2>1. IsFiniteSet(DOMAIN documents[k])
    BY <1>1, FS_Interval
  <2>2. IsFiniteSet({k})
    BY FS_Singleton
  <2> QED
    BY <2>1, <2>2, FS_Product
<1>3. IsFiniteSet(places)
  <2> DEFINE f == [k \in DOMAIN documents |-> {k} \X DOMAIN documents[k]]
  <2>1. f \in Surjection(DOMAIN documents, places)
    BY DEF Surjection
  <2>2. IsFiniteSet(DOMAIN documents)
    BY <1>1, FS_Interval
  <2> QED
    BY <2>1, <2>2, FS_Surjection
<1>4. IsFiniteSet(UNION places)
  BY <1>2, <1>3, FS_UNION
<1>5. rows = [n \in UNION places |->
               [id |-> IF key(n) = Unreadable THEN n[2] ELSE key(n), key |-> key(n)]]
  BY DEF RowsOf
<1>6. \A n \in UNION places :
        n \in Nat \X Nat /\ n[1] \in DOMAIN documents /\ n[2] \in DOMAIN documents[n[1]]
  BY <1>1
<1>7. \A n \in UNION places : key(n) \in Words
  BY <1>1, <1>6
<1>8. \A n \in UNION places : rows[n] \in RawRow
  BY <1>5, <1>6, <1>7 DEF RawRow, Words
<1>9. DOMAIN rows = UNION places
  BY <1>5
<1>10. rows \in [DOMAIN rows -> RawRow]
  BY <1>5, <1>8, <1>9
<1>11. \A n \in DOMAIN rows :
         /\ rows[n].key # Unreadable => rows[n].id = rows[n].key
         /\ rows[n].key = Unreadable => rows[n].id \in Nat
  <2> TAKE n \in DOMAIN rows
  <2>1. n[2] \in Nat
    BY <1>6, <1>9
  <2>2. /\ rows[n].id = IF key(n) = Unreadable THEN n[2] ELSE key(n)
        /\ rows[n].key = key(n)
    BY <1>5, <1>9
  <2> HIDE DEF key
  <2> QED
    BY <2>1, <2>2
<1> HIDE DEF places, key
<1> QED
  BY <1>4, <1>6, <1>9, <1>10, <1>11

\* Of the rows that share an identity there is a first.
LEMMA FirstExists ==
  ASSUME NEW rows, IsFiniteSet(DOMAIN rows), DOMAIN rows \subseteq Nat \X Nat,
         NEW n \in DOMAIN rows
  PROVE  \E m \in First(rows) : rows[m].id = rows[n].id
<1> DEFINE same == {m \in DOMAIN rows : rows[m].id = rows[n].id}
           before(m) == {k \in same : Earlier(k, m)}
           all == {before(m) : m \in same}
<1>1. IsFiniteSet(same) /\ n \in same /\ same \subseteq Nat \X Nat
  BY FS_Subset
<1>2. all \subseteq FiniteSubsetsOf(same) /\ all # {}
  <2>1. \A m \in same : before(m) \subseteq same /\ IsFiniteSet(before(m))
    BY <1>1, FS_Subset
  <2>2. \A m \in same : before(m) \in FiniteSubsetsOf(same)
    <3> HIDE DEF before, same
    <3> QED
      BY <2>1 DEF FiniteSubsetsOf
  <2> HIDE DEF before, same
  <2> QED
    BY <1>1, <2>2
<1>3. PICK T \in all : \A U \in all : <<U, T>> \notin StrictSubsetOrdering(same)
  <2>1. IsWellFoundedOn(StrictSubsetOrdering(same), FiniteSubsetsOf(same))
    BY FS_StrictSubsetOrderingWellFounded
  <2> HIDE DEF all, same
  <2> QED
    BY <1>2, <2>1, WFMin
<1>4. PICK m \in same : T = before(m)
  BY <1>3
<1>5. ASSUME NEW k \in DOMAIN rows, Earlier(k, m), rows[k].id = rows[m].id PROVE FALSE
  <2>1. k \in same /\ k \in before(m)
    BY <1>4, <1>5
  <2>2. before(k) \subseteq before(m) /\ k \notin before(k)
    BY <1>1, <1>5, <2>1 DEF Earlier
  <2>3. <<before(k), before(m)>> \in StrictSubsetOrdering(same)
    BY <2>1, <2>2 DEF StrictSubsetOrdering
  <2> QED
    BY <1>3, <1>4, <2>1, <2>3
<1> QED
  BY <1>4, <1>5 DEF First

\* The raw rows have every key of the retrieval.
LEMMA KeysKept ==
  ASSUME NEW documents \in Retrievals, NEW rows, rows = RowsOf(documents)
  PROVE  /\ {rows[n].key : n \in RawRows(rows)} = KeysOf(rows)
         /\ {rows[n] : n \in RawRows(rows)} \subseteq RawRow
         /\ KeysOf(rows) \subseteq Words
<1>1. /\ IsFiniteSet(DOMAIN rows) /\ DOMAIN rows \subseteq Nat \X Nat
      /\ \A n \in DOMAIN rows : rows[n] \in RawRow
      /\ \A n \in DOMAIN rows : rows[n].key # Unreadable => rows[n].id = rows[n].key
      /\ \A n \in DOMAIN rows : rows[n].key = Unreadable => rows[n].id \in Nat
  BY RowsShape
<1>2. ASSUME NEW n \in DOMAIN rows
      PROVE  \E m \in RawRows(rows) : rows[m].key = rows[n].key
  <2>1. PICK m \in First(rows) : rows[m].id = rows[n].id
    BY <1>1, FirstExists
  <2>2. m \in DOMAIN rows
    BY DEF First
  <2>3. rows[m].key \in Words /\ rows[n].key \in Words
    BY <1>1, <2>2 DEF RawRow
  <2>4. rows[m].key = rows[n].key
    BY <1>1, <2>1, <2>2, <2>3, RowsAssumption DEF Words
  <2> QED
    BY <2>4 DEF RawRows
<1>3. RawRows(rows) \subseteq DOMAIN rows
  BY DEF RawRows, First
<1> QED
  BY <1>1, <1>2, <1>3 DEF KeysOf, RawRow

LEMMA RestOf ==
  ASSUME NEW S, IsFiniteSet(S), NEW T \in SUBSET S
  PROVE  IsFiniteSet(S \ T) /\ Cardinality(S \ T) = Cardinality(S) - Cardinality(T)
<1>1. S \cap T = T
  OBVIOUS
<1> QED
  BY <1>1, FS_Difference

\* The counters of a transaction add up, and it rejects what is unreadable.
LEMMA ResultAdds ==
  ASSUME StateTypes, NEW documents \in Retrievals, NEW rows, rows = RowsOf(documents)
  PROVE  /\ Result(rows) \in Counts /\ Adds(Result(rows))
         /\ Result(rows).rejected > 0 <=> Unreadable \in KeysOf(rows)
<1> DEFINE all == DOMAIN rows
           kept == RawRows(rows)
           good == Readable(rows)
           new == PublicRows(rows)
<1>1. IsFiniteSet(all) /\ kept \subseteq all /\ good \subseteq kept /\ new \subseteq good
  BY RowsShape DEF RawRows, First, Readable, PublicRows
<1>2. IsFiniteSet(kept) /\ IsFiniteSet(good) /\ IsFiniteSet(new)
  BY <1>1, FS_Subset
<1>3. /\ Cardinality(all \ kept) = Cardinality(all) - Cardinality(kept)
      /\ Cardinality(kept \ good) = Cardinality(kept) - Cardinality(good)
      /\ Cardinality(good \ new) = Cardinality(good) - Cardinality(new)
      /\ IsFiniteSet(all \ kept) /\ IsFiniteSet(kept \ good) /\ IsFiniteSet(good \ new)
  <2> HIDE DEF all, kept, good, new
  <2>1. IsFiniteSet(all \ kept) /\ Cardinality(all \ kept) = Cardinality(all) - Cardinality(kept)
    BY <1>1, RestOf
  <2>2. /\ IsFiniteSet(kept \ good)
        /\ Cardinality(kept \ good) = Cardinality(kept) - Cardinality(good)
    BY <1>1, <1>2, RestOf
  <2>3. IsFiniteSet(good \ new) /\ Cardinality(good \ new) = Cardinality(good) - Cardinality(new)
    BY <1>1, <1>2, RestOf
  <2> QED
    BY <2>1, <2>2, <2>3
<1>4. /\ Cardinality(all) \in Nat /\ Cardinality(kept) \in Nat /\ Cardinality(good) \in Nat
      /\ Cardinality(new) \in Nat /\ Cardinality(all \ kept) \in Nat
      /\ Cardinality(kept \ good) \in Nat /\ Cardinality(good \ new) \in Nat
  BY <1>1, <1>2, <1>3, FS_CardinalityType
<1>5. Result(rows) = [received |-> Cardinality(all), inserted |-> Cardinality(new),
                      ignored |-> Cardinality(all \ kept) + Cardinality(good \ new),
                      rejected |-> Cardinality(kept \ good)]
  BY DEF Result
<1>6. Cardinality(kept \ good) > 0 <=> Unreadable \in KeysOf(rows)
  <2>1. kept \ good # {} <=> Unreadable \in {rows[n].key : n \in kept}
    BY DEF Readable
  <2>2. Cardinality(kept \ good) = 0 <=> kept \ good = {}
    BY <1>3, FS_EmptySet
  <2> QED
    BY <1>4, <2>1, <2>2, KeysKept
<1> HIDE DEF all, kept, good, new
<1> QED
  BY <1>3, <1>4, <1>5, <1>6 DEF Counts, Adds

-----------------------------------------------------------------------------
(* The steps.                                                              *)

LEMMA TypesStep ==
  ASSUME StateTypes, OwnBatch, [Next]_vars
  PROVE  StateTypes'
<1>1. Zero \in Counts /\ <<>> \in Retrievals
  BY DEF Zero, Counts, Retrievals
<1>2. IdleTask \in Tasks
  BY <1>1, BoundsAssumption DEF IdleTask, Tasks, Steps
<1>3. ASSUME NEW p \in Importers, Begin(p) PROVE StateTypes'
  <2>1. begun + 1 \in 1..MaxImports
    BY <1>3, BoundsAssumption DEF Begin, StateTypes
  <2>2. begun + 1 \in 0..MaxImports
    BY <2>1, BoundsAssumption
  <2>3. task' \in [Importers -> Tasks]
    <3>1. [task[p] EXCEPT !.step = "fetch", !.import = begun + 1] \in Tasks
      BY <2>2 DEF StateTypes, Tasks, Steps
    <3> QED
      BY <1>3, <3>1 DEF Begin, StateTypes
  <2>4. batch' \in [Imports -> [state : States, counts : Counts]]
    <3>1. [batch[begun + 1] EXCEPT !.state = "running"] \in [state : States, counts : Counts]
      BY <2>1 DEF StateTypes, States, Imports
    <3>2. batch' = [batch EXCEPT ![begun + 1] = [batch[begun + 1] EXCEPT !.state = "running"]]
      BY <1>3 DEF Begin
    <3> QED
      BY <3>1, <3>2 DEF StateTypes
  <2> QED
    BY <1>3, <2>1, <2>3, <2>4, BoundsAssumption DEF Begin, StateTypes
<1>4. ASSUME NEW p \in Importers, Fetch(p) PROVE StateTypes'
  <2>1. PICK d \in Retrieved[p] : task' = [task EXCEPT ![p].step = "persist", ![p].documents = d]
    BY <1>4 DEF Fetch
  <2>2. d \in Retrievals
    BY RowsAssumption DEF Retrievals, Words
  <2>3. [task[p] EXCEPT !.step = "persist", !.documents = d] \in Tasks
    BY <2>2 DEF StateTypes, Tasks, Steps
  <2>4. task' \in [Importers -> Tasks]
    BY <2>1, <2>3 DEF StateTypes
  <2> QED
    BY <1>4, <2>4 DEF Fetch, StateTypes
<1>5. ASSUME NEW p \in Importers, FetchFails(p) PROVE StateTypes'
  <2>1. task' \in [Importers -> Tasks]
    BY <1>5 DEF FetchFails, Goto, StateTypes, Tasks, Steps
  <2> QED
    BY <1>5, <2>1 DEF FetchFails, StateTypes
<1>6. ASSUME NEW p \in Importers, Store(p)
      PROVE  raw' \in [Imports -> SUBSET RawRow] /\ public' \subseteq Detections
  <2> DEFINE rows == RowsOf(task[p].documents)
  <2>1. task[p].documents \in Retrievals /\ task[p].import \in Imports
    BY <1>6 DEF StateTypes, Tasks, OwnBatch, Store, Imports
  <2>2. {rows[n] : n \in RawRows(rows)} \subseteq RawRow /\ KeysOf(rows) \subseteq Words
    BY <2>1, KeysKept
  <2>3. {rows[n].key : n \in PublicRows(rows)} \subseteq Detections
    BY <2>2 DEF PublicRows, Readable, RawRows, First, KeysOf, Words
  <2> HIDE DEF rows
  <2>4. raw' \in [Imports -> SUBSET RawRow]
    BY <1>6, <2>1, <2>2 DEF Store, StateTypes, rows
  <2> QED
    BY <1>6, <2>3, <2>4 DEF Store, StateTypes, rows
<1>7. ASSUME NEW p \in Importers, Persist(p) PROVE StateTypes'
  <2>1. Result(RowsOf(task[p].documents)) \in Counts
    BY ResultAdds, <1>7 DEF StateTypes, Tasks
  <2>2. [task[p] EXCEPT !.step = "finish", !.result = Result(RowsOf(task[p].documents))]
          \in Tasks
    BY <1>7, <2>1 DEF StateTypes, Tasks, Steps
  <2>3. task' \in [Importers -> Tasks]
    BY <1>7, <2>2 DEF Persist, StateTypes
  <2> QED
    BY <1>6, <1>7, <2>3 DEF Persist, StateTypes
<1>8. ASSUME NEW p \in Importers, PersistFails(p) PROVE StateTypes'
  <2>1. task' \in [Importers -> Tasks]
    BY <1>8 DEF PersistFails, Goto, StateTypes, Tasks, Steps
  <2>2. raw' \in [Imports -> SUBSET RawRow] /\ public' \subseteq Detections
    BY <1>6, <1>8 DEF PersistFails, StateTypes
  <2> QED
    BY <1>8, <2>1, <2>2, BoundsAssumption DEF PersistFails, Fault, StateTypes
<1>9. ASSUME NEW p \in Importers, NEW state \in States, NEW counts \in Counts,
             End(p, state, counts)
      PROVE  StateTypes'
  <2>1. batch' \in [Imports -> [state : States, counts : Counts]]
    BY <1>9 DEF End, StateTypes
  <2>2. task' \in [Importers -> Tasks]
    BY <1>2, <1>9 DEF End, StateTypes
  <2> QED
    BY <1>9, <2>1, <2>2 DEF End, StateTypes
<1>10. ASSUME NEW p \in Importers, Finish(p) PROVE StateTypes'
  BY <1>9, <1>10 DEF Finish, FinalState, States, StateTypes, Tasks
<1>11. ASSUME NEW p \in Importers, FinalizeFailure(p) PROVE StateTypes'
  BY <1>1, <1>9, <1>11 DEF FinalizeFailure, States
<1>12. ASSUME NEW p \in Importers, Stop(p) PROVE StateTypes'
  <2>1. task' \in [Importers -> Tasks]
    BY <1>2, <1>12 DEF Stop, StateTypes
  <2> QED
    BY <1>12, <2>1, BoundsAssumption DEF Stop, Fault, StateTypes
<1>13. CASE UNCHANGED vars
  BY <1>13 DEF vars, StateTypes
<1> QED
  BY <1>3, <1>4, <1>5, <1>7, <1>8, <1>10, <1>11, <1>12, <1>13 DEF Next

\* A step is of one task and of its own batch; what is public stays so.
LEMMA OneMoves ==
  ASSUME StateTypes, OwnBatch, NEW p \in Importers,
         \/ Begin(p) \/ Fetch(p) \/ FetchFails(p) \/ Persist(p) \/ PersistFails(p)
         \/ Finish(p) \/ FinalizeFailure(p) \/ Stop(p)
  PROVE  /\ \A q \in Importers : q # p => task'[q] = task[q]
         /\ \A i \in Imports : raw'[i] # raw[i] =>
              task[p].step = "persist" /\ task[p].import = i
         /\ \A i \in Imports : batch'[i] # batch[i] =>
              \/ i = begun + 1 /\ task[p].step = "idle"
              \/ task[p].step \in {"finish", "fail"} /\ task[p].import = i
         /\ public \subseteq public'
         /\ faults \in Nat /\ faults' \in Nat /\ faults' >= faults
<1>1. \A q \in Importers : q # p => task'[q] = task[q]
  BY DEF Begin, Fetch, FetchFails, Persist, PersistFails, Finish, FinalizeFailure, Stop, Goto,
     End, StateTypes
<1>2. /\ \A i \in Imports : raw'[i] # raw[i] =>
           task[p].step = "persist" /\ task[p].import = i
      /\ public \subseteq public'
  BY DEF Begin, Fetch, FetchFails, Persist, PersistFails, Finish, FinalizeFailure, Stop, Store,
     End, StateTypes
<1>3. \A i \in Imports : batch'[i] # batch[i] =>
        \/ i = begun + 1 /\ task[p].step = "idle"
        \/ task[p].step \in {"finish", "fail"} /\ task[p].import = i
  BY DEF Begin, Fetch, FetchFails, Persist, PersistFails, Finish, FinalizeFailure, Stop, Store,
     End, StateTypes
<1>4. faults \in Nat /\ faults' \in Nat /\ faults' >= faults
  BY BoundsAssumption DEF Begin, Fetch, FetchFails, Persist, PersistFails, Finish,
     FinalizeFailure, Stop, Fault, End, StateTypes
<1> QED
  BY <1>1, <1>2, <1>3, <1>4

\* No two tasks at work share a batch.
LEMMA OwnStep ==
  ASSUME StateTypes, OwnBatch, [Next]_vars
  PROVE  OwnBatch'
<1>1. ASSUME NEW p \in Importers, Begin(p) PROVE OwnBatch'
  <2>1. /\ begun' = begun + 1 /\ begun \in Nat /\ begun + 1 \in Imports
        /\ task'[p].step = "fetch" /\ task'[p].import = begun + 1
        /\ batch'[begun + 1].state = "running" /\ raw' = raw
    BY <1>1, BoundsAssumption DEF Begin, IdleTask, StateTypes, Imports
  <2>2. /\ \A q \in Importers : q # p => task'[q] = task[q]
        /\ \A i \in Imports : i # begun + 1 => batch'[i] = batch[i]
    BY <1>1, OneMoves, <2>1 DEF Begin, StateTypes
  <2>3. \A q \in Importers : task[q].step # "idle" => task[q].import # begun + 1
    BY <2>1 DEF OwnBatch
  <2>4. \A q \in Importers : task'[q].step # "idle" =>
          task'[q].import \in 1..begun' /\ batch'[task'[q].import].state = "running"
    BY <2>1, <2>2, BoundsAssumption DEF OwnBatch, StateTypes, Imports
  <2>5. \A q, r \in Importers : q # r /\ task'[q].step # "idle" /\ task'[r].step # "idle" =>
          task'[q].import # task'[r].import
    BY <2>1, <2>2, <2>3 DEF OwnBatch
  <2>6. \A i \in Imports : i > begun' => batch'[i].state = "none" /\ raw'[i] = {}
    BY <2>1, <2>2 DEF OwnBatch, Imports
  <2> QED
    BY <2>4, <2>5, <2>6 DEF OwnBatch
<1>2. ASSUME NEW p \in Importers,
             \/ Fetch(p) \/ FetchFails(p) \/ Persist(p) \/ PersistFails(p)
             \/ Finish(p) \/ FinalizeFailure(p) \/ Stop(p)
      PROVE  OwnBatch'
  <2>1. /\ begun' = begun /\ begun \in Nat /\ task[p].step # "idle"
        /\ task'[p].step # "idle" => task'[p].import = task[p].import /\ batch' = batch
    BY <1>2, BoundsAssumption DEF Fetch, FetchFails, Persist, PersistFails, Finish,
       FinalizeFailure, Stop, Goto, End, Store, IdleTask, StateTypes, Tasks
  <2>2. /\ \A q \in Importers : q # p => task'[q] = task[q]
        /\ \A i \in Imports : i # task[p].import => batch'[i] = batch[i] /\ raw'[i] = raw[i]
    BY <1>2, <2>1, OneMoves
  <2>3. task[p].import \in 1..begun /\ 1..begun \subseteq Imports
    BY <2>1, BoundsAssumption DEF OwnBatch, StateTypes, Imports
  <2>4. \A q \in Importers : task'[q].step # "idle" =>
          task'[q].import \in 1..begun' /\ batch'[task'[q].import].state = "running"
    BY <2>1, <2>2, <2>3 DEF OwnBatch
  <2>5. \A q, r \in Importers : q # r /\ task'[q].step # "idle" /\ task'[r].step # "idle" =>
          task'[q].import # task'[r].import
    BY <2>1, <2>2 DEF OwnBatch
  <2>6. \A i \in Imports : i > begun' => batch'[i].state = "none" /\ raw'[i] = {}
    BY <2>1, <2>2, <2>3 DEF OwnBatch, Imports
  <2> QED
    BY <2>4, <2>5, <2>6 DEF OwnBatch
<1>3. CASE UNCHANGED vars
  BY <1>3 DEF vars, OwnBatch
<1> QED
  BY <1>1, <1>2, <1>3 DEF Next

\* Before its transaction an import has stored nothing.
LEMMA RawStep ==
  ASSUME StateTypes, OwnBatch, RawInv, [Next]_vars
  PROVE  RawInv'
<1>1. ASSUME NEW p \in Importers,
             \/ Begin(p) \/ Fetch(p) \/ FetchFails(p) \/ Persist(p) \/ PersistFails(p)
             \/ Finish(p) \/ FinalizeFailure(p) \/ Stop(p)
      PROVE  RawInv'
  <2>1. /\ task'[p].step \in {"fetch", "persist"} => raw'[task'[p].import] = {}
        /\ task'[p].step = "fail" /\ faults' = 0 => raw'[task'[p].import] = {}
    <3>1. CASE Begin(p)
      <4>1. begun + 1 \in Imports /\ begun + 1 > begun
        BY <3>1, BoundsAssumption DEF Begin, StateTypes, Imports
      <4> QED
        BY <3>1, <4>1 DEF Begin, IdleTask, StateTypes, OwnBatch
    <3>2. CASE Fetch(p) \/ FetchFails(p)
      <4>1. task[p].step = "fetch" /\ raw' = raw /\ task'[p].import = task[p].import
        BY <3>2 DEF Fetch, FetchFails, Goto, StateTypes, Tasks
      <4> QED
        BY <4>1 DEF RawInv
    <3>3. CASE Persist(p) \/ Finish(p) \/ FinalizeFailure(p) \/ Stop(p)
      BY <3>3 DEF Persist, Finish, FinalizeFailure, Stop, End, IdleTask, StateTypes, Tasks
    <3>4. CASE PersistFails(p)
      BY <3>4, BoundsAssumption DEF PersistFails, Fault, Goto, StateTypes, Tasks
    <3> QED
      BY <1>1, <3>1, <3>2, <3>3, <3>4
  <2>2. ASSUME NEW q \in Importers, q # p
        PROVE  /\ task'[q].step \in {"fetch", "persist"} => raw'[task'[q].import] = {}
               /\ task'[q].step = "fail" /\ faults' = 0 => raw'[task'[q].import] = {}
    <3>1. task'[q] = task[q] /\ (faults' = 0 => faults = 0)
      BY <1>1, <2>2, OneMoves
    <3>2. task[q].step # "idle" => raw'[task[q].import] = raw[task[q].import]
      BY <1>1, <2>2, OneMoves, BoundsAssumption DEF OwnBatch, StateTypes, Imports
    <3> QED
      BY <3>1, <3>2 DEF RawInv
  <2> QED
    BY <2>1, <2>2 DEF RawInv
<1>2. CASE UNCHANGED vars
  BY <1>2 DEF vars, RawInv
<1> QED
  BY <1>1, <1>2 DEF Next

\* What a transaction leaves.
LEMMA Stored ==
  ASSUME StateTypes, OwnBatch, RawInv, NEW p \in Importers, Store(p),
         NEW rows, rows = RowsOf(task[p].documents)
  PROVE  /\ {r.key : r \in raw'[task[p].import]} = KeysOf(rows)
         /\ KeysOf(rows) \ {Unreadable} \subseteq public'
         /\ \A k \in public' : k \in public \/ k \in KeysOf(rows)
         /\ task[p].import \in Imports
<1>1. task[p].documents \in Retrievals /\ task[p].import \in Imports /\ raw[task[p].import] = {}
  BY BoundsAssumption DEF Store, StateTypes, Tasks, OwnBatch, RawInv, Imports
<1>2. {rows[n].key : n \in RawRows(rows)} = KeysOf(rows)
  BY <1>1, KeysKept
<1>3. raw'[task[p].import] = {rows[n] : n \in RawRows(rows)}
  BY <1>1 DEF Store, StateTypes
<1>4. {r.key : r \in raw'[task[p].import]} = KeysOf(rows)
  BY <1>2, <1>3
<1>5. public' = public \cup {rows[n].key : n \in PublicRows(rows)}
  BY DEF Store
<1>6. KeysOf(rows) \ {Unreadable} \subseteq public'
  BY <1>2, <1>5 DEF PublicRows, Readable
<1>7. \A k \in public' : k \in public \/ k \in KeysOf(rows)
  BY <1>2, <1>5 DEF PublicRows, Readable
<1> QED
  BY <1>1, <1>4, <1>6, <1>7

\* What a task knows of its batch at the end of its transaction.
LEMMA FinishStep ==
  ASSUME StateTypes, OwnBatch, RawInv, FinishInv, [Next]_vars
  PROVE  FinishInv'
<1>1. ASSUME NEW p \in Importers,
             \/ Begin(p) \/ Fetch(p) \/ FetchFails(p) \/ Persist(p) \/ PersistFails(p)
             \/ Finish(p) \/ FinalizeFailure(p) \/ Stop(p)
      PROVE  FinishInv'
  <2>1. ASSUME NEW q \in Importers, q # p, task'[q].step = "finish"
        PROVE  /\ Adds(task'[q].result)
               /\ {r.key : r \in raw'[task'[q].import]} = KeysOf(RowsOf(task'[q].documents))
               /\ KeysOf(RowsOf(task'[q].documents)) \ {Unreadable} \subseteq public'
               /\ task'[q].result.rejected > 0 <=>
                    Unreadable \in {r.key : r \in raw'[task'[q].import]}
    <3>1. task'[q] = task[q] /\ public \subseteq public'
      BY <1>1, <2>1, OneMoves
    <3>2. raw'[task[q].import] = raw[task[q].import]
      BY <1>1, <2>1, <3>1, OneMoves, BoundsAssumption DEF OwnBatch, StateTypes, Imports
    <3> QED
      BY <2>1, <3>1, <3>2 DEF FinishInv, Kept
  <2>2. ASSUME task'[p].step = "finish"
        PROVE  /\ Adds(task'[p].result)
               /\ {r.key : r \in raw'[task'[p].import]} = KeysOf(RowsOf(task'[p].documents))
               /\ KeysOf(RowsOf(task'[p].documents)) \ {Unreadable} \subseteq public'
               /\ task'[p].result.rejected > 0 <=>
                    Unreadable \in {r.key : r \in raw'[task'[p].import]}
    <3>1. Persist(p)
      <4>1. Begin(p) \/ Fetch(p) \/ FetchFails(p) \/ PersistFails(p) =>
              task'[p].step \in {"fetch", "persist", "fail"}
        BY DEF Begin, Fetch, FetchFails, PersistFails, Goto, StateTypes, Tasks
      <4>2. Finish(p) \/ FinalizeFailure(p) \/ Stop(p) => task'[p] = IdleTask
        BY DEF Finish, FinalizeFailure, Stop, End, StateTypes
      <4> QED
        BY <1>1, <2>2, <4>1, <4>2 DEF IdleTask
    <3>2. PICK rows : rows = RowsOf(task[p].documents)
      OBVIOUS
    <3>3. /\ task'[p].documents = task[p].documents /\ task'[p].import = task[p].import
          /\ task'[p].result = Result(rows)
      BY <3>1, <3>2 DEF Persist, StateTypes, Tasks
    <3>4. Adds(Result(rows)) /\ (Result(rows).rejected > 0 <=> Unreadable \in KeysOf(rows))
      BY <3>2, ResultAdds DEF StateTypes, Tasks
    <3>5. /\ {r.key : r \in raw'[task[p].import]} = KeysOf(rows)
          /\ KeysOf(rows) \ {Unreadable} \subseteq public'
      BY <3>1, <3>2, Stored DEF Persist
    <3> QED
      BY <3>2, <3>3, <3>4, <3>5
  <2> QED
    BY <2>1, <2>2 DEF FinishInv, Kept
<1>2. CASE UNCHANGED vars
  BY <1>2 DEF vars, FinishInv, Kept
<1> QED
  BY <1>1, <1>2 DEF Next

\* A public observation is in the raw rows of a batch.
LEMMA TracedStep ==
  ASSUME StateTypes, OwnBatch, RawInv, Traced, [Next]_vars
  PROVE  Traced'
<1>1. ASSUME NEW p \in Importers, Store(p) PROVE Traced'
  <2>1. PICK rows : rows = RowsOf(task[p].documents)
    OBVIOUS
  <2>2. /\ {r.key : r \in raw'[task[p].import]} = KeysOf(rows)
        /\ \A k \in public' : k \in public \/ k \in KeysOf(rows)
        /\ task[p].import \in Imports
    BY <1>1, <2>1, Stored
  <2>3. \A i \in Imports : raw[i] \subseteq raw'[i]
    BY <1>1, <2>2 DEF Store, StateTypes
  <2> QED
    BY <2>2, <2>3 DEF Traced, Kept
<1>2. CASE UNCHANGED <<raw, public>>
  BY <1>2 DEF Traced, Kept
<1> QED
  BY <1>1, <1>2 DEF Next, Begin, Fetch, FetchFails, Persist, PersistFails, Finish,
     FinalizeFailure, Stop, End, vars

\* The end of an import writes what its task knows.
LEMMA EndStep ==
  ASSUME StateTypes, OwnBatch, RawInv, FinishInv, RowsAccounted, StateMatchesRows, [Next]_vars
  PROVE  RowsAccounted' /\ StateMatchesRows'
<1>1. ASSUME NEW p \in Importers,
             \/ Begin(p) \/ Fetch(p) \/ FetchFails(p) \/ Persist(p) \/ PersistFails(p)
             \/ Finish(p) \/ FinalizeFailure(p) \/ Stop(p),
             NEW i \in Imports
      PROVE  /\ Adds(batch'[i].counts)
             /\ batch'[i].state = "partially_succeeded" => Unreadable \in {r.key : r \in raw'[i]}
             /\ batch'[i].state = "succeeded" => Unreadable \notin {r.key : r \in raw'[i]}
             /\ batch'[i].state = "failed" /\ faults' = 0 => raw'[i] = {}
  <2>1. /\ Adds(batch[i].counts)
        /\ batch[i].state = "partially_succeeded" => Unreadable \in {r.key : r \in raw[i]}
        /\ batch[i].state = "succeeded" => Unreadable \notin {r.key : r \in raw[i]}
        /\ batch[i].state = "failed" /\ faults = 0 => raw[i] = {}
    BY DEF RowsAccounted, StateMatchesRows, Adds
  <2>2. faults' = 0 => faults = 0
    BY <1>1, OneMoves
  <2>3. CASE batch'[i] = batch[i]
    <3>1. CASE raw'[i] = raw[i]
      BY <2>1, <2>2, <2>3, <3>1
    <3>2. CASE raw'[i] # raw[i]
      <4>1. batch[i].state = "running"
        BY <1>1, <3>2, OneMoves DEF OwnBatch
      <4> QED
        BY <2>1, <2>3, <4>1
    <3> QED
      BY <3>1, <3>2
  <2>4. CASE Begin(p) /\ batch'[i] # batch[i]
    BY <2>1, <2>4 DEF Begin, StateTypes
  <2>5. CASE Finish(p) /\ batch'[i] # batch[i]
    <3>1. /\ i = task[p].import /\ task[p].step = "finish" /\ raw' = raw
          /\ batch'[i] = [state |-> FinalState(task[p].result), counts |-> task[p].result]
      BY <2>5 DEF Finish, End, StateTypes
    <3>2. Adds(task[p].result) /\ (task[p].result.rejected > 0 <=> Unreadable \in Kept(i))
      BY <3>1 DEF FinishInv
    <3> QED
      BY <3>1, <3>2 DEF FinalState, Kept
  <2>6. CASE FinalizeFailure(p) /\ batch'[i] # batch[i]
    <3>1. /\ i = task[p].import /\ task[p].step = "fail" /\ raw' = raw /\ faults' = faults
          /\ batch'[i] = [state |-> "failed", counts |-> Zero]
      BY <2>6 DEF FinalizeFailure, End, StateTypes
    <3> QED
      BY <3>1 DEF RawInv, Adds, Zero
  <2> QED
    BY <1>1, <2>3, <2>4, <2>5, <2>6 DEF Fetch, FetchFails, Persist, PersistFails, Stop
<1>2. CASE UNCHANGED vars
  BY <1>2 DEF vars, RowsAccounted, StateMatchesRows
<1> QED
  <2>1. CASE \E p \in Importers :
               \/ Begin(p) \/ Fetch(p) \/ FetchFails(p) \/ Persist(p) \/ PersistFails(p)
               \/ Finish(p) \/ FinalizeFailure(p) \/ Stop(p)
    BY <1>1, <2>1 DEF RowsAccounted, StateMatchesRows, Adds
  <2> QED
    BY <1>2, <2>1 DEF Next

-----------------------------------------------------------------------------
(* The credits.                                                            *)

\* The observations and the credits are finitely many, and a batch reports
\* none before its import ends.
CreditsInv ==
  /\ IsFiniteSet(public) /\ IsFiniteSet(Reported) /\ IsFiniteSet(Committed)
  /\ \A i \in Imports : batch[i].state \in {"none", "running"} => batch[i].counts = Zero
  /\ CreditedOnce

LEMMA DisjointSum ==
  ASSUME NEW S, NEW T, IsFiniteSet(S), IsFiniteSet(T), S \cap T = {}
  PROVE  /\ IsFiniteSet(S \cup T)
         /\ Cardinality(S \cup T) = Cardinality(S) + Cardinality(T)
         /\ Cardinality(S) \in Nat /\ Cardinality(T) \in Nat
<1>1. /\ IsFiniteSet(S \cup T)
      /\ Cardinality(S \cup T) = Cardinality(S) + Cardinality(T) - Cardinality(S \cap T)
  BY FS_Union
<1>2. Cardinality(S) \in Nat /\ Cardinality(T) \in Nat /\ Cardinality(S \cap T) = 0
  BY FS_CardinalityType, FS_EmptySet
<1> QED
  BY <1>1, <1>2

\* The credits of one batch or of one import are as many as it says.
LEMMA CreditsOfOne ==
  ASSUME NEW x, NEW m \in Nat
  PROVE  IsFiniteSet({x} \X (1..m)) /\ Cardinality({x} \X (1..m)) = m
<1>1. IsFiniteSet({x}) /\ Cardinality({x}) = 1
  BY FS_Singleton
<1>2. IsFiniteSet(1..m) /\ Cardinality(1..m) = m
  BY FS_Interval
<1>3. Cardinality({x} \X (1..m)) = Cardinality({x}) * Cardinality(1..m)
  BY <1>1, <1>2, FS_Product
<1> QED
  BY <1>1, <1>2, <1>3, FS_Product

\* A transaction inserts as many observations as it counts.
LEMMA ObservationsCounted ==
  ASSUME StateTypes, NEW documents \in Retrievals, NEW rows, rows = RowsOf(documents),
         IsFiniteSet(public)
  PROVE  LET new == {rows[n].key : n \in PublicRows(rows)} IN
         /\ IsFiniteSet(public \cup new)
         /\ Cardinality(public \cup new) = Cardinality(public) + Result(rows).inserted
         /\ Cardinality(public) \in Nat /\ Result(rows).inserted \in Nat
<1> DEFINE new == {rows[n].key : n \in PublicRows(rows)}
           key == [n \in PublicRows(rows) |-> rows[n].key]
<1>1. /\ IsFiniteSet(DOMAIN rows) /\ DOMAIN rows \subseteq Nat \X Nat
      /\ \A n \in DOMAIN rows : rows[n].key # Unreadable => rows[n].id = rows[n].key
  BY RowsShape
<1>2. /\ PublicRows(rows) \subseteq First(rows) /\ First(rows) \subseteq DOMAIN rows
      /\ \A n \in PublicRows(rows) : rows[n].key # Unreadable /\ rows[n].key \notin public
  BY DEF PublicRows, Readable, RawRows, First
<1>3. \A m, n \in First(rows) : rows[m].id = rows[n].id => m = n
  <2> SUFFICES ASSUME NEW m \in First(rows), NEW n \in First(rows),
                      rows[m].id = rows[n].id, m # n
               PROVE  FALSE
    OBVIOUS
  <2>1. m \in DOMAIN rows /\ n \in DOMAIN rows
    BY <1>2
  <2>2. Earlier(m, n) \/ Earlier(n, m)
    <3>1. PICK i \in Nat, j \in Nat : m = <<i, j>>
      BY <1>1, <2>1
    <3>2. PICK k \in Nat, l \in Nat : n = <<k, l>>
      BY <1>1, <2>1
    <3>3. i # k \/ j # l
      BY <3>1, <3>2
    <3> QED
      BY <3>1, <3>2, <3>3 DEF Earlier
  <2> QED
    BY <2>1, <2>2 DEF First
<1>4. \A m, n \in PublicRows(rows) : rows[m].key = rows[n].key => m = n
  <2> SUFFICES ASSUME NEW m \in PublicRows(rows), NEW n \in PublicRows(rows),
                      rows[m].key = rows[n].key
               PROVE  m = n
    OBVIOUS
  <2>1. m \in First(rows) /\ n \in First(rows) /\ m \in DOMAIN rows /\ n \in DOMAIN rows
    BY <1>2
  <2>2. rows[m].id = rows[n].id
    BY <1>1, <1>2, <2>1
  <2> QED
    BY <1>3, <2>1, <2>2
<1>5. key \in Bijection(PublicRows(rows), new)
  BY <1>4 DEF Bijection, Injection, Surjection, IsInjective
<1>6. IsFiniteSet(PublicRows(rows))
  BY <1>1, <1>2, FS_Subset
<1>7. IsFiniteSet(new) /\ Cardinality(new) = Cardinality(PublicRows(rows))
  BY <1>5, <1>6, FS_Bijection DEF ExistsBijection
<1>8. public \cap new = {}
  BY <1>2
<1>9. /\ IsFiniteSet(public \cup new)
      /\ Cardinality(public \cup new) = Cardinality(public) + Cardinality(new)
      /\ Cardinality(public) \in Nat /\ Cardinality(new) \in Nat
  <2> HIDE DEF new
  <2> QED
    BY <1>7, <1>8, DisjointSum
<1>10. Result(rows).inserted = Cardinality(PublicRows(rows))
  BY DEF Result
<1> QED
  BY <1>7, <1>9, <1>10

\* The steps that leave the observations and the credits alone, but a fault
\* may have come.
LEMMA CreditsKept ==
  ASSUME CreditsInv, StateTypes, UNCHANGED <<Reported, Committed, public>>,
         faults' = 0 => faults = 0,
         \A i \in Imports : batch'[i].state \in {"none", "running"} => batch'[i].counts = Zero
  PROVE  CreditsInv'
<1>1. Credited' = Credited
  BY DEF Credited
<1> QED
  BY <1>1 DEF CreditsInv, CreditedOnce

\* The results known of the imports that are not at their end do not count.
LEMMA CommittedBy ==
  ASSUME NEW p \in Importers, \A q \in Importers : q # p => task'[q] = task[q],
         task[p].step # "finish"
  PROVE  /\ task'[p].step # "finish" => Committed' = Committed
         /\ task'[p].step = "finish" =>
              /\ Committed' = Committed \cup ({p} \X (1..task'[p].result.inserted))
              /\ Committed \cap ({p} \X (1..task'[p].result.inserted)) = {}
<1>1. p \notin Finishing
  BY DEF Finishing
<1>2. CASE task'[p].step # "finish"
  <2>1. Finishing' = Finishing /\ \A q \in Finishing : task'[q] = task[q]
    BY <1>1, <1>2 DEF Finishing
  <2> QED
    BY <1>2, <2>1 DEF Committed
<1>3. CASE task'[p].step = "finish"
  <2>1. Finishing' = Finishing \cup {p} /\ \A q \in Finishing : task'[q] = task[q]
    BY <1>1, <1>3 DEF Finishing
  <2>2. Committed' = UNION {{q} \X (1..task'[q].result.inserted) : q \in Finishing \cup {p}}
    BY <2>1 DEF Committed
  <2>3. Committed' = Committed \cup ({p} \X (1..task'[p].result.inserted))
    BY <2>1, <2>2 DEF Committed
  <2>4. Committed \cap ({p} \X (1..task'[p].result.inserted)) = {}
    BY <1>1 DEF Committed
  <2> QED
    BY <1>3, <2>3, <2>4
<1> QED
  BY <1>2, <1>3

\* An import that ends or stops gives up what it committed.
LEMMA CommittedLost ==
  ASSUME NEW p \in Importers, \A q \in Importers : q # p => task'[q] = task[q],
         task'[p].step # "finish", task[p].step = "finish"
  PROVE  /\ Committed = Committed' \cup ({p} \X (1..task[p].result.inserted))
         /\ Committed' \cap ({p} \X (1..task[p].result.inserted)) = {}
<1>1. Finishing' = Finishing \ {p} /\ p \in Finishing
      /\ \A q \in Finishing \ {p} : task'[q] = task[q]
  BY DEF Finishing
<1>2. Committed' = UNION {{q} \X (1..task[q].result.inserted) : q \in Finishing \ {p}}
  BY <1>1 DEF Committed
<1>3. Committed = Committed' \cup ({p} \X (1..task[p].result.inserted))
  BY <1>1, <1>2 DEF Committed
<1>4. Committed' \cap ({p} \X (1..task[p].result.inserted)) = {}
  BY <1>2
<1> QED
  BY <1>3, <1>4

\* However imports interleave, each observation gives one credit, and only a
\* fault loses credits.
LEMMA CreditStep ==
  ASSUME StateTypes, OwnBatch, CreditsInv, [Next]_vars
  PROVE  CreditsInv'
<1>1. ASSUME NEW p \in Importers, Begin(p) PROVE CreditsInv'
  <2>1. begun + 1 \in Imports
    BY <1>1, BoundsAssumption DEF Begin, StateTypes, Imports
  <2>2. /\ \A i \in Imports : batch'[i].counts = batch[i].counts
        /\ \A i \in Imports : batch'[i].state = batch[i].state \/ batch[i].state = "none"
    BY <1>1, <2>1 DEF Begin, StateTypes, OwnBatch, Imports
  <2>3. Reported' = Reported
    BY <2>2 DEF Reported
  <2>4. Committed' = Committed
    <3>1. task[p].step # "finish" /\ task'[p].step # "finish"
      BY <1>1 DEF Begin, StateTypes, Tasks
    <3> QED
      BY <1>1, <3>1, OneMoves, CommittedBy
  <2>5. UNCHANGED <<public, faults>>
    BY <1>1 DEF Begin
  <2>6. \A i \in Imports : batch'[i].state \in {"none", "running"} => batch'[i].counts = Zero
    BY <2>2 DEF CreditsInv
  <2> QED
    BY <2>3, <2>4, <2>5, <2>6, CreditsKept
<1>2. ASSUME NEW p \in Importers, Fetch(p) \/ FetchFails(p) PROVE CreditsInv'
  <2>1. /\ UNCHANGED <<batch, public, faults>>
        /\ task[p].step # "finish" /\ task'[p].step # "finish"
    BY <1>2 DEF Fetch, FetchFails, Goto, StateTypes, Tasks
  <2>2. Committed' = Committed
    BY <1>2, <2>1, OneMoves, CommittedBy
  <2>3. Reported' = Reported
    BY <2>1 DEF Reported
  <2> QED
    BY <2>1, <2>2, <2>3, CreditsKept DEF CreditsInv
<1>3. ASSUME NEW p \in Importers, Store(p)
      PROVE  LET m == Result(RowsOf(task[p].documents)).inserted IN
             /\ IsFiniteSet(public') /\ Cardinality(public') = Cardinality(public) + m
             /\ Cardinality(public) \in Nat /\ m \in Nat /\ task[p].step = "persist"
  <2>1. PICK rows : rows = RowsOf(task[p].documents)
    OBVIOUS
  <2>2. task[p].documents \in Retrievals /\ IsFiniteSet(public)
    BY DEF StateTypes, Tasks, CreditsInv
  <2>3. public' = public \cup {rows[n].key : n \in PublicRows(rows)} /\ task[p].step = "persist"
    BY <1>3, <2>1 DEF Store
  <2> QED
    BY <2>1, <2>2, <2>3, ObservationsCounted
<1>4. /\ Cardinality(Reported) \in Nat /\ Cardinality(Committed) \in Nat
      /\ Cardinality(public) \in Nat
  BY FS_CardinalityType DEF CreditsInv
<1>5. ASSUME NEW p \in Importers, Persist(p) PROVE CreditsInv'
  <2> DEFINE m == Result(RowsOf(task[p].documents)).inserted
  <2>1. /\ IsFiniteSet(public') /\ Cardinality(public') = Cardinality(public) + m
        /\ m \in Nat /\ task[p].step = "persist"
    BY <1>3, <1>5 DEF Persist
  <2>2. /\ UNCHANGED <<batch, faults>> /\ task'[p].step = "finish"
        /\ task'[p].result.inserted = m
    BY <1>5 DEF Persist, StateTypes, Tasks
  <2> HIDE DEF m
  <2>3. /\ Committed' = Committed \cup ({p} \X (1..m))
        /\ Committed \cap ({p} \X (1..m)) = {}
    BY <1>5, <2>1, <2>2, OneMoves, CommittedBy
  <2>4. IsFiniteSet({p} \X (1..m)) /\ Cardinality({p} \X (1..m)) = m
    BY <2>1, CreditsOfOne
  <2>5. IsFiniteSet(Committed') /\ Cardinality(Committed') = Cardinality(Committed) + m
    BY <2>3, <2>4, DisjointSum DEF CreditsInv
  <2>6. Reported' = Reported
    BY <2>2 DEF Reported
  <2>7. CreditedOnce'
    BY <1>4, <2>1, <2>2, <2>5, <2>6 DEF CreditedOnce, Credited, CreditsInv
  <2> QED
    BY <2>1, <2>2, <2>5, <2>6, <2>7 DEF CreditsInv
<1>6. ASSUME NEW p \in Importers, PersistFails(p) PROVE CreditsInv'
  <2>1. /\ IsFiniteSet(public') /\ Cardinality(public) <= Cardinality(public')
        /\ Cardinality(public') \in Nat /\ task[p].step = "persist"
    <3>1. CASE UNCHANGED <<raw, public>> /\ task[p].step = "persist"
      BY <1>4, <3>1 DEF CreditsInv
    <3>2. CASE Store(p)
      BY <1>3, <3>2
    <3> QED
      BY <1>6, <3>1, <3>2 DEF PersistFails
  <2>2. /\ batch' = batch /\ task'[p].step = "fail" /\ faults' # 0
    BY <1>6, BoundsAssumption DEF PersistFails, Fault, Goto, StateTypes, Tasks
  <2>3. Committed' = Committed
    BY <1>6, <2>1, <2>2, OneMoves, CommittedBy
  <2>4. Reported' = Reported
    BY <2>2 DEF Reported
  <2>5. CreditedOnce'
    BY <1>4, <2>1, <2>2, <2>3, <2>4 DEF CreditedOnce, Credited, CreditsInv
  <2> QED
    BY <2>1, <2>2, <2>3, <2>4, <2>5 DEF CreditsInv
<1>7. ASSUME NEW p \in Importers, Finish(p) PROVE CreditsInv'
  <2> DEFINE i == task[p].import
             m == task[p].result.inserted
  <2>1. /\ i \in Imports /\ batch[i].counts = Zero /\ m \in Nat
        /\ task[p].step = "finish" /\ task[p].result \in Counts
    BY <1>7, BoundsAssumption
       DEF Finish, OwnBatch, CreditsInv, StateTypes, Tasks, Counts, Imports
  <2>2. /\ batch'[i] = [state |-> FinalState(task[p].result), counts |-> task[p].result]
        /\ \A j \in Imports : j # i => batch'[j] = batch[j]
        /\ task'[p] = IdleTask /\ UNCHANGED <<public, faults>>
    BY <1>7, <2>1 DEF Finish, End, StateTypes
  <2>3. task'[p].step # "finish" /\ batch'[i].counts.inserted = m
        /\ batch'[i].state \notin {"none", "running"}
    BY <2>2 DEF IdleTask, FinalState
  <2> HIDE DEF i, m
  <2>4. /\ Committed = Committed' \cup ({p} \X (1..m))
        /\ Committed' \cap ({p} \X (1..m)) = {}
    BY <1>7, <2>1, <2>3, OneMoves, CommittedLost DEF m
  <2>5. IsFiniteSet({p} \X (1..m)) /\ Cardinality({p} \X (1..m)) = m
    BY <2>1, CreditsOfOne
  <2>6. IsFiniteSet(Committed')
    BY <2>4, FS_Subset DEF CreditsInv
  <2>7. Cardinality(Committed) = Cardinality(Committed') + m /\ Cardinality(Committed') \in Nat
    BY <2>4, <2>5, <2>6, DisjointSum
  <2>8. /\ Reported' = Reported \cup ({i} \X (1..m))
        /\ Reported \cap ({i} \X (1..m)) = {}
    <3>1. batch[i].counts.inserted = 0
      BY <2>1 DEF Zero
    <3>2. 1..batch[i].counts.inserted = {}
      BY <3>1
    <3>3. \A j \in Imports : j # i => batch'[j].counts.inserted = batch[j].counts.inserted
      BY <2>2
    <3>4. Reported = UNION {{j} \X (1..batch[j].counts.inserted) : j \in Imports \ {i}}
      BY <3>2 DEF Reported
    <3>5. Reported' = UNION {{j} \X (1..batch'[j].counts.inserted) : j \in Imports}
      BY DEF Reported, Imports
    <3>6. Reported' = Reported \cup ({i} \X (1..m))
      BY <2>1, <2>3, <3>3, <3>4, <3>5
    <3>7. Reported \cap ({i} \X (1..m)) = {}
      BY <3>4
    <3> QED
      BY <3>6, <3>7
  <2>9. IsFiniteSet({i} \X (1..m)) /\ Cardinality({i} \X (1..m)) = m
    BY <2>1, CreditsOfOne
  <2>10. IsFiniteSet(Reported') /\ Cardinality(Reported') = Cardinality(Reported) + m
    BY <2>8, <2>9, DisjointSum DEF CreditsInv
  <2>11. Credited' = Credited
    BY <1>4, <2>1, <2>7, <2>10 DEF Credited
  <2>12. \A j \in Imports : batch'[j].state \in {"none", "running"} => batch'[j].counts = Zero
    BY <2>2, <2>3 DEF CreditsInv
  <2> QED
    BY <2>2, <2>6, <2>10, <2>11, <2>12 DEF CreditsInv, CreditedOnce, Imports
<1>8. ASSUME NEW p \in Importers, FinalizeFailure(p) PROVE CreditsInv'
  <2>1. /\ task[p].import \in Imports /\ batch[task[p].import].counts = Zero
        /\ task[p].step = "fail"
    BY <1>8, BoundsAssumption
       DEF FinalizeFailure, OwnBatch, CreditsInv, StateTypes, Imports
  <2>2. /\ \A i \in Imports : batch'[i].counts = batch[i].counts
        /\ \A i \in Imports : batch'[i] = batch[i] \/ batch'[i].state = "failed"
        /\ task'[p] = IdleTask /\ UNCHANGED <<public, faults>>
    BY <1>8, <2>1 DEF FinalizeFailure, End, StateTypes
  <2>3. Reported' = Reported
    BY <2>2 DEF Reported
  <2>4. Committed' = Committed
    BY <1>8, <2>1, <2>2, OneMoves, CommittedBy DEF IdleTask
  <2>5. \A i \in Imports : batch'[i].state \in {"none", "running"} => batch'[i].counts = Zero
    BY <2>2 DEF CreditsInv
  <2> QED
    BY <2>2, <2>3, <2>4, <2>5, CreditsKept
<1>9. ASSUME NEW p \in Importers, Stop(p) PROVE CreditsInv'
  <2>1. /\ UNCHANGED <<batch, public>> /\ task'[p].step # "finish" /\ faults' # 0
    BY <1>9, BoundsAssumption DEF Stop, Fault, IdleTask, StateTypes
  <2>2. Committed' \in SUBSET Committed
    <3>1. CASE task[p].step = "finish"
      BY <1>9, <2>1, <3>1, OneMoves, CommittedLost
    <3>2. CASE task[p].step # "finish"
      BY <1>9, <2>1, <3>2, OneMoves, CommittedBy
    <3> QED
      BY <3>1, <3>2
  <2>3. IsFiniteSet(Committed') /\ Cardinality(Committed') <= Cardinality(Committed)
    BY <2>2, FS_Subset DEF CreditsInv
  <2>4. Cardinality(Committed') \in Nat
    BY <2>3, FS_CardinalityType
  <2>5. Reported' = Reported
    BY <2>1 DEF Reported
  <2>6. CreditedOnce'
    BY <1>4, <2>1, <2>3, <2>4, <2>5 DEF CreditedOnce, Credited, CreditsInv
  <2> QED
    BY <2>1, <2>3, <2>5, <2>6 DEF CreditsInv
<1>10. CASE UNCHANGED vars
  <2>1. UNCHANGED <<Reported, Committed, public, faults, batch>>
    BY <1>10 DEF vars, Reported, Committed, Finishing
  <2> QED
    BY <2>1, CreditsKept DEF CreditsInv
<1> QED
  BY <1>1, <1>2, <1>5, <1>6, <1>7, <1>8, <1>9, <1>10 DEF Next

LEMMA CreditStart == Init => CreditsInv
<1> SUFFICES ASSUME Init PROVE CreditsInv
  OBVIOUS
<1>1. Reported = {}
  <2>1. \A i \in Imports : 1..batch[i].counts.inserted = {}
    BY DEF Init, Zero
  <2> QED
    BY <2>1 DEF Reported
<1>2. Committed = {}
  BY DEF Init, IdleTask, Finishing, Committed
<1>3. public = {}
  BY DEF Init
<1>4. CreditedOnce
  BY <1>1, <1>2, <1>3, FS_EmptySet DEF CreditedOnce, Credited
<1> QED
  BY <1>1, <1>2, <1>3, <1>4, FS_EmptySet DEF Init, CreditsInv

-----------------------------------------------------------------------------
(* What is proved.                                                         *)

LEMMA InvStart == Init => ImportInv
<1> SUFFICES ASSUME Init PROVE ImportInv
  OBVIOUS
<1>1. Zero \in Counts /\ <<>> \in Retrievals
  BY DEF Zero, Counts, Retrievals
<1>2. IdleTask \in Tasks
  BY <1>1, BoundsAssumption DEF IdleTask, Tasks, Steps
<1>3. StateTypes
  BY <1>1, <1>2, BoundsAssumption DEF Init, StateTypes, States
<1>4. OwnBatch /\ RawInv /\ FinishInv /\ Traced
  BY DEF Init, IdleTask, OwnBatch, RawInv, FinishInv, Traced, Imports
<1>5. RowsAccounted /\ StateMatchesRows
  BY DEF Init, RowsAccounted, StateMatchesRows, Zero
<1> QED
  BY <1>3, <1>4, <1>5 DEF ImportInv

\* The inductive invariant: a task at work owns a running batch, and knows at
\* the end of its transaction what that batch has.
THEOREM ImportsCorrect == Spec => []ImportInv
<1>1. ImportInv /\ [Next]_vars => ImportInv'
  BY TypesStep, OwnStep, RawStep, FinishStep, TracedStep, EndStep DEF ImportInv
<1> QED
  BY <1>1, InvStart, PTL DEF Spec

\* A batch says of its retrieval what became of it, whatever other imports
\* stored meanwhile and wherever processes stopped: its counts add up, its
\* state says whether a row was unreadable, every detection it read is public,
\* and every public one has a raw row.
THEOREM BatchesHonestHolds == Spec => []BatchesHonest
<1>1. ImportInv => TypeOK
  BY DEF ImportInv, StateTypes, TypeOK, Tasks, Steps
<1>2. ImportInv => RetrievalKept
  <2> SUFFICES ASSUME ImportInv PROVE RetrievalKept
    OBVIOUS
  <2>1. \A p \in Finishing :
          /\ {r.key : r \in raw[task[p].import]} = KeysOf(RowsOf(task[p].documents))
          /\ KeysOf(RowsOf(task[p].documents)) \ {Unreadable} \subseteq public
    BY DEF ImportInv, FinishInv, Finishing, Kept
  <2>2. public \subseteq {r.key : r \in UNION {raw[i] : i \in Imports}}
    BY DEF ImportInv, Traced, Kept
  <2> QED
    BY <2>1, <2>2 DEF RetrievalKept, KeysOf
<1>3. ImportInv => BatchesHonest
  BY <1>1, <1>2 DEF ImportInv, BatchesHonest
<1> QED
  BY <1>3, ImportsCorrect, PTL

\* However the imports of any number of tasks interleave, a public observation
\* is credited to one import at most, and to one exactly unless a fault lost
\* the result of a transaction (rows_affected of the ON CONFLICT clauses).
THEOREM CreditedOnceHolds == Spec => []CreditedOnce
<1>1. ImportInv /\ CreditsInv /\ [Next]_vars => CreditsInv'
  BY CreditStep DEF ImportInv
<1>2. CreditsInv => CreditedOnce
  BY DEF CreditsInv
<1> QED
  BY <1>1, <1>2, ImportsCorrect, CreditStart, PTL DEF Spec
=============================================================================
